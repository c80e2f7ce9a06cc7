------------------------ MODULE MCRepositoryListing ------------------------
(* A small instance of RepositoryListing: two tags, one before and one     *)
(* after the digest in the order of the directory, and their temporary     *)
(* names; one manifest, which refers to the one that is asked about.       *)
EXTENDS RepositoryListing, TLC

CONSTANTS signature, c1, s1

MCTag == {1, 5}
MCDigest == {3}
MCTemp == 1 :> 2 @@ 3 :> 4 @@ 5 :> 6
MCDocument == {signature}
OneClient == {c1}
OneScan == {s1}

(* The walk and the scan share only the directory, which may change in any *)
(* way: one of them at a time is enough.                                   *)
OneAtATime == \/ \A c \in Client : walk[c] # "next"
              \/ \A s \in Scan : todo[s] = {}
=============================================================================
