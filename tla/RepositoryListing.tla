-------------------------- MODULE RepositoryListing --------------------------
(***************************************************************************)
(* What is listed of a repository while it changes: the tags, page by      *)
(* page, and the referrers of one manifest, file by file.                  *)
(*                                                                         *)
(* The directory of a repository has a file for every reference that was   *)
(* put and one named <reference>.tmp for every put that is under way or    *)
(* broke off.  os.ReadDir returns the names in order; a name is a number,  *)
(* its place in that order.  How puts come to write and rename files is    *)
(* left to ManifestStore: here any file may be written and installed and   *)
(* any reference deleted at any time, which is more than puts do.          *)
(* No name is empty, so 0 is the place of the query that names no tag.     *)
(***************************************************************************)
EXTENDS Naturals, FiniteSets

CONSTANTS
  Tag,      \* references that are tags
  Digest,   \* references that are digests
  Temp,     \* [Tag \cup Digest -> Nat]: the place of <reference>.tmp
  Document, \* manifests
  Refers,   \* those whose subject is the manifest that is asked about
  NoFile, Unparsable,
  PageSize, \* the parameter n of the query
  Client,   \* clients that walk over the tags
  Scan      \* goroutines that serve GET referrers

Reference == Tag \cup Digest
TempName == {Temp[n] : n \in Reference}
Name == Reference \cup TempName

ASSUME NameAssumption ==
  /\ Reference \subseteq Nat \ {0} /\ IsFiniteSet(Reference) /\ Tag \cap Digest = {}
  /\ Temp \in [Reference -> Nat \ {0}] /\ TempName \cap Reference = {}
  /\ \A n, k \in Reference : Temp[n] = Temp[k] => n = k
ASSUME DocumentAssumption ==
  Refers \subseteq Document /\ {NoFile, Unparsable} \cap Document = {}
ASSUME PageSizeAssumption == PageSize \in Nat \ {0}

VARIABLES
  dir,     \* [Name -> Document, Unparsable or NoFile]
  walk,    \* [Client -> {"idle", "next", "over"}]
  last,    \* [Client -> Name or 0]: the parameter last of the next query
  todo,    \* [Scan -> SUBSET Name]: entries that GetReferrers has not read yet
  found    \* [Scan -> SUBSET (Name \X Document)]: its descriptors so far

(* History, for the properties. *)
VARIABLES
  twice,   \* clients that were given a name again, or one out of order
  owed,    \* [Client -> SUBSET Name]: there ever since the walk began, not listed yet
  kept     \* [Scan -> SUBSET (Name \X Document)]: files as they were when the scan began

walkVars == <<walk, last, twice>>
scanVars == <<todo, found>>
vars == <<dir, walkVars, scanVars, owed, kept>>

(* "sha256:..." also begins the temporary name of a digest. *)
Listed == Tag \cup {Temp[t] : t \in Tag}

Present == {n \in Name : dir[n] # NoFile}
Files == {f \in Name \X Document : dir[f[1]] = f[2]}

TypeOK ==
  /\ dir \in [Name -> Document \cup {Unparsable, NoFile}]
  /\ walk \in [Client -> {"idle", "next", "over"}]
  /\ last \in [Client -> Listed \cup {0}]
  /\ todo \in [Scan -> SUBSET Name]
  /\ found \in [Scan -> SUBSET (Name \X Refers)]
  /\ twice \in SUBSET Client
  /\ owed \in [Client -> SUBSET (Listed \cap Present)]
  /\ kept \in [Scan -> SUBSET Files]

Init ==
  /\ dir = [n \in Name |-> NoFile]
  /\ walk = [c \in Client |-> "idle"]
  /\ last = [c \in Client |-> 0]
  /\ todo = [s \in Scan |-> {}] /\ found = [s \in Scan |-> {}]
  /\ twice = {}
  /\ owed = [c \in Client |-> {}] /\ kept = [s \in Scan |-> {}]
------------------------------------------------------------------------------
(* Puts and deletes. *)

(* dir' is known: forget what did not stay as it was. *)
Changed ==
  /\ owed' = [c \in Client |-> {n \in owed[c] : dir'[n] # NoFile}]
  /\ kept' = [s \in Scan |-> {f \in kept[s] : dir'[f[1]] = f[2]}]
  /\ UNCHANGED <<walkVars, scanVars>>

(* os.WriteFile of the temporary file, which may break off; a rival may    *)
(* have renamed the file that is written, which then is the reference's.   *)
Write(n) ==
  /\ \E name \in {Temp[n]} \cup ({n} \cap Present), d \in Document \cup {Unparsable} :
       dir' = [dir EXCEPT ![name] = d]
  /\ Changed

Install(n) ==
  /\ dir[Temp[n]] # NoFile
  /\ dir' = [dir EXCEPT ![n] = dir[Temp[n]], ![Temp[n]] = NoFile]
  /\ Changed

Delete(n) ==
  /\ dir[n] # NoFile
  /\ dir' = [dir EXCEPT ![n] = NoFile]
  /\ Changed
------------------------------------------------------------------------------
(* A client asks for the first page of tags and follows the Link of each   *)
(* page to the next.                                                       *)

BeginWalk(c) ==
  /\ walk[c] # "next"
  /\ walk' = [walk EXCEPT ![c] = "next"]
  /\ twice' = twice \ {c}
  /\ owed' = [owed EXCEPT ![c] = Listed \cap Present]
  /\ UNCHANGED <<dir, last, scanVars, kept>>

(* The slip: the tag the last page ended with is among them. *)
TagsFrom(after) == {n \in Listed \cap Present : n >= after}

(* filterTagsAfter; 0 is no parameter. *)
TagsAfter(after) == {n \in Listed \cap Present : n > after}

(* The first n of them. *)
Page(tags) == {n \in tags : Cardinality({k \in tags : k < n}) < PageSize}

Largest(names) == CHOOSE n \in names : \A k \in names : k <= n

(* The slip: Link goes on from the first tag that is left. *)
LinkPastNext(tags) == CHOOSE n \in tags \ Page(tags) : \A k \in tags \ Page(tags) : n <= k

(* The tag that Link goes on from, if any tags are left. *)
Link(tags) == Largest(Page(tags))

NextPage(c) ==
  LET tags == TagsAfter(last[c]) IN
  /\ walk[c] = "next"
  /\ twice' = IF \E n \in Page(tags) : n <= last[c] THEN twice \cup {c} ELSE twice
  /\ owed' = [owed EXCEPT ![c] = @ \ Page(tags)]
  /\ IF Cardinality(tags) > PageSize
     THEN last' = [last EXCEPT ![c] = Link(tags)] /\ UNCHANGED walk
     ELSE walk' = [walk EXCEPT ![c] = "over"] /\ last' = [last EXCEPT ![c] = 0]
  /\ UNCHANGED <<dir, scanVars, kept>>
------------------------------------------------------------------------------
(* GetReferrers: the names first, ... *)
BeginScan(s) ==
  /\ todo[s] = {}
  /\ todo' = [todo EXCEPT ![s] = Present]
  /\ found' = [found EXCEPT ![s] = {}]
  /\ kept' = [kept EXCEPT ![s] = Files]
  /\ UNCHANGED <<dir, walkVars, owed>>

(* The slip: the first file that does not parse ends it. *)
ReadUntilUnparsable(s) ==
  \E n \in todo[s] :
    /\ \A k \in todo[s] : n <= k
    /\ todo' = [todo EXCEPT ![s] = IF dir[n] = Unparsable THEN {} ELSE @ \ {n}]
    /\ found' = [found EXCEPT ![s] = IF dir[n] \in Refers THEN @ \cup {<<n, dir[n]>>} ELSE @]
    /\ UNCHANGED <<dir, walkVars, owed, kept>>

(* The slip: what does not parse is listed too. *)
ReadAnything(s) ==
  \E n \in todo[s] :
    /\ \A k \in todo[s] : n <= k
    /\ todo' = [todo EXCEPT ![s] = @ \ {n}]
    /\ found' = [found EXCEPT ![s] = IF dir[n] # NoFile THEN @ \cup {<<n, dir[n]>>} ELSE @]
    /\ UNCHANGED <<dir, walkVars, owed, kept>>

(* ... then what each of them has by now; a file that is gone or that does *)
(* not parse is passed over.                                               *)
ReadEntry(s) ==
  \E n \in todo[s] :
    /\ \A k \in todo[s] : n <= k
    /\ todo' = [todo EXCEPT ![s] = @ \ {n}]
    /\ found' = [found EXCEPT ![s] = IF dir[n] \in Refers THEN @ \cup {<<n, dir[n]>>} ELSE @]
    /\ UNCHANGED <<dir, walkVars, owed, kept>>

Next ==
  \/ \E n \in Reference : Write(n) \/ Install(n) \/ Delete(n)
  \/ \E c \in Client : BeginWalk(c) \/ NextPage(c)
  \/ \E s \in Scan : BeginScan(s) \/ ReadEntry(s)

Spec == Init /\ [][Next]_vars
------------------------------------------------------------------------------
(* A client that follows the links gets every tag that was there all the   *)
(* time, and no name twice or out of order, whatever is put, replaced,     *)
(* deleted or left behind under a temporary name between two pages         *)
(* (manifests.go:239-256, 312-320).                                        *)
WalkExact ==
  \A c \in Client : c \notin twice /\ (walk[c] = "over" => owed[c] = {})

(* GetReferrers names no file and reads none that is not there, but it     *)
(* misses no referrer that is: one whose file stayed as it was is listed,  *)
(* although others come, go or turn out unreadable between the reading of  *)
(* the directory and that of the file (store.go:314-365).                  *)
ScanComplete ==
  \A s \in Scan : \A f \in kept[s] :
    f[2] \in Refers => f[1] \in todo[s] \/ f \in found[s]
=============================================================================
