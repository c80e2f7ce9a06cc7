----------------------------- MODULE MCBlobFetch -----------------------------
(* A small instance of BlobFetch: a peer that goes on, and one that may    *)
(* stand still.                                                            *)
EXTENDS BlobFetch

CONSTANTS p1, p2

TwoPeers == {p1, p2}
OneSlow == {p2}
=============================================================================
