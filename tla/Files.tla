------------------------------- MODULE Files -------------------------------
(* Contents of files, as both the blob tree and the uploads directory of   *)
(* the filesystem store write them: at an offset, through a descriptor.    *)
EXTENDS Naturals, Sequences

CONSTANTS
  Byte,     \* what a file holds at one position (a chunk of io.Copy)
  Zero      \* what a hole in a file reads as

ASSUME ByteAssumption == Zero \in Byte
------------------------------------------------------------------------------
(* A slip for the properties of the modules below to catch; no action uses *)
(* it.                                                                     *)

(* The file is opened with O_APPEND. *)
WriteAtAppending(s, off, b) == Append(s, b)
------------------------------------------------------------------------------
(* The contents of a file after b is written at offset off; a gap between  *)
(* the end of the file and off reads as zeros.                             *)
WriteAt(s, off, b) ==
  [k \in 1 .. (IF off < Len(s) THEN Len(s) ELSE off + 1) |->
     IF k = off + 1 THEN b ELSE IF k <= Len(s) THEN s[k] ELSE Zero]
=============================================================================
