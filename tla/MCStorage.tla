------------------------------ MODULE MCStorage -----------------------------
(* Small instances of Storage for TLC.                                     *)
EXTENDS Storage

CONSTANTS o1, u1

\* A file of two bytes in two chunks, with and without their offsets.
Chunks == [offset : 0..1, size : {1}, named : BOOLEAN]

\* Uploads, deletes and downloads with failures; and a resumable upload.
EachSetup ==
  {[sessions |-> {}, chunks |-> {}, requests |-> 3, faults |-> 2],
   [sessions |-> {u1}, chunks |-> Chunks, requests |-> 2, faults |-> 1]}
=============================================================================
