------------------------------ MODULE NodeFile ------------------------------
(***************************************************************************)
(* A file that is replaced with writeFile of node:fs/promises while others *)
(* read and write it.  The call truncates the file when it opens it and    *)
(* writes from the start of the file in a later step; nothing orders the   *)
(* steps of two calls.  "content" is what a reader gets who treats a file  *)
(* he cannot parse as holding nothing.                                     *)
(***************************************************************************)

FileStates == {"absent", "empty", "whole", "garbled"}

AbsentFile(nothing) == [state |-> "absent", content |-> nothing]
OpenedFile(nothing) == [state |-> "empty", content |-> nothing]
WholeFile(c) == [state |-> "whole", content |-> c]
GarbledFile(nothing) == [state |-> "garbled", content |-> nothing]

\* What the second step can leave.  A file that is not empty any more was
\* written by a call that had opened it too: the shorter of two texts written
\* one over the other leaves the tail of the longer one behind.
WrittenOver(file, c, nothing) ==
  {WholeFile(c)} \cup
    (IF file.state = "empty" THEN {} ELSE {GarbledFile(nothing)})
=============================================================================
