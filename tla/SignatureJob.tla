----------------------------- MODULE SignatureJob -----------------------------
(***************************************************************************)
(* What the program promises about one signature: the output file is       *)
(* written at one point of time, and the program exits successfully only   *)
(* when the file then has the hash of every whole chunk.  How the work is  *)
(* divided does not show.  A job may fail or crash whatever was written.   *)
(***************************************************************************)

VARIABLES
    contents,    \* of the output file: "empty", "partial" or "complete"
    status       \* "running", or how the process ended

vars == <<contents, status>>

Init == contents = "empty" /\ status = "running"

Write ==
    /\ status = "running"
    /\ contents = "empty"
    /\ contents' \in {"partial", "complete"}
    /\ UNCHANGED status

Succeed ==
    /\ status = "running"
    /\ contents = "complete"
    /\ status' = "success"
    /\ UNCHANGED contents

Fail ==
    /\ status = "running"
    /\ status' \in {"failure", "crashed"}
    /\ UNCHANGED contents

Next == Write \/ Succeed \/ Fail

Spec == Init /\ [][Next]_vars

=============================================================================
