----------------------------- MODULE FlatMemory -----------------------------
(***************************************************************************)
(* What the data cache promises the memory stage: a memory of words.  An   *)
(* access that is issued is performed once and in one step.  DataCache     *)
(* implements this specification, and its fairness where it can.           *)
(***************************************************************************)
CONSTANTS Requests,     \* the accesses the pipeline issues
          NoRequest,    \* "no access in this cycle"
          InitMem

VARIABLES memory,       \* the contents, as the guest sees them
          req,          \* the access of the instruction in M
          answer        \* the word the last load returned

vars == <<memory, req, answer>>

Init ==
    /\ memory = InitMem
    /\ req = NoRequest
    /\ answer = 0

\* An instruction with an access enters the memory stage.
Issue ==
    /\ req = NoRequest
    /\ req' \in Requests
    /\ UNCHANGED <<memory, answer>>

Perform ==
    /\ req # NoRequest
    /\ IF req.op = "WRITE"
       THEN memory' = [memory EXCEPT ![req.addr] = req.val] /\ UNCHANGED answer
       ELSE answer' = memory[req.addr] /\ UNCHANGED memory
    /\ req' = NoRequest

Next == Issue \/ Perform

Spec == Init /\ [][Next]_vars

\* The access that is issued is performed in the end.
Fairness == WF_vars(Perform)
=============================================================================
