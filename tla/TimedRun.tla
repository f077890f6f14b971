------------------------------ MODULE TimedRun ------------------------------
(***************************************************************************)
(* What the genetic algorithm is promised when it has one program run on   *)
(* one training sample: the registers of a run that went to its end, or    *)
(* zeros, and zeros only once the time limit has passed.  No threads, no   *)
(* interrupt flag, no polling: CpuThreading is shown to implement this.    *)
(***************************************************************************)
VARIABLES
    phase,      \* "idle" or "running": is a request being served
    expired,    \* has the time limit of the request being served passed
    result      \* the last answer: "none", "full" (registers) or "zeros"

vars == <<phase, expired, result>>

Init == phase = "idle" /\ expired = FALSE /\ result = "none"

Submit ==
    /\ phase = "idle"
    /\ phase' = "running"
    /\ expired' = FALSE
    /\ result' = "none"

Expire ==
    /\ phase = "running"
    /\ expired = FALSE
    /\ expired' = TRUE
    /\ UNCHANGED <<phase, result>>

Answer ==
    /\ phase = "running"
    /\ phase' = "idle"
    /\ result' = "full" \/ (expired /\ result' = "zeros")
    /\ UNCHANGED expired

Next == Submit \/ Expire \/ Answer

Safety == Init /\ [][Next]_vars

Spec == Safety /\ WF_vars(Submit) /\ WF_vars(Answer)
=============================================================================
