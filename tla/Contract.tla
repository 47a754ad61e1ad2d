------------------------------ MODULE Contract ------------------------------
(***************************************************************************)
(* What runInTransaction (db/transaction.ts) promises its callers: every   *)
(* request is answered, "done" with its writes made once and for all,      *)
(* "refused" or "busy" with none made.                                     *)
(***************************************************************************)
EXTENDS Naturals

CONSTANT Clients

VARIABLES
    phase,   \* where the request of a client stands
    applied  \* how many times its writes have been made

vars == <<phase, applied>>

Phases == {"idle", "working", "done", "refused", "busy"}

Init ==
    /\ phase = [p \in Clients |-> "idle"]
    /\ applied = [p \in Clients |-> 0]

Begin(p) ==
    /\ phase[p] = "idle"
    /\ phase' = [phase EXCEPT ![p] = "working"]
    /\ applied' = [applied EXCEPT ![p] = 0]

Apply(p) ==
    /\ phase[p] = "working"
    /\ phase' = [phase EXCEPT ![p] = "done"]
    /\ applied' = [applied EXCEPT ![p] = 1]

TurnDown(p) ==
    /\ phase[p] = "working"
    /\ \E answer \in {"refused", "busy"} : phase' = [phase EXCEPT ![p] = answer]
    /\ UNCHANGED applied

Answer(p) ==
    /\ phase[p] \in {"done", "refused", "busy"}
    /\ phase' = [phase EXCEPT ![p] = "idle"]
    /\ UNCHANGED applied

Work(p) == Apply(p) \/ TurnDown(p) \/ Answer(p)

Next == \E p \in Clients : Begin(p) \/ Work(p)

Safety == Init /\ [][Next]_vars

Spec == Safety /\ \A p \in Clients : WF_vars(Work(p))
=============================================================================
