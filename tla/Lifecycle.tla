------------------------------- MODULE Lifecycle -------------------------------
(***************************************************************************)
(* What a porting request promises its two operators, without calls,       *)
(* engine or tables: a status and a step, and how they may change.         *)
(*                                                                         *)
(* Promised is the life the code's comments describe: a rejection or a     *)
(* cancellation comes at ACCEPTATION and is definitive.  Observed is what  *)
(* competing calls leave of it: a rejection decided at ACCEPTATION may     *)
(* land on whatever the request has become since, and a cancellation may   *)
(* land on a rejection.  Both close steps one at a time, in order, and     *)
(* never revive an ended request.                                          *)
(***************************************************************************)
EXTENDS PortingRules

CONSTANTS
    Requests,
    Type        \* the type of each request

VARIABLE stage  \* the status and the step of each request

FirstStage(r) ==
    [status |-> "EN_COURS",
     step |-> IF Type[r] = "REVERSE" THEN "CONFIRMATION" ELSE "ACCEPTATION"]

Init == stage = [r \in Requests |-> FirstStage(r)]

Become(r, status, step) ==
    stage' = [stage EXCEPT ![r] = [status |-> status, step |-> step]]

Advance(r) ==
    /\ stage[r].status = "EN_COURS"
    /\ stage[r].step # "COMPLETION"
    /\ Become(r, "EN_COURS", NextStep(stage[r].step))

Complete(r) ==
    /\ stage[r].status = "EN_COURS"
    /\ stage[r].step = "COMPLETION"
    /\ Become(r, "TERMINE", "COMPLETION")

Withdraw(r, outcome) ==
    /\ stage[r].status = "EN_COURS"
    /\ stage[r].step = "ACCEPTATION"
    /\ Become(r, outcome, "ACCEPTATION")

\* A rejection that lands late keeps the step the request has reached.
RejectLate(r) ==
    /\ stage[r].status # "ABSENT"
    /\ Become(r, "REJETE", stage[r].step)

\* A cancellation asks for the step ACCEPTATION, not for the status.
CancelLate(r) ==
    /\ stage[r].status # "ABSENT"
    /\ stage[r].step = "ACCEPTATION"
    /\ Become(r, "ANNULE", "ACCEPTATION")

Purge(rs) ==
    stage' = [r \in Requests |->
                 IF r \in rs THEN [FirstStage(r) EXCEPT !.status = "ABSENT"]
                 ELSE stage[r]]

Progress == \E r \in Requests : Advance(r) \/ Complete(r)

Promise ==
    \/ Progress
    \/ \E r \in Requests, outcome \in {"REJETE", "ANNULE"} : Withdraw(r, outcome)
    \/ \E rs \in SUBSET Requests : Purge(rs)

Observation ==
    \/ Progress
    \/ \E r \in Requests : RejectLate(r) \/ CancelLate(r)
    \/ \E rs \in SUBSET Requests : Purge(rs)

Promised == Init /\ [][Promise]_stage
Observed == Init /\ [][Observation]_stage

=================================================================================
