-------------------------------- MODULE Workflow --------------------------------
(***************************************************************************)
(* Operators' calls and the platform engine, working on the same requests. *)
(*                                                                         *)
(* A call is an HTTP handler in flight: it passes the market-freeze gate,  *)
(* reads the request once (ByID) and decides on that reading, and writes   *)
(* in one or two later transactions.  Anything can happen between two of   *)
(* its steps, and the client may go away between any two of them, which    *)
(* cancels the context the handler works with.  The engine is one ticker   *)
(* goroutine: a tick lists requests and then applies one transition per    *)
(* request, each in its own transaction.                                   *)
(***************************************************************************)
EXTENDS RequestStore

CONSTANTS
    Calls,        \* slots for calls in flight at the same time
    Deferred,     \* CONVERGENCE_MAX_SECONDS > 0
    StepTimeout,  \* STEP_TIMEOUT_SECONDS > 0
    Declarers,    \* operators that declare internal incidents
    Purgers,      \* operators that purge their test data
    MaxFaults     \* bound: calls abandoned and ticks cut short, in all

ASSUME WorkflowAssumption ==
    /\ Deferred \in BOOLEAN
    /\ StepTimeout \in BOOLEAN
    /\ Declarers \subseteq Operators
    /\ Purgers \subseteq Operators
    /\ MaxFaults \in Nat

VARIABLES
    calls,      \* the handler in each slot
    engine,     \* where the tick is, and the ApplyTransition calls it owes
    incidents,  \* operators with an open internal incident (fige_systeme)
    faults      \* how many faults are left to happen

vars == <<store, calls, engine, incidents, faults>>

(***************************************************************************)
(* pc is the next thing the handler does; step is the step it read, op its *)
(* caller, drop the numbers a fleet acceptance rejects, and noted the step *)
(* that the INSERT of an open transaction copied into etape_historique.    *)
(***************************************************************************)
CallPoints == {"idle", "opened", "schedule", "reject", "rejectUpdate",
               "fleet", "fleetCommit", "cancel", "cancelUpdate",
               "confirm", "count"}

Call(pc, op, r, step, drop, noted) ==
    [pc |-> pc, op |-> op, req |-> r, step |-> step, drop |-> drop,
     noted |-> noted]

CallRow == [pc : CallPoints, op : Operators \cup {None},
            req : Requests \cup {None}, step : Steps \cup {None},
            drop : SUBSET Numbers, noted : Steps \cup {None}]

Idle == Call("idle", None, None, None, {}, None)
Opened == Call("opened", None, None, None, {}, None)

EnginePoints == {"idle", "started", "converging", "expiring", "completing"}

NothingOwed == [r \in Requests |-> 0]

MarketFrozen == incidents # {}

Init ==
    /\ StoreInit
    /\ calls = [c \in Calls |-> Idle]
    /\ engine = [pc |-> "idle", owed |-> NothingOwed]
    /\ incidents = {}
    /\ faults = MaxFaults

TypeOK ==
    /\ StoreTypeOK
    /\ calls \in [Calls -> CallRow]
    /\ \A c \in Calls : calls[c].pc \notin {"idle", "opened"} =>
          calls[c].op # None /\ calls[c].req # None /\ calls[c].step # None
    /\ \A c \in Calls : calls[c].pc = "rejectUpdate" /\ Present(calls[c].req) =>
          calls[c].noted # None
    /\ engine \in [pc : EnginePoints, owed : [Requests -> 0..2]]
    /\ incidents \subseteq Operators
    /\ faults \in 0..MaxFaults

-----------------------------------------------------------------------------
(***************************************************************************)
(* Receiving a call, and what its handler decides from its one reading.    *)
(***************************************************************************)
At(c, pc) == calls[c].pc = pc

Become(c, call) ==
    /\ calls' = [calls EXCEPT ![c] = call]
    /\ UNCHANGED <<engine, incidents, faults>>

Goto(c, pc) == Become(c, [calls[c] EXCEPT !.pc = pc])
Answer(c) == Become(c, Idle)

\* Mutant: the freeze is not looked at.
OpenUngated(c) ==
    /\ At(c, "idle")
    /\ Become(c, Opened)
    /\ UNCHANGED store

\* The gate of acceptation, a-confirmer and traitement; a frozen market is
\* answered with a fault at once.
Open(c) ==
    /\ At(c, "idle")
    /\ ~ MarketFrozen
    /\ Become(c, Opened)
    /\ UNCHANGED store

\* Any call may name an unknown request, or one its operator may not touch.
Refuse(c) ==
    /\ At(c, "opened")
    /\ Answer(c)
    /\ UNCHANGED store

Read(c, op, r, pc, drop) ==
    /\ Become(c, Call(pc, op, r, demande[r].step, drop, None))
    /\ UNCHANGED store

\* An acceptance records a comment, and then asks for the transition.
Accept(c, op, r) ==
    /\ At(c, "opened")
    /\ CanAccept(Portfolio[r], demande[r], op)
    /\ Read(c, op, r, "schedule", {})

Reject(c, op, r) ==
    /\ At(c, "opened")
    /\ CanAccept(Portfolio[r], demande[r], op)
    /\ Read(c, op, r, "reject", {})

\* Each number named must belong to the request (NumberBelongs).
AcceptFleet(c, op, r, drop) ==
    /\ At(c, "opened")
    /\ CanAccept(Portfolio[r], demande[r], op)
    /\ drop \subseteq Portfolio[r].fleet
    /\ Read(c, op, r, "fleet", drop)

ProcessStep(c, op, r) ==
    /\ At(c, "opened")
    /\ CanProcess(Portfolio[r], demande[r], op)
    /\ Read(c, op, r, "schedule", {})

Confirm(c, op, r) ==
    /\ At(c, "opened")
    /\ CanConfirm(Portfolio[r], demande[r], op, Operators)
    /\ Read(c, op, r, "confirm", {})

\* No gate: a cancellation withdraws the request, it processes nothing.
Cancel(c, op, r) ==
    /\ At(c, "idle")
    /\ CanCancel(Portfolio[r], demande[r], op)
    /\ Read(c, op, r, "cancel", {})

-----------------------------------------------------------------------------
(***************************************************************************)
(* The writes of a call.  Reject and Cancel are two statements each, and   *)
(* READ COMMITTED gives each statement its own snapshot: the first copies  *)
(* the step into etape_historique, the second updates the row and the      *)
(* transaction commits.  What the first wrote is invisible until then.     *)
(***************************************************************************)
StepSeen(r) == IF Present(r) THEN demande[r].step ELSE None

RejectInsert(c) ==
    /\ At(c, "reject")
    /\ Become(c, [calls[c] EXCEPT !.pc = "rejectUpdate",
                                  !.noted = StepSeen(calls[c].req)])
    /\ UNCHANGED store

\* A row purged in between fails the foreign key of the history row, or
\* leaves nothing to update.
RejectUpdate(c) ==
    LET k == calls[c] IN
    /\ At(c, "rejectUpdate")
    /\ \/ /\ Present(k.req)
          /\ RejectRow(k.req, k.op, k.noted, k.drop)
       \/ /\ ~ Present(k.req)
          /\ UNCHANGED store
    /\ Answer(c)

\* Two transactions that update the same demande_numero row wait for one
\* another, so the second counts what the first left.
Overlapping(c) ==
    \E d \in Calls \ {c} :
        /\ calls[d].pc \in {"rejectUpdate", "fleetCommit"}
        /\ calls[d].req = calls[c].req
        /\ calls[d].drop \cap calls[c].drop # {}

\* Mutant: HasActiveNumber is not asked.
FleetAlwaysAccepted(c) ==
    /\ At(c, "fleet")
    /\ ~ Overlapping(c)
    /\ Goto(c, "fleetCommit")
    /\ UNCHANGED store

\* RejectNumber for each named number, then HasActiveNumber: this sees the
\* transaction's own updates and the committed ones.
FleetDecide(c) ==
    LET k == calls[c] IN
    /\ At(c, "fleet")
    /\ ~ Overlapping(c)
    /\ \/ /\ ActiveNumbers(k.req) \ k.drop = {}
          /\ Become(c, [k EXCEPT !.pc = "rejectUpdate",
                                 !.noted = StepSeen(k.req)])
       \/ /\ ActiveNumbers(k.req) \ k.drop # {}
          /\ Goto(c, "fleetCommit")
    /\ UNCHANGED store

FleetCommit(c) ==
    /\ At(c, "fleetCommit")
    /\ \/ /\ Present(calls[c].req)
          /\ MarkNumbers(calls[c].req, calls[c].drop)
       \/ /\ ~ Present(calls[c].req)
          /\ UNCHANGED store
    /\ Goto(c, "schedule")

\* Cancel's statements both ask for the step CanCancel was given.
CancelInsert(c) ==
    LET k == calls[c] IN
    /\ At(c, "cancel")
    /\ Become(c, [k EXCEPT !.pc = "cancelUpdate",
                           !.noted = IF StepSeen(k.req) = k.step THEN k.step
                                     ELSE None])
    /\ UNCHANGED store

\* Mutant: Cancel's UPDATE names the id alone.
CancelWhateverStep(c) ==
    LET k == calls[c] IN
    /\ At(c, "cancelUpdate")
    /\ CancelRow(k.req, k.op, k.noted)
    /\ Answer(c)

CancelUpdate(c) ==
    LET k == calls[c] IN
    /\ At(c, "cancelUpdate")
    /\ \/ /\ StepSeen(k.req) = k.step
          /\ CancelRow(k.req, k.op, k.noted)
       \/ /\ StepSeen(k.req) # k.step   \* ErrCancelStepChanged: rolled back
          /\ UNCHANGED store
    /\ Answer(c)

\* Mutant: no foreign key holds a confirmation to its request.
InsertConfirmUnkeyed(c) ==
    LET k == calls[c] IN
    /\ At(c, "confirm")
    /\ InsertConfirmation(k.req, k.op)
    /\ Goto(c, "count")

\* The primary key (demande_id, operateur_id) refuses a second confirmation,
\* the foreign key one for a request that is gone.
InsertConfirm(c) ==
    LET k == calls[c] IN
    /\ At(c, "confirm")
    /\ \/ /\ Present(k.req)
          /\ k.op \notin confirmed[k.req]
          /\ InsertConfirmation(k.req, k.op)
          /\ Goto(c, "count")
       \/ /\ ~ Present(k.req) \/ k.op \in confirmed[k.req]
          /\ Answer(c)
          /\ UNCHANGED store

\* Mutant: one confirmation more than expected is waited for.
CountOneTooMany(c) ==
    LET r == calls[c].req
        expected == ExpectedConfirmers(Portfolio[r], Operators)
    IN /\ At(c, "count")
       /\ \/ /\ Cardinality(confirmed[r]) > Cardinality(expected)
             /\ Goto(c, "schedule")
          \/ /\ Cardinality(confirmed[r]) <= Cardinality(expected)
             /\ Answer(c)
       /\ UNCHANGED store

CountConfirmations(c) ==
    LET r == calls[c].req
        expected == ExpectedConfirmers(Portfolio[r], Operators)
    IN /\ At(c, "count")
       /\ \/ /\ Cardinality(confirmed[r]) >= Cardinality(expected)
             /\ Goto(c, "schedule")
          \/ /\ Cardinality(confirmed[r]) < Cardinality(expected)
             /\ Answer(c)
       /\ UNCHANGED store

\* With no convergence window the transition applies within the call;
\* with one it is only scheduled.
ScheduleTransition(c) ==
    /\ At(c, "schedule")
    /\ \/ /\ Deferred
          /\ ScheduleTransitionAt(calls[c].req)
       \/ /\ ~ Deferred
          /\ ApplyTransition(calls[c].req, "ACTION")
    /\ Answer(c)

\* The client goes away, or a read or a write fails: what has committed
\* stays, an open transaction rolls back, and nothing more is done.
Abort(c) ==
    /\ ~ At(c, "idle")
    /\ faults > 0
    /\ faults' = faults - 1
    /\ calls' = [calls EXCEPT ![c] = Idle]
    /\ UNCHANGED <<store, engine, incidents>>

CallStep(c) ==
    \/ Refuse(c)
    \/ RejectInsert(c) \/ RejectUpdate(c)
    \/ FleetDecide(c) \/ FleetCommit(c)
    \/ CancelInsert(c) \/ CancelUpdate(c)
    \/ InsertConfirm(c) \/ CountConfirmations(c)
    \/ ScheduleTransition(c)

\* What an opened call, or a cancellation, finds it may do.
Decide(c) ==
    \E op \in Operators, r \in Requests :
        \/ Accept(c, op, r)
        \/ Reject(c, op, r)
        \/ \E drop \in SUBSET Portfolio[r].fleet : AcceptFleet(c, op, r, drop)
        \/ ProcessStep(c, op, r)
        \/ Confirm(c, op, r)
        \/ Cancel(c, op, r)

-----------------------------------------------------------------------------
(***************************************************************************)
(* The engine.  One tick reads the freeze, then makes three passes, each a *)
(* query for request identifiers followed by one ApplyTransition per       *)
(* identifier; the queries have no ORDER BY.  owed[r] counts the calls     *)
(* still to be made for r in the current pass.                             *)
(***************************************************************************)
Pass(pc, owed) ==
    /\ engine' = [pc |-> pc, owed |-> owed]
    /\ UNCHANGED <<calls, incidents, faults>>

OnceEach(ids) == [r \in Requests |-> IF r \in ids THEN 1 ELSE 0]

PassDone == engine.owed = NothingOwed

\* tickStart is read before anything else: a step that begins after it is
\* not overdue for this tick.
Tick ==
    /\ engine.pc = "idle"
    /\ ~ MarketFrozen
    /\ overdueAtTick' = overdue
    /\ Pass("started", NothingOwed)
    /\ UNCHANGED <<demande, rejected, numberRouting, historyVars, confirmed,
                   numero, overdue>>

ListDueConvergences ==
    /\ engine.pc = "started"
    /\ Pass("converging", OnceEach(DueConvergences))
    /\ UNCHANGED store

ListOverdueSteps ==
    /\ engine.pc = "converging"
    /\ PassDone
    /\ Pass("expiring", OnceEach(IF StepTimeout THEN OverdueSteps ELSE {}))
    /\ UNCHANGED store

\* A REVERSE found at CONFIRMATION is owed two transitions.
ListPendingReverses ==
    /\ engine.pc = "expiring"
    /\ PassDone
    /\ Pass("completing",
            [r \in Requests |->
                IF r \notin PendingReverseCompletions THEN 0
                ELSE IF demande[r].step = "CONFIRMATION" THEN 2 ELSE 1])
    /\ UNCHANGED store

EndTick ==
    /\ engine.pc = "completing"
    /\ PassDone
    /\ overdueAtTick' = {}
    /\ Pass("idle", NothingOwed)
    /\ UNCHANGED <<demande, rejected, numberRouting, historyVars, confirmed,
                   numero, overdue>>

TickOrigin == IF engine.pc = "expiring" THEN "EXPIRATION" ELSE "ACTION"

EngineApply(r) ==
    /\ engine.owed[r] > 0
    /\ ApplyTransition(r, TickOrigin)
    /\ Pass(engine.pc, [engine.owed EXCEPT ![r] = @ - 1])

\* A query or a transaction of the tick fails: Tick returns the error, Run
\* logs it and waits for the next tick.  A restart does the same.
TickFails ==
    /\ engine.pc # "idle"
    /\ faults > 0
    /\ faults' = faults - 1
    /\ engine' = [pc |-> "idle", owed |-> NothingOwed]
    /\ overdueAtTick' = {}
    /\ UNCHANGED <<demande, rejected, numberRouting, historyVars, confirmed,
                   numero, overdue, calls, incidents>>

EngineStep ==
    \/ Tick \/ ListDueConvergences \/ ListOverdueSteps \/ ListPendingReverses
    \/ EndTick
    \/ \E r \in Requests : EngineApply(r)

-----------------------------------------------------------------------------
(***************************************************************************)
(* Time, incidents and the purge.                                          *)
(***************************************************************************)
\* The instant written in transition_prevue_a passes.
ConvergenceDue(r) ==
    /\ demande[r].pending = "scheduled"
    /\ demande' = [demande EXCEPT ![r].pending = "due"]
    /\ UNCHANGED <<rejected, numberRouting, historyVars, confirmed, numero,
                   clockVars, calls, engine, incidents, faults>>

\* The current step outlives STEP_TIMEOUT_SECONDS.
StepTimesOut(r) ==
    /\ StepTimeout
    /\ InProgress(r)
    /\ r \notin overdue
    /\ overdue' = overdue \cup {r}
    /\ UNCHANGED <<demande, rejected, numberRouting, historyVars, confirmed,
                   numero, overdueAtTick, calls, engine, incidents, faults>>

DeclareIncident(op) ==
    /\ op \notin incidents
    /\ incidents' = incidents \cup {op}
    /\ UNCHANGED <<store, calls, engine, faults>>

ResolveIncident(op) ==
    /\ op \in incidents
    /\ incidents' = incidents \ {op}
    /\ UNCHANGED <<store, calls, engine, faults>>

Purge(op) ==
    /\ CreatedBy(op) # {}
    /\ PurgeTestData(op)
    /\ UNCHANGED <<calls, engine, incidents, faults>>

Next ==
    \/ \E c \in Calls : Open(c) \/ Decide(c) \/ CallStep(c) \/ Abort(c)
    \/ EngineStep
    \/ TickFails
    \/ \E r \in Requests : ConvergenceDue(r) \/ StepTimesOut(r)
    \/ \E op \in Declarers : DeclareIncident(op) \/ ResolveIncident(op)
    \/ \E op \in Purgers : Purge(op)

Spec == Init /\ [][Next]_vars

(***************************************************************************)
(* Fairness.  A handler's goroutine runs until it answers, the ticker      *)
(* keeps firing, and time passes; nothing obliges an operator to call, to  *)
(* declare or resolve an incident, or to purge, and nothing has to fail.   *)
(***************************************************************************)
Fairness ==
    /\ \A c \in Calls : WF_vars(CallStep(c))
    /\ WF_vars(EngineStep)
    /\ \A r \in Requests : WF_vars(ConvergenceDue(r)) /\ WF_vars(StepTimesOut(r))

FairSpec == Spec /\ Fairness

=================================================================================
