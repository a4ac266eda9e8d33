------------------------------ MODULE WorkflowProofs ------------------------------
(***************************************************************************)
(* Proofs, for every set of operators, requests, numbers and call slots,   *)
(* of the workflow's type invariant and of its main safety properties.     *)
(***************************************************************************)
EXTENDS WorkflowProperties, TLAPS

-----------------------------------------------------------------------------
(***************************************************************************)
(* The sequence of steps.                                                  *)
(***************************************************************************)
\* Each of the five steps of stepSequence has the position it is listed at.
LEMMA RankOfStep ==
    /\ Rank("ACCEPTATION") = 1
    /\ Rank("DESACTIVATION") = 2
    /\ Rank("ACTIVATION") = 3
    /\ Rank("CONFIRMATION") = 4
    /\ Rank("COMPLETION") = 5
<1>1. \A i \in 1..5 : i \in {1, 2, 3, 4, 5}
  OBVIOUS
<1>2. \A i \in 1..5 : Rank(StepSequence[i]) = i
  <2> SUFFICES ASSUME NEW i \in 1..5
               PROVE  Rank(StepSequence[i]) = i
    OBVIOUS
  <2>1. \A j \in 1..5 : StepSequence[j] = StepSequence[i] => j = i
    BY <1>1 DEF StepSequence
  <2> QED BY <2>1 DEF Rank
<1> QED BY <1>2 DEF StepSequence

\* There are five steps, and no other.
LEMMA StepsAre ==
    Steps = {"ACCEPTATION", "DESACTIVATION", "ACTIVATION", "CONFIRMATION",
             "COMPLETION"}
<1>1. \A i \in 1..5 : i \in {1, 2, 3, 4, 5}
  OBVIOUS
<1> QED BY <1>1 DEF Steps, StepSequence

\* NextStep moves a step that is not the last one exactly one position on.
LEMMA NextStepAdvances ==
    ASSUME NEW s \in Steps, s # "COMPLETION"
    PROVE  /\ NextStep(s) \in Steps
           /\ NextStep(s) # "ACCEPTATION"
           /\ Rank(NextStep(s)) = Rank(s) + 1
BY RankOfStep, StepsAre DEF NextStep, StepSequence

\* A rank is a position in the sequence, and only COMPLETION is at the last.
LEMMA RankInRange ==
    ASSUME NEW s \in Steps
    PROVE  /\ Rank(s) \in 1..5
           /\ Rank(s) = 5 <=> s = "COMPLETION"
           /\ Rank(s) = 1 <=> s = "ACCEPTATION"
BY RankOfStep, StepsAre

-----------------------------------------------------------------------------
(***************************************************************************)
(* Type correctness, first of the tables and then of the whole workflow.   *)
(***************************************************************************)
\* The columns of a request, as StoreAssumption types them.
LEMMA PortfolioColumns ==
    ASSUME NEW r \in Requests
    PROVE  /\ Portfolio[r].type \in RequestTypes
           /\ Portfolio[r].source \in Operators
           /\ Portfolio[r].recipient \in Operators
           /\ Portfolio[r].creator \in Operators
           /\ Portfolio[r].msisdn \in Numbers
           /\ Portfolio[r].fleet \subseteq Numbers
           /\ Portfolio[r].excluded \subseteq Numbers
<1>1. Portfolio[r] \in PortfolioRow
  BY StoreAssumption
<1> QED BY <1>1 DEF PortfolioRow

\* The row of a number, as StoreAssumption types it.
LEMMA RegistryColumns ==
    ASSUME NEW n \in Numbers
    PROVE  /\ Registry[n].origin \in Operators
           /\ Registry[n].holder \in Operators
           /\ Registry[n].dated \in BOOLEAN
           /\ Registry[n].restituted \in BOOLEAN
<1>1. Registry[n] \in RegistryRow
  BY StoreAssumption
<1> QED BY <1>1 DEF RegistryRow

\* A request is created at a step, with well-typed columns.
LEMMA CreateTyped ==
    ASSUME NEW r \in Requests
    PROVE  /\ FirstStep(r) \in Steps
           /\ Create(r) \in DemandeRow
           /\ PurgedRow(r) \in DemandeRow
           /\ NewNumberRouting(r) \in [Numbers -> Operators \cup {None}]
<1>1. FirstStep(r) \in Steps
  BY StepsAre DEF FirstStep
<1>2. SourcePrefixAtCreation(r) \in Operators \cup {None}
  BY PortfolioColumns DEF SourcePrefixAtCreation
<1>3. Create(r) \in DemandeRow
  BY <1>1, <1>2 DEF Create, DemandeRow, Statuses, StepStatuses, Pendings
<1>4. PurgedRow(r) \in DemandeRow
  BY <1>3 DEF PurgedRow, DemandeRow, Statuses
<1>5. NewNumberRouting(r) \in [Numbers -> Operators \cup {None}]
  BY <1>2 DEF NewNumberRouting
<1> QED BY <1>1, <1>3, <1>4, <1>5

\* The requests as they are created are well typed.
LEMMA StoreInitTyped == StoreInit => StoreTypeOK
<1> SUFFICES ASSUME StoreInit PROVE StoreTypeOK
  OBVIOUS
<1>1. demande \in [Requests -> DemandeRow]
  BY CreateTyped DEF StoreInit
<1>2. rejected \in [Requests -> SUBSET Numbers]
  BY PortfolioColumns DEF StoreInit
<1>3. numberRouting \in [Requests -> [Numbers -> Operators \cup {None}]]
  BY CreateTyped DEF StoreInit
<1>4. numero \in [Numbers -> [holder : Operators, dated : BOOLEAN,
                              restituted : BOOLEAN]]
  BY RegistryColumns DEF StoreInit, RegistryEntry
<1> QED BY <1>1, <1>2, <1>3, <1>4 DEF StoreInit, StoreTypeOK

\* ApplyTransition keeps the tables well typed.
LEMMA ApplyTransitionTyped ==
    ASSUME StoreTypeOK, NEW r \in Requests, NEW origin \in Origins,
           ApplyTransition(r, origin)
    PROVE  StoreTypeOK'
<1>1. CASE UNCHANGED store
  BY <1>1 DEF store, StoreTypeOK
<1>2. CASE /\ InProgress(r)
           /\ CloseCurrentStep(r, origin)
           /\ EndRequest(r, origin) \/ LeaveActivation(r) \/ LeaveOtherStep(r)
           /\ UNCHANGED <<rejected, decisions, confirmed>>
  <2>1. /\ demande[r] \in DemandeRow
        /\ demande[r].step \in Steps
        /\ demande[r].routing \in Operators \cup {None}
    BY DEF StoreTypeOK, DemandeRow
  <2>2. closings' \in [Requests -> Seq(Closing)]
    <3>1. [step |-> demande[r].step, origin |-> origin] \in Closing
      BY <2>1 DEF Closing
    <3> QED BY <1>2, <3>1 DEF CloseCurrentStep, StoreTypeOK
  <2>3. ASSUME NEW routing \in Operators \cup {None},
               CompleteRequest(r, origin, routing)
        PROVE  /\ demande' \in [Requests -> DemandeRow]
               /\ overdue' \subseteq Requests
               /\ overdueAtTick' \subseteq Requests
    <3>1. ClosedStatus(origin) \in StepStatuses
      BY DEF ClosedStatus, StepStatuses
    <3>2. [status |-> "TERMINE", step |-> demande[r].step,
           stepStatus |-> ClosedStatus(origin), pending |-> "none",
           routing |-> routing] \in DemandeRow
      BY <2>1, <3>1 DEF DemandeRow, Statuses, Pendings
    <3> QED BY <2>3, <3>2 DEF CompleteRequest, StoreTypeOK, clockVars
  <2>4. ASSUME NEW routing \in Operators \cup {None},
               demande[r].step # "COMPLETION", AdvanceStep(r, routing)
        PROVE  /\ demande' \in [Requests -> DemandeRow]
               /\ overdue' \subseteq Requests
               /\ overdueAtTick' \subseteq Requests
    <3>1. NextStep(demande[r].step) \in Steps
      BY <2>1, <2>4, NextStepAdvances
    <3>2. [status |-> demande[r].status, step |-> NextStep(demande[r].step),
           stepStatus |-> "EN_COURS", pending |-> "none",
           routing |-> routing] \in DemandeRow
      BY <2>1, <3>1 DEF DemandeRow, StepStatuses, Pendings
    <3> QED BY <2>4, <3>2 DEF AdvanceStep, StoreTypeOK
  <2>5. CASE EndRequest(r, origin)
    <3>1. numero' \in [Numbers -> [holder : Operators, dated : BOOLEAN,
                                   restituted : BOOLEAN]]
      <4>1. RegistryEntry(Portfolio[r].recipient, TRUE, TRUE)
               \in [holder : Operators, dated : BOOLEAN, restituted : BOOLEAN]
        BY PortfolioColumns DEF RegistryEntry
      <4> QED BY <2>5, <4>1
              DEF EndRequest, ApplyEndOfRequestRestitution, StoreTypeOK
    <3>2. /\ demande' \in [Requests -> DemandeRow]
          /\ overdue' \subseteq Requests
          /\ overdueAtTick' \subseteq Requests
      BY <2>1, <2>3, <2>5, PortfolioColumns DEF EndRequest
    <3> QED BY <1>2, <2>2, <2>5, <3>1, <3>2 DEF EndRequest, StoreTypeOK
  <2>6. CASE LeaveActivation(r)
    <3>1. numero' \in [Numbers -> [holder : Operators, dated : BOOLEAN,
                                   restituted : BOOLEAN]]
      BY <2>6, PortfolioColumns
         DEF LeaveActivation, TransferToRegistry, RegistryEntry, StoreTypeOK
    <3>2. numberRouting' \in [Requests -> [Numbers -> Operators \cup {None}]]
      BY <2>6, PortfolioColumns
         DEF LeaveActivation, ApplyNumberRouting, StoreTypeOK
    <3>3. demande[r].step # "COMPLETION"
      BY <2>6 DEF LeaveActivation
    <3>4. /\ demande' \in [Requests -> DemandeRow]
          /\ overdue' \subseteq Requests
          /\ overdueAtTick' \subseteq Requests
      BY <2>4, <2>6, <3>3, PortfolioColumns DEF LeaveActivation
    <3> QED BY <1>2, <2>2, <3>1, <3>2, <3>4 DEF StoreTypeOK
  <2>7. CASE LeaveOtherStep(r)
    <3>1. /\ demande' \in [Requests -> DemandeRow]
          /\ overdue' \subseteq Requests
          /\ overdueAtTick' \subseteq Requests
      BY <2>1, <2>4, <2>7 DEF LeaveOtherStep
    <3> QED BY <1>2, <2>2, <2>7, <3>1 DEF LeaveOtherStep, StoreTypeOK
  <2> QED BY <1>2, <2>5, <2>6, <2>7
<1> QED BY <1>1, <1>2 DEF ApplyTransition

\* So do the other writes of the tables.
LEMMA RejectRowTyped ==
    ASSUME StoreTypeOK, NEW r \in Requests, NEW op \in Operators,
           NEW noted \in Steps, NEW drop \in SUBSET Numbers,
           RejectRow(r, op, noted, drop)
    PROVE  StoreTypeOK'
<1>1. rejected' \in [Requests -> SUBSET Numbers]
  BY DEF RejectRow, StoreTypeOK
<1>2. decisions' \in [Requests -> Seq(Decision)]
  <2>1. [step |-> noted, op |-> op] \in Decision
    BY DEF Decision
  <2> QED BY <2>1 DEF RejectRow, StoreTypeOK
<1>3. demande' \in [Requests -> DemandeRow]
  <2>1. demande[r] \in DemandeRow
    BY DEF StoreTypeOK
  <2>2. [demande[r] EXCEPT !.status = "REJETE", !.stepStatus = "TERMINE"]
            \in DemandeRow
    BY <2>1 DEF DemandeRow, Statuses, StepStatuses
  <2> QED BY <2>2 DEF RejectRow, StoreTypeOK
<1> QED BY <1>1, <1>2, <1>3 DEF RejectRow, StoreTypeOK, clockVars

\* Cancel's UPDATE keeps the tables well typed.
LEMMA CancelRowTyped ==
    ASSUME StoreTypeOK, NEW r \in Requests, NEW op \in Operators,
           NEW noted \in Steps \cup {None}, CancelRow(r, op, noted)
    PROVE  StoreTypeOK'
<1>1. decisions' \in [Requests -> Seq(Decision)]
  <2>1. CASE noted = None
    BY <2>1 DEF CancelRow, StoreTypeOK
  <2>2. CASE noted # None
    <3>1. [step |-> noted, op |-> op] \in Decision
      BY <2>2 DEF Decision
    <3> QED BY <2>2, <3>1 DEF CancelRow, StoreTypeOK
  <2> QED BY <2>1, <2>2
<1>2. demande' \in [Requests -> DemandeRow]
  <2>1. demande[r] \in DemandeRow
    BY DEF StoreTypeOK
  <2>2. [demande[r] EXCEPT !.status = "ANNULE", !.stepStatus = "TERMINE",
                           !.pending = "none"] \in DemandeRow
    BY <2>1 DEF DemandeRow, Statuses, StepStatuses, Pendings
  <2> QED BY <2>2 DEF CancelRow, StoreTypeOK
<1> QED BY <1>1, <1>2 DEF CancelRow, StoreTypeOK, clockVars

\* transition_prevue_a can take any of its three values.
LEMMA PendingTyped ==
    ASSUME StoreTypeOK, NEW r \in Requests, NEW p \in Pendings
    PROVE  [demande EXCEPT ![r].pending = p] \in [Requests -> DemandeRow]
<1>1. demande \in [Requests -> DemandeRow] /\ demande[r] \in DemandeRow
  BY DEF StoreTypeOK
<1>2. [demande[r] EXCEPT !.pending = p] \in DemandeRow
  BY <1>1 DEF DemandeRow
<1> QED BY <1>1, <1>2

\* A scheduled transition, marked numbers and a confirmation are well typed.
LEMMA SmallWritesTyped ==
    ASSUME StoreTypeOK, NEW r \in Requests
    PROVE  /\ ScheduleTransitionAt(r) => StoreTypeOK'
           /\ \A drop \in SUBSET Numbers : MarkNumbers(r, drop) => StoreTypeOK'
           /\ \A op \in Operators : InsertConfirmation(r, op) => StoreTypeOK'
<1>1. ASSUME ScheduleTransitionAt(r) PROVE StoreTypeOK'
  <2>1. demande' \in [Requests -> DemandeRow]
    BY <1>1, PendingTyped DEF ScheduleTransitionAt, StoreTypeOK, Pendings
  <2> QED BY <1>1, <2>1
          DEF ScheduleTransitionAt, StoreTypeOK, historyVars, clockVars
<1>2. ASSUME NEW drop \in SUBSET Numbers, MarkNumbers(r, drop)
      PROVE  StoreTypeOK'
  BY <1>2 DEF MarkNumbers, StoreTypeOK, historyVars, clockVars
<1>3. ASSUME NEW op \in Operators, InsertConfirmation(r, op)
      PROVE  StoreTypeOK'
  BY <1>3 DEF InsertConfirmation, StoreTypeOK, historyVars, clockVars
<1> QED BY <1>1, <1>2, <1>3

\* The purge leaves well-typed tables.
LEMMA PurgeTyped ==
    ASSUME StoreTypeOK, NEW op \in Operators, PurgeTestData(op)
    PROVE  StoreTypeOK'
<1>1. demande' \in [Requests -> DemandeRow]
  BY CreateTyped DEF PurgeTestData, StoreTypeOK
<1>2. /\ rejected' \in [Requests -> SUBSET Numbers]
      /\ confirmed' \in [Requests -> SUBSET Operators]
      /\ overdue' \subseteq Requests
      /\ overdueAtTick' \subseteq Requests
  BY DEF PurgeTestData, StoreTypeOK
<1>3. /\ closings' \in [Requests -> Seq(Closing)]
      /\ decisions' \in [Requests -> Seq(Decision)]
  BY DEF PurgeTestData, StoreTypeOK
<1>4. numberRouting' \in [Requests -> [Numbers -> Operators \cup {None}]]
  BY DEF PurgeTestData, StoreTypeOK
<1>5. numero' \in [Numbers -> [holder : Operators, dated : BOOLEAN,
                               restituted : BOOLEAN]]
  <2>1. \A n \in Numbers : RegistryEntry(Registry[n].origin, FALSE, FALSE)
            \in [holder : Operators, dated : BOOLEAN, restituted : BOOLEAN]
    BY RegistryColumns DEF RegistryEntry
  <2>2. \A n \in Numbers : numero[n]
            \in [holder : Operators, dated : BOOLEAN, restituted : BOOLEAN]
    BY DEF StoreTypeOK
  <2> QED BY <2>1, <2>2 DEF PurgeTestData
<1> QED BY <1>1, <1>2, <1>3, <1>4, <1>5 DEF StoreTypeOK

-----------------------------------------------------------------------------
(***************************************************************************)
(* What a step may do to the requests and to their history: one of the     *)
(* transactions of RequestStore, or a change of a pending transition, or   *)
(* nothing.                                                                *)
(***************************************************************************)
HistoryKept == UNCHANGED <<demande, closings, decisions>>

PendingChanged ==
    /\ \E r \in Requests, p \in Pendings :
          demande' = [demande EXCEPT ![r].pending = p]
    /\ UNCHANGED <<closings, decisions>>

Transitioned == \E r \in Requests, origin \in Origins : ApplyTransition(r, origin)

Rejected(c) ==
    /\ At(c, "rejectUpdate")
    /\ Present(calls[c].req)
    /\ RejectRow(calls[c].req, calls[c].op, calls[c].noted, calls[c].drop)
    /\ Answer(c)

Cancelled(c) ==
    /\ At(c, "cancelUpdate")
    /\ StepSeen(calls[c].req) = calls[c].step
    /\ CancelRow(calls[c].req, calls[c].op, calls[c].noted)
    /\ Answer(c)

Effect ==
    \/ HistoryKept
    \/ PendingChanged
    \/ Transitioned
    \/ \E c \in Calls : Rejected(c) \/ Cancelled(c)
    \/ \E op \in Operators : PurgeTestData(op)

\* A handler past its reading holds an operator, a request and a step.
LEMMA CallFields ==
    ASSUME TypeOK, NEW c \in Calls
    PROVE  /\ calls[c] \in CallRow
           /\ calls[c].pc \notin {"idle", "opened"} =>
                 /\ calls[c].op \in Operators
                 /\ calls[c].req \in Requests
                 /\ calls[c].step \in Steps
           /\ calls[c].pc = "rejectUpdate" /\ Present(calls[c].req) =>
                 calls[c].noted \in Steps
BY DEF TypeOK, CallRow

\* The writes that close nothing leave the history alone.
LEMMA SmallWritesEffect ==
    ASSUME NEW r \in Requests
    PROVE  /\ ScheduleTransitionAt(r) => Effect
           /\ \A drop : MarkNumbers(r, drop) => Effect
           /\ \A op : InsertConfirmation(r, op) => Effect
<1>1. ASSUME ScheduleTransitionAt(r) PROVE Effect
  <2>1. CASE Present(r)
    <3>1. PendingChanged
      BY <1>1, <2>1
         DEF ScheduleTransitionAt, PendingChanged, Pendings, historyVars
    <3> QED BY <3>1 DEF Effect
  <2>2. CASE ~ Present(r)
    BY <1>1, <2>2 DEF ScheduleTransitionAt, Effect, HistoryKept, historyVars
  <2> QED BY <2>1, <2>2
<1>2. ASSUME NEW drop, MarkNumbers(r, drop) PROVE Effect
  BY <1>2 DEF MarkNumbers, Effect, HistoryKept, historyVars
<1>3. ASSUME NEW op, InsertConfirmation(r, op) PROVE Effect
  BY <1>3 DEF InsertConfirmation, Effect, HistoryKept, historyVars
<1> QED BY <1>1, <1>2, <1>3

\* The steps of a call.
LEMMA CallStepEffect ==
    ASSUME TypeOK, NEW c \in Calls, CallStep(c)
    PROVE  Effect
<1>1. UNCHANGED store => Effect
  BY DEF store, Effect, HistoryKept
<1>2. CASE RejectUpdate(c)
  BY <1>1, <1>2 DEF RejectUpdate, Effect, Rejected
<1>3. CASE FleetCommit(c)
  <2>1. calls[c].req \in Requests
    BY <1>3, CallFields DEF FleetCommit, At
  <2> QED BY <1>1, <1>3, <2>1, SmallWritesEffect DEF FleetCommit
<1>4. CASE CancelUpdate(c)
  BY <1>1, <1>4 DEF CancelUpdate, Effect, Cancelled
<1>5. CASE InsertConfirm(c)
  <2>1. calls[c].req \in Requests
    BY <1>5, CallFields DEF InsertConfirm, At
  <2> QED BY <1>1, <1>5, <2>1, SmallWritesEffect DEF InsertConfirm
<1>6. CASE ScheduleTransition(c)
  <2>1. calls[c].req \in Requests
    BY <1>6, CallFields DEF ScheduleTransition, At
  <2>2. CASE ScheduleTransitionAt(calls[c].req)
    BY <2>1, <2>2, SmallWritesEffect
  <2>3. CASE ApplyTransition(calls[c].req, "ACTION")
    BY <2>1, <2>3 DEF Effect, Transitioned, Origins
  <2> QED BY <1>6, <2>2, <2>3 DEF ScheduleTransition
<1> QED BY <1>1, <1>2, <1>3, <1>4, <1>5, <1>6
        DEF CallStep, Refuse, RejectInsert, FleetDecide, CancelInsert,
            CountConfirmations

\* Any step of the workflow.
LEMMA NextEffect ==
    ASSUME TypeOK, Next
    PROVE  Effect
<1>1. UNCHANGED store => Effect
  BY DEF store, Effect, HistoryKept
<1>2. ASSUME NEW c \in Calls, Open(c) \/ Decide(c) \/ CallStep(c) \/ Abort(c)
      PROVE  Effect
  BY <1>1, <1>2, CallStepEffect
     DEF Open, Decide, Accept, Reject, AcceptFleet, ProcessStep, Confirm,
         Cancel, Read, Abort
<1>3. ASSUME EngineStep PROVE Effect
  <2>1. CASE Tick \/ EndTick
    BY <2>1 DEF Tick, EndTick, Effect, HistoryKept, historyVars
  <2>2. ASSUME NEW r \in Requests, EngineApply(r) PROVE Effect
    BY <2>2 DEF EngineApply, TickOrigin, Effect, Transitioned, Origins
  <2> QED BY <1>1, <1>3, <2>1, <2>2
          DEF EngineStep, ListDueConvergences, ListOverdueSteps,
              ListPendingReverses
<1>4. CASE TickFails
  BY <1>4 DEF TickFails, Effect, HistoryKept, historyVars
<1>5. ASSUME NEW r \in Requests, ConvergenceDue(r) \/ StepTimesOut(r)
      PROVE  Effect
  <2>1. CASE ConvergenceDue(r)
    BY <2>1 DEF ConvergenceDue, Effect, PendingChanged, Pendings, historyVars
  <2>2. CASE StepTimesOut(r)
    BY <2>2 DEF StepTimesOut, Effect, HistoryKept, historyVars
  <2> QED BY <1>5, <2>1, <2>2
<1>6. ASSUME NEW op \in Declarers, DeclareIncident(op) \/ ResolveIncident(op)
      PROVE  Effect
  BY <1>1, <1>6 DEF DeclareIncident, ResolveIncident
<1>7. ASSUME NEW op \in Purgers, Purge(op) PROVE Effect
  BY <1>7, WorkflowAssumption DEF Purge, Effect
<1> QED BY <1>2, <1>3, <1>4, <1>5, <1>6, <1>7 DEF Next

\* What ApplyTransition does to the request: nothing unless it is in
\* progress; otherwise it closes its current step and advances or ends it.
Moved(r, origin) ==
    /\ InProgress(r)
    /\ closings' = [closings EXCEPT
           ![r] = Append(@, [step |-> demande[r].step, origin |-> origin])]
    /\ UNCHANGED decisions
    /\ \E row \in DemandeRow :
          /\ demande' = [demande EXCEPT ![r] = row]
          /\ \/ /\ demande[r].step # "COMPLETION"
                /\ row.status = "EN_COURS"
                /\ row.step = NextStep(demande[r].step)
             \/ /\ demande[r].step = "COMPLETION"
                /\ row.status = "TERMINE"
                /\ row.step = "COMPLETION"

\* ApplyTransition does nothing, or moves its request.
LEMMA TransitionOutcome ==
    ASSUME StoreTypeOK, NEW r \in Requests, NEW origin \in Origins,
           ApplyTransition(r, origin)
    PROVE  HistoryKept \/ Moved(r, origin)
<1>1. CASE UNCHANGED store
  BY <1>1 DEF store, HistoryKept
<1>2. CASE /\ InProgress(r)
           /\ CloseCurrentStep(r, origin)
           /\ EndRequest(r, origin) \/ LeaveActivation(r) \/ LeaveOtherStep(r)
           /\ UNCHANGED <<rejected, decisions, confirmed>>
  <2> DEFINE row == demande'[r]
  <2>1. demande' \in [Requests -> DemandeRow]
    BY ApplyTransitionTyped DEF StoreTypeOK
  <2>2. demande \in [Requests -> DemandeRow]
    BY DEF StoreTypeOK
  <2>3. row \in DemandeRow
    BY <2>1
  <2>4. CASE EndRequest(r, origin)
    <3>1. /\ demande' = [demande EXCEPT ![r] = row]
          /\ row.status = "TERMINE"
          /\ row.step = demande[r].step
      BY <2>2, <2>4 DEF EndRequest, CompleteRequest
    <3>2. demande[r].step = "COMPLETION"
      BY <2>4 DEF EndRequest
    <3> HIDE DEF row
    <3> QED BY <1>2, <2>3, <3>1, <3>2 DEF Moved, CloseCurrentStep
  <2>5. CASE LeaveActivation(r) \/ LeaveOtherStep(r)
    <3>1. PICK routing : AdvanceStep(r, routing)
      BY <2>5 DEF LeaveActivation, LeaveOtherStep
    <3>2. /\ demande' = [demande EXCEPT ![r] = row]
          /\ row.status = demande[r].status
          /\ row.step = NextStep(demande[r].step)
      BY <2>2, <3>1 DEF AdvanceStep
    <3>3. demande[r].step # "COMPLETION"
      BY <2>5 DEF LeaveActivation, LeaveOtherStep
    <3>4. row.status = "EN_COURS"
      BY <1>2, <3>2 DEF InProgress
    <3> HIDE DEF row
    <3> QED BY <1>2, <2>3, <3>2, <3>3, <3>4 DEF Moved, CloseCurrentStep
  <2> QED BY <1>2, <2>4, <2>5
<1> QED BY <1>1, <1>2 DEF ApplyTransition

\* A purged request is never seen again: identifiers are not reused.
LEMMA AbsentStays ==
    ASSUME TypeOK, [Next]_vars, NEW r \in Requests, ~ Present(r)
    PROVE  ~ Present(r)'
<1> USE DEF Present
<1>0. StoreTypeOK /\ demande \in [Requests -> DemandeRow]
  BY DEF TypeOK, StoreTypeOK
<1>1. CASE UNCHANGED vars
  BY <1>1 DEF vars, store
<1>2. CASE HistoryKept
  BY <1>2 DEF HistoryKept
<1>3. CASE PendingChanged
  BY <1>0, <1>3 DEF PendingChanged, DemandeRow
<1>4. CASE Transitioned
  <2>1. PICK q \in Requests, origin \in Origins : ApplyTransition(q, origin)
    BY <1>4 DEF Transitioned
  <2>2. CASE HistoryKept
    BY <2>2 DEF HistoryKept
  <2>3. CASE Moved(q, origin)
    <3>1. q # r
      BY <2>3 DEF Moved, InProgress
    <3> QED BY <1>0, <2>3, <3>1 DEF Moved
  <2> QED BY <1>0, <2>1, <2>2, <2>3, TransitionOutcome
<1>5. ASSUME NEW c \in Calls, Rejected(c) \/ Cancelled(c)
      PROVE  ~ Present(r)'
  <2>1. calls[c].req \in Requests /\ calls[c].step # None
    BY <1>5, CallFields, StoreAssumption DEF Rejected, Cancelled, At
  <2>2. calls[c].req # r
    BY <1>5, <2>1 DEF Rejected, Cancelled, StepSeen
  <2> QED BY <1>0, <1>5, <2>1, <2>2 DEF Rejected, Cancelled, RejectRow, CancelRow
<1>6. ASSUME NEW op \in Operators, PurgeTestData(op)
      PROVE  ~ Present(r)'
  BY <1>0, <1>6 DEF PurgeTestData, PurgedRow, Create
<1> QED BY <1>1, <1>2, <1>3, <1>4, <1>5, <1>6, NextEffect DEF Effect

-----------------------------------------------------------------------------
(***************************************************************************)
(* Type correctness of the workflow.                                       *)
(***************************************************************************)
CallTyped(k) ==
    /\ k \in CallRow
    /\ k.pc \notin {"idle", "opened"} => k.op # None /\ k.req # None /\ k.step # None
    /\ k.pc = "rejectUpdate" /\ Present(k.req) => k.noted # None

EngineTyped == engine \in [pc : EnginePoints, owed : [Requests -> 0..2]]

FaultsTyped == incidents \subseteq Operators /\ faults \in 0..MaxFaults

\* TypeOK, in the parts the proof takes one by one.
LEMMA TypeOKParts ==
    TypeOK <=> /\ StoreTypeOK
               /\ calls \in [Calls -> CallRow]
               /\ \A c \in Calls : CallTyped(calls[c])
               /\ EngineTyped
               /\ FaultsTyped
BY DEF TypeOK, CallTyped, EngineTyped, FaultsTyped

\* The two calls that hold nothing are well typed.
LEMMA RestingCallsTyped == CallTyped(Idle) /\ CallTyped(Opened)
BY DEF CallTyped, CallRow, CallPoints, Idle, Opened, Call

\* Putting one well-typed call in a slot keeps every call well typed.
LEMMA CallsTyped ==
    ASSUME TypeOK, [Next]_vars, NEW c \in Calls, NEW k, CallTyped(k),
           calls' = calls \/ calls' = [calls EXCEPT ![c] = k]
    PROVE  /\ calls' \in [Calls -> CallRow]
           /\ \A d \in Calls : CallTyped(calls[d])'
<1>1. ASSUME NEW j, CallTyped(j)
      PROVE  /\ j \in CallRow
             /\ j.pc \notin {"idle", "opened"} =>
                   j.op # None /\ j.req # None /\ j.step # None
             /\ j.pc = "rejectUpdate" /\ Present(j.req)' => j.noted # None
  <2>1. CASE j.pc = "rejectUpdate"
    <3>1. j.req \in Requests
      BY <1>1, <2>1 DEF CallTyped, CallRow
    <3> QED BY <1>1, <3>1, AbsentStays DEF CallTyped
  <2> QED BY <1>1, <2>1 DEF CallTyped
<1>2. calls \in [Calls -> CallRow] /\ \A d \in Calls : CallTyped(calls[d])
  BY TypeOKParts
<1>3. calls' \in [Calls -> CallRow] /\ \A d \in Calls : calls'[d] \in {k, calls[d]}
  BY <1>1, <1>2
<1>4. ASSUME NEW d \in Calls PROVE CallTyped(calls[d])'
  <2>1. CallTyped(calls'[d])
    BY <1>2, <1>3
  <2> QED BY <1>1, <2>1 DEF CallTyped
<1> QED BY <1>3, <1>4

\* Init gives every variable a value of its type.
LEMMA InitTyped == Init => TypeOK
<1> SUFFICES ASSUME Init PROVE TypeOK
  OBVIOUS
<1>1. StoreTypeOK
  BY StoreInitTyped DEF Init
<1>2. calls \in [Calls -> CallRow] /\ \A c \in Calls : CallTyped(calls[c])
  BY RestingCallsTyped DEF Init, CallTyped
<1>3. EngineTyped
  BY DEF Init, EngineTyped, EnginePoints, NothingOwed
<1>4. FaultsTyped
  BY WorkflowAssumption DEF Init, FaultsTyped
<1> QED BY <1>1, <1>2, <1>3, <1>4, TypeOKParts

\* Every step keeps the tables well typed.
LEMMA StoreStaysTyped ==
    ASSUME TypeOK, [Next]_vars
    PROVE  StoreTypeOK'
<1>0. StoreTypeOK
  BY DEF TypeOK
<1>1. UNCHANGED store => StoreTypeOK'
  BY <1>0 DEF store, StoreTypeOK
<1>2. ASSUME NEW c \in Calls, CallStep(c) PROVE StoreTypeOK'
  <2>1. CASE RejectUpdate(c)
    <3>1. CASE /\ Present(calls[c].req)
               /\ RejectRow(calls[c].req, calls[c].op, calls[c].noted, calls[c].drop)
      <4>1. /\ calls[c].req \in Requests /\ calls[c].op \in Operators
            /\ calls[c].noted \in Steps /\ calls[c].drop \in SUBSET Numbers
        BY <2>1, <3>1, CallFields DEF RejectUpdate, At, CallRow
      <4> QED BY <1>0, <3>1, <4>1, RejectRowTyped
    <3> QED BY <1>1, <2>1, <3>1 DEF RejectUpdate
  <2>2. CASE FleetCommit(c)
    <3>1. calls[c].req \in Requests /\ calls[c].drop \in SUBSET Numbers
      BY <2>2, CallFields DEF FleetCommit, At, CallRow
    <3> QED BY <1>0, <1>1, <2>2, <3>1, SmallWritesTyped DEF FleetCommit
  <2>3. CASE CancelUpdate(c)
    <3>1. /\ calls[c].req \in Requests /\ calls[c].op \in Operators
          /\ calls[c].noted \in Steps \cup {None}
      BY <2>3, CallFields DEF CancelUpdate, At, CallRow
    <3> QED BY <1>0, <1>1, <2>3, <3>1, CancelRowTyped DEF CancelUpdate
  <2>4. CASE InsertConfirm(c)
    <3>1. calls[c].req \in Requests /\ calls[c].op \in Operators
      BY <2>4, CallFields DEF InsertConfirm, At
    <3> QED BY <1>0, <1>1, <2>4, <3>1, SmallWritesTyped DEF InsertConfirm
  <2>5. CASE ScheduleTransition(c)
    <3>1. calls[c].req \in Requests
      BY <2>5, CallFields DEF ScheduleTransition, At
    <3> QED BY <1>0, <2>5, <3>1, SmallWritesTyped, ApplyTransitionTyped
            DEF ScheduleTransition, Origins
  <2> QED BY <1>1, <1>2, <2>1, <2>2, <2>3, <2>4, <2>5
          DEF CallStep, Refuse, RejectInsert, FleetDecide, CancelInsert,
              CountConfirmations
<1>3. ASSUME NEW c \in Calls, Open(c) \/ Decide(c) \/ Abort(c)
      PROVE  StoreTypeOK'
  BY <1>1, <1>3 DEF Open, Decide, Accept, Reject, AcceptFleet, ProcessStep,
                    Confirm, Cancel, Read, Abort
<1>4. CASE Tick \/ EndTick \/ TickFails
  BY <1>0, <1>4 DEF Tick, EndTick, TickFails, StoreTypeOK, historyVars
<1>5. ASSUME NEW r \in Requests, EngineApply(r) PROVE StoreTypeOK'
  BY <1>0, <1>5, ApplyTransitionTyped DEF EngineApply, TickOrigin, Origins
<1>6. CASE ListDueConvergences \/ ListOverdueSteps \/ ListPendingReverses
  BY <1>1, <1>6 DEF ListDueConvergences, ListOverdueSteps, ListPendingReverses
<1>7. ASSUME NEW r \in Requests, ConvergenceDue(r) PROVE StoreTypeOK'
  <2>1. demande' \in [Requests -> DemandeRow]
    BY <1>0, <1>7, PendingTyped DEF ConvergenceDue, Pendings
  <2> QED BY <1>0, <1>7, <2>1
          DEF ConvergenceDue, StoreTypeOK, historyVars, clockVars
<1>8. ASSUME NEW r \in Requests, StepTimesOut(r) PROVE StoreTypeOK'
  BY <1>0, <1>8 DEF StepTimesOut, StoreTypeOK, historyVars
<1>9. ASSUME NEW op \in Operators, DeclareIncident(op) \/ ResolveIncident(op)
      PROVE  StoreTypeOK'
  BY <1>1, <1>9 DEF DeclareIncident, ResolveIncident
<1>10. ASSUME NEW op \in Operators, Purge(op) PROVE StoreTypeOK'
  BY <1>0, <1>10, PurgeTyped DEF Purge
<1>11. CASE UNCHANGED vars
  BY <1>1, <1>11 DEF vars
<1> QED BY <1>2, <1>3, <1>4, <1>5, <1>6, <1>7, <1>8, <1>9, <1>10, <1>11,
           WorkflowAssumption DEF Next, EngineStep

\* Every step of a call leaves well-typed calls.
LEMMA CallsStayTyped ==
    ASSUME TypeOK, [Next]_vars, NEW c \in Calls,
           Open(c) \/ Decide(c) \/ CallStep(c) \/ Abort(c)
    PROVE  /\ calls' \in [Calls -> CallRow]
           /\ \A d \in Calls : CallTyped(calls[d])'
<1> DEFINE Goal == /\ calls' \in [Calls -> CallRow]
                   /\ \A d \in Calls : CallTyped(calls[d])'
<1>0. CallTyped(calls[c]) /\ StoreTypeOK
  BY TypeOKParts
<1>1. ASSUME NEW k, CallTyped(k), calls' = [calls EXCEPT ![c] = k]
      PROVE  Goal
  BY <1>1, CallsTyped
<1>2. CASE Open(c)
  BY <1>1, <1>2, RestingCallsTyped DEF Open, Become
<1>3. ASSUME Answer(c) \/ Abort(c) PROVE Goal
  BY <1>1, <1>3, RestingCallsTyped DEF Answer, Become, Abort
<1>4. CASE Decide(c)
  <2>1. ASSUME NEW op \in Operators, NEW r \in Requests, NEW drop \in SUBSET Numbers,
               NEW pc \in CallPoints \ {"rejectUpdate"}, Read(c, op, r, pc, drop)
        PROVE  Goal
    <3> DEFINE k == Call(pc, op, r, demande[r].step, drop, None)
    <3>1. demande[r].step \in Steps
      BY <1>0 DEF StoreTypeOK, DemandeRow
    <3>2. CallTyped(k)
      BY <2>1, <3>1, StoreAssumption DEF CallTyped, CallRow, Call
    <3>3. calls' = [calls EXCEPT ![c] = k]
      BY <2>1 DEF Read, Become
    <3> QED BY <1>1, <3>2, <3>3
  <2>2. ASSUME NEW op \in Operators, NEW r \in Requests,
               \/ Accept(c, op, r) \/ Reject(c, op, r) \/ ProcessStep(c, op, r)
               \/ Confirm(c, op, r) \/ Cancel(c, op, r)
        PROVE  \E pc \in CallPoints \ {"rejectUpdate"} : Read(c, op, r, pc, {})
    BY <2>2 DEF Accept, Reject, ProcessStep, Confirm, Cancel, CallPoints
  <2>3. ASSUME NEW op \in Operators, NEW r \in Requests,
               NEW drop \in SUBSET Portfolio[r].fleet, AcceptFleet(c, op, r, drop)
        PROVE  drop \in SUBSET Numbers /\ Read(c, op, r, "fleet", drop)
    BY <2>3, PortfolioColumns DEF AcceptFleet
  <2>4. "fleet" \in CallPoints \ {"rejectUpdate"} /\ {} \in SUBSET Numbers
    BY DEF CallPoints
  <2> HIDE DEF Goal
  <2>5. Goal
    BY <1>4, <2>1, <2>2, <2>3, <2>4 DEF Decide
  <2> QED BY <2>5 DEF Goal
<1>5. ASSUME NEW pc \in CallPoints \ {"rejectUpdate"},
             calls[c].pc \notin {"idle", "opened"}, Goto(c, pc)
      PROVE  Goal
  <2> DEFINE k == [calls[c] EXCEPT !.pc = pc]
  <2>1. CallTyped(k)
    BY <1>0, <1>5 DEF CallTyped, CallRow
  <2>2. calls' = [calls EXCEPT ![c] = k]
    BY <1>5 DEF Goto, Become
  <2> QED BY <1>1, <2>1, <2>2
<1>6. ASSUME NEW pc \in CallPoints, NEW noted \in Steps \cup {None},
             calls[c].pc \notin {"idle", "opened"},
             pc = "rejectUpdate" /\ Present(calls[c].req) => noted # None,
             Become(c, [calls[c] EXCEPT !.pc = pc, !.noted = noted])
      PROVE  Goal
  <2> DEFINE k == [calls[c] EXCEPT !.pc = pc, !.noted = noted]
  <2>1. CallTyped(k)
    BY <1>0, <1>6 DEF CallTyped, CallRow
  <2>2. calls' = [calls EXCEPT ![c] = k]
    BY <1>6 DEF Become
  <2> QED BY <1>1, <2>1, <2>2
<1>7. CASE CallStep(c)
  <2>1. ASSUME calls[c].pc \notin {"idle", "opened"}
        PROVE  /\ StepSeen(calls[c].req) \in Steps \cup {None}
               /\ Present(calls[c].req) => StepSeen(calls[c].req) # None
               /\ calls[c].step \in Steps
    <3>1. calls[c].req \in Requests /\ calls[c].step \in Steps
      BY <2>1, CallFields
    <3>2. demande[calls[c].req].step \in Steps
      BY <1>0, <3>1 DEF StoreTypeOK, DemandeRow
    <3> QED BY <3>1, <3>2, StoreAssumption DEF StepSeen
  <2>2. CASE RejectInsert(c)
    BY <1>6, <2>1, <2>2 DEF RejectInsert, At, CallPoints
  <2>3. CASE FleetDecide(c)
    BY <1>5, <1>6, <2>1, <2>3 DEF FleetDecide, At, CallPoints
  <2>4. CASE CancelInsert(c)
    <3> DEFINE seen == IF StepSeen(calls[c].req) = calls[c].step
                       THEN calls[c].step ELSE None
    <3>1. seen \in Steps \cup {None}
      BY <2>1, <2>4 DEF CancelInsert, At
    <3> DEFINE k == [calls[c] EXCEPT !.pc = "cancelUpdate", !.noted = seen]
    <3>2. calls' = [calls EXCEPT ![c] = k]
      BY <2>4 DEF CancelInsert, Become
    <3>3. CallTyped(k)
      <4>1. calls[c].pc = "cancel"
        BY <2>4 DEF CancelInsert, At
      <4> HIDE DEF seen
      <4> QED BY <1>0, <3>1, <4>1 DEF CallTyped, CallRow, CallPoints
    <3> QED BY <1>1, <3>2, <3>3
  <2>5. CASE FleetCommit(c) \/ InsertConfirm(c) \/ CountConfirmations(c)
    BY <1>3, <1>5, <2>5
       DEF FleetCommit, InsertConfirm, CountConfirmations, At, CallPoints
  <2> QED BY <1>3, <1>7, <2>2, <2>3, <2>4, <2>5
          DEF CallStep, Refuse, RejectUpdate, CancelUpdate, ScheduleTransition
<1> QED BY <1>2, <1>3, <1>4, <1>7

\* Every step leaves the engine, the incidents and the faults well typed.
LEMMA EngineStaysTyped ==
    ASSUME TypeOK, [Next]_vars
    PROVE  EngineTyped' /\ FaultsTyped'
<1>0. EngineTyped /\ FaultsTyped
  BY TypeOKParts
<1>1. UNCHANGED <<engine, incidents, faults>> => EngineTyped' /\ FaultsTyped'
  BY <1>0 DEF EngineTyped, FaultsTyped
<1>2. ASSUME NEW c \in Calls, Open(c) \/ Decide(c) \/ CallStep(c)
      PROVE  UNCHANGED <<engine, incidents, faults>>
  BY <1>2 DEF Open, Decide, Accept, Reject, AcceptFleet, ProcessStep, Confirm,
              Cancel, Read, CallStep, Refuse, RejectInsert, RejectUpdate,
              FleetDecide, FleetCommit, CancelInsert, CancelUpdate,
              InsertConfirm, CountConfirmations, ScheduleTransition, Answer,
              Goto, Become
<1>3. ASSUME NEW c \in Calls, Abort(c) PROVE EngineTyped' /\ FaultsTyped'
  BY <1>0, <1>3, WorkflowAssumption DEF Abort, EngineTyped, FaultsTyped
<1>4. ASSUME NEW pc \in EnginePoints, NEW owed \in [Requests -> 0..2],
             Pass(pc, owed)
      PROVE  EngineTyped' /\ FaultsTyped'
  BY <1>0, <1>4 DEF Pass, EngineTyped, FaultsTyped
<1>5. NothingOwed \in [Requests -> 0..2]
  BY DEF NothingOwed
<1>6. \A ids : OnceEach(ids) \in [Requests -> 0..2]
  BY DEF OnceEach
<1>7. CASE Tick \/ EndTick
  BY <1>4, <1>5, <1>7 DEF Tick, EndTick, EnginePoints
<1>8. CASE ListDueConvergences
  BY <1>4, <1>6, <1>8 DEF ListDueConvergences, EnginePoints
<1>9. CASE ListOverdueSteps
  <2> DEFINE owed == OnceEach(IF StepTimeout THEN OverdueSteps ELSE {})
  <2>1. Pass("expiring", owed)
    BY <1>9 DEF ListOverdueSteps
  <2>2. owed \in [Requests -> 0..2]
    BY <1>6
  <2> HIDE DEF owed
  <2> QED BY <1>4, <2>1, <2>2 DEF EnginePoints
<1>10. CASE ListPendingReverses
  <2> DEFINE owed == [r \in Requests |->
                        IF r \notin PendingReverseCompletions THEN 0
                        ELSE IF demande[r].step = "CONFIRMATION" THEN 2 ELSE 1]
  <2>1. Pass("completing", owed)
    BY <1>10 DEF ListPendingReverses
  <2>2. owed \in [Requests -> 0..2]
    OBVIOUS
  <2> HIDE DEF owed
  <2> QED BY <1>4, <2>1, <2>2 DEF EnginePoints
<1>11. ASSUME NEW r \in Requests, EngineApply(r)
       PROVE  EngineTyped' /\ FaultsTyped'
  <2> DEFINE owed == [engine.owed EXCEPT ![r] = @ - 1]
  <2>1. Pass(engine.pc, owed) /\ engine.owed[r] > 0
    BY <1>11 DEF EngineApply
  <2>2. owed \in [Requests -> 0..2] /\ engine.pc \in EnginePoints
    BY <1>0, <2>1 DEF EngineTyped
  <2> HIDE DEF owed
  <2> QED BY <1>4, <2>1, <2>2
<1>12. CASE TickFails
  BY <1>0, <1>5, <1>12, WorkflowAssumption
     DEF TickFails, EngineTyped, FaultsTyped, EnginePoints
<1>13. ASSUME NEW r \in Requests, ConvergenceDue(r) \/ StepTimesOut(r)
       PROVE  EngineTyped' /\ FaultsTyped'
  BY <1>1, <1>13 DEF ConvergenceDue, StepTimesOut
<1>14. ASSUME NEW op \in Operators, DeclareIncident(op) \/ ResolveIncident(op)
       PROVE  EngineTyped' /\ FaultsTyped'
  BY <1>0, <1>14 DEF DeclareIncident, ResolveIncident, EngineTyped, FaultsTyped
<1>15. ASSUME NEW op \in Operators, Purge(op) PROVE EngineTyped' /\ FaultsTyped'
  BY <1>1, <1>15 DEF Purge
<1>16. CASE UNCHANGED vars
  BY <1>1, <1>16 DEF vars
<1> QED BY <1>1, <1>2, <1>3, <1>7, <1>8, <1>9, <1>10, <1>11, <1>12, <1>13,
           <1>14, <1>15, <1>16, WorkflowAssumption DEF Next, EngineStep

\* The calls change only by a step of one of them.
LEMMA CallsChangeOneByOne ==
    ASSUME [Next]_vars
    PROVE  \/ \E c \in Calls : Open(c) \/ Decide(c) \/ CallStep(c) \/ Abort(c)
           \/ UNCHANGED calls
BY DEF Next, vars, EngineStep, Tick, ListDueConvergences, ListOverdueSteps,
       ListPendingReverses, EndTick, EngineApply, Pass, TickFails,
       ConvergenceDue, StepTimesOut, DeclareIncident, ResolveIncident, Purge

\* Type correctness: every row, call and pass keeps the shape the code gives
\* it; a handler past its reading holds an operator, a request and a step.
THEOREM TypeCorrect == Spec => []TypeOK
<1>1. Init => TypeOK
  BY InitTyped
<1>2. ASSUME TypeOK, [Next]_vars PROVE TypeOK'
  <2>1. StoreTypeOK'
    BY <1>2, StoreStaysTyped
  <2>2. EngineTyped' /\ FaultsTyped'
    BY <1>2, EngineStaysTyped
  <2>3. calls' \in [Calls -> CallRow] /\ \A d \in Calls : CallTyped(calls[d])'
    <3>1. CASE \E c \in Calls : Open(c) \/ Decide(c) \/ CallStep(c) \/ Abort(c)
      BY <1>2, <3>1, CallsStayTyped
    <3>2. CASE UNCHANGED calls
      <4>1. CASE Calls = {}
        BY <1>2, <3>2, <4>1, TypeOKParts
      <4>2. CASE Calls # {}
        BY <1>2, <3>2, <4>2, CallsTyped, RestingCallsTyped
      <4> QED BY <4>1, <4>2
    <3> QED BY <1>2, <3>1, <3>2, CallsChangeOneByOne
  <2> QED BY <2>1, <2>2, <2>3
          DEF TypeOK, EngineTyped, FaultsTyped, CallTyped
<1> QED BY <1>1, <1>2, PTL DEF Spec

-----------------------------------------------------------------------------
(***************************************************************************)
(* What a step may do to one request that is not purged by it.             *)
(***************************************************************************)
StaysPut(r) ==
    /\ demande'[r].status = demande[r].status
    /\ demande'[r].step = demande[r].step
    /\ closings'[r] = closings[r]
    /\ decisions'[r] = decisions[r]

Advances(r) ==
    /\ InProgress(r)
    /\ \E origin \in Origins :
          closings'[r] = Append(closings[r],
                                [step |-> demande[r].step, origin |-> origin])
    /\ decisions'[r] = decisions[r]
    /\ \/ /\ demande[r].step # "COMPLETION"
          /\ demande'[r].status = "EN_COURS"
          /\ demande'[r].step = NextStep(demande[r].step)
       \/ /\ demande[r].step = "COMPLETION"
          /\ demande'[r].status = "TERMINE"
          /\ demande'[r].step = "COMPLETION"

IsRejected(r) ==
    /\ demande'[r].status = "REJETE"
    /\ demande'[r].step = demande[r].step
    /\ closings'[r] = closings[r]

IsCancelledBy(c, r) ==
    /\ Cancelled(c)
    /\ calls[c].req = r
    /\ demande'[r].status = "ANNULE"
    /\ demande'[r].step = demande[r].step
    /\ demande[r].step = calls[c].step
    /\ closings'[r] = closings[r]
    /\ calls[c].noted # None =>
          decisions'[r] = Append(decisions[r],
                                 [step |-> calls[c].noted, op |-> calls[c].op])

Outcome(r) ==
    \/ StaysPut(r)
    \/ Advances(r)
    \/ IsRejected(r)
    \/ \E c \in Calls : IsCancelledBy(c, r)

\* A step leaves a request where it was, advances it, rejects it or cancels
\* it; it touches no request that a purge has removed.
LEMMA StepOutcome ==
    ASSUME TypeOK, [Next]_vars, NEW r \in Requests, Present(r)'
    PROVE  Present(r) /\ Outcome(r)
<1>0. /\ StoreTypeOK
      /\ demande \in [Requests -> DemandeRow]
      /\ closings \in [Requests -> Seq(Closing)]
      /\ decisions \in [Requests -> Seq(Decision)]
  BY DEF TypeOK, StoreTypeOK
<1> SUFFICES Outcome(r)
  BY AbsentStays
<1>2. CASE UNCHANGED vars \/ HistoryKept
  BY <1>2 DEF vars, store, HistoryKept, Outcome, StaysPut
<1>3. CASE PendingChanged
  BY <1>0, <1>3 DEF PendingChanged, DemandeRow, Outcome, StaysPut
<1>4. CASE Transitioned
  <2>1. PICK q \in Requests, origin \in Origins : ApplyTransition(q, origin)
    BY <1>4 DEF Transitioned
  <2>2. CASE HistoryKept
    BY <2>2 DEF HistoryKept, Outcome, StaysPut
  <2>3. CASE Moved(q, origin) /\ q = r
    <3>1. Advances(r)
      BY <1>0, <2>3 DEF Moved, Advances
    <3> QED BY <3>1 DEF Outcome
  <2>4. CASE Moved(q, origin) /\ q # r
    BY <1>0, <2>4 DEF Moved, Outcome, StaysPut
  <2> QED BY <1>0, <2>1, <2>2, <2>3, <2>4, TransitionOutcome
<1>5. ASSUME NEW c \in Calls, Rejected(c) PROVE Outcome(r)
  <2>1. calls[c].req \in Requests
    BY <1>5, CallFields DEF Rejected, At
  <2>2. CASE calls[c].req = r
    BY <1>0, <1>5, <2>2 DEF Rejected, RejectRow, Outcome, IsRejected, DemandeRow
  <2>3. CASE calls[c].req # r
    BY <1>0, <1>5, <2>1, <2>3 DEF Rejected, RejectRow, Outcome, StaysPut
  <2> QED BY <2>2, <2>3
<1>6. ASSUME NEW c \in Calls, Cancelled(c) PROVE Outcome(r)
  <2>1. calls[c].req \in Requests /\ calls[c].step # None
    BY <1>6, CallFields, StoreAssumption DEF Cancelled, At
  <2>2. CASE calls[c].req = r
    <3>1. demande[r].step = calls[c].step
      BY <1>6, <2>1, <2>2 DEF Cancelled, StepSeen
    <3>2. IsCancelledBy(c, r)
      BY <1>0, <1>6, <2>2, <3>1
         DEF Cancelled, CancelRow, IsCancelledBy, DemandeRow
    <3> QED BY <3>2 DEF Outcome
  <2>3. CASE calls[c].req # r
    BY <1>0, <1>6, <2>1, <2>3 DEF Cancelled, CancelRow, Outcome, StaysPut
  <2> QED BY <2>2, <2>3
<1>7. ASSUME NEW op \in Operators, PurgeTestData(op) PROVE Outcome(r)
  <2>1. r \notin CreatedBy(op)
    BY <1>7 DEF PurgeTestData, PurgedRow, Create, Present
  <2> QED BY <1>7, <2>1 DEF PurgeTestData, Outcome, StaysPut
<1> QED BY <1>2, <1>3, <1>4, <1>5, <1>6, <1>7, NextEffect DEF Effect

\* A request that has ended is never put back in progress, and no step of it
\* is closed again.
THEOREM EndedRequestsStayEnded == Spec => EndedStaysEnded
<1>1. ASSUME TypeOK, [Next]_vars,
             NEW r \in Requests, Present(r), ~ InProgress(r), Present(r)'
      PROVE  ~ InProgress(r)' /\ closings'[r] = closings[r]
  <2>1. Outcome(r)
    BY <1>1, StepOutcome
  <2> QED BY <1>1, <2>1 DEF Outcome, StaysPut, Advances, IsRejected,
                            IsCancelledBy, InProgress
<1>2. TypeOK /\ [Next]_vars =>
        [\A r \in Requests :
            Present(r) /\ ~ InProgress(r) /\ Present(r)' =>
                ~ InProgress(r)' /\ closings'[r] = closings[r]]_vars
  BY <1>1
<1> QED BY <1>2, TypeCorrect, PTL DEF Spec, EndedStaysEnded

-----------------------------------------------------------------------------
(***************************************************************************)
(* The order of the history, and what a cancellation leaves.  Neither is   *)
(* inductive: a cancellation in flight writes later what it read earlier.  *)
(* The strengthening is what is known of it meanwhile: it was asked by the *)
(* creator, at ACCEPTATION, and its INSERT noted ACCEPTATION unless the    *)
(* request had already left that step, to which no request returns.        *)
(***************************************************************************)
CancelCallsKnow ==
    \A c \in Calls : calls[c].pc \in {"cancel", "cancelUpdate"} =>
        /\ calls[c].step = "ACCEPTATION"
        /\ calls[c].op = Portfolio[calls[c].req].creator
        /\ calls[c].pc = "cancelUpdate" /\ StepSeen(calls[c].req) = "ACCEPTATION"
              => calls[c].noted = "ACCEPTATION"

HistoryInv == TypeOK /\ CancelCallsKnow /\ ClosedOnceInOrder /\ CancelledNeverMoved

\* No request comes back to ACCEPTATION.
LEMMA FirstStepIsLeftForGood ==
    ASSUME TypeOK, [Next]_vars, NEW r \in Requests,
           StepSeen(r)' = "ACCEPTATION"
    PROVE  StepSeen(r) = "ACCEPTATION"
<1>1. Present(r)' /\ demande'[r].step = "ACCEPTATION"
  BY StoreAssumption, StepsAre DEF StepSeen
<1>2. Present(r) /\ Outcome(r)
  BY <1>1, StepOutcome
<1>3. demande[r].step \in Steps
  BY DEF TypeOK, StoreTypeOK, DemandeRow
<1>4. demande[r].step = "ACCEPTATION"
  BY <1>1, <1>2, <1>3, NextStepAdvances
     DEF Outcome, StaysPut, Advances, IsRejected, IsCancelledBy
<1> QED BY <1>2, <1>4 DEF StepSeen

\* A step that makes a cancellation knows what CancelCallsKnow says of it.
LEMMA CancelCallsKept ==
    ASSUME TypeOK, CancelCallsKnow, [Next]_vars
    PROVE  CancelCallsKnow'
<1> DEFINE Knows(k) == k.pc \in {"cancel", "cancelUpdate"} =>
              /\ k.step = "ACCEPTATION"
              /\ k.op = Portfolio[k.req].creator
              /\ k.pc = "cancelUpdate" /\ StepSeen(k.req) = "ACCEPTATION"
                    => k.noted = "ACCEPTATION"
<1>0. calls \in [Calls -> CallRow]
  BY DEF TypeOK
<1>1. ASSUME NEW k, k.req \in Requests \/ k.pc \notin {"cancel", "cancelUpdate"},
             Knows(k)
      PROVE  Knows(k)'
  BY <1>1, FirstStepIsLeftForGood
<1>2. ASSUME NEW c \in Calls
      PROVE  /\ Knows(calls[c])
             /\ calls[c].req \in Requests
                \/ calls[c].pc \notin {"cancel", "cancelUpdate"}
  BY CallFields DEF CancelCallsKnow
<1>3. ASSUME NEW c \in Calls, NEW k, Knows(k),
             k.req \in Requests \/ k.pc \notin {"cancel", "cancelUpdate"},
             calls' = [calls EXCEPT ![c] = k]
      PROVE  CancelCallsKnow'
  <2>1. \A d \in Calls : calls'[d] \in {k, calls[d]}
    BY <1>0, <1>3
  <2>2. ASSUME NEW d \in Calls PROVE Knows(calls[d])'
    BY <1>1, <1>2, <1>3, <2>1
  <2> QED BY <2>2 DEF CancelCallsKnow
<1>4. CASE UNCHANGED calls
  BY <1>1, <1>2, <1>4 DEF CancelCallsKnow
<1>5. ASSUME NEW c \in Calls, NEW k, k.pc \notin {"cancel", "cancelUpdate"},
             Become(c, k)
      PROVE  CancelCallsKnow'
  BY <1>3, <1>5 DEF Become
<1>6. ASSUME NEW c \in Calls, Decide(c) PROVE CancelCallsKnow'
  <2>1. PICK op \in Operators, r \in Requests :
           \/ Accept(c, op, r) \/ Reject(c, op, r)
           \/ \E drop \in SUBSET Portfolio[r].fleet : AcceptFleet(c, op, r, drop)
           \/ ProcessStep(c, op, r) \/ Confirm(c, op, r) \/ Cancel(c, op, r)
    BY <1>6 DEF Decide
  <2>2. CASE Cancel(c, op, r)
    <3> DEFINE k == Call("cancel", op, r, demande[r].step, {}, None)
    <3>1. calls' = [calls EXCEPT ![c] = k]
      BY <2>2 DEF Cancel, Read, Become
    <3>2. Knows(k)
      BY <2>2 DEF Cancel, CanCancel, Call
    <3>3. k.req \in Requests
      BY DEF Call
    <3> HIDE DEF k, Knows
    <3> QED BY <1>3, <3>1, <3>2, <3>3
  <2>3. ASSUME ~ Cancel(c, op, r)
        PROVE  \E k : k.pc \notin {"cancel", "cancelUpdate"} /\ Become(c, k)
    BY <2>1, <2>3
       DEF Accept, Reject, AcceptFleet, ProcessStep, Confirm, Read, Call
  <2> HIDE DEF Knows
  <2> QED BY <1>5, <2>2, <2>3
<1>7. ASSUME NEW c \in Calls, CancelInsert(c) PROVE CancelCallsKnow'
  <2> DEFINE seen == IF StepSeen(calls[c].req) = calls[c].step
                     THEN calls[c].step ELSE None
             k == [calls[c] EXCEPT !.pc = "cancelUpdate", !.noted = seen]
  <2>1. calls' = [calls EXCEPT ![c] = k]
    BY <1>7 DEF CancelInsert, Become
  <2>2. calls[c].pc = "cancel" /\ calls[c] \in CallRow
    BY <1>0, <1>7 DEF CancelInsert, At
  <2>3. k.req = calls[c].req /\ k.step = calls[c].step /\ k.op = calls[c].op
        /\ k.noted = seen
    BY <2>2 DEF CallRow
  <2>4. Knows(k)
    BY <1>2, <2>2, <2>3
  <2>5. k.req \in Requests
    BY <1>2, <2>2, <2>3
  <2> HIDE DEF k, Knows
  <2> QED BY <1>3, <2>1, <2>4, <2>5
<1>8. ASSUME NEW c \in Calls, Open(c) \/ Abort(c) PROVE CancelCallsKnow'
  BY <1>3, <1>8 DEF Open, Abort, Become, Idle, Opened, Call
<1>9. ASSUME NEW c \in Calls, CallStep(c), ~ CancelInsert(c)
      PROVE  CancelCallsKnow'
  <2>1. CallRow # {} /\ calls[c] \in CallRow
    BY <1>0
  <2>2. \E k : k.pc \notin {"cancel", "cancelUpdate"} /\ Become(c, k)
    BY <1>9, <2>1
       DEF CallStep, Refuse, RejectInsert, RejectUpdate, FleetDecide,
           FleetCommit, CancelUpdate, InsertConfirm, CountConfirmations,
           ScheduleTransition, Answer, Goto, Idle, Call, CallRow
  <2> QED BY <1>5, <2>2
<1> QED BY <1>4, <1>6, <1>7, <1>8, <1>9, CallsChangeOneByOne

\* ClosedOnceInOrder for one request.
InOrder(r) ==
    LET first == Rank(FirstStep(r))
        n == Len(closings[r])
    IN /\ \A i \in 1..n : Rank(closings[r][i].step) = first + i - 1
       /\ \/ n = Rank(demande[r].step) - first
          \/ /\ n = 6 - first
             /\ demande[r].step = "COMPLETION"
             /\ demande[r].status \in {"TERMINE", "REJETE"}

\* No step breaks the order of a request's history.
LEMMA InOrderKept ==
    ASSUME TypeOK, CancelCallsKnow, [Next]_vars, NEW r \in Requests,
           Present(r)', Present(r) => InOrder(r)
    PROVE  InOrder(r)'
<1> DEFINE first == Rank(FirstStep(r))
<1>0. /\ closings[r] \in Seq(Closing)
      /\ demande[r].step \in Steps
      /\ FirstStep(r) \in Steps
      /\ FirstStep(r)' = FirstStep(r)
  BY CreateTyped DEF TypeOK, StoreTypeOK, DemandeRow, FirstStep
<1>1. first \in 1..5 /\ Rank(demande[r].step) \in 1..5
  BY <1>0, RankInRange
<1>2. InOrder(r) /\ Outcome(r)
  BY StepOutcome
<1>3. CASE StaysPut(r)
  BY <1>0, <1>2, <1>3 DEF StaysPut, InOrder
<1>4. CASE IsRejected(r)
  BY <1>0, <1>2, <1>4 DEF IsRejected, InOrder
<1>5. ASSUME NEW c \in Calls, IsCancelledBy(c, r) PROVE InOrder(r)'
  <2>1. demande[r].step = "ACCEPTATION" /\ demande'[r].step = "ACCEPTATION"
    BY <1>5 DEF IsCancelledBy, Cancelled, At, CancelCallsKnow
  <2> QED BY <1>0, <1>2, <1>5, <2>1 DEF IsCancelledBy, InOrder
<1>6. CASE Advances(r)
  <2>1. PICK origin \in Origins :
           closings'[r] = Append(closings[r],
                                 [step |-> demande[r].step, origin |-> origin])
    BY <1>6 DEF Advances
  <2> DEFINE n == Len(closings[r])
  <2>2. n = Rank(demande[r].step) - first
    BY <1>2, <1>6 DEF Advances, InProgress, InOrder
  <2>3. /\ n \in Nat
        /\ Len(closings'[r]) = n + 1
        /\ closings'[r][n + 1].step = demande[r].step
        /\ \A i \in 1..n : closings'[r][i] = closings[r][i]
    BY <1>0, <2>1
  <2>4. \A i \in 1..(n + 1) : Rank(closings'[r][i].step) = first + i - 1
    <3> SUFFICES ASSUME NEW i \in 1..(n + 1)
                 PROVE  Rank(closings'[r][i].step) = first + i - 1
      OBVIOUS
    <3>1. CASE i \in 1..n
      BY <1>2, <2>3, <3>1 DEF InOrder
    <3>2. CASE i = n + 1
      BY <1>1, <2>2, <2>3, <3>2
    <3> QED BY <2>3, <3>1, <3>2
  <2>5. \/ n + 1 = Rank(demande'[r].step) - first
        \/ /\ n + 1 = 6 - first
           /\ demande'[r].step = "COMPLETION"
           /\ demande'[r].status = "TERMINE"
    <3>1. CASE demande[r].step = "COMPLETION"
      BY <1>0, <1>1, <1>6, <2>2, <3>1, RankOfStep DEF Advances
    <3>2. CASE demande[r].step # "COMPLETION"
      <4>1. Rank(demande'[r].step) = Rank(demande[r].step) + 1
        BY <1>0, <1>6, <3>2, NextStepAdvances DEF Advances
      <4> QED BY <1>1, <2>2, <4>1
    <3> QED BY <3>1, <3>2
  <2> QED BY <1>0, <2>3, <2>4, <2>5 DEF InOrder
<1> QED BY <1>2, <1>3, <1>4, <1>5, <1>6 DEF Outcome

\* CancelledNeverMoved for one request.
NeverMoved(r) ==
    demande[r].status = "ANNULE" =>
        /\ demande[r].step = "ACCEPTATION"
        /\ closings[r] = <<>>
        /\ \E i \in 1..Len(decisions[r]) :
              decisions[r][i] = [step |-> "ACCEPTATION",
                                 op |-> Portfolio[r].creator]

\* No step moves a cancelled request, nor cancels one that has moved.
LEMMA NeverMovedKept ==
    ASSUME TypeOK, CancelCallsKnow, [Next]_vars, NEW r \in Requests,
           NeverMoved(r), Present(r) => InOrder(r)
    PROVE  NeverMoved(r)'
<1> SUFFICES ASSUME demande'[r].status = "ANNULE"
             PROVE  /\ demande'[r].step = "ACCEPTATION"
                    /\ closings'[r] = <<>>
                    /\ \E i \in 1..Len(decisions'[r]) :
                          decisions'[r][i] = [step |-> "ACCEPTATION",
                                              op |-> Portfolio[r].creator]
  BY DEF NeverMoved
<1>0. /\ closings[r] \in Seq(Closing)
      /\ decisions[r] \in Seq(Decision)
      /\ FirstStep(r) \in Steps
  BY CreateTyped DEF TypeOK, StoreTypeOK
<1>1. Present(r) /\ Outcome(r)
  BY StepOutcome DEF Present
<1>2. CASE StaysPut(r)
  BY <1>2 DEF StaysPut, NeverMoved
<1>3. ASSUME NEW c \in Calls, IsCancelledBy(c, r)
      PROVE  /\ demande'[r].step = "ACCEPTATION"
             /\ closings'[r] = <<>>
             /\ \E i \in 1..Len(decisions'[r]) :
                   decisions'[r][i] = [step |-> "ACCEPTATION",
                                       op |-> Portfolio[r].creator]
  <2>1. /\ demande[r].step = "ACCEPTATION" /\ demande'[r].step = "ACCEPTATION"
        /\ calls[c].op = Portfolio[r].creator
        /\ calls[c].noted = "ACCEPTATION"
    BY <1>1, <1>3 DEF IsCancelledBy, Cancelled, At, CancelCallsKnow, StepSeen
  <2>2. Len(closings[r]) = 0
    <3>1. Rank(FirstStep(r)) \in 1..5
      BY <1>0, RankInRange
    <3> QED BY <1>0, <1>1, <2>1, <3>1, RankOfStep DEF InOrder
  <2>3. closings'[r] = <<>>
    BY <1>0, <1>3, <2>2 DEF IsCancelledBy
  <2>4. "ACCEPTATION" # None
    BY StoreAssumption, StepsAre
  <2>5. decisions'[r] = Append(decisions[r], [step |-> "ACCEPTATION",
                                              op |-> Portfolio[r].creator])
    BY <1>3, <2>1, <2>4 DEF IsCancelledBy
  <2>6. /\ Len(decisions[r]) + 1 \in 1..Len(decisions'[r])
        /\ decisions'[r][Len(decisions[r]) + 1]
              = [step |-> "ACCEPTATION", op |-> Portfolio[r].creator]
    BY <1>0, <2>5
  <2> QED BY <2>1, <2>3, <2>6
<1>4. ~ Advances(r) /\ ~ IsRejected(r)
  BY DEF Advances, IsRejected
<1> QED BY <1>1, <1>2, <1>3, <1>4 DEF Outcome

\* The invariant holds of requests just created.
LEMMA HistoryInvInit == Init => HistoryInv
<1> SUFFICES ASSUME Init PROVE HistoryInv
  OBVIOUS
<1>1. TypeOK
  BY InitTyped
<1>2. CancelCallsKnow
  BY DEF Init, CancelCallsKnow, Idle, Call
<1>3. ClosedOnceInOrder
  <2> SUFFICES ASSUME NEW r \in Requests PROVE InOrder(r)
    BY DEF ClosedOnceInOrder, InOrder
  <2>1. closings[r] = <<>> /\ demande[r].step = FirstStep(r)
    BY DEF Init, StoreInit, Create
  <2>2. Rank(FirstStep(r)) \in 1..5
    BY CreateTyped, RankInRange
  <2> QED BY <2>1, <2>2 DEF InOrder
<1>4. CancelledNeverMoved
  BY DEF Init, StoreInit, Create, CancelledNeverMoved
<1> QED BY <1>1, <1>2, <1>3, <1>4 DEF HistoryInv

\* Every step keeps the invariant.
LEMMA HistoryInvKept ==
    ASSUME HistoryInv, [Next]_vars, TypeOK'
    PROVE  HistoryInv'
<1>0. TypeOK /\ CancelCallsKnow /\ ClosedOnceInOrder /\ CancelledNeverMoved
  BY DEF HistoryInv
<1>1. CancelCallsKnow'
  BY <1>0, CancelCallsKept
<1>2. ClosedOnceInOrder'
  <2>1. \A r \in Requests : Present(r) => InOrder(r)
    BY <1>0 DEF ClosedOnceInOrder, InOrder
  <2>2. \A r \in Requests : Present(r)' => InOrder(r)'
    BY <1>0, <2>1, InOrderKept
  <2> QED BY <2>2 DEF ClosedOnceInOrder, InOrder
<1>3. CancelledNeverMoved'
  <2>1. \A r \in Requests : NeverMoved(r) /\ (Present(r) => InOrder(r))
    BY <1>0 DEF ClosedOnceInOrder, InOrder, CancelledNeverMoved, NeverMoved
  <2>2. \A r \in Requests : NeverMoved(r)'
    BY <1>0, <2>1, NeverMovedKept
  <2> QED BY <2>2 DEF CancelledNeverMoved, NeverMoved
<1> QED BY <1>1, <1>2, <1>3 DEF HistoryInv

\* The invariant holds in every reachable state.
THEOREM HistoryInvariant == Spec => []HistoryInv
<1>1. HistoryInv /\ TypeOK' /\ [Next]_vars => HistoryInv'
  BY HistoryInvKept
<1> QED BY <1>1, HistoryInvInit, TypeCorrect, PTL DEF Spec

\* Steps are closed once each, in order, and only an ended request has closed
\* its last one, whatever calls and ticks compete for it.
THEOREM StepsCloseOnceInOrder == Spec => []ClosedOnceInOrder
<1>1. HistoryInv => ClosedOnceInOrder
  BY DEF HistoryInv
<1> QED BY <1>1, HistoryInvariant, PTL

\* A cancelled request is at ACCEPTATION, no step of it was ever closed, and
\* its history names its creator's cancellation.
THEOREM CancellationIsClean == Spec => []CancelledNeverMoved
<1>1. HistoryInv => CancelledNeverMoved
  BY DEF HistoryInv
<1> QED BY <1>1, HistoryInvariant, PTL

-----------------------------------------------------------------------------
(***************************************************************************)
(* Refinement: the status and the step of the requests, taken alone, live  *)
(* the life that Lifecycle calls Observed.                                 *)
(***************************************************************************)
Stage(d) == [r \in Requests |-> [status |-> d[r].status, step |-> d[r].step]]

\* Changing one row of demande changes one stage.
LEMMA OneStageChanges ==
    ASSUME TypeOK, NEW r \in Requests, NEW row,
           demande' = [demande EXCEPT ![r] = row]
    PROVE  Stage(demande') = [Stage(demande) EXCEPT
                                 ![r] = [status |-> row.status, step |-> row.step]]
<1>1. demande \in [Requests -> DemandeRow]
  BY DEF TypeOK, StoreTypeOK
<1> QED BY <1>1 DEF Stage

\* The rules are the same in both modules.
LEMMA SameRules ==
    /\ \A s : Life!NextStep(s) = NextStep(s)
BY DEF NextStep, Life!NextStep, Rank, Life!Rank, StepSequence, Life!StepSequence

\* What a call that rejects or cancels makes of its request's stage.
Leaves(c, outcome) ==
    LET r == calls[c].req IN
    /\ r \in Requests /\ Present(r)
    /\ Stage(demande') = [Stage(demande) EXCEPT
                             ![r] = [status |-> outcome, step |-> demande[r].step]]

StageEffect ==
    \/ Stage(demande') = Stage(demande)
    \/ Life!Progress
    \/ \E rs \in SUBSET Requests : Life!Purge(rs)
    \/ \E c \in Calls : Rejected(c) /\ Leaves(c, "REJETE")
    \/ \E c \in Calls : /\ Cancelled(c) /\ Leaves(c, "ANNULE")
                        /\ demande[calls[c].req].step = "ACCEPTATION"

\* Each step of the workflow leaves the stages alone, makes one progress,
\* withdraws one, or purges some.
LEMMA StageOutcome ==
    ASSUME TypeOK, CancelCallsKnow, [Next]_vars
    PROVE  StageEffect
<1>0. /\ StoreTypeOK
      /\ demande \in [Requests -> DemandeRow]
  BY DEF TypeOK, StoreTypeOK
<1>1. CASE UNCHANGED vars \/ HistoryKept
  BY <1>1 DEF vars, store, HistoryKept, Stage, StageEffect
<1>2. CASE PendingChanged
  BY <1>0, <1>2 DEF PendingChanged, Stage, DemandeRow, StageEffect
<1>3. CASE Transitioned
  <2>1. PICK r \in Requests, origin \in Origins : ApplyTransition(r, origin)
    BY <1>3 DEF Transitioned
  <2>2. CASE Moved(r, origin)
    <3>1. PICK row \in DemandeRow :
             /\ demande' = [demande EXCEPT ![r] = row]
             /\ \/ /\ demande[r].step # "COMPLETION"
                   /\ row.status = "EN_COURS"
                   /\ row.step = NextStep(demande[r].step)
                \/ /\ demande[r].step = "COMPLETION"
                   /\ row.status = "TERMINE"
                   /\ row.step = "COMPLETION"
      BY <2>2 DEF Moved
    <3>2. Stage(demande') = [Stage(demande) EXCEPT
                               ![r] = [status |-> row.status, step |-> row.step]]
      BY <3>1, OneStageChanges
    <3>3. /\ Stage(demande)[r].status = "EN_COURS"
          /\ Stage(demande)[r].step = demande[r].step
      BY <2>2 DEF Moved, InProgress, Stage
    <3>4. CASE demande[r].step # "COMPLETION"
      <4>1. Life!Advance(r)
        BY <3>1, <3>2, <3>3, <3>4, SameRules
           DEF Life!Advance, Life!Become, Stage
      <4> QED BY <4>1 DEF StageEffect, Life!Progress
    <3>5. CASE demande[r].step = "COMPLETION"
      <4>1. Life!Complete(r)
        BY <3>1, <3>2, <3>3, <3>5 DEF Life!Complete, Life!Become, Stage
      <4> QED BY <4>1 DEF StageEffect, Life!Progress
    <3> QED BY <3>4, <3>5
  <2>3. CASE HistoryKept
    BY <2>3 DEF HistoryKept, Stage, StageEffect
  <2> QED BY <1>0, <2>1, <2>2, <2>3, TransitionOutcome
<1>4. ASSUME NEW c \in Calls, Rejected(c) PROVE StageEffect
  <2>0. calls[c].req \in Requests
    BY <1>4, CallFields DEF Rejected, At
  <2> PICK r \in Requests : r = calls[c].req
    BY <2>0
  <2> DEFINE row == [demande[r] EXCEPT !.status = "REJETE",
                                       !.stepStatus = "TERMINE"]
  <2>1. Present(r)
    BY <1>4 DEF Rejected
  <2>2. demande' = [demande EXCEPT ![r] = row]
    BY <1>4 DEF Rejected, RejectRow
  <2>3. row.status = "REJETE" /\ row.step = demande[r].step
    BY <1>0, <2>1 DEF DemandeRow
  <2>4. Stage(demande') = [Stage(demande) EXCEPT
                             ![r] = [status |-> "REJETE", step |-> demande[r].step]]
    BY <2>1, <2>2, <2>3, OneStageChanges
  <2> QED BY <1>4, <2>1, <2>4 DEF Leaves, StageEffect
<1>5. ASSUME NEW c \in Calls, Cancelled(c) PROVE StageEffect
  <2>0. calls[c].req \in Requests
    BY <1>5, CallFields DEF Cancelled, At
  <2> PICK r \in Requests : r = calls[c].req
    BY <2>0
  <2> DEFINE row == [demande[r] EXCEPT !.status = "ANNULE",
                                       !.stepStatus = "TERMINE",
                                       !.pending = "none"]
  <2>1. calls[c].step = "ACCEPTATION"
    BY <1>5 DEF Cancelled, At, CancelCallsKnow
  <2>2. Present(r) /\ demande[r].step = "ACCEPTATION"
    BY <1>5, <2>1, StoreAssumption, StepsAre DEF Cancelled, StepSeen
  <2>3. demande' = [demande EXCEPT ![r] = row]
    BY <1>5 DEF Cancelled, CancelRow
  <2>4. row.status = "ANNULE" /\ row.step = "ACCEPTATION"
    BY <1>0, <2>1, <2>2 DEF DemandeRow
  <2>5. Stage(demande') = [Stage(demande) EXCEPT
                             ![r] = [status |-> "ANNULE", step |-> "ACCEPTATION"]]
    BY <2>1, <2>3, <2>4, OneStageChanges
  <2> QED BY <1>5, <2>2, <2>5 DEF Leaves, StageEffect
<1>6. ASSUME NEW op \in Operators, PurgeTestData(op) PROVE StageEffect
  <2> PICK ids \in SUBSET Requests : ids = CreatedBy(op)
    BY DEF CreatedBy
  <2>1. Life!Purge(ids)
    BY <1>6 DEF PurgeTestData, PurgedRow, Create, FirstStep, Life!Purge,
                Life!FirstStage
  <2> QED BY <2>1 DEF StageEffect
<1> QED BY <1>1, <1>2, <1>3, <1>4, <1>5, <1>6, NextEffect DEF Effect

\* Each step of the workflow is a step of the abstract life, or none.
LEMMA StepRefines ==
    ASSUME TypeOK, CancelCallsKnow, [Next]_vars
    PROVE  Life!Observation \/ Stage(demande') = Stage(demande)
<1>1. ASSUME NEW c \in Calls, Leaves(c, "REJETE") PROVE Life!Observation
  <2> PICK r \in Requests : r = calls[c].req
    BY <1>1 DEF Leaves
  <2>1. Life!RejectLate(r)
    BY <1>1 DEF Leaves, Life!RejectLate, Life!Become, Stage, Present
  <2> QED BY <2>1 DEF Life!Observation
<1>2. ASSUME NEW c \in Calls, Leaves(c, "ANNULE"),
             demande[calls[c].req].step = "ACCEPTATION"
      PROVE  Life!Observation
  <2> PICK r \in Requests : r = calls[c].req
    BY <1>2 DEF Leaves
  <2>1. Life!CancelLate(r)
    BY <1>2 DEF Leaves, Life!CancelLate, Life!Become, Stage, Present
  <2> QED BY <2>1 DEF Life!Observation
<1> QED BY <1>1, <1>2, StageOutcome DEF StageEffect, Life!Observation

\* Whatever calls, ticks, faults and purges interleave, every request only
\* advances one step at a time, ends once, and is then at most overwritten
\* by a rejection or a cancellation: the workflow implements Observed.
THEOREM WorkflowImplementsObserved == Spec => ImplementsObserved
<1>1. Init => Life!Init
  BY DEF Init, StoreInit, Create, FirstStep, Life!Init, Life!FirstStage
<1>2. HistoryInv /\ [Next]_vars => [Life!Observation]_(Stage(demande))
  BY StepRefines DEF HistoryInv, Stage
<1>3. [Life!Observation]_(Stage(demande)) =>
         [Life!Observation]_([r \in Requests |-> [status |-> demande[r].status,
                                                 step |-> demande[r].step]])
  BY DEF Stage
<1> QED BY <1>1, <1>2, <1>3, HistoryInvariant, PTL
        DEF Spec, ImplementsObserved, Life!Observed

-----------------------------------------------------------------------------
(***************************************************************************)
(* What a step may do to the calls, and to what the engine owes.  At most  *)
(* one call moves: it comes to rest, begins on what it has just read, or   *)
(* proceeds with the request it holds.                                     *)
(***************************************************************************)
Resting(k) == k.pc \in {"idle", "opened"}

Begins(k, op, r) ==
    /\ k.op = op /\ k.req = r /\ k.step = demande[r].step
    /\ \/ k.pc = "schedule" /\ CanAccept(Portfolio[r], demande[r], op)
       \/ k.pc = "schedule" /\ CanProcess(Portfolio[r], demande[r], op)
       \/ k.pc \in {"reject", "fleet"} /\ CanAccept(Portfolio[r], demande[r], op)
       \/ k.pc = "confirm" /\ CanConfirm(Portfolio[r], demande[r], op, Operators)
       \/ k.pc = "cancel" /\ CanCancel(Portfolio[r], demande[r], op)

ConfirmersSuffice(r) ==
    Cardinality(confirmed[r]) >= Cardinality(ExpectedConfirmers(Portfolio[r], Operators))

Proceeds(c, k) ==
    /\ k.op = calls[c].op /\ k.req = calls[c].req
    /\ k.step = calls[c].step /\ k.drop = calls[c].drop
    /\ \/ At(c, "reject") /\ k.pc = "rejectUpdate"
       \/ At(c, "fleet") /\ k.pc = "rejectUpdate"
       \/ /\ At(c, "fleet") /\ k.pc = "fleetCommit"
          /\ ActiveNumbers(k.req) \ k.drop # {}
       \/ At(c, "fleetCommit") /\ k.pc = "schedule"
       \/ At(c, "cancel") /\ k.pc = "cancelUpdate"
       \/ At(c, "confirm") /\ k.pc = "count"
       \/ At(c, "count") /\ k.pc = "schedule" /\ ConfirmersSuffice(k.req)

Moves(c, k) ==
    \/ Resting(k)
    \/ UNCHANGED store /\ \E op \in Operators, r \in Requests : Begins(k, op, r)
    \/ Proceeds(c, k) /\ (UNCHANGED store \/ At(c, "fleetCommit") \/ At(c, "confirm"))

\* A call that was answered, and one that passed the gate, hold nothing.
LEMMA RestingCallsRest == Resting(Idle) /\ Resting(Opened)
BY DEF Resting, Idle, Opened, Call

\* What a handler finds it may do, it begins.
LEMMA DecisionsBegin ==
    ASSUME NEW c \in Calls, Decide(c)
    PROVE  \E k : calls' = [calls EXCEPT ![c] = k] /\ Moves(c, k)
<1>1. PICK op \in Operators, r \in Requests :
         \/ Accept(c, op, r) \/ Reject(c, op, r)
         \/ \E drop \in SUBSET Portfolio[r].fleet : AcceptFleet(c, op, r, drop)
         \/ ProcessStep(c, op, r) \/ Confirm(c, op, r) \/ Cancel(c, op, r)
  BY DEF Decide
<1>2. ASSUME NEW pc, NEW drop, Read(c, op, r, pc, drop),
             Begins(Call(pc, op, r, demande[r].step, drop, None), op, r)
      PROVE  \E k : calls' = [calls EXCEPT ![c] = k] /\ Moves(c, k)
  BY <1>2 DEF Read, Become, Moves
<1>3. /\ Accept(c, op, r) => Read(c, op, r, "schedule", {})
                             /\ Begins(Call("schedule", op, r, demande[r].step, {}, None), op, r)
      /\ ProcessStep(c, op, r) => Read(c, op, r, "schedule", {})
                             /\ Begins(Call("schedule", op, r, demande[r].step, {}, None), op, r)
      /\ Reject(c, op, r) => Read(c, op, r, "reject", {})
                             /\ Begins(Call("reject", op, r, demande[r].step, {}, None), op, r)
      /\ Confirm(c, op, r) => Read(c, op, r, "confirm", {})
                             /\ Begins(Call("confirm", op, r, demande[r].step, {}, None), op, r)
      /\ Cancel(c, op, r) => Read(c, op, r, "cancel", {})
                             /\ Begins(Call("cancel", op, r, demande[r].step, {}, None), op, r)
  BY DEF Accept, ProcessStep, Reject, Confirm, Cancel, Call, Begins
<1>4. \A drop : AcceptFleet(c, op, r, drop) =>
          Read(c, op, r, "fleet", drop)
          /\ Begins(Call("fleet", op, r, demande[r].step, drop, None), op, r)
  BY DEF AcceptFleet, Call, Begins
<1> QED BY <1>1, <1>2, <1>3, <1>4

\* A handler that has begun comes to rest or proceeds.
LEMMA CallStepsMove ==
    ASSUME TypeOK, NEW c \in Calls, CallStep(c)
    PROVE  \E k : calls' = [calls EXCEPT ![c] = k] /\ Moves(c, k)
<1>1. calls[c] \in CallRow
  BY DEF TypeOK
<1>2. Answer(c) => \E k : calls' = [calls EXCEPT ![c] = k] /\ Moves(c, k)
  BY RestingCallsRest DEF Answer, Become, Moves
<1>3. ASSUME NEW k, Become(c, k), Proceeds(c, k),
             UNCHANGED store \/ At(c, "fleetCommit") \/ At(c, "confirm")
      PROVE  \E l : calls' = [calls EXCEPT ![c] = l] /\ Moves(c, l)
  BY <1>3 DEF Become, Moves
<1>5. ASSUME NEW pc \in CallPoints
      PROVE  LET k == [calls[c] EXCEPT !.pc = pc] IN
             /\ k.pc = pc
             /\ k.op = calls[c].op /\ k.req = calls[c].req
             /\ k.step = calls[c].step /\ k.drop = calls[c].drop
  BY <1>1 DEF CallRow
<1>6. CASE RejectInsert(c)
  <2> DEFINE k == [calls[c] EXCEPT !.pc = "rejectUpdate",
                                   !.noted = StepSeen(calls[c].req)]
  <2>1. k.pc = "rejectUpdate"
        /\ k.op = calls[c].op /\ k.req = calls[c].req
        /\ k.step = calls[c].step /\ k.drop = calls[c].drop
    BY <1>1 DEF CallRow
  <2>2. Become(c, k) /\ At(c, "reject") /\ UNCHANGED store
    BY <1>6 DEF RejectInsert
  <2> HIDE DEF k
  <2>3. Proceeds(c, k)
    BY <2>1, <2>2 DEF Proceeds
  <2> QED BY <1>3, <2>2, <2>3
<1>7. CASE FleetDecide(c)
  <2>1. CASE Become(c, [calls[c] EXCEPT !.pc = "rejectUpdate",
                                        !.noted = StepSeen(calls[c].req)])
    <3> DEFINE k == [calls[c] EXCEPT !.pc = "rejectUpdate",
                                     !.noted = StepSeen(calls[c].req)]
    <3>1. k.pc = "rejectUpdate"
          /\ k.op = calls[c].op /\ k.req = calls[c].req
          /\ k.step = calls[c].step /\ k.drop = calls[c].drop
      BY <1>1 DEF CallRow
    <3>2. Become(c, k) /\ At(c, "fleet") /\ UNCHANGED store
      BY <1>7, <2>1 DEF FleetDecide
    <3> HIDE DEF k
    <3>3. Proceeds(c, k)
      BY <3>1, <3>2 DEF Proceeds
    <3> QED BY <1>3, <3>2, <3>3
  <2>2. CASE ActiveNumbers(calls[c].req) \ calls[c].drop # {} /\ Goto(c, "fleetCommit")
    <3> DEFINE k == [calls[c] EXCEPT !.pc = "fleetCommit"]
    <3>1. k.pc = "fleetCommit"
          /\ k.op = calls[c].op /\ k.req = calls[c].req
          /\ k.step = calls[c].step /\ k.drop = calls[c].drop
      BY <1>1 DEF CallRow
    <3>2. Become(c, k) /\ At(c, "fleet") /\ UNCHANGED store
      BY <1>7, <2>2 DEF FleetDecide, Goto
    <3> HIDE DEF k
    <3>3. Proceeds(c, k)
      BY <2>2, <3>1, <3>2 DEF Proceeds
    <3> QED BY <1>3, <3>2, <3>3
  <2> QED BY <1>7, <2>1, <2>2 DEF FleetDecide
<1>8. CASE CancelInsert(c)
  <2> DEFINE seen == IF StepSeen(calls[c].req) = calls[c].step THEN calls[c].step
                     ELSE None
             k == [calls[c] EXCEPT !.pc = "cancelUpdate", !.noted = seen]
  <2>1. k.pc = "cancelUpdate"
        /\ k.op = calls[c].op /\ k.req = calls[c].req
        /\ k.step = calls[c].step /\ k.drop = calls[c].drop
    BY <1>1 DEF CallRow
  <2>2. Become(c, k) /\ At(c, "cancel") /\ UNCHANGED store
    BY <1>8 DEF CancelInsert
  <2> HIDE DEF k
  <2>3. Proceeds(c, k)
    BY <2>1, <2>2 DEF Proceeds
  <2> QED BY <1>3, <2>2, <2>3
<1>9. ASSUME NEW pc \in CallPoints, Goto(c, pc),
             UNCHANGED store \/ At(c, "fleetCommit") \/ At(c, "confirm"),
             \/ At(c, "fleetCommit") /\ pc = "schedule"
             \/ At(c, "confirm") /\ pc = "count"
             \/ At(c, "count") /\ pc = "schedule" /\ ConfirmersSuffice(calls[c].req)
      PROVE  \E l : calls' = [calls EXCEPT ![c] = l] /\ Moves(c, l)
  <2> DEFINE k == [calls[c] EXCEPT !.pc = pc]
  <2>1. k.pc = pc
        /\ k.op = calls[c].op /\ k.req = calls[c].req
        /\ k.step = calls[c].step /\ k.drop = calls[c].drop
    BY <1>5
  <2>2. Become(c, k)
    BY <1>9 DEF Goto
  <2> HIDE DEF k
  <2>3. Proceeds(c, k)
    BY <1>9, <2>1 DEF Proceeds
  <2> QED BY <1>3, <1>9, <2>2, <2>3
<1>10. CASE FleetCommit(c)
  BY <1>9, <1>10 DEF FleetCommit, CallPoints
<1>11. CASE InsertConfirm(c)
  BY <1>2, <1>9, <1>11 DEF InsertConfirm, CallPoints
<1>12. CASE CountConfirmations(c)
  BY <1>2, <1>9, <1>12 DEF CountConfirmations, CallPoints, ConfirmersSuffice
<1>13. CASE Refuse(c) \/ RejectUpdate(c) \/ CancelUpdate(c) \/ ScheduleTransition(c)
  BY <1>2, <1>13 DEF Refuse, RejectUpdate, CancelUpdate, ScheduleTransition
<1> QED BY <1>6, <1>7, <1>8, <1>10, <1>11, <1>12, <1>13 DEF CallStep

\* Any step of the workflow.
LEMMA CallsMove ==
    ASSUME TypeOK, [Next]_vars
    PROVE  \/ UNCHANGED calls
           \/ \E c \in Calls : \E k :
                 calls' = [calls EXCEPT ![c] = k] /\ Moves(c, k)
<1>1. ASSUME NEW c \in Calls, Open(c) \/ Abort(c)
      PROVE  \E k : calls' = [calls EXCEPT ![c] = k] /\ Moves(c, k)
  <2>1. \E k \in {Idle, Opened} : calls' = [calls EXCEPT ![c] = k]
    BY <1>1 DEF Open, Abort, Become
  <2> QED BY <2>1, RestingCallsRest DEF Moves
<1>2. CASE UNCHANGED vars
  BY <1>2 DEF vars
<1> QED BY <1>1, <1>2, DecisionsBegin, CallStepsMove, CallsChangeOneByOne

\* What the engine comes to owe, it has just listed.
Lists(pc, ids) ==
    /\ engine'.pc = pc
    /\ \A r \in Requests : engine'.owed[r] > 0 => r \in ids
    /\ UNCHANGED store

\* The engine owes what it owed before, or what one of its queries listed.
LEMMA EngineOwing ==
    ASSUME TypeOK, [Next]_vars
    PROVE  \/ /\ engine'.pc = engine.pc
              /\ \A r \in Requests : engine'.owed[r] > 0 => engine.owed[r] > 0
           \/ \A r \in Requests : engine'.owed[r] = 0
           \/ Lists("converging", DueConvergences)
           \/ StepTimeout /\ Lists("expiring", OverdueSteps)
           \/ Lists("completing", PendingReverseCompletions)
<1>0. EngineTyped
  BY DEF TypeOK, EngineTyped
<1>1. CASE UNCHANGED engine
  BY <1>1
<1>2. CASE Tick \/ EndTick \/ TickFails
  BY <1>2 DEF Tick, EndTick, TickFails, Pass, NothingOwed
<1>3. CASE ListDueConvergences
  BY <1>3 DEF ListDueConvergences, Pass, OnceEach, Lists
<1>4. CASE ListOverdueSteps
  BY <1>4 DEF ListOverdueSteps, Pass, OnceEach, Lists
<1>5. CASE ListPendingReverses
  BY <1>5 DEF ListPendingReverses, Pass, Lists
<1>6. ASSUME NEW r \in Requests, EngineApply(r)
      PROVE  /\ engine'.pc = engine.pc
             /\ \A q \in Requests : engine'.owed[q] > 0 => engine.owed[q] > 0
  <2>1. engine' = [pc |-> engine.pc, owed |-> [engine.owed EXCEPT ![r] = @ - 1]]
        /\ engine.owed[r] > 0
    BY <1>6 DEF EngineApply, Pass
  <2> QED BY <1>0, <2>1 DEF EngineTyped
<1>7. ASSUME NEW c \in Calls, Open(c) \/ Decide(c) \/ CallStep(c)
      PROVE  UNCHANGED engine
  BY <1>7 DEF Open, Decide, Accept, Reject, AcceptFleet, ProcessStep, Confirm,
              Cancel, Read, CallStep, Refuse, RejectInsert, RejectUpdate,
              FleetDecide, FleetCommit, CancelInsert, CancelUpdate,
              InsertConfirm, CountConfirmations, ScheduleTransition, Answer,
              Goto, Become
<1>8. ASSUME NEW x, \/ Abort(x) \/ ConvergenceDue(x) \/ StepTimesOut(x)
                    \/ DeclareIncident(x) \/ ResolveIncident(x) \/ Purge(x)
      PROVE  UNCHANGED engine
  BY <1>8 DEF Abort, ConvergenceDue, StepTimesOut, DeclareIncident,
              ResolveIncident, Purge
<1>9. CASE UNCHANGED vars
  BY <1>1, <1>9 DEF vars
<1> QED BY <1>1, <1>2, <1>3, <1>4, <1>5, <1>6, <1>7, <1>8, <1>9
        DEF Next, EngineStep

===================================================================================
