------------------------------ MODULE RegistryProofs ------------------------------
(***************************************************************************)
(* Proofs about the rows that requests own and the registry they move      *)
(* numbers in: the registry follows the history, a purge leaves nothing    *)
(* behind, only a step that is overdue expires, and what becomes of a      *)
(* request is what Intake says of it.                                      *)
(***************************************************************************)
EXTENDS WorkflowProofs

-----------------------------------------------------------------------------
(***************************************************************************)
(* What a step may do to the tables, clocks apart: nothing, or one of the  *)
(* seven transactions of RequestStore.  A transition is postponed or       *)
(* applied for a call that asks for it, or for an engine that owes it.     *)
(***************************************************************************)
TablesKept == UNCHANGED <<demande, rejected, numberRouting, closings, decisions,
                          confirmed, numero>>

Asks(c, r) == At(c, "schedule") /\ calls[c].req = r

PendingSet(r, p) ==
    /\ demande' = [demande EXCEPT ![r].pending = p]
    /\ UNCHANGED <<rejected, numberRouting, closings, decisions, confirmed, numero>>

Closes(r, origin) ==
    /\ InProgress(r)
    /\ CloseCurrentStep(r, origin)
    /\ EndRequest(r, origin) \/ LeaveActivation(r) \/ LeaveOtherStep(r)
    /\ UNCHANGED <<rejected, decisions, confirmed>>

IsAsked(r) == \E c \in Calls : Asks(c, r)

MayPostpone(r, p) ==
    \/ p = "due" /\ demande[r].pending = "scheduled"
    \/ p = "scheduled" /\ Deferred /\ Present(r) /\ IsAsked(r)

MayApply(r, origin) ==
    \/ origin = "ACTION" /\ ~ Deferred /\ IsAsked(r)
    \/ origin = TickOrigin /\ engine.owed[r] > 0

Marked(c) ==
    /\ At(c, "fleetCommit")
    /\ Present(calls[c].req)
    /\ MarkNumbers(calls[c].req, calls[c].drop)
    /\ Goto(c, "schedule")

HasConfirmed(c) ==
    /\ At(c, "confirm")
    /\ Present(calls[c].req)
    /\ InsertConfirmation(calls[c].req, calls[c].op)
    /\ Goto(c, "count")

CallWrites(c) == Rejected(c) \/ Cancelled(c) \/ Marked(c) \/ HasConfirmed(c)

TableEffect ==
    \/ TablesKept
    \/ \E r \in Requests, p \in Pendings : PendingSet(r, p) /\ MayPostpone(r, p)
    \/ \E r \in Requests, origin \in Origins :
          Closes(r, origin) /\ MayApply(r, origin)
    \/ \E c \in Calls : CallWrites(c)
    \/ \E op \in Purgers : PurgeTestData(op)

\* ApplyTransition closes a step or writes nothing.
LEMMA TransitionTables ==
    ASSUME NEW r \in Requests, NEW origin \in Origins,
           ApplyTransition(r, origin), MayApply(r, origin)
    PROVE  TableEffect
<1>1. CASE UNCHANGED store
  BY <1>1 DEF store, TablesKept, TableEffect
<1>2. CASE Closes(r, origin)
  BY <1>2 DEF TableEffect
<1> QED BY <1>1, <1>2 DEF ApplyTransition, Closes

\* The steps of a call.
LEMMA CallTables ==
    ASSUME TypeOK, NEW c \in Calls, CallStep(c)
    PROVE  TableEffect
<1>1. UNCHANGED store => TableEffect
  BY DEF store, TablesKept, TableEffect
<1>2. CallWrites(c) => TableEffect
  BY DEF TableEffect
<1>3. CASE RejectUpdate(c)
  BY <1>1, <1>2, <1>3 DEF RejectUpdate, Rejected, CallWrites
<1>4. CASE FleetCommit(c)
  BY <1>1, <1>2, <1>4 DEF FleetCommit, Marked, CallWrites
<1>5. CASE CancelUpdate(c)
  BY <1>1, <1>2, <1>5 DEF CancelUpdate, Cancelled, CallWrites
<1>6. CASE InsertConfirm(c)
  BY <1>1, <1>2, <1>6 DEF InsertConfirm, HasConfirmed, CallWrites
<1>7. CASE ScheduleTransition(c)
  <2>1. calls[c].req \in Requests /\ IsAsked(calls[c].req)
    BY <1>7, CallFields DEF ScheduleTransition, At, IsAsked, Asks
  <2>2. CASE Deferred /\ ScheduleTransitionAt(calls[c].req)
    <3>1. CASE Present(calls[c].req)
      <4>1. PendingSet(calls[c].req, "scheduled")
        BY <2>2, <3>1 DEF ScheduleTransitionAt, PendingSet, historyVars
      <4>2. MayPostpone(calls[c].req, "scheduled")
        BY <2>1, <2>2, <3>1 DEF MayPostpone
      <4> QED BY <2>1, <4>1, <4>2 DEF TableEffect, Pendings
    <3>2. CASE ~ Present(calls[c].req)
      BY <2>2, <3>2 DEF ScheduleTransitionAt, TablesKept, TableEffect, historyVars
    <3> QED BY <3>1, <3>2
  <2>3. CASE ~ Deferred /\ ApplyTransition(calls[c].req, "ACTION")
    BY <2>1, <2>3, TransitionTables DEF Origins, MayApply
  <2> QED BY <1>7, <2>2, <2>3 DEF ScheduleTransition
<1> QED BY <1>1, <1>3, <1>4, <1>5, <1>6, <1>7
        DEF CallStep, Refuse, RejectInsert, FleetDecide, CancelInsert,
            CountConfirmations

\* Any step of the workflow.
LEMMA NextTables ==
    ASSUME TypeOK, [Next]_vars
    PROVE  TableEffect
<1>1. UNCHANGED store => TableEffect
  BY DEF store, TablesKept, TableEffect
<1>2. TablesKept => TableEffect
  BY DEF TableEffect
<1>3. CASE UNCHANGED vars
  BY <1>1, <1>3 DEF vars
<1>4. ASSUME NEW c \in Calls, Open(c) \/ Decide(c) \/ CallStep(c) \/ Abort(c)
      PROVE  TableEffect
  BY <1>1, <1>4, CallTables
     DEF Open, Decide, Accept, Reject, AcceptFleet, ProcessStep, Confirm,
         Cancel, Read, Abort
<1>5. CASE Tick \/ EndTick \/ TickFails
  BY <1>2, <1>5 DEF Tick, EndTick, TickFails, TablesKept, historyVars
<1>6. CASE ListDueConvergences \/ ListOverdueSteps \/ ListPendingReverses
  BY <1>1, <1>6 DEF ListDueConvergences, ListOverdueSteps, ListPendingReverses
<1>7. ASSUME NEW r \in Requests, EngineApply(r) PROVE TableEffect
  <2>1. TickOrigin \in Origins
    BY DEF TickOrigin, Origins
  <2> QED BY <1>7, <2>1, TransitionTables DEF EngineApply, MayApply
<1>8. ASSUME NEW r \in Requests, ConvergenceDue(r) PROVE TableEffect
  <2>1. PendingSet(r, "due") /\ MayPostpone(r, "due")
    BY <1>8 DEF ConvergenceDue, PendingSet, MayPostpone, historyVars
  <2> QED BY <2>1 DEF TableEffect, Pendings
<1>9. ASSUME NEW r \in Requests, StepTimesOut(r) PROVE TableEffect
  BY <1>2, <1>9 DEF StepTimesOut, TablesKept, historyVars
<1>10. ASSUME NEW op, DeclareIncident(op) \/ ResolveIncident(op)
       PROVE  TableEffect
  BY <1>1, <1>10 DEF DeclareIncident, ResolveIncident
<1>11. ASSUME NEW op \in Purgers, Purge(op) PROVE TableEffect
  BY <1>11 DEF Purge, TableEffect
<1> QED BY <1>3, <1>4, <1>5, <1>6, <1>7, <1>8, <1>9, <1>10, <1>11
        DEF Next, EngineStep

-----------------------------------------------------------------------------
(***************************************************************************)
(* The shape of each transaction, row by row.                              *)
(***************************************************************************)
\* A step closed adds itself to the request's closed steps.
LEMMA ClosedStepsGrow ==
    ASSUME StoreTypeOK, NEW r \in Requests, NEW origin \in Origins,
           CloseCurrentStep(r, origin)
    PROVE  /\ ClosedSteps(r)' = ClosedSteps(r) \cup {demande[r].step}
           /\ \A q \in Requests \ {r} :
                 closings'[q] = closings[q] /\ ClosedSteps(q)' = ClosedSteps(q)
<1>1. closings \in [Requests -> Seq(Closing)]
  BY DEF StoreTypeOK
<1> DEFINE row == [step |-> demande[r].step, origin |-> origin]
           n == Len(closings[r])
<1>2. closings'[r] = Append(closings[r], row)
  BY <1>1 DEF CloseCurrentStep
<1>3. row.step = demande[r].step
  OBVIOUS
<1> HIDE DEF row
<1>4. /\ n \in Nat
      /\ Len(closings'[r]) = n + 1
      /\ closings'[r][n + 1] = row
      /\ \A i \in 1..n : closings'[r][i] = closings[r][i]
  BY <1>1, <1>2
<1>5. ClosedSteps(r)' = ClosedSteps(r) \cup {demande[r].step}
  <2>1. ClosedSteps(r)' = {closings'[r][i].step : i \in 1..(n + 1)}
    BY <1>4 DEF ClosedSteps
  <2>2. \A i \in 1..(n + 1) : i \in 1..n \/ i = n + 1
    BY <1>4
  <2>3. 1..n \subseteq 1..(n + 1) /\ n + 1 \in 1..(n + 1)
    BY <1>4
  <2>4. ClosedSteps(r) = {closings[r][i].step : i \in 1..n}
    BY DEF ClosedSteps
  <2> HIDE DEF n
  <2> QED BY <1>3, <1>4, <2>1, <2>2, <2>3, <2>4
<1>6. \A q \in Requests \ {r} : closings'[q] = closings[q]
  BY <1>1 DEF CloseCurrentStep
<1> QED BY <1>5, <1>6 DEF ClosedSteps

\* The numbers that are still active are among those the request retained.
ExcludedAreRejected(r) == Present(r) => Portfolio[r].excluded \subseteq rejected[r]

\* The active numbers of a request are numbers that it retained.
LEMMA ActiveAreRetained ==
    ASSUME NEW r \in Requests, ExcludedAreRejected(r)
    PROVE  ActiveNumbers(r) \subseteq Retained(r)
BY DEF ExcludedAreRejected, ActiveNumbers, Retained

\* What closing a step does to the numbers: nothing; or the transfer of a
\* PORTAGE's active numbers; or the return of the number of another request.
KeepsNumbers(r) ==
    /\ HasMoved(r)' <=> HasMoved(r)
    /\ UNCHANGED <<numero, numberRouting>>

MovesFleet(r) ==
    /\ Portfolio[r].type = "PORTAGE"
    /\ HasMoved(r)'
    /\ TransferToRegistry(r)
    /\ ApplyNumberRouting(r)

SendsHome(r) ==
    /\ Portfolio[r].type # "PORTAGE"
    /\ HasMoved(r)'
    /\ ApplyEndOfRequestRestitution(r)
    /\ UNCHANGED numberRouting

\* Closing a step does one of the three to the numbers.
LEMMA ClosingNumbers ==
    ASSUME StoreTypeOK, NEW r \in Requests, NEW origin \in Origins, Closes(r, origin)
    PROVE  KeepsNumbers(r) \/ MovesFleet(r) \/ SendsHome(r)
<1>1. ClosedSteps(r)' = ClosedSteps(r) \cup {demande[r].step}
  BY ClosedStepsGrow DEF Closes
<1>2. CASE EndRequest(r, origin) /\ Portfolio[r].type = "PORTAGE"
  <2>1. KeepsNumbers(r)
    BY <1>1, <1>2 DEF EndRequest, KeepsNumbers, HasMoved
  <2> QED BY <2>1
<1>3. CASE EndRequest(r, origin) /\ Portfolio[r].type # "PORTAGE"
  <2>1. SendsHome(r)
    BY <1>1, <1>3 DEF EndRequest, SendsHome, HasMoved
  <2> QED BY <2>1
<1>4. CASE LeaveActivation(r)
  <2>1. MovesFleet(r)
    BY <1>1, <1>4 DEF LeaveActivation, MovesFleet, HasMoved
  <2> QED BY <2>1
<1>5. CASE LeaveOtherStep(r)
  <2>1. KeepsNumbers(r)
    BY <1>1, <1>5 DEF LeaveOtherStep, KeepsNumbers, HasMoved
  <2> QED BY <2>1
<1> QED BY <1>2, <1>3, <1>4, <1>5 DEF Closes

\* A number that another request retained, or that none did, is not touched;
\* nor is another request's routing.
LEMMA OthersUntouched ==
    ASSUME StoreTypeOK, NEW r \in Requests, NEW origin \in Origins,
           Closes(r, origin), ExcludedAreRejected(r), NEW n \in Numbers,
           n \notin Retained(r)
    PROVE  numero'[n] = numero[n]
<1>1. numero \in [Numbers -> [holder : Operators, dated : BOOLEAN,
                              restituted : BOOLEAN]]
  BY DEF StoreTypeOK
<1>2. CASE KeepsNumbers(r)
  BY <1>2 DEF KeepsNumbers
<1>3. CASE MovesFleet(r)
  BY <1>3, ActiveAreRetained DEF MovesFleet, TransferToRegistry
<1>4. CASE SendsHome(r)
  <2>1. Portfolio[r].msisdn \in Retained(r)
    BY <1>4, CreationAssumption DEF SendsHome, Retained
  <2> QED BY <1>1, <1>4, <2>1 DEF SendsHome, ApplyEndOfRequestRestitution
<1> QED BY <1>2, <1>3, <1>4, ClosingNumbers

\* Closing a step of one request leaves the routings of the others.
LEMMA OtherRoutingsUntouched ==
    ASSUME StoreTypeOK, NEW r \in Requests, NEW origin \in Origins,
           Closes(r, origin), NEW q \in Requests \ {r}
    PROVE  numberRouting'[q] = numberRouting[q]
<1>1. numberRouting \in [Requests -> [Numbers -> Operators \cup {None}]]
  BY DEF StoreTypeOK
<1> QED BY <1>1, ClosingNumbers
        DEF KeepsNumbers, MovesFleet, SendsHome, ApplyNumberRouting

\* What a request retained it takes, or had rejected.
Takes(r, n) ==
    /\ numero'[n].holder = Portfolio[r].recipient
    /\ numero[n].restituted => numero'[n].restituted
    /\ ShowsMove(r, n)'

LeavesOut(r, n) ==
    /\ Portfolio[r].type = "PORTAGE" /\ n \in rejected[r]
    /\ numero'[n] = numero[n]

\* A request that closes the step that moves numbers takes each one that it
\* retained, or leaves it out of a PORTAGE that had it rejected.
LEMMA OwnNumbersMove ==
    ASSUME StoreTypeOK, NEW r \in Requests, NEW origin \in Origins,
           Closes(r, origin), NEW n \in Retained(r), ~ KeepsNumbers(r)
    PROVE  HasMoved(r)' /\ (Takes(r, n) \/ LeavesOut(r, n))
<1>0. /\ numero \in [Numbers -> [holder : Operators, dated : BOOLEAN,
                                 restituted : BOOLEAN]]
      /\ numberRouting \in [Requests -> [Numbers -> Operators \cup {None}]]
      /\ n \in Numbers /\ n \in Portfolio[r].fleet
  BY PortfolioColumns DEF StoreTypeOK, Retained
<1>1. Present(r)
  BY DEF Closes, InProgress, Present
<1>2. CASE MovesFleet(r) /\ n \notin rejected[r]
  <2>1. n \in ActiveNumbers(r)
    BY <1>0, <1>1, <1>2 DEF ActiveNumbers
  <2>2. numero'[n] = RegistryEntry(Portfolio[r].recipient, TRUE, numero[n].restituted)
    BY <1>0, <1>2, <2>1 DEF MovesFleet, TransferToRegistry
  <2>3. numberRouting'[r][n] = Portfolio[r].recipient
    BY <1>0, <1>2, <2>1 DEF MovesFleet, ApplyNumberRouting
  <2>4. Takes(r, n)
    BY <1>2, <2>2, <2>3 DEF MovesFleet, Takes, ShowsMove, RegistryEntry
  <2> QED BY <1>2, <2>4 DEF MovesFleet
<1>3. CASE SendsHome(r)
  <2>1. n = Portfolio[r].msisdn
    BY <1>3, CreationAssumption DEF SendsHome, Retained
  <2>2. numero'[n] = RegistryEntry(Portfolio[r].recipient, TRUE, TRUE)
    BY <1>0, <1>3, <2>1 DEF SendsHome, ApplyEndOfRequestRestitution
  <2>3. Takes(r, n)
    BY <1>3, <2>2 DEF SendsHome, Takes, ShowsMove, RegistryEntry
  <2> QED BY <1>3, <2>3 DEF SendsHome
<1>4. CASE MovesFleet(r) /\ n \in rejected[r]
  <2>1. n \notin ActiveNumbers(r)
    BY <1>4 DEF ActiveNumbers
  <2>2. numero'[n] = numero[n]
    BY <1>0, <1>4, <2>1 DEF MovesFleet, TransferToRegistry
  <2> QED BY <1>4, <2>2 DEF MovesFleet, LeavesOut
<1> QED BY <1>2, <1>3, <1>4, ClosingNumbers

-----------------------------------------------------------------------------
(***************************************************************************)
(* Closing a step leaves it, and what is pending is pending until then.    *)
(***************************************************************************)
\* CheckPortingEligibility refuses a number that is already the recipient's,
\* and one that is not the source's.
HasTwoParties ==
    \A r \in Requests : Portfolio[r].type = "PORTAGE" =>
        Portfolio[r].source # Portfolio[r].recipient

\* Closing a step, a request leaves it or ends.
LEMMA ClosingLeaves ==
    ASSUME TypeOK, NEW r \in Requests, NEW origin \in Origins, Closes(r, origin)
    PROVE  \/ ~ InProgress(r)'
           \/ demande[r].step # "COMPLETION" /\ demande'[r].step = NextStep(demande[r].step)
<1>0. demande \in [Requests -> DemandeRow]
  BY DEF TypeOK, StoreTypeOK
<1>1. CASE EndRequest(r, origin)
  BY <1>0, <1>1 DEF EndRequest, CompleteRequest, InProgress
<1>2. CASE LeaveActivation(r) \/ LeaveOtherStep(r)
  BY <1>0, <1>2 DEF LeaveActivation, LeaveOtherStep, AdvanceStep
<1> QED BY <1>1, <1>2 DEF Closes

\* A step is not its own successor.
LEMMA NextStepDiffers ==
    ASSUME NEW s \in Steps, s # "COMPLETION"
    PROVE  NextStep(s) # s
BY NextStepAdvances, RankInRange

\* A pending transition stays pending until the step is left.
LEMMA PendingLasts ==
    ASSUME TypeOK, [Next]_vars, NEW r \in Requests, demande[r].pending # "none",
           InProgress(r)', demande'[r].step = demande[r].step
    PROVE  demande'[r].pending # "none"
<1>0. demande \in [Requests -> DemandeRow]
  BY DEF TypeOK, StoreTypeOK
<1>1. CASE TablesKept
  BY <1>1 DEF TablesKept
<1>2. ASSUME NEW q \in Requests, NEW p \in Pendings, PendingSet(q, p), MayPostpone(q, p)
      PROVE  demande'[r].pending # "none"
  <2>1. p # "none"
    BY <1>2 DEF MayPostpone
  <2> QED BY <1>0, <1>2, <2>1 DEF PendingSet, DemandeRow
<1>3. ASSUME NEW q \in Requests, NEW origin \in Origins, Closes(q, origin)
      PROVE  demande'[r].pending # "none"
  <2>1. CASE q = r
    <3>1. demande[r].step \in Steps
      BY <1>0 DEF DemandeRow
    <3>2. demande[r].step # "COMPLETION" /\ demande'[r].step = NextStep(demande[r].step)
      BY <1>3, <2>1, ClosingLeaves
    <3> QED BY <3>1, <3>2, NextStepDiffers
  <2>2. CASE q # r
    BY <1>0, <1>3, <2>2
       DEF Closes, EndRequest, CompleteRequest, LeaveActivation,
           LeaveOtherStep, AdvanceStep, DemandeRow
  <2> QED BY <2>1, <2>2
<1>4. ASSUME NEW c \in Calls, CallWrites(c) PROVE demande'[r].pending # "none"
  <2>1. calls[c].req \in Requests
    BY <1>4, CallFields DEF CallWrites, Rejected, Cancelled, Marked, HasConfirmed, At
  <2>2. ASSUME Rejected(c) PROVE demande'[r].pending = demande[r].pending
    BY <1>0, <2>1, <2>2 DEF Rejected, RejectRow, DemandeRow
  <2>3. ASSUME Cancelled(c) PROVE demande'[r].pending = demande[r].pending
    BY <1>0, <2>1, <2>3 DEF Cancelled, CancelRow, DemandeRow, InProgress
  <2>4. ASSUME Marked(c) \/ HasConfirmed(c) PROVE UNCHANGED demande
    BY <2>4 DEF Marked, MarkNumbers, HasConfirmed, InsertConfirmation
  <2> QED BY <1>4, <2>2, <2>3, <2>4 DEF CallWrites
<1>5. ASSUME NEW op \in Purgers, PurgeTestData(op) PROVE demande'[r].pending # "none"
  <2>1. r \notin CreatedBy(op)
    BY <1>5 DEF PurgeTestData, PurgedRow, Create, InProgress
  <2> QED BY <1>5, <2>1 DEF PurgeTestData
<1> QED BY <1>1, <1>2, <1>3, <1>4, <1>5, NextTables DEF TableEffect

-----------------------------------------------------------------------------
(***************************************************************************)
(* The registry follows the history, of whatever requests retain the same  *)
(* number.  The property becomes inductive with the fact that the excluded *)
(* numbers stay rejected, which makes a transfer move no number but those  *)
(* the request retained.                                                   *)
(***************************************************************************)
Follows(n) ==
    /\ \/ \E r \in Takers(n) : numero[n].holder = Portfolio[r].recipient
       \/ Untaken(n) /\ numero[n].holder = Registry[n].holder
       \/ IsBack(n)
    /\ \A r \in Takers(n) : n \in rejected[r] \/ ShowsMove(r, n)

RegistryInv ==
    /\ \A r \in Requests : ExcludedAreRejected(r)
    /\ \A n \in Numbers : Follows(n)

\* No step but a purge makes a request absent, or forgets a rejected number.
LEMMA RejectionsGrow ==
    ASSUME TypeOK, [Next]_vars, NEW r \in Requests,
           ~ \E op \in Purgers : PurgeTestData(op)
    PROVE  /\ rejected[r] \subseteq rejected'[r]
           /\ Present(r) => Present(r)'
<1>0. /\ StoreTypeOK
      /\ demande \in [Requests -> DemandeRow]
      /\ rejected \in [Requests -> SUBSET Numbers]
  BY DEF TypeOK, StoreTypeOK
<1>1. CASE TablesKept
  BY <1>1 DEF TablesKept, Present
<1>2. ASSUME NEW q \in Requests, NEW p \in Pendings, PendingSet(q, p)
      PROVE  rejected'[r] = rejected[r] /\ (Present(r) => Present(r)')
  BY <1>0, <1>2 DEF PendingSet, Present, DemandeRow
<1>3. ASSUME NEW q \in Requests, NEW origin \in Origins, Closes(q, origin)
      PROVE  rejected'[r] = rejected[r] /\ (Present(r) => Present(r)')
  <2>1. HistoryKept \/ Moved(q, origin)
    BY <1>0, <1>3, TransitionOutcome DEF Closes, ApplyTransition
  <2>2. demande'[r].status \in {demande[r].status, "EN_COURS", "TERMINE"}
    BY <1>0, <2>1 DEF HistoryKept, Moved
  <2> QED BY <1>3, <2>2 DEF Closes, Present
<1>4. ASSUME NEW c \in Calls, CallWrites(c)
      PROVE  /\ rejected[r] \subseteq rejected'[r]
             /\ Present(r) => Present(r)'
  <2>1. calls[c].req \in Requests
    BY <1>4, CallFields
       DEF CallWrites, Rejected, Cancelled, Marked, HasConfirmed, At
  <2>2. rejected[r] \subseteq rejected'[r]
    BY <1>0, <1>4, <2>1
       DEF CallWrites, Rejected, RejectRow, Cancelled, CancelRow, Marked,
           MarkNumbers, HasConfirmed, InsertConfirmation
  <2>3. demande'[r].status \in {demande[r].status, "REJETE", "ANNULE"}
    <3>1. CASE Rejected(c)
      BY <1>0, <2>1, <3>1 DEF Rejected, RejectRow
    <3>2. CASE Cancelled(c)
      BY <1>0, <2>1, <3>2 DEF Cancelled, CancelRow
    <3>3. CASE Marked(c) \/ HasConfirmed(c)
      BY <3>3 DEF Marked, MarkNumbers, HasConfirmed, InsertConfirmation
    <3> QED BY <1>4, <3>1, <3>2, <3>3 DEF CallWrites
  <2> QED BY <2>2, <2>3 DEF Present
<1> QED BY <1>1, <1>2, <1>3, <1>4, NextTables DEF TableEffect

\* Whoever counts as having taken a number was one who had, or has it rejected.
NobodyElseTakes(n) ==
    /\ Takers(n) \subseteq Takers(n)'
    /\ \A r \in Takers(n)' :
          n \in rejected'[r] \/ (r \in Takers(n) /\ n \notin rejected[r])

\* A purged request is there no more.
StayAbsent == \A r \in Requests : Present(r)' => Present(r)

\* A number that is left alone, its routings too but where it is rejected, and
\* that nobody takes, goes on following the history.
LEMMA FollowsUndisturbed ==
    ASSUME NEW n \in Numbers, Follows(n), StayAbsent, NobodyElseTakes(n),
           numero'[n] = numero[n],
           \A r \in Takers(n) :
               n \in rejected[r] \/ numberRouting'[r][n] = numberRouting[r][n]
    PROVE  Follows(n)'
<1>1. Purged(n) => Purged(n)'
  BY DEF StayAbsent, Purged
<1>2. ASSUME NEW r \in Takers(n), Takers(n) \subseteq Takers(n)',
             numero[n].holder = Portfolio[r].recipient
      PROVE  \E q \in Takers(n)' : numero'[n].holder = Portfolio[q].recipient
  BY <1>2
<1>3. Untaken(n) => Untaken(n)'
  BY DEF NobodyElseTakes, Untaken
<1>4. IsBack(n) => IsBack(n)'
  BY <1>1 DEF IsBack
<1>5. ASSUME NEW r \in Takers(n)', n \notin rejected'[r] PROVE ShowsMove(r, n)'
  <2>1. r \in Takers(n) /\ n \notin rejected[r]
    BY <1>5 DEF NobodyElseTakes
  <2> QED BY <1>1, <2>1 DEF Follows, ShowsMove
<1> QED BY <1>2, <1>3, <1>4, <1>5 DEF Follows, NobodyElseTakes

\* The invariant holds of requests just created.
LEMMA RegistryInvInit == Init => RegistryInv
<1> SUFFICES ASSUME Init PROVE RegistryInv
  OBVIOUS
<1>1. \A r \in Requests : ExcludedAreRejected(r)
  BY DEF Init, StoreInit, ExcludedAreRejected
<1>2. \A r \in Requests : ~ HasMoved(r)
  <2>1. \A r \in Requests : closings[r] = <<>>
    BY DEF Init, StoreInit
  <2>2. \A r \in Requests : ClosedSteps(r) = {}
    BY <2>1 DEF ClosedSteps
  <2> QED BY <2>2 DEF HasMoved
<1>3. \A n \in Numbers : Takers(n) = {} /\ numero[n].holder = Registry[n].holder
  BY <1>2 DEF Init, StoreInit, RegistryEntry, Takers
<1> QED BY <1>1, <1>3 DEF RegistryInv, Follows, Untaken

\* A request that is present keeps its excluded numbers rejected.
LEMMA ExcludedStayRejected ==
    ASSUME TypeOK, [Next]_vars, NEW r \in Requests, ExcludedAreRejected(r)
    PROVE  ExcludedAreRejected(r)'
<1>1. CASE ~ Present(r)'
  BY <1>1 DEF ExcludedAreRejected
<1>2. CASE Present(r)'
  <2>1. Present(r)
    BY <1>2, AbsentStays
  <2>2. CASE \E op \in Purgers : PurgeTestData(op)
    <3>1. PICK op \in Purgers : PurgeTestData(op)
      BY <2>2
    <3>2. r \notin CreatedBy(op)
      BY <1>2, <3>1 DEF PurgeTestData, PurgedRow, Create, Present
    <3>3. rejected'[r] = rejected[r]
      BY <3>1, <3>2 DEF PurgeTestData
    <3> QED BY <2>1, <3>3 DEF ExcludedAreRejected
  <2>3. CASE ~ \E op \in Purgers : PurgeTestData(op)
    BY <2>1, <2>3, RejectionsGrow DEF ExcludedAreRejected
  <2> QED BY <2>2, <2>3
<1> QED BY <1>1, <1>2

\* A purge keeps the invariant: it sends a number home, or leaves alone what is
\* known of it.
LEMMA RegistryInvPurged ==
    ASSUME TypeOK, RegistryInv, [Next]_vars, NEW op \in Purgers, PurgeTestData(op)
    PROVE  RegistryInv'
<1> DEFINE ids == CreatedBy(op)
           named == UNION {Portfolio[r].fleet \cup {Portfolio[r].msisdn} : r \in ids}
<1>0. \A r \in Requests : ExcludedAreRejected(r)'
  BY ExcludedStayRejected DEF RegistryInv
<1>1. \A r \in ids : r \in Requests /\ ~ Present(r)' /\ closings'[r] = <<>>
  BY DEF PurgeTestData, PurgedRow, Create, Present, CreatedBy
<1>2. \A r \in Requests \ ids : /\ closings'[r] = closings[r] /\ rejected'[r] = rejected[r]
                                /\ numberRouting'[r] = numberRouting[r]
  BY DEF PurgeTestData
<1>3. \A r \in ids : ~ HasMoved(r)'
  <2>1. \A r \in ids : ClosedSteps(r)' = {}
    BY <1>1 DEF ClosedSteps
  <2> QED BY <2>1 DEF HasMoved
<1>4. \A r \in Requests \ ids : HasMoved(r)' <=> HasMoved(r)
  BY <1>2 DEF HasMoved, ClosedSteps
<1>5. StayAbsent
  BY AbsentStays DEF StayAbsent
<1>6. ASSUME NEW n \in Numbers, n \in named PROVE Follows(n)'
  <2>1. numero'[n] = RegistryEntry(Registry[n].origin, FALSE, FALSE)
    BY <1>6 DEF PurgeTestData
  <2>2. PICK q \in ids : n \in Restored(q)
    BY <1>6 DEF Restored
  <2>3. Purged(n)'
    BY <1>1, <2>2 DEF Purged, Restored
  <2>4. IsBack(n)'
    BY <2>1, <2>3 DEF IsBack, RegistryEntry
  <2>5. ASSUME NEW r \in Takers(n)' PROVE n \in rejected'[r] \/ ShowsMove(r, n)'
    <3>1. r \in Requests \ ids /\ r \in Takers(n)
      BY <1>3, <1>4, <2>5 DEF Takers, Retained
    <3>2. n \in rejected[r] \/ ShowsMove(r, n)
      BY <3>1 DEF RegistryInv, Follows
    <3> QED BY <1>2, <2>3, <3>1, <3>2 DEF ShowsMove
  <2> QED BY <2>4, <2>5 DEF Follows
<1>7. ASSUME NEW n \in Numbers, n \notin named PROVE Follows(n)'
  <2>1. numero'[n] = numero[n]
    BY <1>7 DEF PurgeTestData
  <2>2. \A r \in ids : n \notin Portfolio[r].fleet
    BY <1>7
  <2>3. Takers(n) \subseteq Requests \ ids
    BY <2>2 DEF Takers, Retained
  <2>4. Takers(n)' = Takers(n)
    BY <1>3, <1>4, <2>3 DEF Takers, Retained
  <2>5. NobodyElseTakes(n)
    BY <1>2, <2>3, <2>4 DEF NobodyElseTakes
  <2>6. \A r \in Takers(n) : numberRouting'[r][n] = numberRouting[r][n]
    BY <1>2, <2>3
  <2>7. Follows(n)
    BY DEF RegistryInv
  <2> QED BY <1>5, <2>1, <2>5, <2>6, <2>7, FollowsUndisturbed
<1> QED BY <1>0, <1>6, <1>7 DEF RegistryInv

\* The close of a step keeps one number where the history says.
LEMMA FollowsClosing ==
    ASSUME TypeOK, RegistryInv, [Next]_vars, NEW q \in Requests,
           NEW origin \in Origins, Closes(q, origin), NEW n \in Numbers
    PROVE  Follows(n)'
<1>0. /\ StoreTypeOK /\ Follows(n) /\ ExcludedAreRejected(q)
      /\ UNCHANGED rejected /\ StayAbsent
  BY AbsentStays DEF TypeOK, RegistryInv, Closes, StayAbsent
<1>1. \A r \in Requests \ {q} : /\ HasMoved(r)' <=> HasMoved(r)
                                /\ numberRouting'[r] = numberRouting[r]
  BY <1>0, ClosedStepsGrow, OtherRoutingsUntouched DEF Closes, HasMoved
<1>2. Purged(n) => Purged(n)'
  BY <1>0 DEF StayAbsent, Purged
<1>3. CASE n \in Retained(q) /\ ~ KeepsNumbers(q) /\ Takes(q, n)
  <2>1. q \in Takers(n)'
    BY <1>0, <1>3, OwnNumbersMove DEF Takers, Retained
  <2>2. ASSUME NEW r \in Takers(n)', r # q PROVE n \in rejected'[r] \/ ShowsMove(r, n)'
    <3>1. r \in Requests \ {q} /\ r \in Takers(n)
      BY <1>1, <2>2 DEF Takers, Retained
    <3>2. n \in rejected[r] \/ ShowsMove(r, n)
      BY <1>0, <3>1 DEF Follows
    <3> QED BY <1>0, <1>1, <1>2, <1>3, <3>1, <3>2 DEF ShowsMove, Takes
  <2> QED BY <1>3, <2>1, <2>2 DEF Follows, Takes
<1>4. CASE n \in Retained(q) /\ ~ KeepsNumbers(q) /\ LeavesOut(q, n)
  <2>1. HasMoved(q)'
    BY <1>0, <1>4, OwnNumbersMove
  <2>2. Takers(n)' = Takers(n) \cup {q} /\ n \in rejected[q]
    BY <1>1, <1>4, <2>1 DEF Takers, Retained, LeavesOut
  <2>3. NobodyElseTakes(n)
    BY <1>0, <2>2 DEF NobodyElseTakes
  <2>4. \A r \in Takers(n) :
           n \in rejected[r] \/ numberRouting'[r][n] = numberRouting[r][n]
    BY <1>1, <2>2 DEF Takers
  <2> QED BY <1>0, <1>4, <2>3, <2>4, FollowsUndisturbed DEF LeavesOut
<1>5. CASE n \notin Retained(q) \/ KeepsNumbers(q)
  <2>1. numero'[n] = numero[n]
    BY <1>0, <1>5, OthersUntouched DEF KeepsNumbers
  <2>2. Takers(n)' = Takers(n)
    BY <1>1, <1>5 DEF Takers, Retained, KeepsNumbers
  <2>3. NobodyElseTakes(n)
    BY <1>0, <2>2 DEF NobodyElseTakes
  <2>4. \A r \in Takers(n) : numberRouting'[r][n] = numberRouting[r][n]
    BY <1>1, <1>5 DEF Takers, KeepsNumbers
  <2> QED BY <1>0, <2>1, <2>3, <2>4, FollowsUndisturbed
<1> QED BY <1>0, <1>3, <1>4, <1>5, OwnNumbersMove

\* Every step that is no purge keeps the invariant.
LEMMA RegistryInvKept ==
    ASSUME TypeOK, RegistryInv, [Next]_vars,
           ~ \E op \in Purgers : PurgeTestData(op)
    PROVE  RegistryInv'
<1>0. \A r \in Requests : ExcludedAreRejected(r)'
  BY ExcludedStayRejected DEF RegistryInv
<1>1. /\ \A r \in Requests : rejected[r] \subseteq rejected'[r]
      /\ StayAbsent
  BY RejectionsGrow, AbsentStays DEF StayAbsent
<1>2. ASSUME UNCHANGED <<closings, numero, numberRouting>>, NEW n \in Numbers
      PROVE  Follows(n)'
  <2>1. Takers(n)' = Takers(n)
    BY <1>2 DEF Takers, Retained, HasMoved, ClosedSteps
  <2>2. NobodyElseTakes(n)
    BY <1>1, <2>1 DEF NobodyElseTakes, Takers
  <2>3. Follows(n)
    BY DEF RegistryInv
  <2> QED BY <1>1, <1>2, <2>2, <2>3, FollowsUndisturbed
<1>3. ASSUME NEW c \in Calls, CallWrites(c)
      PROVE  UNCHANGED <<closings, numero, numberRouting>>
  BY <1>3 DEF CallWrites, Rejected, RejectRow, Cancelled, CancelRow, Marked,
              MarkNumbers, HasConfirmed, InsertConfirmation, historyVars
<1>4. \A n \in Numbers : Follows(n)'
  BY <1>2, <1>3, FollowsClosing, NextTables DEF TableEffect, TablesKept, PendingSet
<1> QED BY <1>0, <1>4 DEF RegistryInv

\* The registry agrees with the history whatever calls, ticks and purges
\* interleave, and whatever requests retain the same number: a number is with
\* the recipient of a request that took it, with the holder it started with if
\* none did, or home if a purge named it.
THEOREM RegistryAgreesWithHistory == Spec => []RegistryFollowsHistory
<1>1. TypeOK /\ RegistryInv /\ [Next]_vars => RegistryInv'
  BY RegistryInvKept, RegistryInvPurged
<1>2. RegistryInv => RegistryFollowsHistory
  BY DEF RegistryInv, Follows, RegistryFollowsHistory
<1> QED BY <1>1, <1>2, RegistryInvInit, TypeCorrect, PTL DEF Spec

-----------------------------------------------------------------------------
(***************************************************************************)
(* What a purge removed stays removed, whatever calls and listed ticks     *)
(* still hold the request.  Its rows, without condition; its numbers, as   *)
(* long as no other request retained one of them and can move it again.    *)
(***************************************************************************)
SharesNoNumber ==
    \A r, q \in Requests : r # q => Portfolio[r].fleet \cap Retained(q) = {}

LeavesNoRow(r) ==
    ~ Present(r) => /\ closings[r] = <<>> /\ decisions[r] = <<>>
                    /\ confirmed[r] = {} /\ rejected[r] = {}

IsHome(r) ==
    ~ Present(r) => \A n \in Portfolio[r].fleet : numero[n].holder = Registry[n].origin

PurgeInv == \A r \in Requests : ExcludedAreRejected(r) /\ LeavesNoRow(r) /\ IsHome(r)

\* No write names a request that is absent.
LEMMA AbsentUntouched ==
    ASSUME TypeOK, [Next]_vars, NEW r \in Requests, ~ Present(r)
    PROVE  LeavesNoRow(r) => LeavesNoRow(r)'
<1>0. /\ StoreTypeOK
      /\ closings \in [Requests -> Seq(Closing)]
      /\ decisions \in [Requests -> Seq(Decision)]
      /\ confirmed \in [Requests -> SUBSET Operators]
      /\ rejected \in [Requests -> SUBSET Numbers]
  BY DEF TypeOK, StoreTypeOK
<1>1. CASE TablesKept
  BY <1>1 DEF TablesKept, LeavesNoRow, Present
<1>2. ASSUME NEW q \in Requests, NEW p \in Pendings, PendingSet(q, p)
      PROVE  LeavesNoRow(r) => LeavesNoRow(r)'
  BY <1>2 DEF PendingSet, LeavesNoRow
<1>3. ASSUME NEW q \in Requests, NEW origin \in Origins, Closes(q, origin)
      PROVE  LeavesNoRow(r) => LeavesNoRow(r)'
  <2>1. q # r
    BY <1>3 DEF Closes, InProgress, Present
  <2>2. closings'[r] = closings[r]
    BY <1>0, <1>3, <2>1 DEF Closes, CloseCurrentStep
  <2> QED BY <1>3, <2>2 DEF Closes, LeavesNoRow
<1>4. ASSUME NEW c \in Calls, CallWrites(c)
      PROVE  LeavesNoRow(r) => LeavesNoRow(r)'
  <2>1. calls[c].req \in Requests /\ calls[c].step # None
    BY <1>4, CallFields, StoreAssumption
       DEF CallWrites, Rejected, Cancelled, Marked, HasConfirmed, At
  <2>2. Present(calls[c].req)
    BY <1>4, <2>1 DEF CallWrites, Rejected, Cancelled, Marked, HasConfirmed, StepSeen
  <2>3. calls[c].req # r
    BY <2>2
  <2> QED BY <1>0, <1>4, <2>1, <2>3
          DEF CallWrites, Rejected, RejectRow, Cancelled, CancelRow, Marked,
              MarkNumbers, HasConfirmed, InsertConfirmation, historyVars,
              LeavesNoRow
<1>5. ASSUME NEW op \in Purgers, PurgeTestData(op)
      PROVE  LeavesNoRow(r) => LeavesNoRow(r)'
  BY <1>5 DEF PurgeTestData, LeavesNoRow
<1> QED BY <1>1, <1>2, <1>3, <1>4, <1>5, NextTables DEF TableEffect

\* A purge removes every row of the request, and sends its numbers home.
LEMMA PurgeRemoves ==
    ASSUME TypeOK, NEW op \in Operators, PurgeTestData(op),
           NEW r \in Requests, Present(r), ~ Present(r)'
    PROVE  LeavesNoRow(r)' /\ IsHome(r)'
<1>1. r \in CreatedBy(op)
  BY DEF PurgeTestData, Present
<1>2. LeavesNoRow(r)'
  BY <1>1 DEF PurgeTestData, LeavesNoRow
<1>3. ASSUME NEW n \in Portfolio[r].fleet
      PROVE  numero'[n].holder = Registry[n].origin
  <2>1. n \in Numbers
    BY PortfolioColumns
  <2>2. n \in UNION {Portfolio[q].fleet \cup {Portfolio[q].msisdn} : q \in CreatedBy(op)}
    BY <1>1
  <2>3. numero'[n] = RegistryEntry(Registry[n].origin, FALSE, FALSE)
    BY <2>1, <2>2 DEF PurgeTestData
  <2> QED BY <2>3 DEF RegistryEntry
<1> QED BY <1>2, <1>3 DEF IsHome

\* A request becomes absent by a purge only.
LEMMA OnlyPurgesRemove ==
    ASSUME TypeOK, [Next]_vars, NEW r \in Requests, Present(r), ~ Present(r)'
    PROVE  \E op \in Operators : PurgeTestData(op)
<1>1. \E op \in Purgers : PurgeTestData(op)
  BY RejectionsGrow
<1> QED BY <1>1, WorkflowAssumption

\* The numbers of an absent request stay home.
LEMMA HomeKept ==
    ASSUME TypeOK, [Next]_vars, SharesNoNumber,
           \A q \in Requests : ExcludedAreRejected(q),
           NEW r \in Requests, ~ Present(r), IsHome(r)
    PROVE  IsHome(r)'
<1>0. StoreTypeOK /\ Portfolio[r].fleet \subseteq Numbers
  BY PortfolioColumns DEF TypeOK
<1>1. ASSUME NEW n \in Portfolio[r].fleet
      PROVE  numero'[n].holder = Registry[n].origin
  <2>1. numero[n].holder = Registry[n].origin
    BY <1>1 DEF IsHome
  <2>2. CASE UNCHANGED numero
    BY <2>1, <2>2
  <2>3. ASSUME NEW q \in Requests, NEW origin \in Origins, Closes(q, origin)
        PROVE  numero'[n].holder = Registry[n].origin
    <3>1. q # r
      BY <2>3 DEF Closes, InProgress, Present
    <3>2. n \notin Retained(q)
      BY <1>1, <3>1 DEF SharesNoNumber
    <3> QED BY <1>0, <2>1, <2>3, <3>2, OthersUntouched
  <2>4. ASSUME NEW op \in Purgers, PurgeTestData(op)
        PROVE  numero'[n].holder = Registry[n].origin
    <3>1. numero'[n] \in {numero[n], RegistryEntry(Registry[n].origin, FALSE, FALSE)}
      BY <1>0, <2>4 DEF PurgeTestData
    <3> QED BY <2>1, <3>1 DEF RegistryEntry
  <2>5. ASSUME NEW c \in Calls, CallWrites(c) PROVE UNCHANGED numero
    BY <2>5 DEF CallWrites, Rejected, RejectRow, Cancelled, CancelRow, Marked,
                MarkNumbers, HasConfirmed, InsertConfirmation
  <2> QED BY <2>2, <2>3, <2>4, <2>5, NextTables DEF TableEffect, TablesKept, PendingSet
<1> QED BY <1>1 DEF IsHome

\* The rows of an absent request stay removed.
LEMMA NoRowKept ==
    ASSUME TypeOK, [Next]_vars, NEW r \in Requests, LeavesNoRow(r)
    PROVE  LeavesNoRow(r)'
<1>1. CASE Present(r) /\ ~ Present(r)'
  BY <1>1, OnlyPurgesRemove, PurgeRemoves
<1>2. CASE Present(r)'
  BY <1>2 DEF LeavesNoRow
<1>3. CASE ~ Present(r)
  BY <1>3, AbsentUntouched
<1> QED BY <1>1, <1>2, <1>3

\* Every step keeps the invariant.
LEMMA PurgeInvKept ==
    ASSUME TypeOK, PurgeInv, [Next]_vars, SharesNoNumber
    PROVE  PurgeInv'
<1>1. ASSUME NEW r \in Requests
      PROVE  ExcludedAreRejected(r)' /\ LeavesNoRow(r)' /\ IsHome(r)'
  <2>1. IsHome(r)'
    <3>1. CASE Present(r) /\ ~ Present(r)'
      BY <3>1, OnlyPurgesRemove, PurgeRemoves
    <3>2. CASE Present(r)'
      BY <3>2 DEF IsHome
    <3>3. CASE ~ Present(r)
      BY <3>3, HomeKept DEF PurgeInv
    <3> QED BY <3>1, <3>2, <3>3
  <2> QED BY <2>1, ExcludedStayRejected, NoRowKept DEF PurgeInv
<1> QED BY <1>1 DEF PurgeInv

\* Everyone is present when the requests begin.
LEMMA PurgeInvInit == Init => PurgeInv
BY DEF Init, StoreInit, Create, Present, PurgeInv, ExcludedAreRejected,
       LeavesNoRow, IsHome

\* A purge leaves no row of what it removed, and sends its numbers home for
\* good unless another request retained one of them; no call in flight and no
\* listed tick writes for it again.
THEOREM PurgesLeaveNothing ==
    ASSUME SharesNoNumber
    PROVE  Spec => []PurgedLeavesNothing
<1>1. TypeOK /\ PurgeInv /\ [Next]_vars => PurgeInv'
  BY PurgeInvKept
<1>2. PurgeInv => PurgedLeavesNothing
  BY DEF PurgeInv, LeavesNoRow, IsHome, PurgedLeavesNothing
<1> QED BY <1>1, <1>2, PurgeInvInit, TypeCorrect, PTL DEF Spec

-----------------------------------------------------------------------------
(***************************************************************************)
(* Only overdue steps expire, when no call closes a step of what a tick    *)
(* has listed to expire: the step it listed is still the current one when  *)
(* its turn comes.  A convergence window defers every transition of a      *)
(* call, so that the engine is alone to close steps.                       *)
(***************************************************************************)
ExpiriesApart ==
    ~ Deferred /\ engine.pc = "expiring" =>
        \A r \in Requests : engine.owed[r] > 0 => ~ IsAsked(r)

\* With a convergence window there is nothing to keep apart.
LEMMA WindowKeepsApart == Deferred => ExpiriesApart
BY DEF ExpiriesApart

ListedAreOverdue ==
    /\ overdueAtTick \subseteq overdue
    /\ engine.pc = "expiring" => \A r \in Requests :
          /\ engine.owed[r] \in 0..1
          /\ engine.owed[r] > 0 /\ InProgress(r) => r \in overdue

\* What the engine and the clocks do together in a step.
ClocksKept == UNCHANGED <<engine, overdue, overdueAtTick>>

\* A step that closes nothing and is not the engine's disturbs no list.
LEMMA ListUndisturbed ==
    ASSUME TypeOK, [Next]_vars, ListedAreOverdue, ClocksKept
    PROVE  ListedAreOverdue'
<1>1. ASSUME NEW r \in Requests, InProgress(r)' PROVE InProgress(r)
  <2>1. Present(r) /\ Outcome(r)
    BY <1>1, StepOutcome DEF InProgress, Present
  <2> QED BY <1>1, <2>1 DEF Outcome, StaysPut, Advances, IsRejected,
                            IsCancelledBy, InProgress
<1> QED BY <1>1 DEF ListedAreOverdue, ClocksKept

\* Leaving a step, the engine leaves its clock too; ending a request, it keeps
\* it.
LEMMA ClosingClocks ==
    ASSUME NEW r \in Requests, NEW origin \in Origins, ApplyTransition(r, origin)
    PROVE  \/ UNCHANGED <<overdue, overdueAtTick>>
           \/ /\ overdue' = overdue \ {r}
              /\ overdueAtTick' = overdueAtTick \ {r}
BY DEF ApplyTransition, store, EndRequest, CompleteRequest, clockVars,
       LeaveActivation, LeaveOtherStep, AdvanceStep

\* The last step of a call, with immediate transitions, closes a step.
ClosesNow(c) == ~ Deferred /\ ScheduleTransition(c)

\* Nothing else of a call closes a step or touches a clock.
LEMMA CallsOnlySchedule ==
    ASSUME NEW c \in Calls, Open(c) \/ Decide(c) \/ CallStep(c) \/ Abort(c),
           ~ ClosesNow(c)
    PROVE  ClocksKept /\ UNCHANGED closings
<1>1. CASE Open(c) \/ Decide(c) \/ Abort(c)
  BY <1>1 DEF Open, Decide, Accept, Reject, AcceptFleet, ProcessStep, Confirm,
              Cancel, Read, Abort, Become, store, ClocksKept
<1>2. CASE CallStep(c)
  BY <1>2
     DEF CallStep, Refuse, RejectInsert, RejectUpdate, FleetDecide, FleetCommit,
         CancelInsert, CancelUpdate, InsertConfirm, CountConfirmations,
         ClosesNow, ScheduleTransition, Answer, Goto, Become, RejectRow,
         CancelRow, MarkNumbers, InsertConfirmation, ScheduleTransitionAt,
         store, historyVars, clockVars, ClocksKept
<1> QED BY <1>1, <1>2

\* What closes closes the request it was asked for.
LEMMA ClosingNowAsked ==
    ASSUME TypeOK, NEW c \in Calls, ClosesNow(c)
    PROVE  \E r \in Requests :
              /\ IsAsked(r)
              /\ ApplyTransition(r, "ACTION")
              /\ UNCHANGED engine
<1>1. calls[c].req \in Requests /\ At(c, "schedule")
  BY CallFields DEF ClosesNow, ScheduleTransition, At
<1> QED BY <1>1 DEF ClosesNow, ScheduleTransition, Answer, Become, IsAsked, Asks

\* Steps are closed by the engine and by those last steps.
LEMMA WhoCloses ==
    ASSUME [Next]_vars
    PROVE  \/ UNCHANGED closings
           \/ \E c \in Calls : ClosesNow(c)
           \/ \E r \in Requests : EngineApply(r)
           \/ \E op \in Operators : PurgeTestData(op)
<1>1. ASSUME EngineStep, ~ \E r \in Requests : EngineApply(r)
      PROVE  UNCHANGED closings
  BY <1>1 DEF EngineStep, Tick, ListDueConvergences, ListOverdueSteps,
              ListPendingReverses, EndTick, historyVars, store
<1>2. ASSUME NEW op \in Purgers, Purge(op)
      PROVE  \E o \in Operators : PurgeTestData(o)
  BY <1>2, WorkflowAssumption DEF Purge
<1>3. CASE UNCHANGED vars \/ TickFails
  BY <1>3 DEF vars, store, TickFails, historyVars
<1>4. ASSUME NEW r \in Requests, ConvergenceDue(r) \/ StepTimesOut(r)
      PROVE  UNCHANGED closings
  BY <1>4 DEF ConvergenceDue, StepTimesOut, historyVars
<1>5. ASSUME NEW op, DeclareIncident(op) \/ ResolveIncident(op)
      PROVE  UNCHANGED closings
  BY <1>5 DEF DeclareIncident, ResolveIncident, store
<1> QED BY <1>1, <1>2, <1>3, <1>4, <1>5, CallsOnlySchedule DEF Next

\* What grows a history closes a step of that request, for the reason it gives.
LEMMA ClosingNamesItsReason ==
    ASSUME StoreTypeOK, NEW q \in Requests, NEW origin \in Origins,
           ApplyTransition(q, origin), NEW r \in Requests,
           Len(closings'[r]) > Len(closings[r])
    PROVE  /\ q = r
           /\ InProgress(r)
           /\ closings'[r][Len(closings'[r])].origin = origin
<1>0. closings \in [Requests -> Seq(Closing)]
  BY DEF StoreTypeOK
<1>1. Moved(q, origin)
  <2>1. HistoryKept \/ Moved(q, origin)
    BY TransitionOutcome
  <2>2. HistoryKept => closings'[r] = closings[r]
    BY DEF HistoryKept
  <2>3. Len(closings[r]) \in Nat
    BY <1>0
  <2> QED BY <2>1, <2>2, <2>3
<1> DEFINE row == [step |-> demande[q].step, origin |-> origin]
<1>2. InProgress(q) /\ closings' = [closings EXCEPT ![q] = Append(@, row)]
  BY <1>1 DEF Moved
<1>3. row.origin = origin
  OBVIOUS
<1> HIDE DEF row
<1>4. q = r
  BY <1>0, <1>2
<1>5. closings'[r][Len(closings'[r])] = row
  BY <1>0, <1>2, <1>4
<1> QED BY <1>2, <1>3, <1>4, <1>5

\* Every step keeps what is known of the steps listed as overdue.
LEMMA ListKept ==
    ASSUME TypeOK, ExpiriesApart, ListedAreOverdue, [Next]_vars
    PROVE  ListedAreOverdue'
<1>0. EngineTyped /\ overdue \subseteq Requests /\ overdueAtTick \subseteq overdue
  BY DEF TypeOK, StoreTypeOK, EngineTyped, ListedAreOverdue
<1>1. CASE ClocksKept
  BY <1>1, ListUndisturbed
<1>2. ASSUME NEW c \in Calls, Open(c) \/ Decide(c) \/ CallStep(c) \/ Abort(c)
      PROVE  ListedAreOverdue'
  <2>1. CASE ~ ClosesNow(c)
    BY <1>1, <1>2, <2>1, CallsOnlySchedule
  <2>2. CASE ClosesNow(c)
    <3>1. PICK r \in Requests : /\ IsAsked(r)
                               /\ ApplyTransition(r, "ACTION")
                               /\ UNCHANGED engine
      BY <2>2, ClosingNowAsked
    <3>2. \/ UNCHANGED <<overdue, overdueAtTick>>
          \/ /\ overdue' = overdue \ {r}
             /\ overdueAtTick' = overdueAtTick \ {r}
      BY <3>1, ClosingClocks DEF Origins
    <3>3. engine.pc = "expiring" => ~ engine.owed[r] > 0
      BY <2>2, <3>1 DEF ExpiriesApart, ClosesNow
    <3>4. \A q \in Requests : InProgress(q)' => InProgress(q)
      BY StepOutcome DEF Outcome, StaysPut, Advances, IsRejected,
                         IsCancelledBy, InProgress, Present
    <3> QED BY <1>0, <3>1, <3>2, <3>3, <3>4 DEF ListedAreOverdue
  <2> QED BY <2>1, <2>2
<1>3. CASE Tick \/ EndTick \/ TickFails
  BY <1>0, <1>3 DEF Tick, EndTick, TickFails, Pass, ListedAreOverdue
<1>4. CASE ListDueConvergences \/ ListPendingReverses
  BY <1>0, <1>4 DEF ListDueConvergences, ListPendingReverses, Pass, store,
                    ListedAreOverdue
<1>5. CASE ListOverdueSteps
  <2> DEFINE ids == IF StepTimeout THEN OverdueSteps ELSE {}
  <2>1. engine' = [pc |-> "expiring", owed |-> OnceEach(ids)] /\ UNCHANGED store
    BY <1>5 DEF ListOverdueSteps, Pass
  <2>2. ids \subseteq overdue
    BY <1>0 DEF OverdueSteps
  <2> HIDE DEF ids
  <2>3. \A r \in Requests : engine'.owed[r] \in 0..1
                            /\ (engine'.owed[r] > 0 => r \in overdue)
    BY <2>1, <2>2 DEF OnceEach
  <2>4. overdue' = overdue /\ overdueAtTick' = overdueAtTick
    BY <2>1 DEF store
  <2> QED BY <1>0, <2>3, <2>4 DEF ListedAreOverdue
<1>6. ASSUME NEW r \in Requests, EngineApply(r) PROVE ListedAreOverdue'
  <2>1. /\ engine' = [pc |-> engine.pc, owed |-> [engine.owed EXCEPT ![r] = @ - 1]]
        /\ engine.owed[r] > 0
    BY <1>6 DEF EngineApply, Pass
  <2>2. \/ UNCHANGED <<overdue, overdueAtTick>>
        \/ /\ overdue' = overdue \ {r}
           /\ overdueAtTick' = overdueAtTick \ {r}
    BY <1>6, ClosingClocks DEF EngineApply, TickOrigin, Origins
  <2>3. overdueAtTick' \subseteq overdue'
    BY <1>0, <2>2
  <2>4. ASSUME engine'.pc = "expiring", NEW q \in Requests
        PROVE  /\ engine'.owed[q] \in 0..1
               /\ engine'.owed[q] > 0 /\ InProgress(q)' => q \in overdue'
    <3>1. engine.pc = "expiring" /\ engine.owed[q] \in 0..1
      BY <2>1, <2>4 DEF ListedAreOverdue
    <3>2. CASE q = r
      <4>1. engine'.owed[q] = 0
        BY <1>0, <2>1, <3>1, <3>2 DEF EngineTyped
      <4> QED BY <4>1
    <3>3. CASE q # r
      <4>1. engine'.owed[q] = engine.owed[q]
        BY <1>0, <2>1, <3>3 DEF EngineTyped
      <4>2. InProgress(q)' => InProgress(q)
        BY StepOutcome DEF Outcome, StaysPut, Advances, IsRejected,
                           IsCancelledBy, InProgress, Present
      <4> QED BY <2>2, <3>1, <3>3, <4>1, <4>2 DEF ListedAreOverdue
    <3> QED BY <3>2, <3>3
  <2> QED BY <2>3, <2>4 DEF ListedAreOverdue
<1>7. ASSUME NEW r \in Requests, ConvergenceDue(r) PROVE ClocksKept
  BY <1>7 DEF ConvergenceDue, ClocksKept, clockVars
<1>8. ASSUME NEW r \in Requests, StepTimesOut(r) PROVE ListedAreOverdue'
  BY <1>0, <1>8 DEF StepTimesOut, ListedAreOverdue, InProgress
<1>9. ASSUME NEW op, DeclareIncident(op) \/ ResolveIncident(op) PROVE ClocksKept
  BY <1>9 DEF DeclareIncident, ResolveIncident, store, ClocksKept
<1>10. ASSUME NEW op \in Purgers, Purge(op) PROVE ListedAreOverdue'
  <2>1. /\ overdue' = overdue \ CreatedBy(op)
        /\ overdueAtTick' = overdueAtTick \ CreatedBy(op)
        /\ UNCHANGED engine
    BY <1>10 DEF Purge, PurgeTestData
  <2>2. \A r \in Requests : InProgress(r)' => InProgress(r) /\ r \notin CreatedBy(op)
    BY <1>10 DEF Purge, PurgeTestData, InProgress, PurgedRow, Create
  <2> QED BY <1>0, <2>1, <2>2 DEF ListedAreOverdue
<1>11. CASE UNCHANGED vars
  BY <1>11, <1>1 DEF vars, store, ClocksKept
<1> QED BY <1>1, <1>2, <1>3, <1>4, <1>5, <1>6, <1>7, <1>8, <1>9, <1>10, <1>11
        DEF Next, EngineStep

\* A step closed as EXPIRE had outlived its timeout, however old the list the
\* engine works from, unless a call moved the request on since it was listed;
\* with a convergence window none does.
THEOREM ExpiryComesLate ==
    Spec /\ []ExpiriesApart => OnlyOverdueStepsExpire
<1>1. Init => ListedAreOverdue
  BY DEF Init, StoreInit, ListedAreOverdue
<1>2. TypeOK /\ ExpiriesApart /\ ListedAreOverdue /\ [Next]_vars => ListedAreOverdue'
  BY ListKept
<1>3. ASSUME TypeOK, ListedAreOverdue, [Next]_vars, NEW r \in Requests,
             Len(closings'[r]) > Len(closings[r]),
             closings'[r][Len(closings'[r])].origin = "EXPIRATION"
      PROVE  r \in overdue
  <2>0. StoreTypeOK /\ closings \in [Requests -> Seq(Closing)]
    BY <1>3 DEF TypeOK, StoreTypeOK
  <2>1. CASE UNCHANGED closings
    <3>1. Len(closings[r]) \in Nat /\ closings'[r] = closings[r]
      BY <2>0, <2>1
    <3> QED BY <1>3, <3>1
  <2>2. ASSUME NEW op \in Operators, PurgeTestData(op) PROVE FALSE
    <3>1. closings'[r] \in {<<>>, closings[r]}
      BY <2>2 DEF PurgeTestData
    <3> QED BY <1>3, <2>0, <3>1
  <2>3. ASSUME NEW q \in Requests, EngineApply(q) PROVE r \in overdue
    <3>1. TickOrigin \in Origins /\ engine.owed[q] > 0
      BY <2>3 DEF EngineApply, TickOrigin, Origins
    <3>2. q = r /\ InProgress(r) /\ TickOrigin = "EXPIRATION"
      BY <1>3, <2>0, <2>3, <3>1, ClosingNamesItsReason DEF EngineApply
    <3>3. engine.pc = "expiring"
      BY <3>2 DEF TickOrigin
    <3> QED BY <1>3, <3>1, <3>2, <3>3 DEF ListedAreOverdue
  <2>4. ASSUME NEW c \in Calls, ClosesNow(c) PROVE FALSE
    <3>1. PICK q \in Requests : ApplyTransition(q, "ACTION")
      BY <1>3, <2>4, ClosingNowAsked
    <3> QED BY <1>3, <2>0, <3>1, ClosingNamesItsReason DEF Origins
  <2> QED BY <1>3, <2>1, <2>2, <2>3, <2>4, WhoCloses
<1>4. TypeOK /\ ListedAreOverdue /\ [Next]_vars =>
        [\A r \in Requests :
            Len(closings'[r]) > Len(closings[r])
            /\ closings'[r][Len(closings'[r])].origin = "EXPIRATION"
                => r \in overdue]_vars
  BY <1>3
<1> QED BY <1>1, <1>2, <1>4, TypeCorrect, PTL DEF Spec, OnlyOverdueStepsExpire

-----------------------------------------------------------------------------
(***************************************************************************)
(* What becomes of a request, in the eyes of creation.  Intake abstracts   *)
(* the workflow to four outcomes and the purge; here the tables are shown  *)
(* as Intake has them, and every step of the workflow is one of these, or  *)
(* changes nothing that Intake sees.  The date of a porting is only known  *)
(* to be there or not.                                                     *)
(***************************************************************************)
SeenNumber(n) == [holder |-> numero[n].holder,
                  date |-> IF numero[n].dated THEN 0 ELSE None,
                  restituted |-> numero[n].restituted]
SeenRegistry == [n \in Numbers |-> SeenNumber(n)]

NoGhosts == [read |-> [n \in {} |-> 0], sent |-> 0, verified |-> 0, reverse |-> 0]

SeenStatus(r) == IF InProgress(r) THEN "EN_COURS"
                 ELSE IF Present(r) THEN "ENDED" ELSE "ABSENT"

SeenActive(r) == IF InProgress(r) THEN ActiveNumbers(r) ELSE {}
SeenFleet(r) == IF Present(r) THEN Portfolio[r].fleet ELSE {}
SeenMoved(r) == IF Present(r) /\ HasMoved(r) THEN TRUE ELSE FALSE

RowOf(p, status, active, fleet, moved) ==
    [type |-> p.type, status |-> status, source |-> p.source,
     recipient |-> p.recipient, msisdn |-> p.msisdn, active |-> active,
     fleet |-> fleet, moved |-> moved, ghosts |-> NoGhosts]

SeenRow(r) == RowOf(Portfolio[r], SeenStatus(r), SeenActive(r), SeenFleet(r),
                    SeenMoved(r))
SeenRequests == [r \in Requests |-> SeenRow(r)]

OriginOf == [n \in Numbers |-> Registry[n].origin]
RegistrySeen == [n \in Numbers |-> [holder |-> Registry[n].holder,
                                    date |-> IF Registry[n].dated THEN 0 ELSE None,
                                    restituted |-> Registry[n].restituted]]

Seen == INSTANCE Intake
        WITH Origin <- OriginOf, Registry <- RegistrySeen, Inputs <- {},
             PortingDelay <- 0, RestitutionDelay <- 0, OTPMaxAttempts <- 0,
             OTPTTL <- 0, AutoValidation <- FALSE, Start <- 0, MaxNow <- 0,
             MaxSends <- 0, MaxRequests <- 0, MaxReverses <- 0,
             numero <- SeenRegistry, demandes <- SeenRequests,
             otp <- [n \in Numbers |-> [sent |-> 0, attempts |-> 0,
                                        consumed |-> FALSE, expires |-> 0]],
             reverses <- [v \in {} |-> None], calls <- None, purge <- None,
             owed <- {}, now <- 0, sends <- 0

\* Every request as a creation inserts it, and the registry as it was.
SeenInit ==
    /\ SeenRegistry = RegistrySeen
    /\ \A r \in Requests :
          SeenRequests[r] = Seen!Demande(Portfolio[r].type, Portfolio[r].source,
                                         Portfolio[r].recipient, Portfolio[r].msisdn,
                                         Retained(r), Portfolio[r].excluded, NoGhosts)

\* A purge whose listing and whose statements nothing separates.
SeenPurge(op) ==
    LET ids == Seen!RequestIDsToPurge(op) IN
    Seen!PurgeTestData(op, ids, Seen!NumbersToRestore(ids))

SeenStep == Seen!Outcome \/ \E op \in Purgers : SeenPurge(op)

IsAnOutcome == SeenInit /\ [][SeenStep]_<<SeenRegistry, SeenRequests>>

\* A row is its fields.
RowsOf(p, S, A, F, M) ==
    [type : {p.type}, status : S, source : {p.source}, recipient : {p.recipient},
     msisdn : {p.msisdn}, active : A, fleet : F, moved : M, ghosts : {NoGhosts}]

LEMMA RowIsItsFields ==
    ASSUME NEW p, NEW S, NEW A, NEW F, NEW M, NEW row \in RowsOf(p, S, A, F, M)
    PROVE  row = RowOf(p, row.status, row.active, row.fleet, row.moved)
<1>1. RowOf(p, row.status, row.active, row.fleet, row.moved) \in RowsOf(p, S, A, F, M)
  BY DEF RowsOf, RowOf
<1> QED BY <1>1 DEF RowsOf, RowOf

\* The rows that Intake's outcomes write.
AsMoved(row) == [row EXCEPT !.moved = TRUE]
Without(row, drop) == [row EXCEPT !.active = @ \ drop]

\* A row that has moved.
LEMMA MovedRow ==
    ASSUME NEW p, NEW status, NEW active, NEW fleet, NEW moved, NEW row,
           row = RowOf(p, status, active, fleet, moved)
    PROVE  AsMoved(row) = RowOf(p, status, active, fleet, TRUE)
<1> DEFINE S == {status}
           A == {active}
           F == {fleet}
           M == {moved, TRUE}
<1>1. /\ row \in RowsOf(p, S, A, F, M) /\ row.status = status
      /\ row.active = active /\ row.fleet = fleet /\ row.moved = moved
  BY DEF RowsOf, RowOf
<1>2. /\ AsMoved(row) \in RowsOf(p, S, A, F, M)
      /\ AsMoved(row).status = status /\ AsMoved(row).active = active
      /\ AsMoved(row).fleet = fleet /\ AsMoved(row).moved = TRUE
  BY <1>1 DEF RowsOf, AsMoved
<1> HIDE DEF S, A, F, M
<1> QED BY <1>2, RowIsItsFields

\* A row that retains fewer numbers.
LEMMA ReducedRow ==
    ASSUME NEW p, NEW status, NEW active, NEW fleet, NEW moved, NEW row, NEW drop,
           row = RowOf(p, status, active, fleet, moved)
    PROVE  Without(row, drop) = RowOf(p, status, active \ drop, fleet, moved)
<1> DEFINE S == {status}
           A == {active, active \ drop}
           F == {fleet}
           M == {moved}
<1>1. /\ row \in RowsOf(p, S, A, F, M) /\ row.status = status
      /\ row.active = active /\ row.fleet = fleet /\ row.moved = moved
  BY DEF RowsOf, RowOf
<1>2. /\ Without(row, drop) \in RowsOf(p, S, A, F, M)
      /\ Without(row, drop).status = status /\ Without(row, drop).active = active \ drop
      /\ Without(row, drop).fleet = fleet /\ Without(row, drop).moved = moved
  BY <1>1 DEF RowsOf, Without
<1> HIDE DEF S, A, F, M
<1> QED BY <1>2, RowIsItsFields

\* The row of a request that has ended.
LEMMA EndedRow ==
    ASSUME NEW p, NEW status, NEW active, NEW fleet, NEW moved, NEW row,
           row = RowOf(p, status, active, fleet, moved)
    PROVE  Seen!Ended(row) = RowOf(p, "ENDED", {}, fleet, moved)
<1> DEFINE S == {status, "ENDED"}
           A == {active, {}}
           F == {fleet}
           M == {moved}
<1>1. /\ row \in RowsOf(p, S, A, F, M) /\ row.status = status
      /\ row.active = active /\ row.fleet = fleet /\ row.moved = moved
  BY DEF RowsOf, RowOf
<1>2. /\ Seen!Ended(row) \in RowsOf(p, S, A, F, M)
      /\ Seen!Ended(row).status = "ENDED" /\ Seen!Ended(row).active = {}
      /\ Seen!Ended(row).fleet = fleet /\ Seen!Ended(row).moved = moved
  BY <1>1 DEF RowsOf, Seen!Ended
<1> HIDE DEF S, A, F, M
<1> QED BY <1>2, RowIsItsFields

\* The row of a request that has been purged.
LEMMA AbsentRow ==
    ASSUME NEW p, NEW status, NEW active, NEW fleet, NEW moved
    PROVE  Seen!Absent(RowOf(p, status, active, fleet, moved))
             = RowOf(p, "ABSENT", {}, {}, FALSE)
<1> PICK row : row = RowOf(p, status, active, fleet, moved)
  OBVIOUS
<1> DEFINE S == {status, "ABSENT"}
           A == {active, {}}
           F == {fleet, {}}
           M == {moved, FALSE}
<1>1. /\ row \in RowsOf(p, S, A, F, M) /\ row.status = status
      /\ row.active = active /\ row.fleet = fleet /\ row.moved = moved
  BY DEF RowsOf, RowOf
<1>g. Seen!Ghosts(Seen!NoRead, 0, 0, 0) = NoGhosts
  BY DEF Seen!Ghosts, Seen!NoRead, NoGhosts
<1>2. /\ Seen!Absent(row) \in RowsOf(p, S, A, F, M)
      /\ Seen!Absent(row).status = "ABSENT" /\ Seen!Absent(row).active = {}
      /\ Seen!Absent(row).fleet = {} /\ Seen!Absent(row).moved = FALSE
  BY <1>1, <1>g DEF RowsOf, Seen!Absent
<1> HIDE DEF S, A, F, M
<1> QED BY <1>2, RowIsItsFields

\* What is seen of a request after a step, from what is seen of it before.
LEMMA SeenRowNext ==
    ASSUME NEW r, NEW status, NEW active, NEW fleet, NEW moved,
           SeenStatus(r)' = status, SeenActive(r)' = active,
           SeenFleet(r)' = fleet, SeenMoved(r)' = moved
    PROVE  SeenRow(r)' = RowOf(Portfolio[r], status, active, fleet, moved)
BY DEF SeenRow, RowOf

\* What is seen of a request, from its parts.
LEMMA SeenRowNow ==
    ASSUME NEW r
    PROVE  SeenRow(r) = RowOf(Portfolio[r], SeenStatus(r), SeenActive(r), SeenFleet(r),
                              SeenMoved(r))
BY DEF SeenRow

\* A request that has been purged, from what was seen of it.
LEMMA AbsentSeen ==
    ASSUME NEW r
    PROVE  Seen!Absent(SeenRow(r)) = RowOf(Portfolio[r], "ABSENT", {}, {}, FALSE)
BY SeenRowNow, AbsentRow

\* The fields of a row, as they are seen.
LEMMA SeenFields ==
    ASSUME NEW r
    PROVE  /\ SeenRow(r).type = Portfolio[r].type
           /\ SeenRow(r).status = SeenStatus(r)
           /\ SeenRow(r).source = Portfolio[r].source
           /\ SeenRow(r).recipient = Portfolio[r].recipient
           /\ SeenRow(r).msisdn = Portfolio[r].msisdn
           /\ SeenRow(r).active = SeenActive(r)
           /\ SeenRow(r).fleet = SeenFleet(r)
           /\ SeenRow(r).moved = SeenMoved(r)
BY DEF SeenRow, RowOf

\* What Intake sees of a request is its status, its active numbers and
\* whether it has moved.
LEMMA SeenRowKept ==
    ASSUME NEW r \in Requests, InProgress(r)' <=> InProgress(r),
           Present(r)' <=> Present(r), HasMoved(r)' <=> HasMoved(r),
           InProgress(r) => ActiveNumbers(r)' = ActiveNumbers(r)
    PROVE  SeenRow(r)' = SeenRow(r)
<1>1. /\ SeenStatus(r)' = SeenStatus(r) /\ SeenActive(r)' = SeenActive(r)
      /\ SeenFleet(r)' = SeenFleet(r) /\ SeenMoved(r)' = SeenMoved(r)
  BY DEF SeenStatus, SeenActive, SeenFleet, SeenMoved
<1> QED BY <1>1 DEF SeenRow

\* Where rows of the tables are left alone, so is what is seen of them.
LEMMA SeenRowUntouched ==
    ASSUME NEW r \in Requests, demande'[r].status = demande[r].status,
           rejected'[r] = rejected[r], closings'[r] = closings[r]
    PROVE  SeenRow(r)' = SeenRow(r)
<1>1. /\ InProgress(r)' <=> InProgress(r)
      /\ Present(r)' <=> Present(r)
  BY DEF InProgress, Present
<1>2. ActiveNumbers(r)' = ActiveNumbers(r)
  BY <1>1 DEF ActiveNumbers
<1>3. HasMoved(r)' <=> HasMoved(r)
  BY DEF HasMoved, ClosedSteps
<1> QED BY <1>1, <1>2, <1>3, SeenRowKept

\* A step that touches one request changes what is seen of that one.
LEMMA OneRowSeen ==
    ASSUME NEW r \in Requests, NEW row, SeenRow(r)' = row,
           \A q \in Requests \ {r} : SeenRow(q)' = SeenRow(q)
    PROVE  SeenRequests' = [SeenRequests EXCEPT ![r] = row]
BY DEF SeenRequests

\* What is seen of the registry changes with it alone.
LEMMA SeenRegistryKept == UNCHANGED numero => UNCHANGED SeenRegistry
BY DEF SeenRegistry, SeenNumber

\* A PORTAGE has moved at COMPLETION, and not yet at ACTIVATION.
LEMMA MovedWhenDue ==
    ASSUME TypeOK, ClosedOnceInOrder, NEW r \in Requests, InProgress(r),
           Portfolio[r].type = "PORTAGE"
    PROVE  /\ demande[r].step = "COMPLETION" => HasMoved(r)
           /\ demande[r].step = "ACTIVATION" => ~ HasMoved(r)
<1> DEFINE n == Len(closings[r])
<1>1. Rank(FirstStep(r)) = 1
  BY RankOfStep DEF FirstStep
<1>2. /\ \A i \in 1..n : Rank(closings[r][i].step) = i
      /\ n = Rank(demande[r].step) - 1
  <2>1. /\ \A i \in 1..n : Rank(closings[r][i].step) = 1 + i - 1
        /\ n = Rank(demande[r].step) - 1
    BY <1>1 DEF ClosedOnceInOrder, InProgress, Present
  <2> QED BY <2>1
<1>3. closings[r] \in Seq(Closing)
  BY DEF TypeOK, StoreTypeOK
<1>4. CASE demande[r].step = "COMPLETION"
  <2>1. n = 4 /\ 3 \in 1..n
    BY <1>2, <1>4, RankOfStep
  <2>2. Rank(closings[r][3].step) = 3
    BY <1>2, <2>1
  <2>3. closings[r][3].step \in Steps
    <3>1. \A i \in 1..n : closings[r][i] \in Closing
      BY <1>3
    <3> QED BY <2>1, <3>1 DEF Closing
  <2>4. closings[r][3].step = "ACTIVATION"
    BY <2>2, <2>3, RankOfStep, StepsAre
  <2>5. "ACTIVATION" \in ClosedSteps(r)
    BY <2>1, <2>4 DEF ClosedSteps
  <2> QED BY <1>4, <2>5 DEF HasMoved
<1>5. CASE demande[r].step = "ACTIVATION"
  <2>1. n = 2
    BY <1>2, <1>5, RankOfStep
  <2>2. \A i \in 1..n : Rank(closings[r][i].step) # 3
    BY <1>2, <2>1
  <2>3. "ACTIVATION" \notin ClosedSteps(r)
    BY <2>2, RankOfStep DEF ClosedSteps
  <2> QED BY <1>5, <2>3 DEF HasMoved
<1> QED BY <1>4, <1>5

\* The calls that reject, mark or cancel are not about a REVERSE, which is
\* never at ACCEPTATION.
WithdrawPoints == {"reject", "rejectUpdate", "fleet", "fleetCommit", "cancel",
                   "cancelUpdate"}

Accepted(k) ==
    k.pc \in WithdrawPoints => k.req \in Requests /\ Portfolio[k.req].type # "REVERSE"

CallsAboutAccepted == \A c \in Calls : Accepted(calls[c])

\* At ACCEPTATION a request in progress is not a REVERSE.
LEMMA ReversesSkipAcceptation ==
    ASSUME TypeOK, ClosedOnceInOrder, NEW r \in Requests, InProgress(r),
           demande[r].step = "ACCEPTATION"
    PROVE  Portfolio[r].type # "REVERSE"
<1> SUFFICES ASSUME Portfolio[r].type = "REVERSE" PROVE FALSE
  OBVIOUS
<1>1. Rank(FirstStep(r)) = 4 /\ Rank(demande[r].step) = 1
  BY RankOfStep DEF FirstStep
<1>2. Len(closings[r]) = 1 - 4
  BY <1>1, RankOfStep DEF ClosedOnceInOrder, InProgress, Present
<1>3. Len(closings[r]) \in Nat
  BY DEF TypeOK, StoreTypeOK
<1> QED BY <1>2, <1>3

\* No step makes a call that would reject or cancel a REVERSE.
LEMMA CallsAboutAcceptedKept ==
    ASSUME TypeOK, ClosedOnceInOrder, CallsAboutAccepted, [Next]_vars
    PROVE  CallsAboutAccepted'
<1>1. CASE UNCHANGED calls
  BY <1>1 DEF CallsAboutAccepted, Accepted
<1>2. ASSUME NEW c \in Calls, NEW k, calls' = [calls EXCEPT ![c] = k], Moves(c, k)
      PROVE  CallsAboutAccepted'
  <2>1. Accepted(k)
    <3>1. CASE Resting(k)
      BY <3>1 DEF Resting, Accepted, WithdrawPoints
    <3>2. ASSUME NEW op \in Operators, NEW r \in Requests, Begins(k, op, r)
          PROVE  Accepted(k)
      <4>1. k.pc \in WithdrawPoints => k.req = r /\ InProgress(r)
                                       /\ demande[r].step = "ACCEPTATION"
        BY <3>2 DEF Begins, WithdrawPoints, CanAccept, CanCancel, InProgress
      <4> QED BY <4>1, ReversesSkipAcceptation DEF Accepted
    <3>3. CASE Proceeds(c, k)
      BY <3>3 DEF Proceeds, At, Accepted, CallsAboutAccepted, WithdrawPoints
    <3> QED BY <1>2, <3>1, <3>2, <3>3 DEF Moves
  <2>2. \A d \in Calls : calls'[d] \in {k, calls[d]}
    BY <1>2 DEF TypeOK
  <2> QED BY <2>1, <2>2 DEF CallsAboutAccepted, Accepted
<1> QED BY <1>1, <1>2, CallsMove

\* Closing a step is the transfer or the end of its request, or not seen.
LEMMA ClosingSeen ==
    ASSUME TypeOK, ClosedOnceInOrder, NEW r \in Requests, NEW origin \in Origins,
           Closes(r, origin)
    PROVE  Seen!Outcome \/ UNCHANGED <<SeenRegistry, SeenRequests>>
<1>0. /\ demande \in [Requests -> DemandeRow]
      /\ rejected' = rejected /\ InProgress(r) /\ Present(r)
      /\ SeenRequests[r] = SeenRow(r) /\ r \in Seen!Ids
      /\ numero \in [Numbers -> [holder : Operators, dated : BOOLEAN,
                                 restituted : BOOLEAN]]
  BY DEF TypeOK, StoreTypeOK, Closes, InProgress, Present, SeenRequests, Seen!Ids
<1>1. /\ ClosedSteps(r)' = ClosedSteps(r) \cup {demande[r].step}
      /\ \A q \in Requests \ {r} : closings'[q] = closings[q]
  BY ClosedStepsGrow DEF Closes, TypeOK
<1>2. \A q \in Requests \ {r} : demande'[q].status = demande[q].status
  BY <1>0 DEF Closes, EndRequest, CompleteRequest, LeaveActivation, LeaveOtherStep,
              AdvanceStep
<1>3. \A q \in Requests \ {r} : SeenRow(q)' = SeenRow(q)
  BY <1>0, <1>1, <1>2, SeenRowUntouched
<1>4. ASSUME NEW row, SeenRow(r)' = row
      PROVE  SeenRequests' = [SeenRequests EXCEPT ![r] = row]
  BY <1>3, <1>4, OneRowSeen
<1>5. SeenRow(r).type = Portfolio[r].type /\ SeenRow(r).status = "EN_COURS"
      /\ SeenRow(r).active = ActiveNumbers(r)
      /\ SeenRow(r).recipient = Portfolio[r].recipient
      /\ SeenRow(r).msisdn = Portfolio[r].msisdn
      /\ (SeenRow(r).moved <=> HasMoved(r))
  BY <1>0, SeenFields DEF SeenStatus, SeenActive, SeenMoved
<1>6. ASSUME EndRequest(r, origin)
      PROVE  Seen!Outcome
  <2>1. /\ ~ InProgress(r)' /\ Present(r)' /\ HasMoved(r)'
    BY <1>0, <1>1, <1>6, MovedWhenDue
       DEF EndRequest, CompleteRequest, InProgress, Present, HasMoved
  <2>2. SeenRow(r)' = AsMoved(Seen!Ended(SeenRow(r)))
    <3>1. /\ SeenStatus(r)' = "ENDED" /\ SeenActive(r)' = {}
          /\ SeenFleet(r)' = SeenFleet(r) /\ SeenMoved(r)' = TRUE
      BY <1>0, <2>1 DEF SeenStatus, SeenActive, SeenFleet, SeenMoved
    <3>2. SeenRow(r)' = RowOf(Portfolio[r], "ENDED", {}, SeenFleet(r), TRUE)
      BY <3>1, SeenRowNext, Zenon
    <3>3. Seen!Ended(SeenRow(r))
            = RowOf(Portfolio[r], "ENDED", {}, SeenFleet(r), SeenMoved(r))
      BY SeenRowNow, EndedRow
    <3>4. AsMoved(Seen!Ended(SeenRow(r)))
            = RowOf(Portfolio[r], "ENDED", {}, SeenFleet(r), TRUE)
      BY <3>3, MovedRow, Zenon
    <3> QED BY <3>2, <3>4
  <2>3. SeenRequests' = [SeenRequests EXCEPT
                            ![r] = [Seen!Ended(SeenRow(r)) EXCEPT !.moved = TRUE]]
    BY <1>4, <2>2 DEF AsMoved
  <2>4. Portfolio[r].type = "PORTAGE" => HasMoved(r)
    BY <1>0, <1>6, MovedWhenDue DEF EndRequest
  <2>5. SeenRegistry' = IF Portfolio[r].type = "PORTAGE" THEN SeenRegistry
                        ELSE [SeenRegistry EXCEPT
                                ![Portfolio[r].msisdn] =
                                    [holder |-> Portfolio[r].recipient, date |-> 0,
                                     restituted |-> TRUE]]
    <3>1. CASE Portfolio[r].type = "PORTAGE"
      BY <1>6, <3>1, SeenRegistryKept DEF EndRequest
    <3>2. CASE Portfolio[r].type # "PORTAGE"
      <4>1. numero' = [numero EXCEPT ![Portfolio[r].msisdn] =
                          [holder |-> Portfolio[r].recipient, dated |-> TRUE,
                           restituted |-> TRUE]]
        BY <1>6, <3>2 DEF EndRequest, ApplyEndOfRequestRestitution, RegistryEntry
      <4>2. \A n \in Numbers : SeenNumber(n)' =
                IF n = Portfolio[r].msisdn
                THEN [holder |-> Portfolio[r].recipient, date |-> 0, restituted |-> TRUE]
                ELSE SeenNumber(n)
        BY <1>0, <4>1 DEF SeenNumber
      <4> QED BY <3>2, <4>2 DEF SeenRegistry
    <3> QED BY <3>1, <3>2
  <2>6. Seen!EndOfRequest(r)
    BY <1>0, <1>5, <2>3, <2>4, <2>5 DEF Seen!EndOfRequest, Seen!InProgress
  <2> QED BY <1>0, <2>6 DEF Seen!Outcome
<1>7. ASSUME LeaveActivation(r)
      PROVE  Seen!Outcome
  <2>1. /\ InProgress(r)' /\ Present(r)' /\ HasMoved(r)' /\ ~ HasMoved(r)
        /\ Portfolio[r].type = "PORTAGE"
    BY <1>0, <1>1, <1>7, MovedWhenDue
       DEF LeaveActivation, AdvanceStep, InProgress, Present, HasMoved
  <2>2. ActiveNumbers(r)' = ActiveNumbers(r)
    BY <1>0, <2>1 DEF ActiveNumbers
  <2>3. SeenRow(r)' = AsMoved(SeenRow(r))
    <3>1. /\ SeenStatus(r)' = SeenStatus(r) /\ SeenActive(r)' = SeenActive(r)
          /\ SeenFleet(r)' = SeenFleet(r) /\ SeenMoved(r)' = TRUE
      BY <1>0, <2>1, <2>2 DEF SeenStatus, SeenActive, SeenFleet, SeenMoved
    <3>2. SeenRow(r)' = RowOf(Portfolio[r], SeenStatus(r), SeenActive(r), SeenFleet(r),
                              TRUE)
      BY <3>1, SeenRowNext, Zenon
    <3>3. AsMoved(SeenRow(r)) = RowOf(Portfolio[r], SeenStatus(r), SeenActive(r),
                                      SeenFleet(r), TRUE)
      BY SeenRowNow, MovedRow, Zenon
    <3> QED BY <3>2, <3>3
  <2>4. SeenRequests' = [SeenRequests EXCEPT ![r] = [SeenRow(r) EXCEPT !.moved = TRUE]]
    BY <1>4, <2>3 DEF AsMoved
  <2>5. SeenRegistry' = [n \in Numbers |->
                            IF n \in ActiveNumbers(r)
                            THEN [SeenRegistry[n] EXCEPT !.holder = Portfolio[r].recipient,
                                                         !.date = 0]
                            ELSE SeenRegistry[n]]
    <3>1. \A n \in Numbers : SeenNumber(n)' =
              IF n \in ActiveNumbers(r)
              THEN [SeenNumber(n) EXCEPT !.holder = Portfolio[r].recipient, !.date = 0]
              ELSE SeenNumber(n)
      BY <1>0, <1>7 DEF LeaveActivation, TransferToRegistry, RegistryEntry, SeenNumber
    <3> QED BY <3>1 DEF SeenRegistry
  <2>6. Seen!TransferToRegistry(r)
    BY <1>0, <1>5, <2>1, <2>4, <2>5 DEF Seen!TransferToRegistry, Seen!InProgress
  <2> QED BY <1>0, <2>6 DEF Seen!Outcome
<1>8. ASSUME LeaveOtherStep(r)
      PROVE  UNCHANGED <<SeenRegistry, SeenRequests>>
  <2>1. /\ InProgress(r)' /\ Present(r)' /\ (HasMoved(r)' <=> HasMoved(r))
    BY <1>0, <1>1, <1>8
       DEF LeaveOtherStep, AdvanceStep, InProgress, Present, HasMoved
  <2>2. ActiveNumbers(r)' = ActiveNumbers(r)
    BY <1>0, <2>1 DEF ActiveNumbers
  <2>3. SeenRow(r)' = SeenRow(r)
    BY <1>0, <2>1, <2>2, SeenRowKept
  <2> QED BY <1>3, <1>8, <2>3, SeenRegistryKept DEF LeaveOtherStep, SeenRequests
<1> QED BY <1>6, <1>7, <1>8 DEF Closes

\* Rejecting or cancelling a request withdraws it, or is not seen.
LEMMA WithdrawalSeen ==
    ASSUME TypeOK, CallsAboutAccepted, NEW c \in Calls, Rejected(c) \/ Cancelled(c)
    PROVE  Seen!Outcome \/ UNCHANGED <<SeenRegistry, SeenRequests>>
<1>0. /\ demande \in [Requests -> DemandeRow]
      /\ rejected \in [Requests -> SUBSET Numbers]
  BY DEF TypeOK, StoreTypeOK
<1>1. calls[c].req \in Requests /\ Portfolio[calls[c].req].type # "REVERSE"
      /\ calls[c].step # None
  BY CallFields, StoreAssumption
     DEF CallsAboutAccepted, Accepted, WithdrawPoints, Rejected, Cancelled, At
<1> PICK r \in Requests : r = calls[c].req
  BY <1>1
<1>2. /\ Present(r) /\ Present(r)' /\ ~ InProgress(r)'
      /\ \A q \in Requests \ {r} : /\ demande'[q].status = demande[q].status
                                   /\ rejected'[q] = rejected[q]
      /\ UNCHANGED <<closings, numero>>
  <2>1. CASE Rejected(c)
    BY <1>0, <2>1 DEF Rejected, RejectRow, Present, InProgress
  <2>2. CASE Cancelled(c)
    <3>1. Present(r)
      BY <1>1, <2>2 DEF Cancelled, StepSeen
    <3> QED BY <1>0, <2>2, <3>1 DEF Cancelled, CancelRow, Present, InProgress
  <2> QED BY <2>1, <2>2
<1>3. \A q \in Requests \ {r} : SeenRow(q)' = SeenRow(q)
  BY <1>2, SeenRowUntouched
<1>4. HasMoved(r)' <=> HasMoved(r)
  BY <1>2 DEF HasMoved, ClosedSteps
<1>5. UNCHANGED SeenRegistry
  BY <1>2, SeenRegistryKept
<1>6. CASE InProgress(r)
  <2>1. SeenRow(r)' = Seen!Ended(SeenRow(r))
    <3>1. /\ SeenStatus(r)' = "ENDED" /\ SeenActive(r)' = {}
          /\ SeenFleet(r)' = SeenFleet(r) /\ SeenMoved(r)' = SeenMoved(r)
      BY <1>2, <1>4 DEF SeenStatus, SeenActive, SeenFleet, SeenMoved
    <3> QED BY <3>1, EndedRow, SeenRowNext, SeenRowNow
  <2>2. SeenRequests' = [SeenRequests EXCEPT ![r] = Seen!Ended(SeenRow(r))]
    BY <1>3, <2>1, OneRowSeen
  <2>3. SeenRequests[r] = SeenRow(r) /\ r \in Seen!Ids
    BY DEF SeenRequests, Seen!Ids
  <2>4. SeenRow(r).type # "REVERSE" /\ SeenRow(r).status = "EN_COURS"
    BY <1>1, <1>6, SeenFields DEF SeenStatus
  <2>5. Seen!Withdraw(r)
    BY <1>5, <2>2, <2>3, <2>4 DEF Seen!Withdraw, Seen!InProgress, SeenRequests
  <2> QED BY <2>3, <2>5 DEF Seen!Outcome
<1>7. CASE ~ InProgress(r)
  <2>1. SeenRow(r)' = SeenRow(r)
    BY <1>2, <1>4, <1>7, SeenRowKept
  <2> QED BY <1>3, <1>5, <2>1 DEF SeenRequests
<1> QED BY <1>6, <1>7

\* Marking numbers rejects those that were active, or is not seen.
LEMMA MarkingSeen ==
    ASSUME TypeOK, CallsAboutAccepted, NEW c \in Calls, Marked(c)
    PROVE  Seen!Outcome \/ UNCHANGED <<SeenRegistry, SeenRequests>>
<1>0. rejected \in [Requests -> SUBSET Numbers]
  BY DEF TypeOK, StoreTypeOK
<1>1. calls[c].req \in Requests /\ Portfolio[calls[c].req].type # "REVERSE"
  BY CallFields DEF CallsAboutAccepted, Accepted, WithdrawPoints, Marked, At
<1> PICK r \in Requests : r = calls[c].req
  BY <1>1
<1> DEFINE drop == ActiveNumbers(r) \cap calls[c].drop
<1>2. /\ Present(r) /\ rejected' = [rejected EXCEPT ![r] = @ \cup calls[c].drop]
      /\ UNCHANGED <<demande, closings, numero>>
  BY DEF Marked, MarkNumbers, historyVars
<1>3. \A q \in Requests \ {r} : SeenRow(q)' = SeenRow(q)
  BY <1>0, <1>2, SeenRowUntouched
<1>4. /\ HasMoved(r)' <=> HasMoved(r)
      /\ InProgress(r)' <=> InProgress(r)
      /\ Present(r)' <=> Present(r)
  BY <1>2 DEF HasMoved, ClosedSteps, InProgress, Present
<1>5. UNCHANGED SeenRegistry
  BY <1>2, SeenRegistryKept
<1>6. ActiveNumbers(r)' = ActiveNumbers(r) \ drop
  BY <1>0, <1>2, <1>4 DEF ActiveNumbers
<1>7. CASE InProgress(r) /\ drop # {}
  <2>1. SeenRow(r).type # "REVERSE" /\ SeenRow(r).status = "EN_COURS"
        /\ SeenRow(r).active = ActiveNumbers(r)
    BY <1>1, <1>7, SeenFields DEF SeenStatus, SeenActive
  <2>2. SeenRow(r)' = Without(SeenRow(r), drop)
    <3>1. /\ SeenStatus(r)' = SeenStatus(r) /\ SeenActive(r)' = SeenActive(r) \ drop
          /\ SeenFleet(r)' = SeenFleet(r) /\ SeenMoved(r)' = SeenMoved(r)
      BY <1>4, <1>6, <1>7 DEF SeenStatus, SeenActive, SeenFleet, SeenMoved
    <3> HIDE DEF drop
    <3> QED BY <3>1, ReducedRow, SeenRowNext, SeenRowNow
  <2>3. SeenRequests' = [SeenRequests EXCEPT ![r] = [SeenRow(r) EXCEPT !.active = @ \ drop]]
    BY <1>3, <2>2, OneRowSeen DEF Without
  <2>4. SeenRequests[r] = SeenRow(r) /\ r \in Seen!Ids
    BY DEF SeenRequests, Seen!Ids
  <2>5. drop \in (SUBSET SeenRow(r).active) \ {{}}
    BY <1>7, <2>1
  <2> HIDE DEF drop
  <2>6. SeenRequests' = [SeenRequests EXCEPT ![r].active = @ \ drop]
    BY <2>3, <2>4
  <2>7. Seen!RejectNumbers(r, drop)
    BY <1>5, <2>1, <2>4, <2>6 DEF Seen!RejectNumbers, Seen!InProgress
  <2> QED BY <2>4, <2>5, <2>7 DEF Seen!Outcome
<1>8. CASE ~ InProgress(r) \/ drop = {}
  <2>1. SeenRow(r)' = SeenRow(r)
    BY <1>4, <1>6, <1>8, SeenRowKept
  <2> QED BY <1>3, <1>5, <2>1 DEF SeenRequests
<1> QED BY <1>7, <1>8

\* A purge is the purge that Intake commits, on what it lists at that instant.
LEMMA PurgeSeen ==
    ASSUME TypeOK, NEW op \in Purgers, PurgeTestData(op)
    PROVE  SeenPurge(op)
<1> DEFINE ids == CreatedBy(op)
           numbers == UNION {Portfolio[r].fleet \cup {Portfolio[r].msisdn} : r \in ids}
<1>1. Seen!RequestIDsToPurge(op) = ids
  <2>1. \A r \in Requests : /\ SeenRequests[r].recipient = Portfolio[r].creator
                            /\ SeenRequests[r].status # "ABSENT" <=> Present(r)
    BY CreationAssumption, SeenFields DEF SeenRequests, SeenStatus, InProgress, Present
  <2>2. DOMAIN SeenRequests = Requests
    BY DEF SeenRequests
  <2> QED BY <2>1, <2>2 DEF CreatedBy, Seen!RequestIDsToPurge, Seen!Ids, Seen!Present
<1>2. Seen!NumbersToRestore(ids) = numbers
  <2>1. \A r \in ids : /\ SeenRequests[r].msisdn = Portfolio[r].msisdn
                       /\ SeenRequests[r].fleet = Portfolio[r].fleet
    BY SeenFields DEF SeenRequests, SeenFleet, CreatedBy
  <2> HIDE DEF ids
  <2>2. \A n : n \in Seen!NumbersToRestore(ids)
                <=> \E r \in ids : n = Portfolio[r].msisdn \/ n \in Portfolio[r].fleet
    BY <2>1 DEF Seen!NumbersToRestore
  <2>3. \A n : n \in numbers
                <=> \E r \in ids : n = Portfolio[r].msisdn \/ n \in Portfolio[r].fleet
    OBVIOUS
  <2> HIDE DEF numbers
  <2> QED BY <2>2, <2>3
<1>3. Seen!DeleteReverseRequests(op, ids)
  BY DEF Seen!DeleteReverseRequests, Seen!ReverseIds
<1>4. Seen!DeleteOTP(numbers)
  BY DEF Seen!DeleteOTP, Seen!NoPassword, Seen!Password
<1>5. Seen!DeleteRequests(ids)
  <2>1. ASSUME NEW r \in Requests, r \in ids
        PROVE  SeenRow(r)' = Seen!Absent(SeenRow(r))
    <3>1. ~ Present(r)' /\ ~ InProgress(r)'
      BY <2>1 DEF PurgeTestData, PurgedRow, Create, Present, InProgress
    <3>2. /\ SeenStatus(r)' = "ABSENT" /\ SeenActive(r)' = {}
          /\ SeenFleet(r)' = {} /\ SeenMoved(r)' = FALSE
      BY <3>1 DEF SeenStatus, SeenActive, SeenFleet, SeenMoved
    <3>3. SeenRow(r)' = RowOf(Portfolio[r], "ABSENT", {}, {}, FALSE)
      BY <3>2, SeenRowNext, Zenon
    <3> QED BY <3>3, AbsentSeen
  <2>2. ASSUME NEW r \in Requests, r \notin ids
        PROVE  SeenRow(r)' = SeenRow(r)
    <3>1. /\ demande'[r] = demande[r] /\ rejected'[r] = rejected[r]
          /\ closings'[r] = closings[r]
      BY <2>2 DEF PurgeTestData
    <3> QED BY <3>1, SeenRowUntouched
  <2> HIDE DEF ids
  <2> QED BY <2>1, <2>2 DEF Seen!DeleteRequests, Seen!Ids, SeenRequests
<1>6. Seen!RestoreNumbers(numbers)
  BY DEF PurgeTestData, RegistryEntry, Seen!RestoreNumbers, SeenRegistry, SeenNumber,
         OriginOf
<1> QED BY <1>1, <1>2, <1>3, <1>4, <1>5, <1>6 DEF SeenPurge, Seen!PurgeTestData

\* Every step of the workflow is an outcome, a purge, or not seen.
LEMMA WorkflowStepsSeen ==
    ASSUME TypeOK, ClosedOnceInOrder, CallsAboutAccepted, [Next]_vars
    PROVE  SeenStep \/ UNCHANGED <<SeenRegistry, SeenRequests>>
<1>0. demande \in [Requests -> DemandeRow]
  BY DEF TypeOK, StoreTypeOK
<1>1. ASSUME \A r \in Requests : demande'[r].status = demande[r].status,
             UNCHANGED <<rejected, closings, numero>>
      PROVE  UNCHANGED <<SeenRegistry, SeenRequests>>
  <2>1. \A r \in Requests : SeenRow(r)' = SeenRow(r)
    BY <1>1, SeenRowUntouched
  <2> QED BY <1>1, <2>1, SeenRegistryKept DEF SeenRequests
<1>2. CASE TablesKept
  BY <1>1, <1>2 DEF TablesKept
<1>3. ASSUME NEW r \in Requests, NEW p \in Pendings, PendingSet(r, p)
      PROVE  UNCHANGED <<SeenRegistry, SeenRequests>>
  <2>1. \A q \in Requests : demande'[q].status = demande[q].status
    BY <1>0, <1>3 DEF PendingSet, DemandeRow
  <2> QED BY <1>1, <1>3, <2>1 DEF PendingSet
<1>4. ASSUME NEW c \in Calls, HasConfirmed(c)
      PROVE  UNCHANGED <<SeenRegistry, SeenRequests>>
  BY <1>1, <1>4 DEF HasConfirmed, InsertConfirmation, historyVars
<1> QED BY <1>2, <1>3, <1>4, NextTables, ClosingSeen, WithdrawalSeen, MarkingSeen, PurgeSeen
        DEF TableEffect, CallWrites, SeenStep

\* Requests are created as Intake inserts them.
LEMMA InitSeen == Init => SeenInit /\ CallsAboutAccepted
<1> SUFFICES ASSUME Init PROVE SeenInit /\ CallsAboutAccepted
  OBVIOUS
<1>1. SeenRegistry = RegistrySeen
  BY DEF Init, StoreInit, RegistryEntry, SeenRegistry, SeenNumber, RegistrySeen
<1>2. ASSUME NEW r \in Requests
      PROVE  SeenRequests[r] = Seen!Demande(Portfolio[r].type, Portfolio[r].source,
                                            Portfolio[r].recipient, Portfolio[r].msisdn,
                                            Retained(r), Portfolio[r].excluded, NoGhosts)
  <2>1. /\ InProgress(r) /\ Present(r) /\ closings[r] = <<>>
        /\ rejected[r] = Portfolio[r].excluded
    BY DEF Init, StoreInit, Create, InProgress, Present
  <2>2. ~ HasMoved(r)
    BY <2>1 DEF HasMoved, ClosedSteps
  <2>3. Portfolio[r].fleet = Retained(r) \cup Portfolio[r].excluded
    BY CreationAssumption DEF Retained
  <2>4. ActiveNumbers(r) = Retained(r)
    BY <2>1 DEF ActiveNumbers, Retained
  <2>5. SeenRow(r) = Seen!Demande(Portfolio[r].type, Portfolio[r].source,
                                  Portfolio[r].recipient, Portfolio[r].msisdn,
                                  Retained(r), Portfolio[r].excluded, NoGhosts)
    BY <2>1, <2>2, <2>3, <2>4 DEF SeenRow, RowOf, SeenStatus, SeenActive, SeenFleet,
                                  SeenMoved, Seen!Demande
  <2> QED BY <2>5 DEF SeenRequests
<1>3. CallsAboutAccepted
  BY DEF Init, CallsAboutAccepted, Accepted, WithdrawPoints, Idle, Call
<1> QED BY <1>1, <1>2, <1>3 DEF SeenInit

\* Intake is right about what becomes of requests: whatever calls, ticks,
\* faults and purges interleave, late rejections included, a step of the
\* workflow is one of its outcomes, or its purge, or nothing it sees.
THEOREM WorkflowGivesTheOutcomes == Spec => IsAnOutcome
<1>1. TypeOK /\ ClosedOnceInOrder /\ CallsAboutAccepted /\ [Next]_vars
         => CallsAboutAccepted' /\ [SeenStep]_<<SeenRegistry, SeenRequests>>
  BY WorkflowStepsSeen, CallsAboutAcceptedKept
<1> QED BY <1>1, InitSeen, TypeCorrect, StepsCloseOnceInOrder, PTL DEF Spec, IsAnOutcome

===================================================================================
