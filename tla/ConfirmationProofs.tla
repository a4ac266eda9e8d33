---------------------------- MODULE ConfirmationProofs ----------------------------
(***************************************************************************)
(* Proofs about whose turn it is: the queues agree with the guards, a      *)
(* REVERSE waits for everyone, and no request in progress is forgotten.    *)
(***************************************************************************)
EXTENDS RegistryProofs, Views, FiniteSetTheorems

-----------------------------------------------------------------------------
(***************************************************************************)
(* The queues, by their names, and the owners of the steps.                *)
(***************************************************************************)
\* A list read as the operator's own client reads it, its source included.
LEMMA QueueOf ==
    ASSUME NEW op
    PROVE  /\ Queue("mes-demandes", op, FALSE) = Own(op)
           /\ Queue("a-accepter", op, FALSE) = ToAccept(op)
           /\ Queue("a-traiter", op, FALSE) = ToProcess(op)
           /\ Queue("a-confirmer", op, FALSE) = ToConfirm(op)
           /\ Queue("deja-confirmees", op, FALSE)
                 = {r \in Requests : op \in confirmed[r]}
           /\ Queue("in", op, FALSE) = Incoming(op)
           /\ Queue("out", op, FALSE) = Outgoing(op)
<1>1. AlreadyConfirmed(op, FALSE) = {r \in Requests : op \in confirmed[r]}
  BY Zenon DEF AlreadyConfirmed
<1>2. Queue("deja-confirmees", op, FALSE) = AlreadyConfirmed(op, FALSE)
  BY DEF Queue
<1> QED BY <1>1, <1>2 DEF Queue

\* Who closes each step: the ARTP closes the COMPLETION of a REVERSE.
LEMMA OwnerOfStep ==
    ASSUME NEW type
    PROVE  /\ StepOwner("ACCEPTATION", type) = "SOURCE"
           /\ StepOwner("DESACTIVATION", type) = "SOURCE"
           /\ StepOwner("ACTIVATION", type) = "RECIPIENT"
           /\ StepOwner("CONFIRMATION", type) = "ALL"
           /\ type # "REVERSE" => StepOwner("COMPLETION", type) = "RECIPIENT"
           /\ type = "REVERSE" => StepOwner("COMPLETION", type) = "ARTP"
BY DEF StepOwner

\* A request in progress that its owner may process is in that owner's queue.
LEMMA ProcessableIsQueued ==
    ASSUME TypeOK, NEW r \in Requests, NEW op,
           CanProcess(Portfolio[r], demande[r], op)
    PROVE  r \in ToProcess(op)
<1>1. /\ demande[r].step \in {"DESACTIVATION", "ACTIVATION", "COMPLETION"}
      /\ InProgress(r)
  BY StepsAre DEF TypeOK, StoreTypeOK, DemandeRow, CanProcess, InProgress
<1>2. CASE demande[r].step = "DESACTIVATION"
  BY <1>1, <1>2, OwnerOfStep DEF CanProcess, ToProcess
<1>3. CASE demande[r].step = "ACTIVATION"
  BY <1>1, <1>3, OwnerOfStep DEF CanProcess, ToProcess
<1>4. CASE demande[r].step = "COMPLETION"
  <2>1. Portfolio[r].type # "REVERSE"
    BY <1>4, OwnerOfStep DEF CanProcess
  <2> QED BY <1>1, <1>4, <2>1, OwnerOfStep DEF CanProcess, ToProcess
<1> QED BY <1>1, <1>2, <1>3, <1>4

\* What a guard lets an operator do, that operator's queue shows.
LEMMA GuardsAreQueued == TypeOK => QueuesCoverGuards
<1> SUFFICES ASSUME TypeOK, NEW r \in Requests, NEW op \in Operators
             PROVE  /\ CanAccept(Portfolio[r], demande[r], op) =>
                          Detail("a-accepter", op, r)
                    /\ CanProcess(Portfolio[r], demande[r], op) =>
                          Detail("a-traiter", op, r)
                    /\ CanConfirm(Portfolio[r], demande[r], op, Operators) =>
                          \/ Detail("a-confirmer", op, r)
                          \/ Detail("deja-confirmees", op, r)
  BY DEF QueuesCoverGuards
<1>1. InProgress(r) => Present(r)
  BY DEF InProgress, Present
<1>2. CanAccept(Portfolio[r], demande[r], op) => Detail("a-accepter", op, r)
  BY <1>1, QueueOf DEF CanAccept, Detail, ToAccept, InProgress
<1>3. CanProcess(Portfolio[r], demande[r], op) => Detail("a-traiter", op, r)
  BY <1>1, QueueOf, ProcessableIsQueued DEF CanProcess, Detail, InProgress
<1>4. ASSUME CanConfirm(Portfolio[r], demande[r], op, Operators)
      PROVE  Detail("a-confirmer", op, r) \/ Detail("deja-confirmees", op, r)
  BY <1>1, <1>4, QueueOf
     DEF CanConfirm, Detail, ToConfirm, InProgress
<1> QED BY <1>2, <1>3, <1>4

\* In every reachable state the SQL of the queues shows an operator what the
\* Go guards let it do.
THEOREM QueuesAgreeWithGuards == Spec => []QueuesCoverGuards
BY GuardsAreQueued, TypeCorrect, PTL

\* A PORTAGE's client is shown to its two operators, and by the queue of what
\* an operator has confirmed; the queue of what it is to confirm hides it.
LEMMA ClientIsKnownLate == ClientAfterConfirming
<1> SUFFICES ASSUME NEW r \in Requests, NEW op \in Operators,
                    NEW name \in QueueNames,
                    r \in DOMAIN Shown(name, op, FALSE),
                    "client" \in Shown(name, op, FALSE)[r]
             PROVE  \/ op \in {Portfolio[r].source, Portfolio[r].recipient}
                    \/ op \in confirmed[r]
  BY DEF ClientAfterConfirming
<1>1. r \in Queue(name, op, FALSE) /\ "client" \in Rendered(name, r)
  <2>1. DOMAIN Shown(name, op, FALSE) \subseteq Queue(name, op, FALSE)
    BY DEF Shown
  <2>2. Shown(name, op, FALSE)[r] = Rendered(name, r)
    BY DEF Shown
  <2> QED BY <2>1, <2>2
<1>2. name # "a-confirmer"
  BY <1>1 DEF Rendered, SansClient
<1>3. name \in {"mes-demandes", "a-accepter", "a-traiter", "deja-confirmees",
                "in", "out"}
  BY <1>2 DEF QueueNames
<1>4. /\ r \in Own(op) => op \in {Portfolio[r].source, Portfolio[r].recipient}
      /\ r \in ToAccept(op) => op = Portfolio[r].source
      /\ r \in ToProcess(op) => op \in {Portfolio[r].source, Portfolio[r].recipient}
      /\ r \in Incoming(op) => op = Portfolio[r].recipient
      /\ r \in Outgoing(op) => op = Portfolio[r].source
  BY DEF Own, ToAccept, ToProcess, Incoming, Outgoing
<1>5. CASE name # "deja-confirmees"
  <2>1. \/ r \in Own(op) \/ r \in ToAccept(op) \/ r \in ToProcess(op)
        \/ r \in Incoming(op) \/ r \in Outgoing(op)
    BY <1>1, <1>3, <1>5, QueueOf
  <2> QED BY <1>4, <2>1
<1>6. CASE name = "deja-confirmees"
  BY <1>1, <1>6, QueueOf
<1> QED BY <1>5, <1>6

\* No queue names a porting's client to an operator before it has confirmed,
\* unless the porting is its own.
THEOREM ConfirmingComesBeforeKnowing == Spec => []ClientAfterConfirming
BY ClientIsKnownLate, PTL

-----------------------------------------------------------------------------
(***************************************************************************)
(* Confirmations are counted once CONFIRMATION is reached, by the          *)
(* operators awaited and by no other, and a REVERSE leaves CONFIRMATION by *)
(* an action only when the whole market has confirmed.  The invariant      *)
(* follows that last fact through whoever may carry it: a call that has    *)
(* counted, the transition it scheduled, the engine that listed it.        *)
(***************************************************************************)
Awaited(r) == ExpectedConfirmers(Portfolio[r], Operators)

IsReverse(r) == Portfolio[r].type = "REVERSE"

Late(r) == demande[r].step \in {"CONFIRMATION", "COMPLETION"}

Everyone(r) == confirmed[r] = Operators

AwaitedCall(k) ==
    k.pc \in {"confirm", "count"} =>
        k.op \in Awaited(k.req) /\ (Present(k.req) => Late(k.req))

ReverseCall(k) ==
    ~ Resting(k) /\ IsReverse(k.req) =>
        /\ k.pc \in {"confirm", "count", "schedule"}
        /\ k.pc = "schedule" /\ Present(k.req) => Everyone(k.req)

ConfirmedByAwaited(r) ==
    Present(r) => /\ confirmed[r] \subseteq Awaited(r)
                  /\ confirmed[r] # {} => Late(r)

LeavesByEveryone(r) ==
    IsReverse(r) /\ Present(r) =>
        /\ Late(r)
        /\ demande[r].pending # "none" => Everyone(r)
        /\ \A i \in 1..Len(closings[r]) :
              closings[r][i] = [step |-> "CONFIRMATION", origin |-> "ACTION"]
                  => Everyone(r)

OwedByEveryone(r) ==
    IsReverse(r) /\ InProgress(r) /\ engine.owed[r] > 0 /\ engine.pc # "expiring" =>
        demande[r].step = "COMPLETION" \/ Everyone(r)

ConfirmationInv ==
    /\ \A r \in Requests : /\ LeavesNoRow(r)
                           /\ ConfirmedByAwaited(r)
                           /\ LeavesByEveryone(r)
                           /\ OwedByEveryone(r)
    /\ \A c \in Calls : AwaitedCall(calls[c]) /\ ReverseCall(calls[c])

\* A REVERSE awaits the whole market; nobody else's operators are too many.
LEMMA AwaitedAreOperators ==
    ASSUME NEW r \in Requests
    PROVE  /\ Awaited(r) \subseteq Operators
           /\ IsReverse(r) => Awaited(r) = Operators
BY DEF Awaited, IsReverse, ExpectedConfirmers

\* As many operators as there are, are all of them.
LEMMA AllCounted ==
    ASSUME TypeOK, NEW r \in Requests,
           Cardinality(confirmed[r]) >= Cardinality(Operators)
    PROVE  Everyone(r)
<1>1. confirmed[r] \subseteq Operators /\ IsFiniteSet(Operators)
  BY StoreAssumption DEF TypeOK, StoreTypeOK
<1>2. /\ IsFiniteSet(confirmed[r])
      /\ Cardinality(confirmed[r]) <= Cardinality(Operators)
      /\ Cardinality(confirmed[r]) = Cardinality(Operators) => confirmed[r] = Operators
  BY <1>1, FS_Subset
<1>3. Cardinality(confirmed[r]) \in Nat /\ Cardinality(Operators) \in Nat
  BY <1>1, <1>2, FS_CardinalityType
<1> QED BY <1>2, <1>3 DEF Everyone

\* Past CONFIRMATION there is no way back.
LEMMA LateKept ==
    ASSUME TypeOK, [Next]_vars, NEW r \in Requests, Present(r)', Late(r)
    PROVE  Late(r)'
<1>1. Outcome(r)
  BY StepOutcome
<1>2. NextStep("CONFIRMATION") = "COMPLETION"
  BY RankOfStep DEF NextStep, StepSequence
<1> QED BY <1>1, <1>2
        DEF Outcome, StaysPut, Advances, IsRejected, IsCancelledBy, Late

\* The confirmations of a request are added to, by a call that confirms.
LEMMA ConfirmationsGrow ==
    ASSUME TypeOK, [Next]_vars, NEW r \in Requests, Present(r)'
    PROVE  \/ confirmed'[r] = confirmed[r]
           \/ \E c \in Calls : /\ At(c, "confirm") /\ calls[c].req = r
                               /\ confirmed'[r] = confirmed[r] \cup {calls[c].op}
                               /\ Goto(c, "count")
<1>0. confirmed \in [Requests -> SUBSET Operators]
  BY DEF TypeOK, StoreTypeOK
<1>1. CASE TablesKept
  BY <1>1 DEF TablesKept
<1>2. ASSUME NEW q \in Requests, NEW p, PendingSet(q, p) PROVE UNCHANGED confirmed
  BY <1>2 DEF PendingSet
<1>3. ASSUME NEW q \in Requests, NEW origin, Closes(q, origin)
      PROVE  UNCHANGED confirmed
  BY <1>3 DEF Closes
<1>4. ASSUME NEW c \in Calls, Rejected(c) \/ Cancelled(c) \/ Marked(c)
      PROVE  UNCHANGED confirmed
  BY <1>4 DEF Rejected, RejectRow, Cancelled, CancelRow, Marked, MarkNumbers
<1>5. ASSUME NEW c \in Calls, HasConfirmed(c), calls[c].req = r
      PROVE  /\ At(c, "confirm")
             /\ confirmed'[r] = confirmed[r] \cup {calls[c].op}
             /\ Goto(c, "count")
  BY <1>0, <1>5 DEF HasConfirmed, InsertConfirmation
<1>6. ASSUME NEW c \in Calls, HasConfirmed(c), calls[c].req # r
      PROVE  confirmed'[r] = confirmed[r]
  BY <1>0, <1>6 DEF HasConfirmed, InsertConfirmation
<1>7. ASSUME NEW op \in Purgers, PurgeTestData(op)
      PROVE  confirmed'[r] = confirmed[r]
  <2>1. r \notin CreatedBy(op)
    BY <1>7 DEF PurgeTestData, PurgedRow, Create, Present
  <2> QED BY <1>7, <2>1 DEF PurgeTestData
<1> QED BY <1>1, <1>2, <1>3, <1>4, <1>5, <1>6, <1>7, NextTables
        DEF TableEffect, CallWrites

\* Once everyone has confirmed, everyone has.
LEMMA EveryoneKept ==
    ASSUME TypeOK, TypeOK', [Next]_vars, NEW r \in Requests, Present(r)', Everyone(r)
    PROVE  Everyone(r)'
<1>1. confirmed'[r] \subseteq Operators
  BY DEF TypeOK, StoreTypeOK
<1>2. confirmed[r] \subseteq confirmed'[r]
  BY ConfirmationsGrow
<1> QED BY <1>1, <1>2 DEF Everyone

\* A transition is pending because it was, or because a call asks for it.
LEMMA PendingSince ==
    ASSUME TypeOK, [Next]_vars, NEW r \in Requests, Present(r)',
           demande'[r].pending # "none", demande[r].pending = "none"
    PROVE  IsAsked(r)
<1>0. demande \in [Requests -> DemandeRow]
  BY DEF TypeOK, StoreTypeOK
<1>1. CASE TablesKept
  BY <1>1 DEF TablesKept
<1>2. ASSUME NEW q \in Requests, NEW p \in Pendings, PendingSet(q, p), MayPostpone(q, p)
      PROVE  IsAsked(r)
  <2>1. q = r
    BY <1>0, <1>2 DEF PendingSet, DemandeRow
  <2> QED BY <1>2, <2>1 DEF MayPostpone
<1>3. ASSUME NEW q \in Requests, NEW origin \in Origins, Closes(q, origin)
      PROVE  FALSE
  <2>1. demande'[r].pending \in {"none", demande[r].pending}
    <3>1. CASE q = r
      BY <1>0, <1>3, <3>1
         DEF Closes, EndRequest, CompleteRequest, LeaveActivation,
             LeaveOtherStep, AdvanceStep, DemandeRow
    <3>2. CASE q # r
      BY <1>0, <1>3, <3>2
         DEF Closes, EndRequest, CompleteRequest, LeaveActivation,
             LeaveOtherStep, AdvanceStep, DemandeRow
    <3> QED BY <3>1, <3>2
  <2> QED BY <2>1
<1>4. ASSUME NEW c \in Calls, CallWrites(c) PROVE FALSE
  <2>1. calls[c].req \in Requests
    BY <1>4, CallFields DEF CallWrites, Rejected, Cancelled, Marked, HasConfirmed, At
  <2>2. ASSUME Rejected(c) PROVE demande'[r].pending = demande[r].pending
    BY <1>0, <2>1, <2>2 DEF Rejected, RejectRow, DemandeRow
  <2>3. ASSUME Cancelled(c)
        PROVE  demande'[r].pending \in {"none", demande[r].pending}
    BY <1>0, <2>1, <2>3 DEF Cancelled, CancelRow, DemandeRow
  <2>4. ASSUME Marked(c) \/ HasConfirmed(c) PROVE UNCHANGED demande
    BY <2>4 DEF Marked, MarkNumbers, HasConfirmed, InsertConfirmation
  <2> QED BY <1>4, <2>2, <2>3, <2>4 DEF CallWrites
<1>5. ASSUME NEW op \in Purgers, PurgeTestData(op) PROVE FALSE
  <2>1. r \notin CreatedBy(op)
    BY <1>5 DEF PurgeTestData, PurgedRow, Create, Present
  <2> QED BY <1>5, <2>1 DEF PurgeTestData
<1> QED BY <1>1, <1>2, <1>3, <1>4, <1>5, NextTables DEF TableEffect

\* Only operators awaited confirm, and only once CONFIRMATION is reached.
LEMMA ConfirmedByAwaitedKept ==
    ASSUME TypeOK, ConfirmationInv, [Next]_vars, NEW r \in Requests
    PROVE  ConfirmedByAwaited(r)'
<1> SUFFICES ASSUME Present(r)'
             PROVE  confirmed'[r] \subseteq Awaited(r) /\ (confirmed'[r] # {} => Late(r)')
  BY DEF ConfirmedByAwaited, Awaited
<1>1. Present(r) /\ ConfirmedByAwaited(r)
  BY AbsentStays DEF ConfirmationInv
<1>2. CASE confirmed'[r] = confirmed[r]
  BY <1>1, <1>2, LateKept DEF ConfirmedByAwaited
<1>3. ASSUME NEW c \in Calls, At(c, "confirm"), calls[c].req = r,
             confirmed'[r] = confirmed[r] \cup {calls[c].op}
      PROVE  confirmed'[r] \subseteq Awaited(r) /\ Late(r)'
  <2>1. calls[c].op \in Awaited(r) /\ Late(r)
    BY <1>1, <1>3 DEF ConfirmationInv, AwaitedCall, At
  <2> QED BY <1>1, <1>3, <2>1, LateKept DEF ConfirmedByAwaited
<1> QED BY <1>2, <1>3, ConfirmationsGrow

\* Whoever closes the CONFIRMATION of a REVERSE by an action knows that
\* everyone has confirmed it.
LEMMA ClosedByEveryone ==
    ASSUME TypeOK, ConfirmationInv, NEW r \in Requests, IsReverse(r),
           Closes(r, "ACTION"), MayApply(r, "ACTION"),
           demande[r].step = "CONFIRMATION"
    PROVE  Everyone(r)
<1>1. InProgress(r) /\ Present(r)
  BY DEF Closes, InProgress, Present
<1>2. ASSUME NEW c \in Calls, Asks(c, r) PROVE Everyone(r)
  BY <1>1, <1>2 DEF ConfirmationInv, ReverseCall, Asks, At, Resting
<1>3. ASSUME "ACTION" = TickOrigin, engine.owed[r] > 0 PROVE Everyone(r)
  <2>1. engine.pc # "expiring"
    BY <1>3 DEF TickOrigin
  <2> QED BY <1>1, <1>3, <2>1 DEF ConfirmationInv, OwedByEveryone
<1> QED BY <1>2, <1>3 DEF MayApply, IsAsked

\* A row of a request's history was there before, unless a step was closed.
LEMMA HistoryRows ==
    ASSUME TypeOK, [Next]_vars, NEW r \in Requests, Present(r)'
    PROVE  \/ closings'[r] = closings[r]
           \/ \E origin \in Origins :
                /\ Closes(r, origin) /\ MayApply(r, origin)
                /\ closings'[r] = Append(closings[r],
                                  [step |-> demande[r].step, origin |-> origin])
<1>0. closings \in [Requests -> Seq(Closing)]
  BY DEF TypeOK, StoreTypeOK
<1>1. ASSUME NEW q \in Requests, NEW origin \in Origins, Closes(q, origin)
      PROVE  /\ q # r => closings'[r] = closings[r]
             /\ q = r => closings'[r] = Append(closings[r],
                                  [step |-> demande[r].step, origin |-> origin])
  BY <1>0, <1>1 DEF Closes, CloseCurrentStep
<1>2. CASE TablesKept
  BY <1>2 DEF TablesKept
<1>3. ASSUME NEW q \in Requests, NEW p, PendingSet(q, p) PROVE UNCHANGED closings
  BY <1>3 DEF PendingSet
<1>4. ASSUME NEW c \in Calls, CallWrites(c) PROVE UNCHANGED closings
  BY <1>4 DEF CallWrites, Rejected, RejectRow, Cancelled, CancelRow, Marked,
              MarkNumbers, HasConfirmed, InsertConfirmation, historyVars
<1>5. ASSUME NEW op \in Purgers, PurgeTestData(op) PROVE closings'[r] = closings[r]
  <2>1. r \notin CreatedBy(op)
    BY <1>5 DEF PurgeTestData, PurgedRow, Create, Present
  <2> QED BY <1>5, <2>1 DEF PurgeTestData
<1> QED BY <1>1, <1>2, <1>3, <1>4, <1>5, NextTables DEF TableEffect

\* A REVERSE stays late, and what is pending or closed of it stays everyone's.
LEMMA LeavesByEveryoneKept ==
    ASSUME TypeOK, TypeOK', ConfirmationInv, [Next]_vars, NEW r \in Requests
    PROVE  LeavesByEveryone(r)'
<1> DEFINE leaves == [step |-> "CONFIRMATION", origin |-> "ACTION"]
<1> SUFFICES ASSUME IsReverse(r), Present(r)'
             PROVE  /\ Late(r)'
                    /\ demande'[r].pending # "none" => Everyone(r)'
                    /\ \A i \in 1..Len(closings'[r]) :
                          closings'[r][i] = leaves => Everyone(r)'
  BY DEF LeavesByEveryone, IsReverse
<1>1. Present(r) /\ LeavesByEveryone(r) /\ Late(r)
  BY AbsentStays DEF ConfirmationInv, LeavesByEveryone
<1>2. Late(r)'
  BY <1>1, LateKept
<1>3. Everyone(r) => Everyone(r)'
  BY EveryoneKept
<1>4. ASSUME demande'[r].pending # "none" PROVE Everyone(r)
  <2>1. CASE demande[r].pending # "none"
    BY <1>1, <2>1 DEF LeavesByEveryone
  <2>2. CASE demande[r].pending = "none"
    <3>1. PICK c \in Calls : Asks(c, r)
      BY <1>4, <2>2, PendingSince DEF IsAsked
    <3> QED BY <1>1, <3>1 DEF ConfirmationInv, ReverseCall, Asks, At, Resting
  <2> QED BY <2>1, <2>2
<1>5. ASSUME NEW i \in 1..Len(closings'[r]), closings'[r][i] = leaves
      PROVE  Everyone(r)
  <2>1. CASE closings'[r] = closings[r]
    BY <1>1, <1>5, <2>1 DEF LeavesByEveryone
  <2>2. ASSUME NEW origin \in Origins, Closes(r, origin), MayApply(r, origin),
               closings'[r] = Append(closings[r],
                                 [step |-> demande[r].step, origin |-> origin])
        PROVE  Everyone(r)
    <3> DEFINE row == [step |-> demande[r].step, origin |-> origin]
    <3>1. closings[r] \in Seq(Closing) /\ Len(closings[r]) \in Nat
      BY DEF TypeOK, StoreTypeOK
    <3>2. row = leaves => origin = "ACTION" /\ demande[r].step = "CONFIRMATION"
      OBVIOUS
    <3> HIDE DEF row, leaves
    <3>3. \/ i \in 1..Len(closings[r]) /\ closings[r][i] = leaves
          \/ row = leaves
      BY <1>5, <2>2, <3>1 DEF row
    <3>4. CASE row = leaves
      BY <2>2, <3>2, <3>4, ClosedByEveryone
    <3>5. CASE i \in 1..Len(closings[r]) /\ closings[r][i] = leaves
      BY <1>1, <3>5 DEF LeavesByEveryone, leaves
    <3> QED BY <3>3, <3>4, <3>5
  <2> QED BY <2>1, <2>2, HistoryRows
<1> QED BY <1>2, <1>3, <1>4, <1>5

\* What the engine owes a REVERSE at CONFIRMATION, everyone has confirmed.
LEMMA OwedByEveryoneKept ==
    ASSUME TypeOK, TypeOK', ConfirmationInv, [Next]_vars, NEW r \in Requests
    PROVE  OwedByEveryone(r)'
<1> SUFFICES ASSUME IsReverse(r), InProgress(r)', engine'.owed[r] > 0,
                    engine'.pc # "expiring"
             PROVE  demande'[r].step = "COMPLETION" \/ Everyone(r)'
  BY DEF OwedByEveryone, IsReverse
<1>1. Present(r)' /\ Present(r) /\ Outcome(r)
  BY StepOutcome DEF InProgress, Present
<1>2. Everyone(r) => Everyone(r)'
  BY <1>1, EveryoneKept
<1>3. InProgress(r)
  BY <1>1 DEF Outcome, StaysPut, Advances, IsRejected, IsCancelledBy, InProgress
<1>4. demande[r].step = "COMPLETION" => demande'[r].step = "COMPLETION"
  BY <1>1 DEF Outcome, StaysPut, Advances, IsRejected, IsCancelledBy
<1>5. CASE engine'.pc = engine.pc /\ engine.owed[r] > 0
  BY <1>2, <1>3, <1>4, <1>5 DEF ConfirmationInv, OwedByEveryone
<1>6. CASE r \in DueConvergences
  BY <1>1, <1>2, <1>6 DEF ConfirmationInv, LeavesByEveryone, DueConvergences
<1>7. CASE r \in PendingReverseCompletions
  BY <1>2, <1>4, <1>7, AllCounted DEF PendingReverseCompletions
<1> QED BY <1>5, <1>6, <1>7, EngineOwing DEF Lists

\* What is known of a call that confirms, or that holds a REVERSE, does not
\* become false while it waits.
KnownCall(k) == AwaitedCall(k) /\ ReverseCall(k)

\* What a call knows of the confirmations of its request stays true while the
\* call rests.
LEMMA KnownCallsStay ==
    ASSUME TypeOK, TypeOK', [Next]_vars, NEW k, KnownCall(k),
           Resting(k) \/ k.req \in Requests
    PROVE  KnownCall(k)'
<1>1. CASE Resting(k)
  BY <1>1 DEF Resting, KnownCall, AwaitedCall, ReverseCall
<1>2. CASE k.req \in Requests
  <2>1. Present(k.req)' => Present(k.req)
    BY <1>2, AbsentStays
  <2>2. Present(k.req)' /\ Late(k.req) => Late(k.req)'
    BY <1>2, LateKept
  <2>3. Present(k.req)' /\ Everyone(k.req) => Everyone(k.req)'
    BY <1>2, EveryoneKept
  <2> QED BY <2>1, <2>2, <2>3
          DEF KnownCall, AwaitedCall, ReverseCall, Awaited, IsReverse, Resting
<1> QED BY <1>1, <1>2

\* What a call knows as it begins: a REVERSE is past every step but the two
\* last, and nobody but the engine may process those.
LEMMA BegunCallsKnow ==
    ASSUME TypeOK, ConfirmationInv, NEW k, NEW op \in Operators,
           NEW r \in Requests, Begins(k, op, r)
    PROVE  KnownCall(k)
<1>1. k.req = r /\ k.op = op
  BY DEF Begins
<1>2. ASSUME k.pc \in {"confirm", "count"} PROVE k.op \in Awaited(r) /\ Late(r)
  <2>1. CanConfirm(Portfolio[r], demande[r], op, Operators)
    BY <1>2 DEF Begins
  <2> QED BY <1>1, <2>1 DEF CanConfirm, Awaited, Late
<1>3. ASSUME IsReverse(r) PROVE k.pc = "confirm"
  <2>1. Present(r) => Late(r)
    BY <1>3 DEF ConfirmationInv, LeavesByEveryone
  <2>2. ~ CanAccept(Portfolio[r], demande[r], op)
    BY <2>1 DEF CanAccept, Late, Present
  <2>3. ~ CanCancel(Portfolio[r], demande[r], op)
    BY <2>1 DEF CanCancel, Late, Present
  <2>4. ~ CanProcess(Portfolio[r], demande[r], op)
    <3>1. demande[r].step = "COMPLETION" => StepOwner(demande[r].step, Portfolio[r].type) = "ARTP"
      BY <1>3, OwnerOfStep DEF IsReverse
    <3> QED BY <2>1, <3>1 DEF CanProcess, Late, Present
  <2> QED BY <2>2, <2>3, <2>4 DEF Begins
<1> QED BY <1>1, <1>2, <1>3 DEF KnownCall, AwaitedCall, ReverseCall

\* What a call knows as it proceeds: a count that suffices is everyone.
LEMMA ProceedingCallsKnow ==
    ASSUME TypeOK, ConfirmationInv, NEW c \in Calls, NEW k, Proceeds(c, k)
    PROVE  KnownCall(k) /\ k.req \in Requests
<1>1. KnownCall(calls[c])
  BY DEF ConfirmationInv, KnownCall
<1>2. k.op = calls[c].op /\ k.req = calls[c].req
  BY DEF Proceeds
<1>3. calls[c].pc \notin {"idle", "opened"} /\ k.req \in Requests
  BY <1>2, CallFields DEF Proceeds, At
<1>4. AwaitedCall(k)
  BY <1>1, <1>2 DEF Proceeds, At, KnownCall, AwaitedCall
<1>5. ASSUME IsReverse(k.req) PROVE ReverseCall(k)
  <2>1. calls[c].pc \in {"confirm", "count", "schedule"}
    BY <1>1, <1>2, <1>3, <1>5 DEF KnownCall, ReverseCall, Resting
  <2>2. \/ k.pc = "count"
        \/ k.pc = "schedule" /\ ConfirmersSuffice(k.req)
    BY <2>1 DEF Proceeds, At
  <2>3. ConfirmersSuffice(k.req) => Everyone(k.req)
    BY <1>3, <1>5, AwaitedAreOperators, AllCounted DEF ConfirmersSuffice, Awaited
  <2> QED BY <2>2, <2>3 DEF ReverseCall
<1>6. ~ IsReverse(k.req) => ReverseCall(k)
  BY DEF ReverseCall
<1> QED BY <1>3, <1>4, <1>5, <1>6 DEF KnownCall

\* Every step keeps the invariant of the confirmations.
LEMMA ConfirmationInvKept ==
    ASSUME TypeOK, TypeOK', ConfirmationInv, [Next]_vars
    PROVE  ConfirmationInv'
<1>0. calls \in [Calls -> CallRow]
  BY DEF TypeOK
<1>1. \A r \in Requests : /\ LeavesNoRow(r)'
                          /\ ConfirmedByAwaited(r)'
                          /\ LeavesByEveryone(r)'
                          /\ OwedByEveryone(r)'
  BY NoRowKept, ConfirmedByAwaitedKept, LeavesByEveryoneKept, OwedByEveryoneKept
     DEF ConfirmationInv
<1>2. ASSUME NEW c \in Calls PROVE KnownCall(calls[c])'
  <2>1. KnownCall(calls[c]) /\ (Resting(calls[c]) \/ calls[c].req \in Requests)
    BY CallFields DEF ConfirmationInv, KnownCall, Resting
  <2>2. CASE calls'[c] = calls[c]
    <3> DEFINE k == calls[c]
    <3>1. KnownCall(k) /\ (Resting(k) \/ k.req \in Requests)
      BY <2>1
    <3>2. PICK l : l = k
      OBVIOUS
    <3> HIDE DEF k
    <3>3. KnownCall(l)'
      BY <3>1, <3>2, KnownCallsStay
    <3> QED BY <2>2, <3>2, <3>3 DEF k, KnownCall, AwaitedCall, ReverseCall
  <2>3. ASSUME NEW k, calls' = [calls EXCEPT ![c] = k], Moves(c, k)
        PROVE  KnownCall(calls[c])'
    <3>1. calls'[c] = k
      BY <1>0, <2>3
    <3>2. CASE Resting(k)
      BY <3>1, <3>2 DEF Resting, KnownCall, AwaitedCall, ReverseCall
    <3>3. CASE \E op \in Operators, r \in Requests : Begins(k, op, r)
      <4>1. KnownCall(k) /\ k.req \in Requests
        BY <3>3, BegunCallsKnow DEF Begins
      <4>2. KnownCall(k)'
        BY <4>1, KnownCallsStay
      <4> QED BY <3>1, <4>2 DEF KnownCall, AwaitedCall, ReverseCall
    <3>4. CASE Proceeds(c, k)
      <4>1. KnownCall(k) /\ k.req \in Requests
        BY <3>4, ProceedingCallsKnow
      <4>2. KnownCall(k)'
        BY <4>1, KnownCallsStay
      <4> QED BY <3>1, <4>2 DEF KnownCall, AwaitedCall, ReverseCall
    <3> QED BY <2>3, <3>2, <3>3, <3>4 DEF Moves
  <2> QED BY <1>0, <2>2, <2>3, CallsMove
<1> QED BY <1>1, <1>2 DEF ConfirmationInv, KnownCall

\* Nobody has confirmed anything at first, and no call is under way.
LEMMA ConfirmationInvInit == Init => ConfirmationInv
<1> SUFFICES ASSUME Init PROVE ConfirmationInv
  OBVIOUS
<1>1. ASSUME NEW c \in Calls PROVE AwaitedCall(calls[c]) /\ ReverseCall(calls[c])
  BY DEF Init, Idle, Call, AwaitedCall, ReverseCall, Resting
<1>2. ASSUME NEW r \in Requests
      PROVE  LeavesNoRow(r) /\ ConfirmedByAwaited(r) /\ LeavesByEveryone(r)
             /\ OwedByEveryone(r)
  <2>1. /\ demande[r].status = "EN_COURS" /\ demande[r].pending = "none"
        /\ demande[r].step = FirstStep(r)
        /\ closings[r] = <<>> /\ confirmed[r] = {} /\ engine.owed[r] = 0
    BY DEF Init, StoreInit, Create, NothingOwed
  <2>2. IsReverse(r) => Late(r)
    BY <2>1 DEF IsReverse, Late, FirstStep
  <2> QED BY <2>1, <2>2 DEF LeavesNoRow, ConfirmedByAwaited, LeavesByEveryone,
                            OwedByEveryone, Present
<1> QED BY <1>1, <1>2 DEF ConfirmationInv

\* The inductive invariant of the confirmations.
THEOREM ConfirmationInvariant == Spec => []ConfirmationInv
<1>1. TypeOK /\ TypeOK' /\ ConfirmationInv /\ [Next]_vars => ConfirmationInv'
  BY ConfirmationInvKept
<1> QED BY <1>1, ConfirmationInvInit, TypeCorrect, PTL DEF Spec

\* A REVERSE's CONFIRMATION that was closed by an action was confirmed by the
\* whole market: whichever of the last confirmation and the ARTP's completion
\* closes it, and whatever list or count it works from.
THEOREM ReverseWaitsForEveryone == Spec => []ReverseNeedsEveryone
<1>1. ASSUME ConfirmationInv PROVE ReverseNeedsEveryone
  <2>1. ASSUME NEW r \in Requests, IsReverse(r), NEW i \in 1..Len(closings[r]),
               closings[r][i] = [step |-> "CONFIRMATION", origin |-> "ACTION"]
        PROVE  confirmed[r] = Operators
    <3>1. Present(r)
      BY <1>1, <2>1 DEF ConfirmationInv, LeavesNoRow
    <3> QED BY <1>1, <2>1, <3>1 DEF ConfirmationInv, LeavesByEveryone, Everyone
  <2> QED BY <2>1 DEF ReverseNeedsEveryone, IsReverse
<1> QED BY <1>1, ConfirmationInvariant, PTL

\* While a request awaits confirmations each operator awaited sees it in one
\* of the two queues of the confirmations, and no other operator in either.
THEOREM LedgerIsComplete == Spec => []ConfirmationLedger
<1>1. ASSUME ConfirmationInv PROVE ConfirmationLedger
  <2>1. ASSUME NEW r \in Requests, NEW op \in Operators,
               InProgress(r), demande[r].step = "CONFIRMATION"
        PROVE  /\ Detail("a-confirmer", op, r) <=>
                     op \in Awaited(r) /\ op \notin confirmed[r]
               /\ Detail("deja-confirmees", op, r) <=> op \in confirmed[r]
    BY <2>1, QueueOf DEF Detail, ToConfirm, InProgress, Present, Awaited
  <2>2. ASSUME NEW r \in Requests, InProgress(r)
        PROVE  confirmed[r] \subseteq Awaited(r)
    BY <1>1, <2>2 DEF ConfirmationInv, ConfirmedByAwaited, InProgress, Present
  <2>3. ASSUME NEW r \in Requests, NEW op \in Operators,
               InProgress(r), demande[r].step = "CONFIRMATION"
        PROVE  IF op \in Awaited(r)
               THEN Detail("a-confirmer", op, r) # Detail("deja-confirmees", op, r)
               ELSE ~ Detail("a-confirmer", op, r) /\ ~ Detail("deja-confirmees", op, r)
    BY <2>1, <2>2, <2>3 DEF Detail
  <2> QED BY <2>3 DEF ConfirmationLedger, Awaited
<1> QED BY <1>1, ConfirmationInvariant, PTL

-----------------------------------------------------------------------------
(***************************************************************************)
(* Nobody is forgotten.  A request in progress that everyone awaited has   *)
(* confirmed is in no queue any more: it moves on by the call of the last  *)
(* confirmer, which must then neither lose its count nor be abandoned.     *)
(* Hence the hypotheses: no call is abandoned, and a PORTAGE's source is   *)
(* not its recipient, so that somebody is awaited (the porting eligibility *)
(* refuses a number that is already the recipient's, and one that is not   *)
(* the source's).                                                          *)
(***************************************************************************)
LastConfirmerHolds(r) ==
    ~ IsReverse(r) /\ FullyConfirmed(r) =>
        demande[r].pending # "none" \/ CallHolds(r)

\* A call that has confirmed counts and then schedules, unless it is abandoned.
LEMMA HoldersGoOn ==
    ASSUME TypeOK, MaxFaults = 0, [Next]_vars,
           NEW c \in Calls, calls[c].pc \in {"count", "schedule"}
    PROVE  \/ calls'[c] = calls[c]
           \/ calls'[c].pc = "schedule" /\ calls'[c].req = calls[c].req
           \/ At(c, "count") /\ ~ ConfirmersSuffice(calls[c].req)
           \/ ScheduleTransition(c)
<1>0. calls \in [Calls -> CallRow] /\ faults = 0
  BY DEF TypeOK
<1>1. ASSUME NEW d \in Calls, d # c, NEW k, calls' = [calls EXCEPT ![d] = k]
      PROVE  calls'[c] = calls[c]
  BY <1>0, <1>1
<1>2. ASSUME NEW d \in Calls, d # c,
             Open(d) \/ Decide(d) \/ CallStep(d) \/ Abort(d)
      PROVE  calls'[c] = calls[c]
  <2>1. Open(d) \/ Abort(d) => \E k : calls' = [calls EXCEPT ![d] = k]
    BY DEF Open, Abort, Become
  <2> QED BY <1>1, <1>2, <2>1, DecisionsBegin, CallStepsMove
<1>3. ~ Open(c) /\ ~ Decide(c) /\ ~ Abort(c)
  BY <1>0 DEF Open, Decide, Accept, Reject, AcceptFleet, ProcessStep, Confirm,
              Cancel, Abort, At
<1>4. ASSUME CallStep(c)
      PROVE  CountConfirmations(c) \/ ScheduleTransition(c)
  BY <1>4 DEF CallStep, Refuse, RejectInsert, RejectUpdate, FleetDecide,
              FleetCommit, CancelInsert, CancelUpdate, InsertConfirm, At
<1>5. ASSUME CountConfirmations(c)
      PROVE  \/ calls'[c].pc = "schedule" /\ calls'[c].req = calls[c].req
             \/ At(c, "count") /\ ~ ConfirmersSuffice(calls[c].req)
  <2>1. CASE Goto(c, "schedule")
    BY <1>0, <2>1 DEF Goto, Become, CallRow
  <2>2. CASE Cardinality(confirmed[calls[c].req])
             < Cardinality(ExpectedConfirmers(Portfolio[calls[c].req], Operators))
    <3>1. calls[c].req \in Requests
      BY <1>5, CallFields DEF CountConfirmations, At
    <3>2. /\ IsFiniteSet(confirmed[calls[c].req])
          /\ IsFiniteSet(Awaited(calls[c].req))
      BY <3>1, AwaitedAreOperators, StoreAssumption, FS_Subset
         DEF TypeOK, StoreTypeOK
    <3>3. /\ Cardinality(confirmed[calls[c].req]) \in Nat
          /\ Cardinality(Awaited(calls[c].req)) \in Nat
      BY <3>2, FS_CardinalityType
    <3> QED BY <1>5, <2>2, <3>3 DEF CountConfirmations, ConfirmersSuffice, Awaited
  <2> QED BY <1>5, <2>1, <2>2 DEF CountConfirmations
<1> QED BY <1>2, <1>3, <1>4, <1>5, CallsChangeOneByOne

\* Somebody is awaited.
LEMMA SomebodyAwaited ==
    ASSUME HasTwoParties, NEW r \in Requests
    PROVE  Awaited(r) # {}
<1>1. Portfolio[r].source \in Operators
  BY PortfolioColumns
<1>2. Portfolio[r].source \in Awaited(r)
  BY <1>1 DEF HasTwoParties, Awaited, ExpectedConfirmers
<1> QED BY <1>2

\* The count of a request that everyone awaited has confirmed suffices.
LEMMA FullCountSuffices ==
    ASSUME TypeOK, NEW r \in Requests, Awaited(r) \subseteq confirmed[r]
    PROVE  ConfirmersSuffice(r)
<1>1. IsFiniteSet(confirmed[r])
  BY StoreAssumption, FS_Subset DEF TypeOK, StoreTypeOK
<1>2. IsFiniteSet(Awaited(r)) /\ Cardinality(Awaited(r)) <= Cardinality(confirmed[r])
  BY <1>1, FS_Subset
<1>3. Cardinality(confirmed[r]) \in Nat /\ Cardinality(Awaited(r)) \in Nat
  BY <1>1, <1>2, FS_CardinalityType
<1> QED BY <1>2, <1>3 DEF ConfirmersSuffice, Awaited

\* No step leaves a request, its last confirmer's count and the transition
\* apart.
LEMMA LastConfirmerKept ==
    ASSUME TypeOK, TypeOK', ConfirmationInv, [Next]_vars, MaxFaults = 0,
           HasTwoParties, NEW r \in Requests, LastConfirmerHolds(r)
    PROVE  LastConfirmerHolds(r)'
<1> SUFFICES ASSUME ~ IsReverse(r), FullyConfirmed(r)', demande'[r].pending = "none"
             PROVE  CallHolds(r)'
  BY DEF LastConfirmerHolds, IsReverse
<1>0. calls \in [Calls -> CallRow] /\ demande[r].step \in Steps
  BY DEF TypeOK, StoreTypeOK, DemandeRow
<1>1. /\ InProgress(r)' /\ Present(r)' /\ Present(r) /\ Outcome(r)
      /\ demande'[r].step = "CONFIRMATION"
      /\ Awaited(r) \subseteq confirmed'[r]
  BY StepOutcome DEF FullyConfirmed, InProgress, Present, Awaited
<1>2. InProgress(r)
  BY <1>1 DEF Outcome, StaysPut, Advances, IsRejected, IsCancelledBy, InProgress
<1>3. CASE ~ Late(r)
  <2>1. confirmed[r] = {}
    BY <1>1, <1>3 DEF ConfirmationInv, ConfirmedByAwaited
  <2>2. confirmed'[r] # {}
    BY <1>1, SomebodyAwaited
  <2>3. PICK c \in Calls : At(c, "confirm") /\ calls[c].req = r
    BY <1>1, <2>1, <2>2, ConfirmationsGrow
  <2>4. Late(r)
    BY <1>1, <2>3 DEF ConfirmationInv, AwaitedCall, At
  <2> QED BY <1>3, <2>4
<1>4. CASE Late(r)
  <2>1. demande[r].step = "CONFIRMATION"
    BY <1>1, <1>4 DEF Late, Outcome, StaysPut, Advances, IsRejected, IsCancelledBy
  <2>2. ASSUME NEW c \in Calls, calls[c].req = r, Goto(c, "count")
        PROVE  CallHolds(r)'
    <3>1. calls'[c].pc = "count" /\ calls'[c].req = r
      BY <1>0, <2>2 DEF Goto, Become, CallRow
    <3> QED BY <3>1 DEF CallHolds
  <2>3. CASE confirmed'[r] = confirmed[r]
    <3>1. FullyConfirmed(r)
      BY <1>1, <1>2, <2>1, <2>3 DEF FullyConfirmed, Awaited
    <3>2. demande[r].pending = "none"
      BY <1>1, <2>1, PendingLasts
    <3>3. PICK c \in Calls : calls[c].req = r /\ calls[c].pc \in {"count", "schedule"}
      BY <3>1, <3>2 DEF LastConfirmerHolds, CallHolds
    <3>4. ConfirmersSuffice(r)
      BY <1>1, <2>3, FullCountSuffices
    <3>5. CASE calls'[c].req = r /\ calls'[c].pc \in {"count", "schedule"}
      BY <3>5 DEF CallHolds
    <3>6. ASSUME ScheduleTransition(c) PROVE FALSE
      <4>1. CASE Deferred
        <5>1. demande' = [demande EXCEPT ![r].pending = "scheduled"]
          BY <1>1, <3>3, <3>6, <4>1 DEF ScheduleTransition, ScheduleTransitionAt
        <5>2. demande'[r].pending = "scheduled"
          BY <5>1 DEF TypeOK, StoreTypeOK, DemandeRow
        <5> QED BY <5>2
      <4>2. CASE ~ Deferred
        <5>1. Closes(r, "ACTION")
          BY <1>2, <3>3, <3>6, <4>2 DEF ScheduleTransition, ApplyTransition, Closes
        <5>2. demande'[r].step = NextStep(demande[r].step)
              /\ demande[r].step # "COMPLETION"
          BY <1>1, <5>1, ClosingLeaves DEF Origins
        <5> QED BY <1>0, <1>1, <2>1, <5>2, NextStepDiffers
      <4> QED BY <4>1, <4>2
    <3> QED BY <3>3, <3>4, <3>5, <3>6, HoldersGoOn
  <2> QED BY <1>1, <2>2, <2>3, ConfirmationsGrow
<1> QED BY <1>3, <1>4

\* Whose turn it is: a request in progress is in somebody's queue, or the
\* engine's, or in the hands of its last confirmer.
LEMMA TurnsCovered ==
    ASSUME TypeOK, ConfirmationInv, NEW r \in Requests, LastConfirmerHolds(r),
           InProgress(r)
    PROVE  SomeoneIsAsked(r) \/ EngineOwes(r) \/ CallHolds(r)
<1>0. /\ Portfolio[r].source \in Operators /\ Portfolio[r].recipient \in Operators
      /\ demande[r].step \in Steps
  BY PortfolioColumns DEF TypeOK, StoreTypeOK, DemandeRow
<1>1. CASE demande[r].step \in {"ACCEPTATION", "DESACTIVATION"}
  <2>1. r \in ToProcess(Portfolio[r].source)
    BY <1>1 DEF ToProcess
  <2> QED BY <1>0, <2>1 DEF SomeoneIsAsked
<1>2. CASE \/ demande[r].step = "ACTIVATION"
           \/ demande[r].step = "COMPLETION" /\ ~ IsReverse(r)
  <2>1. r \in ToProcess(Portfolio[r].recipient)
    BY <1>2 DEF ToProcess, IsReverse
  <2> QED BY <1>0, <2>1 DEF SomeoneIsAsked
<1>3. CASE demande[r].step = "COMPLETION" /\ IsReverse(r)
  BY <1>3 DEF EngineOwes, PendingReverseCompletions, IsReverse
<1>4. CASE demande[r].step = "CONFIRMATION"
  <2>1. CASE \E op \in Awaited(r) : op \notin confirmed[r]
    <3>1. PICK op \in Awaited(r) : op \notin confirmed[r]
      BY <2>1
    <3>2. op \in Operators /\ r \in ToConfirm(op)
      BY <1>4, <3>1, AwaitedAreOperators DEF ToConfirm, Awaited
    <3> QED BY <3>2 DEF SomeoneIsAsked
  <2>2. CASE Awaited(r) \subseteq confirmed[r] /\ IsReverse(r)
    <3>1. Cardinality(confirmed[r]) >= Cardinality(Operators)
      BY <2>2, AwaitedAreOperators, FullCountSuffices
         DEF ConfirmersSuffice, Awaited
    <3> QED BY <1>4, <2>2, <3>1 DEF EngineOwes, PendingReverseCompletions, IsReverse
  <2>3. CASE Awaited(r) \subseteq confirmed[r] /\ ~ IsReverse(r)
    BY <1>4, <2>3 DEF LastConfirmerHolds, FullyConfirmed, Awaited, EngineOwes
  <2> QED BY <2>1, <2>2, <2>3
<1> QED BY <1>0, <1>1, <1>2, <1>3, <1>4, StepsAre

\* As long as no call is abandoned, a request in progress is always somebody's
\* to move: an operator's, by a queue it reads, the engine's, or a call's that
\* is about to schedule it.
THEOREM SomebodyAlwaysMoves ==
    ASSUME MaxFaults = 0, HasTwoParties
    PROVE  Spec => []NobodyForgotten
<1> DEFINE Held == \A r \in Requests : LastConfirmerHolds(r)
<1>1. Init => Held
  <2> SUFFICES ASSUME Init, NEW r \in Requests, ~ IsReverse(r)
               PROVE  demande[r].step = "ACCEPTATION"
    BY DEF LastConfirmerHolds, FullyConfirmed
  <2> QED BY DEF Init, StoreInit, Create, FirstStep, IsReverse
<1>2. TypeOK /\ TypeOK' /\ ConfirmationInv /\ Held /\ [Next]_vars => Held'
  BY LastConfirmerKept
<1>3. TypeOK /\ ConfirmationInv /\ Held => NobodyForgotten
  BY TurnsCovered DEF NobodyForgotten
<1> HIDE DEF Held
<1> QED BY <1>1, <1>2, <1>3, ConfirmationInvariant, TypeCorrect, PTL DEF Spec

===================================================================================
