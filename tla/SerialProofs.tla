------------------------------- MODULE SerialProofs -------------------------------
(***************************************************************************)
(* Proofs about decisions that do not compete: of the calls in flight one  *)
(* at most has read a given request at ACCEPTATION, to accept, reject or   *)
(* cancel it.  It competes with convergences, time, incidents and purges,  *)
(* and with whatever calls do to other requests or at later steps.  A      *)
(* fleet then keeps a number; and where the engine does not expire what a  *)
(* call rejects or takes in part, a request lives the life it promises and *)
(* the transfer leaves a rejected number where it was.                     *)
(***************************************************************************)
EXTENDS RegistryProofs

DecisionsApart ==
    \A c, d \in Calls :
        /\ calls[c].req = calls[d].req
        /\ calls[c].step = "ACCEPTATION"
        /\ calls[d].step = "ACCEPTATION"
        => c = d

OneCallAtATime == \A c, d \in Calls : c = d

\* One call at a time is the plainest way not to compete.
LEMMA OneCallIsApart == OneCallAtATime => DecisionsApart
    BY DEF OneCallAtATime, DecisionsApart

\* A call keeps still, comes to rest, begins or proceeds.
LEMMA ACallMoves ==
    ASSUME TypeOK, [Next]_vars, NEW c \in Calls, NEW k, k = calls'[c]
    PROVE  k = calls[c] \/ Moves(c, k)
<1>0. calls \in [Calls -> CallRow]
  BY DEF TypeOK
<1>1. ASSUME NEW d \in Calls, NEW l, calls' = [calls EXCEPT ![d] = l], Moves(d, l)
      PROVE  k = calls[c] \/ Moves(c, k)
  <2>1. CASE d = c
    <3>1. l = k
      BY <1>0, <1>1, <2>1
    <3> QED BY <1>1, <2>1, <3>1
  <2>2. CASE d # c
    BY <1>0, <1>1, <2>2
  <2> QED BY <2>1, <2>2
<1> QED BY <1>1, CallsMove

-----------------------------------------------------------------------------
(***************************************************************************)
(* A decision is taken on a request read at ACCEPTATION, and whoever is at *)
(* work on a request that is there had read it there: no step leads back.  *)
(***************************************************************************)
DecidesOn(k) == k.pc \in {"reject", "rejectUpdate", "fleet", "fleetCommit"}

Withdraws(k) == k.pc \in {"cancel", "cancelUpdate"}

ReadThere(k) ==
    /\ DecidesOn(k) \/ Withdraws(k) => k.step = "ACCEPTATION"
    /\ k.pc \notin {"idle", "opened"} /\ StepSeen(k.req) = "ACCEPTATION" =>
          k.step = "ACCEPTATION"

ReadingInv == \A c \in Calls : ReadThere(calls[c])

\* A call begins on the step it reads.
LEMMA BegunReadThere ==
    ASSUME TypeOK, NEW k, NEW op \in Operators, NEW r \in Requests, Begins(k, op, r)
    PROVE  ReadThere(k)
<1>1. k.req = r /\ k.step = demande[r].step
  BY DEF Begins
<1>2. DecidesOn(k) \/ Withdraws(k) => k.step = "ACCEPTATION"
  BY <1>1 DEF DecidesOn, Withdraws, Begins, CanAccept, CanCancel
<1>3. StepSeen(r) = "ACCEPTATION" => demande[r].step = "ACCEPTATION"
  BY StoreAssumption, StepsAre DEF StepSeen
<1> QED BY <1>1, <1>2, <1>3 DEF ReadThere

\* A call that proceeds holds the step it read.
LEMMA ProceedsReadThere ==
    ASSUME NEW c \in Calls, ReadThere(calls[c]), NEW k, Proceeds(c, k)
    PROVE  ReadThere(k)
<1>1. k.req = calls[c].req /\ k.step = calls[c].step
  BY DEF Proceeds
<1>2. calls[c].pc \notin {"idle", "opened"}
  BY DEF Proceeds, At
<1>3. DecidesOn(k) \/ Withdraws(k) => DecidesOn(calls[c]) \/ Withdraws(calls[c])
  BY DEF Proceeds, At, DecidesOn, Withdraws
<1> QED BY <1>1, <1>2, <1>3 DEF ReadThere

\* The first step is left for good: what was read elsewhere is not there again.
LEMMA ReadThereLasts ==
    ASSUME TypeOK, [Next]_vars, NEW c \in Calls, NEW k, ReadThere(k),
           k.pc \notin {"idle", "opened"} => k.req \in Requests
    PROVE  /\ DecidesOn(k) \/ Withdraws(k) => k.step = "ACCEPTATION"
           /\ k.pc \notin {"idle", "opened"} /\ StepSeen(k.req)' = "ACCEPTATION" =>
                 k.step = "ACCEPTATION"
BY FirstStepIsLeftForGood DEF ReadThere

\* Every step keeps what the calls in flight have read.
LEMMA ReadingInvKept ==
    ASSUME TypeOK, ReadingInv, [Next]_vars
    PROVE  ReadingInv'
<1> SUFFICES ASSUME NEW c \in Calls PROVE ReadThere(calls[c])'
  BY DEF ReadingInv
<1> PICK k : k = calls'[c]
  OBVIOUS
<1>1. CASE k = calls[c]
  <2>1. ReadThere(k) /\ (k.pc \notin {"idle", "opened"} => k.req \in Requests)
    BY <1>1, CallFields DEF ReadingInv
  <2> QED BY <2>1, ReadThereLasts DEF ReadThere, DecidesOn, Withdraws
<1>2. CASE Resting(k)
  BY <1>2 DEF Resting, ReadThere, DecidesOn, Withdraws
<1>3. CASE UNCHANGED store /\ \E op \in Operators, r \in Requests : Begins(k, op, r)
  <2>1. ReadThere(k) /\ UNCHANGED demande
    BY <1>3, BegunReadThere DEF store
  <2> QED BY <2>1 DEF ReadThere, DecidesOn, Withdraws, StepSeen, Present
<1>4. CASE Proceeds(c, k)
  <2>1. calls[c].pc \notin {"idle", "opened"}
    BY <1>4 DEF Proceeds, At
  <2>2. ReadThere(k) /\ k.req \in Requests
    BY <1>4, <2>1, CallFields, ProceedsReadThere DEF ReadingInv, Proceeds
  <2> QED BY <2>2, ReadThereLasts DEF ReadThere, DecidesOn, Withdraws
<1> QED BY <1>1, <1>2, <1>3, <1>4, ACallMoves DEF Moves

\* Calls in flight have read what they work on.
LEMMA CallsHaveRead == Spec => []ReadingInv
<1>1. Init => ReadingInv
  BY DEF Init, Idle, Call, ReadingInv, ReadThere, DecidesOn, Withdraws
<1>2. TypeOK /\ ReadingInv /\ [Next]_vars => ReadingInv'
  BY ReadingInvKept
<1> QED BY <1>1, <1>2, TypeCorrect, PTL DEF Spec

-----------------------------------------------------------------------------
(***************************************************************************)
(* A fleet in progress keeps a number that was not rejected.  Between the  *)
(* decision of a fleet acceptance and its commit, that one is left.        *)
(***************************************************************************)
LeavesANumber(k) ==
    k.pc = "fleetCommit" /\ InProgress(k.req) =>
        ActiveNumbers(k.req) \ k.drop # {}

FleetInv ==
    /\ \A c \in Calls : LeavesANumber(calls[c])
    /\ NoEmptyFleetInProgress

\* A request in progress was in progress before.
LEMMA WasInProgress ==
    ASSUME TypeOK, [Next]_vars, NEW r \in Requests, InProgress(r)'
    PROVE  InProgress(r) /\ Present(r) /\ Present(r)'
<1>1. Present(r)'
  BY DEF InProgress, Present
<1>2. Present(r) /\ Outcome(r)
  BY <1>1, StepOutcome
<1> QED BY <1>1, <1>2 DEF Outcome, StaysPut, Advances, IsRejected,
                          IsCancelledBy, InProgress

\* The numbers of a request that stays in progress are rejected by the commit
\* of a fleet acceptance and by nothing else.
LEMMA OnlyCommitsReject ==
    ASSUME TypeOK, [Next]_vars, NEW r \in Requests, InProgress(r)'
    PROVE  \/ rejected'[r] = rejected[r]
           \/ \E c \in Calls : Marked(c) /\ calls[c].req = r
<1>0. /\ demande \in [Requests -> DemandeRow]
      /\ rejected \in [Requests -> SUBSET Numbers]
  BY DEF TypeOK, StoreTypeOK
<1>1. CASE TablesKept
  BY <1>1 DEF TablesKept
<1>2. ASSUME NEW q \in Requests, NEW p, PendingSet(q, p) PROVE UNCHANGED rejected
  BY <1>2 DEF PendingSet
<1>3. ASSUME NEW q \in Requests, NEW origin, Closes(q, origin) PROVE UNCHANGED rejected
  BY <1>3 DEF Closes
<1>4. ASSUME NEW c \in Calls, Rejected(c) PROVE rejected'[r] = rejected[r]
  <2>1. calls[c].req \in Requests
    BY <1>4, CallFields DEF Rejected, At
  <2>2. calls[c].req # r
    BY <1>0, <1>4, <2>1 DEF Rejected, RejectRow, DemandeRow, InProgress
  <2> QED BY <1>0, <1>4, <2>1, <2>2 DEF Rejected, RejectRow
<1>5. ASSUME NEW c \in Calls, Cancelled(c) \/ HasConfirmed(c)
      PROVE  UNCHANGED rejected
  BY <1>5 DEF Cancelled, CancelRow, HasConfirmed, InsertConfirmation
<1>6. ASSUME NEW c \in Calls, Marked(c), calls[c].req # r
      PROVE  rejected'[r] = rejected[r]
  BY <1>0, <1>6 DEF Marked, MarkNumbers
<1>7. ASSUME NEW op \in Purgers, PurgeTestData(op)
      PROVE  rejected'[r] = rejected[r]
  <2>1. r \notin CreatedBy(op)
    BY <1>7 DEF PurgeTestData, PurgedRow, Create, InProgress
  <2> QED BY <1>7, <2>1 DEF PurgeTestData
<1> QED BY <1>1, <1>2, <1>3, <1>4, <1>5, <1>6, <1>7, NextTables
        DEF TableEffect, CallWrites

\* Every step keeps a number in each fleet in progress.
LEMMA FleetInvKept ==
    ASSUME TypeOK, ReadingInv, FleetInv, [Next]_vars, DecisionsApart
    PROVE  FleetInv'
<1>0. /\ calls \in [Calls -> CallRow]
      /\ rejected \in [Requests -> SUBSET Numbers]
  BY DEF TypeOK, StoreTypeOK
<1>1. ASSUME NEW r \in Requests, InProgress(r)' PROVE ActiveNumbers(r)' # {}
  <2>1. InProgress(r) /\ Present(r) /\ Present(r)' /\ ActiveNumbers(r) # {}
    BY <1>1, WasInProgress DEF FleetInv, NoEmptyFleetInProgress
  <2>2. CASE rejected'[r] = rejected[r]
    BY <2>1, <2>2 DEF ActiveNumbers
  <2>3. ASSUME NEW c \in Calls, Marked(c), calls[c].req = r
        PROVE  ActiveNumbers(r)' # {}
    <3>1. ActiveNumbers(r) \ calls[c].drop # {}
      BY <2>1, <2>3 DEF FleetInv, LeavesANumber, Marked, At
    <3>2. rejected'[r] = rejected[r] \cup calls[c].drop
      BY <1>0, <2>3 DEF Marked, MarkNumbers
    <3> QED BY <2>1, <3>1, <3>2 DEF ActiveNumbers
  <2> QED BY <1>1, <2>2, <2>3, OnlyCommitsReject
<1>2. ASSUME NEW c \in Calls PROVE LeavesANumber(calls[c])'
  <2> PICK k : k = calls'[c]
    OBVIOUS
  <2>1. ASSUME k.pc = "fleetCommit", InProgress(k.req)'
        PROVE  ActiveNumbers(k.req)' \ k.drop # {}
    <3>1. CASE k = calls[c]
      <4>1. k.req \in Requests
        BY <2>1, <3>1, CallFields
      <4>2. InProgress(k.req) /\ Present(k.req) /\ Present(k.req)'
        BY <2>1, <4>1, WasInProgress
      <4>3. ASSUME NEW d \in Calls, Marked(d), calls[d].req = k.req PROVE FALSE
        <5>1. calls'[d].pc = "schedule"
          BY <1>0, <4>3 DEF Marked, Goto, Become, CallRow
        <5>2. calls[c].step = "ACCEPTATION" /\ calls[d].step = "ACCEPTATION"
          BY <2>1, <3>1, <4>3 DEF ReadingInv, ReadThere, DecidesOn, Marked, At
        <5>3. c = d
          BY <3>1, <4>3, <5>2 DEF DecisionsApart
        <5> QED BY <2>1, <5>1, <5>3
      <4>4. rejected'[k.req] = rejected[k.req]
        BY <2>1, <4>1, <4>3, OnlyCommitsReject
      <4>5. ActiveNumbers(k.req) \ k.drop # {}
        BY <2>1, <3>1, <4>2 DEF FleetInv, LeavesANumber
      <4> QED BY <4>2, <4>4, <4>5 DEF ActiveNumbers
    <3>2. CASE Moves(c, k)
      <4>1. Proceeds(c, k) /\ At(c, "fleet")
        BY <2>1, <3>2 DEF Moves, Resting, Begins, Proceeds
      <4>2. UNCHANGED store /\ ActiveNumbers(k.req) \ k.drop # {}
        BY <2>1, <3>2, <4>1 DEF Moves, Resting, Begins, Proceeds, At
      <4> QED BY <4>2 DEF store, ActiveNumbers, Present
    <3> QED BY <3>1, <3>2, ACallMoves
  <2> QED BY <2>1 DEF LeavesANumber
<1>3. NoEmptyFleetInProgress'
  BY <1>1 DEF NoEmptyFleetInProgress
<1> QED BY <1>2, <1>3 DEF FleetInv

\* Whatever the engine, time, purges and other calls do meanwhile, a fleet that
\* one call at a time decides on is in progress only with a number left.
THEOREM FleetKeepsANumber ==
    Spec /\ []DecisionsApart => []NoEmptyFleetInProgress
<1>1. ASSUME Init PROVE FleetInv
  <2>1. \A c \in Calls : calls[c].pc = "idle"
    BY <1>1 DEF Init, Idle, Call
  <2>2. \A r \in Requests : ActiveNumbers(r) = Portfolio[r].fleet \ Portfolio[r].excluded
    BY <1>1 DEF Init, StoreInit, Create, ActiveNumbers, Present
  <2> QED BY <2>1, <2>2, CreationAssumption
          DEF FleetInv, LeavesANumber, NoEmptyFleetInProgress
<1>2. TypeOK /\ ReadingInv /\ DecisionsApart /\ FleetInv /\ [Next]_vars => FleetInv'
  BY FleetInvKept
<1>3. FleetInv => NoEmptyFleetInProgress
  BY DEF FleetInv
<1> QED BY <1>1, <1>2, <1>3, TypeCorrect, CallsHaveRead, PTL DEF Spec

-----------------------------------------------------------------------------
(***************************************************************************)
(* A request lives the life it promises, where no expiry competes either.  *)
(* What a call read of a request at ACCEPTATION then stays true until the  *)
(* call has written: the engine closes ACCEPTATION for an acceptance that  *)
(* is scheduled, and a rejection is not begun on such a request, or as     *)
(* expired; a cancellation asks for the step again.                        *)
(***************************************************************************)
ExpiriesSpareDecisions ==
    engine.pc = "expiring" =>
        \A c \in Calls : DecidesOn(calls[c]) => engine.owed[calls[c].req] = 0

NothingExpires == engine.pc = "expiring" => \A r \in Requests : engine.owed[r] = 0

\* Where steps do not expire, no decision has an expiry to fear.
LEMMA NoTimeoutSpares ==
    ASSUME ~ StepTimeout
    PROVE  Spec => []ExpiriesSpareDecisions
<1>1. Init => NothingExpires
  BY DEF Init, NothingExpires
<1>2. ASSUME TypeOK, NothingExpires, [Next]_vars PROVE NothingExpires'
  <2>1. engine.owed \in [Requests -> 0..2]
    BY <1>2 DEF TypeOK
  <2>2. engine'.owed \in [Requests -> 0..2]
    BY <1>2, EngineStaysTyped DEF EngineTyped
  <2>3. CASE /\ engine'.pc = engine.pc
             /\ \A r \in Requests : engine'.owed[r] > 0 => engine.owed[r] > 0
    BY <1>2, <2>1, <2>2, <2>3 DEF NothingExpires
  <2>4. CASE \A r \in Requests : engine'.owed[r] = 0
    BY <2>4 DEF NothingExpires
  <2>5. CASE engine'.pc \in {"converging", "completing"}
    BY <2>5 DEF NothingExpires
  <2> QED BY <1>2, <2>3, <2>4, <2>5, EngineOwing DEF Lists
<1>3. TypeOK /\ NothingExpires => ExpiriesSpareDecisions
  BY CallFields DEF NothingExpires, ExpiriesSpareDecisions, DecidesOn
<1> QED BY <1>1, <1>2, <1>3, TypeCorrect, PTL DEF Spec

Undecided(r) ==
    InProgress(r) /\ demande[r].step = "ACCEPTATION" /\ demande[r].pending = "none"

CurrentReading(k) ==
    /\ DecidesOn(k) /\ Present(k.req) => Undecided(k.req)
    /\ Withdraws(k) /\ StepSeen(k.req) = "ACCEPTATION" => InProgress(k.req)

OwedWhenScheduled(r) ==
    /\ engine.owed[r] > 0 /\ engine.pc # "expiring"
    /\ InProgress(r) /\ demande[r].step = "ACCEPTATION"
    => demande[r].pending # "none"

SerialInv ==
    /\ \A c \in Calls : CurrentReading(calls[c])
    /\ \A r \in Requests : OwedWhenScheduled(r)

\* What the engine owes at ACCEPTATION, an acceptance has scheduled, or it
\* expires.
LEMMA OwedWhenScheduledKept ==
    ASSUME TypeOK, SerialInv, [Next]_vars, NEW r \in Requests
    PROVE  OwedWhenScheduled(r)'
<1> SUFFICES ASSUME engine'.owed[r] > 0, engine'.pc # "expiring", InProgress(r)',
                    demande'[r].step = "ACCEPTATION"
             PROVE  demande'[r].pending # "none"
  BY DEF OwedWhenScheduled
<1>1. InProgress(r) /\ Present(r) /\ Present(r)'
  BY WasInProgress
<1>2. demande[r].step = "ACCEPTATION"
  <2>1. StepSeen(r) = "ACCEPTATION"
    BY <1>1, FirstStepIsLeftForGood DEF StepSeen
  <2> QED BY <1>1, <2>1 DEF StepSeen
<1>3. CASE engine.owed[r] > 0 /\ engine.pc # "expiring"
  BY <1>1, <1>2, <1>3, PendingLasts DEF SerialInv, OwedWhenScheduled
<1>4. CASE UNCHANGED store /\ r \in DueConvergences
  BY <1>4 DEF store, DueConvergences
<1>5. CASE r \in PendingReverseCompletions
  BY <1>2, <1>5 DEF PendingReverseCompletions
<1> QED BY <1>3, <1>4, <1>5, EngineOwing DEF Lists

\* What a call writes is of the request it works on.
LEMMA OthersWriteElsewhere ==
    ASSUME TypeOK, NEW d \in Calls, CallWrites(d), NEW r \in Requests,
           calls[d].req # r
    PROVE  demande'[r] = demande[r]
<1>1. demande \in [Requests -> DemandeRow] /\ calls[d].req \in Requests
  BY CallFields DEF TypeOK, StoreTypeOK, CallWrites, Rejected, Cancelled, Marked,
                    HasConfirmed, At
<1> QED BY <1>1 DEF CallWrites, Rejected, RejectRow, Cancelled, CancelRow,
                    Marked, MarkNumbers, HasConfirmed, InsertConfirmation

\* A call that decides on a request at ACCEPTATION works on it alone.
LEMMA AloneThere ==
    ASSUME ReadingInv, DecisionsApart,
           NEW c \in Calls, DecidesOn(calls[c]) \/ Withdraws(calls[c]),
           StepSeen(calls[c].req) = "ACCEPTATION",
           NEW d \in Calls, calls[d].pc \notin {"idle", "opened"},
           calls[d].req = calls[c].req
    PROVE  d = c
<1>1. calls[c].step = "ACCEPTATION" /\ calls[d].step = "ACCEPTATION"
  BY DEF ReadingInv, ReadThere
<1> QED BY <1>1 DEF DecisionsApart

\* While a call waits on its reading, nobody else disturbs it.
LEMMA UndecidedStays ==
    ASSUME TypeOK, ReadingInv, SerialInv, [Next]_vars, DecisionsApart,
           ExpiriesSpareDecisions,
           NEW c \in Calls, DecidesOn(calls[c]), calls'[c] = calls[c],
           Present(calls[c].req)'
    PROVE  Undecided(calls[c].req)'
<1> PICK r \in Requests : r = calls[c].req
  BY CallFields DEF DecidesOn
<1>0. /\ demande \in [Requests -> DemandeRow]
      /\ Present(r)' /\ calls \in [Calls -> CallRow]
  BY DEF TypeOK, StoreTypeOK
<1>1. Present(r) /\ Undecided(r)
  BY <1>0, AbsentStays DEF SerialInv, CurrentReading
<1>2. \A d \in Calls :
         calls[d].pc \notin {"idle", "opened"} /\ calls[d].req = r =>
             DecidesOn(calls[d]) /\ calls'[d] = calls[d]
  <2>1. StepSeen(r) = "ACCEPTATION"
    BY <1>1 DEF StepSeen, Undecided
  <2> QED BY <2>1, AloneThere
<1>3. ~ IsAsked(r)
  BY <1>2 DEF IsAsked, Asks, At, DecidesOn
<1>4. ASSUME NEW d \in Calls, CallWrites(d) PROVE Undecided(r)'
  <2>1. CASE calls[d].req = r
    <3>0. DecidesOn(calls[d]) /\ calls'[d] = calls[d]
      BY <1>2, <1>4, <2>1 DEF CallWrites, Rejected, Cancelled, Marked, HasConfirmed, At
    <3>1. Answer(d) \/ Goto(d, "schedule")
      BY <1>4, <3>0 DEF CallWrites, Rejected, Cancelled, Marked, HasConfirmed, At, DecidesOn
    <3>2. calls'[d].pc \in {"idle", "schedule"}
      BY <1>0, <3>1 DEF Answer, Goto, Become, Idle, Call, CallRow
    <3> QED BY <3>0, <3>2 DEF DecidesOn
  <2>2. CASE calls[d].req # r
    <3>1. demande'[r] = demande[r]
      BY <1>4, <2>2, OthersWriteElsewhere
    <3> QED BY <1>1, <3>1 DEF Undecided, InProgress
  <2> QED BY <2>1, <2>2
<1>5. CASE TablesKept
  BY <1>1, <1>5 DEF TablesKept, Undecided, InProgress
<1>6. ASSUME NEW q \in Requests, NEW p \in Pendings, PendingSet(q, p), MayPostpone(q, p)
      PROVE  Undecided(r)'
  <2>1. q # r
    BY <1>1, <1>3, <1>6 DEF MayPostpone, Undecided
  <2> QED BY <1>0, <1>1, <1>6, <2>1 DEF PendingSet, Undecided, InProgress
<1>7. ASSUME NEW q \in Requests, NEW origin \in Origins, Closes(q, origin),
             MayApply(q, origin)
      PROVE  Undecided(r)'
  <2>0. engine.pc = "expiring" => engine.owed[r] = 0
    BY DEF ExpiriesSpareDecisions
  <2>1. q # r
    BY <1>1, <1>3, <1>7, <2>0
       DEF MayApply, SerialInv, OwedWhenScheduled, Undecided
  <2>2. demande'[r] = demande[r]
    BY <1>0, <1>7, <2>1
       DEF Closes, EndRequest, CompleteRequest, LeaveActivation,
           LeaveOtherStep, AdvanceStep
  <2> QED BY <1>1, <2>2 DEF Undecided, InProgress
<1>8. ASSUME NEW op \in Purgers, PurgeTestData(op) PROVE Undecided(r)'
  <2>1. r \notin CreatedBy(op)
    BY <1>0, <1>8 DEF PurgeTestData, PurgedRow, Create, Present
  <2>2. demande'[r] = demande[r]
    BY <1>8, <2>1 DEF PurgeTestData
  <2> QED BY <1>1, <2>2 DEF Undecided, InProgress
<1>9. Undecided(r)'
  BY <1>4, <1>5, <1>6, <1>7, <1>8, NextTables DEF TableEffect
<1> QED BY <1>9

\* Nor a cancellation, whose request is at ACCEPTATION or has left it.
LEMMA WithdrawableStays ==
    ASSUME TypeOK, ReadingInv, SerialInv, [Next]_vars, DecisionsApart,
           NEW c \in Calls, Withdraws(calls[c]), calls'[c] = calls[c],
           StepSeen(calls[c].req)' = "ACCEPTATION"
    PROVE  InProgress(calls[c].req)'
<1> PICK r \in Requests : r = calls[c].req
  BY CallFields DEF Withdraws
<1>0. /\ calls \in [Calls -> CallRow] /\ demande[r].step \in Steps
      /\ demande \in [Requests -> DemandeRow]
  BY DEF TypeOK, StoreTypeOK, DemandeRow
<1>1. Present(r)' /\ demande'[r].step = "ACCEPTATION"
  BY StoreAssumption, StepsAre DEF StepSeen
<1>2. StepSeen(r) = "ACCEPTATION"
  BY FirstStepIsLeftForGood
<1>3. Present(r) /\ InProgress(r) /\ demande[r].step = "ACCEPTATION"
  BY <1>2, StoreAssumption, StepsAre DEF SerialInv, CurrentReading, StepSeen
<1>4. ASSUME NEW d \in Calls, CallWrites(d) PROVE InProgress(r)'
  <2>1. CASE calls[d].req = r
    <3>0. Withdraws(calls[d]) /\ calls'[d] = calls[d]
      BY <1>2, <1>4, <2>1, AloneThere
         DEF CallWrites, Rejected, Cancelled, Marked, HasConfirmed, At
    <3>1. Answer(d)
      BY <1>4, <3>0 DEF CallWrites, Rejected, Cancelled, Marked, HasConfirmed, At, Withdraws
    <3>2. calls'[d].pc = "idle"
      BY <1>0, <3>1 DEF Answer, Become, Idle, Call
    <3> QED BY <3>0, <3>2 DEF Withdraws
  <2>2. CASE calls[d].req # r
    <3>1. demande'[r] = demande[r]
      BY <1>4, <2>2, OthersWriteElsewhere
    <3> QED BY <1>3, <3>1 DEF InProgress
  <2> QED BY <2>1, <2>2
<1>5. ASSUME NEW q \in Requests, NEW origin \in Origins, Closes(q, origin)
      PROVE  InProgress(r)'
  <2>1. StoreTypeOK
    BY DEF TypeOK
  <2>2. HistoryKept \/ Moved(q, origin)
    BY <1>5, <2>1, TransitionOutcome DEF Closes, ApplyTransition
  <2> QED BY <1>0, <1>3, <2>2 DEF HistoryKept, Moved, InProgress
<1>6. ASSUME NEW q \in Requests, NEW p, PendingSet(q, p) PROVE InProgress(r)'
  BY <1>0, <1>3, <1>6 DEF PendingSet, InProgress, DemandeRow
<1>7. ASSUME NEW op \in Purgers, PurgeTestData(op) PROVE InProgress(r)'
  <2>1. r \notin CreatedBy(op)
    BY <1>1, <1>7 DEF PurgeTestData, PurgedRow, Create, Present
  <2> QED BY <1>3, <1>7, <2>1 DEF PurgeTestData, InProgress
<1>8. CASE TablesKept
  BY <1>3, <1>8 DEF TablesKept, InProgress
<1>9. InProgress(r)'
  BY <1>4, <1>5, <1>6, <1>7, <1>8, NextTables DEF TableEffect
<1> QED BY <1>9

\* A reading is current as the call begins, and as it proceeds.
LEMMA BegunReadingsAreCurrent ==
    ASSUME TypeOK, NEW k, NEW op \in Operators, NEW r \in Requests, Begins(k, op, r)
    PROVE  CurrentReading(k)
<1>1. k.req = r
  BY DEF Begins
<1>2. DecidesOn(k) => Undecided(r)
  BY DEF DecidesOn, Begins, CanAccept, Undecided, InProgress
<1>3. Withdraws(k) => InProgress(r)
  BY DEF Withdraws, Begins, CanCancel, InProgress
<1> QED BY <1>1, <1>2, <1>3 DEF CurrentReading

\* A call that goes on holds a reading as current as before.
LEMMA ProceedingReadingsAreCurrent ==
    ASSUME SerialInv, NEW c \in Calls, NEW k, Proceeds(c, k)
    PROVE  CurrentReading(k)
<1>1. CurrentReading(calls[c]) /\ k.req = calls[c].req
  BY DEF SerialInv, Proceeds
<1>2. DecidesOn(k) => DecidesOn(calls[c])
  BY DEF Proceeds, At, DecidesOn
<1>3. Withdraws(k) => Withdraws(calls[c])
  BY DEF Proceeds, At, Withdraws
<1> QED BY <1>1, <1>2, <1>3 DEF CurrentReading

\* Every step keeps the calls' readings current.
LEMMA SerialInvKept ==
    ASSUME TypeOK, ReadingInv, SerialInv, [Next]_vars, DecisionsApart,
           ExpiriesSpareDecisions
    PROVE  SerialInv'
<1>1. ASSUME NEW c \in Calls PROVE CurrentReading(calls[c])'
  <2> PICK k : k = calls'[c]
    OBVIOUS
  <2>1. CASE k = calls[c]
    BY <2>1, UndecidedStays, WithdrawableStays DEF CurrentReading, DecidesOn, Withdraws
  <2>2. CASE Moves(c, k)
    <3>1. CASE Resting(k)
      BY <3>1 DEF Resting, CurrentReading, DecidesOn, Withdraws
    <3>2. CASE Proceeds(c, k) /\ (At(c, "fleetCommit") \/ At(c, "confirm"))
      BY <3>2 DEF Proceeds, At, CurrentReading, DecidesOn, Withdraws
    <3>3. CASE \/ UNCHANGED store /\ Proceeds(c, k)
               \/ /\ UNCHANGED store
                  /\ \E op \in Operators, r \in Requests : Begins(k, op, r)
      <4>1. CurrentReading(k) /\ UNCHANGED demande
        BY <3>3, BegunReadingsAreCurrent, ProceedingReadingsAreCurrent DEF store
      <4> QED BY <4>1 DEF CurrentReading, DecidesOn, Withdraws, Undecided,
                          InProgress, Present, StepSeen
    <3> QED BY <2>2, <3>1, <3>2, <3>3 DEF Moves
  <2> QED BY <2>1, <2>2, ACallMoves
<1>2. \A r \in Requests : OwedWhenScheduled(r)'
  BY OwedWhenScheduledKept
<1> QED BY <1>1, <1>2 DEF SerialInv

\* No call holds a reading at first, and the engine owes nothing.
LEMMA SerialInvInit == Init => SerialInv
BY DEF Init, Idle, Call, NothingOwed, SerialInv, CurrentReading, DecidesOn,
       Withdraws, OwedWhenScheduled

DecisionsDoNotCompete == DecisionsApart /\ ExpiriesSpareDecisions

\* The inductive invariant of decisions that do not compete: what a call holds
\* of its request is still so when it writes, and the engine owes ACCEPTATION
\* only what an acceptance has scheduled, or expiries that no call waits for.
THEOREM SerialInvariant ==
    Spec /\ []DecisionsDoNotCompete => [](HistoryInv /\ SerialInv)
<1>1. TypeOK /\ ReadingInv /\ DecisionsDoNotCompete /\ SerialInv /\ [Next]_vars
        => SerialInv'
  BY SerialInvKept DEF DecisionsDoNotCompete
<1> QED BY <1>1, SerialInvInit, HistoryInvariant, TypeCorrect, CallsHaveRead, PTL
        DEF Spec

\* What a call withdraws is in progress, at ACCEPTATION.
LEMMA WithdrawnInTime ==
    ASSUME HistoryInv, SerialInv, NEW c \in Calls, Rejected(c) \/ Cancelled(c)
    PROVE  /\ calls[c].req \in Requests
           /\ InProgress(calls[c].req)
           /\ demande[calls[c].req].step = "ACCEPTATION"
<1>0. TypeOK
  BY DEF HistoryInv
<1>1. calls[c].req \in Requests
  BY <1>0, CallFields DEF Rejected, Cancelled, At
<1>2. CASE Rejected(c)
  BY <1>1, <1>2 DEF Rejected, At, SerialInv, CurrentReading, DecidesOn, Undecided
<1>3. CASE Cancelled(c)
  <2>1. StepSeen(calls[c].req) = "ACCEPTATION"
    BY <1>3 DEF Cancelled, At, HistoryInv, CancelCallsKnow
  <2> QED BY <1>1, <1>3, <2>1, StoreAssumption, StepsAre
          DEF Cancelled, At, SerialInv, CurrentReading, Withdraws, StepSeen
<1> QED BY <1>2, <1>3

\* Each step of the workflow is a step of the promised life, or none.
LEMMA StepPromised ==
    ASSUME HistoryInv, SerialInv, [Next]_vars
    PROVE  Life!Promise \/ Stage(demande') = Stage(demande)
<1>1. ASSUME NEW c \in Calls, NEW outcome \in {"REJETE", "ANNULE"},
             Rejected(c) \/ Cancelled(c), Leaves(c, outcome)
      PROVE  Life!Promise
  <2> PICK r \in Requests : r = calls[c].req
    BY <1>1 DEF Leaves
  <2>1. InProgress(r) /\ demande[r].step = "ACCEPTATION"
    BY <1>1, WithdrawnInTime
  <2>2. Life!Withdraw(r, outcome)
    BY <1>1, <2>1 DEF Leaves, Life!Withdraw, Life!Become, Stage, InProgress
  <2> QED BY <2>2 DEF Life!Promise
<1>2. StageEffect
  BY StageOutcome DEF HistoryInv
<1> QED BY <1>1, <1>2 DEF StageEffect, Life!Promise

\* When decisions on a request compete neither with one another nor with an
\* expiry, it lives the life it promises: it advances in order, is rejected or
\* cancelled at ACCEPTATION only, and stays as it ended.
THEOREM WorkflowImplementsPromised ==
    Spec /\ []DecisionsDoNotCompete => ImplementsPromised
<1>1. Init => Life!Init
  BY DEF Init, StoreInit, Create, FirstStep, Life!Init, Life!FirstStage
<1>2. HistoryInv /\ SerialInv /\ [Next]_vars => [Life!Promise]_(Stage(demande))
  BY StepPromised DEF Stage
<1>3. [Life!Promise]_(Stage(demande)) =>
         [Life!Promise]_([r \in Requests |-> [status |-> demande[r].status,
                                             step |-> demande[r].step]])
  BY DEF Stage
<1> QED BY <1>1, <1>2, <1>3, SerialInvariant, PTL
        DEF Spec, ImplementsPromised, Life!Promised

-----------------------------------------------------------------------------
(***************************************************************************)
(* What follows of the promised life: an ended request keeps the status it *)
(* ended with, and a number is rejected before any number has moved, so    *)
(* that the transfer happens without it.                                   *)
(***************************************************************************)
\* The promised life leaves an ended request where it is.
LEMMA PromiseIsFinal ==
    ASSUME Life!Promise, NEW r \in Requests,
           Present(r), ~ InProgress(r), Present(r)'
    PROVE  demande'[r].status = demande[r].status
<1> DEFINE before == Stage(demande)
           after == Stage(demande')
<1>0. /\ before[r].status = demande[r].status /\ after[r].status = demande'[r].status
      /\ before[r].status \notin {"ABSENT", "EN_COURS"} /\ after[r].status # "ABSENT"
      /\ DOMAIN before = Requests
  BY DEF Stage, Present, InProgress
<1>1. ASSUME NEW q \in Requests, NEW status, NEW step,
             before[q].status = "EN_COURS", Life!Become(q, status, step)
      PROVE  after[r].status = before[r].status
  <2>1. after = [before EXCEPT ![q] = [status |-> status, step |-> step]]
    BY <1>1 DEF Life!Become, Stage
  <2>2. q # r
    BY <1>0, <1>1
  <2> HIDE DEF before, after
  <2> QED BY <1>0, <2>1, <2>2
<1>2. CASE Life!Progress
  <2>1. PICK q \in Requests : Life!Advance(q) \/ Life!Complete(q)
    BY <1>2 DEF Life!Progress
  <2>2. before[q].status = "EN_COURS"
    BY <2>1 DEF Life!Advance, Life!Complete, Stage
  <2>3. PICK s : s = Life!NextStep(before[q].step)
    OBVIOUS
  <2>4. Life!Become(q, "EN_COURS", s) \/ Life!Become(q, "TERMINE", "COMPLETION")
    BY <2>1, <2>3 DEF Life!Advance, Life!Complete, Life!Become, Stage
  <2>5. after[r].status = before[r].status
    BY <1>1, <2>2, <2>4
  <2> QED BY <1>0, <2>5
<1>3. ASSUME NEW q \in Requests, NEW outcome \in {"REJETE", "ANNULE"},
             Life!Withdraw(q, outcome)
      PROVE  after[r].status = before[r].status
  <2>1. before[q].status = "EN_COURS" /\ Life!Become(q, outcome, "ACCEPTATION")
    BY <1>3 DEF Life!Withdraw, Stage
  <2> QED BY <1>1, <2>1
<1>4. ASSUME NEW rs \in SUBSET Requests, Life!Purge(rs)
      PROVE  after[r].status = before[r].status
  <2>1. after[r] = IF r \in rs THEN [Life!FirstStage(r) EXCEPT !.status = "ABSENT"]
                   ELSE before[r]
    BY <1>4 DEF Life!Purge, Stage
  <2>2. r \notin rs
    BY <1>0, <2>1 DEF Life!FirstStage
  <2> QED BY <2>1, <2>2
<1> QED BY <1>0, <1>2, <1>3, <1>4 DEF Life!Promise

\* A request that ended keeps the status it ended with, when decisions on it
\* compete neither with one another nor with an expiry.
THEOREM EndedAsItEnded ==
    Spec /\ []DecisionsDoNotCompete => FinalStatusIsFinal
<1>1. ASSUME HistoryInv, SerialInv, [Next]_vars, NEW r \in Requests,
             Present(r), ~ InProgress(r), Present(r)'
      PROVE  demande'[r].status = demande[r].status
  <2>1. CASE Life!Promise
    BY <1>1, <2>1, PromiseIsFinal
  <2>2. CASE Stage(demande') = Stage(demande)
    <3>1. Stage(demande')[r].status = Stage(demande)[r].status
      BY <2>2
    <3> QED BY <3>1 DEF Stage
  <2> QED BY <1>1, <2>1, <2>2, StepPromised
<1>2. HistoryInv /\ SerialInv /\ [Next]_vars =>
        [\A r \in Requests :
            Present(r) /\ ~ InProgress(r) /\ Present(r)' =>
                demande'[r].status = demande[r].status]_vars
  BY <1>1
<1> QED BY <1>2, SerialInvariant, PTL DEF Spec, FinalStatusIsFinal

RoutedWithoutRejected(r) ==
    /\ Portfolio[r].type # "PORTAGE" =>
          \A n \in Numbers : numberRouting[r][n] = None
    /\ HasMoved(r) =>
          \A n \in rejected[r] : numberRouting[r][n] # Portfolio[r].recipient

\* A request at ACCEPTATION has moved no number.
LEMMA NothingMovedYet ==
    ASSUME HistoryInv, NEW r \in Requests, InProgress(r),
           demande[r].step = "ACCEPTATION"
    PROVE  ~ HasMoved(r)
<1>1. Present(r) /\ Len(closings[r]) \in Nat
  BY DEF InProgress, Present, HistoryInv, TypeOK, StoreTypeOK
<1>2. Rank("ACCEPTATION") = 1 /\ Rank(FirstStep(r)) \in 1..6
  BY RankOfStep, RankInRange, StepsAre DEF FirstStep
<1>3. Len(closings[r]) = 0
  BY <1>1, <1>2 DEF HistoryInv, ClosedOnceInOrder
<1>4. ClosedSteps(r) = {}
  BY <1>3 DEF ClosedSteps
<1> QED BY <1>4 DEF HasMoved

\* The transfer that ends ACTIVATION routes no rejected number to the
\* recipient.
LEMMA ClosingRoutesOthers ==
    ASSUME StoreTypeOK, HasTwoParties, NEW r \in Requests,
           NEW origin \in Origins, Closes(r, origin), RoutedWithoutRejected(r)
    PROVE  RoutedWithoutRejected(r)'
<1>0. /\ numberRouting \in [Requests -> [Numbers -> Operators \cup {None}]]
      /\ rejected[r] \subseteq Numbers /\ rejected'[r] = rejected[r]
      /\ Portfolio[r].recipient \in Operators
  BY PortfolioColumns DEF StoreTypeOK, Closes
<1>1. CASE KeepsNumbers(r)
  BY <1>0, <1>1 DEF KeepsNumbers, RoutedWithoutRejected
<1>2. CASE MovesFleet(r)
  <2>1. ASSUME NEW n \in rejected[r]
        PROVE  numberRouting'[r][n] # Portfolio[r].recipient
    <3>1. n \in Numbers /\ n \notin ActiveNumbers(r)
      BY <1>0, <2>1 DEF ActiveNumbers
    <3>2. numberRouting'[r][n] \in {Portfolio[r].source, None}
      BY <1>0, <1>2, <3>1 DEF MovesFleet, ApplyNumberRouting
    <3> QED BY <1>0, <1>2, <3>2, StoreAssumption DEF MovesFleet, HasTwoParties
  <2> QED BY <1>0, <1>2, <2>1 DEF MovesFleet, RoutedWithoutRejected
<1>3. CASE SendsHome(r)
  BY <1>0, <1>3, StoreAssumption DEF SendsHome, RoutedWithoutRejected
<1> QED BY <1>1, <1>2, <1>3, ClosingNumbers

\* Every step keeps the rejected numbers out of the routing.
LEMMA RoutedWithoutRejectedKept ==
    ASSUME HistoryInv, SerialInv, [Next]_vars, HasTwoParties,
           NEW r \in Requests, RoutedWithoutRejected(r)
    PROVE  RoutedWithoutRejected(r)'
<1>0. /\ TypeOK /\ StoreTypeOK
      /\ numberRouting \in [Requests -> [Numbers -> Operators \cup {None}]]
      /\ rejected \in [Requests -> SUBSET Numbers]
  BY DEF HistoryInv, TypeOK, StoreTypeOK
<1>1. ASSUME closings'[r] = closings[r], numberRouting'[r] = numberRouting[r],
             rejected'[r] = rejected[r]
      PROVE  RoutedWithoutRejected(r)'
  BY <1>1 DEF RoutedWithoutRejected, HasMoved, ClosedSteps
<1>2. ASSUME NEW q \in Requests, NEW origin \in Origins, Closes(q, origin)
      PROVE  RoutedWithoutRejected(r)'
  <2>1. CASE q = r
    BY <1>0, <1>2, <2>1, ClosingRoutesOthers
  <2>2. CASE q # r
    <3>1. closings'[r] = closings[r] /\ rejected'[r] = rejected[r]
      BY <1>0, <1>2, <2>2, ClosedStepsGrow DEF Closes
    <3>2. numberRouting'[r] = numberRouting[r]
      BY <1>0, <1>2, <2>2, OtherRoutingsUntouched
    <3> QED BY <1>1, <3>1, <3>2
  <2> QED BY <2>1, <2>2
<1>3. ASSUME NEW c \in Calls, Rejected(c) \/ Marked(c), calls[c].req = r
      PROVE  RoutedWithoutRejected(r)'
  <2>1. InProgress(r) /\ demande[r].step = "ACCEPTATION"
    <3>1. CASE Rejected(c)
      BY <1>3, <3>1, WithdrawnInTime
    <3>2. CASE Marked(c)
      BY <1>3, <3>2 DEF Marked, At, SerialInv, CurrentReading, DecidesOn, Undecided
    <3> QED BY <1>3, <3>1, <3>2
  <2>2. UNCHANGED <<closings, numberRouting>> /\ rejected'[r] \subseteq Numbers
    BY <1>0, <1>3, CallFields
       DEF Rejected, RejectRow, Marked, MarkNumbers, historyVars, CallRow
  <2>3. HasMoved(r)' <=> HasMoved(r)
    BY <2>2 DEF HasMoved, ClosedSteps
  <2>4. CASE Portfolio[r].type = "PORTAGE"
    BY <2>1, <2>3, <2>4, NothingMovedYet DEF RoutedWithoutRejected
  <2>5. CASE Portfolio[r].type # "PORTAGE"
    BY <2>2, <2>5, StoreAssumption, PortfolioColumns DEF RoutedWithoutRejected
  <2> QED BY <2>4, <2>5
<1>4. ASSUME NEW c \in Calls, CallWrites(c),
             ~ (Rejected(c) \/ Marked(c)) \/ calls[c].req # r
      PROVE  RoutedWithoutRejected(r)'
  <2>1. UNCHANGED <<closings, numberRouting>>
    BY <1>4 DEF CallWrites, Rejected, RejectRow, Cancelled, CancelRow, Marked,
                MarkNumbers, HasConfirmed, InsertConfirmation, historyVars
  <2>2. rejected'[r] = rejected[r]
    BY <1>0, <1>4 DEF CallWrites, Rejected, RejectRow, Cancelled, CancelRow,
                      Marked, MarkNumbers, HasConfirmed, InsertConfirmation
  <2> QED BY <1>1, <2>1, <2>2
<1>5. ASSUME NEW op \in Purgers, PurgeTestData(op)
      PROVE  RoutedWithoutRejected(r)'
  <2>1. CASE r \in CreatedBy(op)
    <3>1. /\ numberRouting'[r] = [n \in Numbers |-> None]
          /\ rejected'[r] = {}
      BY <1>5, <2>1 DEF PurgeTestData
    <3> QED BY <3>1 DEF RoutedWithoutRejected
  <2>2. CASE r \notin CreatedBy(op)
    BY <1>1, <1>5, <2>2 DEF PurgeTestData
  <2> QED BY <2>1, <2>2
<1>6. CASE TablesKept
  BY <1>1, <1>6 DEF TablesKept
<1>7. ASSUME NEW q \in Requests, NEW p, PendingSet(q, p)
      PROVE  RoutedWithoutRejected(r)'
  BY <1>1, <1>7 DEF PendingSet
<1> QED BY <1>0, <1>2, <1>3, <1>4, <1>5, <1>6, <1>7, NextTables DEF TableEffect

\* A number that nobody took is with the holder it started with, or home.
StaysUntaken(n) ==
    Untaken(n) => numero[n].holder = Registry[n].holder \/ IsBack(n)

\* It is so of a number that is left alone, and that those who had taken it do
\* not reject now.
LEMMA UntakenUndisturbed ==
    ASSUME NEW n \in Numbers, StaysUntaken(n), StayAbsent, numero'[n] = numero[n],
           Takers(n) \subseteq Takers(n)',
           \A r \in Takers(n) : n \in rejected'[r] => n \in rejected[r]
    PROVE  StaysUntaken(n)'
<1>1. Untaken(n)' => Untaken(n)
  BY DEF Untaken
<1>2. IsBack(n) => IsBack(n)'
  BY DEF IsBack, Purged, StayAbsent
<1> QED BY <1>1, <1>2 DEF StaysUntaken

\* What a request takes it has not rejected: the transfer passes over what is
\* rejected, and a request for one number that is rejected is not in progress.
LEMMA TakesWhatItKept ==
    ASSUME StoreTypeOK, NoEmptyFleetInProgress, NEW q \in Requests,
           NEW origin \in Origins, Closes(q, origin), NEW n \in Retained(q),
           ~ KeepsNumbers(q)
    PROVE  n \notin rejected[q] \/ numero'[n] = numero[n]
<1>1. Present(q) /\ ActiveNumbers(q) # {}
  BY DEF Closes, InProgress, Present, NoEmptyFleetInProgress
<1>2. CASE Portfolio[q].type = "PORTAGE"
  <2>1. MovesFleet(q) /\ (n \in rejected[q] => n \notin ActiveNumbers(q))
    BY <1>2, ClosingNumbers DEF SendsHome, ActiveNumbers
  <2>2. n \in Numbers
    BY PortfolioColumns DEF Retained
  <2> QED BY <2>1, <2>2 DEF MovesFleet, TransferToRegistry
<1>3. CASE Portfolio[q].type # "PORTAGE"
  <2>1. Portfolio[q].fleet = {n}
    BY <1>3, CreationAssumption DEF Retained
  <2> QED BY <1>1, <2>1 DEF ActiveNumbers
<1> QED BY <1>2, <1>3

\* Closing a step, a request takes a number or leaves it where it was.
LEMMA StaysUntakenClosing ==
    ASSUME HistoryInv, NoEmptyFleetInProgress, [Next]_vars,
           \A r \in Requests : ExcludedAreRejected(r),
           NEW q \in Requests, NEW origin \in Origins, Closes(q, origin),
           NEW n \in Numbers, StaysUntaken(n)
    PROVE  StaysUntaken(n)'
<1>0. TypeOK /\ StoreTypeOK /\ UNCHANGED rejected
  BY DEF HistoryInv, TypeOK, Closes
<1>1. StayAbsent
  BY <1>0, AbsentStays DEF StayAbsent
<1>2. \A r \in Requests : HasMoved(r) => HasMoved(r)'
  BY <1>0, ClosedStepsGrow DEF Closes, HasMoved
<1>3. Takers(n) \subseteq Takers(n)'
  BY <1>2 DEF Takers, Retained
<1>4. CASE numero'[n] = numero[n]
  BY <1>0, <1>1, <1>3, <1>4, UntakenUndisturbed
<1>5. CASE numero'[n] # numero[n]
  <2>1. n \in Retained(q) /\ ~ KeepsNumbers(q)
    BY <1>0, <1>5, OthersUntouched DEF KeepsNumbers
  <2>2. HasMoved(q)' /\ n \notin rejected'[q]
    BY <1>0, <1>5, <2>1, OwnNumbersMove, TakesWhatItKept
  <2>3. q \in Takers(n)'
    BY <2>1, <2>2 DEF Takers, Retained
  <2> QED BY <2>2, <2>3 DEF StaysUntaken, Untaken
<1> QED BY <1>4, <1>5

\* A purge sends a number home or leaves it where it was.
LEMMA StaysUntakenPurged ==
    ASSUME TypeOK, [Next]_vars, NEW op \in Purgers, PurgeTestData(op),
           NEW n \in Numbers, StaysUntaken(n)
    PROVE  StaysUntaken(n)'
<1> DEFINE ids == CreatedBy(op)
           named == UNION {Portfolio[r].fleet \cup {Portfolio[r].msisdn} : r \in ids}
<1>1. CASE n \in named
  <2>1. numero'[n] = RegistryEntry(Registry[n].origin, FALSE, FALSE)
    BY <1>1 DEF PurgeTestData
  <2>2. PICK q \in ids : n \in Restored(q)
    BY <1>1 DEF Restored
  <2>3. q \in Requests /\ ~ Present(q)'
    BY <2>2 DEF CreatedBy, PurgeTestData, PurgedRow, Create, Present
  <2>4. IsBack(n)'
    BY <2>1, <2>2, <2>3 DEF IsBack, Purged, Restored, RegistryEntry
  <2> QED BY <2>4 DEF StaysUntaken
<1>2. CASE n \notin named
  <2>1. numero'[n] = numero[n]
    BY <1>2 DEF PurgeTestData
  <2>2. \A r \in Takers(n) : r \in Requests \ ids
    BY <1>2 DEF Takers, Retained
  <2>3. \A r \in Takers(n) : closings'[r] = closings[r] /\ rejected'[r] = rejected[r]
    BY <2>2 DEF PurgeTestData
  <2>4. Takers(n) \subseteq Takers(n)'
    BY <2>3 DEF Takers, Retained, HasMoved, ClosedSteps
  <2>5. StayAbsent
    BY AbsentStays DEF StayAbsent
  <2> QED BY <2>1, <2>3, <2>4, <2>5, UntakenUndisturbed
<1> QED BY <1>1, <1>2

\* What is written for a call rejects no number of a request that has moved any.
LEMMA NoLateRejection ==
    ASSUME HistoryInv, SerialInv, NEW c \in Calls, CallWrites(c),
           NEW r \in Requests, HasMoved(r)
    PROVE  rejected'[r] = rejected[r]
<1>0. rejected \in [Requests -> SUBSET Numbers]
  BY DEF HistoryInv, TypeOK, StoreTypeOK
<1>1. CASE Rejected(c)
  <2>1. calls[c].req # r
    BY <1>1, WithdrawnInTime, NothingMovedYet
  <2> QED BY <1>0, <1>1, <2>1 DEF Rejected, RejectRow
<1>2. CASE Marked(c)
  <2>1. calls[c].req # r
    BY <1>2, NothingMovedYet
       DEF Marked, At, SerialInv, CurrentReading, DecidesOn, Undecided
  <2> QED BY <1>0, <1>2, <2>1 DEF Marked, MarkNumbers
<1>3. CASE Cancelled(c) \/ HasConfirmed(c)
  BY <1>3 DEF Cancelled, CancelRow, HasConfirmed, InsertConfirmation
<1> QED BY <1>1, <1>2, <1>3 DEF CallWrites

\* Every step leaves an untaken number with its holder, or sends it home.
LEMMA StaysUntakenKept ==
    ASSUME HistoryInv, SerialInv, NoEmptyFleetInProgress, RegistryInv, [Next]_vars,
           NEW n \in Numbers, StaysUntaken(n)
    PROVE  StaysUntaken(n)'
<1>0. TypeOK /\ StayAbsent
  BY AbsentStays DEF HistoryInv, StayAbsent
<1>1. ASSUME UNCHANGED <<closings, numero>>,
             \A r \in Requests : HasMoved(r) => rejected'[r] = rejected[r]
      PROVE  StaysUntaken(n)'
  <2>1. Takers(n)' = Takers(n)
    BY <1>1 DEF Takers, Retained, HasMoved, ClosedSteps
  <2>2. \A r \in Takers(n) : rejected'[r] = rejected[r]
    BY <1>1 DEF Takers
  <2> QED BY <1>0, <1>1, <2>1, <2>2, UntakenUndisturbed
<1>2. ASSUME NEW c \in Calls, CallWrites(c) PROVE UNCHANGED <<closings, numero>>
  BY <1>2 DEF CallWrites, Rejected, RejectRow, Cancelled, CancelRow, Marked,
              MarkNumbers, HasConfirmed, InsertConfirmation, historyVars
<1>3. ASSUME NEW c \in Calls, CallWrites(c) PROVE StaysUntaken(n)'
  BY <1>1, <1>2, <1>3, NoLateRejection
<1>4. CASE TablesKept
  BY <1>1, <1>4 DEF TablesKept
<1>5. ASSUME NEW q \in Requests, NEW p, PendingSet(q, p) PROVE StaysUntaken(n)'
  BY <1>1, <1>5 DEF PendingSet
<1>6. ASSUME NEW q \in Requests, NEW origin \in Origins, Closes(q, origin)
      PROVE  StaysUntaken(n)'
  BY <1>6, StaysUntakenClosing DEF RegistryInv
<1> QED BY <1>0, <1>3, <1>4, <1>5, <1>6, StaysUntakenPurged, NextTables DEF TableEffect

\* A number rejected from a fleet is left out of the transfer, when decisions on
\* it compete neither with one another nor with an expiry: it is not routed to
\* the recipient when the others are and, unless another request takes it, it
\* stays with the holder it had or goes home by a purge.
THEOREM RejectedNumbersAreLeft ==
    ASSUME HasTwoParties
    PROVE  Spec /\ []DecisionsDoNotCompete => []RejectedNumbersStay
<1> DEFINE Routed == \A r \in Requests : RoutedWithoutRejected(r)
           Left == \A n \in Numbers : StaysUntaken(n)
<1>1. ASSUME Init PROVE Routed /\ Left
  <2>1. \A r \in Requests : closings[r] = <<>> /\ numberRouting[r] = NewNumberRouting(r)
    BY <1>1 DEF Init, StoreInit
  <2>2. \A r \in Requests : ClosedSteps(r) = {}
    BY <2>1 DEF ClosedSteps
  <2>3. \A r \in Requests : ~ HasMoved(r)
    BY <2>2 DEF HasMoved
  <2>4. Routed
    BY <2>1, <2>3 DEF NewNumberRouting, SourcePrefixAtCreation, RoutedWithoutRejected
  <2>5. Left
    BY <1>1 DEF Init, StoreInit, RegistryEntry, StaysUntaken
  <2> QED BY <2>4, <2>5
<1>2. HistoryInv /\ SerialInv /\ Routed /\ [Next]_vars => Routed'
  BY RoutedWithoutRejectedKept
<1>3. HistoryInv /\ SerialInv /\ NoEmptyFleetInProgress /\ RegistryInv /\ Left
         /\ [Next]_vars => Left'
  BY StaysUntakenKept
<1>4. TypeOK /\ Routed /\ Left => RejectedNumbersStay
  BY DEF TypeOK, StoreTypeOK, RoutedWithoutRejected, StaysUntaken, RejectedNumbersStay
<1>5. Spec => []RegistryInv
  <2>1. TypeOK /\ RegistryInv /\ [Next]_vars => RegistryInv'
    BY RegistryInvKept, RegistryInvPurged
  <2> QED BY <2>1, RegistryInvInit, TypeCorrect, PTL DEF Spec
<1>6. DecisionsDoNotCompete => DecisionsApart
  BY DEF DecisionsDoNotCompete
<1> HIDE DEF Routed, Left
<1> QED BY <1>1, <1>2, <1>3, <1>4, <1>5, <1>6, SerialInvariant, FleetKeepsANumber,
           TypeCorrect, PTL DEF Spec

===================================================================================
