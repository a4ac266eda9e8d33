--------------------------- MODULE WorkflowProperties ---------------------------
(***************************************************************************)
(* What the workflow must guarantee whatever the interleaving of calls,    *)
(* ticks, incidents and purges, what it guarantees only to callers that do *)
(* not compete, and what must eventually happen.                           *)
(***************************************************************************)
EXTENDS Workflow

(***************************************************************************)
(* Safety, under every interleaving.                                       *)
(***************************************************************************)
\* The history that ApplyTransition writes closes consecutive steps, each
\* once, from the request's first step to the one before the current step;
\* only an ended request has closed COMPLETION.  Guards against two actors
\* closing the same step, or one closing a step of an ended request.
ClosedOnceInOrder ==
    \A r \in Requests : Present(r) =>
        LET first == Rank(FirstStep(r))
            n == Len(closings[r])
        IN /\ \A i \in 1..n : Rank(closings[r][i].step) = first + i - 1
           /\ \/ n = Rank(demande[r].step) - first
              \/ /\ n = 6 - first
                 /\ demande[r].step = "COMPLETION"
                 /\ demande[r].status \in {"TERMINE", "REJETE"}

\* A cancelled request never moved and never moves: it is still at
\* ACCEPTATION, no step of it was ever closed and its creator's cancellation
\* is in the history.  A convergence that lands between Cancel's statements
\* must roll both back; one that a tick had listed, or that a call past its
\* checks schedules on the cancelled row, must close nothing.
CancelledNeverMoved ==
    \A r \in Requests : demande[r].status = "ANNULE" =>
        /\ demande[r].step = "ACCEPTATION"
        /\ closings[r] = <<>>
        /\ \E i \in 1..Len(decisions[r]) :
              decisions[r][i] = [step |-> "ACCEPTATION",
                                 op |-> Portfolio[r].creator]

\* A request that has ended is never put back in progress, and no actor
\* closes a step of it again, not even an engine pass that had listed it.
EndedStaysEnded ==
    [][\A r \in Requests :
          Present(r) /\ ~ InProgress(r) /\ Present(r)' =>
              ~ InProgress(r)' /\ closings'[r] = closings[r]]_vars

\* The registry agrees with the history.  A number is with the recipient of
\* a request that took it: a PORTAGE that retained it and has closed
\* ACTIVATION, a RESTITUTION or a REVERSE that has closed COMPLETION.  Only
\* if each of those had it rejected, or there is none, may it be with the
\* holder it started with; and it may be home if a purge named it.  What took
\* it marked it: routed to the recipient, or given back.  Several requests
\* may retain one number: a reverse request is validated whatever else is in
\* progress for its number.
ClosedSteps(r) == {closings[r][i].step : i \in 1..Len(closings[r])}

HasMoved(r) ==
    IF Portfolio[r].type = "PORTAGE" THEN "ACTIVATION" \in ClosedSteps(r)
    ELSE "COMPLETION" \in ClosedSteps(r)

Retained(r) == Portfolio[r].fleet \ Portfolio[r].excluded

Takers(n) == {r \in Requests : n \in Retained(r) /\ HasMoved(r)}

Untaken(n) == \A r \in Takers(n) : n \in rejected[r]

\* PurgeTestData restores a request's numbers and its msisdn.
Restored(r) == Portfolio[r].fleet \cup {Portfolio[r].msisdn}

Purged(n) == \E r \in Requests : ~ Present(r) /\ n \in Restored(r)

IsBack(n) == Purged(n) /\ numero[n].holder = Registry[n].origin

ShowsMove(r, n) ==
    IF Portfolio[r].type = "PORTAGE"
    THEN numberRouting[r][n] = Portfolio[r].recipient
    ELSE numero[n].restituted \/ Purged(n)

RegistryFollowsHistory ==
    \A n \in Numbers :
        /\ \/ \E r \in Takers(n) : numero[n].holder = Portfolio[r].recipient
           \/ Untaken(n) /\ numero[n].holder = Registry[n].holder
           \/ IsBack(n)
        /\ \A r \in Takers(n) : n \in rejected[r] \/ ShowsMove(r, n)

\* A REVERSE leaves CONFIRMATION by an action only when every operator of
\* the market has confirmed it: the ARTP's completion and the last
\* confirmation race, and either may close the step.
ReverseNeedsEveryone ==
    \A r \in Requests : Portfolio[r].type = "REVERSE" =>
        \A i \in 1..Len(closings[r]) :
            closings[r][i] = [step |-> "CONFIRMATION", origin |-> "ACTION"]
                => confirmed[r] = Operators

\* With a convergence window, a step the engine closes as EXPIRE had really
\* outlived STEP_TIMEOUT_SECONDS, however old the engine's list.
OnlyOverdueStepsExpire ==
    [][\A r \in Requests :
          Len(closings'[r]) > Len(closings[r])
          /\ closings'[r][Len(closings'[r])].origin = "EXPIRATION"
              => r \in overdue]_vars

(***************************************************************************)
(* Safety, when calls that decide on a request at ACCEPTATION compete      *)
(* neither with one another nor with the expiry of the step.               *)
(***************************************************************************)
\* A call closes only a step that is its operator's to close: the recipient
\* alone closes ACTIVATION and COMPLETION, and nobody a REVERSE's COMPLETION.
MayClose(r, op, s) ==
    LET owner == StepOwner(s, Portfolio[r].type) IN
    /\ owner # "ARTP"
    /\ owner = "SOURCE" => op = Portfolio[r].source
    /\ owner = "RECIPIENT" => op = Portfolio[r].recipient

StepsCloseByTheirOwner ==
    [][\A c \in Calls :
          LET r == calls[c].req IN
          At(c, "schedule") /\ ~ At(c, "schedule")' /\ closings' # closings
              => MayClose(r, calls[c].op,
                          closings'[r][Len(closings'[r])].step)]_vars

\* A request that ended keeps the status it ended with (Reject "closes a
\* request definitively").
FinalStatusIsFinal ==
    [][\A r \in Requests :
          Present(r) /\ ~ InProgress(r) /\ Present(r)' =>
              demande'[r].status = demande[r].status]_vars

\* A number rejected from a fleet is left out of the transfer that ends
\* ACTIVATION: it is not routed to the recipient and, unless some other
\* request takes it, it stays with the holder it had, or where a purge put it.
RejectedNumbersStay ==
    \A r \in Requests : \A n \in rejected[r] :
        /\ HasMoved(r) => numberRouting[r][n] # Portfolio[r].recipient
        /\ n \in Retained(r) /\ Untaken(n) =>
              numero[n].holder = Registry[n].holder \/ IsBack(n)

\* A fleet rejected number by number until none is left is not in progress.
NoEmptyFleetInProgress ==
    \A r \in Requests : InProgress(r) => ActiveNumbers(r) # {}

(***************************************************************************)
(* The request's life, abstractly.                                         *)
(***************************************************************************)
Life == INSTANCE Lifecycle
        WITH Type <- [r \in Requests |-> Portfolio[r].type],
             stage <- [r \in Requests |-> [status |-> demande[r].status,
                                          step |-> demande[r].step]]

\* Whatever the interleaving, a request only advances in order, and once
\* ended is only overwritten by a rejection or a cancellation.
ImplementsObserved == Life!Observed

\* When calls do not compete and no expiry competes with them, the request
\* lives the life it promises, even when the engine converges an acceptance
\* while the recipient cancels.  Step timeouts can break it: Reject's UPDATE
\* names the id alone, so that an expiry of ACCEPTATION between a call's
\* reading and that UPDATE leaves a request REJETE at a later step.
ImplementsPromised == Life!Promised

\* What a purge removed stays removed: no call in flight and no listed tick
\* writes a row for it again, and its numbers stay where the purge put them.
PurgedLeavesNothing ==
    \A r \in Requests : ~ Present(r) =>
        /\ closings[r] = <<>> /\ decisions[r] = <<>>
        /\ confirmed[r] = {} /\ rejected[r] = {}
        /\ \A n \in Portfolio[r].fleet : numero[n].holder = Registry[n].origin

(***************************************************************************)
(* Liveness.                                                               *)
(***************************************************************************)
\* Once internal incidents stop for good, a request in progress ends: every
\* step either is processed or expires.
EveryRequestEnds ==
    <>[] ~ MarketFrozen => \A r \in Requests : <> ~ InProgress(r)

\* A freeze that lasts drains the system: calls in flight answer, the tick
\* under way finishes, and only cancellations can still run.
FreezeDrains ==
    <>[] MarketFrozen =>
        <>[] (/\ engine.pc = "idle"
              /\ \A c \in Calls : calls[c].pc \in {"idle", "cancel", "cancelUpdate"})

\* A REVERSE that everyone confirmed is completed by the engine, even if the
\* call of the last confirmer stops short of scheduling the transition.
FullyConfirmed(r) ==
    /\ InProgress(r)
    /\ demande[r].step = "CONFIRMATION"
    /\ ExpectedConfirmers(Portfolio[r], Operators) \subseteq confirmed[r]

ConfirmedReverseCompletes ==
    <>[] ~ MarketFrozen =>
        \A r \in Requests :
            Portfolio[r].type = "REVERSE" /\ FullyConfirmed(r) ~> ~ InProgress(r)

\* A PORTAGE or a RESTITUTION settles once everyone awaited has confirmed.
ConfirmedPortingSettles ==
    <>[] ~ MarketFrozen =>
        \A r \in Requests :
            Portfolio[r].type # "REVERSE" /\ FullyConfirmed(r) ~> ~ FullyConfirmed(r)

=================================================================================
