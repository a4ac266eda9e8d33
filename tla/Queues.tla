--------------------------------- MODULE Queues ---------------------------------
(***************************************************************************)
(* The seven read-only lists an operator works from.  Their SQL states     *)
(* again, on the columns of demande, what the guards of the operations     *)
(* state in Go; here the two meet on every state of the workflow.          *)
(***************************************************************************)
EXTENDS Workflow

Own(op) ==
    {r \in Requests : Present(r) /\ op \in {Portfolio[r].source, Portfolio[r].recipient}}

\* toAcceptFilter: whether the acceptance is already scheduled is not asked.
ToAccept(op) ==
    {r \in Requests : InProgress(r) /\ demande[r].step = "ACCEPTATION"
                      /\ op = Portfolio[r].source}

\* Mutant: COMPLETION is nobody's.
ToProcessUntilConfirmed(op) ==
    {r \in Requests :
        /\ InProgress(r)
        /\ \/ /\ demande[r].step \in {"ACCEPTATION", "DESACTIVATION"}
              /\ op = Portfolio[r].source
           \/ /\ demande[r].step = "ACTIVATION"
              /\ op = Portfolio[r].recipient}

\* toProcessFilter: ACCEPTATION is in it, a REVERSE's COMPLETION is not.
ToProcess(op) ==
    {r \in Requests :
        /\ InProgress(r)
        /\ \/ /\ demande[r].step \in {"ACCEPTATION", "DESACTIVATION"}
              /\ op = Portfolio[r].source
           \/ /\ demande[r].step \in {"ACTIVATION", "COMPLETION"}
              /\ op = Portfolio[r].recipient
              /\ ~ (demande[r].step = "COMPLETION"
                    /\ Portfolio[r].type = "REVERSE")}

\* Mutant: whether the operator has confirmed is not asked.
ToConfirmAgain(op) ==
    {r \in Requests : InProgress(r) /\ demande[r].step = "CONFIRMATION"
                      /\ op \in ExpectedConfirmers(Portfolio[r], Operators)}

ToConfirm(op) ==
    {r \in Requests : InProgress(r) /\ demande[r].step = "CONFIRMATION"
                      /\ op \notin confirmed[r]
                      /\ op \in ExpectedConfirmers(Portfolio[r], Operators)}

\* excludeSource is ANO-019, the real platform's omission.
AlreadyConfirmed(op, excludeSource) ==
    {r \in Requests : op \in confirmed[r]
                      /\ ~ (excludeSource /\ op = Portfolio[r].source)}

Incoming(op) ==
    {r \in Requests : Portfolio[r].type = "PORTAGE" /\ demande[r].status = "TERMINE"
                      /\ op = Portfolio[r].recipient}

Outgoing(op) ==
    {r \in Requests : Portfolio[r].type = "PORTAGE" /\ demande[r].status = "TERMINE"
                      /\ op = Portfolio[r].source}

\* One handler per list; each answers for the authenticated operator alone.
Queue(name, op, excludeSource) ==
    CASE name = "mes-demandes"    -> Own(op)
      [] name = "a-accepter"      -> ToAccept(op)
      [] name = "a-traiter"       -> ToProcess(op)
      [] name = "a-confirmer"     -> ToConfirm(op)
      [] name = "deja-confirmees" -> AlreadyConfirmed(op, excludeSource)
      [] name = "in"              -> Incoming(op)
      [] name = "out"             -> Outgoing(op)

QueueNames == {"mes-demandes", "a-accepter", "a-traiter", "a-confirmer",
               "deja-confirmees", "in", "out"}

\* The list's identifiers are resolved one by one, by a Get each: one request
\* purged in between and the whole list is a fault.
Resolves(ids) == \A r \in ids : Present(r)

\* A detail exists for those to whom the list shows it.
Detail(name, op, r) == r \in Queue(name, op, FALSE) /\ Present(r)

-----------------------------------------------------------------------------
\* What a guard lets an operator do, that operator's queue shows: SQL and Go
\* agree on whose turn it is, for every type, step and schedule.
QueuesCoverGuards ==
    \A r \in Requests, op \in Operators :
        LET row == demande[r] IN
        /\ CanAccept(Portfolio[r], row, op) => Detail("a-accepter", op, r)
        /\ CanProcess(Portfolio[r], row, op) => Detail("a-traiter", op, r)
        /\ CanConfirm(Portfolio[r], row, op, Operators) =>
              \/ Detail("a-confirmer", op, r)
              \/ Detail("deja-confirmees", op, r)

\* While a request awaits confirmations, each operator awaited sees it in
\* exactly one of the two lists, and the others in neither.
ConfirmationLedger ==
    \A r \in Requests, op \in Operators :
        InProgress(r) /\ demande[r].step = "CONFIRMATION" =>
            IF op \in ExpectedConfirmers(Portfolio[r], Operators)
            THEN Detail("a-confirmer", op, r) # Detail("deja-confirmees", op, r)
            ELSE ~ Detail("a-confirmer", op, r) /\ ~ Detail("deja-confirmees", op, r)

\* Nobody is forgotten: a request in progress is in the queue of somebody who
\* can move it, or scheduled, or the engine's to complete, or in the hands of
\* a call that is about to schedule it.  Expiry is not counted on.
SomeoneIsAsked(r) == \E op \in Operators : r \in ToProcess(op) \cup ToConfirm(op)

EngineOwes(r) ==
    demande[r].pending # "none" \/ r \in PendingReverseCompletions

CallHolds(r) ==
    \E c \in Calls : calls[c].req = r /\ calls[c].pc \in {"count", "schedule"}

NobodyForgotten ==
    \A r \in Requests :
        InProgress(r) => SomeoneIsAsked(r) \/ EngineOwes(r) \/ CallHolds(r)

=================================================================================
