---------------------------------- MODULE Views ----------------------------------
(***************************************************************************)
(* What an operator is shown of a request: the same view everywhere, the   *)
(* client's identity included, but for the queue of the confirmations.     *)
(***************************************************************************)
EXTENDS Queues

\* RequestGateway.Get: the client, who has a demande_client row if the request
\* is a PORTAGE, and date_finalisation once it has ended.
View(r) == [client |-> Portfolio[r].type = "PORTAGE", ended |-> ~ InProgress(r)]

\* The fields of its DTO that are not always there.
RequestViewDTO(view) ==
    (IF view.client THEN {"client"} ELSE {})
    \cup (IF view.ended THEN {"dateFinalisation"} ELSE {})

SansClient(dto) == dto \ {"client"}

\* Mutant: the queue a-confirmer is rendered like the others.
RenderedWhole(name, r) == RequestViewDTO(View(r))

\* a-confirmer alone hides the client; deja-confirmees does not.
Rendered(name, r) ==
    IF name = "a-confirmer" THEN SansClient(RequestViewDTO(View(r)))
                            ELSE RequestViewDTO(View(r))

\* A list is answered whole or not at all, and a detail as its list shows it.
Shown(name, op, excludeSource) ==
    LET ids == Queue(name, op, excludeSource) IN
    [r \in IF Resolves(ids) THEN ids ELSE {} |-> Rendered(name, r)]

-----------------------------------------------------------------------------
\* Who the client of a porting is, its source and its recipient alone are
\* shown, until an operator confirms it: from then on deja-confirmees shows it
\* to that operator too.  Confirming comes before knowing.
ClientAfterConfirming ==
    \A r \in Requests, op \in Operators, name \in QueueNames :
        LET shown == Shown(name, op, FALSE) IN
        r \in DOMAIN shown /\ "client" \in shown[r] =>
            \/ op \in {Portfolio[r].source, Portfolio[r].recipient}
            \/ op \in confirmed[r]

==================================================================================
