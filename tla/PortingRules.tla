------------------------------ MODULE PortingRules ------------------------------
(***************************************************************************)
(* The pure rules of src/internal/entity: the order of a request's steps,  *)
(* who owns each of them, and who may process, accept, cancel or confirm a *)
(* request.  Nothing here has state: `req' is the immutable part of a      *)
(* demande row (type, source, recipient, creator) and `row' the part that  *)
(* statements change (status, step, pending).                              *)
(***************************************************************************)
EXTENDS Naturals, Sequences

RequestTypes == {"PORTAGE", "RESTITUTION", "REVERSE"}

StepSequence == <<"ACCEPTATION", "DESACTIVATION", "ACTIVATION",
                  "CONFIRMATION", "COMPLETION">>

Steps == {StepSequence[i] : i \in 1..5}

\* The position of a step in the sequence: what the loop of NextStep finds.
Rank(s) == CHOOSE i \in 1..5 : StepSequence[i] = s

\* Defined for every step but COMPLETION, the terminal one.
NextStep(s) == StepSequence[Rank(s) + 1]

StepOwner(s, type) ==
    CASE s \in {"ACCEPTATION", "DESACTIVATION"} -> "SOURCE"
      [] s = "ACTIVATION"                       -> "RECIPIENT"
      [] s = "CONFIRMATION"                     -> "ALL"
      [] s = "COMPLETION" /\ type # "REVERSE"   -> "RECIPIENT"
      [] OTHER                                  -> "ARTP"

\* /demandes/traitement: the refusal of a step that is the ARTP's comes first
\* in the code; as a condition its place does not matter.
CanProcess(req, row, op) ==
    LET owner == StepOwner(row.step, req.type) IN
    /\ owner # "ARTP"
    /\ row.status = "EN_COURS"
    /\ row.pending = "none"
    /\ row.step \notin {"ACCEPTATION", "CONFIRMATION"}
    /\ owner = "SOURCE" => op = req.source
    /\ owner = "RECIPIENT" => op = req.recipient

\* Mutant: an acceptance already scheduled is not noticed.
CanAcceptTwice(req, row, op) ==
    /\ row.status = "EN_COURS"
    /\ row.step = "ACCEPTATION"
    /\ op = req.source

CanAccept(req, row, op) ==
    /\ row.status = "EN_COURS"
    /\ row.step = "ACCEPTATION"
    /\ row.pending = "none"
    /\ op = req.source

\* Mutant: the status is not looked at, only the step.
CanCancelAnyStatus(req, row, op) ==
    /\ op = req.creator
    /\ row.step = "ACCEPTATION"

\* A request whose acceptance is already scheduled may still be cancelled:
\* the pending transition is not looked at.
CanCancel(req, row, op) ==
    /\ op = req.creator
    /\ row.status = "EN_COURS"
    /\ row.step = "ACCEPTATION"

\* Mutant: the recipient is left out whatever the type.
ExpectedWithoutRecipient(req, operators) == operators \ {req.recipient}

\* A PORTAGE's recipient is confirmed by the others.
ExpectedConfirmers(req, operators) ==
    IF req.type = "PORTAGE" THEN operators \ {req.recipient} ELSE operators

\* ConfirmRequest's own checks, and its reading of the expected confirmers.
CanConfirm(req, row, op, operators) ==
    /\ row.status = "EN_COURS"
    /\ row.step = "CONFIRMATION"
    /\ row.pending = "none"
    /\ op \in ExpectedConfirmers(req, operators)

=================================================================================
