------------------------------ MODULE RequestStore ------------------------------
(***************************************************************************)
(* The tables a porting request lives in, and the transactions that write  *)
(* them: demande, demande_numero, etape_historique, confirmation and the   *)
(* national registry, numero.                                              *)
(*                                                                         *)
(* The columns of a demande row that no statement ever updates are the     *)
(* constant Portfolio; those that statements update are demande[r].        *)
(* etape_historique is kept as two tables: `closings' holds the rows the   *)
(* engine's transition writes (operateur_id NULL), `decisions' the rows a  *)
(* rejection or a cancellation writes under the name of an operator.       *)
(* date_debut_etape is kept as the two sets of requests whose current step *)
(* has outlived STEP_TIMEOUT_SECONDS: `overdue', now, and `overdueAtTick', *)
(* at the instant the engine's current tick began.                         *)
(***************************************************************************)
EXTENDS PortingRules, FiniteSets

CONSTANTS
    Operators,  \* rows of operateur
    Requests,   \* identifiers of demande rows
    Numbers,    \* msisdn of numero rows
    Portfolio,  \* the immutable columns of each demande row
    Registry,   \* the numero row of each number before the requests run
    None        \* the absence of an operator, a request or a step (NULL)

PortfolioRow == [type : RequestTypes, source : Operators, recipient : Operators,
                 creator : Operators, msisdn : Numbers,
                 fleet : SUBSET Numbers, excluded : SUBSET Numbers]

RegistryRow == [origin : Operators, holder : Operators,
                dated : BOOLEAN, restituted : BOOLEAN]

ASSUME StoreAssumption ==
    /\ IsFiniteSet(Operators)
    /\ None \notin Operators \cup Requests \cup Steps
    /\ Portfolio \in [Requests -> PortfolioRow]
    /\ Registry \in [Numbers -> RegistryRow]

(***************************************************************************)
(* What every creation guarantees of the row it inserts: the creator is    *)
(* the recipient, a fleet has a number that was not excluded, and a        *)
(* RESTITUTION or a REVERSE is for one number.  Nothing is said of two     *)
(* requests together: ValidateReverse applies no eligibility rule, so that *)
(* they may retain the same number.                                        *)
(***************************************************************************)
ASSUME CreationAssumption ==
    \A r \in Requests :
        LET p == Portfolio[r] IN
        /\ p.creator = p.recipient
        /\ p.excluded \subseteq p.fleet
        /\ p.fleet \ p.excluded # {}
        /\ p.type # "PORTAGE" => p.fleet = {p.msisdn} /\ p.excluded = {}

VARIABLES
    demande,        \* statut_demande, etape_actuelle, statut_etape_actuel,
                    \* transition_prevue_a and routage_info of each request
    rejected,       \* the numbers of each request with statut REJETE
    numberRouting,  \* demande_numero.routage_info, as the prefix's operator
    closings,       \* etape_historique rows of ApplyTransition
    decisions,      \* etape_historique rows of Reject and Cancel
    confirmed,      \* confirmation rows: the operators that confirmed
    numero,         \* the registry
    overdue,        \* requests whose current step has timed out
    overdueAtTick   \* those whose step had timed out when the tick started

historyVars == <<closings, decisions>>
clockVars == <<overdue, overdueAtTick>>
store == <<demande, rejected, numberRouting, closings, decisions, confirmed,
           numero, overdue, overdueAtTick>>

Statuses == {"EN_COURS", "TERMINE", "REJETE", "ANNULE", "ABSENT"}
StepStatuses == {"EN_COURS", "TERMINE", "EXPIRE"}
Pendings == {"none", "scheduled", "due"}
Origins == {"ACTION", "EXPIRATION"}

DemandeRow == [status : Statuses, step : Steps, stepStatus : StepStatuses,
               pending : Pendings, routing : Operators \cup {None}]
Closing == [step : Steps, origin : Origins]
Decision == [step : Steps, op : Operators]

FirstStep(r) ==
    IF Portfolio[r].type = "REVERSE" THEN "CONFIRMATION" ELSE "ACCEPTATION"

InProgress(r) == demande[r].status = "EN_COURS"
Present(r) == demande[r].status # "ABSENT"

\* HasActiveNumber counts the rows that are not REJETE; an excluded number is
\* inserted REJETE, and so is never active.
ActiveNumbers(r) ==
    IF Present(r) THEN Portfolio[r].fleet \ rejected[r] ELSE {}

SourcePrefixAtCreation(r) ==
    IF Portfolio[r].type = "PORTAGE" THEN Portfolio[r].source ELSE None

(***************************************************************************)
(* Every request as Create, AddNumber and AddExcludedNumber insert it, or  *)
(* as CreateAtConfirmation does for a REVERSE.                             *)
(***************************************************************************)
Create(r) == [status |-> "EN_COURS", step |-> FirstStep(r),
              stepStatus |-> "EN_COURS", pending |-> "none",
              routing |-> SourcePrefixAtCreation(r)]

NewNumberRouting(r) ==
    [n \in Numbers |-> IF n \in Portfolio[r].fleet \ Portfolio[r].excluded
                      THEN SourcePrefixAtCreation(r) ELSE None]

RegistryEntry(holder, dated, restituted) ==
    [holder |-> holder, dated |-> dated, restituted |-> restituted]

StoreInit ==
    /\ demande = [r \in Requests |-> Create(r)]
    /\ rejected = [r \in Requests |-> Portfolio[r].excluded]
    /\ numberRouting = [r \in Requests |-> NewNumberRouting(r)]
    /\ closings = [r \in Requests |-> <<>>]
    /\ decisions = [r \in Requests |-> <<>>]
    /\ confirmed = [r \in Requests |-> {}]
    /\ numero = [n \in Numbers |-> RegistryEntry(Registry[n].holder,
                                                 Registry[n].dated,
                                                 Registry[n].restituted)]
    /\ overdue = {}
    /\ overdueAtTick = {}

StoreTypeOK ==
    /\ demande \in [Requests -> DemandeRow]
    /\ rejected \in [Requests -> SUBSET Numbers]
    /\ numberRouting \in [Requests -> [Numbers -> Operators \cup {None}]]
    /\ closings \in [Requests -> Seq(Closing)]
    /\ decisions \in [Requests -> Seq(Decision)]
    /\ confirmed \in [Requests -> SUBSET Operators]
    /\ numero \in [Numbers -> [holder : Operators, dated : BOOLEAN,
                               restituted : BOOLEAN]]
    /\ overdue \subseteq Requests
    /\ overdueAtTick \subseteq Requests

-----------------------------------------------------------------------------
(***************************************************************************)
(* ApplyTransition: one transaction, which locks the demande row before it *)
(* reads it (SELECT ... FOR UPDATE), so that it is one atomic step.        *)
(***************************************************************************)
ClosedStatus(origin) == IF origin = "EXPIRATION" THEN "EXPIRE" ELSE "TERMINE"

CloseCurrentStep(r, origin) ==
    closings' = [closings EXCEPT
        ![r] = Append(@, [step |-> demande[r].step, origin |-> origin])]

\* Mutant: only the request's own msisdn is transferred, not its fleet.
TransferMainNumber(r) ==
    numero' = [numero EXCEPT ![Portfolio[r].msisdn] =
                  RegistryEntry(Portfolio[r].recipient, TRUE, @.restituted)]

\* Mutant: the whole fleet is transferred, excluded and rejected or not.
TransferWholeFleet(r) ==
    numero' = [n \in Numbers |->
        IF n \in Portfolio[r].fleet
        THEN RegistryEntry(Portfolio[r].recipient, TRUE, numero[n].restituted)
        ELSE numero[n]]

\* date_dernier_portage becomes non-NULL with every change of holder.
TransferToRegistry(r) ==
    numero' = [n \in Numbers |->
        IF n \in ActiveNumbers(r)
        THEN RegistryEntry(Portfolio[r].recipient, TRUE, numero[n].restituted)
        ELSE numero[n]]

ApplyNumberRouting(r) ==
    numberRouting' = [numberRouting EXCEPT
        ![r] = [n \in Numbers |->
                   IF n \in ActiveNumbers(r) THEN Portfolio[r].recipient
                   ELSE IF n \in Portfolio[r].fleet THEN Portfolio[r].source
                   ELSE None]]

ApplyEndOfRequestRestitution(r) ==
    numero' = [numero EXCEPT
        ![Portfolio[r].msisdn] = RegistryEntry(Portfolio[r].recipient, TRUE, TRUE)]

AdvanceStep(r, routing) ==
    /\ demande' = [demande EXCEPT ![r] =
           [status |-> @.status, step |-> NextStep(@.step),
            stepStatus |-> "EN_COURS", pending |-> "none", routing |-> routing]]
    /\ overdue' = overdue \ {r}
    /\ overdueAtTick' = overdueAtTick \ {r}

\* Mutant: the step's status takes the origin's name.
CompleteWithOrigin(r, origin, routing) ==
    /\ demande' = [demande EXCEPT ![r] =
           [status |-> "TERMINE", step |-> @.step, stepStatus |-> origin,
            pending |-> "none", routing |-> routing]]
    /\ UNCHANGED clockVars

CompleteRequest(r, origin, routing) ==
    /\ demande' = [demande EXCEPT ![r] =
           [status |-> "TERMINE", step |-> @.step,
            stepStatus |-> ClosedStatus(origin), pending |-> "none",
            routing |-> routing]]
    /\ UNCHANGED clockVars

\* The last step of the sequence closes: the request ends.
EndRequest(r, origin) ==
    /\ demande[r].step = "COMPLETION"
    /\ \/ /\ Portfolio[r].type = "PORTAGE"
          /\ CompleteRequest(r, origin, demande[r].routing)
          /\ UNCHANGED numero
       \/ /\ Portfolio[r].type # "PORTAGE"
          /\ CompleteRequest(r, origin, Portfolio[r].recipient)
          /\ ApplyEndOfRequestRestitution(r)
    /\ UNCHANGED numberRouting

\* A PORTAGE's numbers change operator when ACTIVATION closes.
LeaveActivation(r) ==
    /\ demande[r].step = "ACTIVATION"
    /\ Portfolio[r].type = "PORTAGE"
    /\ TransferToRegistry(r)
    /\ ApplyNumberRouting(r)
    /\ AdvanceStep(r, Portfolio[r].recipient)

LeaveOtherStep(r) ==
    /\ demande[r].step # "COMPLETION"
    /\ ~ (demande[r].step = "ACTIVATION" /\ Portfolio[r].type = "PORTAGE")
    /\ AdvanceStep(r, demande[r].routing)
    /\ UNCHANGED <<numberRouting, numero>>

\* Mutant: the locked row's status is not checked again.
ApplyTransitionUnchecked(r, origin) ==
    /\ CloseCurrentStep(r, origin)
    /\ EndRequest(r, origin) \/ LeaveActivation(r) \/ LeaveOtherStep(r)
    /\ UNCHANGED <<rejected, decisions, confirmed>>

ApplyTransition(r, origin) ==
    \/ /\ ~ InProgress(r)
       /\ UNCHANGED store
    \/ /\ InProgress(r)
       /\ CloseCurrentStep(r, origin)
       /\ EndRequest(r, origin) \/ LeaveActivation(r) \/ LeaveOtherStep(r)
       /\ UNCHANGED <<rejected, decisions, confirmed>>

-----------------------------------------------------------------------------
(***************************************************************************)
(* The other writes.  An UPDATE of a row that is not there is a success    *)
(* that changes nothing.                                                   *)
(***************************************************************************)
ScheduleTransitionAt(r) ==
    /\ demande' = IF Present(r)
                  THEN [demande EXCEPT ![r].pending = "scheduled"]
                  ELSE demande
    /\ UNCHANGED <<rejected, numberRouting, historyVars, confirmed, numero,
                   clockVars>>

\* Reject's second statement, with the RejectNumber updates of the same
\* transaction.  Its WHERE clause names the id alone.
RejectRow(r, op, noted, drop) ==
    /\ rejected' = [rejected EXCEPT ![r] = @ \cup drop]
    /\ decisions' = [decisions EXCEPT
           ![r] = Append(@, [step |-> noted, op |-> op])]
    /\ demande' = [demande EXCEPT ![r] =
           [@ EXCEPT !.status = "REJETE", !.stepStatus = "TERMINE"]]
    /\ UNCHANGED <<numberRouting, closings, confirmed, numero, clockVars>>

\* Cancel's second statement, once its WHERE clause has matched.
CancelRow(r, op, noted) ==
    /\ decisions' = IF noted = None THEN decisions
                    ELSE [decisions EXCEPT
                             ![r] = Append(@, [step |-> noted, op |-> op])]
    /\ demande' = [demande EXCEPT ![r] =
           [@ EXCEPT !.status = "ANNULE", !.stepStatus = "TERMINE",
                     !.pending = "none"]]
    /\ UNCHANGED <<rejected, numberRouting, closings, confirmed, numero,
                   clockVars>>

MarkNumbers(r, drop) ==
    /\ rejected' = [rejected EXCEPT ![r] = @ \cup drop]
    /\ UNCHANGED <<demande, numberRouting, historyVars, confirmed, numero,
                   clockVars>>

InsertConfirmation(r, op) ==
    /\ confirmed' = [confirmed EXCEPT ![r] = @ \cup {op}]
    /\ UNCHANGED <<demande, rejected, numberRouting, historyVars, numero,
                   clockVars>>

(***************************************************************************)
(* The purge of an operator's test data: its requests go, with every row   *)
(* that cascades, and each number they name returns to its origin.         *)
(***************************************************************************)
CreatedBy(op) == {r \in Requests : Present(r) /\ Portfolio[r].creator = op}

PurgedRow(r) == [Create(r) EXCEPT !.status = "ABSENT"]

PurgeTestData(op) ==
    LET ids == CreatedBy(op)
        numbers == UNION {Portfolio[r].fleet \cup {Portfolio[r].msisdn} : r \in ids}
    IN /\ demande' = [r \in Requests |->
                         IF r \in ids THEN PurgedRow(r) ELSE demande[r]]
       /\ rejected' = [r \in Requests |-> IF r \in ids THEN {} ELSE rejected[r]]
       /\ numberRouting' = [r \in Requests |->
             IF r \in ids THEN [n \in Numbers |-> None] ELSE numberRouting[r]]
       /\ closings' = [r \in Requests |-> IF r \in ids THEN <<>> ELSE closings[r]]
       /\ decisions' = [r \in Requests |-> IF r \in ids THEN <<>> ELSE decisions[r]]
       /\ confirmed' = [r \in Requests |-> IF r \in ids THEN {} ELSE confirmed[r]]
       /\ numero' = [n \in Numbers |->
             IF n \in numbers THEN RegistryEntry(Registry[n].origin, FALSE, FALSE)
             ELSE numero[n]]
       /\ overdue' = overdue \ ids
       /\ overdueAtTick' = overdueAtTick \ ids

-----------------------------------------------------------------------------
(***************************************************************************)
(* The engine's three queries.                                             *)
(***************************************************************************)
DueConvergences == {r \in Requests : InProgress(r) /\ demande[r].pending = "due"}

\* Mutants: every step in progress expires; or an acceptation alone does.
OverdueStepsOfAnyAge == {r \in Requests : InProgress(r) /\ demande[r].pending = "none"}

OverdueAcceptations ==
    {r \in overdueAtTick : demande[r].step = "ACCEPTATION" /\ InProgress(r)}

OverdueSteps == {r \in overdueAtTick : InProgress(r) /\ demande[r].pending = "none"}

\* Mutant: a REVERSE that everyone confirmed is left at CONFIRMATION.
ReversesAtCompletion ==
    {r \in Requests :
        /\ Portfolio[r].type = "REVERSE"
        /\ InProgress(r)
        /\ demande[r].pending = "none"
        /\ demande[r].step = "COMPLETION"}

PendingReverseCompletions ==
    {r \in Requests :
        /\ Portfolio[r].type = "REVERSE"
        /\ InProgress(r)
        /\ demande[r].pending = "none"
        /\ \/ demande[r].step = "COMPLETION"
           \/ /\ demande[r].step = "CONFIRMATION"
              /\ Cardinality(confirmed[r]) >= Cardinality(Operators)}

=================================================================================
