-------------------------------- MODULE Incidents --------------------------------
(***************************************************************************)
(* Incidents and the freeze: an internal incident freezes the market for   *)
(* everyone until whoever declared it resolves it.  The handlers read      *)
(* outside the transaction they end with; so does the gate that the steps  *)
(* of a porting go through.                                                *)
(***************************************************************************)
EXTENDS Naturals, Sequences

CONSTANTS
    Declarers,    \* the operators that declare and resolve incidents
    Calls,        \* slots for calls in flight at the same time
    MaxIncidents  \* bound: incidents declared

ASSUME IncidentsAssumption == MaxIncidents \in Nat

VARIABLES
    incidents,  \* the rows of incident, in the order of insertion
    handlers    \* the handler in each slot

incidentsVars == <<incidents, handlers>>

\* locked is fige_systeme: an internal incident, not a gateway one.
Incident(op, locked) == [op |-> op, locked |-> locked, status |-> "EN_COURS"]

\* `id' is the incident to resolve; `upTo', a ghost, how many incidents there
\* were when the gate was read.
Handler(pc, op, locked, id, upTo) ==
    [pc |-> pc, op |-> op, locked |-> locked, id |-> id, upTo |-> upTo]
Free == Handler("free", "nobody", FALSE, 0, 0)

HandlerType ==
    [pc : {"free", "create", "resolve", "step"}, op : Declarers \cup {"nobody"},
     locked : BOOLEAN, id : 0..MaxIncidents, upTo : 0..MaxIncidents]

IncidentIds == DOMAIN incidents
Freezes(i) == incidents[i].locked /\ incidents[i].status = "EN_COURS"
HasOpen(op) == \E i \in IncidentIds : Freezes(i) /\ incidents[i].op = op
MarketFrozen == \E i \in IncidentIds : Freezes(i)

IncidentsInit ==
    /\ incidents = <<>>
    /\ handlers = [c \in Calls |-> Free]

Handle(c, handler) == handlers' = [handlers EXCEPT ![c] = handler]
AtHandler(c, pc) == handlers[c].pc = pc

-----------------------------------------------------------------------------
\* POST /incidents/{gateway,interne}: the check outside the transaction, ...
DeclareIncident(c, op, locked) ==
    /\ AtHandler(c, "free")
    /\ locked => ~ HasOpen(op)
    /\ Handle(c, Handler("create", op, locked, 0, 0))
    /\ UNCHANGED incidents

\* Mutant: no partial unique index.
CreateUnchecked(c) ==
    LET h == handlers[c] IN
    /\ AtHandler(c, "create")
    /\ Len(incidents) < MaxIncidents
    /\ incidents' = Append(incidents, Incident(h.op, h.locked))
    /\ Handle(c, Free)

\* ... and the INSERT, which the partial unique index may refuse.
Create(c) ==
    LET h == handlers[c] IN
    /\ AtHandler(c, "create")
    /\ Len(incidents) < MaxIncidents
    /\ incidents' = IF h.locked /\ HasOpen(h.op) THEN incidents
                    ELSE Append(incidents, Incident(h.op, h.locked))
    /\ Handle(c, Free)

\* Mutant: whoever asks may resolve.
CanResolveAny(i, locked, op) == incidents[i].locked = locked

\* The segment of the URL first, then the ownership.
CanResolveIncident(i, locked, op) ==
    /\ incidents[i].locked = locked
    /\ incidents[i].op = op

\* POST /incidents/{gateway,interne}/:id/resoudre.
ResolveIncident(c, op, locked, i) ==
    /\ AtHandler(c, "free")
    /\ CanResolveIncident(i, locked, op)
    /\ Handle(c, Handler("resolve", op, locked, i, 0))
    /\ UNCHANGED incidents

\* The UPDATE names the id alone: an incident may be resolved again.
Resolve(c) ==
    /\ AtHandler(c, "resolve")
    /\ incidents' = [incidents EXCEPT ![handlers[c].id].status = "RESOLU"]
    /\ Handle(c, Free)

\* Mutant: only the caller's own incident closes the gate.
GateOfOwn(c, op) ==
    /\ AtHandler(c, "free")
    /\ ~ HasOpen(op)
    /\ Handle(c, Handler("step", op, FALSE, 0, Len(incidents)))
    /\ UNCHANGED incidents

\* acceptation, a-confirmer, traitement: the gate, before the body is bound, ...
Gate(c, op) ==
    /\ AtHandler(c, "free")
    /\ ~ MarketFrozen
    /\ Handle(c, Handler("step", op, FALSE, 0, Len(incidents)))
    /\ UNCHANGED incidents

\* ... and the step's transaction, or its refusal, which Workflow models.
StepEnds(c) ==
    /\ AtHandler(c, "step")
    /\ Handle(c, Free)
    /\ UNCHANGED incidents

\* The process dies, or the client goes away: nothing more is written.
Abandon(cs) ==
    /\ handlers' = [c \in Calls |-> IF c \in cs THEN Free ELSE handlers[c]]
    /\ UNCHANGED incidents

HandlerStep(c) == Create(c) \/ Resolve(c) \/ StepEnds(c)

-----------------------------------------------------------------------------
(***************************************************************************)
(* The incidents on their own, whoever calls and however they stop.        *)
(***************************************************************************)
IncidentsNext ==
    \/ \E c \in Calls :
        \/ \E op \in Declarers :
              \/ \E locked \in BOOLEAN : DeclareIncident(c, op, locked)
              \/ \E locked \in BOOLEAN, i \in IncidentIds :
                    ResolveIncident(c, op, locked, i)
              \/ Gate(c, op)
        \/ HandlerStep(c)
        \/ Abandon({c})
    \/ Abandon(Calls)

IncidentsSpec == IncidentsInit /\ [][IncidentsNext]_incidentsVars

-----------------------------------------------------------------------------
\* An operator has one internal incident open at most, however its
\* declarations race.
OneOpenPerOperator ==
    \A i, j \in IncidentIds :
        Freezes(i) /\ Freezes(j) /\ incidents[i].op = incidents[j].op => i = j

\* A porting step that runs in a frozen market had passed the gate before any
\* of the incidents that freeze it was declared.
StepsLetInBeforeTheFreeze ==
    \A c \in Calls : AtHandler(c, "step") =>
        \A i \in IncidentIds : Freezes(i) => i > handlers[c].upTo

\* The market thaws by the resolution of the last internal incident by the
\* operator that declared it, never by a crash, a restart or anyone else.
Thaws ==
    \E c \in Calls :
        /\ AtHandler(c, "resolve")
        /\ incidents[handlers[c].id].op = handlers[c].op
        /\ \A i \in IncidentIds : Freezes(i) => i = handlers[c].id
ThawedByItsDeclarant ==
    [][MarketFrozen /\ ~ MarketFrozen' => Thaws]_incidentsVars

=================================================================================
