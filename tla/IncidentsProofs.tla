----------------------------- MODULE IncidentsProofs ------------------------------
(***************************************************************************)
(* What Incidents promises, for every set of operators, calls and bound.   *)
(***************************************************************************)
EXTENDS Incidents, TLAPS

Row == [op : Declarers, locked : BOOLEAN, status : {"EN_COURS", "RESOLU"}]

\* Every variable has its type.
Typed ==
    /\ incidents \in Seq(Row)
    /\ Len(incidents) <= MaxIncidents
    /\ handlers \in [Calls -> HandlerType]

\* A handler that is to create has a declarant; one that is to resolve had
\* found its own incident, whose declarant never changes; one that is to step
\* had found no more incidents than there are.
HandlersKnow ==
    \A c \in Calls :
        /\ AtHandler(c, "create") => handlers[c].op \in Declarers
        /\ AtHandler(c, "resolve") =>
              /\ handlers[c].id \in IncidentIds
              /\ incidents[handlers[c].id].op = handlers[c].op
        /\ AtHandler(c, "step") => handlers[c].upTo <= Len(incidents)

IInv == Typed /\ HandlersKnow /\ OneOpenPerOperator /\ StepsLetInBeforeTheFreeze

-----------------------------------------------------------------------------
\* Appending a row leaves the others where they are.
LEMMA Appending ==
    ASSUME NEW s \in Seq(Row), NEW x \in Row
    PROVE  /\ Append(s, x) \in Seq(Row)
           /\ Len(Append(s, x)) = Len(s) + 1
           /\ DOMAIN Append(s, x) = DOMAIN s \cup {Len(s) + 1}
           /\ \A i \in DOMAIN s : Append(s, x)[i] = s[i]
           /\ Append(s, x)[Len(s) + 1] = x
    OBVIOUS

\* A handler that is put in its slot, the others being left alone, is known
\* if it knows what it needs.
LEMMA Handling ==
    ASSUME IInv, NEW c \in Calls, NEW h \in HandlerType, Handle(c, h),
           UNCHANGED incidents,
           h.pc = "create" => h.op \in Declarers,
           h.pc = "resolve" => /\ h.id \in IncidentIds
                               /\ incidents[h.id].op = h.op,
           h.pc = "step" => /\ h.upTo <= Len(incidents)
                            /\ \A i \in IncidentIds : Freezes(i) => i > h.upTo
    PROVE  IInv'
<1>1. /\ handlers' \in [Calls -> HandlerType]
      /\ handlers'[c] = h
      /\ \A d \in Calls \ {c} : handlers'[d] = handlers[d]
    BY DEF IInv, Typed, Handle
<1>2. Typed'
    BY <1>1 DEF IInv, Typed
<1>3. HandlersKnow'
    BY <1>1 DEF IInv, HandlersKnow, AtHandler, IncidentIds
<1>4. OneOpenPerOperator'
    BY DEF IInv, OneOpenPerOperator, IncidentIds, Freezes
<1>5. StepsLetInBeforeTheFreeze'
    BY <1>1 DEF IInv, StepsLetInBeforeTheFreeze, AtHandler, IncidentIds, Freezes
<1> QED  BY <1>2, <1>3, <1>4, <1>5 DEF IInv

\* A handler at rest is a handler.
LEMMA FreeType == Free \in HandlerType
    BY IncidentsAssumption DEF Free, Handler, HandlerType

\* Creating is refused when it would open a second internal incident, and what
\* is created comes after all that a gate has seen.
LEMMA Creating ==
    ASSUME IInv, NEW c \in Calls, Create(c)
    PROVE  IInv'
<1> DEFINE h == handlers[c]
<1> DEFINE x == Incident(h.op, h.locked)
<1>1. h \in HandlerType /\ h.op \in Declarers /\ h.pc = "create"
    BY DEF IInv, Typed, HandlersKnow, Create, AtHandler
<1>2. x \in Row
    BY <1>1 DEF Incident, Row, HandlerType
<1>3. CASE h.locked /\ HasOpen(h.op)
    <2>1. UNCHANGED incidents /\ Handle(c, Free)
        BY <1>3 DEF Create
    <2> QED  BY <2>1, FreeType, Handling DEF Free, Handler
<1>4. CASE ~ (h.locked /\ HasOpen(h.op))
    <2>1. /\ incidents' = Append(incidents, x)
          /\ Len(incidents) < MaxIncidents
          /\ handlers' = [handlers EXCEPT ![c] = Free]
        BY <1>4 DEF Create, Handle
    <2>2. incidents \in Seq(Row) /\ Len(incidents) \in Nat
        BY DEF IInv, Typed
    <2>3. /\ incidents' \in Seq(Row)
          /\ Len(incidents') = Len(incidents) + 1
          /\ IncidentIds' = IncidentIds \cup {Len(incidents) + 1}
          /\ \A i \in IncidentIds : incidents'[i] = incidents[i]
          /\ incidents'[Len(incidents) + 1] = x
        BY <2>1, <2>2, <1>2, Appending DEF IncidentIds
    <2>4. /\ handlers' \in [Calls -> HandlerType]
          /\ handlers'[c].pc = "free"
          /\ \A d \in Calls \ {c} : handlers'[d] = handlers[d]
        BY <2>1, FreeType DEF IInv, Typed, Free, Handler
    <2>5. Typed'
        BY <2>1, <2>2, <2>3, <2>4, IncidentsAssumption DEF Typed
    <2>6. HandlersKnow'
        <3>1. ~ AtHandler(c, "create")' /\ ~ AtHandler(c, "resolve")' /\ ~ AtHandler(c, "step")'
            BY <2>4 DEF AtHandler
        <3>2. ASSUME NEW d \in Calls \ {c}
              PROVE  /\ AtHandler(d, "create")' => handlers'[d].op \in Declarers
                     /\ AtHandler(d, "resolve")' =>
                           /\ handlers'[d].id \in IncidentIds'
                           /\ incidents'[handlers'[d].id].op = handlers'[d].op
                     /\ AtHandler(d, "step")' => handlers'[d].upTo <= Len(incidents')
            <4>1. handlers'[d] = handlers[d] /\ handlers[d].upTo \in Nat
                BY <2>4 DEF IInv, Typed, HandlerType
            <4>2. /\ AtHandler(d, "create") => handlers[d].op \in Declarers
                  /\ AtHandler(d, "resolve") =>
                        /\ handlers[d].id \in IncidentIds
                        /\ incidents[handlers[d].id].op = handlers[d].op
                  /\ AtHandler(d, "step") => handlers[d].upTo <= Len(incidents)
                BY DEF IInv, HandlersKnow
            <4>3. \A pc : AtHandler(d, pc)' <=> AtHandler(d, pc)
                BY <4>1 DEF AtHandler
            <4>4. AtHandler(d, "resolve") =>
                     /\ handlers[d].id \in IncidentIds'
                     /\ incidents'[handlers[d].id].op = handlers[d].op
                BY <2>3, <4>2
            <4>5. AtHandler(d, "step") => handlers[d].upTo <= Len(incidents')
                BY <2>2, <2>3, <4>1, <4>2
            <4> QED  BY <4>1, <4>2, <4>3, <4>4, <4>5
        <3> QED  BY <3>1, <3>2 DEF HandlersKnow
    <2>7. OneOpenPerOperator'
        <3>1. \A i \in IncidentIds : incidents[i].op = x.op /\ Freezes(i) => ~ x.locked
            BY <1>4, <1>1 DEF HasOpen, Incident
        <3>2. \A i \in IncidentIds : Freezes(i)' <=> Freezes(i)
            BY <2>3 DEF Freezes
        <3>3. PICK n : n = Len(incidents) + 1 /\ incidents'[n] = x
            BY <2>3
        <3>4. SUFFICES ASSUME NEW i \in IncidentIds', NEW j \in IncidentIds',
                              Freezes(i)', Freezes(j)',
                              incidents'[i].op = incidents'[j].op
                       PROVE  i = j
            BY DEF OneOpenPerOperator
        <3>5. CASE i \in IncidentIds /\ j \in IncidentIds
            BY <3>2, <3>4, <3>5, <2>3 DEF IInv, OneOpenPerOperator
        <3>6. ASSUME NEW k \in IncidentIds, Freezes(k)', Freezes(n)',
                     incidents'[k].op = incidents'[n].op
              PROVE  FALSE
            BY <3>1, <3>2, <3>3, <3>6, <2>3 DEF Freezes
        <3>7. i \in IncidentIds \/ i = n
            BY <3>3, <3>4, <2>3
        <3>8. j \in IncidentIds \/ j = n
            BY <3>3, <3>4, <2>3
        <3> QED  BY <3>4, <3>5, <3>6, <3>7, <3>8
    <2>8. StepsLetInBeforeTheFreeze'
        <3>1. \A i \in IncidentIds : Freezes(i)' <=> Freezes(i)
            BY <2>3 DEF Freezes
        <3>2. SUFFICES ASSUME NEW d \in Calls, AtHandler(d, "step")',
                              NEW i \in IncidentIds', Freezes(i)'
                       PROVE  i > handlers'[d].upTo
            BY DEF StepsLetInBeforeTheFreeze
        <3>3. d # c /\ handlers'[d] = handlers[d] /\ AtHandler(d, "step")
            BY <3>2, <2>4 DEF AtHandler
        <3>4. handlers[d].upTo \in Nat /\ handlers[d].upTo <= Len(incidents)
            BY <3>3, IncidentsAssumption DEF IInv, Typed, HandlersKnow, HandlerType
        <3>5. CASE i \in IncidentIds
            BY <3>1, <3>2, <3>3, <3>5 DEF IInv, StepsLetInBeforeTheFreeze
        <3>6. CASE i = Len(incidents) + 1
            BY <3>3, <3>4, <3>6, <2>2
        <3> QED  BY <3>5, <3>6, <2>3
    <2> QED  BY <2>5, <2>6, <2>7, <2>8 DEF IInv
<1> QED  BY <1>3, <1>4

\* Resolving only ever closes one.
LEMMA Resolving ==
    ASSUME IInv, NEW c \in Calls, Resolve(c)
    PROVE  IInv'
<1>0. PICK id \in IncidentIds : id = handlers[c].id
    BY DEF IInv, HandlersKnow, Resolve
<1>1. incidents \in Seq(Row)
    BY DEF IInv, Typed
<1>2. /\ incidents' = [incidents EXCEPT ![id].status = "RESOLU"]
      /\ handlers' = [handlers EXCEPT ![c] = Free]
    BY <1>0 DEF Resolve, Handle
<1>3. /\ incidents' \in Seq(Row)
      /\ Len(incidents') = Len(incidents)
      /\ IncidentIds' = IncidentIds
      /\ \A i \in IncidentIds : /\ incidents'[i].op = incidents[i].op
                                /\ Freezes(i)' => Freezes(i)
    <2>1. /\ DOMAIN incidents' = DOMAIN incidents
          /\ \A i \in IncidentIds \ {id} : incidents'[i] = incidents[i]
          /\ incidents'[id] = [incidents[id] EXCEPT !.status = "RESOLU"]
        BY <1>1, <1>2 DEF IncidentIds
    <2>2. \A i \in IncidentIds : incidents[i] \in Row
        BY <1>1 DEF IncidentIds
    <2>3. \A i \in IncidentIds : incidents'[i] \in Row
        BY <2>1, <2>2 DEF Row
    <2>4. incidents' \in Seq(Row) /\ Len(incidents') = Len(incidents)
        BY <1>1, <1>2, <2>1, <2>3 DEF IncidentIds
    <2>5. incidents'[id].op = incidents[id].op /\ ~ Freezes(id)'
        BY <2>1, <2>2, <1>1 DEF Row, Freezes
    <2>6. ASSUME NEW i \in IncidentIds
          PROVE  incidents'[i].op = incidents[i].op /\ (Freezes(i)' => Freezes(i))
        BY <2>1, <2>5 DEF Freezes
    <2> QED  BY <2>1, <2>4, <2>6 DEF IncidentIds
<1>4. /\ handlers' \in [Calls -> HandlerType]
      /\ handlers'[c].pc = "free"
      /\ \A d \in Calls \ {c} : handlers'[d] = handlers[d]
    BY <1>2, FreeType DEF IInv, Typed, Free, Handler
<1>5. Typed'
    BY <1>3, <1>4 DEF IInv, Typed
<1>6. HandlersKnow'
    BY <1>3, <1>4 DEF IInv, HandlersKnow, AtHandler
<1>7. OneOpenPerOperator'
    BY <1>3 DEF IInv, OneOpenPerOperator
<1>8. StepsLetInBeforeTheFreeze'
    BY <1>3, <1>4 DEF IInv, StepsLetInBeforeTheFreeze, AtHandler
<1> QED  BY <1>5, <1>6, <1>7, <1>8 DEF IInv

\* A call that is abandoned leaves everything as it is.
LEMMA Abandoning ==
    ASSUME IInv, NEW cs, Abandon(cs)
    PROVE  IInv'
<1>1. /\ handlers' \in [Calls -> HandlerType]
      /\ \A d \in Calls : handlers'[d] = handlers[d] \/ handlers'[d].pc = "free"
    BY FreeType DEF IInv, Typed, Abandon, Free, Handler
<1>2. incidents' = incidents
    BY DEF Abandon
<1>3. Typed'
    BY <1>1, <1>2 DEF IInv, Typed
<1>4. HandlersKnow'
    BY <1>1, <1>2 DEF IInv, HandlersKnow, AtHandler, IncidentIds
<1>5. OneOpenPerOperator'
    BY <1>2 DEF IInv, OneOpenPerOperator, IncidentIds, Freezes
<1>6. StepsLetInBeforeTheFreeze'
    BY <1>1, <1>2 DEF IInv, StepsLetInBeforeTheFreeze, AtHandler, IncidentIds, Freezes
<1> QED  BY <1>3, <1>4, <1>5, <1>6 DEF IInv

-----------------------------------------------------------------------------
\* The invariant holds before anything is declared.
LEMMA Initially == IncidentsInit => IInv
<1> SUFFICES ASSUME IncidentsInit PROVE IInv
    OBVIOUS
<1>1. /\ incidents = <<>>
      /\ handlers \in [Calls -> HandlerType]
      /\ \A c \in Calls : handlers[c].pc = "free"
    BY FreeType DEF IncidentsInit, Free, Handler
<1>2. Typed
    BY <1>1, IncidentsAssumption DEF Typed
<1>3. HandlersKnow
    BY <1>1 DEF HandlersKnow, AtHandler
<1>4. OneOpenPerOperator
    BY <1>1 DEF OneOpenPerOperator, IncidentIds
<1>5. StepsLetInBeforeTheFreeze
    BY <1>1 DEF StepsLetInBeforeTheFreeze, IncidentIds
<1> QED  BY <1>2, <1>3, <1>4, <1>5 DEF IInv

\* Every statement on the incidents keeps it.
LEMMA Inductive == IInv /\ [IncidentsNext]_incidentsVars => IInv'
<1> SUFFICES ASSUME IInv, [IncidentsNext]_incidentsVars PROVE IInv'
    OBVIOUS
<1>1. \A i \in IncidentIds : i \in 1..MaxIncidents
    BY IncidentsAssumption DEF IInv, Typed, IncidentIds
<1>2. Len(incidents) \in 0..MaxIncidents
    BY IncidentsAssumption DEF IInv, Typed
<1>3. ASSUME NEW c \in Calls, NEW op \in Declarers, NEW locked \in BOOLEAN,
             DeclareIncident(c, op, locked)
      PROVE  IInv'
    <2>1. Handler("create", op, locked, 0, 0) \in HandlerType
        BY IncidentsAssumption DEF Handler, HandlerType
    <2> QED  BY <1>3, <2>1, Handling DEF DeclareIncident, Handler
<1>4. ASSUME NEW c \in Calls, NEW op \in Declarers, NEW locked \in BOOLEAN,
             NEW i \in IncidentIds, ResolveIncident(c, op, locked, i)
      PROVE  IInv'
    <2>1. Handler("resolve", op, locked, i, 0) \in HandlerType
        BY <1>1, IncidentsAssumption DEF Handler, HandlerType
    <2> QED  BY <1>4, <2>1, Handling DEF ResolveIncident, CanResolveIncident, Handler
<1>5. ASSUME NEW c \in Calls, NEW op \in Declarers, Gate(c, op)
      PROVE  IInv'
    <2>1. Handler("step", op, FALSE, 0, Len(incidents)) \in HandlerType
        BY <1>2, IncidentsAssumption DEF Handler, HandlerType
    <2> QED  BY <1>2, <1>5, <2>1, Handling DEF Gate, MarketFrozen, Handler
<1>6. ASSUME NEW c \in Calls, HandlerStep(c)
      PROVE  IInv'
    <2>1. CASE Create(c)
        BY <2>1, Creating
    <2>2. CASE Resolve(c)
        BY <2>2, Resolving
    <2>3. CASE StepEnds(c)
        BY <2>3, FreeType, Handling DEF StepEnds, Free, Handler
    <2> QED  BY <1>6, <2>1, <2>2, <2>3 DEF HandlerStep
<1>7. ASSUME NEW cs, Abandon(cs)
      PROVE  IInv'
    BY <1>7, Abandoning
<1>8. CASE UNCHANGED incidentsVars
    BY <1>8 DEF incidentsVars, IInv, Typed, HandlersKnow, OneOpenPerOperator,
                StepsLetInBeforeTheFreeze, AtHandler, IncidentIds, Freezes
<1>9. CASE IncidentsNext
    BY <1>3, <1>4, <1>5, <1>6, <1>7, <1>9 DEF IncidentsNext
<1> QED  BY <1>8, <1>9

\* The strengthened invariant: what each handler has seen is still so.
THEOREM IncidentsInvariant == IncidentsSpec => []IInv
    BY Initially, Inductive, PTL DEF IncidentsSpec

\* However declarations race, the partial unique index leaves an operator one
\* internal incident open at most.
THEOREM OneOpen == IncidentsSpec => []OneOpenPerOperator
<1>1. IInv => OneOpenPerOperator
    BY DEF IInv
<1> QED  BY <1>1, IncidentsInvariant, PTL

\* The gate is read outside the step's transaction; a step that runs in a
\* frozen market was let in before the freeze.
THEOREM StepsPrecedeTheFreeze == IncidentsSpec => []StepsLetInBeforeTheFreeze
<1>1. IInv => StepsLetInBeforeTheFreeze
    BY DEF IInv
<1> QED  BY <1>1, IncidentsInvariant, PTL

-----------------------------------------------------------------------------
\* Only a resolution, by its declarant, of the last incident that freezes the
\* market thaws it.
LEMMA Thawing ==
    IInv /\ [IncidentsNext]_incidentsVars => (MarketFrozen /\ ~ MarketFrozen' => Thaws)
<1> SUFFICES ASSUME IInv, IncidentsNext, MarketFrozen, ~ MarketFrozen',
                    incidents' # incidents
             PROVE  Thaws
    BY DEF incidentsVars, MarketFrozen, IncidentIds, Freezes
<1>1. PICK c \in Calls : Create(c) \/ Resolve(c)
    BY DEF IncidentsNext, HandlerStep, DeclareIncident, ResolveIncident, Gate,
           StepEnds, Abandon
<1>2. PICK i \in IncidentIds : Freezes(i)
    BY DEF MarketFrozen
<1>3. ~ Create(c)
    <2> SUFFICES ASSUME Create(c) PROVE FALSE
        OBVIOUS
    <2>1. PICK x \in Row : incidents' = Append(incidents, x)
        <3>1. handlers[c] \in HandlerType /\ handlers[c].op \in Declarers
            BY DEF IInv, Typed, HandlersKnow, Create
        <3>2. Incident(handlers[c].op, handlers[c].locked) \in Row
            BY <3>1 DEF Incident, Row, HandlerType
        <3> QED  BY <3>2 DEF Create
    <2>2. i \in IncidentIds' /\ incidents'[i] = incidents[i]
        BY <2>1, Appending DEF IInv, Typed, IncidentIds
    <2> QED  BY <1>2, <2>2 DEF MarketFrozen, Freezes
<1>4. Resolve(c)
    BY <1>1, <1>3
<1>5. /\ AtHandler(c, "resolve")
      /\ incidents[handlers[c].id].op = handlers[c].op
    BY <1>4 DEF Resolve, IInv, HandlersKnow
<1>6. ASSUME NEW j \in IncidentIds, Freezes(j), j # handlers[c].id
      PROVE  FALSE
    <2>1. j \in IncidentIds' /\ incidents'[j] = incidents[j]
        BY <1>4, <1>6 DEF Resolve, IncidentIds, IInv, Typed
    <2> QED  BY <2>1, <1>6 DEF MarketFrozen, Freezes
<1> QED  BY <1>5, <1>6 DEF Thaws

\* A freeze outlives everything but its resolution by its declarant.
THEOREM FreezeOutlives == IncidentsSpec => ThawedByItsDeclarant
<1>1. IInv /\ [IncidentsNext]_incidentsVars
        => [MarketFrozen /\ ~ MarketFrozen' => Thaws]_incidentsVars
    BY Thawing
<1> QED  BY <1>1, IncidentsInvariant, PTL DEF IncidentsSpec, ThawedByItsDeclarant

-----------------------------------------------------------------------------
(***************************************************************************)
(* Workflow has of the incidents only who has one open, and opens and      *)
(* closes it in one step.  The rows, the checks outside the transactions   *)
(* and the index give it no more: a step of theirs is one of Workflow's on *)
(* that set, or leaves the set alone.  There is no request in sight.       *)
(***************************************************************************)
Frozen == {op \in Declarers : HasOpen(op)}

Market == INSTANCE Workflow WITH
    incidents <- Frozen, Operators <- Declarers, None <- "nobody",
    Requests <- {}, Numbers <- {}, Portfolio <- <<>>, Registry <- <<>>,
    Calls <- {}, Purgers <- {}, Deferred <- FALSE, StepTimeout <- FALSE,
    MaxFaults <- 0,
    demande <- <<>>, rejected <- <<>>, numberRouting <- <<>>, closings <- <<>>,
    decisions <- <<>>, confirmed <- <<>>, numero <- <<>>, overdue <- {},
    overdueAtTick <- {}, calls <- <<>>, engine <- <<>>, faults <- 0

FreezesAsModelled ==
    [][\E op \in Declarers :
          Market!DeclareIncident(op) \/ Market!ResolveIncident(op)]_Frozen

\* An incident that freezes the market is open under the name of a declarant.
LEMMA FrozenBy ==
    ASSUME Typed, NEW i \in IncidentIds, Freezes(i)
    PROVE  incidents[i].op \in Frozen
<1>1. incidents[i] \in Row
    BY DEF Typed, IncidentIds
<1> QED  BY <1>1 DEF Row, Frozen, HasOpen

\* An INSERT that goes through opens an incident of an operator that had none.
LEMMA CreateOpens ==
    ASSUME IInv, NEW c \in Calls, Create(c), Frozen' # Frozen
    PROVE  \E op \in Declarers : Market!DeclareIncident(op)
<1>1. PICK op \in Declarers : op = handlers[c].op
    BY DEF IInv, HandlersKnow, Create
<1>2. PICK x : x = Incident(op, handlers[c].locked)
    OBVIOUS
<1>3. incidents' # incidents
    BY DEF Frozen, HasOpen, IncidentIds, Freezes
<1>4. incidents' = Append(incidents, x) /\ ~ (handlers[c].locked /\ HasOpen(op))
    BY <1>1, <1>2, <1>3 DEF Create
<1>5. x \in Row
    <2>1. handlers[c].locked \in BOOLEAN
        BY DEF IInv, Typed, HandlerType
    <2> QED  BY <1>2, <2>1 DEF Incident, Row
<1>6. incidents \in Seq(Row) /\ Len(incidents) \in Nat
    BY DEF IInv, Typed
<1>7. PICK n : n = Len(incidents) + 1
    OBVIOUS
<1>8. /\ IncidentIds' = IncidentIds \cup {n}
      /\ \A i \in IncidentIds : incidents'[i] = incidents[i]
      /\ incidents'[n] = x
    BY <1>4, <1>5, <1>6, <1>7, Appending DEF IncidentIds
<1>9. x.op = op /\ x.locked = handlers[c].locked /\ x.status = "EN_COURS"
    BY <1>2 DEF Incident
<1>10. ASSUME NEW o
       PROVE  HasOpen(o)' <=> HasOpen(o) \/ (handlers[c].locked /\ o = op)
    <2>1. HasOpen(o)' <=> \E i \in IncidentIds \cup {n} :
              /\ incidents'[i].locked
              /\ incidents'[i].status = "EN_COURS"
              /\ incidents'[i].op = o
        BY <1>8 DEF HasOpen, Freezes
    <2> QED  BY <2>1, <1>8, <1>9 DEF HasOpen, Freezes
<1>11. handlers[c].locked
    BY <1>10 DEF Frozen
<1>12. op \notin Frozen /\ Frozen' = Frozen \cup {op}
    BY <1>4, <1>10, <1>11 DEF Frozen
<1> QED  BY <1>12 DEF Market!DeclareIncident, Market!store

\* An UPDATE that changes who freezes the market closes the only incident its
\* operator had open.
LEMMA ResolveCloses ==
    ASSUME IInv, NEW c \in Calls, Resolve(c), Frozen' # Frozen
    PROVE  \E op \in Declarers : Market!ResolveIncident(op)
<1>1. PICK id \in IncidentIds : id = handlers[c].id
    BY DEF IInv, HandlersKnow, Resolve
<1>2. incidents \in Seq(Row)
    BY DEF IInv, Typed
<1>3. incidents' = [incidents EXCEPT ![id].status = "RESOLU"]
    BY <1>1 DEF Resolve
<1>4. PICK op \in Declarers : op = incidents[id].op
    <2>1. incidents[id] \in Row
        BY <1>2 DEF IncidentIds
    <2> QED  BY <2>1 DEF Row
<1>5. /\ IncidentIds' = IncidentIds
      /\ \A i \in IncidentIds \ {id} : incidents'[i] = incidents[i]
      /\ ~ Freezes(id)'
    <2>1. incidents[id] \in Row
        BY <1>2 DEF IncidentIds
    <2>2. incidents'[id] = [incidents[id] EXCEPT !.status = "RESOLU"]
        BY <1>2, <1>3 DEF IncidentIds
    <2>3. incidents'[id].status = "RESOLU"
        BY <2>1, <2>2 DEF Row
    <2> QED  BY <1>2, <1>3, <2>3 DEF IncidentIds, Freezes
<1>6. ASSUME NEW o
      PROVE  HasOpen(o)' <=> \E i \in IncidentIds \ {id} :
                                 Freezes(i) /\ incidents[i].op = o
    BY <1>5 DEF HasOpen, Freezes
<1>7. Freezes(id)
    BY <1>6 DEF Frozen, HasOpen
<1>8. op \in Frozen
    BY <1>4, <1>7 DEF Frozen, HasOpen
<1>9. \A i \in IncidentIds \ {id} : Freezes(i) => incidents[i].op # op
    BY <1>4, <1>7 DEF IInv, OneOpenPerOperator
<1>10. Frozen' = Frozen \ {op}
    <2>1. ASSUME NEW o
          PROVE  HasOpen(o)' <=> HasOpen(o) /\ o # op
        BY <1>4, <1>6, <1>9 DEF HasOpen
    <2> QED  BY <2>1 DEF Frozen
<1> QED  BY <1>8, <1>10 DEF Market!ResolveIncident, Market!store

\* Each step on the incidents is, of who freezes the market, one of Workflow's.
LEMMA FreezeStep ==
    IInv /\ [IncidentsNext]_incidentsVars
        => [\E op \in Declarers :
               Market!DeclareIncident(op) \/ Market!ResolveIncident(op)]_Frozen
<1> SUFFICES ASSUME IInv, [IncidentsNext]_incidentsVars, Frozen' # Frozen
             PROVE  \E op \in Declarers :
                        Market!DeclareIncident(op) \/ Market!ResolveIncident(op)
    OBVIOUS
<1>1. incidents' # incidents
    BY DEF Frozen, HasOpen, IncidentIds, Freezes
<1>2. PICK c \in Calls : Create(c) \/ Resolve(c)
    BY <1>1 DEF IncidentsNext, HandlerStep, DeclareIncident, ResolveIncident,
                Gate, StepEnds, Abandon, incidentsVars
<1> QED  BY <1>2, CreateOpens, ResolveCloses

\* What the rows of incident do to the market is what Workflow does to it, and
\* the gate of the steps is closed in the one when it is in the other.
THEOREM IncidentsFreezeTheMarket ==
    IncidentsSpec => FreezesAsModelled /\ [](MarketFrozen <=> Market!MarketFrozen)
<1>1. IInv => (MarketFrozen <=> Market!MarketFrozen)
    <2> SUFFICES ASSUME IInv PROVE MarketFrozen <=> Market!MarketFrozen
        OBVIOUS
    <2>1. MarketFrozen => Frozen # {}
        BY FrozenBy DEF IInv, MarketFrozen
    <2>2. Frozen # {} => MarketFrozen
        BY DEF Frozen, HasOpen, MarketFrozen
    <2> QED  BY <2>1, <2>2 DEF Market!MarketFrozen
<1> QED  BY <1>1, FreezeStep, IncidentsInvariant, PTL
         DEF IncidentsSpec, FreezesAsModelled

===================================================================================
