--------------------------------- MODULE Startup ---------------------------------
(***************************************************************************)
(* The server's process and the database it finds: a start applies the     *)
(* migrations and seeds, statement by statement, before anything is        *)
(* served; it may die anywhere and be started again with other settings on *)
(* the same database, whose numbers have moved since.                      *)
(***************************************************************************)
EXTENDS Configuration, Eligibility

CONSTANTS
    Operators,         \* the seeded operators
    Fixed,             \* those whose unported ranges have the fixed size
    UnportedRanges,    \* sequence of [prefix, operator]
    HistoricalRanges,  \* sequence of [prefix, operator]
    PortedRanges,      \* sequence of [prefix, current, origin]
    PortedScenarios,   \* sequence of [daysAgo, returned]
    FixedRangeSize,    \* seed.fixedRangeSize
    Today,             \* bound: the one instant of the model
    Launches,          \* what the server may be started with
    Tested             \* the numbers that requests are about

\* The seed's tables name operators; what is ported was so in the past, and
\* the blocks of a range fit in it.  A duration that a launch gives is an
\* integer, or does not parse.
ASSUME StartupAssumption ==
    /\ Today \in Nat
    /\ FixedRangeSize \in 1..MaxPerRange
    /\ UnportedRanges \in Seq([prefix : STRING, operator : Operators]) \ {<<>>}
    /\ HistoricalRanges \in Seq([prefix : STRING, operator : Operators])
    /\ PortedRanges \in Seq([prefix : STRING, current : Operators, origin : Operators])
    /\ PortedScenarios \in Seq([daysAgo : 0..Today, returned : BOOLEAN])
    /\ Len(PortedScenarios) * FixedRangeSize <= MaxPerRange
    /\ \A launch \in Launches, key \in Durations :
          Setting(Environment(launch).env, key) \in Int \cup {Junk}

ASSUME LaunchAssumption ==
    \A launch \in Launches :
        /\ IsList(launch.args)
        /\ \A path \in DOMAIN launch.files : IsList(launch.files[path])

ReferenceTables == <<"operateur", "motif_rejet", "type_demande", "processus",
                     "type_incident", "utilisateur">>

NumberRow == [holder : Operators, origin : Operators,
              date : 0..Today \cup {None}, restituted : BOOLEAN]
Number(holder, origin, date, restituted) ==
    [holder |-> holder, origin |-> origin, date |-> date,
     restituted |-> restituted]

VARIABLES
    process,    \* where the server is, what it was launched with, its settings
    migrated,   \* the schema is there
    reference,  \* the reference tables and accounts that are seeded
    numero      \* the registry: a function on [prefix, tail] pairs

startupVars == <<process, migrated, reference, numero>>

Process(pc, launch, config, step) ==
    [pc |-> pc, launch |-> launch, config |-> config, step |-> step]
Down == Process("down", None, None, 0)
Serving == process.pc = "serving"

StartupInit ==
    /\ process = Down
    /\ migrated = FALSE
    /\ reference = {}
    /\ numero = [n \in {} |-> None]

-----------------------------------------------------------------------------
(***************************************************************************)
(* What a start seeds, in order: the reference tables, then one statement  *)
(* for each range and, in the 900 group, for each block of a range.        *)
(***************************************************************************)
RangeOf(prefix, current, origin, date, returned, first, size) ==
    [prefix |-> prefix, current |-> current, origin |-> origin, date |-> date,
     returned |-> returned, first |-> first, size |-> size]

\* VolumesFor: the pool, spread evenly and rounded down.
OrangeYAS(pool) == pool \div UnportedRangesPerOperator

UnportedStatement(pool, r) ==
    RangeOf(r.prefix, r.operator, r.operator, None, FALSE, 0,
            IF r.operator \in Fixed THEN FixedRangeSize ELSE OrangeYAS(pool))

HistoricalStatement(r) ==
    RangeOf(r.prefix, r.operator, r.operator, None, FALSE, 0, FixedRangeSize)

\* Block k of a ported range holds scenario k.
PortedBlock(r, k) ==
    RangeOf(r.prefix, r.current, r.origin, Today - PortedScenarios[k].daysAgo,
            PortedScenarios[k].returned, (k - 1) * FixedRangeSize, FixedRangeSize)

\* seedNumbers; the blocks range by range, a range's scenario by scenario.
Statements(pool) ==
    LET blocks == Len(PortedScenarios) IN
    [i \in DOMAIN UnportedRanges |-> UnportedStatement(pool, UnportedRanges[i])]
    \o [i \in DOMAIN HistoricalRanges |-> HistoricalStatement(HistoricalRanges[i])]
    \o [i \in 1..(Len(PortedRanges) * blocks) |->
          PortedBlock(PortedRanges[1 + ((i - 1) \div blocks)], 1 + ((i - 1) % blocks))]

\* Mutant: the series runs one number too far.
TailsAndOne(r) == r.first..(r.first + r.size)

Tails(r) == r.first..(r.first + r.size - 1)
NumbersOf(r) == {<<r.prefix, tail>> : tail \in Tails(r)}
LastOf(r) == <<r.prefix, r.first + r.size - 1>>
Overflows(r) == r.first + r.size > MaxPerRange
RowOf(r) == Number(r.current, r.origin, r.date, r.returned)

\* Mutant: the first number answers for the range.
InsertRangeOnce(r) ==
    numero' = IF r.size <= 0 \/ <<r.prefix, r.first>> \in DOMAIN numero THEN numero
              ELSE [n \in DOMAIN numero \cup NumbersOf(r) |->
                       IF n \in DOMAIN numero THEN numero[n] ELSE RowOf(r)]

\* Mutant: ON CONFLICT DO UPDATE.
InsertRangeOver(r) ==
    numero' = IF r.size <= 0 \/ LastOf(r) \in DOMAIN numero THEN numero
              ELSE [n \in DOMAIN numero \cup NumbersOf(r) |->
                       IF n \in NumbersOf(r) THEN RowOf(r) ELSE numero[n]]

\* One statement, hence whole or not at all: nothing when the last number is
\* there already, and what is there is never touched.
InsertRange(r) ==
    numero' = IF r.size <= 0 \/ LastOf(r) \in DOMAIN numero THEN numero
              ELSE [n \in DOMAIN numero \cup NumbersOf(r) |->
                       IF n \in DOMAIN numero THEN numero[n] ELSE RowOf(r)]

-----------------------------------------------------------------------------
\* A launch whose settings are wrong exits before it touches the database.
Start(launch) ==
    /\ process = Down
    /\ Boots(launch)
    /\ process' = Process("migrate", launch, Load(Environment(launch).env), 0)
    /\ UNCHANGED <<migrated, reference, numero>>

Migrate ==
    /\ process.pc = "migrate"
    /\ migrated' = TRUE
    /\ process' = Process("reference", None, process.config, 1)
    /\ UNCHANGED <<reference, numero>>

\* ON CONFLICT DO NOTHING; a table at a time stands for a row at a time.
SeedReference ==
    LET step == process.step IN
    /\ process.pc = "reference"
    /\ reference' = reference \cup {ReferenceTables[step]}
    /\ process' = IF step < Len(ReferenceTables)
                  THEN [process EXCEPT !.step = step + 1]
                  ELSE [process EXCEPT !.pc = "numbers", !.step = 1]
    /\ UNCHANGED <<migrated, numero>>

\* A range that would overflow its six digits is fatal.
SeedNumbers ==
    LET step == process.step
        statements == Statements(process.config.pool)
    IN /\ process.pc = "numbers"
       /\ ~ Overflows(statements[step])
       /\ InsertRange(statements[step])
       /\ process' = IF step < Len(statements)
                     THEN [process EXCEPT !.step = step + 1]
                     ELSE [process EXCEPT !.pc = "serving", !.step = 0]
       /\ UNCHANGED <<migrated, reference>>

\* The process dies; the database stays.
Crash ==
    /\ process # Down
    /\ process' = Down
    /\ UNCHANGED <<migrated, reference, numero>>

StartupStep ==
    \/ \E launch \in Launches : Start(launch)
    \/ Migrate \/ SeedReference \/ SeedNumbers

-----------------------------------------------------------------------------
(***************************************************************************)
(* What requests do to the registry, abstracted from Intake.               *)
(***************************************************************************)
Has(numbers) == Serving /\ numbers \subseteq DOMAIN numero

\* A PORTAGE moves its active numbers to its recipient.  They were eligible
\* when it was created; nobody looks again.
Port(numbers, op) ==
    /\ Has(numbers)
    /\ numero' = [n \in DOMAIN numero |->
          IF n \in numbers THEN [numero[n] EXCEPT !.holder = op, !.date = Today]
          ELSE numero[n]]
    /\ UNCHANGED <<process, migrated, reference>>

\* The end of a RESTITUTION or of a REVERSE.
GiveBack(n) ==
    /\ Has({n})
    /\ numero' = [numero EXCEPT ![n] =
                     Number(numero[n].origin, numero[n].origin, Today, TRUE)]
    /\ UNCHANGED <<process, migrated, reference>>

\* The purge of requests about them.
Restore(numbers) ==
    /\ Has(numbers)
    /\ numero' = [n \in DOMAIN numero |->
          IF n \in numbers
          THEN Number(numero[n].origin, numero[n].origin, None, FALSE)
          ELSE numero[n]]
    /\ UNCHANGED <<process, migrated, reference>>

NumberMoves ==
    \/ \E numbers \in (SUBSET Tested) \ {{}} :
          (\E op \in Operators : Port(numbers, op)) \/ Restore(numbers)
    \/ \E n \in Tested : GiveBack(n)

-----------------------------------------------------------------------------
(***************************************************************************)
(* GET /numeros/tranches: what an operator holds, prefix by prefix.        *)
(***************************************************************************)
Held(op, prefix) ==
    {n \in DOMAIN numero : n[1] = prefix /\ numero[n].holder = op}

\* Mutant: a number counts as ported while it is away from home.
PortedAway(op, prefix) ==
    {n \in Held(op, prefix) : numero[n].holder # numero[n].origin}

Ported(op, prefix) == {n \in Held(op, prefix) : numero[n].date # None}

RangesByOperator(op) ==
    {[prefix |-> prefix, total |-> Cardinality(Held(op, prefix)),
      nature |-> IF Ported(op, prefix) # {} THEN "already ported"
                 ELSE "never ported"]
     : prefix \in {n[1] : n \in {m \in DOMAIN numero : numero[m].holder = op}}}

=================================================================================
