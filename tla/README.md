# A TLA+ model of the porting sandbox

This directory keeps a formal model of the number-porting sandbox in `src/`: a
Go service that lets operators create, accept, process, confirm, reject and
cancel porting requests, with a background engine that converges, expires and
completes them. The model covers the server from the settings it is launched
with to the end of a request. It is written from the code; where a comment or a
document says something else, a run shows the difference.

## The system

| Component | Code (under `src/internal`) | State | Operations | Hard because | Correct when |
|---|---|---|---|---|---|
| Porting rules | `entity/step.go`, `entity/authorization.go` | none | next step, owner, may process / accept / cancel, expected confirmers | the rules are read before the write they allow | one order of steps, each step with its owner |
| Request store | `adapter/gateway/postgres`, `src/migrations` | `demande`, `demande_numero`, `etape_historique`, `confirmation`, `numero` | one SQL statement per gateway method | READ COMMITTED snapshots, row locks, unguarded `UPDATE`s | history, registry and request agree |
| Transition | `usecase/platform/apply_transition.go` | (store) | close the current step, advance or end, move the numbers | called by calls and by the engine, on a step nobody names | each step closed once, in order; an ended request is left alone |
| Acceptance | `usecase/acceptance` | (store) | accept, reject, accept a fleet in part | two statements per rejection; fleets marked number by number | a rejection is definitive; an empty fleet does not go on |
| Processing | `usecase/porting` | (store) | process a step, confirm, cancel | confirmation and transition are two transactions | the last confirmation settles the step; a cancelled request never moves |
| Engine | `framework/engine`, `usecase/platform` | one ticker goroutine | tick: convergences, expirations, reverse validation and completion | lists of identifiers go stale during the tick; a failure drops the rest | only overdue steps expire; everything listed is eventually done |
| Creation | `usecase/creation`, `entity/eligibility.go` | (store) | individual, enterprise, restitution | eligibility is read outside the inserting transaction and no constraint repeats it | one request in progress per number; moves are spaced by the delays |
| One-time passwords | `usecase/otp` | `otp` | send, verify, consume | verified in one statement, consumed in another transaction | one password, one request; guessing is bounded |
| Reverse requests | `usecase/reverse`, `cmd/artp`, `platform/auto_validate_reverses.go` | `reverse_request` | submit, validate, reject, validate automatically | validated long after submission, by two parties | one porting request per reverse request, each of them decided |
| Purge | `usecase/sandbox` | (store) | delete an operator's requests, send its numbers home | calls and ticks hold identifiers of what is deleted; each statement has its own snapshot | nothing comes back |
| Queues and queries | `usecase/query`, `query_gateway.go`, `view.go` | none | what each operator has to do, and what it is shown | they restate the Go guards in SQL | the queues list what the guards accept; the client is shown to whom it concerns |
| Incidents | `usecase/incident` | `incident` | declare, resolve; an open internal incident freezes the market | pre-check and insert apart; the freeze is read at the door only | one open per operator, thawed by its declarant; a freeze drains |
| Configuration | `framework/config` | process environment | arguments, environment, file, `Load` | three sources, each a way to set the same variables | the documented precedence; nothing that loads fails to seed |
| Seed and migrations | `framework/seed`, `persistence/migrate.go`, `cmd/server` | reference tables, accounts, `numero` | one start, statement by statement | killed anywhere, restarted with other settings on a used database | what serves is complete, and no number moves |
| Number ranges | `usecase/sandbox/count_number_ranges.go`, `usecase/reference` | none | counts by prefix, reference lists | a nature is read off the numbers a range holds now | never ported means portable |
| Front door | `framework/web`, `usecase/auth`, `presenter`, DTOs of `controller` | tokens | CORS, guard, routes, gate, binding, rendering of faults | the order of the layers decides what a refusal tells | a refusal hides what lies behind it |
| Instants | `framework/clock`, `port/written_timestamps.go`, `controller/instant.go` | per request: instants written | matching at the microsecond, rendering at the millisecond | three precisions and a skew | writer and readers see the same instant |
| Identifiers, pool | `framework/identifier`, `persistence/db.go` | none | | pure I/O | not modelled |
| Mapping, doubles | `postgres/mapping.go`, `testsupport` | none | | comments; code of the tests | not modelled |

An HTTP handler passes the front door and the market-freeze gate, reads the
request once (`ByID`), decides on that reading and writes in one or two later
transactions (`persistence/unit_of_work.go`); some end by asking the engine's
`ScheduleTransition` to move the request, which applies the transition at once
(`CONVERGENCE_MAX_SECONDS = 0`, the default) or writes the instant at which a
tick will. A creation reads too, number by number, and inserts in one
transaction. The engine's ticks run beside the handlers and share nothing with
them but the database.

## The modules

Indentation is `EXTENDS`. There are three families: the life of a request
(`Workflow`), how requests come to exist (`Intake`), and the process around them
(`Server`).

```
PortingRules               pure rules of entity/
  RequestStore             the tables, and every transaction that writes them
    Workflow               handlers, engine, time, incidents, purge
      Queues               the seven lists, beside the guards
        Views              what of a request each list shows
      WorkflowProperties   what must hold; instantiates Lifecycle
        MCWorkflow         instances for TLC (of Views too)
        WorkflowProofs     theorems: types, history, the abstract life
          RegistryProofs     the registry, purges, expirations; Intake's outcomes
            ConfirmationProofs (+ Views)   confirmations and queues
            SerialProofs                   decisions that do not compete
  Lifecycle                the abstract life of a request

Eligibility                CheckPortingEligibility, CheckRestitutionEligibility
  Intake                   passwords, creations, reverse requests, purge
    IntakeProperties
      MCIntake
      IntakeProofs           theorems; Startup's moves of a number

Configuration              arguments, environment, file, Load
  Startup (+ Eligibility)  one start; the registry between starts; ranges
Incidents                  declaration, resolution, freeze, gate
FrontDoor                  CORS to binding; faults in both fidelity modes
Rendering                  instants
  Server                   composes Startup, Incidents, FrontDoor, Rendering
    ServerProperties
      MCServer
IncidentsProofs            theorems about Incidents; Workflow's freeze
  ServerProofs (+ ServerProperties)  Server implements Incidents; starts,
                                     door and instants
ConfigurationProofs (+ ServerProperties)  where a setting comes from
```

**PortingRules** has `stepSequence`, `NextStep`, `StepOwner`, `CanProcess`,
`CanAccept`, `CanCancel`, `ExpectedConfirmers` under the names of the Go
functions, and `CanConfirm`, the checks that `ConfirmRequest` makes itself.

**RequestStore**. The columns of a `demande` row that nothing updates are the
constant `Portfolio`; those that statements update are `demande[r]`. `pending`
is `transition_prevue_a`: none, in the future, or past. `date_debut_etape` is
kept as what the engine's query tells apart: `overdue`, the requests whose
current step has outlived its time, and `overdueAtTick`, those for which that
was so at the instant the tick started (`tickStart` of `Engine.Tick`).
`etape_historique` is two tables, `closings` (written by transitions) and
`decisions` (written by rejections and cancellations), because a property about
one would be noise about the other. `ApplyTransition` is one atomic step: it
locks the row with `FOR UPDATE` before it reads it, and every competing write to
the request either updates that row or needs it for a foreign key. Reading,
formatting, comments, reasons and the columns of clients are left out.

**Workflow**. `calls[c]` is a handler in flight: `pc` is what it does next, and
`op`, `req`, `step`, `drop`, `noted` are what it holds from its earlier reads.

| Action | Code |
|---|---|
| `Open`, `Refuse` | the freeze gate at the head of the handlers; any refusal |
| `Accept`, `Reject`, `AcceptFleet`, `ProcessStep`, `Confirm`, `Cancel` | the reading of the request and the decision taken on it |
| `RejectInsert`, `RejectUpdate` | the two statements of `RequestGateway.Reject` |
| `FleetDecide`, `FleetCommit` | `RejectNumber`s and `HasActiveNumber`; the commit |
| `CancelInsert`, `CancelUpdate` | the two guarded statements of `RequestGateway.Cancel` |
| `InsertConfirm`, `CountConfirmations` | the confirmation's transaction; the count after it |
| `ScheduleTransition` | `Engine.ScheduleTransition`, both modes |
| `Abort` | the client leaves, or a statement fails: no more writes by this call |
| `Tick`, `ListDueConvergences`, `ListOverdueSteps`, `ListPendingReverses`, `EngineApply`, `EndTick` | one tick: the freeze, three queries, one `ApplyTransition` per identifier |
| `TickFails` | `Tick` returns an error, or the process restarts |
| `ConvergenceDue`, `StepTimesOut` | time passes |
| `DeclareIncident`, `ResolveIncident`, `Purge` | the operations of the same name |

Why a rejection is two steps: its `INSERT ... SELECT` takes its snapshot when
the statement begins and may then wait for a transition to release the row, so
the step it copies into the history can be older than the row its `UPDATE`
finds. The `UPDATE` asks for nothing but the identifier. A fleet acceptance
waits for another one only when both update the same `demande_numero` row
(`Overlapping`).

**Lifecycle** is the abstract specification, a status and a step per request.
`Promised` is the life that the comments describe; `Observed` also lets a late
rejection or cancellation overwrite the outcome of an ended request.

**Queues** translates the filters of `query_gateway.go` (`ToAccept`, `ToProcess`,
`ToConfirm`, ...), and `Resolves`, the loop of `resolveViews` that turns a
missing row into a fault of the whole list. **Views** adds what a view contains
as far as it varies: the client, whom `a-confirmer` alone hides.

**Intake**. A registry row is its holder, the date it last moved and
`deja_restitue`; a password is its attempts, its consumption and its expiry; a
request is its type, parties, active and other numbers, and whether it ended.
The `ghosts` of a request remember what its creating call had read; properties
use them to say which overlaps are to blame. A reading of a number is two
steps, the two queries of `NumberGateway.State`.

| Action | Code |
|---|---|
| `Send`, `Verify`, `IncrementAttempts` | `SendOTP`; `VerifyOTP`, whose refusal is written by a statement of its own |
| `Receive`, `ReadRow`, `ReadInProgress` | the head of the creations and of the submission; the two queries per number |
| `CreateIndividual`, `CreateEnterprise`, `CreateRestitution` | the rules on what was read, then the one transaction |
| `SubmitReverse` | `SubmitReverseRequest` |
| `ArtpValidates`, `ArtpRejects` | the commands of `cmd/artp`: `ValidateReverse`, `RejectReverse` |
| `WaitsTooLong`, `OverdueForAutoValidation`, `AutoValidate` | the delay passes; a tick's list; one transaction per element, an error ending the list |
| `ListPurge`, `CommitPurge` | the purge's first statement, from whose identifiers the others work; those others |
| `TransferToRegistry`, `RejectNumbers`, `EndOfRequest`, `Withdraw` | the outcomes: what Workflow does to a request, as far as creation can see it; a withdrawal may be late, of a request that has ended |
| `Leave` | a fault, or a client that goes away |

**Startup** has `Start` (a launch whose settings load), `Migrate`,
`SeedReference` (a table at a time), `SeedNumbers` (a statement at a time, with
`InsertRange`'s early return on the last number) and `Crash`. `Port` (of the
numbers a request retained), `GiveBack` and `Restore` (of what a purge sends
home) are what requests do to the registry between starts, with no guard but
that the numbers are there. `RangesByOperator` is `GET /numeros/tranches`.

**Configuration** is pure: `ApplyArguments`, `LoadEnvFile`, `Load` are folds and
look-ups over an environment; a launch is one combination of arguments, process
environment and files.

**Incidents** has `DeclareIncident` and `Create` (check, then insert under the
partial unique index), `ResolveIncident` and `Resolve`, `Gate` and `StepEnds`
(the freeze is read, the step runs), `Abandon`. `IncidentsSpec` lets it stand on
its own; `Server` implements it.

**FrontDoor** is pure: `Door` is the order of CORS, guard, route table and
authentication, `Controller` the gate and the binding, `Failure` the two
presenters. **Rendering** is pure too.

**Server** runs `Startup` beside `Incidents`, whose handlers are reached through
`Admitted`: a token that the current start's secret verifies and a seeded
account. A crash frees every handler and keeps every row.

## What is checked

| Run | Instance | Shows |
|---|---|---|
| `fleet_sync` | a PORTAGE of a fleet of two, 2 calls, 2 operators, immediate transitions, step timeouts; 650 000 states | `TypeOK`, `ClosedOnceInOrder`, `RegistryFollowsHistory`, `EndedStaysEnded`, and the refinement `ImplementsObserved`, under every interleaving of two calls and the engine |
| `serial_deferred` | a fleet of three, one of them excluded, and a REVERSE that retains a number of that fleet, whose creator purges; 1 call at a time, deferred transitions, 1 fault, no step timeouts; 84 000 states | `RegistryFollowsHistory` where two requests race for one number; `RejectedNumbersStay`, `NoEmptyFleetInProgress`, `FinalStatusIsFinal`, `ImplementsPromised`: what the code gives to callers with whom neither calls nor expiries compete, while convergences, purges and faults do; `QueuesCoverGuards`, the SQL filters against the Go guards; `ClientAfterConfirming`, who sees the client |
| `purge_deferred` | a RESTITUTION whose creator purges, 2 calls, 2 operators, deferred transitions, timeouts; 580 000 states | `CancelledNeverMoved`, a transition that is scheduled or listed on a cancelled request closes nothing; `PurgedLeavesNothing`, `OnlyOverdueStepsExpire`; `ConfirmationLedger`, an awaited operator sees the request in exactly one of the two confirmation lists; `NobodyForgotten`, a request in progress is in somebody's queue, the engine's, or in a call's hands |
| `porting_ends` | a PORTAGE, 1 call, deferred, timeouts, incidents, 1 fault, fair | `EveryRequestEnds`, `FreezeDrains` |
| `reverse_fair` | a REVERSE, 2 calls, immediate, no timeouts, incidents, 1 fault, fair | `ReverseNeedsEveryone`, `ConfirmedReverseCompletes` |
| `intake_creations` | 2 calls, one individual and one enterprise creation and wrong codes for the same number, a fleet of two whose second number is too recent at first | `OneRequestPerNumber` and `OnePasswordOneRequest` but for calls that overlap, which the code does not prevent; `AttemptsBounded`; `MovesAreSpaced` by three and six months |
| `intake_returns` | restitutions and reverse requests for a number away and one at home, automatic validation, purge, fair | `OneRequestPerReverse`, `SourceHoldsNumber`, `ReverseOfNumberAway`, and `ReversesGetDecided`, which a purge that fails a tick does not break |
| `server` | 34 launches, 3 operators, 3 users of whom one has no account, 2 secrets, 2 calls, 2 incidents; 195 000 states | `Precedence`, `ServingIsComplete`, `ReseedKeepsRegistry`, `NeverPortedRangesArePortable`; `OneOpenPerOperator`, `StepsLetInBeforeTheFreeze`, `ThawedByItsDeclarant`; `RefusalsHideWhatIsBehind`, `RenderingsAgree` |

Four short runs are expected to fail; each shows the code departing from what it
or a document says.

| Run | Claim | What the code does |
|---|---|---|
| `owner_violated` | each step is reserved to one operator | the transition closes whatever step it finds, which a competing call has made another operator's |
| `final_violated` | `Reject` closes a request definitively | a rejection and a cancellation overwrite one another |
| `settles_violated` | a PORTAGE settles once everyone awaited has confirmed | a call cut after its confirmation commits leaves it stuck when step timeouts are off |
| `purge_orphans` | a purge sees one consistent snapshot | each of its statements has its own: the REVERSE of a reverse request validated in between survives it |

Observations without a run of their own:

- With immediate transitions, the engine's stale list can expire the next, fresh
  step of a request that an operator has just processed. `OnlyOverdueStepsExpire`
  is therefore asked of deferred transitions; putting `Deferred = FALSE` in
  `purge_deferred` shows it.
- Two fleet acceptances that reject different numbers can leave a request
  without any number in progress, and a number rejected late can be one that was
  already transferred. `NoEmptyFleetInProgress` and `RejectedNumbersStay` are
  asked of one call at a time for that reason: no run shows the two breaking.
- An expiry of ACCEPTATION between a call's reading and `Reject`'s `UPDATE`,
  which names the identifier alone, leaves a request REJETE past ACCEPTATION.
  The code has step timeouts by default; `ImplementsPromised` and
  `FinalStatusIsFinal` are asked of a run without them, and proved where no
  expiry competes with a decision. `ImplementsObserved` and the rest of
  `fleet_sync` hold with them.
- A call past its checks may schedule a transition on a request that has been
  cancelled meanwhile. `transition_prevue_a` is then set on an ended row, which
  the engine's list passes over for ever; `CancelledNeverMoved` says that nothing
  comes of it, not that nothing is pending.
- A REVERSE is created without the eligibility rules, so a PORTAGE in progress
  may retain the same number. Whichever finishes last has it, and a purge of the
  one can send home what the other took. `RegistryFollowsHistory` says that it
  is with one of them or home, not with whom.
- The freeze is read when a call or a tick starts: one which started before
  still processes after (`StepsLetInBeforeTheFreeze` says how far that goes).
- Two creations for one number that overlap both succeed, and one password then
  opens both. `OneRequestPerNumber` and `OnePasswordOneRequest` say that nothing
  but an overlap does it.
- An argument `KEY=` erases the value of the process environment, so that the
  file's value or the default wins. `Precedence` states the order with that.
- A purge sends a seeded ported number home with no date: it loses the scenario
  its block was seeded with, and no restart reinstalls it, since the block's last
  number answers for the block.
- `deja-confirmees` shows the client to an operator that is neither source nor
  recipient, once it has confirmed. `ClientAfterConfirming` says not before.

**Bounds.** `Calls` is the number of handlers in flight at once: two are enough
for every race of the hazard list, which are all between two actors, and the
engine and the purge are others. `MaxFaults` bounds abandoned calls and cut
ticks of `Workflow`; elsewhere a call may be abandoned at any step. The third
operator matters where confirmations compete, which `reverse_fair` is about;
elsewhere it only confirms. A portfolio has one or two requests, because requests
interact only through a shared number and through the engine's lists; the one
shared number is `n2` of `ExcludingPortfolio`, which a fleet and a REVERSE
retain, ported in the past so that its origin, its holder and the two recipients
are told apart. Two retained numbers tell a partial from a total rejection, a
third is excluded. Histories are finite because each
step is closed once.

`CallsAssumption` (some calls, finitely many) is what `AttemptsBounded` counts.
`IntakeAssumption` says among others that `None`, the absence of an operator or
of a date, is neither.

The intake's delays are two units of its clock, which starts where one number is
still too recent and runs to where it is not (`Start`, `MaxNow`).
`MaxRequests = 2` is the second request that a property forbids;
`MaxReverses = 2` a tick's list whose first element fails it; `MaxSends = 1`
suffices because a password is consumed or mistaken, and a second one for the
same number only forgets the first.

The server's ranges hold four numbers and a pool fills one or two of two ranges:
enough for a pool that grows between two starts, one that does not divide
evenly, one too small and one too large (`PoolLaunches`). The launches are all
combinations of arguments, environment and file for one setting
(`OrderLaunches`), and one each of what makes a start fail (`OtherLaunches`).
`Tested`, the numbers that move, is the one number that every pool has.

`CreationAssumption`, in `RequestStore`, is what creation guarantees of each row
by itself: the creator is the recipient, a fleet retains a number, and a
RESTITUTION or a REVERSE is for one number. It says nothing of two requests
together nor of who holds a number, so that any overlap is allowed. Of the
theorems, those about the registry and about fleets use it.

`StartupAssumption` and `ConfigurationAssumption` say of the seed's tables what
`seed.go` writes in them: operators that exist, dates of the past, blocks that
fit in their range. `LaunchAssumption` says that arguments and files are lists.
`Statements` computes the place of each statement where the code has nested
loops, which gives the same sequence and can be reasoned about.

Calls are interchangeable, so the safety runs use symmetry on them; the runs
with liveness do not. **Deadlock** is checked in every run: the engine can
always tick or wait for an incident to be resolved, a call can be received or
leave, a server can be started or die.

**Fairness.** A handler's goroutine runs until it answers (`WF` of `CallStep`;
the decision of what to call is an operator's, and is not fair), the ticker
keeps firing (`WF` of `EngineStep`, and in `Intake` of its list and of its
elements) and time passes (`WF` of `ConvergenceDue`, `StepTimesOut`,
`WaitsTooLong`). Nothing obliges anyone to call, to decide on a reverse request,
to purge, to fail, to open or to resolve an incident; the properties that need a
market that is not frozen for ever say so (`<>[] ~ MarketFrozen`).

## What is proved

`WorkflowProofs` proves, for any number of operators, requests, numbers and
calls, in both modes, with any faults, incidents and purges, and from
`StoreAssumption` and `WorkflowAssumption` alone:

- `TypeCorrect`: `Spec => []TypeOK`. The invariant includes what makes it
  inductive: a handler past its reading knows its operator, request and step,
  and a rejection that is about to update a row that exists has noted a step.
- `EndedRequestsStayEnded`: an action property. `StepOutcome` lists what a
  single step can do to the status, step and history of a request, action by
  action; the theorem follows from that list.
- `HistoryInvariant`: the inductive invariant
  `HistoryInv == TypeOK /\ CancelCallsKnow /\ ClosedOnceInOrder /\ CancelledNeverMoved`,
  and its corollaries `StepsCloseOnceInOrder` and `CancellationIsClean`.
  `ClosedOnceInOrder` is inductive over types. `CancelledNeverMoved` is not: a
  cancellation's `INSERT` and `UPDATE` are two steps, and the row it will write
  is only known to name ACCEPTATION and the creator because the handler that
  holds it was let in by `CanCancel`. `CancelCallsKnow` says that of every
  cancellation in flight. That the history is empty then follows from
  `ClosedOnceInOrder`: a request at its first step has closed nothing, and no
  step leads back to ACCEPTATION (`NextStepAdvances`).
- `WorkflowImplementsObserved`: the refinement. `StepRefines` maps each outcome
  of `StepOutcome` to an action of `Lifecycle` or to a stutter; where the abstract
  action needs the step, the invariant provides it.

`RegistryProofs` rests on `NextTables`: whatever a step of `Workflow` is, it
leaves the tables alone or is one of seven transactions, a transition being
applied only for a call that asks for it or an engine that owes it. Most of what
follows goes by those seven rather than by the actions.

- `RegistryAgreesWithHistory` (`RegistryFollowsHistory`), from
  `CreationAssumption` and without hypothesis: any requests may retain the same
  number, and anyone may purge. `Takers(n)` are the requests that retained `n` and
  have closed the step that moves numbers; `n` is with the recipient of one of
  them, or where it started if each of them had it rejected, or home if a purge
  named it (`IsBack`). The property becomes inductive with `ExcludedAreRejected`:
  the numbers excluded at creation stay rejected, so that a transfer moves no
  number but those the request retained (`OthersUntouched`). A transition that
  closes a step makes its request a taker or leaves the number
  (`FollowsClosing`); a purge removes takers and sends home every number that
  they retained (`RegistryInvPurged`).
- `PurgesLeaveNothing` (`PurgedLeavesNothing`). That the rows of a purged request
  stay deleted needs no hypothesis: a call or a listed tick that still holds its
  identifier finds no row. That its numbers stay home needs `SharesNoNumber`:
  another request that retained one of them will move it.
- `ExpiryComesLate` (`OnlyOverdueStepsExpire`), under `ExpiriesApart`: no call is
  about to close a step of what a tick has listed to expire and not yet
  expired. A convergence window gives it for nothing (`WindowKeepsApart`), since
  calls then close nothing; without one the hypothesis names exactly the race of
  the observation above. The engine has a request at most once in the list it
  expires. So what it listed as overdue (`ListedAreOverdue`) is still at that
  step when its turn comes, or has ended.
- `WorkflowGivesTheOutcomes`: `Intake`'s outcomes, by refinement. `SeenRow` and
  `SeenRegistry` show the tables as `Intake` has them, and each of the seven
  transactions is a transfer, a rejection of numbers, an end, a withdrawal or a
  purge of `Intake`, or changes nothing it sees. That a request which completes
  has moved its numbers is read off its closings (`ClosedOnceInOrder`); that one
  which is withdrawn is no REVERSE, of the call that does it
  (`CallsAboutAccepted`), since a REVERSE is never at ACCEPTATION.

`ConfirmationProofs` is about whose turn it is.

- `QueuesAgreeWithGuards`, `ConfirmingComesBeforeKnowing` and `LedgerIsComplete`
  (`QueuesCoverGuards`, `ClientAfterConfirming`, `ConfirmationLedger`), and
  `ReverseWaitsForEveryone` (`ReverseNeedsEveryone`), without hypotheses: any
  calls, faults, purges, incidents and expirations. The first two compare
  operators on a typed state. The others need `ConfirmationInv`, which follows a
  fact through whoever may carry it: a call about to confirm is awaited and its
  request is at CONFIRMATION or later; a call about to close the CONFIRMATION of
  a REVERSE has seen every operator confirm, and so has a pending transition,
  and the engine that listed the request, unless it listed it to expire it.
- `SomebodyAlwaysMoves` (`NobodyForgotten`), with `MaxFaults = 0`: a PORTAGE that
  everyone awaited has confirmed moves by the call of the last confirmer, and
  `settles_violated` shows what its loss leaves behind. `HasTwoParties` is that
  somebody is awaited: `CheckPortingEligibility` refuses a number that is the
  recipient's already, and one that is not the source's.

`SerialProofs` is about decisions that do not compete. `DecisionsApart` says that
of the calls in flight at most one has read a given request at ACCEPTATION, to
accept, reject or cancel it. Calls on other requests, confirmations, processing,
the engine, incidents and purges go on beside it; `final_violated` and the
observation about fleets show what competing decisions break. One call at a time,
the instance that `serial_deferred` checks, is a case of it (`OneCallIsApart`).

- `FleetKeepsANumber` (`NoEmptyFleetInProgress`), from `CreationAssumption` and
  `[]DecisionsApart`: what the one call is about to reject of a fleet leaves a
  number of it.
- `WorkflowImplementsPromised` (`ImplementsPromised`) and `EndedAsItEnded`
  (`FinalStatusIsFinal`), from `[]DecisionsDoNotCompete`, which adds that no
  expiry competes: the engine has no request to expire that a call is rejecting
  or taking in part (`ExpiriesSpareDecisions`), which is so where steps do not
  expire at all (`NoTimeoutSpares`). A cancellation needs no such care: its
  statements ask for the step again, and an acceptance only asks for what the
  expiry does. `ReadingInv` says that whoever works on a request at ACCEPTATION
  had read it there; `SerialInv` that what a decision read is current until it
  has written, and that the engine owes a request at ACCEPTATION a pass only for
  an acceptance that is scheduled, or to expire it.
- `RejectedNumbersAreLeft` (`RejectedNumbersStay`), under the same hypothesis and
  `HasTwoParties`: a number is rejected at ACCEPTATION, before its request has
  moved any (`NothingMovedYet`), and the routing and the transfer pass over those
  that are. `StaysUntaken` follows the holder of a number that no request took:
  a rejection comes too early to undo a taking (`NoLateRejection`), a request
  that closes its step takes what it kept, and no more (`TakesWhatItKept`, which
  needs `NoEmptyFleetInProgress`), and a purge sends home all that it forgets.

`IntakeProofs` proves, for any operators, numbers, inputs, delays and bounds and
any finite number of calls, from `IntakeAssumption`, `CallsAssumption` and
`DelayAssumption`, the type invariant and the seven safety properties of the
intake: `OneRequestPerNumber`, `OnePasswordOneRequest`, `AttemptsBounded`,
`OneRequestPerReverse`, `SourceHoldsNumber`, `ReverseOfNumberAway` and
`MovesAreSpaced`. The invariant `IInv` adds to types and to the properties what
the actors of a race know:

- `CallKnows`: what a call has read of a number is still so, or the number has
  moved since; a number it found free is retained by no request inserted up to
  its reading; the password it verified had opened none up to then. This is what
  a creation turns into properties of its request when it inserts.
- `MayMove`: what a PORTAGE or a RESTITUTION still has to move is where its
  source says and old enough, or has moved since. `SourceHoldsNumber` and
  `MovesAreSpaced` follow.
- `PasswordSpent`: the password that opened a request is consumed for as long as
  it is stored, whence what `CallKnows` says of a password just verified.
- `ReverseKnown` and `SubmittedAway`: a REVERSE request has its reverse request,
  and a pending one was submitted while the number was away.

That it is inductive is shown in two halves. `RegistrySteps`, `PasswordSteps`,
`RequestSteps` and `ReverseSteps` go through the actions once and leave shapes: a
number stays or moves now, a password is not unconsumed, requests fade and
reverse requests age in their places, or one row is appended by a call that knew
enough. `KnowledgeKept` and the `...Kept` lemmas then reason from the shapes
alone. `AttemptsBounded` has an invariant of its own, `BInv`: the attempts
counted and the calls about to count one stay together below the bound.

`IntakeMovesNumbers` is `Startup`'s side of it: whatever interleaves, a step of
the intake does to the registry one of `Startup`'s `NumberMoves`, or nothing. That
`GiveBack` is enough for the end of a RESTITUTION or a REVERSE needs `HInv`: its
recipient is the number's origin, because the creation checked it or the ARTP
copied it from a reverse request that had been checked.

`IncidentsProofs` proves, for any operators, any number of calls and any bound
on incidents, `IncidentsSpec => []IInv`, where
`IInv == Typed /\ HandlersKnow /\ OneOpenPerOperator /\ StepsLetInBeforeTheFreeze`.
`HandlersKnow` is what makes it inductive: a handler about to resolve holds an
incident of its own caller, and one about to step has seen no more incidents than
there are. `OneOpen` and `StepsPrecedeTheFreeze` follow, and `FreezeOutlives`,
the action property: of the two statements that write `incident`, an insert
thaws nothing, and an update frees the market only when it names the last
freezing incident, which `HandlersKnow` says is its caller's.
`IncidentsFreezeTheMarket` gives `Workflow` its freeze: of `Frozen`, the operators
with an internal incident open, each step is `Workflow`'s `DeclareIncident` or
`ResolveIncident`, or none, and `MarketFrozen` is the same in both, so that the
gate is. That one `UPDATE` takes an operator out of the set is `OneOpenPerOperator`.

`ServerProofs` proves that the server implements the incidents
(`ServerImplementsIncidents`): its starts, crashes and number moves leave them
alone, and what comes through the front door comes from an account
(`AdmittedHaveAnAccount`), which `ServerAssumption` says is one of the operators
that `Incidents` knows. The three properties therefore hold of the server across
every start, crash and request. It also proves, for any seed, launches, users and
secrets, from `StartupAssumption`, `ConfigurationAssumption` and
`RenderingAssumption`:

- `StartsMoveNoNumber` (`ReseedKeepsRegistry`): an `INSERT ... ON CONFLICT DO
  NOTHING` keeps the rows it finds, and nothing but a start runs before the
  server serves.
- `ServingServesAll` (`ServingIsComplete`), from `StartsInv`. `insertRange` takes
  the last number of a statement for all of them; that this is enough is
  `Contiguous`: the registry holds, of each prefix, all numbers up to the last.
  A statement keeps that because its numbers begin a prefix or take up where the
  statement before stopped, and `NumbersSeeded` says that this one has been
  executed, by this start or by one that died. `ServerTyped` (`TypeOK`) and
  `NeverPortedMayBePorted` (`NeverPortedRangesArePortable`) come with it.
- `DoorHidesWhatIsBehind` (`RefusalsHideWhatIsBehind`), by the order of the
  layers of `Door`.
- `RenderingsOfAnInstantAgree` (`RenderingsAgree`): arithmetic of three precisions
  that divide one another, and of a skew that is a whole number of seconds
  because it was loaded as one.

`ConfigurationProofs` proves `SettingsFollowTheOrder` (`Precedence`) for any
arguments, environment and files, from `LaunchAssumption`. `ApplyArguments` and
`LoadEnvFile` fold over lists, so the proof is an induction over their length,
made with sets: of the lengths at which the fold would not be what the order
says there is a least (`Least`), and one more element cannot break it. A
repeated argument, one that sets its name to nothing, and a line whose name was
given before are the cases.

Only model-checked: the liveness properties `EveryRequestEnds`, `FreezeDrains`,
`ConfirmedReverseCompletes` and `ReversesGetDecided`: temporal reasoning with
fairness is out of the prover's reach. Every other property that a passing run
checks is stated by a theorem, under the hypotheses given here.

## What is not modelled

- Expiry of tokens and hashing of passwords: nothing else depends on the former
  but a further 401, and the latter is a library's.
- The documentation's routes and the bodies of answers, beyond who is shown the
  client and which code a fault has.
- The caller's own paged lists of incidents and reverse requests, which read.
- The contents of the reference tables: they are there or not.
- Identifiers (positions or model values), the database pool, `mapping.go`
  (comments and column names) and the test doubles.
- Deadlock victims in the database: they appear as faults; which of two
  transactions is the victim is not modelled.

Three abstractions join the families, and each is proved to allow what the
module it stands for does: the outcomes of a request in `Intake`
(`WorkflowGivesTheOutcomes`), the moves of a number in `Startup`
(`IntakeMovesNumbers`) and the freeze in `Workflow` (`IncidentsFreezeTheMarket`).
They are proved apart: `CreationAssumption` stands for what the creations of
`Intake` give each row, and no module composes all three families.

## Plan

What is left, in this order.

1. `Workflow` with requests that are created while it runs, so that
   `CreationAssumption` is proved of the creations of `Intake`.
2. Runs in which competing fleet acceptances break `NoEmptyFleetInProgress` and
   `RejectedNumbersStay`.
3. The four liveness properties, should a prover that reasons about fairness be
   at hand.
