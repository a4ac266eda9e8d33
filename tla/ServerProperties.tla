----------------------------- MODULE ServerProperties -----------------------------
(***************************************************************************)
(* What must hold of the server across its starts and crashes.             *)
(***************************************************************************)
EXTENDS Server

Phases == {"down", "migrate", "reference", "numbers", "serving"}

\* Every variable has its type.
TypeOK ==
    /\ process.pc \in Phases
    /\ process.launch \in Launches \cup {None}
    /\ process # Down => process.config.pool \in Nat
    /\ migrated \in BOOLEAN
    /\ reference \subseteq Range(ReferenceTables)
    /\ \A n \in DOMAIN numero : n[2] < MaxPerRange /\ numero[n] \in NumberRow
    /\ Len(incidents) <= MaxIncidents
    /\ handlers \in [Calls -> HandlerType]

\* What a list of arguments gives a key: the last argument that names it, or
\* what the process had in its environment.  --env-file names ENV_FILE.
Names(arg, key) ==
    \/ arg.form = "set" /\ arg.key = key
    \/ arg.form = "file" /\ key = "ENV_FILE"

Given(launch, key) ==
    LET named == {i \in DOMAIN launch.args : Names(launch.args[i], key)}
    IN IF named # {} THEN launch.args[Max(named)].value
       ELSE Lookup(launch.env, key)

\* The value that must win: what is given; if that is empty, the first line of
\* the file that gives the key a value.
Strongest(launch, key) ==
    LET path == IF Given(launch, "ENV_FILE") = Empty THEN ".env"
                ELSE Given(launch, "ENV_FILE")
        file == IF path \in DOMAIN launch.files THEN launch.files[path] ELSE <<>>
        lines == {i \in DOMAIN file : /\ file[i].form = "set"
                                      /\ file[i].key = key
                                      /\ file[i].value # Empty}
    IN IF Given(launch, key) # Empty THEN Given(launch, key)
       ELSE IF lines # {} THEN file[Min(lines)].value ELSE Empty

\* A server starts with the settings of env.go's order: arguments, the process
\* environment, the file.  An argument that sets a key to nothing hides the
\* environment's value and lets the file's through.
Precedence ==
    process.launch # None => \A key \in Keys :
        Lookup(Environment(process.launch).env, key) = Strongest(process.launch, key)

\* What serves serves a complete database, whatever starts and crashes came
\* before: every reference list, every account, and the numbers that this
\* start's pool gives each range; no statement of the last step was too large
\* to be sent.
ServingIsComplete ==
    /\ process.pc = "numbers" =>
          \A r \in Range(Statements(process.config.pool)) :
              r.size > 0 /\ ~ Overflows(r)
    /\ Serving =>
          /\ \A route \in ReferenceRoutes : Listed(route)
          /\ Accounts = Operators
          /\ \A r \in Range(Statements(process.config.pool)) :
                NumbersOf(r) \subseteq DOMAIN numero

\* Starting again on the same database moves no number: what was ported,
\* given back or restored since is as it was.
ReseedKeepsRegistry ==
    [][~ Serving => \A n \in DOMAIN numero :
          n \in DOMAIN numero' /\ numero'[n] = numero[n]]_vars

\* A range that GET /numeros/tranches calls never ported is what its reader
\* takes it for: every number of it may be ported to any other operator, but
\* for requests in progress, however the numbers got there.
NeverPortedRangesArePortable ==
    Serving => \A op \in Operators : \A r \in RangesByOperator(op) :
        r.nature = "never ported" =>
            \A n \in Held(op, r.prefix) : \A other \in Operators \ {op} :
                CheckPortingEligibility([holder     |-> numero[n].holder,
                                         date       |-> numero[n].date,
                                         inProgress |-> FALSE],
                                        op, other, Today)

Bearers == {Bearer("absent", "", ""), Bearer("blank", "", "")}
           \cup {Issue(token[1], token[2]) : token \in Users \X Secrets}
GatewayPaths == {Path("gateway", name) :
                    name \in {"traitement", "annuler", "operateurs", "nothing"}}
GoodBody == Body(TRUE, {"idDemande"})
Bodies == {GoodBody, Body(TRUE, {}), Body(FALSE, {})}

\* A refusal hides what lies behind it.  Without a good token every path under
\* the gateway's prefix answers alike, registered or not; with one, a frozen
\* market answers the gated routes alike whatever the body.  The only good
\* token is the one that this start's login gives an account.
RefusalsHideWhatIsBehind ==
    LET answered(method, path, bearer, body) ==
            Answered(Request(method, path, FALSE, bearer, body), process.config,
                     Accounts, MarketFrozen)
    IN Serving => \A bearer \in Bearers :
        LET good == \E user \in Accounts :
                       bearer = Login(user, TRUE, process.config, Accounts)
        IN /\ ~ good => \A path \in GatewayPaths :
                 /\ answered("POST", path, bearer, GoodBody)
                       = answered("GET", Path("gateway", "nothing"), bearer, GoodBody)
                 /\ answered("POST", path, bearer, GoodBody) # Reached
           /\ good => \A name \in GatedRoutes : \A body \in Bodies :
                 MarketFrozen =>
                    answered("POST", Path("gateway", name), bearer, body)
                       = answered("POST", Path("gateway", name), bearer, GoodBody)

\* An instant that a request writes is rendered by it to the nanosecond, and
\* by any other, whatever that one writes in another microsecond, as the same
\* instant cut at the millisecond; the skew is the one the server started with.
RenderingsAgree ==
    process.launch # None =>
        LET skew == Second * Setting(Environment(process.launch).env, "CLOCK_SKEW_SECONDS")
        IN \A t, u \in Instants :
              /\ RenderedInstant(<<t>>, Stored(t), skew) = t + skew
              /\ Stored(t) # Stored(u) =>
                    /\ RenderedInstant(<<u, t>>, Stored(t), skew) = t + skew
                    /\ RenderedInstant(<<u>>, Stored(t), skew)
                          = Truncate(t + skew, Milli)

===================================================================================
