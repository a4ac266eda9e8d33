------------------------------ MODULE ServerProofs -------------------------------
(***************************************************************************)
(* The server runs the incidents as Incidents specifies them: its starts   *)
(* and crashes, its front door and its other handlers add nothing to what  *)
(* they do.  What IncidentsProofs proves is therefore true of the server.  *)
(*                                                                         *)
(* Its starts leave the registry's numbers where they are and serve a      *)
(* complete database; its front door answers alike what is refused; and    *)
(* its renderings of an instant agree.                                     *)
(***************************************************************************)
EXTENDS ServerProperties, IncidentsProofs

\* No refusal at the door has the status of a handler that is reached.
LEMMA RefusalsAreNotReached ==
    ASSUME NEW refusal, NEW fidelity
    PROVE  Unauthenticated(refusal, fidelity) # Reached
<1>1. RealStatus(refusal) # 0 /\ ContractStatus(refusal) # 0
    BY DEF RealStatus, ContractStatus
<1>2. Failure(refusal, fidelity).status # 0
    BY <1>1 DEF Failure, Answer
<1>3. Unauthenticated(refusal, fidelity).status # 0
    BY <1>2 DEF Unauthenticated, Answer
<1> QED  BY <1>3 DEF Reached, Answer

\* Who is admitted to one of the gateway's handlers has a token that names an
\* account.
LEMMA AdmittedHaveAnAccount ==
    ASSUME NEW name, NEW user, NEW secret, Admitted(Post(name, user, secret))
    PROVE  user \in Operators
<1> DEFINE r == Post(name, user, secret)
<1> DEFINE who == Authenticate(r.bearer, process.config.secret, Accounts)
<1>1. ~ Preflight(r) /\ GuardGatewayPrefix(r) /\ r.bearer = Issue(user, secret)
    BY DEF Preflight, Post, Request, Path, GuardGatewayPrefix
<1>2. who = "caller"
    BY <1>1, RefusalsAreNotReached DEF Admitted, Door
<1>3. user \in Accounts
    BY <1>1, <1>2 DEF Authenticate, Issue, Bearer
<1> QED  BY <1>3 DEF Accounts

\* Every step of the server is a step of the incidents, or leaves them alone.
LEMMA ServerSteps == [Next]_vars => [IncidentsNext]_incidentsVars
<1> SUFFICES ASSUME [Next]_vars PROVE [IncidentsNext]_incidentsVars
    OBVIOUS
<1>1. CASE UNCHANGED vars
    BY <1>1 DEF vars, incidentsVars
<1>2. CASE (StartupStep \/ NumberMoves) /\ UNCHANGED incidentsVars
    BY <1>2
<1>3. CASE Crash /\ Abandon(Calls)
    BY <1>3 DEF IncidentsNext
<1>4. ASSUME NEW c \in Calls, NEW user \in Users, NEW secret \in Secrets,
             Declare(c, user, secret)
      PROVE  IncidentsNext
    <2>1. user \in Declarers
        BY <1>4, AdmittedHaveAnAccount, ServerAssumption DEF Declare
    <2> QED  BY <1>4, <2>1 DEF Declare, IncidentsNext
<1>5. ASSUME NEW c \in Calls, NEW user \in Users, NEW secret \in Secrets,
             ResolveOne(c, user, secret)
      PROVE  IncidentsNext
    <2>1. user \in Declarers
        BY <1>5, AdmittedHaveAnAccount, ServerAssumption DEF ResolveOne
    <2> QED  BY <1>5, <2>1 DEF ResolveOne, IncidentsNext
<1>6. ASSUME NEW c \in Calls, NEW user \in Users, NEW secret \in Secrets,
             Step(c, user, secret)
      PROVE  IncidentsNext
    <2>1. user \in Declarers
        BY <1>6, AdmittedHaveAnAccount, ServerAssumption DEF Step
    <2> QED  BY <1>6, <2>1 DEF Step, IncidentsNext
<1>7. ASSUME NEW c \in Calls, Requested(c) \/ HandlerStep(c) \/ Abandon({c})
      PROVE  IncidentsNext
    BY <1>4, <1>5, <1>6, <1>7 DEF Requested, IncidentsNext
<1> QED  BY <1>1, <1>2, <1>3, <1>7 DEF Next

\* The server implements the incidents.
THEOREM ServerImplementsIncidents == Spec => IncidentsSpec
<1>1. Init => IncidentsInit
    BY DEF Init
<1> QED  BY <1>1, ServerSteps, PTL DEF Spec, IncidentsSpec

\* Across every start, crash and request of the server an operator has one
\* internal incident open at most.
THEOREM ServerKeepsOneOpen == Spec => []OneOpenPerOperator
    BY ServerImplementsIncidents, OneOpen, PTL

\* A porting step that runs in a frozen market had been let in before.
THEOREM ServerStepsPrecedeTheFreeze == Spec => []StepsLetInBeforeTheFreeze
    BY ServerImplementsIncidents, StepsPrecedeTheFreeze, PTL

\* A freeze outlives the server's crashes and restarts, and ends with the
\* resolution by its declarant only.
THEOREM FreezeOutlivesTheServer == Spec => ThawedByItsDeclarant
    BY ServerImplementsIncidents, FreezeOutlives, PTL

-----------------------------------------------------------------------------
(***************************************************************************)
(* The starts and the registry.                                            *)
(***************************************************************************)
\* The statement of a range leaves the rows that it finds.
LEMMA InsertionsKeep ==
    ASSUME NEW r, InsertRange(r), NEW n \in DOMAIN numero
    PROVE  n \in DOMAIN numero' /\ numero'[n] = numero[n]
<1>1. CASE numero' = numero
    BY <1>1
<1>2. CASE numero' = [m \in DOMAIN numero \cup NumbersOf(r) |->
                         IF m \in DOMAIN numero THEN numero[m] ELSE RowOf(r)]
    BY <1>2
<1> QED  BY <1>1, <1>2 DEF InsertRange

\* No start moves a number, whatever was started before it and died where.
THEOREM StartsMoveNoNumber == Spec => ReseedKeepsRegistry
<1> DEFINE Kept == \A n \in DOMAIN numero :
                      n \in DOMAIN numero' /\ numero'[n] = numero[n]
<1>1. ASSUME Next, ~ Serving
      PROVE  Kept
    <2>1. CASE StartupStep
        <3>1. CASE SeedNumbers
            <4>1. PICK r : InsertRange(r)
                BY <3>1 DEF SeedNumbers
            <4> QED  BY <4>1, InsertionsKeep
        <3>2. CASE UNCHANGED numero
            BY <3>2
        <3> QED  BY <2>1, <3>1, <3>2 DEF StartupStep, Start, Migrate, SeedReference
    <2>2. ~ NumberMoves
        BY <1>1 DEF NumberMoves, Port, GiveBack, Restore, Has
    <2>3. CASE Crash \/ UNCHANGED startupVars
        BY <2>3 DEF Crash, startupVars
    <2> QED  BY <1>1, <2>1, <2>2, <2>3 DEF Next
<1>2. [Next]_vars => [~ Serving => Kept]_vars
    BY <1>1
<1> QED  BY <1>2, PTL DEF Spec, ReseedKeepsRegistry

-----------------------------------------------------------------------------
(***************************************************************************)
(* What a start seeds.                                                     *)
(***************************************************************************)
\* Division with a remainder has one result.
LEMMA OneQuotient ==
    ASSUME NEW m \in Nat \ {0}, NEW q \in Int, NEW p \in Int,
           NEW r \in 0..(m - 1), NEW s \in 0..(m - 1), m * q + r = m * p + s
    PROVE  q = p /\ r = s
<1>1. m * (q - p) = s - r
    BY SMT
<1>2. ~ (q - p >= 1)
    <2> SUFFICES ASSUME q - p >= 1 PROVE FALSE
        OBVIOUS
    <2>1. m * (q - p) >= m
        BY SMT
    <2> QED  BY <1>1, <2>1
<1>3. ~ (q - p <= -1)
    <2> SUFFICES ASSUME q - p <= -1 PROVE FALSE
        OBVIOUS
    <2>1. m * (q - p) <= -m
        BY SMT
    <2> QED  BY <1>1, <2>1
<1>4. q = p
    BY <1>2, <1>3
<1> QED  BY <1>1, <1>4

\* Hence the quotient and the remainder of what is so composed.
LEMMA Quotient ==
    ASSUME NEW m \in Nat \ {0}, NEW q \in Int, NEW r \in 0..(m - 1)
    PROVE  (m * q + r) \div m = q /\ (m * q + r) % m = r
<1> DEFINE a == m * q + r
<1>1. /\ a \in Int /\ a \div m \in Int /\ a % m \in 0..(m - 1)
      /\ a = m * (a \div m) + (a % m)
    OBVIOUS
<1> QED  BY <1>1, OneQuotient

\* An element of a sequence is of its type.
LEMMA Elements ==
    ASSUME NEW S, NEW s \in Seq(S), NEW i \in 1..Len(s)
    PROVE  s[i] \in S
    OBVIOUS

\* What the seed's tables are.
LEMMA SeedTables ==
    /\ FixedRangeSize \in Nat \ {0} /\ FixedRangeSize <= MaxPerRange
    /\ MaxPerRange \in Nat /\ Today \in Nat
    /\ UnportedRanges \in Seq([prefix : STRING, operator : Operators])
    /\ UnportedRanges # <<>>
    /\ HistoricalRanges \in Seq([prefix : STRING, operator : Operators])
    /\ PortedRanges \in Seq([prefix : STRING, current : Operators, origin : Operators])
    /\ PortedScenarios \in Seq([daysAgo : 0..Today, returned : BOOLEAN])
    /\ Len(PortedScenarios) * FixedRangeSize <= MaxPerRange
<1>1. MaxPerRange \in Nat
    BY ConfigurationAssumption
<1>2. FixedRangeSize \in 1..MaxPerRange
    BY StartupAssumption, Zenon
<1>3. FixedRangeSize \in Nat \ {0} /\ FixedRangeSize <= MaxPerRange
    BY <1>1, <1>2
<1>4. UnportedRanges \in Seq([prefix : STRING, operator : Operators]) \ {<<>>}
    BY StartupAssumption, Zenon
<1>5. /\ UnportedRanges \in Seq([prefix : STRING, operator : Operators])
      /\ UnportedRanges # <<>>
    BY <1>4, Zenon
<1> QED  BY <1>1, <1>3, <1>5, StartupAssumption, Zenon

\* The pools that Load lets through.
Pools == UnportedRangesPerOperator..UnportedRangesPerOperator * MaxPerRange

\* Such a pool gives each of its ranges a number at least, and no more than a
\* range holds.
LEMMA PoolsFit ==
    ASSUME NEW pool \in Pools
    PROVE  OrangeYAS(pool) \in 1..MaxPerRange
    BY ConfigurationAssumption DEF OrangeYAS, Pools

\* The ranges of numbers that are there to seed.
SeededRange == [prefix : STRING, current : Operators, origin : Operators,
                date : 0..Today \cup {None}, returned : BOOLEAN, first : Nat,
                size : Nat \ {0}]

\* r takes up where q stops.
Follows(r, q) == q.prefix = r.prefix /\ q.first + q.size = r.first

\* Every statement fits in its range, and begins it or takes up where the one
\* before stops.
InOrder(s) ==
    /\ s \in Seq(SeededRange)
    /\ \A i \in DOMAIN s :
          /\ ~ Overflows(s[i])
          /\ s[i].first = 0 \/ (i > 1 /\ Follows(s[i], s[i - 1]))

\* Ranges in order, after ranges in order, are in order.
LEMMA InOrderTogether ==
    ASSUME NEW s, NEW t, InOrder(s), InOrder(t)
    PROVE  InOrder(s \o t)
<1> DEFINE u == s \o t
<1>1. /\ s \in Seq(SeededRange) /\ t \in Seq(SeededRange)
      /\ Len(s) \in Nat /\ Len(t) \in Nat
      /\ DOMAIN s = 1..Len(s) /\ DOMAIN t = 1..Len(t)
    BY DEF InOrder
<1>2. /\ u \in Seq(SeededRange)
      /\ DOMAIN u = 1..(Len(s) + Len(t))
      /\ \A i \in 1..Len(s) : u[i] = s[i]
      /\ \A i \in 1..Len(t) : u[Len(s) + i] = t[i]
    BY <1>1
<1> HIDE DEF u
<1>3. ASSUME NEW i \in DOMAIN u
      PROVE  /\ ~ Overflows(u[i])
             /\ u[i].first = 0 \/ (i > 1 /\ Follows(u[i], u[i - 1]))
    <2>1. CASE i \in 1..Len(s)
        <3>1. /\ ~ Overflows(s[i])
              /\ s[i].first = 0 \/ (i > 1 /\ Follows(s[i], s[i - 1]))
            BY <1>1, <2>1 DEF InOrder
        <3>2. u[i] = s[i] /\ (i > 1 => u[i - 1] = s[i - 1])
            BY <1>1, <1>2, <2>1
        <3> QED  BY <3>1, <3>2 DEF Overflows, Follows
    <2>2. CASE i \notin 1..Len(s)
        <3>1. PICK k \in 1..Len(t) : i = Len(s) + k
            <4>1. i - Len(s) \in 1..Len(t) /\ i = Len(s) + (i - Len(s))
                BY <1>1, <1>2, <2>2
            <4> QED  BY <4>1
        <3>2. /\ ~ Overflows(t[k])
              /\ t[k].first = 0 \/ (k > 1 /\ Follows(t[k], t[k - 1]))
            BY <1>1 DEF InOrder
        <3>3. u[i] = t[k]
            BY <1>2, <3>1
        <3>4. k > 1 => i > 1 /\ u[i - 1] = t[k - 1]
            <4> SUFFICES ASSUME k > 1 PROVE i > 1 /\ u[i - 1] = t[k - 1]
                OBVIOUS
            <4>1. k - 1 \in 1..Len(t) /\ i - 1 = Len(s) + (k - 1) /\ i > 1
                BY <1>1, <3>1
            <4> QED  BY <1>2, <4>1
        <3> QED  BY <3>2, <3>3, <3>4 DEF Overflows, Follows
    <2> QED  BY <2>1, <2>2
<1>4. u \in Seq(SeededRange)
    BY <1>2
<1>5. InOrder(u)
    BY <1>3, <1>4 DEF InOrder
<1> QED  BY <1>5 DEF u

\* A sequence whose every range begins at its first number is in order.
LEMMA InOrderFromTheFirst ==
    ASSUME NEW n \in Nat, NEW s \in [1..n -> SeededRange],
           \A i \in 1..n : s[i].first = 0 /\ s[i].size <= MaxPerRange
    PROVE  InOrder(s)
<1>1. s \in Seq(SeededRange) /\ DOMAIN s = 1..n
    OBVIOUS
<1>2. MaxPerRange \in Nat
    BY ConfigurationAssumption
<1>3. ASSUME NEW i \in DOMAIN s
      PROVE  ~ Overflows(s[i]) /\ s[i].first = 0
    <2>1. s[i] \in SeededRange /\ s[i].first = 0 /\ s[i].size <= MaxPerRange
        BY <1>1
    <2>2. s[i].size \in Nat
        BY <2>1 DEF SeededRange
    <2> QED  BY <1>2, <2>1, <2>2 DEF Overflows
<1> QED  BY <1>1, <1>3 DEF InOrder

\* The blocks of the ported ranges are in order: a range's take up where the
\* one before stops, and the last fits.
LEMMA BlocksInOrder ==
    LET n == Len(PortedScenarios) IN
    InOrder([i \in 1..(Len(PortedRanges) * n) |->
        PortedBlock(PortedRanges[1 + ((i - 1) \div n)], 1 + ((i - 1) % n))])
<1> DEFINE n == Len(PortedScenarios)
           m == Len(PortedRanges)
           block(i) == PortedBlock(PortedRanges[1 + ((i - 1) \div n)], 1 + ((i - 1) % n))
           s == [i \in 1..(m * n) |-> block(i)]
<1>1. /\ n \in Nat /\ m \in Nat /\ FixedRangeSize \in Nat \ {0} /\ MaxPerRange \in Nat
      /\ n * FixedRangeSize <= MaxPerRange
      /\ DOMAIN PortedScenarios = 1..n /\ DOMAIN PortedRanges = 1..m
      /\ Today \in Nat
    BY SeedTables
<1>2. ASSUME NEW i \in 1..(m * n)
      PROVE  /\ n > 0 /\ (i - 1) \div n \in 0..(m - 1) /\ (i - 1) % n \in 0..(n - 1)
             /\ i - 1 = n * ((i - 1) \div n) + ((i - 1) % n)
    <2>1. n > 0
        BY <1>1
    <2>2. /\ (i - 1) \div n \in Int /\ (i - 1) % n \in 0..(n - 1)
          /\ i - 1 = n * ((i - 1) \div n) + ((i - 1) % n)
        BY <1>1, <2>1
    <2>3. i - 1 >= 0 /\ i - 1 < m * n
        BY <1>1
    <2> DEFINE q == (i - 1) \div n
    <2>4. q >= 0
        BY <1>1, <2>1, <2>2, <2>3
    <2>5. ~ (q >= m)
        <3> SUFFICES ASSUME q >= m PROVE FALSE
            OBVIOUS
        <3>1. n * q >= n * m /\ n * m = m * n /\ n * q \in Int
            BY <1>1, <2>2
        <3>2. i - 1 >= n * q
            BY <1>1, <2>2, <3>1
        <3> HIDE DEF q
        <3> QED  BY <1>1, <2>3, <3>1, <3>2
    <2> QED  BY <1>1, <2>1, <2>2, <2>4, <2>5
<1>3. ASSUME NEW r \in [prefix : STRING, current : Operators, origin : Operators],
             NEW k \in 0..(n - 1)
      PROVE  /\ PortedBlock(r, 1 + k) \in SeededRange
             /\ PortedBlock(r, 1 + k).prefix = r.prefix
             /\ PortedBlock(r, 1 + k).first = k * FixedRangeSize
             /\ PortedBlock(r, 1 + k).size = FixedRangeSize
             /\ ~ Overflows(PortedBlock(r, 1 + k))
    <2> DEFINE sc == PortedScenarios[1 + k]
    <2>1. sc \in [daysAgo : 0..Today, returned : BOOLEAN]
        <3>1. 1 + k \in 1..n
            BY <1>1
        <3> QED  BY <3>1, SeedTables, Elements, Zenon
    <2>2. Today - sc.daysAgo \in 0..Today /\ sc.returned \in BOOLEAN
        BY <1>1, <2>1
    <2>3. (1 + k - 1) * FixedRangeSize = k * FixedRangeSize
        BY <1>1
    <2>4. k * FixedRangeSize \in Nat
        BY <1>1
    <2>5. k * FixedRangeSize + FixedRangeSize <= n * FixedRangeSize
        BY <1>1
    <2> QED  BY <1>1, <2>2, <2>3, <2>4, <2>5
             DEF PortedBlock, RangeOf, SeededRange, Overflows
<1>4. ASSUME NEW i \in 1..(m * n)
      PROVE  /\ PortedRanges[1 + ((i - 1) \div n)]
                   \in [prefix : STRING, current : Operators, origin : Operators]
             /\ s[i] = block(i)
             /\ s[i] \in SeededRange /\ ~ Overflows(s[i])
    <2>1. 1 + ((i - 1) \div n) \in 1..m
        BY <1>1, <1>2
    <2>2. PortedRanges[1 + ((i - 1) \div n)]
                   \in [prefix : STRING, current : Operators, origin : Operators]
        BY <2>1, SeedTables, Elements, Zenon
    <2>3. (i - 1) % n \in 0..(n - 1)
        BY <1>2
    <2>4. s[i] = block(i)
        OBVIOUS
    <2> HIDE DEF s
    <2> QED  BY <1>3, <2>2, <2>3, <2>4
<1>5. ASSUME NEW i \in 1..(m * n)
      PROVE  s[i].first = 0 \/ (i > 1 /\ Follows(s[i], s[i - 1]))
    <2>1. PICK q \in Int : q = (i - 1) \div n
        BY <1>2
    <2>2. PICK k \in 0..(n - 1) : k = (i - 1) % n
        BY <1>2
    <2>3. i - 1 = n * q + k
        BY <1>2, <2>1, <2>2
    <2> DEFINE r == PortedRanges[1 + q]
    <2>4. /\ r \in [prefix : STRING, current : Operators, origin : Operators]
          /\ s[i] = PortedBlock(r, 1 + k)
        BY <1>4, <2>1, <2>2
    <2> HIDE DEF s, r
    <2>5. s[i].first = k * FixedRangeSize /\ s[i].prefix = r.prefix
        BY <1>3, <2>4
    <2>6. CASE k = 0
        <3>1. k * FixedRangeSize = 0
            BY <1>1, <2>6
        <3>2. s[i].first = 0
            BY <2>5, <3>1, Zenon
        <3> QED  BY <3>2, Zenon
    <2>7. CASE k # 0
        <3>1. q >= 0 /\ n \in Nat \ {0}
            BY <1>1, <1>2, <2>1
        <3>2. i - 1 \in 1..(m * n)
            <4>1. n * q >= 0
                BY <3>1
            <4> QED  BY <1>1, <2>3, <2>7, <4>1
        <3>3. k - 1 \in 0..(n - 1) /\ (i - 1) - 1 = n * q + (k - 1)
            BY <1>1, <2>3, <2>7
        <3>4. ((i - 1) - 1) \div n = q /\ ((i - 1) - 1) % n = k - 1
            <4>1. (n * q + (k - 1)) \div n = q /\ (n * q + (k - 1)) % n = k - 1
                BY <2>1, <3>1, <3>3, Quotient
            <4> QED  BY <3>3, <4>1
        <3>5. s[i - 1] = PortedBlock(r, 1 + (k - 1))
            BY <1>4, <3>2, <3>4 DEF r
        <3>6. /\ s[i - 1].first = (k - 1) * FixedRangeSize
              /\ s[i - 1].size = FixedRangeSize
              /\ s[i - 1].prefix = r.prefix
            BY <1>3, <2>4, <3>3, <3>5
        <3>7. (k - 1) * FixedRangeSize + FixedRangeSize = k * FixedRangeSize
            BY <1>1
        <3> QED  BY <2>5, <3>2, <3>6, <3>7 DEF Follows
    <2> QED  BY <2>6, <2>7
<1>6. s \in [1..(m * n) -> SeededRange]
    BY <1>4
<1>7. m * n \in Nat
    BY <1>1
<1>8. s \in Seq(SeededRange) /\ DOMAIN s = 1..(m * n)
    <2>1. PICK l \in Nat : l = m * n
        BY <1>7
    <2> HIDE DEF s, m, n
    <2>2. s \in [1..l -> SeededRange]
        BY <1>6, <2>1
    <2>3. s \in Seq(SeededRange) /\ DOMAIN s = 1..l
        BY <2>1, <2>2
    <2> QED  BY <2>1, <2>3
<1> HIDE DEF s, m, n
<1>9. InOrder(s)
    BY <1>4, <1>5, <1>8 DEF InOrder
<1> QED  BY <1>9 DEF s, m, n

\* A start's statements are in order, whatever the pool.
LEMMA StatementsInOrder ==
    ASSUME NEW pool \in Pools
    PROVE  InOrder(Statements(pool)) /\ Len(Statements(pool)) > 0
<1> DEFINE u == [i \in DOMAIN UnportedRanges |->
                    UnportedStatement(pool, UnportedRanges[i])]
           h == [i \in DOMAIN HistoricalRanges |-> HistoricalStatement(HistoricalRanges[i])]
           n == Len(PortedScenarios)
           b == [i \in 1..(Len(PortedRanges) * n) |->
                    PortedBlock(PortedRanges[1 + ((i - 1) \div n)], 1 + ((i - 1) % n))]
<1>1. FixedRangeSize \in Nat \ {0} /\ FixedRangeSize <= MaxPerRange
    BY SeedTables
<1>2. OrangeYAS(pool) \in Nat \ {0} /\ OrangeYAS(pool) <= MaxPerRange
    BY PoolsFit, ConfigurationAssumption
<1>3. InOrder(u) /\ Len(u) > 0
    <2>1. PICK m \in Nat : m = Len(UnportedRanges)
        BY SeedTables
    <2>2. DOMAIN UnportedRanges = 1..m /\ m > 0
        BY <2>1, SeedTables
    <2>3. ASSUME NEW i \in 1..m
          PROVE  u[i] \in SeededRange /\ u[i].first = 0 /\ u[i].size <= MaxPerRange
        <3>1. UnportedRanges[i] \in [prefix : STRING, operator : Operators]
            BY <2>1, SeedTables, Elements, Zenon
        <3> QED  BY <1>1, <1>2, <2>2, <3>1
                 DEF UnportedStatement, RangeOf, SeededRange
    <2>4. u \in [1..m -> SeededRange]
        BY <2>2, <2>3
    <2>5. Len(u) = m
        BY <2>2
    <2> HIDE DEF u
    <2> QED  BY <2>2, <2>3, <2>4, <2>5, InOrderFromTheFirst
<1>4. InOrder(h)
    <2>1. PICK m \in Nat : m = Len(HistoricalRanges)
        BY SeedTables
    <2>2. DOMAIN HistoricalRanges = 1..m
        BY <2>1, SeedTables
    <2>3. ASSUME NEW i \in 1..m
          PROVE  h[i] \in SeededRange /\ h[i].first = 0 /\ h[i].size <= MaxPerRange
        <3>1. HistoricalRanges[i] \in [prefix : STRING, operator : Operators]
            BY <2>1, SeedTables, Elements, Zenon
        <3> QED  BY <1>1, <2>2, <3>1 DEF HistoricalStatement, RangeOf, SeededRange
    <2>4. h \in [1..m -> SeededRange]
        BY <2>2, <2>3
    <2> HIDE DEF h
    <2> QED  BY <2>3, <2>4, InOrderFromTheFirst
<1>5. InOrder(b)
    BY BlocksInOrder
<1>6. Statements(pool) = u \o h \o b
    BY DEF Statements
<1> HIDE DEF u, h, b
<1>7. InOrder(u \o h)
    BY <1>3, <1>4, InOrderTogether
<1>8. InOrder((u \o h) \o b)
    BY <1>5, <1>7, InOrderTogether
<1>9. Len((u \o h) \o b) > 0
    <2>1. u \in Seq(SeededRange) /\ h \in Seq(SeededRange) /\ b \in Seq(SeededRange)
        BY <1>3, <1>4, <1>5 DEF InOrder
    <2>2. Len(u \o h) = Len(u) + Len(h) /\ u \o h \in Seq(SeededRange)
        BY <2>1
    <2>3. Len((u \o h) \o b) = Len(u \o h) + Len(b)
        BY <2>1, <2>2
    <2>4. Len(u) \in Nat /\ Len(h) \in Nat /\ Len(b) \in Nat
        BY <2>1
    <2> QED  BY <1>3, <2>2, <2>3, <2>4
<1> QED  BY <1>6, <1>8, <1>9

-----------------------------------------------------------------------------
(***************************************************************************)
(* The invariant of the starts: what the registry holds of a prefix begins *)
(* at its first number, whatever pools it was seeded with and whichever    *)
(* start died where; and a start has seeded what its step says.            *)
(***************************************************************************)
Contiguous ==
    \A n \in DOMAIN numero :
        /\ n = <<n[1], n[2]>> /\ n[2] \in 0..(MaxPerRange - 1)
        /\ numero[n] \in NumberRow
        /\ \A tail \in 0..n[2] : <<n[1], tail>> \in DOMAIN numero

\* The process: a launch is kept until its settings are read.
ProcessTyped ==
    /\ process = Process(process.pc, process.launch, process.config, process.step)
    /\ process.pc \in Phases
    /\ process.pc = "down" => process = Down
    /\ process.pc # "down" => process.config.pool \in Pools
    /\ process.launch # None =>
          process.pc = "migrate" /\ process.launch \in Launches /\ Boots(process.launch)

\* The reference tables, seeded one by one.
ReferenceSeeded ==
    /\ migrated \in BOOLEAN /\ reference \subseteq Range(ReferenceTables)
    /\ process.pc \in {"reference", "numbers", "serving"} => migrated
    /\ process.pc = "reference" =>
          /\ process.step \in DOMAIN ReferenceTables
          /\ \A i \in 1..(process.step - 1) : ReferenceTables[i] \in reference
    /\ process.pc \in {"numbers", "serving"} => Range(ReferenceTables) \subseteq reference

Seeded(i) == NumbersOf(Statements(process.config.pool)[i]) \subseteq DOMAIN numero

\* The numbers, seeded statement by statement.
NumbersSeeded ==
    /\ process.pc = "numbers" =>
          /\ process.step \in DOMAIN Statements(process.config.pool)
          /\ \A i \in 1..(process.step - 1) : Seeded(i)
    /\ process.pc = "serving" =>
          \A i \in DOMAIN Statements(process.config.pool) : Seeded(i)

StartsInv == Contiguous /\ ProcessTyped /\ ReferenceSeeded /\ NumbersSeeded

\* A statement that begins its range, or takes up where the registry stops,
\* leaves the registry contiguous and all of its numbers there, though it
\* looks for the last of them only.
LEMMA InsertionsComplete ==
    ASSUME Contiguous, NEW r \in SeededRange, ~ Overflows(r), InsertRange(r),
           r.first = 0 \/ <<r.prefix, r.first - 1>> \in DOMAIN numero
    PROVE  Contiguous' /\ NumbersOf(r) \subseteq DOMAIN numero'
<1>1. /\ r.first \in Nat /\ r.size \in Nat \ {0} /\ MaxPerRange \in Nat
      /\ r.first + r.size <= MaxPerRange
    BY ConfigurationAssumption DEF SeededRange, Overflows
<1>2. RowOf(r) \in NumberRow
    BY DEF RowOf, Number, NumberRow, SeededRange
<1>3. \A n \in NumbersOf(r) :
         \E tail \in r.first..(r.first + r.size - 1) : n = <<r.prefix, tail>>
    BY DEF NumbersOf, Tails
<1>4. CASE LastOf(r) \in DOMAIN numero
    <2>1. numero' = numero
        BY <1>4 DEF InsertRange
    <2>2. Contiguous'
        BY <2>1 DEF Contiguous
    <2>3. \A tail \in 0..(r.first + r.size - 1) : <<r.prefix, tail>> \in DOMAIN numero
        BY <1>4 DEF Contiguous, LastOf
    <2>4. \A tail \in r.first..(r.first + r.size - 1) :
             <<r.prefix, tail>> \in DOMAIN numero
        BY <1>1, <2>3
    <2> QED  BY <1>3, <2>1, <2>2, <2>4
<1>5. CASE LastOf(r) \notin DOMAIN numero
    <2>1. numero' = [n \in DOMAIN numero \cup NumbersOf(r) |->
                        IF n \in DOMAIN numero THEN numero[n] ELSE RowOf(r)]
        BY <1>1, <1>5 DEF InsertRange
    <2>2. /\ DOMAIN numero' = DOMAIN numero \cup NumbersOf(r)
          /\ \A n \in DOMAIN numero : numero'[n] = numero[n]
          /\ \A n \in NumbersOf(r) \ DOMAIN numero : numero'[n] = RowOf(r)
        BY <2>1
    <2>3. ASSUME NEW n \in DOMAIN numero
          PROVE  /\ n = <<n[1], n[2]>> /\ n[2] \in 0..(MaxPerRange - 1)
                 /\ numero'[n] \in NumberRow
                 /\ \A tail \in 0..n[2] : <<n[1], tail>> \in DOMAIN numero'
        BY <2>2 DEF Contiguous
    <2>4. ASSUME NEW n \in NumbersOf(r) \ DOMAIN numero
          PROVE  /\ n = <<n[1], n[2]>> /\ n[2] \in 0..(MaxPerRange - 1)
                 /\ numero'[n] \in NumberRow
                 /\ \A tail \in 0..n[2] : <<n[1], tail>> \in DOMAIN numero'
        <3>1. PICK last \in r.first..(r.first + r.size - 1) : n = <<r.prefix, last>>
            BY <1>3
        <3>2. n[1] = r.prefix /\ n[2] = last /\ last \in 0..(MaxPerRange - 1)
            BY <1>1, <3>1
        <3>3. numero'[n] \in NumberRow
            BY <1>2, <2>2
        <3>4. ASSUME NEW tail \in 0..last
              PROVE  <<r.prefix, tail>> \in DOMAIN numero'
            <4>1. CASE tail >= r.first
                <5>1. tail \in Tails(r)
                    BY <1>1, <4>1 DEF Tails
                <5> QED  BY <2>2, <5>1 DEF NumbersOf
            <4>2. CASE tail < r.first
                <5>1. <<r.prefix, r.first - 1>> \in DOMAIN numero
                    BY <1>1, <4>2
                <5>2. tail \in 0..(r.first - 1)
                    BY <1>1, <4>2
                <5> QED  BY <2>2, <5>1, <5>2 DEF Contiguous
            <4> QED  BY <1>1, <4>1, <4>2
        <3> QED  BY <3>1, <3>2, <3>3, <3>4
    <2>5. Contiguous'
        BY <2>2, <2>3, <2>4 DEF Contiguous
    <2> QED  BY <2>2, <2>5
<1> QED  BY <1>4, <1>5

\* The settings of a launch that boots have a pool that Load lets through.
LEMMA BootsWithAPool ==
    ASSUME NEW launch \in Launches, Boots(launch)
    PROVE  Load(Environment(launch).env).pool \in Pools
    BY DEF Boots, Loads, Load, Pools

\* A step that leaves the registry's numbers there keeps what was seeded.
LEMMA SeededStays ==
    ASSUME NumbersSeeded, DOMAIN numero \subseteq DOMAIN numero', UNCHANGED process
    PROVE  NumbersSeeded'
    BY DEF NumbersSeeded, Seeded

\* A start's statement keeps the invariant.
LEMMA SeedNumbersKeeps ==
    ASSUME StartsInv, SeedNumbers
    PROVE  StartsInv'
<1> DEFINE pool == process.config.pool
           s == Statements(pool)
<1>1. PICK step : step = process.step
    OBVIOUS
<1>2. /\ pool \in Pools /\ step \in DOMAIN s /\ \A i \in 1..(step - 1) : Seeded(i)
      /\ InsertRange(s[step]) /\ process.pc = "numbers"
    BY <1>1 DEF StartsInv, ProcessTyped, NumbersSeeded, SeedNumbers
<1>3. /\ InOrder(s) /\ s \in Seq(SeededRange) /\ DOMAIN s = 1..Len(s) /\ Len(s) \in Nat
    BY <1>2, StatementsInOrder DEF InOrder
<1>4. s[step] \in SeededRange /\ ~ Overflows(s[step])
    BY <1>2, <1>3, Elements DEF InOrder
<1>5. s[step].first = 0 \/ <<s[step].prefix, s[step].first - 1>> \in DOMAIN numero
    <2>1. CASE s[step].first = 0
        BY <2>1
    <2>2. CASE step > 1 /\ Follows(s[step], s[step - 1])
        <3>1. step - 1 \in 1..Len(s) /\ step - 1 \in 1..(step - 1)
            BY <1>2, <1>3, <2>2
        <3>2. s[step - 1] \in SeededRange
            BY <1>3, <3>1, Elements
        <3>3. /\ s[step - 1].first \in Nat /\ s[step - 1].size \in Nat \ {0}
            BY <3>2 DEF SeededRange
        <3>4. NumbersOf(s[step - 1]) \subseteq DOMAIN numero
            BY <1>2, <3>1 DEF Seeded
        <3>5. s[step].first - 1 \in Tails(s[step - 1])
            BY <2>2, <3>3 DEF Follows, Tails
        <3>6. <<s[step - 1].prefix, s[step].first - 1>> \in NumbersOf(s[step - 1])
            BY <3>5 DEF NumbersOf
        <3> QED  BY <2>2, <3>4, <3>6 DEF Follows
    <2> QED  BY <1>2, <1>3, <2>1, <2>2 DEF InOrder
<1>6. Contiguous' /\ NumbersOf(s[step]) \subseteq DOMAIN numero'
    BY <1>2, <1>4, <1>5, InsertionsComplete DEF StartsInv
<1>7. DOMAIN numero \subseteq DOMAIN numero'
    BY <1>2, InsertionsKeep
<1>8. /\ process = Process(process.pc, process.launch, process.config, process.step)
      /\ process' = IF step < Len(s) THEN [process EXCEPT !.step = step + 1]
                    ELSE [process EXCEPT !.pc = "serving", !.step = 0]
      /\ UNCHANGED <<migrated, reference>>
    BY <1>1 DEF StartsInv, ProcessTyped, SeedNumbers
<1>9. /\ process' = Process(process'.pc, process.launch, process.config, process'.step)
      /\ IF step < Len(s) THEN process'.pc = "numbers" /\ process'.step = step + 1
                          ELSE process'.pc = "serving" /\ process'.step = 0
    <2>1. CASE step < Len(s)
        BY <1>2, <1>8, <2>1 DEF Process
    <2>2. CASE ~ (step < Len(s))
        BY <1>2, <1>8, <2>2 DEF Process
    <2> QED  BY <2>1, <2>2
<1>10. process'.launch = process.launch /\ process'.config = process.config
    BY <1>9 DEF Process
<1>11. ProcessTyped'
    BY <1>2, <1>9, <1>10 DEF StartsInv, ProcessTyped, Phases
<1>12. ReferenceSeeded'
    BY <1>2, <1>8, <1>9 DEF StartsInv, ReferenceSeeded
<1>13. ASSUME NEW i \in 1..step
       PROVE  Seeded(i)'
    <2>1. CASE i = step
        BY <1>6, <1>10, <2>1 DEF Seeded
    <2>2. CASE i # step
        <3>1. i \in 1..(step - 1)
            BY <1>2, <1>3, <2>2
        <3> QED  BY <1>2, <1>7, <1>10, <3>1 DEF Seeded
    <2> QED  BY <2>1, <2>2
<1>14. NumbersSeeded'
    <2>1. CASE step < Len(s)
        <3>1. step + 1 \in DOMAIN s /\ (step + 1) - 1 = step
            BY <1>2, <1>3, <2>1
        <3> QED  BY <1>9, <1>10, <1>13, <2>1, <3>1 DEF NumbersSeeded
    <2>2. CASE ~ (step < Len(s))
        <3>1. DOMAIN s = 1..step
            BY <1>2, <1>3, <2>2
        <3> QED  BY <1>9, <1>10, <1>13, <2>2, <3>1 DEF NumbersSeeded
    <2> QED  BY <2>1, <2>2
<1> QED  BY <1>6, <1>11, <1>12, <1>14 DEF StartsInv

\* A row that is ported is a row.
LEMMA PortedRows ==
    ASSUME NEW q \in NumberRow, NEW op \in Operators, Today \in Nat
    PROVE  [q EXCEPT !.holder = op, !.date = Today] \in NumberRow
<1>1. [q EXCEPT !.holder = op] \in NumberRow
    BY DEF NumberRow
<1>2. Today \in 0..Today \cup {None}
    <2>1. Today \in 0..Today
        OBVIOUS
    <2> QED  BY <2>1, Zenon
<1>3. ASSUME NEW p \in NumberRow
      PROVE  [p EXCEPT !.date = Today] \in NumberRow
    BY <1>2 DEF NumberRow
<1> QED  BY <1>1, <1>3

\* A row that a request rewrites is still a row, and no number appears or goes.
LEMMA MovesKeep ==
    ASSUME StartsInv, NumberMoves
    PROVE  StartsInv'
<1>0. Today \in Nat /\ \A n \in DOMAIN numero : numero[n] \in NumberRow
    BY SeedTables DEF StartsInv, Contiguous
<1>1. /\ UNCHANGED <<process, migrated, reference>>
      /\ DOMAIN numero' = DOMAIN numero
    BY DEF NumberMoves, Port, GiveBack, Restore, Has
<1>2. ASSUME NEW n \in DOMAIN numero
      PROVE  /\ Number(numero[n].origin, numero[n].origin, Today, TRUE) \in NumberRow
             /\ Number(numero[n].origin, numero[n].origin, None, FALSE) \in NumberRow
    BY <1>0 DEF Number, NumberRow
<1>3. ASSUME NEW n \in DOMAIN numero
      PROVE  numero'[n] \in NumberRow
    <2>1. ASSUME NEW numbers, NEW op \in Operators, Port(numbers, op)
          PROVE  numero'[n] \in NumberRow
        <3>1. [numero[n] EXCEPT !.holder = op, !.date = Today] \in NumberRow
            BY <1>0, PortedRows, Zenon
        <3> QED  BY <1>0, <2>1, <3>1 DEF Port
    <2>2. ASSUME NEW numbers, Restore(numbers)
          PROVE  numero'[n] \in NumberRow
        BY <1>0, <1>2, <2>2 DEF Restore
    <2>3. ASSUME NEW m, GiveBack(m)
          PROVE  numero'[n] \in NumberRow
        BY <1>0, <1>2, <2>3 DEF GiveBack, Has
    <2> QED  BY <2>1, <2>2, <2>3 DEF NumberMoves
<1>4. Contiguous'
    BY <1>1, <1>3 DEF StartsInv, Contiguous
<1>5. NumbersSeeded'
    BY <1>1, SeededStays DEF StartsInv
<1> QED  BY <1>1, <1>4, <1>5 DEF StartsInv, ProcessTyped, ReferenceSeeded

\* The reference tables are seeded in their order.
LEMMA SeedReferenceKeeps ==
    ASSUME StartsInv, SeedReference
    PROVE  StartsInv'
<1> DEFINE s == Statements(process.config.pool)
<1>1. PICK step : step = process.step
    OBVIOUS
<1>2. /\ DOMAIN ReferenceTables = 1..6 /\ Len(ReferenceTables) = 6
    BY DEF ReferenceTables
<1>3. /\ process.pc = "reference" /\ step \in 1..6
      /\ \A i \in 1..(step - 1) : ReferenceTables[i] \in reference
      /\ process.config.pool \in Pools /\ migrated = TRUE
      /\ reference \subseteq Range(ReferenceTables)
    BY <1>1, <1>2 DEF StartsInv, ProcessTyped, ReferenceSeeded, SeedReference
<1>4. /\ process = Process(process.pc, process.launch, process.config, process.step)
      /\ process' = IF step < 6 THEN [process EXCEPT !.step = step + 1]
                    ELSE [process EXCEPT !.pc = "numbers", !.step = 1]
      /\ reference' = reference \cup {ReferenceTables[step]}
      /\ UNCHANGED <<migrated, numero>>
    BY <1>1, <1>2 DEF StartsInv, ProcessTyped, SeedReference
<1>5. /\ process' = Process(process'.pc, process.launch, process.config, process'.step)
      /\ IF step < 6 THEN process'.pc = "reference" /\ process'.step = step + 1
                     ELSE process'.pc = "numbers" /\ process'.step = 1
    <2>1. CASE step < 6
        BY <1>3, <1>4, <2>1 DEF Process
    <2>2. CASE ~ (step < 6)
        BY <1>3, <1>4, <2>2 DEF Process
    <2> QED  BY <2>1, <2>2
<1>6. process'.launch = process.launch /\ process'.config = process.config
    BY <1>5 DEF Process
<1>7. ProcessTyped'
    BY <1>3, <1>5, <1>6 DEF StartsInv, ProcessTyped, Phases
<1>8. reference' \subseteq Range(ReferenceTables)
    BY <1>2, <1>3, <1>4 DEF Range
<1>9. \A i \in 1..step : ReferenceTables[i] \in reference'
    BY <1>3, <1>4
<1>10. ReferenceSeeded'
    <2>1. CASE step < 6
        <3>1. step + 1 \in 1..6 /\ (step + 1) - 1 = step
            BY <1>3, <2>1
        <3> QED  BY <1>2, <1>3, <1>4, <1>5, <1>8, <1>9, <2>1, <3>1 DEF ReferenceSeeded
    <2>2. CASE ~ (step < 6)
        <3>1. step = 6
            BY <1>3, <2>2
        <3>2. Range(ReferenceTables) \subseteq reference'
            BY <1>2, <1>9, <3>1 DEF Range
        <3> QED  BY <1>3, <1>4, <1>5, <1>8, <2>2, <3>2 DEF ReferenceSeeded
    <2> QED  BY <2>1, <2>2
<1>11. NumbersSeeded'
    <2>1. 1 \in DOMAIN s
        <3>1. s \in Seq(SeededRange) /\ Len(s) > 0
            BY <1>3, StatementsInOrder DEF InOrder
        <3> HIDE DEF s
        <3> QED  BY <3>1
    <2> QED  BY <1>5, <1>6, <2>1 DEF NumbersSeeded
<1>12. Contiguous'
    BY <1>4 DEF StartsInv, Contiguous
<1> QED  BY <1>7, <1>10, <1>11, <1>12 DEF StartsInv

\* Every step of the server keeps the invariant of the starts.
LEMMA StartsInvKept == StartsInv /\ [Next]_vars => StartsInv'
<1> SUFFICES ASSUME StartsInv, [Next]_vars PROVE StartsInv'
    OBVIOUS
<1>1. CASE UNCHANGED startupVars
    BY <1>1 DEF startupVars, StartsInv, Contiguous, ProcessTyped, ReferenceSeeded,
                NumbersSeeded, Seeded
<1>2. ASSUME NEW launch \in Launches, Start(launch)
      PROVE  StartsInv'
    <2>1. process' = Process("migrate", launch, Load(Environment(launch).env), 0)
        BY <1>2 DEF Start
    <2>2. /\ process'.pc = "migrate" /\ process'.launch = launch
          /\ process'.config.pool \in Pools
          /\ process' = Process(process'.pc, process'.launch, process'.config, process'.step)
        BY <1>2, <2>1, BootsWithAPool DEF Process, Start
    <2>3. ProcessTyped'
        BY <1>2, <2>2 DEF ProcessTyped, Phases, Start
    <2> QED  BY <1>2, <2>2, <2>3
             DEF Start, StartsInv, Contiguous, ReferenceSeeded, NumbersSeeded
<1>3. CASE Migrate
    <2>1. /\ process' = Process("reference", None, process.config, 1)
          /\ process.config.pool \in Pools /\ migrated' = TRUE
          /\ UNCHANGED <<reference, numero>>
        BY <1>3 DEF Migrate, StartsInv, ProcessTyped
    <2>2. /\ process'.pc = "reference" /\ process'.launch = None
          /\ process'.config = process.config /\ process'.step = 1
          /\ process' = Process(process'.pc, process'.launch, process'.config, process'.step)
        BY <2>1 DEF Process
    <2>3. ProcessTyped'
        BY <2>1, <2>2 DEF ProcessTyped, Phases
    <2>4. 1 \in DOMAIN ReferenceTables
        BY DEF ReferenceTables
    <2>5. ReferenceSeeded'
        BY <2>1, <2>2, <2>4 DEF StartsInv, ReferenceSeeded
    <2> QED  BY <2>1, <2>2, <2>3, <2>5 DEF StartsInv, Contiguous, NumbersSeeded
<1>4. CASE Crash
    <2>1. process' = Down /\ UNCHANGED <<migrated, reference, numero>>
        BY <1>4 DEF Crash
    <2>2. process'.pc = "down" /\ process'.launch = None
        BY <2>1 DEF Down, Process
    <2>3. ProcessTyped'
        BY <2>1, <2>2 DEF ProcessTyped, Phases, Down, Process
    <2> QED  BY <2>1, <2>2, <2>3
             DEF StartsInv, Contiguous, ReferenceSeeded, NumbersSeeded
<1>5. CASE StartupStep
    BY <1>2, <1>3, <1>5, SeedReferenceKeeps, SeedNumbersKeeps DEF StartupStep
<1> QED  BY <1>1, <1>4, <1>5, MovesKeep DEF Next, vars, startupVars

\* A server that was never started has seeded nothing.
LEMMA StartsInvInit == Init => StartsInv
<1> SUFFICES ASSUME StartupInit PROVE StartsInv
    BY DEF Init
<1>1. process.pc = "down" /\ process.launch = None /\ process = Down
    BY DEF StartupInit, Down, Process
<1>2. ProcessTyped
    BY <1>1 DEF ProcessTyped, Phases, Down, Process
<1> QED  BY <1>1, <1>2
         DEF StartupInit, StartsInv, Contiguous, ReferenceSeeded, NumbersSeeded

\* The inductive invariant of the starts: what a start's step says it seeded is
\* there, and the registry is contiguous.
THEOREM StartsInvariant == Spec => []StartsInv
    BY StartsInvInit, StartsInvKept, PTL DEF Spec

\* Every variable of the server has its type.
THEOREM ServerTyped == Spec => []TypeOK
<1>1. StartsInv /\ IInv => TypeOK
    <2> SUFFICES ASSUME StartsInv, IInv PROVE TypeOK
        OBVIOUS
    <2>1. /\ process.pc \in Phases /\ process.launch \in Launches \cup {None}
          /\ process # Down => process.config.pool \in Nat
        BY ConfigurationAssumption DEF StartsInv, ProcessTyped, Pools
    <2>2. \A n \in DOMAIN numero : n[2] < MaxPerRange /\ numero[n] \in NumberRow
        BY ConfigurationAssumption DEF StartsInv, Contiguous
    <2>3. migrated \in BOOLEAN /\ reference \subseteq Range(ReferenceTables)
        BY DEF StartsInv, ReferenceSeeded
    <2>4. Len(incidents) <= MaxIncidents /\ handlers \in [Calls -> HandlerType]
        BY DEF IInv, Typed
    <2> QED  BY <2>1, <2>2, <2>3, <2>4 DEF TypeOK
<1> QED  BY <1>1, StartsInvariant, ServerImplementsIncidents, IncidentsInvariant, PTL

\* Whatever starts and crashes came before, what serves has every reference
\* list, every account and the numbers of its own pool, though a statement
\* looks for the last number of its range only; and none was too large.
THEOREM ServingServesAll == Spec => []ServingIsComplete
<1>1. StartsInv => ServingIsComplete
    <2> SUFFICES ASSUME StartsInv PROVE ServingIsComplete
        OBVIOUS
    <2> DEFINE s == Statements(process.config.pool)
    <2>1. ASSUME process.pc = "numbers", NEW r \in Range(s)
          PROVE  r.size > 0 /\ ~ Overflows(r)
        <3>1. process.config.pool \in Pools
            BY <2>1 DEF StartsInv, ProcessTyped
        <3>2. InOrder(s)
            BY <3>1, StatementsInOrder
        <3> HIDE DEF s
        <3>3. PICK i \in DOMAIN s : r = s[i]
            BY <2>1 DEF Range
        <3>4. s[i] \in SeededRange /\ ~ Overflows(s[i])
            BY <3>2, <3>3, Elements DEF InOrder
        <3> QED  BY <3>3, <3>4 DEF SeededRange
    <2>2. ASSUME Serving
          PROVE  /\ \A route \in ReferenceRoutes : Listed(route)
                 /\ Accounts = Operators
                 /\ \A r \in Range(s) : NumbersOf(r) \subseteq DOMAIN numero
        <3>1. migrated /\ \A i \in 1..6 : ReferenceTables[i] \in reference
            <4>1. DOMAIN ReferenceTables = 1..6
                BY DEF ReferenceTables
            <4> QED  BY <2>2, <4>1 DEF Serving, StartsInv, ReferenceSeeded, Range
        <3>2. {"operateur", "motif_rejet", "type_demande", "processus",
               "type_incident", "utilisateur"} \subseteq reference
            <4>1. /\ ReferenceTables[1] = "operateur" /\ ReferenceTables[2] = "motif_rejet"
                  /\ ReferenceTables[3] = "type_demande" /\ ReferenceTables[4] = "processus"
                  /\ ReferenceTables[5] = "type_incident"
                  /\ ReferenceTables[6] = "utilisateur"
                BY DEF ReferenceTables
            <4>2. /\ 1 \in 1..6 /\ 2 \in 1..6 /\ 3 \in 1..6 /\ 4 \in 1..6 /\ 5 \in 1..6
                  /\ 6 \in 1..6
                OBVIOUS
            <4> QED  BY <3>1, <4>1, <4>2, Zenon
        <3>3. \A route \in ReferenceRoutes : Listed(route)
            BY <3>1, <3>2 DEF ReferenceRoutes, Listed, TableOf
        <3>4. Accounts = Operators
            BY <3>2 DEF Accounts
        <3>5. \A r \in Range(s) : NumbersOf(r) \subseteq DOMAIN numero
            BY <2>2 DEF Serving, StartsInv, NumbersSeeded, Seeded, Range
        <3> QED  BY <3>3, <3>4, <3>5
    <2> QED  BY <2>1, <2>2 DEF ServingIsComplete
<1> QED  BY <1>1, StartsInvariant, PTL

-----------------------------------------------------------------------------
(***************************************************************************)
(* The list of the ranges and the front door.                              *)
(***************************************************************************)
\* A range that is listed as never ported has no number with a date, however
\* its numbers came back; and porting asks for nothing else of a number that
\* no request in progress is about.
THEOREM NeverPortedMayBePorted == Spec => []NeverPortedRangesArePortable
<1>1. StartsInv => NeverPortedRangesArePortable
    <2> SUFFICES ASSUME StartsInv, Serving, NEW op \in Operators,
                        NEW r \in RangesByOperator(op), r.nature = "never ported",
                        NEW n \in Held(op, r.prefix), NEW other \in Operators \ {op}
                 PROVE  CheckPortingEligibility([holder     |-> numero[n].holder,
                                                 date       |-> numero[n].date,
                                                 inProgress |-> FALSE],
                                                op, other, Today)
        BY DEF NeverPortedRangesArePortable
    <2>1. PICK prefix :
             r = [prefix |-> prefix, total |-> Cardinality(Held(op, prefix)),
                  nature |-> IF Ported(op, prefix) # {} THEN "already ported"
                             ELSE "never ported"]
        BY DEF RangesByOperator
    <2>2. r.prefix = prefix /\ Ported(op, prefix) = {}
        BY <2>1
    <2>3. numero[n].date = None /\ numero[n].holder = op
        BY <2>2 DEF Held, Ported
    <2> QED  BY <2>3 DEF CheckPortingEligibility, TooRecent
<1> QED  BY <1>1, StartsInvariant, PTL

\* Who has no good token is not let through to the gateway, and is refused in
\* one way whatever it asks for.
LEMMA RefusedAlike ==
    ASSUME NEW bearer \in Bearers,
           \A user \in Accounts : bearer # Issue(user, process.config.secret),
           NEW method, NEW path \in GatewayPaths, method \in {"GET", "POST"},
           NEW body
    PROVE  LET who == Authenticate(bearer, process.config.secret, Accounts) IN
           /\ who # "caller"
           /\ Answered(Request(method, path, FALSE, bearer, body), process.config,
                       Accounts, MarketFrozen)
                = Unauthenticated(who, process.config.fidelity)
<1> DEFINE who == Authenticate(bearer, process.config.secret, Accounts)
           r == Request(method, path, FALSE, bearer, body)
<1>1. who # "caller"
    <2> SUFFICES ASSUME who = "caller" PROVE FALSE
        OBVIOUS
    <2>1. /\ bearer.form \notin {"absent", "blank"} /\ Verify(bearer, process.config.secret)
          /\ bearer.user \in Accounts
        BY DEF Authenticate
    <2>2. PICK token \in Users \X Secrets : bearer = Issue(token[1], token[2])
        <3>1. Bearer("absent", "", "").form = "absent" /\ Bearer("blank", "", "").form = "blank"
            BY DEF Bearer
        <3>2. bearer # Bearer("absent", "", "") /\ bearer # Bearer("blank", "", "")
            BY <2>1, <3>1
        <3> QED  BY <3>2 DEF Bearers
    <2>3. token[1] \in Accounts /\ token[2] = process.config.secret
        BY <2>1, <2>2 DEF Issue, Bearer, Verify
    <2> QED  BY <2>2, <2>3
<1>2. /\ ~ Preflight(r) /\ GuardGatewayPrefix(r) /\ r.bearer = bearer
    BY DEF Request, Preflight, GuardGatewayPrefix, GatewayPaths, Path
<1> HIDE DEF r
<1>3. Door(r, process.config, Accounts) = Unauthenticated(who, process.config.fidelity)
    BY <1>1, <1>2 DEF Door
<1>4. Door(r, process.config, Accounts) # Reached
    BY <1>3, RefusalsAreNotReached
<1>5. Answered(r, process.config, Accounts, MarketFrozen)
         = Unauthenticated(who, process.config.fidelity)
    BY <1>3, <1>4 DEF Answered
<1> QED  BY <1>1, <1>5 DEF r

\* Who has one is answered, when the market is frozen, before its body is read.
LEMMA FrozenAlike ==
    ASSUME NEW bearer, NEW user \in Accounts,
           bearer = Issue(user, process.config.secret),
           NEW name \in GatedRoutes, NEW body
    PROVE  Answered(Request("POST", Path("gateway", name), FALSE, bearer, body),
                    process.config, Accounts, TRUE)
             = Failure("ERREUR_INTERNE", process.config.fidelity)
<1> DEFINE r == Request("POST", Path("gateway", name), FALSE, bearer, body)
<1>1. bearer = Bearer("token", user, process.config.secret)
    BY DEF Issue
<1>2. Authenticate(bearer, process.config.secret, Accounts) = "caller"
    <2>1. bearer.form = "token" /\ bearer.user = user
          /\ bearer.secret = process.config.secret
        BY <1>1 DEF Bearer
    <2>2. Verify(bearer, process.config.secret)
        BY <2>1 DEF Verify
    <2> QED  BY <2>1, <2>2 DEF Authenticate
<1>3. /\ ~ Preflight(r) /\ <<r.method, r.path>> \in Routes /\ r.bearer = bearer
      /\ r.path.area = "gateway" /\ r.method = "POST" /\ r.path.name = name
    BY DEF Request, Preflight, Path, Routes, PostRoutes
<1> HIDE DEF r
<1>4. Door(r, process.config, Accounts) = Reached
    BY <1>2, <1>3 DEF Door
<1>5. Controller(r.path.name, r.body, TRUE) = "ERREUR_INTERNE"
    BY <1>3 DEF Controller
<1>6. Answered(r, process.config, Accounts, TRUE)
         = Failure("ERREUR_INTERNE", process.config.fidelity)
    BY <1>3, <1>4, <1>5 DEF Answered
<1> QED  BY <1>6 DEF r

\* The front door refuses alike whatever lies behind it, and a frozen market
\* whatever the body.
THEOREM DoorHidesWhatIsBehind == Spec => []RefusalsHideWhatIsBehind
<1> DEFINE answered(method, path, bearer, body) ==
              Answered(Request(method, path, FALSE, bearer, body), process.config,
                       Accounts, MarketFrozen)
           good(bearer) == \E user \in Accounts :
                              bearer = Login(user, TRUE, process.config, Accounts)
<1>0. ASSUME NEW user \in Accounts
      PROVE  Login(user, TRUE, process.config, Accounts)
                = Issue(user, process.config.secret)
    BY Zenon DEF Login
<1>1. ASSUME NEW bearer \in Bearers, ~ good(bearer), NEW path \in GatewayPaths
      PROVE  /\ answered("POST", path, bearer, GoodBody)
                   = answered("GET", Path("gateway", "nothing"), bearer, GoodBody)
             /\ answered("POST", path, bearer, GoodBody) # Reached
    <2>1. Path("gateway", "nothing") \in GatewayPaths
        BY DEF GatewayPaths
    <2> DEFINE who == Authenticate(bearer, process.config.secret, Accounts)
    <2>2. /\ answered("POST", path, bearer, GoodBody)
                = Unauthenticated(who, process.config.fidelity)
          /\ answered("GET", Path("gateway", "nothing"), bearer, GoodBody)
                = Unauthenticated(who, process.config.fidelity)
        <3>1. \A user \in Accounts : bearer # Issue(user, process.config.secret)
            BY <1>0, <1>1, Zenon
        <3>2. ASSUME NEW method \in {"GET", "POST"}, NEW to \in GatewayPaths
              PROVE  answered(method, to, bearer, GoodBody)
                       = Unauthenticated(who, process.config.fidelity)
            BY <1>1, <3>1, RefusedAlike, Zenon
        <3>3. "GET" \in {"GET", "POST"} /\ "POST" \in {"GET", "POST"}
            OBVIOUS
        <3> QED  BY <1>1, <2>1, <3>2, <3>3, Zenon
    <2> QED  BY <2>2, RefusalsAreNotReached
<1>2. ASSUME NEW bearer \in Bearers, good(bearer), NEW name \in GatedRoutes,
             NEW body \in Bodies, MarketFrozen
      PROVE  answered("POST", Path("gateway", name), bearer, body)
                = answered("POST", Path("gateway", name), bearer, GoodBody)
    <2>1. PICK user \in Accounts : bearer = Issue(user, process.config.secret)
        BY <1>0, <1>2, Zenon
    <2>2. MarketFrozen = TRUE
        BY <1>2 DEF MarketFrozen
    <2> QED  BY <2>1, <2>2, FrozenAlike
<1>3. RefusalsHideWhatIsBehind
    BY <1>1, <1>2 DEF RefusalsHideWhatIsBehind
<1> QED  BY <1>3, PTL

-----------------------------------------------------------------------------
(***************************************************************************)
(* The rendering of instants.                                              *)
(***************************************************************************)
\* What is cut at a unit is a multiple of it; to cut it again changes nothing,
\* and a shift by a multiple shifts what is cut.
LEMMA Cuts ==
    ASSUME NEW unit \in Nat \ {0}, NEW t \in Int
    PROVE  /\ Truncate(t, unit) \in Int
           /\ Truncate(t, unit) = unit * (t \div unit)
           /\ Truncate(Truncate(t, unit), unit) = Truncate(t, unit)
           /\ \A k \in Int : Truncate(t + unit * k, unit) = Truncate(t, unit) + unit * k
<1>1. /\ t \div unit \in Int /\ t % unit \in 0..(unit - 1)
      /\ t = unit * (t \div unit) + (t % unit)
    OBVIOUS
<1>2. PICK q \in Int, r \in 0..(unit - 1) :
         q = t \div unit /\ r = t % unit /\ t = unit * q + r
    BY <1>1
<1>3. Truncate(t, unit) = unit * q /\ unit * q \in Int
    <2>1. unit * q \in Int
        BY <1>2
    <2>2. Truncate(t, unit) = t - r
        BY <1>2 DEF Truncate
    <2>3. t - r = unit * q
        BY <1>2, <2>1
    <2> QED  BY <2>1, <2>2, <2>3
<1>4. Truncate(unit * q, unit) = unit * q
    <2>1. (unit * q + 0) % unit = 0
        <3>1. 0 \in 0..(unit - 1)
            OBVIOUS
        <3> QED  BY <1>2, <3>1, Quotient, Zenon
    <2>2. unit * q + 0 = unit * q
        BY <1>3
    <2>3. (unit * q) % unit = 0
        BY <2>1, <2>2
    <2> QED  BY <1>3, <2>3 DEF Truncate
<1>5. ASSUME NEW k \in Int
      PROVE  Truncate(t + unit * k, unit) = unit * q + unit * k
    <2>1. PICK p \in Int : p = q + k
        BY <1>2
    <2>2. (t + unit * k) % unit = r
        <3>1. t + unit * k = unit * p + r
            BY <1>2, <2>1
        <3>2. (unit * p + r) % unit = r
            BY <2>1, Quotient
        <3> QED  BY <3>1, <3>2
    <2> QED  BY <1>2, <1>3, <2>2 DEF Truncate
<1> QED  BY <1>2, <1>3, <1>4, <1>5

\* Cutting at a microsecond first changes nothing to a cut at the millisecond.
LEMMA CutsAgree ==
    ASSUME NEW t \in Int
    PROVE  Truncate(Truncate(t, Micro), Milli) = Truncate(t, Milli)
<1>1. Micro \in Nat \ {0} /\ Milli \in Nat \ {0}
    BY RenderingAssumption
<1>2. PICK k \in Int : Milli = Micro * k
    <2>1. Milli = Micro * (Milli \div Micro) + (Milli % Micro) /\ Milli \div Micro \in Int
        BY <1>1
    <2>2. Milli % Micro = 0
        BY RenderingAssumption
    <2>3. Milli = Micro * (Milli \div Micro)
        BY <1>1, <2>1, <2>2
    <2> QED  BY <2>1, <2>3
<1>3. PICK q \in Int, r \in 0..(Milli - 1) : t = Milli * q + r
    <2>1. /\ t \div Milli \in Int /\ t % Milli \in 0..(Milli - 1)
          /\ t = Milli * (t \div Milli) + (t % Milli)
        BY <1>1
    <2> QED  BY <2>1
<1>4. PICK p \in Int, s \in 0..(Micro - 1) : r = Micro * p + s
    <2>1. /\ r \div Micro \in Int /\ r % Micro \in 0..(Micro - 1)
          /\ r = Micro * (r \div Micro) + (r % Micro)
        BY <1>1
    <2> QED  BY <2>1
<1>5. Micro * p \in 0..(Milli - 1)
    <2>1. p >= 0
        <3> SUFFICES ASSUME p <= -1 PROVE FALSE
            BY <1>4
        <3>1. Micro * p <= - Micro
            BY <1>1, <1>4
        <3> QED  BY <1>1, <1>3, <1>4, <3>1
    <2>2. Micro * p >= 0
        BY <1>1, <1>4, <2>1
    <2>3. Micro * p <= r
        BY <1>1, <1>4
    <2> QED  BY <1>1, <1>3, <2>2, <2>3
<1>6. Truncate(t, Micro) = Milli * q + Micro * p
    <2>1. t = Micro * (k * q + p) + s /\ k * q + p \in Int
        <3>1. Milli * q = Micro * (k * q)
            BY <1>1, <1>2, <1>3
        <3>2. k * q \in Int
            BY <1>2, <1>3
        <3> QED  BY <1>1, <1>3, <1>4, <3>1, <3>2
    <2>2. t % Micro = s
        BY <1>1, <2>1, Quotient
    <2> QED  BY <1>1, <1>3, <1>4, <2>2 DEF Truncate
<1>7. (Milli * q + Micro * p) % Milli = Micro * p
    BY <1>1, <1>3, <1>5, Quotient
<1>8. t % Milli = r
    BY <1>1, <1>3, Quotient
<1>9. Milli * q \in Int /\ Micro * p \in Int
    BY <1>1, <1>3, <1>4
<1> QED  BY <1>3, <1>6, <1>7, <1>8, <1>9 DEF Truncate

\* What a request has written and reads back, it renders to the nanosecond.
LEMMA RenderedExactly ==
    ASSUME NEW written, NEW i \in DOMAIN written, written[i] \in Int, NEW read, NEW k \in Int,
           WrittenAt(written, read) = {i}, i \in Int
    PROVE  RenderedInstant(written, read, Milli * k) = written[i] + Milli * k
<1> DEFINE w == written[i]
           skew == Milli * k
<1>1. Milli \in Nat \ {0}
    BY RenderingAssumption
<1>2. Min({i}) = i
    BY DEF Min
<1>3. RenderedInstant(written, read, skew)
         = Truncate(Rendered(w, skew), Milli) + (w - Truncate(w, Milli))
    BY <1>2 DEF RenderedInstant
<1>4. /\ Truncate(w, Milli) \in Int
      /\ Rendered(w, skew) = Truncate(w, Milli) + skew
    BY <1>1, Cuts DEF Rendered
<1>5. Truncate(Truncate(w, Milli) + skew, Milli) = Truncate(w, Milli) + skew
    <2>1. PICK v \in Int : v = Truncate(w, Milli)
        BY <1>4
    <2>2. Truncate(v, Milli) = v
        BY <1>1, <2>1, Cuts
    <2>3. Truncate(v + Milli * k, Milli) = Truncate(v, Milli) + Milli * k
        BY <1>1, Cuts
    <2> QED  BY <2>1, <2>2, <2>3
<1>6. skew \in Int
    BY <1>1
<1> QED  BY <1>3, <1>4, <1>5, <1>6

\* What it reads and has not written, it renders as what is stored, cut at the
\* millisecond.
LEMMA RenderedCut ==
    ASSUME NEW written, NEW t \in Int, NEW k \in Int, WrittenAt(written, Stored(t)) = {}
    PROVE  RenderedInstant(written, Stored(t), Milli * k)
              = Truncate(t + Milli * k, Milli)
<1>1. Milli \in Nat \ {0} /\ Micro \in Nat \ {0}
    BY RenderingAssumption
<1>2. RenderedInstant(written, Stored(t), Milli * k)
         = Truncate(Stored(t) + Milli * k, Milli)
    BY DEF RenderedInstant, Rendered
<1>3. Stored(t) \in Int
    BY <1>1, Cuts DEF Stored
<1>4. /\ Truncate(Stored(t) + Milli * k, Milli) = Truncate(Stored(t), Milli) + Milli * k
      /\ Truncate(t + Milli * k, Milli) = Truncate(t, Milli) + Milli * k
    BY <1>1, <1>3, Cuts
<1> QED  BY <1>2, <1>4, CutsAgree DEF Stored

\* An instant that a request writes is matched by what is stored of it, and
\* by nothing stored of another microsecond.
LEMMA Matching ==
    ASSUME NEW t \in Int, NEW u \in Int
    PROVE  /\ WrittenAt(<<t>>, Stored(t)) = {1}
           /\ Stored(t) # Stored(u) => /\ WrittenAt(<<u, t>>, Stored(t)) = {2}
                                       /\ WrittenAt(<<u>>, Stored(t)) = {}
<1>1. Micro \in Nat \ {0}
    BY RenderingAssumption
<1>2. Truncate(Stored(t), Micro) = Stored(t)
    BY <1>1, Cuts DEF Stored
<1>3. Matches(t, Stored(t))
    BY <1>2 DEF Matches, Stored
<1>4. Stored(t) # Stored(u) => ~ Matches(u, Stored(t))
    BY <1>2 DEF Matches, Stored
<1>5. WrittenAt(<<t>>, Stored(t)) = {1}
    <2>1. DOMAIN <<t>> = {1} /\ <<t>>[1] = t
        OBVIOUS
    <2> QED  BY <1>3, <2>1 DEF WrittenAt
<1>6. ASSUME Stored(t) # Stored(u)
      PROVE  /\ WrittenAt(<<u, t>>, Stored(t)) = {2}
             /\ WrittenAt(<<u>>, Stored(t)) = {}
    <2>1. /\ DOMAIN <<u, t>> = {1, 2} /\ <<u, t>>[1] = u /\ <<u, t>>[2] = t
          /\ DOMAIN <<u>> = {1} /\ <<u>>[1] = u
        OBVIOUS
    <2>2. WrittenAt(<<u, t>>, Stored(t)) = {2}
        BY <1>3, <1>4, <1>6, <2>1 DEF WrittenAt
    <2>3. WrittenAt(<<u>>, Stored(t)) = {}
        BY <1>4, <1>6, <2>1 DEF WrittenAt
    <2> QED  BY <2>2, <2>3
<1> QED  BY <1>5, <1>6

\* The clock's skew is a whole number of seconds, hence of milliseconds.
LEMMA SkewsAreWhole ==
    ASSUME NEW launch \in Launches, Boots(launch)
    PROVE  \E k \in Int :
              Second * Setting(Environment(launch).env, "CLOCK_SKEW_SECONDS") = Milli * k
<1> DEFINE n == Setting(Environment(launch).env, "CLOCK_SKEW_SECONDS")
<1>1. "CLOCK_SKEW_SECONDS" \in Durations
    BY DEF Durations
<1>2. n \in Int \cup {Junk}
    BY <1>1, StartupAssumption, Zenon
<1>3. n # Junk
    BY <1>1 DEF Boots, Loads
<1>4. PICK m \in Int : m = n
    BY <1>2, <1>3
<1> HIDE DEF n
<1>5. Milli \in Nat \ {0} /\ Second \in Nat \ {0} /\ Second % Milli = 0
    BY RenderingAssumption
<1>6. PICK p \in Int : Second = Milli * p
    <2>1. /\ Second = Milli * (Second \div Milli) + (Second % Milli)
          /\ Second \div Milli \in Int
        BY <1>5
    <2>2. Second = Milli * (Second \div Milli)
        BY <1>5, <2>1
    <2> QED  BY <2>1, <2>2
<1>7. p * m \in Int /\ Second * m = Milli * (p * m)
    BY <1>4, <1>5, <1>6
<1>8. \E k \in Int : Second * n = Milli * k
    BY <1>4, <1>7
<1> QED  BY <1>8 DEF n

\* A request renders what it wrote to the nanosecond, and any other the same
\* instant cut at the millisecond, whatever skew the server started with.
THEOREM RenderingsOfAnInstantAgree == Spec => []RenderingsAgree
<1>1. StartsInv => RenderingsAgree
    <2> SUFFICES ASSUME StartsInv, process.launch # None, NEW t \in Instants, NEW u \in Instants
                 PROVE  LET skew == Second * Setting(Environment(process.launch).env,
                                                     "CLOCK_SKEW_SECONDS") IN
                        /\ RenderedInstant(<<t>>, Stored(t), skew) = t + skew
                        /\ Stored(t) # Stored(u) =>
                              /\ RenderedInstant(<<u, t>>, Stored(t), skew) = t + skew
                              /\ RenderedInstant(<<u>>, Stored(t), skew)
                                    = Truncate(t + skew, Milli)
        BY DEF RenderingsAgree
    <2>1. process.launch \in Launches /\ Boots(process.launch)
        BY DEF StartsInv, ProcessTyped
    <2>2. PICK launch \in Launches : launch = process.launch /\ Boots(launch)
        BY <2>1
    <2>3. PICK k \in Int :
             Second * Setting(Environment(launch).env, "CLOCK_SKEW_SECONDS") = Milli * k
        BY <2>2, SkewsAreWhole
    <2>4. t \in Int /\ u \in Int
        BY RenderingAssumption
    <2>5. RenderedInstant(<<t>>, Stored(t), Milli * k) = t + Milli * k
        <3> DEFINE written == <<t>>
        <3>1. 1 \in DOMAIN written /\ written[1] = t
            OBVIOUS
        <3>2. WrittenAt(written, Stored(t)) = {1}
            BY <2>4, Matching
        <3> HIDE DEF written
        <3>3. RenderedInstant(written, Stored(t), Milli * k) = t + Milli * k
            BY <2>4, <3>1, <3>2, RenderedExactly
        <3> QED  BY <3>3 DEF written
    <2>6. ASSUME Stored(t) # Stored(u)
          PROVE  /\ RenderedInstant(<<u, t>>, Stored(t), Milli * k) = t + Milli * k
                 /\ RenderedInstant(<<u>>, Stored(t), Milli * k)
                       = Truncate(t + Milli * k, Milli)
        <3> DEFINE written == <<u, t>>
        <3>1. 2 \in DOMAIN written /\ written[2] = t
            OBVIOUS
        <3>2. WrittenAt(written, Stored(t)) = {2} /\ WrittenAt(<<u>>, Stored(t)) = {}
            BY <2>4, <2>6, Matching
        <3> HIDE DEF written
        <3>3. RenderedInstant(written, Stored(t), Milli * k) = t + Milli * k
            BY <2>4, <3>1, <3>2, RenderedExactly
        <3>4. RenderedInstant(<<u>>, Stored(t), Milli * k) = Truncate(t + Milli * k, Milli)
            BY <2>4, <3>2, RenderedCut
        <3> QED  BY <3>3, <3>4 DEF written
    <2> QED  BY <2>2, <2>3, <2>5, <2>6
<1> QED  BY <1>1, StartsInvariant, PTL

==================================================================================
