--------------------------- MODULE ConfigurationProofs ---------------------------
(***************************************************************************)
(* A start takes each setting from where env.go says it does, whatever the *)
(* arguments and however long the environment file.                        *)
(*                                                                         *)
(* ApplyArguments and LoadEnvFile fold over a list.  That a fold is what a *)
(* loop leaves is an induction over the length of the list.  It is made    *)
(* with sets rather than with predicates: of the lengths at which it would *)
(* fail there is a least one (Least), which cannot be.                     *)
(***************************************************************************)
EXTENDS ServerProperties, WellFoundedInduction, TLAPS

-----------------------------------------------------------------------------
(***************************************************************************)
(* Natural numbers.                                                        *)
(***************************************************************************)
\* A set of natural numbers that has one has a least one.
LEMMA Least ==
    ASSUME NEW T, T \subseteq Nat, T # {}
    PROVE  \E n \in T : \A m \in T : n <= m
<1> DEFINE R == OpToRel(<, Nat)
<1>1. IsWellFoundedOn(R, Nat)
    BY NatLessThanWellFounded
<1>2. \A x, y \in Nat : x < y => <<x, y>> \in R
    BY DEF OpToRel
<1> HIDE DEF R
<1>3. PICK n \in T : \A m \in T : ~ (<<m, n>> \in R)
    BY <1>1, WFMin
<1>4. \A m \in T : n \in Nat /\ m \in Nat /\ ~ (m < n)
    BY <1>2, <1>3
<1> QED  BY <1>3, <1>4

\* What holds of 0, and of a number if of the one before, holds of all.
LEMMA Climb ==
    ASSUME NEW S, 0 \in S,
           \A n \in Nat : n \in S => n + 1 \in S
    PROVE  Nat \subseteq S
<1> DEFINE T == Nat \ S
<1>1. SUFFICES ASSUME T # {} PROVE FALSE
    OBVIOUS
<1>2. PICK n \in T : \A m \in T : n <= m
    BY <1>1, Least
<1>3. n - 1 \in Nat /\ (n - 1) + 1 = n
    BY <1>2
<1>4. n - 1 \notin T
    BY <1>2, <1>3
<1> QED  BY <1>2, <1>3, <1>4

\* The first k positions without the last one are the first k - 1.
LEMMA WithoutTheLast ==
    ASSUME NEW k \in Nat \ {0}
    PROVE  Max(1..k) = k /\ (1..k) \ {k} = 1..(k - 1) /\ 1..k # {}
<1>1. \A x \in 1..k : (\A y \in 1..k : x >= y) => x = k
    OBVIOUS
<1>2. k \in 1..k /\ \A y \in 1..k : k >= y
    OBVIOUS
<1>3. Max(1..k) = k
    BY <1>1, <1>2 DEF Max
<1>4. (1..k) \ {k} = 1..(k - 1)
    <2>1. \A x : x \in 1..k /\ x # k <=> x \in 1..(k - 1)
        OBVIOUS
    <2> QED  BY <2>1
<1> QED  BY <1>2, <1>3, <1>4

\* The greatest of a set that holds its bound is the bound.
LEMMA MaxIsTheBound ==
    ASSUME NEW k \in Nat, NEW S, S \subseteq 1..k, k \in S
    PROVE  Max(S) = k
<1>1. \A y \in S : k >= y
    OBVIOUS
<1>2. \A x \in S : (\A y \in S : x >= y) => x = k
    OBVIOUS
<1> QED  BY <1>1, <1>2 DEF Max

\* A number above all others does not change the least.
LEMMA MinStays ==
    ASSUME NEW k \in Nat, NEW S, S \subseteq 1..k, S # {}
    PROVE  Min(S \cup {k + 1}) = Min(S) /\ Min(S) \in S
<1>1. PICK n \in S : \A m \in S : n <= m
    <2>1. S \subseteq Nat
        OBVIOUS
    <2> QED  BY <2>1, Least
<1>2. n \in Nat /\ n <= k
    BY <1>1
<1>3. \A x \in S : (\A y \in S : x =< y) => x = n
    BY <1>1
<1>4. Min(S) = n
    BY <1>1, <1>3 DEF Min
<1>5. n \in S \cup {k + 1} /\ \A y \in S \cup {k + 1} : n =< y
    BY <1>1, <1>2
<1>6. \A x \in S \cup {k + 1} : (\A y \in S \cup {k + 1} : x =< y) => x = n
    <2> SUFFICES ASSUME NEW x \in S \cup {k + 1}, \A y \in S \cup {k + 1} : x =< y
                 PROVE  x = n
        OBVIOUS
    <2>1. x =< n /\ x \in Nat
        BY <1>1
    <2>2. n =< x
        BY <1>5
    <2> QED  BY <1>2, <2>1, <2>2
<1>7. Min(S \cup {k + 1}) = n
    BY <1>5, <1>6 DEF Min
<1> QED  BY <1>4, <1>7

-----------------------------------------------------------------------------
(***************************************************************************)
(* The two folds, as loops.                                                *)
(***************************************************************************)
\* The fold as a recursive function of the sets of positions, which takes the
\* last of a set after the others.
ArgumentsFolded(it, env, list, n) ==
    /\ it[{}] = Read(TRUE, env)
    /\ \A t \in SUBSET (1..n) : t # {} =>
          it[t] = ApplyArgument(it[t \ {Max(t)}], list[Max(t)])
    /\ ApplyArguments(env, list) = it[1..n]

\* There is such a function, however long the list.
LEMMA ArgumentsFoldUnfolds ==
    ASSUME NEW env, NEW list, NEW n \in Nat, DOMAIN list = 1..n
    PROVE  \E it : ArgumentsFolded(it, env, list, n)
<1> DEFINE Turn(it, k) ==
              [t \in SUBSET (1..k) |->
                 IF t = {} THEN Read(TRUE, env)
                 ELSE ApplyArgument(it[t \ {Max(t)}], list[Max(t)])]
<1> DEFINE S == {k \in Nat : \E it : it = Turn(it, k)}
<1>1. 0 \in S
    <2> DEFINE it == [t \in SUBSET (1..0) |-> Read(TRUE, env)]
    <2>1. 1..0 = {}
        OBVIOUS
    <2>2. it = Turn(it, 0)
        BY <2>1
    <2> QED  BY <2>2
<1>2. ASSUME NEW k \in Nat, k \in S
      PROVE  k + 1 \in S
    <2>1. PICK it : it = Turn(it, k)
        BY <1>2
    <2> DEFINE m == k + 1
    <2> DEFINE jt == [t \in SUBSET (1..m) |->
                        IF t = {} THEN Read(TRUE, env)
                        ELSE IF m \in t THEN ApplyArgument(it[t \ {m}], list[m])
                        ELSE it[t]]
    <2>2. ASSUME NEW t \in SUBSET (1..m), t # {}
          PROVE  jt[t] = ApplyArgument(jt[t \ {Max(t)}], list[Max(t)])
        <3>1. CASE m \in t
            <4>1. Max(t) = m
                <5>1. m \in Nat /\ t \subseteq 1..m
                    BY <2>2
                <5> QED  BY <3>1, <5>1, MaxIsTheBound
            <4>2. t \ {m} \in SUBSET (1..k) /\ t \ {m} \in SUBSET (1..m)
                BY <2>2
            <4>3. jt[t \ {m}] = it[t \ {m}]
                BY <2>1, <4>2
            <4> QED  BY <2>2, <3>1, <4>1, <4>3
        <3>2. CASE m \notin t
            <4>1. t \in SUBSET (1..k)
                BY <2>2, <3>2
            <4> DEFINE u == t \ {Max(t)}
            <4>2. u \in SUBSET (1..k) /\ u \in SUBSET (1..m) /\ m \notin u
                BY <3>2, <4>1
            <4>3. jt[u] = it[u]
                BY <2>1, <4>2
            <4>4. it[t] = ApplyArgument(it[u], list[Max(t)])
                BY <2>1, <2>2, <4>1
            <4> QED  BY <2>2, <3>2, <4>3, <4>4
        <3> QED  BY <3>1, <3>2
    <2>3. jt = Turn(jt, m)
        BY <2>2
    <2> HIDE DEF jt, Turn
    <2>4. \E ht : ht = Turn(ht, m)
        BY <2>3
    <2> QED  BY <2>4
<1>3. n \in S
    <2> HIDE DEF S
    <2> QED  BY <1>1, <1>2, Climb
<1> DEFINE it == CHOOSE it : it = Turn(it, n)
<1>4. it = Turn(it, n)
    BY <1>3
<1>5. ApplyArguments(env, list) = it[1..n]
    BY Zenon DEF ApplyArguments, FoldLeft, MapThenFoldSet
<1> HIDE DEF it
<1>6. it[{}] = Read(TRUE, env)
    BY <1>4
<1>7. ArgumentsFolded(it, env, list, n)
    BY <1>4, <1>5, <1>6 DEF ArgumentsFolded
<1> QED  BY <1>7

\* What the arguments leave one after the other: r[i] is what the first i leave.
ArgumentsApplied(r, env, list, n) ==
    /\ r[0] = Read(TRUE, env)
    /\ \A i \in 1..n : r[i] = ApplyArgument(r[i - 1], list[i])
    /\ ApplyArguments(env, list) = r[n]

\* The fold over the arguments applies them from the first to the last.
LEMMA ArgumentsInTurn ==
    ASSUME NEW env, NEW list, NEW n \in Nat, DOMAIN list = 1..n
    PROVE  \E r : ArgumentsApplied(r, env, list, n)
<1>0. PICK it : ArgumentsFolded(it, env, list, n)
    BY ArgumentsFoldUnfolds
<1>1. /\ it[{}] = Read(TRUE, env)
      /\ \A t \in SUBSET (1..n) : t # {} =>
            it[t] = ApplyArgument(it[t \ {Max(t)}], list[Max(t)])
      /\ ApplyArguments(env, list) = it[1..n]
    BY <1>0 DEF ArgumentsFolded
<1> DEFINE r == [i \in 0..n |-> it[1..i]]
<1>2. 1..0 = {}
    OBVIOUS
<1>3. r[0] = Read(TRUE, env)
    <2>1. r[0] = it[1..0]
        OBVIOUS
    <2>2. it[1..0] = it[{}]
        BY <1>2, Zenon
    <2> QED  BY <1>1, <2>1, <2>2, Zenon
<1>4. ASSUME NEW i \in 1..n
      PROVE  r[i] = ApplyArgument(r[i - 1], list[i])
    <2>1. Max(1..i) = i /\ (1..i) \ {i} = 1..(i - 1) /\ 1..i # {}
        <3>1. i \in Nat \ {0}
            OBVIOUS
        <3> QED  BY <3>1, WithoutTheLast
    <2>2. 1..i \in SUBSET (1..n) /\ i \in 0..n /\ i - 1 \in 0..n
        OBVIOUS
    <2>3. it[1..i] = ApplyArgument(it[1..(i - 1)], list[i])
        BY <1>1, <2>1, <2>2
    <2> QED  BY <2>2, <2>3
<1>5. r[n] = it[1..n]
    OBVIOUS
<1> HIDE DEF r
<1>6. ArgumentsApplied(r, env, list, n)
    BY <1>1, <1>3, <1>4, <1>5 DEF ArgumentsApplied
<1> QED  BY <1>6

\* The fold as a recursive function of the sets of positions, which takes the
\* last of a set after the others.
LinesFolded(it, env, list, n) ==
    /\ it[{}] = Read(TRUE, env)
    /\ \A t \in SUBSET (1..n) : t # {} =>
          it[t] = ApplyLine(it[t \ {Max(t)}], list[Max(t)])
    /\ ApplyLines(env, list) = it[1..n]

\* There is such a function, however long the list.
LEMMA LinesFoldUnfolds ==
    ASSUME NEW env, NEW list, NEW n \in Nat, DOMAIN list = 1..n
    PROVE  \E it : LinesFolded(it, env, list, n)
<1> DEFINE Turn(it, k) ==
              [t \in SUBSET (1..k) |->
                 IF t = {} THEN Read(TRUE, env)
                 ELSE ApplyLine(it[t \ {Max(t)}], list[Max(t)])]
<1> DEFINE S == {k \in Nat : \E it : it = Turn(it, k)}
<1>1. 0 \in S
    <2> DEFINE it == [t \in SUBSET (1..0) |-> Read(TRUE, env)]
    <2>1. 1..0 = {}
        OBVIOUS
    <2>2. it = Turn(it, 0)
        BY <2>1
    <2> QED  BY <2>2
<1>2. ASSUME NEW k \in Nat, k \in S
      PROVE  k + 1 \in S
    <2>1. PICK it : it = Turn(it, k)
        BY <1>2
    <2> DEFINE m == k + 1
    <2> DEFINE jt == [t \in SUBSET (1..m) |->
                        IF t = {} THEN Read(TRUE, env)
                        ELSE IF m \in t THEN ApplyLine(it[t \ {m}], list[m])
                        ELSE it[t]]
    <2>2. ASSUME NEW t \in SUBSET (1..m), t # {}
          PROVE  jt[t] = ApplyLine(jt[t \ {Max(t)}], list[Max(t)])
        <3>1. CASE m \in t
            <4>1. Max(t) = m
                <5>1. m \in Nat /\ t \subseteq 1..m
                    BY <2>2
                <5> QED  BY <3>1, <5>1, MaxIsTheBound
            <4>2. t \ {m} \in SUBSET (1..k) /\ t \ {m} \in SUBSET (1..m)
                BY <2>2
            <4>3. jt[t \ {m}] = it[t \ {m}]
                BY <2>1, <4>2
            <4> QED  BY <2>2, <3>1, <4>1, <4>3
        <3>2. CASE m \notin t
            <4>1. t \in SUBSET (1..k)
                BY <2>2, <3>2
            <4> DEFINE u == t \ {Max(t)}
            <4>2. u \in SUBSET (1..k) /\ u \in SUBSET (1..m) /\ m \notin u
                BY <3>2, <4>1
            <4>3. jt[u] = it[u]
                BY <2>1, <4>2
            <4>4. it[t] = ApplyLine(it[u], list[Max(t)])
                BY <2>1, <2>2, <4>1
            <4> QED  BY <2>2, <3>2, <4>3, <4>4
        <3> QED  BY <3>1, <3>2
    <2>3. jt = Turn(jt, m)
        BY <2>2
    <2> HIDE DEF jt, Turn
    <2>4. \E ht : ht = Turn(ht, m)
        BY <2>3
    <2> QED  BY <2>4
<1>3. n \in S
    <2> HIDE DEF S
    <2> QED  BY <1>1, <1>2, Climb
<1> DEFINE it == CHOOSE it : it = Turn(it, n)
<1>4. it = Turn(it, n)
    BY <1>3
<1>5. ApplyLines(env, list) = it[1..n]
    BY Zenon DEF ApplyLines, FoldLeft, MapThenFoldSet
<1> HIDE DEF it
<1>6. it[{}] = Read(TRUE, env)
    BY <1>4
<1>7. LinesFolded(it, env, list, n)
    BY <1>4, <1>5, <1>6 DEF LinesFolded
<1> QED  BY <1>7

\* What the lines leave one after the other: r[i] is what the first i leave.
LinesApplied(r, env, list, n) ==
    /\ r[0] = Read(TRUE, env)
    /\ \A i \in 1..n : r[i] = ApplyLine(r[i - 1], list[i])
    /\ ApplyLines(env, list) = r[n]

\* The fold over the lines of a file applies them from the first to the last.
LEMMA LinesInTurn ==
    ASSUME NEW env, NEW list, NEW n \in Nat, DOMAIN list = 1..n
    PROVE  \E r : LinesApplied(r, env, list, n)
<1>0. PICK it : LinesFolded(it, env, list, n)
    BY LinesFoldUnfolds
<1>1. /\ it[{}] = Read(TRUE, env)
      /\ \A t \in SUBSET (1..n) : t # {} =>
            it[t] = ApplyLine(it[t \ {Max(t)}], list[Max(t)])
      /\ ApplyLines(env, list) = it[1..n]
    BY <1>0 DEF LinesFolded
<1> DEFINE r == [i \in 0..n |-> it[1..i]]
<1>2. 1..0 = {}
    OBVIOUS
<1>3. r[0] = Read(TRUE, env)
    <2>1. r[0] = it[1..0]
        OBVIOUS
    <2>2. it[1..0] = it[{}]
        BY <1>2, Zenon
    <2> QED  BY <1>1, <2>1, <2>2, Zenon
<1>4. ASSUME NEW i \in 1..n
      PROVE  r[i] = ApplyLine(r[i - 1], list[i])
    <2>1. Max(1..i) = i /\ (1..i) \ {i} = 1..(i - 1) /\ 1..i # {}
        <3>1. i \in Nat \ {0}
            OBVIOUS
        <3> QED  BY <3>1, WithoutTheLast
    <2>2. 1..i \in SUBSET (1..n) /\ i \in 0..n /\ i - 1 \in 0..n
        OBVIOUS
    <2>3. it[1..i] = ApplyLine(it[1..(i - 1)], list[i])
        BY <1>1, <2>1, <2>2
    <2> QED  BY <2>2, <2>3
<1>5. r[n] = it[1..n]
    OBVIOUS
<1> HIDE DEF r
<1>6. LinesApplied(r, env, list, n)
    BY <1>1, <1>3, <1>4, <1>5 DEF LinesApplied
<1> QED  BY <1>6

-----------------------------------------------------------------------------
(***************************************************************************)
(* What the loops leave in the environment.                                *)
(***************************************************************************)
\* Setting a variable changes it and no other.
LEMMA SetenvSets ==
    ASSUME NEW env, NEW key, NEW value, NEW k
    PROVE  Lookup(Setenv(env, key, value), k)
             = IF k = key THEN value ELSE Lookup(env, k)
  BY DEF Lookup, Setenv

\* If the arguments are accepted, a variable is what the last argument that
\* names it says, or what it was.
LEMMA ArgumentsGive ==
    ASSUME NEW env, NEW list, NEW n \in Nat, DOMAIN list = 1..n,
           ApplyArguments(env, list).ok, NEW key
    PROVE  LET named == {i \in DOMAIN list : Names(list[i], key)}
           IN Lookup(ApplyArguments(env, list).env, key)
                = IF named # {} THEN list[Max(named)].value ELSE Lookup(env, key)
<1>0. PICK r : ArgumentsApplied(r, env, list, n)
    BY ArgumentsInTurn
<1>1. /\ r[0] = Read(TRUE, env)
      /\ \A i \in 1..n : r[i] = ApplyArgument(r[i - 1], list[i])
      /\ ApplyArguments(env, list) = r[n]
    BY <1>0 DEF ArgumentsApplied
<1> DEFINE named(i) == {j \in 1..i : Names(list[j], key)}
<1> DEFINE Said(i) == r[i].ok => Lookup(r[i].env, key)
              = IF named(i) # {} THEN list[Max(named(i))].value ELSE Lookup(env, key)
<1> DEFINE S == {i \in Nat : i \in 0..n => Said(i)}
<1>2. 0 \in S
    <2>1. named(0) = {}
        OBVIOUS
    <2>2. r[0].env = env
        BY <1>1 DEF Read
    <2> QED  BY <2>1, <2>2
<1>3. ASSUME NEW i \in Nat, i \in S
      PROVE  i + 1 \in S
    <2> DEFINE m == i + 1
    <2> SUFFICES ASSUME m \in 0..n PROVE Said(m)
        <3> HIDE DEF Said
        <3> QED  OBVIOUS
    <2> SUFFICES ASSUME r[m].ok PROVE Said(m)
        <3> HIDE DEF named
        <3> QED  OBVIOUS
    <2>1. m \in 1..n /\ m - 1 = i /\ i \in 0..n
        OBVIOUS
    <2>2. r[m] = ApplyArgument(r[i], list[m])
        BY <1>1, <2>1
    <2>3. /\ r[i].ok /\ list[m].form \in {"file", "set"}
          /\ list[m].form = "file" =>
                r[m].env = Setenv(r[i].env, "ENV_FILE", list[m].value)
          /\ list[m].form = "set" =>
                r[m].env = Setenv(r[i].env, list[m].key, list[m].value)
        BY <2>2 DEF ApplyArgument, Read
    <2>4. Said(i)
        BY <1>3, <2>1
    <2>5. CASE Names(list[m], key)
        <3>1. Lookup(r[m].env, key) = list[m].value
            BY <2>3, <2>5, SetenvSets DEF Names
        <3>2. m \in named(m) /\ named(m) \subseteq 1..m
            BY <2>5
        <3>3. Max(named(m)) = m
            <4> HIDE DEF named
            <4> QED  BY <3>2, MaxIsTheBound
        <3> QED  BY <3>1, <3>2, <3>3
    <2>6. CASE ~ Names(list[m], key)
        <3>1. Lookup(r[m].env, key) = Lookup(r[i].env, key)
            BY <2>3, <2>6, SetenvSets DEF Names
        <3>2. named(m) = named(i)
            BY <2>6
        <3> QED  BY <2>3, <2>4, <3>1, <3>2
    <2> QED  BY <2>5, <2>6
<1>4. Said(n)
    <2> HIDE DEF Said
    <2>1. Nat \subseteq S
        <3> HIDE DEF S
        <3> QED  BY <1>2, <1>3, Climb
    <2> QED  BY <2>1
<1>5. named(n) = {i \in DOMAIN list : Names(list[i], key)}
    OBVIOUS
<1> QED  BY <1>1, <1>4, <1>5

\* If the lines are accepted, a variable that had a value keeps it, and another
\* is what the first line that gives it a value says.
LEMMA LinesGive ==
    ASSUME NEW env, NEW list, NEW n \in Nat, DOMAIN list = 1..n,
           ApplyLines(env, list).ok, NEW key
    PROVE  LET lines == {i \in DOMAIN list : /\ list[i].form = "set"
                                             /\ list[i].key = key
                                             /\ list[i].value # Empty}
           IN Lookup(ApplyLines(env, list).env, key)
                = IF Lookup(env, key) # Empty THEN Lookup(env, key)
                  ELSE IF lines # {} THEN list[Min(lines)].value ELSE Empty
<1>0. PICK r : LinesApplied(r, env, list, n)
    BY LinesInTurn
<1>1. /\ r[0] = Read(TRUE, env)
      /\ \A i \in 1..n : r[i] = ApplyLine(r[i - 1], list[i])
      /\ ApplyLines(env, list) = r[n]
    BY <1>0 DEF LinesApplied
<1> DEFINE gives(j) == /\ list[j].form = "set"
                       /\ list[j].key = key
                       /\ list[j].value # Empty
<1> DEFINE lines(i) == {j \in 1..i : gives(j)}
<1> DEFINE Said(i) == r[i].ok => Lookup(r[i].env, key)
              = IF Lookup(env, key) # Empty THEN Lookup(env, key)
                ELSE IF lines(i) # {} THEN list[Min(lines(i))].value ELSE Empty
<1> DEFINE S == {i \in Nat : i \in 0..n => Said(i)}
<1>2. 0 \in S
    <2>1. lines(0) = {}
        OBVIOUS
    <2>2. r[0].env = env
        BY <1>1 DEF Read
    <2> HIDE DEF lines
    <2> QED  BY <2>1, <2>2
<1>3. ASSUME NEW i \in Nat, i \in S
      PROVE  i + 1 \in S
    <2> DEFINE m == i + 1
    <2> SUFFICES ASSUME m \in 0..n PROVE Said(m)
        <3> HIDE DEF Said
        <3> QED  OBVIOUS
    <2> SUFFICES ASSUME r[m].ok PROVE Said(m)
        <3> HIDE DEF lines
        <3> QED  OBVIOUS
    <2>1. m \in 1..n /\ m - 1 = i /\ i \in 0..n
        OBVIOUS
    <2>2. r[m] = ApplyLine(r[i], list[m])
        BY <1>1, <2>1
    <2>3. /\ r[i].ok /\ list[m].form \in {"blank", "set"}
          /\ list[m].form = "blank" => r[m].env = r[i].env
          /\ list[m].form = "set" =>
                IF Lookup(r[i].env, list[m].key) # Empty THEN r[m].env = r[i].env
                ELSE r[m].env = Setenv(r[i].env, list[m].key, list[m].value)
        BY <2>2 DEF ApplyLine, Read
    <2>4. Said(i)
        BY <1>3, <2>1
    <2>5. lines(m) = IF gives(m) THEN lines(i) \cup {m} ELSE lines(i)
        <3> HIDE DEF gives
        <3> QED  BY <2>1
    <2>6. lines(i) \subseteq 1..i
        OBVIOUS
    <2>7. CASE gives(m) /\ Lookup(r[i].env, key) = Empty
        <3>1. Lookup(r[m].env, key) = list[m].value
            BY <2>3, <2>7, SetenvSets
        <3>2. lines(i) = {}
            <4>1. SUFFICES ASSUME lines(i) # {} PROVE FALSE
                OBVIOUS
            <4>2. Min(lines(i)) \in lines(i)
                <5> HIDE DEF lines
                <5> QED  BY <2>6, <4>1, MinStays
            <4>3. list[Min(lines(i))].value # Empty
                BY <4>2
            <4> HIDE DEF lines
            <4> QED  BY <2>3, <2>4, <2>7, <4>1, <4>3
        <3>3. lines(m) = {m}
            BY <2>5, <2>7, <3>2
        <3>4. Min({m}) = m
            BY DEF Min
        <3>5. Lookup(env, key) = Empty
            <4> HIDE DEF lines
            <4> QED  BY <2>3, <2>4, <2>7, <3>2
        <3> HIDE DEF lines
        <3> QED  BY <3>1, <3>3, <3>4, <3>5
    <2>8. CASE ~ (gives(m) /\ Lookup(r[i].env, key) = Empty)
        <3>1. Lookup(r[m].env, key) = Lookup(r[i].env, key)
            BY <2>3, <2>8, SetenvSets
        <3>2. CASE gives(m)
            <4>1. Lookup(r[i].env, key) # Empty
                BY <2>8, <3>2
            <4>2. lines(i) # {} => Min(lines(m)) = Min(lines(i))
                <5> HIDE DEF lines, gives
                <5> QED  BY <2>5, <2>6, <3>2, MinStays
            <4> HIDE DEF lines, gives
            <4> QED  BY <2>3, <2>4, <2>5, <3>1, <3>2, <4>1, <4>2
        <3>3. CASE ~ gives(m)
            <4> HIDE DEF lines, gives
            <4> QED  BY <2>3, <2>4, <2>5, <3>1, <3>3
        <3> QED  BY <3>2, <3>3
    <2> QED  BY <2>7, <2>8
<1>4. Said(n)
    <2> HIDE DEF Said
    <2>1. Nat \subseteq S
        <3> HIDE DEF S
        <3> QED  BY <1>2, <1>3, Climb
    <2> QED  BY <2>1
<1>5. lines(n) = {i \in DOMAIN list : gives(i)}
    OBVIOUS
<1> HIDE DEF lines
<1> QED  BY <1>1, <1>4, <1>5

\* What a launch boots with is what wins.
LEMMA StrongestWins ==
    ASSUME NEW launch \in Launches, Boots(launch), NEW key
    PROVE  Lookup(Environment(launch).env, key) = Strongest(launch, key)
<1> DEFINE r == ApplyArguments(launch.env, launch.args)
<1>1. r.ok /\ Environment(launch) = LoadEnvFile(r.env, launch.files)
    BY DEF Boots, Environment
<1>2. PICK n \in Nat : DOMAIN launch.args = 1..n
    BY LaunchAssumption DEF IsList
<1>3. \A k : Lookup(r.env, k) = Given(launch, k)
    <2> TAKE k
    <2> HIDE DEF r
    <2>1. r.ok
        BY <1>1
    <2> QED  BY <1>2, <2>1, ArgumentsGive DEF Given, r
<1> DEFINE path == EnvFilePath(r.env)
<1>4. path = IF Given(launch, "ENV_FILE") = Empty THEN ".env"
             ELSE Given(launch, "ENV_FILE")
    BY <1>3 DEF EnvFilePath
<1>5. CASE path \in DOMAIN launch.files
    <2> DEFINE file == launch.files[path]
    <2>1. Environment(launch) = ApplyLines(r.env, file)
        BY <1>1, <1>5 DEF LoadEnvFile
    <2>2. PICK m \in Nat : DOMAIN file = 1..m
        BY <1>5, LaunchAssumption DEF IsList
    <2>3. ApplyLines(r.env, file).ok
        BY <2>1 DEF Boots
    <2> HIDE DEF r, file
    <2> DEFINE lines == {i \in DOMAIN file : /\ file[i].form = "set"
                                             /\ file[i].key = key
                                             /\ file[i].value # Empty}
    <2>4. Lookup(ApplyLines(r.env, file).env, key)
             = IF Lookup(r.env, key) # Empty THEN Lookup(r.env, key)
               ELSE IF lines # {} THEN file[Min(lines)].value ELSE Empty
        BY <2>2, <2>3, LinesGive
    <2>5. Strongest(launch, key)
             = IF Given(launch, key) # Empty THEN Given(launch, key)
               ELSE IF lines # {} THEN file[Min(lines)].value ELSE Empty
        BY <1>4, <1>5, Zenon DEF Strongest, file
    <2> QED  BY <1>3, <2>1, <2>4, <2>5
<1>6. CASE path \notin DOMAIN launch.files
    <2>1. Environment(launch).env = r.env
        BY <1>1, <1>6 DEF LoadEnvFile, Read
    <2>2. DOMAIN <<>> = {}
        OBVIOUS
    <2>3. Strongest(launch, key)
             = IF Given(launch, key) # Empty THEN Given(launch, key) ELSE Empty
        BY <1>4, <1>6, <2>2 DEF Strongest
    <2> HIDE DEF r
    <2> QED  BY <1>3, <2>1, <2>3
<1> QED  BY <1>5, <1>6

\* A process that has a launch has come up from it.
Booting == process.launch # None => process.launch \in Launches /\ Boots(process.launch)

\* It is set when the settings are good, and cleared with the migration.
LEMMA BootingKept == Booting /\ [Next]_vars => Booting'
<1> SUFFICES ASSUME Booting, [Next]_vars PROVE Booting'
    OBVIOUS
<1>1. ASSUME NEW launch \in Launches, Start(launch)
      PROVE  Booting'
    BY <1>1 DEF Start, Process, Booting
<1>2. CASE Migrate
    BY <1>2 DEF Migrate, Process, Booting
<1>3. CASE SeedReference
    BY <1>3 DEF SeedReference, Booting
<1>4. CASE SeedNumbers
    BY <1>4 DEF SeedNumbers, Booting
<1>5. CASE Crash
    BY <1>5 DEF Crash, Down, Process, Booting
<1>6. CASE UNCHANGED process
    BY <1>6 DEF Booting
<1>7. NumberMoves => UNCHANGED process
    BY DEF NumberMoves, Port, GiveBack, Restore
<1> QED  BY <1>1, <1>2, <1>3, <1>4, <1>5, <1>6, <1>7
         DEF Next, StartupStep, startupVars, vars

\* A server starts with the settings of env.go's order, for any arguments, any
\* environment and any files: the last argument that names a variable, or the
\* process's own; and if that is empty, the first line that gives it a value.
THEOREM SettingsFollowTheOrder == Spec => []Precedence
<1>1. Init => Booting
    BY DEF Init, StartupInit, Down, Process, Booting
<1>2. Booting => Precedence
    BY StrongestWins DEF Booting, Precedence
<1> QED  BY <1>1, <1>2, BootingKept, PTL DEF Spec

==================================================================================
