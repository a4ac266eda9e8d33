------------------------------ MODULE IntakeProofs -------------------------------
(***************************************************************************)
(* What the intake lets in, for every set of operators, numbers, calls and *)
(* inputs, and for every delay and bound.                                  *)
(*                                                                         *)
(* The argument has two halves.  A step does little to what is there:      *)
(* numbers stay or move now, passwords are spent, requests fade, reverse   *)
(* requests age (RegistryShape, PasswordShape, Fading, Aging), or one row  *)
(* is appended, by a call that knew enough (Opened, Validated, Submitted). *)
(* And what a call knows of what it read, no such step disturbs            *)
(* (CallKnows); what it knows when it inserts is what the properties ask.  *)
(***************************************************************************)
EXTENDS IntakeProperties, FiniteSetTheorems, TLAPS

-----------------------------------------------------------------------------
(***************************************************************************)
(* Types.                                                                  *)
(***************************************************************************)
Types == {"PORTAGE", "RESTITUTION", "REVERSE"}
Phases == {"idle", "verify", "increment", "row", "inProgress", "insert"}

PasswordRow == [sent : Nat, attempts : Nat, consumed : BOOLEAN, expires : Nat]

GhostReads == UNION {[S -> [when : Nat, upTo : Nat]] : S \in SUBSET Numbers}
GhostRow == [read : GhostReads, sent : Nat, verified : Nat, reverse : Nat]
DemandeRow == [type : Types, status : {"EN_COURS", "ENDED", "ABSENT"},
               source : Operators, recipient : Operators, msisdn : Numbers,
               active : SUBSET Numbers, fleet : SUBSET Numbers,
               moved : BOOLEAN, ghosts : GhostRow]
ReverseRow == [status : {"EN_ATTENTE", "VALIDE", "REJETE", "ABSENT"},
               msisdn : Numbers, op : Operators, request : Nat,
               late : BOOLEAN, when : Nat]

Reading == [holder : Operators, date : Nat \cup {None}, restituted : BOOLEAN,
            inProgress : BOOLEAN, when : Nat, upTo : Nat]
Readings == UNION {[S -> Reading] : S \in SUBSET Numbers}
CallRow == [pc : Phases, in : Inputs \cup {None}, sent : Nat, verified : Nat,
            row : RowRead \cup {None}, read : Readings]

RegistryTyped == /\ numero \in [Numbers -> RegistryRow]
                 /\ now \in Nat /\ Start <= now /\ now <= MaxNow

PasswordsTyped == /\ otp \in [Numbers -> PasswordRow]
                  /\ sends \in Nat /\ sends <= MaxSends
                  /\ \A n \in Numbers : otp[n].sent <= sends

RequestsTyped == /\ demandes \in Seq(DemandeRow)
                 /\ \A i \in Ids : demandes[i].active \subseteq demandes[i].fleet

ReversesTyped == /\ reverses \in Seq(ReverseRow)
                 /\ purge.ids \subseteq Ids
                 /\ owed \subseteq ReverseIds
                 /\ \A v \in ReverseIds : /\ reverses[v].request <= Len(demandes)
                                          /\ reverses[v].when <= now

\* What a call holds is about the numbers that its client asked for.
CallTyped(c) ==
    LET k == calls[c] IN
    /\ k.pc # "idle" => k.in \in Inputs /\ DOMAIN k.read \subseteq k.in.fleet
    /\ k.pc = "verify" => k.in.kind \in PasswordKinds
    /\ k.pc = "inProgress" => k.row \in RowRead /\ k.row.msisdn \in k.in.fleet
    /\ k.pc = "insert" => DOMAIN k.read = k.in.fleet

CallsTyped == calls \in [Calls -> CallRow] /\ \A c \in Calls : CallTyped(c)

Typed == RegistryTyped /\ PasswordsTyped /\ RequestsTyped /\ ReversesTyped /\ CallsTyped

-----------------------------------------------------------------------------
(***************************************************************************)
(* The invariant.                                                          *)
(***************************************************************************)
\* Something has moved the number, or sent it home, since that instant.
MovedSince(n, when) == numero[n].date = None \/ numero[n].date >= when

\* What a call holds of the registry is still so, unless the number has moved.
Holds(row, n, when) ==
    \/ MovedSince(n, when)
    \/ row.holder = numero[n].holder /\ row.date = numero[n].date

\* No request up to that one retains a number that was found free, ...
FreeUpTo(n, upTo) == \A p \in Ids : p <= upTo => ~ Retains(p, n)

\* ... or was opened with a password that was found unused.
UnusedUpTo(sent, msisdn, upTo) ==
    \A p \in Ids : p <= upTo =>
        ~ (demandes[p].ghosts.sent = sent /\ demandes[p].msisdn = msisdn)

CallKnows(c) ==
    LET k == calls[c] IN
    /\ k.sent <= sends
    /\ k.verified <= Len(demandes)
    /\ k.sent > 0 => /\ k.in.kind \in {"individual", "enterprise"}
                     /\ UnusedUpTo(k.sent, k.in.msisdn, k.verified)
    /\ k.pc = "inProgress" => /\ k.row.when <= now
                              /\ Holds(k.row.row, k.row.msisdn, k.row.when)
    /\ \A n \in DOMAIN k.read :
          /\ k.read[n].when <= now
          /\ k.read[n].upTo <= Len(demandes)
          /\ Holds(k.read[n], n, k.read[n].when)
          /\ ~ k.read[n].inProgress => FreeUpTo(n, k.read[n].upTo)

Delay(type) == IF type = "PORTAGE" THEN PortingDelay ELSE RestitutionDelay

\* What a PORTAGE or a RESTITUTION still has to move may be moved.
MayMove(i) ==
    InProgress(i) /\ demandes[i].type # "REVERSE" /\ ~ demandes[i].moved =>
        \A n \in demandes[i].active :
            /\ n \in DOMAIN demandes[i].ghosts.read
            /\ demandes[i].ghosts.read[n].when <= now
            /\ \/ MovedSince(n, demandes[i].ghosts.read[n].when)
               \/ /\ numero[n].holder = demandes[i].source
                  /\ numero[n].date # None =>
                        now - numero[n].date >= Delay(demandes[i].type)

\* The password that opened a request is consumed, as long as it is stored.
PasswordSpent(i) ==
    LET d == demandes[i] IN
    /\ d.ghosts.sent <= sends
    /\ d.ghosts.sent > 0 /\ otp[d.msisdn].sent = d.ghosts.sent =>
          otp[d.msisdn].consumed

\* A REVERSE request has a reverse request, with the same number and recipient.
ReverseKnown(i) ==
    LET d == demandes[i] IN
    d.type = "REVERSE" /\ Present(i) =>
        /\ d.ghosts.reverse \in ReverseIds
        /\ reverses[d.ghosts.reverse].msisdn = d.msisdn
        /\ reverses[d.ghosts.reverse].op = d.recipient

\* A pending reverse request was submitted while the number was away.
SubmittedAway(v) ==
    Pending(v) => \/ MovedSince(reverses[v].msisdn, reverses[v].when)
                  \/ numero[reverses[v].msisdn].holder # reverses[v].op

IInv ==
    /\ Typed
    /\ \A c \in Calls : CallKnows(c)
    /\ \A i \in Ids : MayMove(i) /\ PasswordSpent(i) /\ ReverseKnown(i)
    /\ \A v \in ReverseIds : SubmittedAway(v)
    /\ OneRequestPerNumber
    /\ OnePasswordOneRequest
    /\ OneRequestPerReverse
    /\ ReverseOfNumberAway

-----------------------------------------------------------------------------
(***************************************************************************)
(* Rows: appended, updated, or all of them rewritten in their places.      *)
(***************************************************************************)
LEMMA Appending ==
    ASSUME NEW S, NEW s \in Seq(S), NEW x \in S
    PROVE  /\ Append(s, x) \in Seq(S)
           /\ Len(Append(s, x)) = Len(s) + 1
           /\ DOMAIN Append(s, x) = DOMAIN s \cup {Len(s) + 1}
           /\ \A i \in DOMAIN s : Append(s, x)[i] = s[i]
           /\ Append(s, x)[Len(s) + 1] = x
    OBVIOUS

\* To rewrite each row of a table leaves a table of the same length.
LEMMA Rewriting ==
    ASSUME NEW S, NEW s \in Seq(S), NEW t, t = [i \in DOMAIN s |-> t[i]],
           \A i \in DOMAIN s : t[i] \in S
    PROVE  t \in Seq(S) /\ Len(t) = Len(s) /\ DOMAIN t = DOMAIN s
<1>1. DOMAIN s = 1..Len(s) /\ Len(s) \in Nat
    OBVIOUS
<1> QED  BY <1>1

\* To update one row leaves the others.
LEMMA Updating ==
    ASSUME NEW S, NEW s \in Seq(S), NEW j \in DOMAIN s, NEW x \in S
    PROVE  LET t == [s EXCEPT ![j] = x]
           IN  /\ t \in Seq(S) /\ Len(t) = Len(s) /\ DOMAIN t = DOMAIN s
               /\ t[j] = x
               /\ \A i \in DOMAIN s \ {j} : t[i] = s[i]
<1> DEFINE t == [s EXCEPT ![j] = x]
<1>1. t = [i \in DOMAIN s |-> t[i]] /\ \A i \in DOMAIN s : t[i] \in S
    OBVIOUS
<1>2. t \in Seq(S) /\ Len(t) = Len(s) /\ DOMAIN t = DOMAIN s
    BY <1>1, Rewriting
<1> QED  BY <1>2

-----------------------------------------------------------------------------
\* What a row of a typed table has.
LEMMA RowsTyped ==
    ASSUME Typed
    PROVE  /\ \A i \in Ids : demandes[i] \in DemandeRow
           /\ \A v \in ReverseIds : reverses[v] \in ReverseRow
           /\ \A n \in Numbers : numero[n] \in RegistryRow /\ otp[n] \in PasswordRow
           /\ \A c \in Calls : calls[c] \in CallRow /\ CallTyped(c)
BY DEF Typed, RegistryTyped, PasswordsTyped, RequestsTyped, ReversesTyped, CallsTyped,
       Ids, ReverseIds

\* The delays and the bounds are numbers.
LEMMA Bounds == /\ Start \in Nat /\ MaxNow \in Nat /\ Start <= MaxNow
                /\ MaxSends \in Nat /\ OTPTTL \in Nat /\ OTPMaxAttempts \in Nat
                /\ PortingDelay \in Nat /\ RestitutionDelay \in Nat
BY IntakeAssumption, DelayAssumption

(***************************************************************************)
(* The registry: a number stays where it is, or moves now, or goes home.   *)
(***************************************************************************)
RegistryShape ==
    /\ now <= now'
    /\ \A n \in Numbers : \/ numero'[n] = numero[n]
                          \/ numero'[n].date = None
                          \/ numero'[n].date = now /\ now' = now

\* A call, and whoever decides or lists, writes nothing of the registry.
LEMMA CallsLeaveRegistry ==
    ASSUME NEW c \in Calls, (\E in \in Inputs : Receive(c, in)) \/ CallStep(c) \/ Leave(c)
    PROVE  UNCHANGED <<numero, now>>
BY DEF Receive, CallStep, Leave, Verify, IncrementAttempts, ReadRow, ReadInProgress,
       CreateIndividual, CreateEnterprise, CreateRestitution, SubmitReverse

\* Passwords, reverse requests and ends of requests leave the registry and
\* the date alone.
LEMMA OthersLeaveRegistry ==
    ASSUME \/ \E n \in Numbers : Send(n)
           \/ \E v \in ReverseIds : \/ ArtpValidates(v) \/ ArtpRejects(v)
                                    \/ WaitsTooLong(v) \/ AutoValidate(v)
           \/ OverdueForAutoValidation
           \/ \E op \in Purgers : ListPurge(op)
           \/ \E i \in Ids :
                 \/ Withdraw(i)
                 \/ \E drop \in SUBSET demandes[i].active : RejectNumbers(i, drop)
    PROVE  UNCHANGED <<numero, now>>
BY DEF Send, ArtpValidates, ArtpRejects, WaitsTooLong, AutoValidate,
       OverdueForAutoValidation, ListPurge, Withdraw, RejectNumbers

\* Every step moves a number today or not at all.
LEMMA RegistrySteps ==
    ASSUME Typed, [Next]_vars
    PROVE  RegistryTyped' /\ RegistryShape
<1>0. /\ numero \in [Numbers -> RegistryRow] /\ now \in Nat /\ Start <= now /\ now <= MaxNow
      /\ Start \in Nat /\ MaxNow \in Nat
    BY Bounds DEF Typed, RegistryTyped
<1>1. ASSUME UNCHANGED <<numero, now>>
      PROVE  RegistryTyped' /\ RegistryShape
    <2>1. numero' = numero /\ now' = now
        BY <1>1
    <2> QED  BY <1>0, <2>1 DEF RegistryTyped, RegistryShape
<1>2. CASE CommitPurge
    <2>1. now' = now /\ RestoreNumbers(purge.numbers)
        BY <1>2 DEF CommitPurge, PurgeTestData
    <2>2. /\ \A n \in Numbers : Origin[n] \in Operators
          /\ numero' = [n \in Numbers |->
                IF n \in purge.numbers
                THEN [holder |-> Origin[n], date |-> None, restituted |-> FALSE]
                ELSE numero[n]]
        BY <2>1, IntakeAssumption DEF RestoreNumbers
    <2> QED  BY <1>0, <2>1, <2>2 DEF RegistryTyped, RegistryShape, RegistryRow
<1>3. ASSUME NEW i \in Ids, TransferToRegistry(i)
      PROVE  RegistryTyped' /\ RegistryShape
    <2>1. demandes[i].recipient \in Operators
        BY RowsTyped DEF DemandeRow
    <2>2. /\ now' = now
          /\ numero' = [n \in Numbers |->
                IF n \in demandes[i].active
                THEN [numero[n] EXCEPT !.holder = demandes[i].recipient, !.date = now]
                ELSE numero[n]]
        BY <1>3 DEF TransferToRegistry
    <2>3. \A n \in Numbers : numero[n] \in RegistryRow /\ numero'[n] =
              IF n \in demandes[i].active
              THEN [numero[n] EXCEPT !.holder = demandes[i].recipient, !.date = now]
              ELSE numero[n]
        BY <1>0, <2>2
    <2>4. ASSUME NEW n \in Numbers
          PROVE  /\ numero'[n] \in RegistryRow
                 /\ numero'[n] = numero[n] \/ numero'[n].date = now
        BY <1>0, <2>1, <2>3 DEF RegistryRow
    <2>5. numero' \in [Numbers -> RegistryRow] /\ now' = now
        BY <2>2, <2>4
    <2> QED  BY <1>0, <2>4, <2>5 DEF RegistryTyped, RegistryShape
<1>4. ASSUME NEW i \in Ids, EndOfRequest(i)
      PROVE  RegistryTyped' /\ RegistryShape
    <2>1. demandes[i].recipient \in Operators
        BY RowsTyped DEF DemandeRow
    <2>2. /\ now' = now
          /\ numero' = IF demandes[i].type = "PORTAGE" THEN numero
                       ELSE [numero EXCEPT ![demandes[i].msisdn] =
                                [holder |-> demandes[i].recipient, date |-> now,
                                 restituted |-> TRUE]]
        BY <1>4 DEF EndOfRequest
    <2>3. CASE demandes[i].type = "PORTAGE"
        BY <1>1, <2>2, <2>3
    <2>4. CASE demandes[i].type # "PORTAGE"
        <3> DEFINE row == [holder |-> demandes[i].recipient, date |-> now,
                           restituted |-> TRUE]
        <3>1. row \in RegistryRow /\ row.date = now
            BY <1>0, <2>1 DEF RegistryRow
        <3>2. numero' = [numero EXCEPT ![demandes[i].msisdn] = row]
            BY <2>2, <2>4
        <3> HIDE DEF row
        <3>3. numero' \in [Numbers -> RegistryRow] /\ now' = now
            BY <1>0, <2>2, <3>1, <3>2
        <3>4. \A n \in Numbers : numero'[n] = numero[n] \/ numero'[n] = row
            BY <1>0, <3>2
        <3> QED  BY <1>0, <3>1, <3>3, <3>4 DEF RegistryTyped, RegistryShape
    <2> QED  BY <2>3, <2>4
<1>5. CASE Elapse
    BY <1>0, <1>5 DEF Elapse, RegistryTyped, RegistryShape
<1> QED  BY <1>1, <1>2, <1>3, <1>4, <1>5, CallsLeaveRegistry, OthersLeaveRegistry
         DEF Next, Outcome, vars

-----------------------------------------------------------------------------
(***************************************************************************)
(* The requests: a row fades in its place, or one is appended, by a call   *)
(* that was about to or by a validation.                                   *)
(***************************************************************************)
Fades(i) ==
    /\ demandes'[i].type = demandes[i].type
    /\ demandes'[i].source = demandes[i].source
    /\ demandes'[i].recipient = demandes[i].recipient
    /\ demandes'[i].msisdn = demandes[i].msisdn
    /\ demandes'[i].active \subseteq demandes[i].active
    /\ InProgress(i)' => InProgress(i) /\ (demandes[i].moved => demandes'[i].moved)
    /\ Present(i)' => Present(i) /\ demandes'[i].ghosts = demandes[i].ghosts
    /\ demandes'[i].moved /\ ~ demandes[i].moved => InProgress(i)
    /\ demandes'[i].ghosts = demandes[i].ghosts \/ demandes'[i].ghosts.sent = 0
    /\ Present(i) /\ ~ Present(i)' => i \in purge.ids /\ DeleteReverseRequests(purge.op, purge.ids)

Fading == Len(demandes') = Len(demandes) /\ Ids' = Ids /\ \A i \in Ids : Fades(i)

\* The request that a creation opens: what it retains was found free, with the
\* source and for long enough.
Opened(c, d) ==
    LET k == calls[c] IN
    /\ k.pc = "insert"
    /\ d.type \in {"PORTAGE", "RESTITUTION"} /\ d.status = "EN_COURS" /\ ~ d.moved
    /\ d.msisdn = k.in.msisdn
    /\ d.type = "RESTITUTION" => d.recipient = Origin[d.msisdn]
    /\ d.ghosts = GhostsOf(k)
    /\ \A n \in d.active :
          /\ n \in DOMAIN k.read
          /\ ~ k.read[n].inProgress
          /\ k.read[n].holder = d.source
          /\ k.read[n].date # None => now - k.read[n].date >= Delay(d.type)
    /\ k.in.kind \in {"individual", "enterprise"} => Consume(k.in.msisdn)
    /\ calls' = [calls EXCEPT ![c] = Idle]
    /\ UNCHANGED <<numero, reverses, now, sends>>

\* The request that a validation opens.
Validated(v, d) ==
    /\ Pending(v)
    /\ d.type = "REVERSE" /\ d.status = "EN_COURS"
    /\ d.msisdn = reverses[v].msisdn
    /\ d.source = numero[d.msisdn].holder /\ d.recipient = reverses[v].op
    /\ d.ghosts = Ghosts(NoRead, 0, 0, v)
    /\ reverses' = [reverses EXCEPT ![v].status = "VALIDE",
                                    ![v].request = Len(demandes) + 1]
    /\ UNCHANGED <<numero, otp, calls, now, sends>>

Appended == \E d \in DemandeRow :
    /\ d.active \subseteq d.fleet
    /\ demandes' = Append(demandes, d)
    /\ (\E c \in Calls : Opened(c, d)) \/ (\E v \in ReverseIds : Validated(v, d))

\* What a call has read becomes ghosts of its request.
LEMMA GhostsTyped ==
    ASSUME Typed, NEW c \in Calls
    PROVE  /\ GhostsOf(calls[c]) \in GhostRow
           /\ GhostsOf(calls[c]).sent = calls[c].sent
           /\ GhostsOf(calls[c]).verified = calls[c].verified
           /\ GhostsOf(calls[c]).reverse = 0
           /\ DOMAIN calls[c].read \subseteq Numbers
           /\ DOMAIN GhostsOf(calls[c]).read = DOMAIN calls[c].read
           /\ \A n \in DOMAIN calls[c].read :
                 /\ calls[c].read[n] \in Reading
                 /\ GhostsOf(calls[c]).read[n].when = calls[c].read[n].when
                 /\ GhostsOf(calls[c]).read[n].upTo = calls[c].read[n].upTo
<1> DEFINE k == calls[c]
<1>1. k.read \in Readings /\ k.sent \in Nat /\ k.verified \in Nat
    BY RowsTyped DEF CallRow
<1>2. PICK S \in SUBSET Numbers : k.read \in [S -> Reading]
    BY <1>1 DEF Readings
<1>3. \A n \in S : k.read[n] \in Reading
    BY <1>2
<1>4. \A n \in S : k.read[n].when \in Nat /\ k.read[n].upTo \in Nat
    BY <1>3 DEF Reading
<1>5. GhostRead(k) = [n \in S |-> [when |-> k.read[n].when, upTo |-> k.read[n].upTo]]
    BY <1>2 DEF GhostRead
<1>6. GhostRead(k) \in [S -> [when : Nat, upTo : Nat]]
    BY <1>4, <1>5
<1>7. GhostRead(k) \in GhostReads
    BY <1>6 DEF GhostReads
<1>8. GhostsOf(k) = [read |-> GhostRead(k), sent |-> k.sent, verified |-> k.verified,
                     reverse |-> 0]
    BY DEF GhostsOf, Ghosts
<1>9. GhostsOf(k) \in GhostRow
    BY <1>1, <1>7, <1>8 DEF GhostRow
<1> QED  BY <1>2, <1>3, <1>5, <1>8, <1>9

\* A number that is not too recent has been where it is for the delay.
LEMMA Recent ==
    ASSUME NEW date \in Nat \cup {None}, NEW delay \in Nat, now \in Nat,
           ~ TooRecent(date, now, delay), date # None
    PROVE  now - date >= delay
BY DEF TooRecent

\* What a creation or a validation inserts is a row.
LEMMA NewRowTyped ==
    ASSUME NEW type \in Types, NEW source \in Operators, NEW recipient \in Operators,
           NEW msisdn \in Numbers, NEW retained \in SUBSET Numbers,
           NEW excluded \in SUBSET Numbers, NEW ghosts \in GhostRow
    PROVE  LET d == Demande(type, source, recipient, msisdn, retained, excluded, ghosts)
           IN  d \in DemandeRow /\ d.active \subseteq d.fleet
BY DEF Demande, DemandeRow

\* The three creations append a request, from what their call had read.
LEMMA CreationsOpen ==
    ASSUME Typed, NEW c \in Calls,
           CreateIndividual(c) \/ CreateEnterprise(c) \/ CreateRestitution(c)
    PROVE  Appended
<1> DEFINE k == calls[c]
<1> DEFINE in == calls[c].in
<1>1. k \in CallRow /\ CallTyped(c) /\ k.pc = "insert"
    BY RowsTyped DEF CreateIndividual, CreateEnterprise, CreateRestitution, At
<1>2. in \in InputRow /\ DOMAIN k.read = in.fleet
    BY <1>1, IntakeAssumption DEF CallTyped
<1>3. /\ in.source \in Operators /\ in.recipient \in Operators
      /\ in.msisdn \in Numbers /\ in.fleet \in SUBSET Numbers
    BY <1>2 DEF InputRow
<1>4. /\ GhostsOf(k) \in GhostRow
      /\ \A n \in in.fleet : k.read[n] \in Reading
    BY <1>2, GhostsTyped
<1>5. now \in Nat /\ PortingDelay \in Nat /\ RestitutionDelay \in Nat
    BY Bounds DEF Typed, RegistryTyped
<1>6. \A n \in in.fleet : k.read[n].date \in Nat \cup {None} /\ k.read[n].holder \in Operators
    BY <1>4 DEF Reading
<1>7. \A n \in Eligible(k) :
          /\ n \in DOMAIN k.read
          /\ ~ k.read[n].inProgress
          /\ k.read[n].holder = in.source
          /\ k.read[n].date # None => now - k.read[n].date >= PortingDelay
    BY <1>2, <1>5, <1>6, Recent DEF Eligible, CheckPortingEligibility
<1>8. CASE CreateIndividual(c)
    <2> DEFINE d == Demande("PORTAGE", in.source, in.recipient, in.msisdn, in.fleet, {},
                            GhostsOf(k))
    <2>1. d \in DemandeRow /\ d.active \subseteq d.fleet
        BY <1>3, <1>4, NewRowTyped DEF Types
    <2>2. /\ demandes' = Append(demandes, d)
          /\ Eligible(k) = in.fleet
          /\ Consume(in.msisdn)
          /\ calls' = [calls EXCEPT ![c] = Idle]
          /\ UNCHANGED <<numero, reverses, now, sends>>
        BY <1>8 DEF CreateIndividual, Insert, Become
    <2>3. Opened(c, d)
        BY <1>1, <1>7, <2>2 DEF Opened, Demande, Delay
    <2> QED  BY <2>1, <2>2, <2>3 DEF Appended
<1>9. CASE CreateEnterprise(c)
    <2> DEFINE d == Demande("PORTAGE", in.source, in.recipient, in.msisdn, Eligible(k),
                            in.fleet \ Eligible(k), GhostsOf(k))
    <2>1. Eligible(k) \in SUBSET Numbers /\ in.fleet \ Eligible(k) \in SUBSET Numbers
        BY <1>3 DEF Eligible
    <2>2. d \in DemandeRow /\ d.active \subseteq d.fleet
        BY <1>3, <1>4, <2>1, NewRowTyped DEF Types
    <2>3. /\ demandes' = Append(demandes, d)
          /\ Consume(in.msisdn)
          /\ calls' = [calls EXCEPT ![c] = Idle]
          /\ UNCHANGED <<numero, reverses, now, sends>>
        BY <1>9 DEF CreateEnterprise, Insert, Become
    <2>4. Opened(c, d)
        BY <1>1, <1>7, <2>3 DEF Opened, Demande, Delay
    <2> QED  BY <2>2, <2>3, <2>4 DEF Appended
<1>10. CASE CreateRestitution(c)
    <2> DEFINE n == in.msisdn
    <2> DEFINE d == Demande("RESTITUTION", k.read[n].holder, Origin[n], n, {n}, {},
                            GhostsOf(k))
    <2>1. in.kind = "restitution" /\ in.fleet = {n}
        BY <1>1, <1>10, IntakeAssumption DEF CreateRestitution, CallTyped
    <2>2. k.read[n].holder \in Operators /\ Origin[n] \in Operators
        BY <1>3, <1>6, <2>1, IntakeAssumption
    <2>3. d \in DemandeRow /\ d.active \subseteq d.fleet
        BY <1>3, <1>4, <2>2, NewRowTyped DEF Types
    <2>4. /\ demandes' = Append(demandes, d)
          /\ CheckRestitutionEligibility(k.read[n], Origin[n], now)
          /\ calls' = [calls EXCEPT ![c] = Idle]
          /\ UNCHANGED <<numero, reverses, now, sends>>
        BY <1>10 DEF CreateRestitution, Insert, Become
    <2>5. ~ k.read[n].inProgress /\ now - k.read[n].date >= RestitutionDelay
        BY <1>5, <1>6, <2>1, <2>4, Recent DEF CheckRestitutionEligibility
    <2>6. Opened(c, d)
        BY <1>1, <1>2, <2>1, <2>4, <2>5 DEF Opened, Demande, Delay
    <2> QED  BY <2>3, <2>4, <2>6 DEF Appended
<1> QED  BY <1>8, <1>9, <1>10

\* The request of a validated reverse request is a row.
LEMMA ValidationTyped ==
    ASSUME Typed, NEW v \in ReverseIds
    PROVE  LET r == reverses[v]
               d == Demande("REVERSE", numero[r.msisdn].holder, r.op, r.msisdn,
                            {r.msisdn}, {}, Ghosts(NoRead, 0, 0, v))
           IN  d \in DemandeRow /\ d.active \subseteq d.fleet
<1> DEFINE r == reverses[v]
<1>1. r \in ReverseRow /\ v \in Nat
    BY RowsTyped DEF ReverseIds, Typed, ReversesTyped
<1>2. r.msisdn \in Numbers /\ r.op \in Operators
    BY <1>1 DEF ReverseRow
<1>3. numero[r.msisdn].holder \in Operators
    BY <1>2, RowsTyped DEF RegistryRow
<1>4. NoRead \in [{} -> [when : Nat, upTo : Nat]]
    BY DEF NoRead
<1>5. Ghosts(NoRead, 0, 0, v) \in GhostRow
    BY <1>1, <1>4 DEF Ghosts, GhostRow, GhostReads
<1> QED  BY <1>2, <1>3, <1>5, NewRowTyped DEF Types

\* A validation appends one, from the registry as it is, or writes nothing.
LEMMA ValidationsOpen ==
    ASSUME Typed, NEW v \in ReverseIds, ValidateReverse(v),
           UNCHANGED <<numero, otp, calls, now, sends>>
    PROVE  Appended \/ UNCHANGED <<demandes, reverses>>
<1> DEFINE r == reverses[v]
<1> DEFINE d == Demande("REVERSE", numero[r.msisdn].holder, r.op, r.msisdn, {r.msisdn},
                        {}, Ghosts(NoRead, 0, 0, v))
<1>1. CASE Pending(v)
    <2>1. d \in DemandeRow /\ d.active \subseteq d.fleet
        BY ValidationTyped
    <2>2. /\ demandes' = Append(demandes, d)
          /\ reverses' = [reverses EXCEPT ![v].status = "VALIDE",
                                          ![v].request = Len(demandes) + 1]
        BY <1>1 DEF ValidateReverse, Insert
    <2>3. Validated(v, d)
        BY <1>1, <2>2 DEF Validated, Demande
    <2> QED  BY <2>1, <2>2, <2>3 DEF Appended
<1>2. CASE ~ Pending(v)
    BY <1>2 DEF ValidateReverse
<1> QED  BY <1>1, <1>2

\* One row is rewritten, and fades.
LEMMA FadingOne ==
    ASSUME Typed, NEW i \in Ids, NEW d \in DemandeRow, d.active \subseteq d.fleet,
           demandes' = [demandes EXCEPT ![i] = d],
           d = [demandes[i] EXCEPT !.active = d.active, !.moved = d.moved,
                                   !.status = d.status],
           d.active \subseteq demandes[i].active,
           InProgress(i), d.status # "ABSENT", demandes[i].moved => d.moved
    PROVE  RequestsTyped' /\ Fading
<1>1. demandes \in Seq(DemandeRow) /\ \A j \in Ids : demandes[j].active \subseteq demandes[j].fleet
    BY DEF Typed, RequestsTyped
<1>2. /\ demandes' \in Seq(DemandeRow) /\ Len(demandes') = Len(demandes) /\ Ids' = Ids
      /\ demandes'[i] = d
      /\ \A j \in Ids \ {i} : demandes'[j] = demandes[j]
    BY <1>1, Updating DEF Ids
<1>3. demandes[i] \in DemandeRow
    BY RowsTyped
<1>4. /\ d.type = demandes[i].type /\ d.source = demandes[i].source
      /\ d.recipient = demandes[i].recipient /\ d.msisdn = demandes[i].msisdn
      /\ d.ghosts = demandes[i].ghosts
    BY <1>3 DEF DemandeRow
<1>5. Fades(i)
    BY <1>2, <1>4 DEF Fades, InProgress, Present
<1>6. \A j \in Ids \ {i} : Fades(j)
    BY <1>2 DEF Fades, InProgress, Present
<1> QED  BY <1>1, <1>2, <1>5, <1>6 DEF RequestsTyped, Fading

\* Left alone, requests only fade.
LEMMA FadingNone ==
    ASSUME Typed, UNCHANGED demandes
    PROVE  RequestsTyped' /\ Fading
BY DEF Typed, RequestsTyped, Fading, Fades, Ids, InProgress, Present

\* Purged, they do.
LEMMA FadingAll ==
    ASSUME Typed, DeleteRequests(purge.ids), DeleteReverseRequests(purge.op, purge.ids)
    PROVE  RequestsTyped' /\ Fading
<1>1. /\ demandes \in Seq(DemandeRow)
      /\ \A i \in Ids : demandes[i] \in DemandeRow
                        /\ demandes[i].active \subseteq demandes[i].fleet
    BY RowsTyped DEF Typed, RequestsTyped
<1>2. /\ demandes' = [i \in DOMAIN demandes |-> demandes'[i]]
      /\ \A i \in Ids : \/ demandes'[i] = demandes[i]
                        \/ i \in purge.ids /\ demandes'[i] = Absent(demandes[i])
    BY DEF DeleteRequests, Ids
<1>3. NoRead \in [{} -> [when : Nat, upTo : Nat]]
    BY DEF NoRead
<1>4. Ghosts(NoRead, 0, 0, 0) \in GhostRow /\ Ghosts(NoRead, 0, 0, 0).sent = 0
    BY <1>3 DEF Ghosts, GhostRow, GhostReads
<1>5. ASSUME NEW d \in DemandeRow
      PROVE  /\ Absent(d) \in DemandeRow /\ Absent(d).status = "ABSENT"
             /\ Absent(d).type = d.type /\ Absent(d).source = d.source
             /\ Absent(d).recipient = d.recipient /\ Absent(d).msisdn = d.msisdn
             /\ Absent(d).active = {} /\ Absent(d).fleet = {} /\ ~ Absent(d).moved
             /\ Absent(d).ghosts.sent = 0
    BY <1>4, <1>5 DEF Absent, DemandeRow
<1>6. ASSUME NEW i \in Ids
      PROVE  /\ demandes'[i] \in DemandeRow /\ Fades(i)
             /\ demandes'[i].active \subseteq demandes'[i].fleet
    <2>1. CASE demandes'[i] = demandes[i]
        BY <1>1, <2>1 DEF Fades, InProgress, Present
    <2>2. CASE i \in purge.ids /\ demandes'[i] = Absent(demandes[i])
        <3>1. Fades(i)
            BY <1>1, <1>5, <2>2 DEF Fades, InProgress, Present
        <3> QED  BY <1>1, <1>5, <2>2, <3>1
    <2> QED  BY <1>2, <2>1, <2>2
<1>7. demandes' \in Seq(DemandeRow) /\ Len(demandes') = Len(demandes) /\ Ids' = Ids
    BY <1>1, <1>2, <1>6, Rewriting DEF Ids
<1> QED  BY <1>6, <1>7 DEF RequestsTyped, Fading

\* The table stays one when a request is appended.
LEMMA AppendedTyped ==
    ASSUME Typed, Appended
    PROVE  RequestsTyped'
<1>1. demandes \in Seq(DemandeRow) /\ \A j \in Ids : demandes[j].active \subseteq demandes[j].fleet
    BY DEF Typed, RequestsTyped
<1>2. PICK d \in DemandeRow : d.active \subseteq d.fleet /\ demandes' = Append(demandes, d)
    BY DEF Appended
<1> QED  BY <1>1, <1>2, Appending DEF RequestsTyped, Ids

\* What is left of a request's life.
LEMMA LivesFade ==
    ASSUME Typed, NEW i \in Ids,
           \/ TransferToRegistry(i) \/ EndOfRequest(i) \/ Withdraw(i)
           \/ \E drop \in SUBSET demandes[i].active : RejectNumbers(i, drop)
    PROVE  RequestsTyped' /\ Fading
<1>1. demandes[i] \in DemandeRow /\ demandes[i].active \subseteq demandes[i].fleet
    BY RowsTyped DEF Typed, RequestsTyped
<1>2. CASE TransferToRegistry(i)
    <2> DEFINE d == [demandes[i] EXCEPT !.moved = TRUE]
    <2>1. InProgress(i) /\ demandes' = [demandes EXCEPT ![i] = d]
        BY <1>2 DEF TransferToRegistry
    <2>2. /\ d \in DemandeRow /\ d.moved /\ d.active = demandes[i].active
          /\ d.fleet = demandes[i].fleet /\ d.status = demandes[i].status
        BY <1>1 DEF DemandeRow
    <2>3. d = [demandes[i] EXCEPT !.active = d.active, !.moved = d.moved,
                                  !.status = d.status]
        BY <1>1 DEF DemandeRow
    <2> QED  BY <1>1, <2>1, <2>2, <2>3, FadingOne DEF InProgress
<1>3. CASE EndOfRequest(i)
    <2> DEFINE d == [Ended(demandes[i]) EXCEPT !.moved = TRUE]
    <2>1. InProgress(i) /\ demandes' = [demandes EXCEPT ![i] = d]
        BY <1>3 DEF EndOfRequest
    <2>2. /\ d \in DemandeRow /\ d.moved /\ d.active = {}
          /\ d.fleet = demandes[i].fleet /\ d.status = "ENDED"
        BY <1>1 DEF DemandeRow, Ended
    <2>3. d = [demandes[i] EXCEPT !.active = d.active, !.moved = d.moved,
                                  !.status = d.status]
        BY <1>1 DEF DemandeRow, Ended
    <2> QED  BY <1>1, <2>1, <2>2, <2>3, FadingOne
<1>4. CASE Withdraw(i)
    <2> DEFINE d == Ended(demandes[i])
    <2>1. InProgress(i) /\ demandes' = [demandes EXCEPT ![i] = d]
        BY <1>4, <1>1 DEF Withdraw
    <2>2. /\ d \in DemandeRow /\ d.moved = demandes[i].moved
          /\ d.active = {}
          /\ d.fleet = demandes[i].fleet /\ d.status = "ENDED"
        BY <1>1 DEF DemandeRow, Ended
    <2>3. d = [demandes[i] EXCEPT !.active = d.active, !.moved = d.moved,
                                  !.status = d.status]
        BY <1>1 DEF DemandeRow, Ended
    <2> QED  BY <1>1, <2>1, <2>2, <2>3, FadingOne
<1>5. ASSUME NEW drop \in SUBSET demandes[i].active, RejectNumbers(i, drop)
      PROVE  RequestsTyped' /\ Fading
    <2> DEFINE d == [demandes[i] EXCEPT !.active = @ \ drop]
    <2>1. InProgress(i) /\ demandes' = [demandes EXCEPT ![i] = d]
        BY <1>5 DEF RejectNumbers
    <2>2. /\ d \in DemandeRow /\ d.moved = demandes[i].moved
          /\ d.active = demandes[i].active \ drop
          /\ d.fleet = demandes[i].fleet /\ d.status = demandes[i].status
        BY <1>1 DEF DemandeRow
    <2>3. d = [demandes[i] EXCEPT !.active = d.active, !.moved = d.moved,
                                  !.status = d.status]
        BY <1>1 DEF DemandeRow
    <2> QED  BY <1>1, <2>1, <2>2, <2>3, FadingOne DEF InProgress
<1> QED  BY <1>2, <1>3, <1>4, <1>5

\* Every step appends one request, or lets them all fade.
LEMMA RequestSteps ==
    ASSUME Typed, [Next]_vars
    PROVE  RequestsTyped' /\ (Fading \/ Appended)
<1>1. CASE UNCHANGED demandes
    BY <1>1, FadingNone
<1>2. CASE Appended
    BY <1>2, AppendedTyped
<1>3. ASSUME NEW c \in Calls,
             \/ \E in \in Inputs : Receive(c, in)
             \/ CallStep(c) \/ Leave(c)
      PROVE  Appended \/ UNCHANGED demandes
    <2>1. CASE CreateIndividual(c) \/ CreateEnterprise(c) \/ CreateRestitution(c)
        BY <2>1, CreationsOpen
    <2>2. CASE \/ \E in \in Inputs : Receive(c, in)
               \/ Leave(c) \/ Verify(c) \/ IncrementAttempts(c)
               \/ ReadRow(c) \/ ReadInProgress(c) \/ SubmitReverse(c)
        BY <2>2 DEF Receive, Leave, Verify, IncrementAttempts, ReadRow,
                    ReadInProgress, SubmitReverse
    <2> QED  BY <1>3, <2>1, <2>2 DEF CallStep
<1>4. ASSUME NEW v \in ReverseIds,
             ArtpValidates(v) \/ ArtpRejects(v) \/ WaitsTooLong(v) \/ AutoValidate(v)
      PROVE  Appended \/ UNCHANGED demandes
    BY <1>4, ValidationsOpen DEF ArtpValidates, ArtpRejects, WaitsTooLong, AutoValidate
<1>5. CASE CommitPurge
    BY <1>5, FadingAll DEF CommitPurge, PurgeTestData
<1>6. ASSUME NEW i \in Ids,
             \/ TransferToRegistry(i) \/ EndOfRequest(i) \/ Withdraw(i)
             \/ \E drop \in SUBSET demandes[i].active : RejectNumbers(i, drop)
      PROVE  RequestsTyped' /\ Fading
    BY <1>6, LivesFade
<1>7. CASE \/ \E n \in Numbers : Send(n)
           \/ OverdueForAutoValidation
           \/ \E op \in Purgers : ListPurge(op)
           \/ Elapse
           \/ UNCHANGED vars
    BY <1>1, <1>7 DEF Send, OverdueForAutoValidation, ListPurge, Elapse, vars
<1> QED  BY <1>1, <1>2, <1>3, <1>4, <1>5, <1>6, <1>7 DEF Next, Outcome

\* No request changes its place, and at most one place is new.
LEMMA RequestsGrow ==
    ASSUME Typed, Fading \/ Appended
    PROVE  /\ Len(demandes) \in Nat /\ Len(demandes') \in Nat
           /\ Len(demandes) <= Len(demandes')
           /\ Ids = 1..Len(demandes) /\ Ids \subseteq Ids'
           /\ Ids' \subseteq Ids \cup {Len(demandes) + 1}
<1>1. demandes \in Seq(DemandeRow) /\ Len(demandes) \in Nat /\ Ids = 1..Len(demandes)
    BY DEF Typed, RequestsTyped, Ids
<1>2. CASE Fading
    BY <1>1, <1>2 DEF Fading
<1>3. CASE Appended
    <2>1. PICK d \in DemandeRow : demandes' = Append(demandes, d)
        BY <1>3 DEF Appended
    <2> QED  BY <1>1, <2>1, Appending DEF Ids
<1> QED  BY <1>2, <1>3

-----------------------------------------------------------------------------
(***************************************************************************)
(* The passwords: sent anew, deleted, or kept, and then not unconsumed.    *)
(***************************************************************************)
PasswordShape ==
    /\ sends <= sends'
    /\ \A n \in Numbers :
          \/ otp'[n].sent = 0
          \/ otp'[n].sent > sends
          \/ /\ otp'[n].sent = otp[n].sent
             /\ otp[n].consumed => otp'[n].consumed

\* A password that a creation consumes was stored and stays consumed.
LEMMA ConsumeShape ==
    ASSUME Typed, NEW n \in Numbers, Consume(n), UNCHANGED sends
    PROVE  PasswordsTyped' /\ PasswordShape
<1>1. /\ otp \in [Numbers -> PasswordRow] /\ sends \in Nat /\ sends <= MaxSends
      /\ \A m \in Numbers : otp[m].sent <= sends
    BY DEF Typed, PasswordsTyped
<1>2. [otp[n] EXCEPT !.consumed = TRUE] \in PasswordRow
      /\ [otp[n] EXCEPT !.consumed = TRUE].sent = otp[n].sent
      /\ [otp[n] EXCEPT !.consumed = TRUE].consumed
    BY <1>1 DEF PasswordRow
<1>3. otp' = otp \/ otp' = [otp EXCEPT ![n] = [otp[n] EXCEPT !.consumed = TRUE]]
    BY DEF Consume
<1>4. otp' \in [Numbers -> PasswordRow]
    BY <1>1, <1>2, <1>3
<1>5. \A m \in Numbers : \/ otp'[m] = otp[m]
                         \/ otp'[m].sent = otp[m].sent /\ otp'[m].consumed
    BY <1>1, <1>2, <1>3
<1>6. PasswordsTyped'
    BY <1>1, <1>4, <1>5 DEF PasswordsTyped
<1>7. PasswordShape
    BY <1>1, <1>5 DEF PasswordShape
<1> QED  BY <1>6, <1>7

\* Every step sends, counts, consumes or deletes passwords; none restores one.
LEMMA PasswordSteps ==
    ASSUME Typed, [Next]_vars
    PROVE  PasswordsTyped' /\ PasswordShape
<1>0. /\ otp \in [Numbers -> PasswordRow] /\ sends \in Nat /\ sends <= MaxSends
      /\ \A n \in Numbers : otp[n].sent <= sends
      /\ \A n \in Numbers : otp[n] \in PasswordRow
      /\ now \in Nat /\ OTPTTL \in Nat /\ MaxSends \in Nat
    BY Bounds DEF Typed, PasswordsTyped, RegistryTyped
<1>1. CASE UNCHANGED <<otp, sends>>
    <2>1. otp' = otp /\ sends' = sends
        BY <1>1
    <2> QED  BY <1>0, <2>1 DEF PasswordsTyped, PasswordShape
<1>2. ASSUME NEW n \in Numbers, Send(n)
      PROVE  PasswordsTyped' /\ PasswordShape
    <2> DEFINE row == Password(sends + 1, 0, FALSE, now + OTPTTL)
    <2>1. row \in PasswordRow /\ row.sent = sends + 1
        BY <1>0 DEF Password, PasswordRow
    <2>2. /\ otp' = [otp EXCEPT ![n] = row]
          /\ sends' = sends + 1 /\ sends < MaxSends
        BY <1>2 DEF Send
    <2> HIDE DEF row
    <2>3. /\ otp' \in [Numbers -> PasswordRow]
          /\ \A m \in Numbers : otp'[m] = otp[m] \/ otp'[m].sent = sends + 1
        BY <1>0, <2>1, <2>2
    <2>4. \A m \in Numbers : otp[m].sent \in Nat
        BY <1>0 DEF PasswordRow
    <2> QED  BY <1>0, <2>2, <2>3, <2>4 DEF PasswordsTyped, PasswordShape
<1>3. ASSUME NEW c \in Calls, IncrementAttempts(c)
      PROVE  PasswordsTyped' /\ PasswordShape
    <2> DEFINE n == calls[c].in.msisdn
    <2>1. sends' = sends
          /\ (otp' = otp \/ otp' = [otp EXCEPT ![n].attempts = @ + 1])
        BY <1>3 DEF IncrementAttempts
    <2>2. n \in Numbers
        BY <1>3, RowsTyped, IntakeAssumption DEF IncrementAttempts, At, CallTyped, InputRow
    <2> DEFINE row == [otp[n] EXCEPT !.attempts = otp[n].attempts + 1]
    <2>3. row \in PasswordRow /\ row.sent = otp[n].sent /\ row.consumed = otp[n].consumed
        BY <1>0, <2>2 DEF PasswordRow
    <2>4. otp' = otp \/ otp' = [otp EXCEPT ![n] = row]
        BY <2>1
    <2> HIDE DEF row
    <2>5. /\ otp' \in [Numbers -> PasswordRow]
          /\ \A m \in Numbers : /\ otp'[m].sent = otp[m].sent
                                /\ otp'[m].consumed = otp[m].consumed
        BY <1>0, <2>2, <2>3, <2>4
    <2> QED  BY <1>0, <2>1, <2>5 DEF PasswordsTyped, PasswordShape
<1>4. ASSUME NEW c \in Calls, CreateIndividual(c) \/ CreateEnterprise(c)
      PROVE  PasswordsTyped' /\ PasswordShape
    <2>1. calls[c].in.msisdn \in Numbers
        BY <1>4, RowsTyped, IntakeAssumption
           DEF CreateIndividual, CreateEnterprise, At, CallTyped, InputRow
    <2>2. Consume(calls[c].in.msisdn) /\ UNCHANGED sends
        BY <1>4 DEF CreateIndividual, CreateEnterprise
    <2> QED  BY <2>1, <2>2, ConsumeShape
<1>5. CASE CommitPurge
    <2>1. DeleteOTP(purge.numbers) /\ sends' = sends
        BY <1>5 DEF CommitPurge, PurgeTestData
    <2>2. NoPassword \in PasswordRow /\ NoPassword.sent = 0
        BY DEF NoPassword, Password, PasswordRow
    <2>3. otp' = [n \in Numbers |-> IF n \in purge.numbers THEN NoPassword ELSE otp[n]]
        BY <2>1 DEF DeleteOTP
    <2>4. /\ otp' \in [Numbers -> PasswordRow]
          /\ \A n \in Numbers : otp'[n] = otp[n] \/ otp'[n].sent = 0
        BY <1>0, <2>2, <2>3
    <2> QED  BY <1>0, <2>1, <2>4 DEF PasswordsTyped, PasswordShape
<1>6. ASSUME NEW c \in Calls,
             \/ \E in \in Inputs : Receive(c, in)
             \/ Verify(c) \/ ReadRow(c) \/ ReadInProgress(c)
             \/ CreateRestitution(c) \/ SubmitReverse(c) \/ Leave(c)
      PROVE  UNCHANGED <<otp, sends>>
    BY <1>6 DEF Receive, Verify, ReadRow, ReadInProgress, CreateRestitution,
                SubmitReverse, Leave
<1>7. CASE \/ \E v \in ReverseIds : \/ ArtpValidates(v) \/ ArtpRejects(v)
                                    \/ WaitsTooLong(v) \/ AutoValidate(v)
           \/ OverdueForAutoValidation
           \/ \E op \in Purgers : ListPurge(op)
           \/ Outcome
           \/ Elapse \/ UNCHANGED vars
    BY <1>1, <1>7 DEF ArtpValidates, ArtpRejects, WaitsTooLong, AutoValidate,
                OverdueForAutoValidation, ListPurge, Outcome, TransferToRegistry, EndOfRequest,
                Withdraw, RejectNumbers, Elapse, vars
<1> QED  BY <1>1, <1>2, <1>3, <1>4, <1>5, <1>6, <1>7 DEF Next, CallStep

-----------------------------------------------------------------------------
(***************************************************************************)
(* The reverse requests: appended by a submission, validated with the      *)
(* request that is appended, rejected, late, or deleted.                   *)
(***************************************************************************)
Validation(v) ==
    \E d \in DemandeRow : demandes' = Append(demandes, d) /\ Validated(v, d)

Ages(v) ==
    /\ reverses'[v].msisdn = reverses[v].msisdn /\ reverses'[v].op = reverses[v].op
    /\ Pending(v)' => Pending(v)
    /\ \/ reverses'[v].when = reverses[v].when
       \/ reverses'[v].when = 0 /\ reverses'[v].status = "ABSENT"
    /\ reverses[v].status \in {"VALIDE", "ABSENT"} =>
          /\ reverses'[v].request = reverses[v].request
          /\ reverses'[v].status \in {reverses[v].status, "ABSENT"}
    /\ reverses'[v].status = "VALIDE" =>
          \/ reverses[v].status = "VALIDE"
          \/ Validation(v)

Aging == ReverseIds' = ReverseIds /\ \A v \in ReverseIds : Ages(v)

\* The reverse request that a submission appends: it read the number away.
Submitted == \E c \in Calls, r \in ReverseRow :
    LET n == calls[c].in.msisdn IN
    /\ reverses' = Append(reverses, r)
    /\ r.status = "EN_ATTENTE" /\ r.msisdn = n /\ r.request = 0
    /\ n \in DOMAIN calls[c].read
    /\ calls[c].read[n].holder # r.op /\ r.op = Origin[n]
    /\ r.when = calls[c].read[n].when
    /\ UNCHANGED <<numero, demandes, now>>

\* A reverse request that is decided, and it alone, ages.
LEMMA AgingOne ==
    ASSUME Typed, NEW v \in ReverseIds, NEW r \in ReverseRow,
           reverses' = [reverses EXCEPT ![v] = r],
           r.msisdn = reverses[v].msisdn, r.op = reverses[v].op,
           r.when = reverses[v].when, Pending(v),
           \/ r.status \in {"EN_ATTENTE", "REJETE"} /\ r.request = reverses[v].request
           \/ r.status = "VALIDE" /\ Validation(v)
    PROVE  /\ reverses' \in Seq(ReverseRow) /\ Aging
           /\ reverses'[v] = r /\ \A u \in ReverseIds \ {v} : reverses'[u] = reverses[u]
<1>1. reverses \in Seq(ReverseRow)
    BY DEF Typed, ReversesTyped
<1>2. /\ reverses' \in Seq(ReverseRow) /\ ReverseIds' = ReverseIds
      /\ reverses'[v] = r
      /\ \A u \in ReverseIds \ {v} : reverses'[u] = reverses[u]
    BY <1>1, Updating DEF ReverseIds
<1>3. Ages(v)
    BY <1>2 DEF Ages, Pending
<1>4. \A u \in ReverseIds \ {v} : Ages(u)
    BY <1>2 DEF Ages, Pending
<1> QED  BY <1>2, <1>3, <1>4 DEF Aging

\* They stay as they are when nothing writes them.
LEMMA AgingNone ==
    ASSUME UNCHANGED reverses
    PROVE  Aging
BY DEF Aging, Ages, ReverseIds, Pending

\* What two writes of a reverse_request row make of it.
Decided(r, request) == [r EXCEPT !.status = "VALIDE", !.request = request]
Deleted(r) == [r EXCEPT !.status = "ABSENT", !.late = FALSE, !.when = 0]

\* What a decision and a purge make of a reverse request.
LEMMA ReverseRows ==
    ASSUME NEW r \in ReverseRow, NEW request \in Nat
    PROVE  /\ Decided(r, request) \in ReverseRow
           /\ Decided(r, request).msisdn = r.msisdn /\ Decided(r, request).op = r.op
           /\ Decided(r, request).when = r.when
           /\ Decided(r, request).request = request
           /\ Decided(r, request).status = "VALIDE"
           /\ Deleted(r) \in ReverseRow
           /\ Deleted(r).msisdn = r.msisdn /\ Deleted(r).op = r.op
           /\ Deleted(r).when = 0 /\ Deleted(r).request = r.request
           /\ Deleted(r).status = "ABSENT"
BY DEF ReverseRow, Decided, Deleted

\* Purged reverse requests age in their places.
LEMMA AgingAll ==
    ASSUME Typed, DeleteReverseRequests(purge.op, purge.ids)
    PROVE  reverses' \in Seq(ReverseRow) /\ Aging
<1>1. reverses \in Seq(ReverseRow) /\ \A v \in ReverseIds : reverses[v] \in ReverseRow
    BY RowsTyped DEF Typed, ReversesTyped
<1>2. /\ reverses' = [v \in DOMAIN reverses |-> reverses'[v]]
      /\ \A v \in ReverseIds :
            \/ reverses'[v] = reverses[v]
            \/ reverses'[v] = Deleted(reverses[v])
    BY DEF DeleteReverseRequests, ReverseIds, Deleted
<1>3. ASSUME NEW v \in ReverseIds
      PROVE  reverses'[v] \in ReverseRow /\ Ages(v)
    <2>1. CASE reverses'[v] = reverses[v]
        BY <1>1, <2>1 DEF Ages, Pending
    <2>2. CASE reverses'[v] = Deleted(reverses[v])
        <3>1. /\ reverses'[v] \in ReverseRow
              /\ reverses'[v].status = "ABSENT" /\ reverses'[v].when = 0
              /\ reverses'[v].msisdn = reverses[v].msisdn
              /\ reverses'[v].op = reverses[v].op
              /\ reverses'[v].request = reverses[v].request
            BY <1>1, <2>2, ReverseRows
        <3> QED  BY <3>1 DEF Ages, Pending
    <2> QED  BY <1>2, <2>1, <2>2
<1>4. reverses' \in Seq(ReverseRow) /\ ReverseIds' = ReverseIds
    BY <1>1, <1>2, <1>3, Rewriting DEF ReverseIds
<1> QED  BY <1>3, <1>4 DEF Aging

\* A submission appends a reverse request, of a number its call found away.
LEMMA SubmissionsAppend ==
    ASSUME Typed, \A c \in Calls : CallKnows(c), NEW c \in Calls, SubmitReverse(c)
    PROVE  Submitted
<1> DEFINE k == calls[c]
<1> DEFINE n == calls[c].in.msisdn
<1>1. k \in CallRow /\ CallTyped(c) /\ k.pc = "insert" /\ k.in.kind = "reverse"
    BY RowsTyped DEF SubmitReverse, At
<1>2. /\ k.in \in InputRow /\ DOMAIN k.read = k.in.fleet /\ k.in.fleet = {n}
    BY <1>1, IntakeAssumption DEF CallTyped
<1>3. n \in Numbers /\ k.in.op \in Operators
    BY <1>2 DEF InputRow
<1>4. k.read[n].when \in Nat
    BY <1>2, GhostsTyped DEF Reading
<1> DEFINE r == Reverse(n, k.in.op, k.read[n].when)
<1>5. /\ r \in ReverseRow /\ r.status = "EN_ATTENTE" /\ r.msisdn = n /\ r.op = k.in.op
      /\ r.request = 0 /\ r.when = k.read[n].when
    BY <1>3, <1>4 DEF Reverse, ReverseRow
<1>6. /\ reverses' = Append(reverses, r)
      /\ k.in.op = Origin[n] /\ k.read[n].holder # Origin[n]
      /\ UNCHANGED <<numero, demandes, now>>
    BY DEF SubmitReverse
<1> HIDE DEF r
<1> QED  BY <1>2, <1>5, <1>6 DEF Submitted

\* A decision on one reverse request.
LEMMA DecisionsAge ==
    ASSUME Typed, NEW v \in ReverseIds,
           ArtpValidates(v) \/ ArtpRejects(v) \/ WaitsTooLong(v) \/ AutoValidate(v)
    PROVE  /\ reverses' \in Seq(ReverseRow) /\ Aging
           /\ \A u \in ReverseIds : \/ reverses'[u].request = reverses[u].request
                                    \/ reverses'[u].request <= Len(demandes')
<1>1. /\ reverses \in Seq(ReverseRow)
      /\ reverses[v] \in ReverseRow
    BY RowsTyped DEF Typed, ReversesTyped
<1>2. CASE UNCHANGED reverses
    BY <1>1, <1>2, AgingNone
<1>3. ASSUME Validation(v)
      PROVE  /\ reverses' \in Seq(ReverseRow) /\ Aging
             /\ \A u \in ReverseIds : \/ reverses'[u].request = reverses[u].request
                                      \/ reverses'[u].request <= Len(demandes')
    <2>1. PICK d \in DemandeRow : demandes' = Append(demandes, d) /\ Validated(v, d)
        BY <1>3 DEF Validation
    <2>2. demandes \in Seq(DemandeRow)
        BY DEF Typed, RequestsTyped
    <2>3. Len(demandes) \in Nat /\ Len(demandes') = Len(demandes) + 1
        BY <2>1, <2>2, Appending
    <2> DEFINE r == Decided(reverses[v], Len(demandes) + 1)
    <2>4. /\ r \in ReverseRow /\ r.msisdn = reverses[v].msisdn /\ r.op = reverses[v].op
          /\ r.when = reverses[v].when /\ r.status = "VALIDE"
          /\ r.request = Len(demandes')
        BY <1>1, <2>3, ReverseRows, Len(demandes) + 1 \in Nat
    <2>5. Pending(v) /\ reverses' = [reverses EXCEPT ![v] = r]
        BY <1>1, <2>1 DEF Validated, Decided
    <2> HIDE DEF r
    <2>6. /\ reverses' \in Seq(ReverseRow) /\ Aging
          /\ reverses'[v] = r /\ \A u \in ReverseIds \ {v} : reverses'[u] = reverses[u]
        BY <1>3, <2>4, <2>5, AgingOne
    <2> QED  BY <2>3, <2>4, <2>6
<1>4. CASE ArtpRejects(v)
    <2> DEFINE r == [reverses[v] EXCEPT !.status = "REJETE"]
    <2>1. /\ r \in ReverseRow /\ r.msisdn = reverses[v].msisdn /\ r.op = reverses[v].op
          /\ r.when = reverses[v].when /\ r.status = "REJETE"
          /\ r.request = reverses[v].request
        BY <1>1 DEF ReverseRow
    <2>2. Pending(v) /\ reverses' = [reverses EXCEPT ![v] = r]
        BY <1>4 DEF ArtpRejects
    <2> HIDE DEF r
    <2>3. /\ reverses' \in Seq(ReverseRow) /\ Aging
          /\ reverses'[v] = r /\ \A u \in ReverseIds \ {v} : reverses'[u] = reverses[u]
        BY <2>1, <2>2, AgingOne
    <2> QED  BY <2>1, <2>3
<1>5. CASE WaitsTooLong(v)
    <2> DEFINE r == [reverses[v] EXCEPT !.late = TRUE]
    <2>1. Pending(v) /\ reverses' = [reverses EXCEPT ![v] = r]
        BY <1>5 DEF WaitsTooLong
    <2>2. /\ r \in ReverseRow /\ r.msisdn = reverses[v].msisdn /\ r.op = reverses[v].op
          /\ r.when = reverses[v].when /\ r.status = "EN_ATTENTE"
          /\ r.request = reverses[v].request
        BY <1>1, <2>1 DEF ReverseRow, Pending
    <2> HIDE DEF r
    <2>3. /\ reverses' \in Seq(ReverseRow) /\ Aging
          /\ reverses'[v] = r /\ \A u \in ReverseIds \ {v} : reverses'[u] = reverses[u]
        BY <2>1, <2>2, AgingOne
    <2> QED  BY <2>2, <2>3
<1>6. CASE ArtpValidates(v) \/ AutoValidate(v)
    <2>1. CASE ValidateReverse(v) /\ UNCHANGED <<numero, otp, calls, now, sends>>
        <3> DEFINE r == reverses[v]
        <3> DEFINE d == Demande("REVERSE", numero[r.msisdn].holder, r.op, r.msisdn,
                                {r.msisdn}, {}, Ghosts(NoRead, 0, 0, v))
        <3>1. CASE ~ Pending(v)
            BY <1>2, <2>1, <3>1 DEF ValidateReverse
        <3>2. CASE Pending(v)
            <4>1. d \in DemandeRow
                BY ValidationTyped
            <4>2. /\ demandes' = Append(demandes, d)
                  /\ reverses' = [reverses EXCEPT ![v].status = "VALIDE",
                                                  ![v].request = Len(demandes) + 1]
                BY <2>1, <3>2 DEF ValidateReverse, Insert
            <4>3. Validated(v, d)
                BY <2>1, <3>2, <4>2 DEF Validated, Demande
            <4>4. Validation(v)
                BY <4>1, <4>2, <4>3 DEF Validation
            <4> QED  BY <1>3, <4>4
        <3> QED  BY <3>1, <3>2
    <2>2. CASE UNCHANGED reverses
        BY <1>2, <2>2
    <2> QED  BY <1>6, <2>1, <2>2 DEF ArtpValidates, AutoValidate
<1> QED  BY <1>4, <1>5, <1>6

\* Every step appends one reverse request, or lets them all age.
LEMMA ReverseSteps ==
    ASSUME Typed, \A c \in Calls : CallKnows(c), [Next]_vars
    PROVE  ReversesTyped' /\ (Aging \/ Submitted)
<1>0. /\ reverses \in Seq(ReverseRow)
      /\ purge.ids \subseteq Ids /\ owed \subseteq ReverseIds
      /\ \A v \in ReverseIds : /\ reverses[v] \in ReverseRow
                               /\ reverses[v].request <= Len(demandes)
                               /\ reverses[v].when <= now
      /\ now \in Nat /\ now' \in Nat /\ now <= now'
    BY RowsTyped, RegistrySteps DEF Typed, ReversesTyped, RegistryTyped, RegistryShape
<1>1. /\ Len(demandes) \in Nat /\ Len(demandes') \in Nat
      /\ Len(demandes) <= Len(demandes') /\ Ids \subseteq Ids'
    BY RequestSteps, RequestsGrow
<1>2. \A v \in ReverseIds : reverses[v].request \in Nat /\ reverses[v].when \in Nat
    BY <1>0 DEF ReverseRow
<1>3. ASSUME reverses' \in Seq(ReverseRow), Aging,
             \A v \in ReverseIds : \/ reverses'[v].request = reverses[v].request
                                   \/ reverses'[v].request <= Len(demandes')
      PROVE  \A v \in ReverseIds' : /\ reverses'[v].request <= Len(demandes')
                                    /\ reverses'[v].when <= now'
    <2>1. ReverseIds' = ReverseIds /\ \A v \in ReverseIds : Ages(v)
        BY <1>3 DEF Aging
    <2>2. ASSUME NEW v \in ReverseIds
          PROVE  reverses'[v].request <= Len(demandes') /\ reverses'[v].when <= now'
        <3>1. reverses'[v].when = reverses[v].when \/ reverses'[v].when = 0
            BY <2>1 DEF Ages
        <3>2. reverses'[v].when <= now'
            BY <1>0, <1>2, <3>1
        <3> QED  BY <1>0, <1>1, <1>2, <1>3, <3>2
    <2> QED  BY <2>1, <2>2
<1>4. CASE UNCHANGED reverses
    <2>1. Aging /\ reverses' \in Seq(ReverseRow)
        BY <1>0, <1>4, AgingNone
    <2>2. \A v \in ReverseIds : reverses'[v].request = reverses[v].request
        BY <1>4
    <2>3. /\ ReverseIds' = ReverseIds
          /\ \A v \in ReverseIds' : /\ reverses'[v].request <= Len(demandes')
                                    /\ reverses'[v].when <= now'
        BY <2>1, <2>2, <1>3 DEF Aging
    <2> QED
        <3>1. CASE UNCHANGED <<purge, owed>>
            BY <1>0, <1>1, <2>1, <2>3, <3>1 DEF ReversesTyped
        <3>2. ASSUME NEW op \in Purgers, ListPurge(op)
              PROVE  ReversesTyped'
            <4>1. purge'.ids = RequestIDsToPurge(op) /\ owed' = owed
                BY <3>2 DEF ListPurge
            <4>2. purge'.ids \subseteq Ids
                BY <4>1 DEF RequestIDsToPurge
            <4> QED  BY <1>0, <1>1, <2>1, <2>3, <4>1, <4>2 DEF ReversesTyped
        <3>3. CASE OverdueForAutoValidation
            <4>1. purge' = purge /\ owed' \subseteq ReverseIds
                BY <3>3 DEF OverdueForAutoValidation
            <4> QED  BY <1>0, <1>1, <2>1, <2>3, <4>1 DEF ReversesTyped
        <3>4. ASSUME NEW v \in ReverseIds, AutoValidate(v)
              PROVE  ReversesTyped'
            <4>1. purge' = purge /\ owed' \subseteq owed
                BY <3>4 DEF AutoValidate
            <4> QED  BY <1>0, <1>1, <2>1, <2>3, <4>1 DEF ReversesTyped
        <3>5. CASE CommitPurge
            <4>1. purge' = NoPurge /\ owed' = owed
                BY <3>5 DEF CommitPurge
            <4>2. purge'.ids = {}
                BY <4>1 DEF NoPurge
            <4> QED  BY <1>0, <1>1, <2>1, <2>3, <4>1, <4>2 DEF ReversesTyped
        <3>6. ASSUME \/ \E c \in Calls : \/ \E in \in Inputs : Receive(c, in)
                                         \/ CallStep(c) \/ Leave(c)
                     \/ \E n \in Numbers : Send(n)
                     \/ \E v \in ReverseIds : \/ ArtpValidates(v) \/ ArtpRejects(v)
                                              \/ WaitsTooLong(v)
                     \/ Outcome
                     \/ Elapse \/ UNCHANGED vars
              PROVE  UNCHANGED <<purge, owed>>
            BY <3>6 DEF Receive, CallStep, Verify, IncrementAttempts, ReadRow,
                        ReadInProgress, CreateIndividual, CreateEnterprise,
                        CreateRestitution, SubmitReverse, Leave, Send, ArtpValidates,
                        ArtpRejects, WaitsTooLong, Outcome, TransferToRegistry, EndOfRequest,
                        Withdraw, RejectNumbers, Elapse, vars
        <3> QED  BY <2>1, <3>1, <3>2, <3>3, <3>4, <3>5, <3>6 DEF Next
<1>5. ASSUME NEW c \in Calls, SubmitReverse(c)
      PROVE  ReversesTyped' /\ Submitted
    <2>1. Submitted
        BY <1>5, SubmissionsAppend
    <2>2. PICK d \in Calls, r \in ReverseRow :
              /\ reverses' = Append(reverses, r) /\ r.request = 0
              /\ calls[d].in.msisdn \in DOMAIN calls[d].read
              /\ r.when = calls[d].read[calls[d].in.msisdn].when
        BY <2>1 DEF Submitted
    <2>3. r.when <= now
        BY <2>2 DEF CallKnows
    <2>4. /\ reverses' \in Seq(ReverseRow)
          /\ ReverseIds' = ReverseIds \cup {Len(reverses) + 1}
          /\ \A v \in ReverseIds : reverses'[v] = reverses[v]
          /\ reverses'[Len(reverses) + 1] = r
        BY <1>0, <2>2, Appending DEF ReverseIds
    <2>5. UNCHANGED <<purge, owed, now, demandes>>
        BY <1>5 DEF SubmitReverse
    <2>6. ASSUME NEW v \in ReverseIds'
          PROVE  reverses'[v].request <= Len(demandes') /\ reverses'[v].when <= now'
        <3>1. CASE v \in ReverseIds
            <4>1. reverses'[v] = reverses[v]
                BY <2>4, <3>1
            <4> QED  BY <1>0, <1>1, <2>5, <3>1, <4>1
        <3>2. CASE v = Len(reverses) + 1
            <4>1. reverses'[v] = r
                BY <2>4, <3>2
            <4> QED  BY <1>1, <2>2, <2>3, <2>5, <4>1
        <3> QED  BY <2>4, <2>6, <3>1, <3>2
    <2> QED  BY <1>0, <1>1, <2>1, <2>4, <2>5, <2>6 DEF ReversesTyped
<1>6. ASSUME NEW v \in ReverseIds,
             ArtpValidates(v) \/ ArtpRejects(v) \/ WaitsTooLong(v) \/ AutoValidate(v)
      PROVE  ReversesTyped' /\ Aging
    <2>1. /\ reverses' \in Seq(ReverseRow) /\ Aging
          /\ \A u \in ReverseIds : \/ reverses'[u].request = reverses[u].request
                                   \/ reverses'[u].request <= Len(demandes')
        BY <1>6, DecisionsAge
    <2>2. \A u \in ReverseIds' : /\ reverses'[u].request <= Len(demandes')
                                 /\ reverses'[u].when <= now'
        BY <2>1, <1>3
    <2>3. purge' = purge /\ owed' \subseteq owed
        BY <1>6 DEF ArtpValidates, ArtpRejects, WaitsTooLong, AutoValidate
    <2>4. ReverseIds' = ReverseIds
        BY <2>1 DEF Aging
    <2> QED  BY <1>0, <1>1, <2>1, <2>2, <2>3, <2>4 DEF ReversesTyped
<1>7. CASE CommitPurge
    <2>1. /\ DeleteReverseRequests(purge.op, purge.ids) /\ purge' = NoPurge /\ owed' = owed
        BY <1>7 DEF CommitPurge, PurgeTestData
    <2>2. reverses' \in Seq(ReverseRow) /\ Aging
        BY <2>1, AgingAll
    <2>3. \A v \in ReverseIds : reverses'[v].request = reverses[v].request
        <3>1. \A v \in ReverseIds : \/ reverses'[v] = reverses[v]
                                    \/ reverses'[v] = Deleted(reverses[v])
            BY <2>1 DEF DeleteReverseRequests, Deleted
        <3> QED  BY <1>0, <3>1, ReverseRows, 0 \in Nat
    <2>4. \A v \in ReverseIds' : /\ reverses'[v].request <= Len(demandes')
                                 /\ reverses'[v].when <= now'
        BY <2>2, <2>3, <1>3
    <2>5. purge'.ids = {} /\ ReverseIds' = ReverseIds
        BY <2>1, <2>2 DEF NoPurge, Aging
    <2> QED  BY <1>0, <2>1, <2>2, <2>4, <2>5 DEF ReversesTyped
<1>8. ASSUME NEW c \in Calls,
             \/ \E in \in Inputs : Receive(c, in)
             \/ Verify(c) \/ IncrementAttempts(c) \/ ReadRow(c) \/ ReadInProgress(c)
             \/ CreateIndividual(c) \/ CreateEnterprise(c) \/ CreateRestitution(c)
             \/ Leave(c)
      PROVE  UNCHANGED reverses
    BY <1>8 DEF Receive, Verify, IncrementAttempts, ReadRow, ReadInProgress,
                CreateIndividual, CreateEnterprise, CreateRestitution, Leave
<1>9. ASSUME \/ \E n \in Numbers : Send(n)
             \/ OverdueForAutoValidation
             \/ \E op \in Purgers : ListPurge(op)
             \/ Outcome
             \/ Elapse \/ UNCHANGED vars
      PROVE  UNCHANGED reverses
    BY <1>9 DEF Send, OverdueForAutoValidation, ListPurge, Outcome, TransferToRegistry,
                EndOfRequest, Withdraw, RejectNumbers, Elapse, vars
<1> QED  BY <1>4, <1>5, <1>6, <1>7, <1>8, <1>9 DEF Next, CallStep

-----------------------------------------------------------------------------
(***************************************************************************)
(* The requests that were there fade; one that was not is the one that is  *)
(* appended.                                                               *)
(***************************************************************************)
LEMMA OldRequests ==
    ASSUME Typed, Fading \/ Appended
    PROVE  \A i \in Ids : i \in Ids' /\ Fades(i)
<1>1. demandes \in Seq(DemandeRow)
    BY DEF Typed, RequestsTyped
<1>2. CASE Fading
    BY <1>2 DEF Fading
<1>3. CASE Appended
    <2>1. \A i \in Ids : i \in Ids' /\ demandes'[i] = demandes[i]
        BY <1>1, <1>3, Appending DEF Appended, Ids
    <2> QED  BY <2>1 DEF Fades, InProgress, Present
<1> QED  BY <1>2, <1>3

\* A request in a new place was just opened, by a creation or a validation.
LEMMA NewRequest ==
    ASSUME Typed, Fading \/ Appended, NEW i \in Ids', i \notin Ids
    PROVE  /\ i = Len(demandes) + 1
           /\ demandes'[i] \in DemandeRow /\ demandes'[i].active \subseteq demandes'[i].fleet
           /\ demandes' = Append(demandes, demandes'[i])
           /\ \/ \E c \in Calls : Opened(c, demandes'[i])
              \/ \E v \in ReverseIds : Validated(v, demandes'[i])
<1>1. demandes \in Seq(DemandeRow)
    BY DEF Typed, RequestsTyped
<1>2. Appended
    BY DEF Fading
<1>3. PICK d \in DemandeRow :
          /\ d.active \subseteq d.fleet
          /\ demandes' = Append(demandes, d)
          /\ (\E c \in Calls : Opened(c, d)) \/ (\E v \in ReverseIds : Validated(v, d))
    BY <1>2 DEF Appended
<1>4. i = Len(demandes) + 1 /\ demandes'[i] = d
    BY <1>1, <1>3, Appending DEF Ids
<1> QED  BY <1>3, <1>4

-----------------------------------------------------------------------------
(***************************************************************************)
(* A call keeps what it knows.                                             *)
(***************************************************************************)
LEMMA HoldsOn ==
    ASSUME Typed, RegistryShape, NEW row, NEW n \in Numbers, NEW when \in Nat,
           when <= now, Holds(row, n, when)
    PROVE  Holds(row, n, when)'
<1>1. /\ now \in Nat /\ numero[n].date \in Nat \cup {None}
    BY RowsTyped DEF Typed, RegistryTyped, RegistryRow
<1>2. \/ numero'[n] = numero[n] \/ numero'[n].date = None \/ numero'[n].date = now
    BY DEF RegistryShape
<1> QED  BY <1>1, <1>2 DEF Holds, MovedSince

\* The fields of a call, as its type gives them.
LEMMA CallHas ==
    ASSUME Typed, NEW c \in Calls
    PROVE  LET k == calls[c] IN
           /\ k.sent \in Nat /\ k.verified \in Nat
           /\ k.pc = "inProgress" => /\ k.row \in RowRead
                                     /\ k.row.msisdn \in Numbers /\ k.row.when \in Nat
                                     /\ k.row.row \in RegistryRow
           /\ DOMAIN k.read \subseteq Numbers
           /\ \A n \in DOMAIN k.read : /\ k.read[n] \in Reading
                                       /\ k.read[n].when \in Nat /\ k.read[n].upTo \in Nat
<1>1. calls[c] \in CallRow /\ CallTyped(c)
    BY RowsTyped
<1>2. calls[c].pc = "inProgress" => calls[c].row \in RowRead
    BY <1>1 DEF CallTyped
<1>3. /\ DOMAIN calls[c].read \subseteq Numbers
      /\ \A n \in DOMAIN calls[c].read : calls[c].read[n] \in Reading
    BY GhostsTyped
<1>4. \A n \in DOMAIN calls[c].read :
          calls[c].read[n].when \in Nat /\ calls[c].read[n].upTo \in Nat
    BY <1>3 DEF Reading
<1>5. calls[c].sent \in Nat /\ calls[c].verified \in Nat
    BY <1>1 DEF CallRow
<1> QED  BY <1>2, <1>3, <1>4, <1>5 DEF RowRead

\* What a call that rests knows stays true, whatever the others do.
LEMMA KnowledgeKept ==
    ASSUME Typed, [Next]_vars, NEW c \in Calls, CallKnows(c), calls'[c] = calls[c]
    PROVE  CallKnows(c)'
<1> DEFINE k == calls[c]
<1>0. calls'[c] = k
    OBVIOUS
<1>1. RegistryShape /\ sends <= sends' /\ sends \in Nat /\ sends' \in Nat
    BY RegistrySteps, PasswordSteps DEF PasswordShape, PasswordsTyped, Typed
<1>2. /\ Len(demandes) \in Nat /\ Len(demandes') \in Nat
      /\ Len(demandes) <= Len(demandes')
      /\ Ids = 1..Len(demandes) /\ Ids' \subseteq Ids \cup {Len(demandes) + 1}
      /\ \A i \in Ids : Fades(i)
    BY RequestSteps, RequestsGrow, OldRequests
<1>3. /\ now \in Nat /\ now' \in Nat /\ now <= now'
    BY RegistrySteps, <1>1 DEF RegistryTyped, Typed, RegistryShape
<1>4. /\ k.sent \in Nat /\ k.verified \in Nat
      /\ k.pc = "inProgress" => /\ k.row.msisdn \in Numbers /\ k.row.when \in Nat
      /\ DOMAIN k.read \subseteq Numbers
      /\ \A n \in DOMAIN k.read : k.read[n].when \in Nat /\ k.read[n].upTo \in Nat
    BY CallHas
<1>5. k.sent > 0 => UnusedUpTo(k.sent, k.in.msisdn, k.verified)'
    <2> SUFFICES ASSUME k.sent > 0, NEW p \in Ids', p <= k.verified
                 PROVE  ~ (demandes'[p].ghosts.sent = k.sent
                           /\ demandes'[p].msisdn = k.in.msisdn)
        BY DEF UnusedUpTo
    <2>1. p \in Ids
        BY <1>2, <1>4 DEF CallKnows
    <2>2. ~ (demandes[p].ghosts.sent = k.sent /\ demandes[p].msisdn = k.in.msisdn)
        BY <2>1 DEF CallKnows, UnusedUpTo
    <2>3. /\ demandes'[p].msisdn = demandes[p].msisdn
          /\ \/ demandes'[p].ghosts = demandes[p].ghosts
             \/ demandes'[p].ghosts.sent = 0
        BY <1>2, <2>1 DEF Fades
    <2> QED  BY <1>4, <2>2, <2>3
<1>6. k.pc = "inProgress" => /\ k.row.when <= now'
                             /\ Holds(k.row.row, k.row.msisdn, k.row.when)'
    <2> SUFFICES ASSUME k.pc = "inProgress"
                 PROVE  k.row.when <= now' /\ Holds(k.row.row, k.row.msisdn, k.row.when)'
        OBVIOUS
    <2>1. k.row.when <= now /\ Holds(k.row.row, k.row.msisdn, k.row.when)
        BY DEF CallKnows
    <2>2. k.row.when <= now'
        BY <1>3, <1>4, <2>1
    <2>3. PICK row, n, when : row = k.row.row /\ n = k.row.msisdn /\ when = k.row.when
        OBVIOUS
    <2>4. Holds(row, n, when)'
        BY <1>1, <1>4, <2>1, <2>3, HoldsOn
    <2> QED  BY <2>2, <2>3, <2>4, <1>0 DEF Holds, MovedSince
<1>7. ASSUME NEW n \in DOMAIN k.read
      PROVE  /\ k.read[n].when <= now' /\ k.read[n].upTo <= Len(demandes')
             /\ Holds(k.read[n], n, k.read[n].when)'
             /\ ~ k.read[n].inProgress => FreeUpTo(n, k.read[n].upTo)'
    <2>1. k.read[n].when <= now' /\ k.read[n].upTo <= Len(demandes')
        BY <1>2, <1>3, <1>4 DEF CallKnows
    <2>2. Holds(k.read[n], n, k.read[n].when)'
        <3>1. k.read[n].when <= now /\ Holds(k.read[n], n, k.read[n].when)
            BY DEF CallKnows
        <3>2. PICK row, when : row = k.read[n] /\ when = k.read[n].when
            OBVIOUS
        <3>3. Holds(row, n, when)'
            BY <1>1, <1>4, <3>1, <3>2, HoldsOn
        <3> QED  BY <1>0, <3>2, <3>3 DEF Holds, MovedSince
    <2>3. ASSUME ~ k.read[n].inProgress, NEW p \in Ids', p <= k.read[n].upTo
          PROVE  ~ Retains(p, n)'
        <3>1. p \in Ids
            BY <1>2, <1>4, <2>3 DEF CallKnows
        <3>2. ~ Retains(p, n) /\ Fades(p)
            BY <1>2, <2>3, <3>1 DEF CallKnows, FreeUpTo
        <3> QED  BY <3>2 DEF Fades, Retains, InProgress
    <2> QED  BY <2>1, <2>2, <2>3 DEF FreeUpTo
<1>8. k.sent <= sends' /\ k.verified <= Len(demandes')
      /\ (k.sent > 0 => k.in.kind \in {"individual", "enterprise"})
    BY <1>1, <1>2, <1>4 DEF CallKnows
<1> QED  BY <1>5, <1>6, <1>7, <1>8
         DEF CallKnows, Holds, MovedSince, FreeUpTo, UnusedUpTo

-----------------------------------------------------------------------------
(***************************************************************************)
(* A call learns.                                                          *)
(***************************************************************************)
\* One call becomes another; the rest keep what they know.
LEMMA Becoming ==
    ASSUME Typed, \A d \in Calls : CallKnows(d), [Next]_vars,
           NEW c \in Calls, NEW call \in CallRow, Become(c, call),
           CallTyped(c)', CallKnows(c)'
    PROVE  CallsTyped' /\ \A d \in Calls : CallKnows(d)'
<1>1. calls \in [Calls -> CallRow] /\ \A d \in Calls : CallTyped(d)
    BY DEF Typed, CallsTyped
<1>2. /\ calls' \in [Calls -> CallRow]
      /\ \A d \in Calls \ {c} : calls'[d] = calls[d]
    BY <1>1 DEF Become
<1>3. \A d \in Calls : CallTyped(d)'
    BY <1>1, <1>2 DEF CallTyped
<1>4. \A d \in Calls : CallKnows(d)'
    BY <1>2, KnowledgeKept
<1> QED  BY <1>2, <1>3, <1>4 DEF CallsTyped

\* A call that has read nothing has a reading.
LEMMA NothingRead == NoRead \in Readings /\ DOMAIN NoRead = {}
<1>1. NoRead \in [{} -> Reading] /\ DOMAIN NoRead = {}
    BY DEF NoRead
<1> QED  BY <1>1 DEF Readings

\* A call that starts, or ends, knows nothing.
LEMMA Starting ==
    ASSUME Typed, \A d \in Calls : CallKnows(d), [Next]_vars, NEW c \in Calls,
           NEW pc, NEW in, Become(c, Call(pc, in)),
           \/ pc = "idle" /\ in = None
           \/ pc = "row" /\ in \in Inputs
           \/ pc = "verify" /\ in \in Inputs /\ in.kind \in PasswordKinds
    PROVE  CallsTyped' /\ \A d \in Calls : CallKnows(d)'
<1> DEFINE call == Call(pc, in)
<1>1. calls \in [Calls -> CallRow] /\ sends' \in Nat /\ Len(demandes') \in Nat
    BY PasswordSteps, RequestSteps, RequestsGrow
       DEF Typed, CallsTyped, PasswordsTyped
<1>2. /\ call \in CallRow /\ call.pc = pc /\ call.in = in /\ call.sent = 0
      /\ call.verified = 0 /\ call.read = NoRead
    BY NothingRead DEF Call, CallRow, Phases
<1>3. calls'[c] = call
    BY <1>1 DEF Become
<1> HIDE DEF call
<1>4. CallTyped(c)'
    BY <1>2, <1>3, NothingRead DEF CallTyped
<1>5. CallKnows(c)'
    BY <1>1, <1>2, <1>3, NothingRead DEF CallKnows
<1> QED  BY <1>2, <1>4, <1>5, Becoming DEF call

\* What a call comes to know of what stays as it is, it knows.
LEMMA Knowing ==
    ASSUME UNCHANGED <<numero, demandes, now, sends>>, NEW c \in Calls,
           NEW k, calls'[c] = k,
           k.sent <= sends, k.verified <= Len(demandes),
           k.sent > 0 => /\ k.in.kind \in {"individual", "enterprise"}
                         /\ UnusedUpTo(k.sent, k.in.msisdn, k.verified),
           k.pc = "inProgress" => /\ k.row.when <= now
                                  /\ Holds(k.row.row, k.row.msisdn, k.row.when),
           \A n \in DOMAIN k.read :
              /\ k.read[n].when <= now /\ k.read[n].upTo <= Len(demandes)
              /\ Holds(k.read[n], n, k.read[n].when)
              /\ ~ k.read[n].inProgress => FreeUpTo(n, k.read[n].upTo)
    PROVE  CallKnows(c)'
<1>1. \A sent, n, upTo : UnusedUpTo(sent, n, upTo) => UnusedUpTo(sent, n, upTo)'
    BY DEF UnusedUpTo, Ids
<1>2. \A row, n, when : Holds(row, n, when) => Holds(row, n, when)'
    BY DEF Holds, MovedSince
<1>3. \A n, upTo : FreeUpTo(n, upTo) => FreeUpTo(n, upTo)'
    BY DEF FreeUpTo, Retains, InProgress, Ids
<1> QED  BY <1>1, <1>2, <1>3 DEF CallKnows

\* The password just verified has opened no request: one that had is consumed.
LEMMA VerifyingTeaches ==
    ASSUME Typed, \A d \in Calls : CallKnows(d), \A i \in Ids : PasswordSpent(i),
           [Next]_vars, NEW c \in Calls, Verify(c)
    PROVE  CallsTyped' /\ \A d \in Calls : CallKnows(d)'
<1> DEFINE k == calls[c]
<1> DEFINE n == calls[c].in.msisdn
<1>1. /\ calls \in [Calls -> CallRow] /\ k \in CallRow /\ CallTyped(c)
      /\ Len(demandes) \in Nat /\ CallKnows(c)
      /\ UNCHANGED <<numero, demandes, now, sends>>
    BY RowsTyped, RequestSteps, RequestsGrow DEF Typed, CallsTyped, Verify
<1>2. /\ k.pc = "verify" /\ k.in \in Inputs /\ k.in.kind \in PasswordKinds
      /\ DOMAIN k.read \subseteq k.in.fleet /\ Stored(n) /\ ~ otp[n].consumed
    BY <1>1 DEF Verify, At, CallTyped, Usable
<1>3. n \in Numbers
    BY <1>2, IntakeAssumption DEF InputRow
<1>4. otp[n].sent \in Nat /\ otp[n].sent <= sends /\ otp[n].sent > 0
    BY <1>2, <1>3, RowsTyped DEF Stored, Typed, PasswordsTyped, PasswordRow
<1>5. CASE Become(c, [k EXCEPT !.pc = "row", !.sent = otp[n].sent,
                               !.verified = Len(demandes)]) /\ k.in.kind # "verify"
    <2> DEFINE call == [k EXCEPT !.pc = "row", !.sent = otp[n].sent,
                                 !.verified = Len(demandes)]
    <2>1. /\ call \in CallRow /\ call.pc = "row" /\ call.in = k.in
          /\ call.sent = otp[n].sent /\ call.verified = Len(demandes)
          /\ call.read = k.read
        BY <1>1, <1>4 DEF CallRow, Phases
    <2>2. calls'[c] = call
        BY <1>1, <1>5 DEF Become
    <2> HIDE DEF call
    <2>3. CallTyped(c)'
        BY <1>2, <2>1, <2>2 DEF CallTyped
    <2>4. k.in.kind \in {"individual", "enterprise"}
        BY <1>2, <1>5 DEF PasswordKinds
    <2>5. UnusedUpTo(otp[n].sent, n, Len(demandes))
        BY <1>2, <1>4 DEF UnusedUpTo, PasswordSpent
    <2>6. CallKnows(c)'
        <3>1. call.sent <= sends /\ call.verified <= Len(demandes)
            BY <1>1, <1>4, <2>1
        <3>2. call.in.kind \in {"individual", "enterprise"}
            BY <2>1, <2>4
        <3>3. UnusedUpTo(call.sent, call.in.msisdn, call.verified)
            BY <2>1, <2>5
        <3>4. \A m \in DOMAIN call.read :
                 /\ call.read[m].when <= now /\ call.read[m].upTo <= Len(demandes)
                 /\ Holds(call.read[m], m, call.read[m].when)
                 /\ ~ call.read[m].inProgress => FreeUpTo(m, call.read[m].upTo)
            BY <1>1, <2>1 DEF CallKnows
        <3>5. call.pc # "inProgress"
            BY <2>1
        <3> QED  BY <1>1, <2>2, <3>1, <3>2, <3>3, <3>4, <3>5, Knowing
    <2> QED  BY <1>5, <2>1, <2>3, <2>6, Becoming DEF call
<1>6. CASE Become(c, [k EXCEPT !.pc = "increment"])
    <2> DEFINE call == [k EXCEPT !.pc = "increment"]
    <2>1. /\ call \in CallRow /\ call.pc = "increment" /\ call.in = k.in
          /\ call.sent = k.sent /\ call.verified = k.verified /\ call.read = k.read
        BY <1>1 DEF CallRow, Phases
    <2>2. calls'[c] = call
        BY <1>1, <1>6 DEF Become
    <2> HIDE DEF call
    <2>3. CallTyped(c)'
        BY <1>2, <2>1, <2>2 DEF CallTyped
    <2>4. CallKnows(c)'
        BY <1>1, <2>1, <2>2, Knowing DEF CallKnows
    <2> QED  BY <1>6, <2>1, <2>3, <2>4, Becoming DEF call
<1> QED  BY <1>5, <1>6 DEF Verify

\* The row that a call reads is the number's row now.
LEMMA ReadingTeaches ==
    ASSUME Typed, \A d \in Calls : CallKnows(d), [Next]_vars, NEW c \in Calls, ReadRow(c)
    PROVE  CallsTyped' /\ \A d \in Calls : CallKnows(d)'
<1> DEFINE k == calls[c]
<1>1. /\ calls \in [Calls -> CallRow] /\ k \in CallRow /\ CallTyped(c)
      /\ CallKnows(c) /\ k.pc = "row"
      /\ UNCHANGED <<numero, demandes, now, sends>>
    BY RowsTyped DEF Typed, CallsTyped, ReadRow, At
<1>2. PICK n \in ToRead(k) :
          Become(c, [k EXCEPT !.pc = "inProgress",
                              !.row = [msisdn |-> n, row |-> numero[n], when |-> now]])
    BY DEF ReadRow
<1>3. /\ k.in \in Inputs /\ n \in k.in.fleet /\ DOMAIN k.read \subseteq k.in.fleet
    BY <1>1 DEF CallTyped, ToRead
<1>4. /\ n \in Numbers /\ numero[n] \in RegistryRow /\ now \in Nat
    BY <1>3, RowsTyped, IntakeAssumption DEF InputRow, Typed, RegistryTyped
<1> DEFINE row == [msisdn |-> n, row |-> numero[n], when |-> now]
<1> DEFINE call == [k EXCEPT !.pc = "inProgress", !.row = row]
<1>5. row \in RowRead /\ row.msisdn = n /\ row.row = numero[n] /\ row.when = now
    BY <1>4 DEF RowRead
<1> HIDE DEF row
<1>6. /\ call \in CallRow /\ call.pc = "inProgress" /\ call.in = k.in
      /\ call.sent = k.sent /\ call.verified = k.verified /\ call.read = k.read
      /\ call.row = row
    BY <1>1, <1>5 DEF CallRow, Phases
<1>7. Become(c, call)
    BY <1>2 DEF row
<1>8. calls'[c] = call
    BY <1>1, <1>7 DEF Become
<1> HIDE DEF call
<1>9. CallTyped(c)'
    BY <1>3, <1>5, <1>6, <1>8 DEF CallTyped
<1>10. CallKnows(c)'
    <2>1. row.when <= now /\ Holds(row.row, row.msisdn, row.when)
        BY <1>4, <1>5 DEF Holds
    <2> QED  BY <1>1, <1>6, <1>8, <2>1, Knowing DEF CallKnows
<1> QED  BY <1>6, <1>7, <1>9, <1>10, Becoming

\* A number found free is retained by no request so far.
LEMMA LookingTeaches ==
    ASSUME Typed, \A d \in Calls : CallKnows(d), [Next]_vars, NEW c \in Calls,
           ReadInProgress(c)
    PROVE  CallsTyped' /\ \A d \in Calls : CallKnows(d)'
<1> DEFINE k == calls[c]
<1> DEFINE n == k.row.msisdn
<1> DEFINE state == [holder |-> k.row.row.holder, date |-> k.row.row.date,
                     restituted |-> k.row.row.restituted,
                     inProgress |-> RequestInProgress(n),
                     when |-> k.row.when, upTo |-> Len(demandes)]
<1> DEFINE read == [m \in DOMAIN k.read \cup {n} |-> IF m = n THEN state ELSE k.read[m]]
<1> DEFINE pc == IF DOMAIN read = k.in.fleet THEN "insert" ELSE "row"
<1> DEFINE call == [k EXCEPT !.pc = pc, !.row = None, !.read = read]
<1>1. /\ calls \in [Calls -> CallRow] /\ k \in CallRow /\ CallTyped(c)
      /\ CallKnows(c) /\ k.pc = "inProgress" /\ Become(c, call)
      /\ UNCHANGED <<numero, demandes, now, sends>>
      /\ Len(demandes) \in Nat
    BY RowsTyped, RequestSteps, RequestsGrow DEF Typed, CallsTyped, ReadInProgress, At
<1>2. /\ k.in \in Inputs /\ n \in k.in.fleet /\ DOMAIN k.read \subseteq k.in.fleet
    BY <1>1 DEF CallTyped
<1>3. /\ k.row.row \in RegistryRow /\ n \in Numbers /\ k.row.when \in Nat
      /\ DOMAIN k.read \subseteq Numbers
      /\ \A m \in DOMAIN k.read : k.read[m] \in Reading
    BY <1>1, CallHas
<1>4. /\ state \in Reading /\ state.holder = k.row.row.holder
      /\ state.date = k.row.row.date /\ state.inProgress = RequestInProgress(n)
      /\ state.when = k.row.when /\ state.upTo = Len(demandes)
    BY <1>1, <1>3 DEF Reading, RegistryRow, RequestInProgress
<1> HIDE DEF state
<1>5. /\ DOMAIN read = DOMAIN k.read \cup {n} /\ read[n] = state
      /\ \A m \in DOMAIN k.read \ {n} : read[m] = k.read[m]
      /\ read \in [DOMAIN k.read \cup {n} -> Reading]
    BY <1>3, <1>4
<1>6. read \in Readings
    BY <1>3, <1>5 DEF Readings
<1> HIDE DEF read
<1>7. /\ call \in CallRow /\ call.pc = pc /\ call.in = k.in
      /\ call.sent = k.sent /\ call.verified = k.verified /\ call.read = read
    BY <1>1, <1>6 DEF CallRow, Phases
<1>8. pc \in {"insert", "row"} /\ (pc = "insert" => DOMAIN read = k.in.fleet)
    OBVIOUS
<1>9. calls'[c] = call
    BY <1>1 DEF Become
<1> HIDE DEF call, pc
<1>10. CallTyped(c)'
    BY <1>2, <1>5, <1>7, <1>8, <1>9 DEF CallTyped
<1>11. ASSUME NEW m \in DOMAIN read
       PROVE  /\ read[m].when <= now /\ read[m].upTo <= Len(demandes)
              /\ Holds(read[m], m, read[m].when)
              /\ ~ read[m].inProgress => FreeUpTo(m, read[m].upTo)
    <2>1. CASE m = n
        <3>1. read[m] = state
            BY <1>5, <2>1
        <3>2. k.row.when <= now /\ Holds(k.row.row, n, k.row.when)
            BY <1>1 DEF CallKnows
        <3>3. Holds(state, n, state.when)
            BY <1>4, <3>2 DEF Holds
        <3>4. ~ RequestInProgress(n) => FreeUpTo(n, Len(demandes))
            BY DEF RequestInProgress, FreeUpTo
        <3> QED  BY <1>1, <1>4, <2>1, <3>1, <3>2, <3>3, <3>4
    <2>2. CASE m \in DOMAIN k.read /\ m # n
        <3>1. read[m] = k.read[m]
            BY <1>5, <2>2
        <3> QED  BY <1>1, <2>2, <3>1 DEF CallKnows
    <2> QED  BY <1>5, <2>1, <2>2
<1>12. CallKnows(c)'
    BY <1>1, <1>7, <1>8, <1>9, <1>11, Knowing DEF CallKnows
<1> QED  BY <1>1, <1>7, <1>10, <1>12, Becoming

\* Every step leaves every call knowing what it relies on.
LEMMA CallSteps ==
    ASSUME Typed, \A d \in Calls : CallKnows(d), \A i \in Ids : PasswordSpent(i),
           [Next]_vars
    PROVE  CallsTyped' /\ \A d \in Calls : CallKnows(d)'
<1>1. CASE UNCHANGED calls
    <2>1. \A d \in Calls : calls'[d] = calls[d]
        BY <1>1
    <2>2. CallsTyped'
        BY <1>1, <2>1 DEF Typed, CallsTyped, CallTyped
    <2> QED  BY <2>1, <2>2, KnowledgeKept
<1>2. ASSUME NEW c \in Calls, NEW in \in Inputs, Receive(c, in)
      PROVE  CallsTyped' /\ \A d \in Calls : CallKnows(d)'
    <2>1. PICK pc \in {"verify", "row"} :
              /\ Become(c, Call(pc, in))
              /\ pc = "verify" => in.kind \in PasswordKinds
        BY <1>2 DEF Receive
    <2> QED  BY <2>1, Starting
<1>3. ASSUME NEW c \in Calls,
             \/ Leave(c) \/ IncrementAttempts(c)
             \/ CreateIndividual(c) \/ CreateEnterprise(c) \/ CreateRestitution(c)
             \/ SubmitReverse(c)
      PROVE  CallsTyped' /\ \A d \in Calls : CallKnows(d)'
    <2>1. Become(c, Call("idle", None))
        BY <1>3 DEF Leave, IncrementAttempts, CreateIndividual, CreateEnterprise,
                    CreateRestitution, SubmitReverse, Idle
    <2> QED  BY <2>1, Starting
<1>4. CASE \/ \E n \in Numbers : Send(n)
           \/ \E v \in ReverseIds : \/ ArtpValidates(v) \/ ArtpRejects(v)
                                    \/ WaitsTooLong(v) \/ AutoValidate(v)
           \/ OverdueForAutoValidation
           \/ \E op \in Purgers : ListPurge(op)
           \/ CommitPurge
           \/ Outcome
           \/ Elapse \/ UNCHANGED vars
    <2>1. UNCHANGED calls
        BY <1>4 DEF Send, ArtpValidates, ArtpRejects, WaitsTooLong, AutoValidate,
                    OverdueForAutoValidation, ListPurge, CommitPurge,
                    Outcome, TransferToRegistry, EndOfRequest, Withdraw, RejectNumbers, Elapse, vars
    <2> QED  BY <1>1, <2>1
<1> QED  BY <1>2, <1>3, <1>4, VerifyingTeaches, ReadingTeaches, LookingTeaches
         DEF Next, CallStep

\* Every step keeps the types.
LEMMA TypedSteps ==
    ASSUME Typed, \A d \in Calls : CallKnows(d), \A i \in Ids : PasswordSpent(i),
           [Next]_vars
    PROVE  Typed'
BY RegistrySteps, PasswordSteps, RequestSteps, ReverseSteps, CallSteps DEF Typed

-----------------------------------------------------------------------------
(***************************************************************************)
(* The reverse requests that were there age; one that was not was          *)
(* submitted.                                                              *)
(***************************************************************************)
LEMMA OldReverses ==
    ASSUME Typed, Aging \/ Submitted
    PROVE  \A v \in ReverseIds : v \in ReverseIds' /\ Ages(v)
<1>1. reverses \in Seq(ReverseRow)
    BY DEF Typed, ReversesTyped
<1>2. CASE Aging
    BY <1>2 DEF Aging
<1>3. CASE Submitted
    <2>1. PICK r \in ReverseRow : reverses' = Append(reverses, r)
        BY <1>3 DEF Submitted
    <2>2. \A v \in ReverseIds : v \in ReverseIds' /\ reverses'[v] = reverses[v]
        BY <1>1, <2>1, Appending DEF ReverseIds
    <2> QED  BY <2>2 DEF Ages, Pending
<1> QED  BY <1>2, <1>3

\* A reverse request in a new place was just submitted, while its number was
\* away.
LEMMA NewReverse ==
    ASSUME Typed, Aging \/ Submitted, NEW v \in ReverseIds', v \notin ReverseIds
    PROVE  /\ reverses'[v] \in ReverseRow /\ reverses'[v].status = "EN_ATTENTE"
           /\ reverses'[v].op = Origin[reverses'[v].msisdn]
           /\ \E c \in Calls :
                 LET n == reverses'[v].msisdn IN
                 /\ n \in DOMAIN calls[c].read
                 /\ calls[c].read[n].holder # reverses'[v].op
                 /\ reverses'[v].when = calls[c].read[n].when
           /\ UNCHANGED <<numero, now>>
<1>1. reverses \in Seq(ReverseRow)
    BY DEF Typed, ReversesTyped
<1>2. Submitted
    BY DEF Aging
<1>3. PICK c \in Calls, r \in ReverseRow :
          LET n == calls[c].in.msisdn IN
          /\ reverses' = Append(reverses, r)
          /\ r.status = "EN_ATTENTE" /\ r.msisdn = n
          /\ n \in DOMAIN calls[c].read
          /\ calls[c].read[n].holder # r.op /\ r.op = Origin[n]
          /\ r.when = calls[c].read[n].when
          /\ UNCHANGED <<numero, demandes, now>>
    BY <1>2 DEF Submitted
<1>4. reverses'[v] = r
    BY <1>1, <1>3, Appending DEF ReverseIds
<1> QED  BY <1>3, <1>4

\* The fields of what a request remembers of its creation.
LEMMA GhostsHave ==
    ASSUME NEW d \in DemandeRow
    PROVE  /\ d.ghosts.sent \in Nat /\ d.ghosts.verified \in Nat
           /\ \A n \in DOMAIN d.ghosts.read : /\ d.ghosts.read[n].when \in Nat
                                              /\ d.ghosts.read[n].upTo \in Nat
<1>1. d.ghosts \in GhostRow
    BY DEF DemandeRow
<1>2. d.ghosts.read \in GhostReads /\ d.ghosts.sent \in Nat /\ d.ghosts.verified \in Nat
    BY <1>1 DEF GhostRow
<1>3. PICK S \in SUBSET Numbers : d.ghosts.read \in [S -> [when : Nat, upTo : Nat]]
    BY <1>2 DEF GhostReads
<1>4. \A n \in S : d.ghosts.read[n] \in [when : Nat, upTo : Nat]
    BY <1>3
<1> QED  BY <1>2, <1>3, <1>4

-----------------------------------------------------------------------------
(***************************************************************************)
(* What a step is to the rest of the invariant.                            *)
(***************************************************************************)
Shape ==
    /\ RegistryShape
    /\ PasswordShape
    /\ Fading \/ Appended
    /\ Aging \/ Submitted

\* The shapes that every step has, together.
LEMMA Shaping ==
    ASSUME IInv, [Next]_vars
    PROVE  /\ Typed /\ Typed' /\ Shape
           /\ \A c \in Calls : CallKnows(c) /\ CallKnows(c)'
BY RegistrySteps, PasswordSteps, RequestSteps, ReverseSteps, CallSteps, TypedSteps
   DEF IInv, Shape

\* A number stays, or after the step it has moved since any instant of the past.
HasMoved(n, when) == numero'[n].date = None \/ numero'[n].date >= when

\* A number that has not moved since an instant did not move now either.
LEMMA Staying ==
    ASSUME Typed, RegistryShape, NEW n \in Numbers, NEW when \in Nat, when <= now,
           ~ HasMoved(n, when)
    PROVE  numero'[n] = numero[n] /\ ~ MovedSince(n, when) /\ now <= now'
BY RowsTyped DEF HasMoved, RegistryShape, MovedSince, Typed, RegistryTyped, RegistryRow

\* What a request still has to move stays where its source says, or moves.
LEMMA MayMoveKept ==
    ASSUME IInv, [Next]_vars, NEW i \in Ids'
    PROVE  MayMove(i)'
<1>1. /\ Typed /\ Typed' /\ Shape /\ demandes'[i] \in DemandeRow
      /\ now \in Nat /\ now' \in Nat /\ now <= now'
      /\ \A n \in Numbers : numero[n].date \in Nat \cup {None}
    <2>1. Typed /\ Typed' /\ Shape
        BY Shaping
    <2>2. demandes'[i] \in DemandeRow
        BY <2>1 DEF Typed, RequestsTyped, Ids
    <2> QED  BY <2>1, <2>2, RowsTyped
             DEF Typed, RegistryTyped, Shape, RegistryShape, RegistryRow
<1> DEFINE d == demandes'[i]
<1> SUFFICES ASSUME InProgress(i)', d.type # "REVERSE", ~ d.moved, NEW n \in d.active
             PROVE  /\ n \in DOMAIN d.ghosts.read
                    /\ d.ghosts.read[n].when <= now'
                    /\ \/ HasMoved(n, d.ghosts.read[n].when)
                       \/ /\ numero'[n].holder = d.source
                          /\ numero'[n].date # None =>
                                now' - numero'[n].date >= Delay(d.type)
    BY DEF MayMove, MovedSince, HasMoved
<1>2. n \in Numbers
    BY <1>1 DEF DemandeRow
<1>3. PortingDelay \in Nat /\ RestitutionDelay \in Nat /\ Delay(d.type) \in Nat
    BY Bounds DEF Delay
<1>4. CASE i \in Ids
    <2>1. /\ Fades(i) /\ demandes[i] \in DemandeRow /\ MayMove(i)
        BY <1>1, <1>4, OldRequests, RowsTyped DEF Shape, IInv
    <2>2. /\ InProgress(i) /\ d.type = demandes[i].type /\ ~ demandes[i].moved
          /\ n \in demandes[i].active /\ d.source = demandes[i].source
          /\ d.ghosts = demandes[i].ghosts
        BY <2>1 DEF Fades, InProgress, Present
    <2> DEFINE when == d.ghosts.read[n].when
    <2>3. /\ n \in DOMAIN d.ghosts.read /\ when <= now
          /\ \/ MovedSince(n, when)
             \/ /\ numero[n].holder = d.source
                /\ numero[n].date # None => now - numero[n].date >= Delay(d.type)
        BY <2>1, <2>2 DEF MayMove
    <2>4. when \in Nat
        BY <1>1, <2>3, GhostsHave
    <2> HIDE DEF when
    <2>5. CASE HasMoved(n, when)
        BY <1>1, <2>3, <2>4, <2>5 DEF when
    <2>6. CASE ~ HasMoved(n, when)
        <3>1. numero'[n] = numero[n] /\ ~ MovedSince(n, when)
            <4>1. Typed /\ RegistryShape
                BY <1>1 DEF Shape
            <4> QED  BY <1>2, <2>3, <2>4, <2>6, <4>1, Staying
        <3> QED  BY <1>1, <1>2, <1>3, <2>3, <2>4, <3>1 DEF when
    <2> QED  BY <2>5, <2>6
<1>5. CASE i \notin Ids
    <2>1. PICK c \in Calls : Opened(c, d)
        BY <1>1, <1>5, NewRequest DEF Shape, Validated
    <2> DEFINE k == calls[c]
    <2>2. /\ d.ghosts = GhostsOf(k) /\ n \in DOMAIN k.read
          /\ k.read[n].holder = d.source
          /\ k.read[n].date # None => now - k.read[n].date >= Delay(d.type)
          /\ numero' = numero /\ now' = now
        BY <2>1 DEF Opened
    <2>3. k.read[n].when <= now /\ Holds(k.read[n], n, k.read[n].when)
        BY <2>2, Shaping DEF CallKnows
    <2>4. n \in DOMAIN d.ghosts.read /\ d.ghosts.read[n].when = k.read[n].when
        BY <1>1, <2>2, GhostsTyped
    <2> QED  BY <2>2, <2>3, <2>4 DEF Holds, MovedSince, HasMoved
<1> QED  BY <1>4, <1>5

\* The password that opened a request stays consumed while it is stored.
LEMMA PasswordSpentKept ==
    ASSUME IInv, [Next]_vars, NEW i \in Ids'
    PROVE  PasswordSpent(i)'
<1>1. /\ Typed /\ Typed' /\ Shape /\ demandes'[i] \in DemandeRow
      /\ sends \in Nat /\ sends' \in Nat /\ sends <= sends'
    <2>1. Typed /\ Typed' /\ Shape
        BY Shaping
    <2>2. demandes'[i] \in DemandeRow
        BY <2>1 DEF Typed, RequestsTyped, Ids
    <2> QED  BY <2>1, <2>2 DEF Typed, PasswordsTyped, Shape, PasswordShape
<1> DEFINE d == demandes'[i]
<1>2. d.msisdn \in Numbers /\ d.ghosts.sent \in Nat
    BY <1>1, GhostsHave DEF DemandeRow
<1>3. CASE i \in Ids
    <2>1. /\ Fades(i) /\ PasswordSpent(i)
        BY <1>1, <1>3, OldRequests DEF Shape, IInv
    <2>2. /\ d.msisdn = demandes[i].msisdn
          /\ d.ghosts = demandes[i].ghosts \/ d.ghosts.sent = 0
        BY <2>1 DEF Fades
    <2>3. CASE d.ghosts.sent = 0
        BY <1>1, <2>3 DEF PasswordSpent
    <2>4. CASE d.ghosts = demandes[i].ghosts
        <3>1. /\ d.ghosts.sent <= sends
              /\ d.ghosts.sent > 0 /\ otp[d.msisdn].sent = d.ghosts.sent =>
                    otp[d.msisdn].consumed
            BY <2>1, <2>2, <2>4 DEF PasswordSpent
        <3>2. \/ otp'[d.msisdn].sent = 0
              \/ otp'[d.msisdn].sent > sends
              \/ /\ otp'[d.msisdn].sent = otp[d.msisdn].sent
                 /\ otp[d.msisdn].consumed => otp'[d.msisdn].consumed
            BY <1>1, <1>2 DEF Shape, PasswordShape
        <3> QED  BY <1>1, <1>2, <3>1, <3>2 DEF PasswordSpent
    <2> QED  BY <2>2, <2>3, <2>4
<1>4. CASE i \notin Ids
    <2>1. \/ \E c \in Calls : Opened(c, d)
          \/ \E v \in ReverseIds : Validated(v, d)
        BY <1>1, <1>4, NewRequest DEF Shape
    <2>2. CASE \E v \in ReverseIds : Validated(v, d)
        <3>1. d.ghosts.sent = 0
            BY <2>2 DEF Validated, Ghosts
        <3> QED  BY <1>1, <3>1 DEF PasswordSpent
    <2>3. ASSUME NEW c \in Calls, Opened(c, d)
          PROVE  PasswordSpent(i)'
        <3> DEFINE k == calls[c]
        <3>1. /\ d.msisdn = k.in.msisdn /\ d.ghosts.sent = k.sent
              /\ k.in.kind \in {"individual", "enterprise"} => Consume(d.msisdn)
              /\ sends' = sends
            BY <1>1, <2>3, GhostsTyped DEF Opened
        <3>2. /\ k.sent <= sends
              /\ k.sent > 0 => k.in.kind \in {"individual", "enterprise"}
            BY Shaping DEF CallKnows
        <3>3. otp \in [Numbers -> PasswordRow] /\ otp[d.msisdn].sent \in Nat
            BY <1>1, <1>2, RowsTyped DEF Typed, PasswordsTyped, PasswordRow
        <3>4. ASSUME Consume(d.msisdn)
              PROVE  otp'[d.msisdn].consumed \/ otp'[d.msisdn].sent = 0
            BY <1>2, <3>3, <3>4 DEF Consume, Stored, PasswordRow
        <3> QED  BY <3>1, <3>2, <3>4 DEF PasswordSpent
    <2> QED  BY <2>1, <2>2, <2>3
<1> QED  BY <1>3, <1>4

\* A REVERSE request keeps its reverse request.
LEMMA ReverseKnownKept ==
    ASSUME IInv, [Next]_vars, NEW i \in Ids'
    PROVE  ReverseKnown(i)'
<1>1. Typed /\ Shape
    BY Shaping
<1> DEFINE d == demandes'[i]
<1> SUFFICES ASSUME d.type = "REVERSE", Present(i)'
             PROVE  /\ d.ghosts.reverse \in ReverseIds'
                    /\ reverses'[d.ghosts.reverse].msisdn = d.msisdn
                    /\ reverses'[d.ghosts.reverse].op = d.recipient
    BY DEF ReverseKnown
<1>2. CASE i \in Ids
    <2>1. /\ Fades(i) /\ ReverseKnown(i)
        BY <1>1, <1>2, OldRequests DEF Shape, IInv
    <2>2. /\ d.msisdn = demandes[i].msisdn /\ d.ghosts = demandes[i].ghosts
          /\ d.recipient = demandes[i].recipient
          /\ demandes[i].type = "REVERSE" /\ Present(i)
        BY <2>1 DEF Fades
    <2>3. /\ d.ghosts.reverse \in ReverseIds
          /\ reverses[d.ghosts.reverse].msisdn = d.msisdn
          /\ reverses[d.ghosts.reverse].op = d.recipient
        BY <2>1, <2>2 DEF ReverseKnown
    <2> QED  BY <1>1, <2>3, OldReverses DEF Shape, Ages
<1>3. CASE i \notin Ids
    <2>1. PICK v \in ReverseIds : Validated(v, d)
        BY <1>1, <1>3, NewRequest DEF Shape, Opened
    <2>2. /\ d.ghosts.reverse = v /\ d.msisdn = reverses[v].msisdn
          /\ d.recipient = reverses[v].op
        BY <2>1 DEF Validated, Ghosts
    <2>3. v \in ReverseIds' /\ Ages(v)
        BY <1>1, OldReverses DEF Shape
    <2> QED  BY <2>2, <2>3 DEF Ages
<1> QED  BY <1>2, <1>3

\* A pending reverse request was submitted while the number was away.
LEMMA SubmittedAwayKept ==
    ASSUME IInv, [Next]_vars, NEW v \in ReverseIds'
    PROVE  SubmittedAway(v)'
<1>1. Typed /\ Typed' /\ Shape /\ RegistryShape
    BY Shaping DEF Shape
<1> DEFINE r == reverses'[v]
<1> SUFFICES ASSUME Pending(v)'
             PROVE  HasMoved(r.msisdn, r.when) \/ numero'[r.msisdn].holder # r.op
    BY DEF SubmittedAway, MovedSince, HasMoved
<1>2. r.msisdn \in Numbers /\ r.when \in Nat
    <2>1. r \in ReverseRow
        BY <1>1 DEF Typed, ReversesTyped, ReverseIds
    <2> QED  BY <2>1 DEF ReverseRow
<1>3. CASE v \in ReverseIds
    <2>1. Ages(v) /\ SubmittedAway(v) /\ reverses[v].when <= now
        BY <1>1, <1>3, OldReverses DEF Shape, IInv, Typed, ReversesTyped
    <2>2. /\ r.msisdn = reverses[v].msisdn /\ r.op = reverses[v].op
          /\ r.when = reverses[v].when /\ Pending(v)
        BY <2>1 DEF Ages, Pending
    <2>3. MovedSince(r.msisdn, r.when) \/ numero[r.msisdn].holder # r.op
        BY <2>1, <2>2 DEF SubmittedAway
    <2>4. HasMoved(r.msisdn, r.when)
          \/ (numero'[r.msisdn] = numero[r.msisdn] /\ ~ MovedSince(r.msisdn, r.when))
        BY <1>1, <1>2, <2>1, <2>2, Staying
    <2> QED  BY <2>3, <2>4
<1>4. CASE v \notin ReverseIds
    <2>1. PICK c \in Calls :
              /\ r.msisdn \in DOMAIN calls[c].read
              /\ calls[c].read[r.msisdn].holder # r.op
              /\ r.when = calls[c].read[r.msisdn].when
              /\ numero' = numero
        BY <1>1, <1>4, NewReverse DEF Shape
    <2>2. Holds(calls[c].read[r.msisdn], r.msisdn, r.when)
        BY <2>1, Shaping DEF CallKnows
    <2> QED  BY <2>1, <2>2 DEF Holds, MovedSince, HasMoved
<1> QED  BY <1>3, <1>4

\* A second request for a number was created by a call that had not looked
\* since the first.
LEMMA OneRequestPerNumberKept ==
    ASSUME IInv, [Next]_vars
    PROVE  OneRequestPerNumber'
<1>1. Typed /\ Typed' /\ Shape
    BY Shaping
<1>2. /\ Ids = 1..Len(demandes) /\ Ids' \subseteq Ids \cup {Len(demandes) + 1}
      /\ Len(demandes) \in Nat
    BY <1>1, RequestsGrow DEF Shape
<1> SUFFICES ASSUME NEW q \in Ids', NEW p \in 1..(q - 1), NEW n \in Numbers,
                    Retains(p, n)', demandes'[p].type # "REVERSE",
                    Retains(q, n)', demandes'[q].type # "REVERSE"
             PROVE  p > demandes'[q].ghosts.read[n].upTo
    BY DEF OneRequestPerNumber
<1>3. p \in Ids /\ p < q /\ p \in Nat
    BY <1>2
<1>4. /\ Retains(p, n) /\ demandes[p].type # "REVERSE"
    <2>1. Fades(p)
        BY <1>1, <1>3, OldRequests DEF Shape
    <2> QED  BY <2>1 DEF Fades, Retains, InProgress
<1>5. CASE q \in Ids
    <2>1. Fades(q)
        BY <1>1, <1>5, OldRequests DEF Shape
    <2>2. /\ Retains(q, n) /\ demandes[q].type # "REVERSE"
          /\ demandes'[q].ghosts = demandes[q].ghosts
        BY <2>1 DEF Fades, Retains, InProgress, Present
    <2> QED  BY <1>4, <1>5, <2>2 DEF OneRequestPerNumber, IInv
<1>6. CASE q \notin Ids
    <2>1. PICK c \in Calls : Opened(c, demandes'[q])
        BY <1>1, <1>6, NewRequest DEF Shape, Validated
    <2> DEFINE k == calls[c]
    <2>2. n \in DOMAIN k.read /\ ~ k.read[n].inProgress
        BY <2>1 DEF Opened, Retains
    <2>3. /\ FreeUpTo(n, k.read[n].upTo) /\ k.read[n].upTo \in Nat
        BY <1>1, <2>2, Shaping, CallHas DEF CallKnows
    <2>4. demandes'[q].ghosts.read[n].upTo = k.read[n].upTo
        BY <1>1, <2>1, <2>2, GhostsTyped DEF Opened
    <2> QED  BY <1>3, <1>4, <2>3, <2>4 DEF FreeUpTo
<1> QED  BY <1>5, <1>6

\* A second request for a password was opened by a call that had verified it
\* before the first.
LEMMA OnePasswordOneRequestKept ==
    ASSUME IInv, [Next]_vars
    PROVE  OnePasswordOneRequest'
<1>1. Typed /\ Typed' /\ Shape
    BY Shaping
<1>2. /\ Ids = 1..Len(demandes) /\ Ids' \subseteq Ids \cup {Len(demandes) + 1}
      /\ Len(demandes) \in Nat
    BY <1>1, RequestsGrow DEF Shape
<1> SUFFICES ASSUME NEW q \in Ids', NEW p \in 1..(q - 1),
                    demandes'[p].ghosts.sent > 0,
                    demandes'[p].ghosts.sent = demandes'[q].ghosts.sent,
                    demandes'[p].msisdn = demandes'[q].msisdn
             PROVE  p > demandes'[q].ghosts.verified
    BY DEF OnePasswordOneRequest
<1>3. p \in Ids /\ p < q /\ p \in Nat
    BY <1>2
<1>4. ASSUME NEW i \in Ids, demandes'[i].ghosts.sent > 0
      PROVE  /\ demandes'[i].ghosts = demandes[i].ghosts
             /\ demandes'[i].msisdn = demandes[i].msisdn
    BY <1>1, <1>4, OldRequests DEF Shape, Fades
<1>5. CASE q \in Ids
    <2>1. /\ demandes'[p].ghosts = demandes[p].ghosts
          /\ demandes'[p].msisdn = demandes[p].msisdn
          /\ demandes'[q].ghosts = demandes[q].ghosts
          /\ demandes'[q].msisdn = demandes[q].msisdn
        BY <1>3, <1>4, <1>5
    <2>2. OnePasswordOneRequest
        BY DEF IInv
    <2> QED  BY <1>5, <2>1, <2>2 DEF OnePasswordOneRequest
<1>6. CASE q \notin Ids
    <2>1. PICK c \in Calls : Opened(c, demandes'[q])
        <3>1. \A v \in ReverseIds : Validated(v, demandes'[q]) =>
                  demandes'[q].ghosts.sent = 0
            BY DEF Validated, Ghosts
        <3>2. demandes'[q].ghosts.sent > 0
            OBVIOUS
        <3>3. \A v \in ReverseIds : ~ Validated(v, demandes'[q])
            BY <3>1, <3>2
        <3> QED  BY <1>1, <1>6, <3>3, NewRequest DEF Shape
    <2> DEFINE k == calls[c]
    <2>2. /\ demandes'[q].msisdn = k.in.msisdn
          /\ demandes'[q].ghosts.sent = k.sent
          /\ demandes'[q].ghosts.verified = k.verified
        BY <1>1, <2>1, GhostsTyped DEF Opened
    <2>3. UnusedUpTo(k.sent, k.in.msisdn, k.verified) /\ k.verified \in Nat
        BY <1>1, <2>2, Shaping, CallHas DEF CallKnows
    <2>4. demandes[p].ghosts.sent = k.sent /\ demandes[p].msisdn = k.in.msisdn
        BY <1>3, <1>4, <2>2
    <2> QED  BY <1>3, <2>2, <2>3, <2>4 DEF UnusedUpTo
<1> QED  BY <1>5, <1>6

\* A validation's request and its reverse request name each other.
LEMMA ValidatedRows ==
    ASSUME Typed, NEW v \in ReverseIds, NEW d, Validated(v, d)
    PROVE  /\ reverses'[v].request = Len(demandes) + 1 /\ reverses'[v].status = "VALIDE"
           /\ d.ghosts.reverse = v /\ d.status = "EN_COURS"
           /\ Pending(v) /\ d.msisdn = reverses[v].msisdn
           /\ d.source = numero[d.msisdn].holder /\ d.recipient = reverses[v].op
<1>1. /\ reverses \in Seq(ReverseRow) /\ reverses[v] \in ReverseRow
      /\ Len(demandes) + 1 \in Nat
    <2>1. demandes \in Seq(DemandeRow)
        BY DEF Typed, RequestsTyped
    <2> QED  BY <2>1, RowsTyped DEF Typed, ReversesTyped
<1> DEFINE r == Decided(reverses[v], Len(demandes) + 1)
<1>2. reverses' = [reverses EXCEPT ![v] = r]
    BY <1>1 DEF Validated, Decided
<1>3. r.request = Len(demandes) + 1 /\ r.status = "VALIDE"
    BY <1>1, ReverseRows
<1> HIDE DEF r
<1>4. reverses'[v] = r
    BY <1>1, <1>2 DEF ReverseIds
<1>5. d.ghosts.reverse = v
    BY DEF Validated, Ghosts
<1> QED  BY <1>3, <1>4, <1>5 DEF Validated

\* No step breaks the pairs of reverse requests and REVERSE requests.
LEMMA OneRequestPerReverseKept ==
    ASSUME IInv, [Next]_vars
    PROVE  OneRequestPerReverse'
<1>1. Typed /\ Typed' /\ Shape /\ OneRequestPerReverse
    BY Shaping DEF IInv
<1>2. /\ demandes \in Seq(DemandeRow) /\ Len(demandes) \in Nat
      /\ reverses \in Seq(ReverseRow)
      /\ \A v \in ReverseIds : reverses[v] \in ReverseRow
    BY <1>1, RequestsGrow, RowsTyped DEF Shape, Typed, RequestsTyped, ReversesTyped
<1>3. \A v \in ReverseIds : v \in ReverseIds' /\ Ages(v)
    BY <1>1, OldReverses DEF Shape
<1>4. \A i \in Ids : i \in Ids' /\ Fades(i)
    BY <1>1, OldRequests DEF Shape
<1>5. ASSUME NEW v \in ReverseIds', reverses'[v].status = "VALIDE"
      PROVE  /\ reverses'[v].request \in Ids'
             /\ demandes'[reverses'[v].request].status # "ABSENT"
             /\ demandes'[reverses'[v].request].ghosts.reverse = v
    <2>1. v \in ReverseIds
        BY <1>1, <1>5, NewReverse DEF Shape
    <2>2. CASE reverses[v].status = "VALIDE"
        <3>1. PICK i \in Ids : /\ i = reverses[v].request
                               /\ Present(i) /\ demandes[i].ghosts.reverse = v
            BY <1>1, <2>1, <2>2 DEF OneRequestPerReverse
        <3>2. reverses'[v].request = i
            BY <1>3, <2>1, <2>2, <3>1 DEF Ages
        <3>3. CASE Present(i)'
            BY <1>4, <3>1, <3>2, <3>3 DEF Fades, Present
        <3>4. CASE ~ Present(i)'
            <4>1. i \in purge.ids /\ DeleteReverseRequests(purge.op, purge.ids)
                BY <1>4, <3>1, <3>4 DEF Fades
            <4>2. reverses'[v] = Deleted(reverses[v])
                BY <2>1, <2>2, <3>1, <4>1 DEF DeleteReverseRequests, Deleted
            <4> QED  BY <1>2, <1>5, <2>1, <4>2, ReverseRows, 0 \in Nat
        <3> QED  BY <3>3, <3>4
    <2>3. CASE Validation(v)
        <3>1. PICK d \in DemandeRow : demandes' = Append(demandes, d) /\ Validated(v, d)
            BY <2>3 DEF Validation
        <3>2. /\ reverses'[v].request = Len(demandes) + 1
              /\ d.status = "EN_COURS" /\ d.ghosts.reverse = v
            BY <1>1, <2>1, <3>1, ValidatedRows
        <3> QED  BY <1>2, <3>1, <3>2, Appending DEF Ids
    <2> QED  BY <1>3, <1>5, <2>1, <2>2, <2>3 DEF Ages
<1>6. ASSUME NEW i \in Ids', demandes'[i].type = "REVERSE", Present(i)'
      PROVE  /\ reverses'[demandes'[i].ghosts.reverse].status \in {"VALIDE", "ABSENT"}
             /\ reverses'[demandes'[i].ghosts.reverse].request = i
    <2>1. CASE i \in Ids
        <3>1. /\ Present(i) /\ demandes[i].type = "REVERSE"
              /\ demandes'[i].ghosts = demandes[i].ghosts
            BY <1>4, <1>6, <2>1 DEF Fades
        <3>2. PICK v \in ReverseIds : v = demandes[i].ghosts.reverse
            BY <2>1, <3>1 DEF IInv, ReverseKnown
        <3>3. reverses[v].status \in {"VALIDE", "ABSENT"} /\ reverses[v].request = i
            BY <1>1, <2>1, <3>1, <3>2 DEF OneRequestPerReverse
        <3>4. reverses'[v].request = i /\ reverses'[v].status \in {"VALIDE", "ABSENT"}
            BY <1>3, <3>3 DEF Ages
        <3> QED  BY <3>1, <3>2, <3>4
    <2>2. CASE i \notin Ids
        <3>1. i = Len(demandes) + 1
            BY <1>1, <2>2, NewRequest DEF Shape
        <3>2. PICK v \in ReverseIds : Validated(v, demandes'[i])
            BY <1>1, <1>6, <2>2, NewRequest DEF Shape, Opened
        <3> QED  BY <1>1, <3>1, <3>2, ValidatedRows
    <2> QED  BY <2>1, <2>2
<1> QED  BY <1>5, <1>6 DEF OneRequestPerReverse, Present

\* A REVERSE that starts from home is of a number that came home since its
\* submission.
LEMMA ReverseOfNumberAwayKept ==
    ASSUME IInv, [Next]_vars
    PROVE  ReverseOfNumberAway'
<1>1. Typed /\ Typed' /\ Shape /\ RegistryShape
    BY Shaping DEF Shape
<1> SUFFICES ASSUME NEW i \in Ids', demandes'[i].type = "REVERSE", InProgress(i)',
                    demandes'[i].source = demandes'[i].recipient
             PROVE  HasMoved(demandes'[i].msisdn,
                             reverses'[demandes'[i].ghosts.reverse].when)
    BY DEF ReverseOfNumberAway, HasMoved
<1> DEFINE d == demandes'[i]
<1>2. ASSUME NEW v \in ReverseIds, reverses[v].msisdn = d.msisdn
      PROVE  /\ Ages(v) /\ d.msisdn \in Numbers
             /\ reverses[v].when \in Nat /\ reverses[v].when <= now
             /\ reverses'[v].when \in {reverses[v].when, 0}
    <2>1. reverses[v] \in ReverseRow /\ Ages(v)
        BY <1>1, OldReverses, RowsTyped DEF Shape
    <2> QED  BY <1>1, <1>2, <2>1 DEF Typed, ReversesTyped, ReverseRow, Ages
<1>3. ASSUME NEW v \in ReverseIds, reverses[v].msisdn = d.msisdn,
             MovedSince(d.msisdn, reverses[v].when)
      PROVE  HasMoved(d.msisdn, reverses'[v].when)
    <2>1. /\ d.msisdn \in Numbers /\ reverses[v].when \in Nat /\ reverses[v].when <= now
          /\ reverses'[v].when \in {reverses[v].when, 0}
        BY <1>2, <1>3
    <2>2. HasMoved(d.msisdn, reverses[v].when)
        BY <1>1, <1>3, <2>1, Staying
    <2>3. numero'[d.msisdn].date \in Nat \cup {None}
        BY <1>1, <2>1 DEF Typed, RegistryTyped, RegistryRow
    <2> QED  BY <2>1, <2>2, <2>3 DEF HasMoved
<1>4. CASE i \in Ids
    <2>1. Fades(i)
        BY <1>1, <1>4, OldRequests DEF Shape
    <2>2. /\ demandes[i].type = "REVERSE" /\ InProgress(i)
          /\ demandes[i].source = demandes[i].recipient
          /\ d.msisdn = demandes[i].msisdn /\ d.ghosts = demandes[i].ghosts
        BY <2>1 DEF Fades, InProgress, Present
    <2>3. PICK v \in ReverseIds : /\ v = demandes[i].ghosts.reverse
                                  /\ reverses[v].msisdn = d.msisdn
        BY <1>4, <2>2 DEF IInv, ReverseKnown, InProgress, Present
    <2>4. MovedSince(d.msisdn, reverses[v].when)
        BY <1>4, <2>2, <2>3 DEF IInv, ReverseOfNumberAway, MovedSince
    <2> QED  BY <1>3, <2>2, <2>3, <2>4
<1>5. CASE i \notin Ids
    <2>1. PICK v \in ReverseIds : Validated(v, d)
        BY <1>1, <1>5, NewRequest DEF Shape, Opened
    <2>2. /\ Pending(v) /\ d.ghosts.reverse = v /\ d.msisdn = reverses[v].msisdn
          /\ numero[d.msisdn].holder = reverses[v].op
        <3>1. /\ Pending(v) /\ d.ghosts.reverse = v /\ d.msisdn = reverses[v].msisdn
              /\ d.source = numero[d.msisdn].holder /\ d.recipient = reverses[v].op
            BY <1>1, <2>1, ValidatedRows
        <3>2. d.source = d.recipient
            OBVIOUS
        <3> QED  BY <3>1, <3>2
    <2>3. MovedSince(d.msisdn, reverses[v].when)
        BY <2>2 DEF IInv, SubmittedAway
    <2> QED  BY <1>3, <2>2, <2>3
<1> QED  BY <1>4, <1>5

-----------------------------------------------------------------------------
(***************************************************************************)
(* The invariant is one.                                                   *)
(***************************************************************************)
LEMMA InitIInv == Init => IInv
<1> SUFFICES ASSUME Init
             PROVE  IInv
    OBVIOUS
<1>1. Ids = {} /\ ReverseIds = {} /\ Len(demandes) = 0
    BY DEF Init, Ids, ReverseIds
<1>2. RegistryTyped
    BY Bounds, IntakeAssumption DEF Init, RegistryTyped
<1>3. PasswordsTyped
    BY Bounds DEF Init, PasswordsTyped, NoPassword, Password, PasswordRow
<1>4. RequestsTyped
    BY <1>1 DEF Init, RequestsTyped
<1>5. ReversesTyped
    BY <1>1 DEF Init, ReversesTyped, NoPurge
<1>6. Idle \in CallRow /\ Idle.pc = "idle" /\ Idle.sent = 0 /\ Idle.verified = 0
      /\ Idle.read = NoRead
    BY NothingRead DEF Idle, Call, CallRow, Phases
<1>7. \A c \in Calls : calls[c] = Idle
    BY DEF Init
<1>8. CallsTyped
    BY <1>6, <1>7 DEF Init, CallsTyped, CallTyped
<1>9. \A c \in Calls : CallKnows(c)
    BY <1>1, <1>3, <1>6, <1>7, NothingRead DEF CallKnows, PasswordsTyped
<1>10. /\ OneRequestPerNumber /\ OnePasswordOneRequest /\ OneRequestPerReverse
       /\ ReverseOfNumberAway
    BY <1>1 DEF OneRequestPerNumber, OnePasswordOneRequest, OneRequestPerReverse,
                ReverseOfNumberAway
<1> QED  BY <1>1, <1>2, <1>3, <1>4, <1>5, <1>8, <1>9, <1>10 DEF IInv, Typed

\* The invariant is inductive.
LEMMA IInvIsInductive == IInv /\ [Next]_vars => IInv'
<1> SUFFICES ASSUME IInv, [Next]_vars
             PROVE  IInv'
    OBVIOUS
<1>1. Typed' /\ \A c \in Calls : CallKnows(c)'
    BY Shaping
<1>2. \A i \in Ids' : MayMove(i)' /\ PasswordSpent(i)' /\ ReverseKnown(i)'
    BY MayMoveKept, PasswordSpentKept, ReverseKnownKept
<1>3. \A v \in ReverseIds' : SubmittedAway(v)'
    BY SubmittedAwayKept
<1> QED  BY <1>1, <1>2, <1>3, OneRequestPerNumberKept, OnePasswordOneRequestKept,
            OneRequestPerReverseKept, ReverseOfNumberAwayKept DEF IInv

\* Hence it holds of every reachable state.
LEMMA IInvHolds == Spec => []IInv
BY InitIInv, IInvIsInductive, PTL DEF Spec

-----------------------------------------------------------------------------
(***************************************************************************)
(* Wrong codes: the attempts counted, and the calls that are about to      *)
(* count one.                                                              *)
(***************************************************************************)
Guessing(n) == {c \in Calls : At(c, "increment") /\ calls[c].in.msisdn = n}

Bounded(n) ==
    /\ otp[n].attempts + Cardinality(Guessing(n)) < OTPMaxAttempts + Cardinality(Calls)
    /\ Guessing(n) # {} => OTPMaxAttempts > 0

BInv == \A n \in Numbers : Bounded(n)

\* Sets of calls are finite, and losing a call makes them smaller by one.
LEMMA Guesses ==
    ASSUME NEW T, T \subseteq Calls
    PROVE  /\ IsFiniteSet(T) /\ Cardinality(T) \in Nat
           /\ Cardinality(Calls) \in Nat /\ Cardinality(Calls) > 0
           /\ Cardinality(T) <= Cardinality(Calls)
           /\ \A S \in SUBSET T : Cardinality(S) <= Cardinality(T) /\ Cardinality(S) \in Nat
           /\ \A c \in T : Cardinality(T \ {c}) = Cardinality(T) - 1
<1>1. IsFiniteSet(T) /\ Cardinality(T) <= Cardinality(Calls)
    BY CallsAssumption, FS_Subset
<1>2. Cardinality(T) \in Nat /\ Cardinality(Calls) \in Nat
    BY <1>1, CallsAssumption, FS_CardinalityType
<1>3. Cardinality(Calls) # 0
    BY CallsAssumption, FS_EmptySet
<1>4. \A S \in SUBSET T : Cardinality(S) <= Cardinality(T) /\ Cardinality(S) \in Nat
    BY <1>1, FS_Subset, FS_CardinalityType
<1>5. \A c \in T : Cardinality(T \ {c}) = Cardinality(T) - 1
    BY <1>1, FS_RemoveElement
<1> QED  BY <1>1, <1>2, <1>3, <1>4, <1>5

\* No more attempts, and no more calls about to count one.
LEMMA FewerGuesses ==
    ASSUME Typed, Typed', NEW n \in Numbers, Bounded(n),
           Guessing(n)' \subseteq Guessing(n),
           otp'[n].attempts \in {otp[n].attempts, 0}
    PROVE  Bounded(n)'
<1>1. otp[n].attempts \in Nat /\ OTPMaxAttempts \in Nat
    BY RowsTyped, Bounds DEF PasswordRow
<1>2. Guessing(n) \subseteq Calls
    BY DEF Guessing
<1>3. /\ Cardinality(Guessing(n)) \in Nat /\ Cardinality(Guessing(n)') \in Nat
      /\ Cardinality(Guessing(n)') <= Cardinality(Guessing(n))
      /\ Cardinality(Calls) \in Nat
    BY <1>2, Guesses
<1> QED  BY <1>1, <1>3 DEF Bounded

\* A call that is not about to count an attempt adds none.
LEMMA NoGuess ==
    ASSUME Typed, NEW n \in Numbers, NEW c \in Calls, NEW call, Become(c, call),
           call.pc # "increment"
    PROVE  Guessing(n)' \subseteq Guessing(n)
<1>1. calls'[c] = call /\ \A d \in Calls \ {c} : calls'[d] = calls[d]
    BY DEF Typed, CallsTyped, Become
<1> QED  BY <1>1 DEF Guessing, At

\* The passwords' attempts, when no attempt is counted.
LEMMA AttemptsKept ==
    ASSUME Typed, NEW n \in Numbers, NEW m \in Numbers,
           \/ UNCHANGED otp
           \/ Consume(m)
           \/ Send(m)
           \/ DeleteOTP(purge.numbers)
    PROVE  otp'[n].attempts \in {otp[n].attempts, 0}
<1>1. otp \in [Numbers -> PasswordRow] /\ otp[n] \in PasswordRow /\ otp[m] \in PasswordRow
    BY RowsTyped DEF Typed, PasswordsTyped
<1>2. CASE Consume(m)
    <2>1. [otp[m] EXCEPT !.consumed = TRUE].attempts = otp[m].attempts
        BY <1>1 DEF PasswordRow
    <2>2. otp' = otp \/ otp' = [otp EXCEPT ![m] = [otp[m] EXCEPT !.consumed = TRUE]]
        BY <1>2 DEF Consume
    <2> QED  BY <1>1, <2>1, <2>2
<1>3. CASE Send(m)
    BY <1>1, <1>3 DEF Send, Password
<1>4. CASE DeleteOTP(purge.numbers)
    BY <1>1, <1>4 DEF DeleteOTP, NoPassword, Password
<1> QED  BY <1>2, <1>3, <1>4

\* A wrong code moves a call from those about to count to those counted.
LEMMA BoundedKept ==
    ASSUME Typed, Typed', BInv, [Next]_vars, NEW n \in Numbers
    PROVE  Bounded(n)'
<1>1. Bounded(n)
    BY DEF BInv
<1>2. ASSUME NEW c \in Calls, NEW call, Become(c, call), call.pc # "increment",
             UNCHANGED otp \/ \E m \in Numbers : Consume(m)
      PROVE  Bounded(n)'
    <2>1. Guessing(n)' \subseteq Guessing(n)
        BY <1>2, NoGuess
    <2>2. otp'[n].attempts \in {otp[n].attempts, 0}
        BY <1>2, AttemptsKept
    <2> QED  BY <1>1, <2>1, <2>2, FewerGuesses
<1>3. ASSUME UNCHANGED calls,
             UNCHANGED otp \/ DeleteOTP(purge.numbers) \/ \E m \in Numbers : Send(m)
      PROVE  Bounded(n)'
    <2>1. Guessing(n)' \subseteq Guessing(n)
        BY <1>3 DEF Guessing, At
    <2>2. otp'[n].attempts \in {otp[n].attempts, 0}
        BY <1>3, AttemptsKept
    <2> QED  BY <1>1, <2>1, <2>2, FewerGuesses
<1>4. Idle.pc = "idle" /\ \A pc, in : Call(pc, in).pc = pc
    BY DEF Idle, Call
<1>5. ASSUME NEW c \in Calls, NEW in \in Inputs, Receive(c, in)
      PROVE  Bounded(n)'
    <2>1. PICK pc \in {"verify", "row"} : Become(c, Call(pc, in)) /\ UNCHANGED otp
        BY <1>5 DEF Receive
    <2> QED  BY <1>2, <1>4, <2>1
<1>6. ASSUME NEW c \in Calls,
             \/ Leave(c) \/ CreateIndividual(c) \/ CreateEnterprise(c)
             \/ CreateRestitution(c) \/ SubmitReverse(c)
      PROVE  Bounded(n)'
    <2>1. Become(c, Idle)
        BY <1>6 DEF Leave, CreateIndividual, CreateEnterprise, CreateRestitution,
                    SubmitReverse
    <2>2. UNCHANGED otp \/ \E m \in Numbers : Consume(m)
        <3>1. CASE CreateIndividual(c) \/ CreateEnterprise(c)
            <4>1. calls[c].in.msisdn \in Numbers
                BY <3>1, RowsTyped, IntakeAssumption
                   DEF CreateIndividual, CreateEnterprise, At, CallTyped, InputRow
            <4> QED  BY <3>1, <4>1 DEF CreateIndividual, CreateEnterprise
        <3> QED  BY <1>6, <3>1 DEF Leave, CreateRestitution, SubmitReverse
    <2> QED  BY <1>2, <1>4, <2>1, <2>2
<1>7. ASSUME NEW c \in Calls, Verify(c)
      PROVE  Bounded(n)'
    <2> DEFINE k == calls[c]
    <2>1. k \in CallRow /\ UNCHANGED otp /\ Usable(k.in.msisdn)
        BY <1>7, RowsTyped DEF Verify
    <2>2. CASE Become(c, [k EXCEPT !.pc = "row", !.sent = otp[k.in.msisdn].sent,
                                   !.verified = Len(demandes)])
        <3> DEFINE call == [k EXCEPT !.pc = "row", !.sent = otp[k.in.msisdn].sent,
                                     !.verified = Len(demandes)]
        <3>1. call.pc = "row"
            BY <2>1 DEF CallRow
        <3> HIDE DEF call
        <3> QED  BY <1>2, <2>1, <2>2, <3>1 DEF call
    <2>3. CASE Become(c, [k EXCEPT !.pc = "increment"])
        <3>1. calls \in [Calls -> CallRow]
            BY DEF Typed, CallsTyped
        <3>2. /\ calls'[c].in = k.in
              /\ \A d \in Calls \ {c} : calls'[d] = calls[d]
            BY <2>1, <2>3, <3>1 DEF Become, CallRow
        <3>3. CASE k.in.msisdn = n
            <4>1. otp'[n].attempts < OTPMaxAttempts /\ otp'[n].attempts \in Nat
                  /\ OTPMaxAttempts \in Nat
                BY <2>1, <3>3, RowsTyped, Bounds DEF Usable, PasswordRow
            <4>2. Guessing(n)' \subseteq Calls
                BY DEF Guessing
            <4>3. /\ Cardinality(Guessing(n)') \in Nat /\ Cardinality(Calls) \in Nat
                  /\ Cardinality(Guessing(n)') <= Cardinality(Calls)
                BY <4>2, Guesses
            <4> QED  BY <4>1, <4>3 DEF Bounded
        <3>4. CASE k.in.msisdn # n
            <4>1. Guessing(n)' \subseteq Guessing(n)
                BY <3>2, <3>4 DEF Guessing, At
            <4> QED  BY <1>1, <2>1, <4>1, FewerGuesses
        <3> QED  BY <3>3, <3>4
    <2> QED  BY <1>7, <2>2, <2>3 DEF Verify
<1>8. ASSUME NEW c \in Calls, IncrementAttempts(c)
      PROVE  Bounded(n)'
    <2> DEFINE m == calls[c].in.msisdn
    <2>1. /\ otp \in [Numbers -> PasswordRow] /\ calls \in [Calls -> CallRow]
          /\ otp[n] \in PasswordRow /\ At(c, "increment") /\ Become(c, Idle)
          /\ otp' = otp \/ otp' = [otp EXCEPT ![m] = [otp[m] EXCEPT !.attempts = @ + 1]]
        BY <1>8, RowsTyped DEF IncrementAttempts, Typed, PasswordsTyped, CallsTyped
    <2>2. Guessing(n)' = Guessing(n) \ {c}
        <3>1. calls'[c] = Idle /\ \A d \in Calls \ {c} : calls'[d] = calls[d]
            BY <2>1 DEF Become
        <3> QED  BY <1>4, <3>1 DEF Guessing, At
    <2>3. CASE m # n
        <3>1. otp'[n] = otp[n]
            BY <2>1, <2>3
        <3> QED  BY <1>1, <2>2, <3>1, FewerGuesses
    <2>4. CASE m = n
        <3>1. otp[n].attempts \in Nat /\ otp'[n].attempts \in Nat
              /\ otp'[n].attempts <= otp[n].attempts + 1 /\ OTPMaxAttempts \in Nat
            BY <2>1, <2>4, Bounds DEF PasswordRow
        <3>2. c \in Guessing(n) /\ Guessing(n) \subseteq Calls
            BY <2>1, <2>4 DEF Guessing
        <3>3. /\ Cardinality(Guessing(n)) \in Nat /\ Cardinality(Calls) \in Nat
              /\ Cardinality(Guessing(n)') = Cardinality(Guessing(n)) - 1
            BY <2>2, <3>2, Guesses
        <3> QED  BY <1>1, <2>2, <3>1, <3>2, <3>3 DEF Bounded
    <2> QED  BY <2>3, <2>4
<1>9. ASSUME NEW c \in Calls, ReadRow(c) \/ ReadInProgress(c)
      PROVE  Bounded(n)'
    <2>1. calls[c] \in CallRow /\ UNCHANGED otp
        BY <1>9, RowsTyped DEF ReadRow, ReadInProgress
    <2> DEFINE k == calls[c]
    <2>2. CASE ReadRow(c)
        <3>1. PICK row : Become(c, [k EXCEPT !.pc = "inProgress", !.row = row])
            BY <2>2 DEF ReadRow
        <3>2. [k EXCEPT !.pc = "inProgress", !.row = row].pc = "inProgress"
            BY <2>1 DEF CallRow
        <3> QED  BY <1>2, <2>1, <3>1, <3>2
    <2>3. CASE ReadInProgress(c)
        <3>1. PICK read : \E pc \in {"insert", "row"} :
                  Become(c, [k EXCEPT !.pc = pc, !.row = None, !.read = read])
            <4> DEFINE reading == [m \in DOMAIN k.read \cup {k.row.msisdn} |->
                    IF m = k.row.msisdn
                    THEN [holder |-> k.row.row.holder, date |-> k.row.row.date,
                          restituted |-> k.row.row.restituted,
                          inProgress |-> RequestInProgress(k.row.msisdn),
                          when |-> k.row.when, upTo |-> Len(demandes)]
                    ELSE k.read[m]]
            <4>1. Become(c, [k EXCEPT !.pc = IF DOMAIN reading = k.in.fleet
                                             THEN "insert" ELSE "row",
                                      !.row = None, !.read = reading])
                BY <2>3 DEF ReadInProgress
            <4> HIDE DEF reading
            <4> QED  BY <4>1
        <3> PICK pc \in {"insert", "row"} :
                Become(c, [k EXCEPT !.pc = pc, !.row = None, !.read = read])
            BY <3>1
        <3>2. [k EXCEPT !.pc = pc, !.row = None, !.read = read].pc = pc
            BY <2>1 DEF CallRow
        <3> QED  BY <1>2, <2>1, <3>2
    <2> QED  BY <1>9, <2>2, <2>3
<1>10. CASE \/ \E m \in Numbers : Send(m)
            \/ \E v \in ReverseIds : \/ ArtpValidates(v) \/ ArtpRejects(v)
                                     \/ WaitsTooLong(v) \/ AutoValidate(v)
            \/ OverdueForAutoValidation
            \/ \E op \in Purgers : ListPurge(op)
            \/ CommitPurge
            \/ Outcome
            \/ Elapse \/ UNCHANGED vars
    <2>1. UNCHANGED calls /\ (UNCHANGED otp \/ DeleteOTP(purge.numbers) \/ \E m \in Numbers : Send(m))
        BY <1>10 DEF Send, ArtpValidates, ArtpRejects, WaitsTooLong, AutoValidate,
                     OverdueForAutoValidation, ListPurge, CommitPurge,
                     PurgeTestData, Outcome, TransferToRegistry, EndOfRequest, Withdraw, RejectNumbers, Elapse,
                     vars
    <2> QED  BY <1>3, <2>1
<1> QED  BY <1>5, <1>6, <1>7, <1>8, <1>9, <1>10 DEF Next, CallStep

\* No code has been tried at first.
LEMMA InitBInv == Init => BInv
<1> SUFFICES ASSUME Init, NEW n \in Numbers
             PROVE  Bounded(n)
    BY DEF BInv
<1>1. Guessing(n) = {}
    BY DEF Init, Guessing, At, Idle, Call
<1>2. otp[n].attempts = 0
    BY DEF Init, NoPassword, Password
<1>3. Cardinality(Guessing(n)) = 0 /\ OTPMaxAttempts \in Nat
    BY <1>1, FS_EmptySet, Bounds
<1>4. Cardinality(Calls) \in Nat /\ Cardinality(Calls) > 0
    BY Guesses
<1> QED  BY <1>1, <1>2, <1>3, <1>4 DEF Bounded

\* Hence the attempts are bounded in every reachable state.
LEMMA BInvHolds == Spec => []BInv
<1>1. IInv /\ IInv' /\ BInv /\ [Next]_vars => BInv'
    BY BoundedKept DEF IInv, BInv
<1> QED  BY <1>1, InitBInv, IInvHolds, PTL DEF Spec

-----------------------------------------------------------------------------
(***************************************************************************)
(* The theorems.                                                           *)
(***************************************************************************)
\* Every variable has its type, in every behaviour of the intake.
THEOREM IntakeTypeCorrect == Spec => []TypeOK
<1>1. IInv => TypeOK
    <2> SUFFICES ASSUME IInv
                 PROVE  TypeOK
        OBVIOUS
    <2>1. Typed /\ RegistryTyped /\ PasswordsTyped /\ RequestsTyped /\ ReversesTyped
        BY DEF IInv, Typed
    <2>2. \A n \in Numbers : /\ otp[n].sent \in 0..sends /\ otp[n].attempts \in Nat
                             /\ otp[n].consumed \in BOOLEAN
        BY <2>1, RowsTyped DEF PasswordsTyped, PasswordRow
    <2>3. \A i \in Ids : /\ demandes[i].status \in {"EN_COURS", "ENDED", "ABSENT"}
                         /\ demandes[i].source \in Operators
                         /\ demandes[i].recipient \in Operators
                         /\ demandes[i].active \subseteq demandes[i].fleet
        BY <2>1, RowsTyped DEF RequestsTyped, DemandeRow
    <2>4. Len(demandes) \in Nat
        BY <2>1 DEF RequestsTyped
    <2>5. \A v \in ReverseIds :
              /\ reverses[v].status \in {"EN_ATTENTE", "VALIDE", "REJETE", "ABSENT"}
              /\ reverses[v].request \in 0..Len(demandes)
        BY <2>1, <2>4, RowsTyped DEF ReversesTyped, ReverseRow
    <2>6. \A c \in Calls : calls[c].row \in RowRead \cup {None}
        BY <2>1, RowsTyped DEF CallRow
    <2>7. now \in Start..MaxNow /\ sends \in 0..MaxSends
        BY <2>1, Bounds DEF RegistryTyped, PasswordsTyped
    <2> QED  BY <2>1, <2>2, <2>3, <2>5, <2>6, <2>7
             DEF TypeOK, RegistryTyped, ReversesTyped
<1> QED  BY <1>1, IInvHolds, PTL

\* No number is retained twice by a PORTAGE or a RESTITUTION in progress,
\* unless the later creation looked before the earlier one was inserted.
THEOREM NumbersHaveOneRequest == Spec => []OneRequestPerNumber
<1>1. IInv => OneRequestPerNumber
    BY DEF IInv
<1> QED  BY <1>1, IInvHolds, PTL

\* A password opens one request, but for the call that had verified it before
\* it was consumed.
THEOREM PasswordsOpenOne == Spec => []OnePasswordOneRequest
<1>1. IInv => OnePasswordOneRequest
    BY DEF IInv
<1> QED  BY <1>1, IInvHolds, PTL

\* Wrong codes are counted at most OTP_MAX_ATTEMPTS times, and once more for
\* each other call in flight.
THEOREM GuessesBounded == Spec => []AttemptsBounded
<1>1. IInv /\ BInv => AttemptsBounded
    <2> SUFFICES ASSUME IInv, BInv, NEW n \in Numbers
                 PROVE  otp[n].attempts < OTPMaxAttempts + Cardinality(Calls)
        BY DEF AttemptsBounded
    <2>1. otp[n].attempts \in Nat /\ OTPMaxAttempts \in Nat
        BY RowsTyped, Bounds DEF IInv, PasswordRow
    <2>2. Guessing(n) \subseteq Calls
        BY DEF Guessing
    <2>3. Cardinality(Guessing(n)) \in Nat /\ Cardinality(Calls) \in Nat
        BY <2>2, Guesses
    <2> QED  BY <2>1, <2>3 DEF BInv, Bounded
<1> QED  BY <1>1, IInvHolds, BInvHolds, PTL

\* A validated reverse request has its one REVERSE request, and conversely,
\* through repeated validations, the engine's and the purge.
THEOREM ReversesGiveOne == Spec => []OneRequestPerReverse
<1>1. IInv => OneRequestPerReverse
    BY DEF IInv
<1> QED  BY <1>1, IInvHolds, PTL

\* The registry agrees with the source of a request that still has to move its
\* numbers, unless they moved since they were read.
THEOREM SourcesHold == Spec => []SourceHoldsNumber
<1>1. IInv => SourceHoldsNumber
    BY DEF IInv, SourceHoldsNumber, MayMove, MovedSince, Retains
<1> QED  BY <1>1, IInvHolds, PTL

\* A REVERSE that has nowhere to bring its number from lost it after the
\* reverse request was submitted.
THEOREM ReversesWereAway == Spec => []ReverseOfNumberAway
<1>1. IInv => ReverseOfNumberAway
    BY DEF IInv
<1> QED  BY <1>1, IInvHolds, PTL

\* Three months between a move and a PORTAGE, six before a RESTITUTION, unless
\* the number moved after creation read its date.
THEOREM MovesSpaced == Spec => MovesAreSpaced
<1>1. IInv /\ [Next]_vars =>
          [\A i \in Ids : MovedBy(i) /\ demandes[i].type # "REVERSE" =>
              \A n \in demandes[i].active :
                  \/ numero[n].date = None
                  \/ numero[n].date >= demandes[i].ghosts.read[n].when
                  \/ now - numero[n].date >= IF demandes[i].type = "PORTAGE"
                                             THEN PortingDelay ELSE RestitutionDelay]_vars
    <2> SUFFICES ASSUME IInv, [Next]_vars, NEW i \in Ids,
                        MovedBy(i), demandes[i].type # "REVERSE",
                        NEW n \in demandes[i].active
                 PROVE  \/ numero[n].date = None
                        \/ numero[n].date >= demandes[i].ghosts.read[n].when
                        \/ now - numero[n].date >= IF demandes[i].type = "PORTAGE"
                                                   THEN PortingDelay ELSE RestitutionDelay
        OBVIOUS
    <2>1. Fades(i)
        BY Shaping, OldRequests DEF Shape
    <2>2. InProgress(i) /\ ~ demandes[i].moved
        BY <2>1 DEF Fades, MovedBy
    <2>3. MayMove(i)
        BY DEF IInv
    <2> QED  BY <2>2, <2>3 DEF MayMove, MovedSince, Delay
<1> QED  BY <1>1, IInvHolds, PTL DEF Spec, MovesAreSpaced

-----------------------------------------------------------------------------
(***************************************************************************)
(* What the intake is to the server's start.  Startup abstracts it to what *)
(* it does to the registry; here the registry is shown as Startup has it,  *)
(* a date of porting being only known to be there or not.                  *)
(***************************************************************************)
MovedRow(n) == [holder |-> numero[n].holder, origin |-> Origin[n],
                date |-> IF numero[n].date = None THEN None ELSE 0,
                restituted |-> numero[n].restituted]
MovedRegistry == [n \in Numbers |-> MovedRow(n)]

Served == INSTANCE Startup
          WITH Empty <- None, Junk <- None, UnportedRangesPerOperator <- 1,
               MaxPerRange <- 1, DefaultPoolPerOperator <- 1, Fixed <- {},
               UnportedRanges <- <<>>, HistoricalRanges <- <<>>, PortedRanges <- <<>>,
               PortedScenarios <- <<>>, FixedRangeSize <- 1, Today <- 0,
               Launches <- {}, Tested <- Numbers,
               process <- [pc |-> "serving", launch |-> None, config |-> None,
                           step |-> 0],
               migrated <- TRUE, reference <- {}, numero <- MovedRegistry

MovesServed == [][Served!NumberMoves]_MovedRegistry

\* A RESTITUTION or a REVERSE brings its number to its origin operator.
GoesHome(i) ==
    demandes[i].type # "PORTAGE" => demandes[i].recipient = Origin[demandes[i].msisdn]

HInv == /\ \A i \in Ids : GoesHome(i)
        /\ \A v \in ReverseIds : reverses[v].op = Origin[reverses[v].msisdn]

\* Creations and validations see to it, and nothing changes it.
LEMMA HomeKept ==
    ASSUME IInv, HInv, [Next]_vars
    PROVE  HInv'
<1>1. Typed /\ (Fading \/ Appended) /\ (Aging \/ Submitted)
    BY Shaping DEF Shape
<1>2. ASSUME NEW v \in ReverseIds'
      PROVE  reverses'[v].op = Origin[reverses'[v].msisdn]
    <2>1. CASE v \in ReverseIds
        BY <1>1, <2>1, OldReverses DEF Ages, HInv
    <2>2. CASE v \notin ReverseIds
        BY <1>1, <2>2, NewReverse
    <2> QED  BY <2>1, <2>2
<1>3. ASSUME NEW i \in Ids'
      PROVE  GoesHome(i)'
    <2>1. CASE i \in Ids
        BY <1>1, <2>1, OldRequests DEF Fades, HInv, GoesHome
    <2>2. CASE i \notin Ids
        <3>1. \/ \E c \in Calls : Opened(c, demandes'[i])
              \/ \E v \in ReverseIds : Validated(v, demandes'[i])
            BY <1>1, <2>2, NewRequest
        <3>2. CASE \E c \in Calls : Opened(c, demandes'[i])
            BY <3>2 DEF Opened, GoesHome
        <3>3. CASE \E v \in ReverseIds : Validated(v, demandes'[i])
            BY <3>3 DEF Validated, HInv, GoesHome
        <3> QED  BY <3>1, <3>2, <3>3
    <2> QED  BY <2>1, <2>2
<1> QED  BY <1>2, <1>3 DEF HInv

\* Hence it is so of every request there ever is.
LEMMA HInvHolds == Spec => []HInv
<1>1. Init => HInv
    BY DEF Init, HInv, Ids, ReverseIds
<1> QED  BY <1>1, HomeKept, IInvHolds, PTL DEF Spec

\* An instant is not the absence of one.
LEMMA DateIsSomething == now \in Nat => now # None
BY IntakeAssumption

\* What a porting writes of a row.
LEMMA RowRewritten ==
    ASSUME NEW holder, NEW origin, NEW date, NEW restituted, NEW op
    PROVE  [[holder |-> holder, origin |-> origin, date |-> date,
             restituted |-> restituted] EXCEPT !.holder = op, !.date = 0]
           = [holder |-> op, origin |-> origin, date |-> 0, restituted |-> restituted]
<1> DEFINE S == [holder : {holder, op}, origin : {origin}, date : {date, 0},
                 restituted : {restituted}]
<1> PICK row \in S : row = [holder |-> holder, origin |-> origin, date |-> date,
                            restituted |-> restituted]
    OBVIOUS
<1>1. PICK new \in S : new = [row EXCEPT !.holder = op, !.date = 0]
    OBVIOUS
<1>2. /\ new.holder = op /\ new.origin = origin /\ new.date = 0
      /\ new.restituted = restituted
    BY <1>1
<1>3. new = [holder |-> op, origin |-> origin, date |-> 0, restituted |-> restituted]
    BY <1>2
<1> QED  BY <1>1, <1>3

\* Numbers that are ported, all to the same operator.
LEMMA PortServed ==
    ASSUME Typed, NEW i \in Ids, TransferToRegistry(i)
    PROVE  Served!NumberMoves \/ UNCHANGED MovedRegistry
<1> DEFINE numbers == demandes[i].active \cap Numbers
<1> PICK op \in Operators : op = demandes[i].recipient
    BY RowsTyped DEF DemandeRow
<1>1. /\ now \in Nat /\ now # None
      /\ \A n \in Numbers : numero[n] \in RegistryRow /\ numero'[n] =
            IF n \in numbers THEN [numero[n] EXCEPT !.holder = op, !.date = now]
            ELSE numero[n]
    BY DateIsSomething, RowsTyped DEF TransferToRegistry, Typed, RegistryTyped
<1>2. ASSUME NEW n \in Numbers
      PROVE  MovedRow(n)' = IF n \in numbers
                            THEN [MovedRow(n) EXCEPT !.holder = op, !.date = 0]
                            ELSE MovedRow(n)
    <2>1. CASE n \in numbers
        <3>1. /\ numero'[n].holder = op /\ numero'[n].date = now
              /\ numero'[n].restituted = numero[n].restituted
            BY <1>1, <2>1 DEF RegistryRow
        <3>2. MovedRow(n)' = [holder |-> op, origin |-> Origin[n], date |-> 0,
                              restituted |-> numero[n].restituted]
            BY <1>1, <3>1 DEF MovedRow
        <3> QED  BY <2>1, <3>2, RowRewritten DEF MovedRow
    <2>2. CASE n \notin numbers
        BY <1>1, <2>2 DEF MovedRow
    <2> QED  BY <2>1, <2>2
<1>3. MovedRegistry' = [n \in DOMAIN MovedRegistry |->
          IF n \in numbers THEN [MovedRegistry[n] EXCEPT !.holder = op, !.date = 0]
          ELSE MovedRegistry[n]]
    BY <1>2 DEF MovedRegistry
<1>4. CASE numbers = {}
    BY <1>2, <1>4 DEF MovedRegistry
<1>5. CASE numbers # {}
    <2>1. Served!Port(numbers, op)
        BY <1>3 DEF Served!Port, Served!Has, Served!Serving, MovedRegistry
    <2> QED  BY <1>5, <2>1 DEF Served!NumberMoves
<1> QED  BY <1>4, <1>5

\* A number that comes home at the end of its request.
LEMMA GiveBackServed ==
    ASSUME Typed, HInv, NEW i \in Ids, EndOfRequest(i)
    PROVE  Served!NumberMoves \/ UNCHANGED MovedRegistry
<1>1. CASE demandes[i].type = "PORTAGE"
    BY <1>1 DEF EndOfRequest, MovedRegistry, MovedRow
<1>2. CASE demandes[i].type # "PORTAGE"
    <2> PICK m \in Numbers : m = demandes[i].msisdn
        BY RowsTyped DEF DemandeRow
    <2>1. demandes[i].recipient = Origin[m]
        BY <1>2 DEF HInv, GoesHome
    <2>2. now # None /\ numero \in [Numbers -> RegistryRow]
        BY DateIsSomething DEF Typed, RegistryTyped
    <2>3. numero' = [numero EXCEPT ![m] = [holder |-> Origin[m], date |-> now,
                                           restituted |-> TRUE]]
        BY <1>2, <2>1 DEF EndOfRequest
    <2>4. \A n \in Numbers : MovedRow(n)' =
              IF n = m THEN Served!Number(Origin[m], Origin[m], 0, TRUE) ELSE MovedRow(n)
        BY <2>2, <2>3 DEF MovedRow, Served!Number
    <2>5. MovedRegistry' = [MovedRegistry EXCEPT ![m] =
              Served!Number(MovedRegistry[m].origin, MovedRegistry[m].origin, 0, TRUE)]
        BY <2>4 DEF MovedRegistry, MovedRow
    <2>6. Served!GiveBack(m)
        BY <2>5 DEF Served!GiveBack, Served!Has, Served!Serving, MovedRegistry
    <2> QED  BY <2>6 DEF Served!NumberMoves
<1> QED  BY <1>1, <1>2

\* Numbers that a purge restores.
LEMMA RestoreServed ==
    ASSUME CommitPurge
    PROVE  Served!NumberMoves \/ UNCHANGED MovedRegistry
<1> DEFINE numbers == purge.numbers \cap Numbers
<1>1. \A n \in Numbers : numero'[n] =
          IF n \in numbers
          THEN [holder |-> Origin[n], date |-> None, restituted |-> FALSE]
          ELSE numero[n]
    BY DEF CommitPurge, PurgeTestData, RestoreNumbers
<1>2. ASSUME NEW n \in Numbers
      PROVE  MovedRow(n)' = IF n \in numbers
                            THEN Served!Number(Origin[n], Origin[n], None, FALSE)
                            ELSE MovedRow(n)
    <2>1. CASE n \in numbers
        <3>1. numero'[n] = [holder |-> Origin[n], date |-> None, restituted |-> FALSE]
            BY <1>1, <2>1, Zenon
        <3> QED  BY <2>1, <3>1 DEF MovedRow, Served!Number
    <2>2. CASE n \notin numbers
        BY <1>1, <2>2 DEF MovedRow
    <2> QED  BY <2>1, <2>2
<1>3. \A n \in Numbers : MovedRow(n).origin = Origin[n]
    BY DEF MovedRow
<1>4. MovedRegistry' = [n \in DOMAIN MovedRegistry |->
          IF n \in numbers
          THEN Served!Number(MovedRegistry[n].origin, MovedRegistry[n].origin, None, FALSE)
          ELSE MovedRegistry[n]]
    BY <1>2, <1>3 DEF MovedRegistry
<1>5. CASE numbers = {}
    BY <1>2, <1>5 DEF MovedRegistry
<1>6. CASE numbers # {}
    <2>1. Served!Restore(numbers)
        BY <1>4 DEF Served!Restore, Served!Has, Served!Serving, MovedRegistry
    <2> QED  BY <1>6, <2>1 DEF Served!NumberMoves
<1> QED  BY <1>5, <1>6

\* Startup is right about what requests do to the registry between starts:
\* whatever creations, validations, outcomes and purges interleave, a step
\* of the intake ports numbers to one operator, gives one back to its
\* origin, restores some, or leaves the registry as it was.
THEOREM IntakeMovesNumbers == Spec => MovesServed
<1>1. ASSUME IInv, HInv, [Next]_vars
      PROVE  [Served!NumberMoves]_MovedRegistry
    <2>1. Typed
        BY <1>1 DEF IInv
    <2>2. ASSUME UNCHANGED numero
          PROVE  UNCHANGED MovedRegistry
        BY <2>2 DEF MovedRegistry, MovedRow
    <2> QED  BY <1>1, <2>1, <2>2, PortServed, GiveBackServed, RestoreServed,
                CallsLeaveRegistry, OthersLeaveRegistry
             DEF Next, Outcome, Elapse, vars
<1> QED  BY <1>1, IInvHolds, HInvHolds, PTL DEF Spec, MovesServed

=================================================================================
