--------------------------------- MODULE Intake ---------------------------------
(***************************************************************************)
(* How requests come to exist: one-time passwords, the three creations,    *)
(* reverse requests and their validation, and the purge that takes them    *)
(* away again.                                                             *)
(*                                                                         *)
(* A creation reads outside any transaction: the password, then, number by *)
(* number, the registry's row and the existence of a request in progress.  *)
(* It decides on what it read and inserts everything in one transaction.   *)
(* No constraint of the schema repeats what it checked, so everything      *)
(* here turns on what may happen between the readings and the insert.      *)
(*                                                                         *)
(* What becomes of a request afterwards is Workflow's subject; here its    *)
(* numbers change hands, are rejected or not, and it ends.                 *)
(***************************************************************************)
EXTENDS Eligibility, Sequences, FiniteSets

CONSTANTS
    Operators,       \* rows of operateur
    Numbers,         \* msisdn of numero rows
    Origin,          \* operateur_origine_id of each number
    Registry,        \* the changing columns of each numero row at the start
    Calls,           \* slots for calls in flight at the same time
    Inputs,          \* what clients send
    Purgers,         \* operators that purge their test data
    OTPMaxAttempts,  \* OTP_MAX_ATTEMPTS
    OTPTTL,          \* OTP_TTL_SECONDS
    AutoValidation,  \* REVERSE_AUTO_VALIDATION_SECONDS > 0
    Start,           \* the instant the model starts at
    MaxNow,          \* bound: the instant time stops at
    MaxSends,        \* bound: passwords sent
    MaxRequests,     \* bound: requests created, the REVERSE ones aside
    MaxReverses      \* bound: reverse requests submitted

Kinds == {"verify", "individual", "enterprise", "restitution", "reverse"}
PasswordKinds == {"verify", "individual", "enterprise"}

\* op is the authenticated caller, right whether the code is the one sent.
\* msisdn is demande.numero: a fleet's carrier, which need not be of the fleet.
InputRow == [kind : Kinds, op : Operators, source : Operators,
             recipient : Operators, msisdn : Numbers, fleet : SUBSET Numbers,
             right : BOOLEAN]

RegistryRow == [holder : Operators, date : Nat \cup {None}, restituted : BOOLEAN]

ASSUME IntakeAssumption ==
    /\ None \notin Operators \cup Nat
    /\ Origin \in [Numbers -> Operators]
    /\ Registry \in [Numbers -> RegistryRow]
    /\ Inputs \subseteq InputRow
    /\ \A in \in Inputs : in.kind # "enterprise" => in.fleet = {in.msisdn}
    /\ Purgers \subseteq Operators
    /\ AutoValidation \in BOOLEAN
    /\ {OTPMaxAttempts, OTPTTL, Start, MaxNow, MaxSends, MaxRequests,
        MaxReverses} \subseteq Nat
    /\ Start <= MaxNow

ASSUME CallsAssumption == IsFiniteSet(Calls) /\ Calls # {}

VARIABLES
    numero,    \* the registry
    otp,       \* the one-time password of each number
    demandes,  \* demande and demande_numero rows, in the order of insertion
    reverses,  \* reverse_request rows, in the order of insertion
    calls,     \* the handler in each slot
    purge,     \* the purge whose transaction is open, if any
    owed,      \* reverse requests the engine's tick has yet to validate
    now,       \* the instant
    sends      \* passwords sent so far: the serial of the latest

vars == <<numero, otp, demandes, reverses, calls, purge, owed, now, sends>>

(***************************************************************************)
(* An otp row: `sent' is a ghost, the serial of the message that carried   *)
(* the code.                                                               *)
(***************************************************************************)
Password(sent, attempts, consumed, expires) ==
    [sent |-> sent, attempts |-> attempts, consumed |-> consumed,
     expires |-> expires]
NoPassword == Password(0, 0, FALSE, 0)
Stored(n) == otp[n].sent > 0

(***************************************************************************)
(* A request.  The ghosts are what its creating call had read: `read', for *)
(* each number of the fleet, when, and how many requests had been inserted *)
(* by then; `sent' and `verified', the password, and how many requests had *)
(* been inserted when it was verified; `reverse', the reverse request it   *)
(* was validated from.                                                     *)
(***************************************************************************)
\* Mutant: only the excluded numbers get their demande_numero row.
DemandeOfExcluded(type, source, recipient, msisdn, retained, excluded, ghosts) ==
    [type |-> type, status |-> "EN_COURS", source |-> source,
     recipient |-> recipient, msisdn |-> msisdn, active |-> retained,
     fleet |-> excluded, moved |-> FALSE, ghosts |-> ghosts]

Demande(type, source, recipient, msisdn, retained, excluded, ghosts) ==
    [type |-> type, status |-> "EN_COURS", source |-> source,
     recipient |-> recipient, msisdn |-> msisdn, active |-> retained,
     fleet |-> retained \cup excluded, moved |-> FALSE, ghosts |-> ghosts]

Ghosts(read, sent, verified, reverse) ==
    [read |-> read, sent |-> sent, verified |-> verified, reverse |-> reverse]

\* A reverse_request row; `when', a ghost, is when its submission read the
\* registry, and `late' whether it has waited for the automatic validation.
Reverse(msisdn, op, when) ==
    [status |-> "EN_ATTENTE", msisdn |-> msisdn, op |-> op, request |-> 0,
     late |-> FALSE, when |-> when]

NoRead == [n \in {} |-> 0]

Ids == DOMAIN demandes
Present(i) == demandes[i].status # "ABSENT"
InProgress(i) == demandes[i].status = "EN_COURS"

\* The rows of demande_numero that are neither excluded nor REJETE.
Retains(i, n) == InProgress(i) /\ n \in demandes[i].active

\* NumberGateway.State's second query.
RequestInProgress(n) == \E i \in Ids : Retains(i, n)

Call(pc, in) == [pc |-> pc, in |-> in, sent |-> 0, verified |-> 0,
                 row |-> None, read |-> NoRead]
Idle == Call("idle", None)
NoPurge == [op |-> None, ids |-> {}, numbers |-> {}]

Init ==
    /\ numero = Registry
    /\ otp = [n \in Numbers |-> NoPassword]
    /\ demandes = <<>>
    /\ reverses = <<>>
    /\ calls = [c \in Calls |-> Idle]
    /\ purge = NoPurge
    /\ owed = {}
    /\ now = Start
    /\ sends = 0

-----------------------------------------------------------------------------
(***************************************************************************)
(* A call: the reading.                                                    *)
(***************************************************************************)
At(c, pc) == calls[c].pc = pc
Become(c, call) == calls' = [calls EXCEPT ![c] = call]

\* A creation for another recipient than its caller, or of an empty fleet, is
\* refused before anything is read.
Admitted(in) ==
    /\ in.fleet # {}
    /\ in.kind \in {"individual", "enterprise"} => in.recipient = in.op

Receive(c, in) ==
    /\ At(c, "idle")
    /\ Admitted(in)
    /\ Become(c, Call(IF in.kind \in PasswordKinds THEN "verify" ELSE "row", in))
    /\ UNCHANGED <<numero, otp, demandes, reverses, purge, owed, now, sends>>

\* A call that answers with a fault, or whose client goes away, writes
\* nothing more.
Leave(c) ==
    /\ ~ At(c, "idle")
    /\ Become(c, Idle)
    /\ UNCHANGED <<numero, otp, demandes, reverses, purge, owed, now, sends>>

\* Mutant: the attempts are counted and never looked at.
UsableWhateverTheAttempts(n) ==
    /\ Stored(n)
    /\ ~ otp[n].consumed
    /\ now <= otp[n].expires

\* VerifyOTP's refusals that count no attempt: absent, consumed, too many
\* attempts, expired.
Usable(n) ==
    /\ Stored(n)
    /\ ~ otp[n].consumed
    /\ otp[n].attempts < OTPMaxAttempts
    /\ now <= otp[n].expires

\* A right code is not consumed by the verification; a wrong one is counted
\* by a statement of its own.
Verify(c) ==
    LET k == calls[c] IN
    /\ At(c, "verify")
    /\ Usable(k.in.msisdn)
    /\ \/ /\ k.in.right
          /\ k.in.kind # "verify"
          /\ Become(c, [k EXCEPT !.pc = "row",
                                 !.sent = otp[k.in.msisdn].sent,
                                 !.verified = Len(demandes)])
       \/ /\ ~ k.in.right
          /\ Become(c, [k EXCEPT !.pc = "increment"])
    /\ UNCHANGED <<numero, otp, demandes, reverses, purge, owed, now, sends>>

\* The UPDATE names the number alone: it may find a newer password, or none.
IncrementAttempts(c) ==
    LET n == calls[c].in.msisdn IN
    /\ At(c, "increment")
    /\ otp' = IF Stored(n) THEN [otp EXCEPT ![n].attempts = @ + 1] ELSE otp
    /\ Become(c, Idle)
    /\ UNCHANGED <<numero, demandes, reverses, purge, owed, now, sends>>

ToRead(k) == k.in.fleet \ DOMAIN k.read

\* NumberGateway.State, for one number of the fleet: the registry's row, ...
ReadRow(c) ==
    LET k == calls[c] IN
    /\ At(c, "row")
    /\ \E n \in ToRead(k) :
          Become(c, [k EXCEPT !.pc = "inProgress",
                              !.row = [msisdn |-> n, row |-> numero[n],
                                       when |-> now]])
    /\ UNCHANGED <<numero, otp, demandes, reverses, purge, owed, now, sends>>

\* ... and, by a second query, whether a request in progress retains it.
ReadInProgress(c) ==
    LET k == calls[c]
        n == k.row.msisdn
        state == [holder |-> k.row.row.holder, date |-> k.row.row.date,
                  restituted |-> k.row.row.restituted,
                  inProgress |-> RequestInProgress(n),
                  when |-> k.row.when, upTo |-> Len(demandes)]
        read == [m \in DOMAIN k.read \cup {n} |->
                    IF m = n THEN state ELSE k.read[m]]
    IN /\ At(c, "inProgress")
       /\ Become(c, [k EXCEPT !.pc = IF DOMAIN read = k.in.fleet THEN "insert"
                                    ELSE "row",
                              !.row = None, !.read = read])
       /\ UNCHANGED <<numero, otp, demandes, reverses, purge, owed, now, sends>>

-----------------------------------------------------------------------------
(***************************************************************************)
(* A call: the decision and the one transaction it ends with.  The rules   *)
(* only become easier as time passes, so that deciding at the instant of   *)
(* the insert allows what deciding before it does.                         *)
(***************************************************************************)
GhostRead(k) ==
    [n \in DOMAIN k.read |-> [when |-> k.read[n].when, upTo |-> k.read[n].upTo]]

GhostsOf(k) == Ghosts(GhostRead(k), k.sent, k.verified, 0)

Insert(row) == demandes' = Append(demandes, row)

RoomForRequest ==
    Cardinality({i \in Ids : demandes[i].type # "REVERSE"}) < MaxRequests

\* Mutant: the transaction does not consume the password.
ConsumeNothing(n) == UNCHANGED otp

\* Unconditional: a password already consumed, or purged since, is no error.
Consume(n) ==
    otp' = IF Stored(n) THEN [otp EXCEPT ![n].consumed = TRUE] ELSE otp

Eligible(k) ==
    {n \in k.in.fleet : CheckPortingEligibility(k.read[n], k.in.source,
                                                k.in.recipient, now)}

\* POST /demandes/particulier.
CreateIndividual(c) ==
    LET k == calls[c] IN
    /\ At(c, "insert")
    /\ k.in.kind = "individual"
    /\ RoomForRequest
    /\ Eligible(k) = k.in.fleet
    /\ Insert(Demande("PORTAGE", k.in.source, k.in.recipient, k.in.msisdn,
                      k.in.fleet, {}, GhostsOf(k)))
    /\ Consume(k.in.msisdn)
    /\ Become(c, Idle)
    /\ UNCHANGED <<numero, reverses, purge, owed, now, sends>>

\* POST /demandes/entreprise: one holder for the whole fleet, the numbers
\* that are not eligible excluded, and at least one left.
CreateEnterprise(c) ==
    LET k == calls[c]
        retained == Eligible(k)
    IN /\ At(c, "insert")
       /\ k.in.kind = "enterprise"
       /\ RoomForRequest
       /\ \A n, m \in k.in.fleet : k.read[n].holder = k.read[m].holder
       /\ retained # {}
       /\ Insert(Demande("PORTAGE", k.in.source, k.in.recipient, k.in.msisdn,
                         retained, k.in.fleet \ retained, GhostsOf(k)))
       /\ Consume(k.in.msisdn)
       /\ Become(c, Idle)
       /\ UNCHANGED <<numero, reverses, purge, owed, now, sends>>

\* POST /demandes/restitution: the origin operator asks its number back.
CreateRestitution(c) ==
    LET k == calls[c]
        n == k.in.msisdn
    IN /\ At(c, "insert")
       /\ k.in.kind = "restitution"
       /\ RoomForRequest
       /\ k.in.op = Origin[n]
       /\ CheckRestitutionEligibility(k.read[n], Origin[n], now)
       /\ Insert(Demande("RESTITUTION", k.read[n].holder, Origin[n], n, {n}, {},
                         GhostsOf(k)))
       /\ Become(c, Idle)
       /\ UNCHANGED <<numero, otp, reverses, purge, owed, now, sends>>

\* Mutant: where the number is now is not looked at.
SubmitReverseAtHome(c) ==
    LET k == calls[c]
        n == k.in.msisdn
    IN /\ At(c, "insert")
       /\ k.in.kind = "reverse"
       /\ k.in.op = Origin[n]
       /\ Len(reverses) < MaxReverses
       /\ reverses' = Append(reverses, Reverse(n, k.in.op, k.read[n].when))
       /\ Become(c, Idle)
       /\ UNCHANGED <<numero, otp, demandes, purge, owed, now, sends>>

\* POST /reverse-requests: the number must be away from its origin; requests
\* in progress for it, reverse requests included, are not looked at.
SubmitReverse(c) ==
    LET k == calls[c]
        n == k.in.msisdn
    IN /\ At(c, "insert")
       /\ k.in.kind = "reverse"
       /\ k.in.op = Origin[n]
       /\ k.read[n].holder # Origin[n]
       /\ Len(reverses) < MaxReverses
       /\ reverses' = Append(reverses, Reverse(n, k.in.op, k.read[n].when))
       /\ Become(c, Idle)
       /\ UNCHANGED <<numero, otp, demandes, purge, owed, now, sends>>

CallStep(c) ==
    \/ Verify(c) \/ IncrementAttempts(c)
    \/ ReadRow(c) \/ ReadInProgress(c)
    \/ CreateIndividual(c) \/ CreateEnterprise(c) \/ CreateRestitution(c)
    \/ SubmitReverse(c)

\* POST /otp/send: a new code, no attempt, not consumed.
Send(n) ==
    /\ sends < MaxSends
    /\ sends' = sends + 1
    /\ otp' = [otp EXCEPT ![n] = Password(sends + 1, 0, FALSE, now + OTPTTL)]
    /\ UNCHANGED <<numero, demandes, reverses, calls, purge, owed, now>>

-----------------------------------------------------------------------------
(***************************************************************************)
(* Reverse requests: the ARTP decides by command line, or the engine's     *)
(* tick validates those that have waited too long.                         *)
(***************************************************************************)
ReverseIds == DOMAIN reverses
Pending(v) == reverses[v].status = "EN_ATTENTE"

\* Mutant: a reverse request already decided is validated again.
ValidateAgain(v) ==
    LET r == reverses[v] IN
    /\ r.status # "ABSENT"
    /\ Insert(Demande("REVERSE", numero[r.msisdn].holder, r.op, r.msisdn,
                      {r.msisdn}, {}, Ghosts(NoRead, 0, 0, v)))
    /\ reverses' = [reverses EXCEPT ![v].status = "VALIDE",
                                    ![v].request = Len(demandes) + 1]

\* One transaction, which locks the reverse_request row first; the request is
\* created at CONFIRMATION, from whoever holds the number at that instant.
ValidateReverse(v) ==
    LET r == reverses[v] IN
    /\ r.status # "ABSENT"
    /\ \/ /\ Pending(v)
          /\ Insert(Demande("REVERSE", numero[r.msisdn].holder, r.op, r.msisdn,
                            {r.msisdn}, {}, Ghosts(NoRead, 0, 0, v)))
          /\ reverses' = [reverses EXCEPT ![v].status = "VALIDE",
                                          ![v].request = Len(demandes) + 1]
       \/ /\ ~ Pending(v)
          /\ UNCHANGED <<demandes, reverses>>

ArtpValidates(v) ==
    /\ ValidateReverse(v)
    /\ UNCHANGED <<numero, otp, calls, purge, owed, now, sends>>

\* The UPDATE names the status: a decided request is left as it is.
ArtpRejects(v) ==
    /\ Pending(v)
    /\ reverses' = [reverses EXCEPT ![v].status = "REJETE"]
    /\ UNCHANGED <<numero, otp, demandes, calls, purge, owed, now, sends>>

\* date_demande plus the delay passes.
WaitsTooLong(v) ==
    /\ AutoValidation
    /\ Pending(v)
    /\ ~ reverses[v].late
    /\ reverses' = [reverses EXCEPT ![v].late = TRUE]
    /\ UNCHANGED <<numero, otp, demandes, calls, purge, owed, now, sends>>

\* A tick lists the late ones, ...
OverdueForAutoValidation ==
    LET ids == {v \in ReverseIds : Pending(v) /\ reverses[v].late} IN
    /\ owed = {}
    /\ ids # {}
    /\ owed' = ids
    /\ UNCHANGED <<numero, otp, demandes, reverses, calls, purge, now, sends>>

\* Mutant: the tick is never free of the row that is gone.
AutoValidateStuck(v) ==
    /\ v \in owed
    /\ ValidateReverse(v)
    /\ owed' = owed \ {v}
    /\ UNCHANGED <<numero, otp, calls, purge, now, sends>>

\* ... and validates them one transaction at a time; a row that is gone is an
\* error, which ends the tick with the rest of its list.
AutoValidate(v) ==
    /\ v \in owed
    /\ \/ /\ ValidateReverse(v)
          /\ owed' = owed \ {v}
       \/ /\ reverses[v].status = "ABSENT"
          /\ owed' = {}
          /\ UNCHANGED <<demandes, reverses>>
    /\ UNCHANGED <<numero, otp, calls, purge, now, sends>>

-----------------------------------------------------------------------------
(***************************************************************************)
(* The purge: one transaction, each statement with its own snapshot.  What *)
(* RequestIDsToPurge listed (the creator of a request is its recipient) is *)
(* what the statements that follow work from.                              *)
(***************************************************************************)
RequestIDsToPurge(op) == {i \in Ids : Present(i) /\ demandes[i].recipient = op}

NumbersToRestore(ids) ==
    {demandes[i].msisdn : i \in ids} \cup UNION {demandes[i].fleet : i \in ids}

ListPurge(op) ==
    LET ids == RequestIDsToPurge(op) IN
    /\ purge = NoPurge
    /\ purge' = [op |-> op, ids |-> ids, numbers |-> NumbersToRestore(ids)]
    /\ UNCHANGED <<numero, otp, demandes, reverses, calls, owed, now, sends>>

DeleteReverseRequests(op, ids) ==
    reverses' = [v \in ReverseIds |->
        IF reverses[v].status # "ABSENT"
           /\ (reverses[v].op = op \/ reverses[v].request \in ids)
        THEN [reverses[v] EXCEPT !.status = "ABSENT", !.late = FALSE, !.when = 0]
        ELSE reverses[v]]

DeleteOTP(numbers) == otp' = [n \in Numbers |->
                                 IF n \in numbers THEN NoPassword ELSE otp[n]]

\* A deleted row keeps its place in the order, and nothing else.
Absent(d) == [d EXCEPT !.status = "ABSENT", !.active = {}, !.fleet = {},
                       !.moved = FALSE, !.ghosts = Ghosts(NoRead, 0, 0, 0)]

DeleteRequests(ids) == demandes' = [i \in Ids |->
    IF i \in ids THEN Absent(demandes[i]) ELSE demandes[i]]

\* Mutant: the date of the last porting survives the restoration.
RestoreHolders(numbers) ==
    numero' = [n \in Numbers |->
        IF n \in numbers
        THEN [numero[n] EXCEPT !.holder = Origin[n], !.restituted = FALSE]
        ELSE numero[n]]

RestoreNumbers(numbers) ==
    numero' = [n \in Numbers |->
        IF n \in numbers
        THEN [holder |-> Origin[n], date |-> None, restituted |-> FALSE]
        ELSE numero[n]]

PurgeTestData(op, ids, numbers) ==
    /\ DeleteReverseRequests(op, ids)
    /\ DeleteOTP(numbers)
    /\ DeleteRequests(ids)
    /\ RestoreNumbers(numbers)

CommitPurge ==
    /\ purge # NoPurge
    /\ PurgeTestData(purge.op, purge.ids, purge.numbers)
    /\ purge' = NoPurge
    /\ UNCHANGED <<calls, owed, now, sends>>

-----------------------------------------------------------------------------
(***************************************************************************)
(* What becomes of a request, abstracted from Workflow.                    *)
(***************************************************************************)
\* Leaving ACTIVATION: the active numbers of a PORTAGE change hands.
TransferToRegistry(i) ==
    LET d == demandes[i] IN
    /\ InProgress(i)
    /\ d.type = "PORTAGE"
    /\ ~ d.moved
    /\ demandes' = [demandes EXCEPT ![i].moved = TRUE]
    /\ numero' = [n \in Numbers |->
          IF n \in d.active THEN [numero[n] EXCEPT !.holder = d.recipient,
                                                   !.date = now]
          ELSE numero[n]]
    /\ UNCHANGED <<otp, reverses, calls, purge, owed, now, sends>>

\* A fleet acceptance rejects numbers and the request goes on; of two that
\* compete, the second may do so late, or leave no number at all.
RejectNumbers(i, drop) ==
    /\ InProgress(i)
    /\ demandes[i].type # "REVERSE"
    /\ demandes' = [demandes EXCEPT ![i].active = @ \ drop]
    /\ UNCHANGED <<numero, otp, reverses, calls, purge, owed, now, sends>>

\* A request that has ended retains nothing.
Ended(d) == [d EXCEPT !.status = "ENDED", !.active = {}]

\* TERMINE: a RESTITUTION's or a REVERSE's number goes home at that instant.
EndOfRequest(i) ==
    LET d == demandes[i] IN
    /\ InProgress(i)
    /\ d.type = "PORTAGE" => d.moved
    /\ demandes' = [demandes EXCEPT ![i] = [Ended(d) EXCEPT !.moved = TRUE]]
    /\ numero' = IF d.type = "PORTAGE" THEN numero
                 ELSE [numero EXCEPT ![d.msisdn] =
                          [holder |-> d.recipient, date |-> now,
                           restituted |-> TRUE]]
    /\ UNCHANGED <<otp, reverses, calls, purge, owed, now, sends>>

\* REJETE or ANNULE, read at ACCEPTATION, where a REVERSE never is; what has
\* been decided there may be written late, when the numbers have moved.
Withdraw(i) ==
    /\ InProgress(i)
    /\ demandes[i].type # "REVERSE"
    /\ demandes' = [demandes EXCEPT ![i] = Ended(@)]
    /\ UNCHANGED <<numero, otp, reverses, calls, purge, owed, now, sends>>

Outcome ==
    \E i \in Ids :
        \/ TransferToRegistry(i) \/ EndOfRequest(i) \/ Withdraw(i)
        \/ \E drop \in (SUBSET demandes[i].active) \ {{}} : RejectNumbers(i, drop)

Elapse ==
    /\ now < MaxNow
    /\ now' = now + 1
    /\ UNCHANGED <<numero, otp, demandes, reverses, calls, purge, owed, sends>>

Next ==
    \/ \E c \in Calls :
          \/ \E in \in Inputs : Receive(c, in)
          \/ CallStep(c)
          \/ Leave(c)
    \/ \E n \in Numbers : Send(n)
    \/ \E v \in ReverseIds :
          \/ ArtpValidates(v) \/ ArtpRejects(v)
          \/ WaitsTooLong(v) \/ AutoValidate(v)
    \/ OverdueForAutoValidation
    \/ \E op \in Purgers : ListPurge(op)
    \/ CommitPurge
    \/ Outcome
    \/ Elapse

Spec == Init /\ [][Next]_vars

(***************************************************************************)
(* Fairness: time passes for a reverse request that waits, and the ticker  *)
(* keeps firing.  Nobody has to call, to decide or to purge.               *)
(***************************************************************************)
Fairness ==
    /\ WF_vars(OverdueForAutoValidation)
    /\ WF_vars(\E v \in ReverseIds : AutoValidate(v))
    /\ WF_vars(\E v \in ReverseIds : WaitsTooLong(v))

FairSpec == Spec /\ Fairness

=================================================================================
