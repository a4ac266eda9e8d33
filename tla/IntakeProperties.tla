---------------------------- MODULE IntakeProperties ----------------------------
(***************************************************************************)
(* What must hold of the requests that creation and validation let in.     *)
(***************************************************************************)
EXTENDS Intake

RowRead == [msisdn : Numbers, row : RegistryRow, when : Nat]

\* Every variable has its type, and a fleet's active numbers are of the fleet.
TypeOK ==
    /\ numero \in [Numbers -> RegistryRow]
    /\ \A n \in Numbers :
          /\ otp[n].sent \in 0..sends
          /\ otp[n].attempts \in Nat
          /\ otp[n].consumed \in BOOLEAN
    /\ \A i \in Ids :
          /\ demandes[i].status \in {"EN_COURS", "ENDED", "ABSENT"}
          /\ demandes[i].source \in Operators
          /\ demandes[i].recipient \in Operators
          /\ demandes[i].active \subseteq demandes[i].fleet
    /\ \A v \in ReverseIds :
          /\ reverses[v].status \in {"EN_ATTENTE", "VALIDE", "REJETE", "ABSENT"}
          /\ reverses[v].request \in 0..Len(demandes)
    /\ \A c \in Calls : calls[c].row \in RowRead \cup {None}
    /\ purge.ids \subseteq Ids
    /\ owed \subseteq ReverseIds
    /\ now \in Start..MaxNow
    /\ sends \in 0..MaxSends

\* At most one PORTAGE or RESTITUTION in progress retains a number: of two
\* that do, the second was created by a call that had looked for requests in
\* progress before the first was inserted.  The check of eligibility is the
\* only guard there is; the schema holds nothing.
OneRequestPerNumber ==
    \A q \in Ids : \A p \in 1..(q - 1) : \A n \in Numbers :
        /\ Retains(p, n) /\ demandes[p].type # "REVERSE"
        /\ Retains(q, n) /\ demandes[q].type # "REVERSE"
        => p > demandes[q].ghosts.read[n].upTo

\* A password that was sent opens one request: of two requests opened with
\* the same one, the second call had verified it before the first insert
\* consumed it.
OnePasswordOneRequest ==
    \A q \in Ids : \A p \in 1..(q - 1) :
        /\ demandes[p].ghosts.sent > 0
        /\ demandes[p].ghosts.sent = demandes[q].ghosts.sent
        /\ demandes[p].msisdn = demandes[q].msisdn
        => p > demandes[q].ghosts.verified

\* Guessing a password stops at OTP_MAX_ATTEMPTS, but for the wrong codes
\* that other calls had already read the row for.
AttemptsBounded ==
    \A n \in Numbers : otp[n].attempts < OTPMaxAttempts + Cardinality(Calls)

\* A reverse request gives one REVERSE request, whoever validates it and
\* however often: none before it is validated or if it is rejected, and no
\* two out of the same one.
OneRequestPerReverse ==
    /\ \A v \in ReverseIds : reverses[v].status = "VALIDE" =>
          LET i == reverses[v].request IN
          /\ i \in Ids
          /\ Present(i)
          /\ demandes[i].ghosts.reverse = v
    /\ \A i \in Ids : demandes[i].type = "REVERSE" /\ Present(i) =>
          LET v == demandes[i].ghosts.reverse IN
          /\ reverses[v].status \in {"VALIDE", "ABSENT"}
          /\ reverses[v].request = i

\* A number that a PORTAGE or a RESTITUTION still has to move is with the
\* request's source, unless something else moved it since creation read it:
\* a request that overlapped with this one, a REVERSE, or a purge.
SourceHoldsNumber ==
    \A i \in Ids : \A n \in Numbers :
        /\ Retains(i, n)
        /\ demandes[i].type # "REVERSE"
        /\ ~ demandes[i].moved
        /\ numero[n].holder # demandes[i].source
        => numero[n].date = None \/ numero[n].date >= demandes[i].ghosts.read[n].when

\* A REVERSE whose number is already home when it is validated was submitted
\* while the number was away: it came home, or was purged, in between.
ReverseOfNumberAway ==
    \A i \in Ids :
        LET d == demandes[i]
            v == reverses[d.ghosts.reverse]
        IN d.type = "REVERSE" /\ InProgress(i) /\ d.source = d.recipient
           => \/ numero[d.msisdn].date = None
              \/ numero[d.msisdn].date >= v.when

\* Every REVERSE request goes with the reverse request it was validated from.
NoOrphanedReverse ==
    \A i \in Ids : demandes[i].type = "REVERSE" /\ Present(i) =>
        \E v \in ReverseIds :
            reverses[v].status = "VALIDE" /\ reverses[v].request = i

\* With the automatic validation on, no reverse request waits for ever: the
\* purge of one that a tick had listed fails the tick, and what it had not
\* come to is listed again.
ReversesGetDecided ==
    \A v \in 1..MaxReverses :
        (v \in ReverseIds /\ Pending(v)) ~> (v \in ReverseIds /\ ~ Pending(v))

MovedBy(i) == i \in DOMAIN demandes' /\ ~ demandes[i].moved /\ demandes'[i].moved

\* A number is not carried off less than three months after it last moved,
\* nor taken back less than six months after, unless that move came after
\* creation had read its date.
MovesAreSpaced ==
    [][\A i \in Ids : MovedBy(i) /\ demandes[i].type # "REVERSE" =>
          \A n \in demandes[i].active :
              \/ numero[n].date = None
              \/ numero[n].date >= demandes[i].ghosts.read[n].when
              \/ now - numero[n].date >= IF demandes[i].type = "PORTAGE"
                                         THEN PortingDelay ELSE RestitutionDelay]_vars

=================================================================================
