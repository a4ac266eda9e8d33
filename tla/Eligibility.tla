------------------------------ MODULE Eligibility -------------------------------
(***************************************************************************)
(* The eligibility rules of src/internal/entity/eligibility.go.  `n' is    *)
(* what NumberGateway.State answered (the registry's row, and whether a    *)
(* request in progress retains the number) and `now' the instant at which  *)
(* the rule is applied.  Each operator is TRUE where the code returns nil. *)
(***************************************************************************)
EXTENDS Integers

CONSTANTS
    PortingDelay,      \* DelayBetweenPortings, three months
    RestitutionDelay,  \* DelayBeforeRestitution, six months
    None               \* the absence of a value (NULL)

ASSUME DelayAssumption == PortingDelay \in Nat /\ RestitutionDelay \in Nat

\* A date is too recent as long as the time since it is strictly less than
\* the delay; a number never ported has no date.
TooRecent(date, now, delay) == date # None /\ now - date < delay

\* Mutant: a request in progress for the number is not looked at.
PortableTwice(n, source, recipient, now) ==
    /\ n.holder # recipient
    /\ n.holder = source
    /\ ~ TooRecent(n.date, now, PortingDelay)

\* Mutant: the date of the last porting is not looked at.
PortableAtOnce(n, source, recipient, now) ==
    /\ n.holder # recipient
    /\ n.holder = source
    /\ ~ n.inProgress

CheckPortingEligibility(n, source, recipient, now) ==
    /\ n.holder # recipient
    /\ n.holder = source
    /\ ~ n.inProgress
    /\ ~ TooRecent(n.date, now, PortingDelay)

CheckRestitutionEligibility(n, origin, now) ==
    /\ n.date # None
    /\ n.holder # origin
    /\ ~ n.restituted
    /\ ~ TooRecent(n.date, now, RestitutionDelay)
    /\ ~ n.inProgress

=================================================================================
