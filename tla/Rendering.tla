-------------------------------- MODULE Rendering --------------------------------
(***************************************************************************)
(* How an instant is rendered: to the nanosecond by the request that wrote *)
(* it, to the millisecond by any later one, and always with the skew of    *)
(* the platform's clock.  Postgres keeps microseconds.  Instants count     *)
(* nanoseconds, of which the model puts few in a microsecond.              *)
(***************************************************************************)
EXTENDS Integers, Sequences, SequencesExt

CONSTANTS
    Micro,    \* nanoseconds in a microsecond
    Milli,    \* nanoseconds in a millisecond
    Second,   \* nanoseconds in a second
    Instants  \* the instants that requests write

ASSUME RenderingAssumption ==
    /\ Micro \in Nat \ {0}
    /\ Milli \in Nat \ {0} /\ Milli % Micro = 0
    /\ Second \in Nat \ {0} /\ Second % Milli = 0
    /\ Instants \subseteq Nat

Truncate(t, unit) == t - (t % unit)

\* What a timestamptz column gives back.
Stored(t) == Truncate(t, Micro)

\* Mutant: instants are matched by their millisecond.
MatchesMilli(written, read) == Truncate(written, Milli) = Truncate(read, Milli)

Matches(written, read) == Truncate(written, Micro) = Truncate(read, Micro)

\* WrittenAt: the places, in what this request has written, of the instant read.
WrittenAt(written, read) == {i \in DOMAIN written : Matches(written[i], read)}

\* clock.System.Rendered.
Rendered(t, skew) == Truncate(t + skew, Milli)

\* The sub-millisecond part is added again after the truncation.
RenderedInstant(written, read, skew) ==
    LET places == WrittenAt(written, read)
        w == written[Min(places)]
    IN IF places = {} THEN Rendered(read, skew)
       ELSE Truncate(Rendered(w, skew), Milli) + (w - Truncate(w, Milli))

==================================================================================
