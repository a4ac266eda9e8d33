-------------------------------- MODULE MCIntake --------------------------------
(***************************************************************************)
(* Small instances of the intake: two operators and two numbers.           *)
(***************************************************************************)
EXTENDS IntakeProperties, TLC

CONSTANTS orange, yas, n1, n2

Row(holder, date, restituted) ==
    [holder |-> holder, date |-> date, restituted |-> restituted]

\* orange holds both; n2 came from yas, too recently to leave at once.
GuestOrigin == (n1 :> orange) @@ (n2 :> yas)
GuestRegistry == (n1 :> Row(orange, None, FALSE)) @@ (n2 :> Row(orange, 0, FALSE))

\* Both are orange's; n1 was given back long ago and n2 is still away.
HomeOrigin == (n1 :> orange) @@ (n2 :> orange)
AwayRegistry == (n1 :> Row(orange, 0, TRUE)) @@ (n2 :> Row(yas, 0, FALSE))

Input(kind, op, source, recipient, msisdn, fleet, right) ==
    [kind |-> kind, op |-> op, source |-> source, recipient |-> recipient,
     msisdn |-> msisdn, fleet |-> fleet, right |-> right]

\* yas asks for n1, alone or with n2, and may mistake the code.
CreationInputs ==
    {Input("individual", yas, orange, yas, n1, {n1}, TRUE),
     Input("enterprise", yas, orange, yas, n1, {n1, n2}, TRUE),
     Input("verify", yas, orange, yas, n1, {n1}, FALSE)}

\* orange wants n2 back, and asks for n1, which it has.
ReturnInputs ==
    {Input("restitution", orange, yas, orange, n2, {n2}, TRUE),
     Input("reverse", orange, yas, orange, n2, {n2}, TRUE),
     Input("reverse", orange, yas, orange, n1, {n1}, TRUE)}

CallSymmetry == Permutations(Calls)

=================================================================================
