------------------------------- MODULE MCWorkflow -------------------------------
(***************************************************************************)
(* Small instances of the workflow: three operators, a number or two, and  *)
(* the requests between them.                                              *)
(***************************************************************************)
EXTENDS WorkflowProperties, Views, TLC

CONSTANTS orange, yas, expresso, n1, n2, n3, p1, p2

Row(type, source, recipient, msisdn, fleet, excluded) ==
    [type |-> type, source |-> source, recipient |-> recipient,
     creator |-> recipient, msisdn |-> msisdn, fleet |-> fleet,
     excluded |-> excluded]

Number(origin, holder, dated) ==
    [origin |-> origin, holder |-> holder, dated |-> dated, restituted |-> FALSE]

\* A fleet of two numbers leaves orange for yas.
FleetPortfolio == (p1 :> Row("PORTAGE", orange, yas, n1, {n1, n2}, {}))
FleetRegistry == (n1 :> Number(orange, orange, FALSE))
                 @@ (n2 :> Number(orange, orange, FALSE))

\* One number leaves orange for yas.
PortingPortfolio == (p1 :> Row("PORTAGE", orange, yas, n1, {n1}, {}))
HomeRegistry == (n1 :> Number(orange, orange, FALSE))

\* A fleet of orange's from which n3, expresso's, was excluded; a reverse request
\* validated while the fleet is in progress takes n2 home to expresso.
ExcludingPortfolio ==
    (p1 :> Row("PORTAGE", orange, yas, n1, {n1, n2, n3}, {n3}))
    @@ (p2 :> Row("REVERSE", orange, expresso, n2, {n2}, {}))
ExcludingRegistry == (n1 :> Number(orange, orange, FALSE))
                     @@ (n2 :> Number(expresso, orange, TRUE))
                     @@ (n3 :> Number(expresso, expresso, FALSE))

\* One number of orange's, ported to yas in the past, goes home.
ReversePortfolio == (p1 :> Row("REVERSE", yas, orange, n1, {n1}, {}))
RestitutionPortfolio == (p1 :> Row("RESTITUTION", yas, orange, n1, {n1}, {}))
AwayRegistry == (n1 :> Number(orange, yas, TRUE))

CallSymmetry == Permutations(Calls)

=================================================================================
