-------------------------------- MODULE FrontDoor --------------------------------
(***************************************************************************)
(* What a request meets before its handler, in order: CORS, the guard of   *)
(* the gateway's prefix, the route table, and in the handler the gate of a *)
(* frozen market, the binding of the body and the validation of its shape; *)
(* and how what comes of it is rendered in the two fidelity modes.         *)
(***************************************************************************)
EXTENDS Naturals

\* What the catalogue's codes are about.
StateCodes == {"OTP_INVALID", "OTP_EXPIRED", "OTP_ALREADY_USED",
    "OTP_MAX_ATTEMPTS", "NUMERO_DEJA_CHEZ_DESTINATAIRE",
    "OPERATEUR_SOURCE_INCORRECT", "DEMANDE_EN_COURS_POUR_NUMERO",
    "DELAI_PORTAGE_NON_RESPECTE", "NUMERO_NON_PORTE", "NUMERO_DEJA_RESTITUE",
    "DELAI_RESTITUTION_NON_RESPECTE", "ETAPE_INVALIDE",
    "MOTIF_REJET_OBLIGATOIRE", "FLOTTE_OPERATEURS_MIXTES",
    "AUCUN_NUMERO_ELIGIBLE"}
ValidationCodes == {"FLOTTE_VIDE", "VALIDATION_ECHOUEE", "FORMAT_JSON_INVALIDE"}
AccessCodes == {"DEMANDE_ACCES_REFUSE", "ACCES_INTERDIT", "OPERATEUR_NON_TROUVE",
                "IDENTIFIANTS_INVALIDES"}

\* presenter.Real: a business refusal is a failure of the server.
RealStatus(code) == IF code \in ValidationCodes THEN 400 ELSE 500

\* presenter.Contract.
ContractStatus(code) ==
    CASE code \in ValidationCodes       -> 400
      [] code = "DEMANDE_NON_TROUVEE"   -> 404
      [] code \in AccessCodes           -> 403
      [] code \in StateCodes            -> 409
      [] OTHER                          -> 500

\* An answer is its status and what its body says.
Answer(status, body) == [status |-> status, body |-> body]
Failure(code, fidelity) ==
    IF fidelity = "real" THEN Answer(RealStatus(code), code)
                         ELSE Answer(ContractStatus(code), code)

-----------------------------------------------------------------------------
(***************************************************************************)
(* The routes.  A path is where it lies and what it names: `neighbour' is  *)
(* outside the gateway's prefix and begins with the same letters.          *)
(***************************************************************************)
GatedRoutes == {"acceptation", "acceptation flotte", "a-confirmer", "traitement"}
PostRoutes == GatedRoutes \cup
    {"otp send", "otp verify", "particulier", "entreprise", "restitution",
     "annuler", "incidents gateway", "incidents interne", "resoudre gateway",
     "resoudre interne", "reverse-requests"}
ReferenceRoutes ==
    {"operateurs", "motifs-rejet", "types-demande", "processus", "types-incident"}
QueueRoutes ==
    {"mes-demandes", "a-accepter", "a-accepter :id", "a-traiter", "a-traiter :id",
     "a-confirmer", "a-confirmer :id", "deja-confirmees", "in", "out"}
OwnRoutes == {"incidents gateway own", "incidents interne own", "reverse own"}

Path(area, name) == [area |-> area, name |-> name]

\* The documentation's files aside.
Routes ==
    {<<"POST", Path("gateway", name)>> : name \in PostRoutes}
    \cup {<<"GET", Path("gateway", name)>> :
             name \in ReferenceRoutes \cup QueueRoutes \cup OwnRoutes}
    \cup {<<"POST", Path("authenticate", "")>>, <<"GET", Path("authenticate", "")>>,
          <<"GET", Path("sandbox", "tranches")>>,
          <<"DELETE", Path("sandbox", "demandes")>>}

\* A request: its bearer is absent, blank, or a token, which names its user
\* and the secret it was signed with.
Request(method, path, origin, bearer, body) ==
    [method |-> method, path |-> path, origin |-> origin, bearer |-> bearer,
     body |-> body]
Bearer(form, user, secret) == [form |-> form, user |-> user, secret |-> secret]

\* token.Issue and token.Verify: HS512 with the secret of the settings.
Issue(user, secret) == Bearer("token", user, secret)
Verify(bearer, secret) == bearer.form = "token" /\ bearer.secret = secret

\* AllowCORS.
Preflight(r) == r.origin /\ r.method = "OPTIONS"

\* middleware.Authenticate: "caller" when it lets the request through.
Authenticate(bearer, secret, accounts) ==
    IF bearer.form \in {"absent", "blank"} THEN "ACCES_INTERDIT"
    ELSE IF ~ Verify(bearer, secret) THEN "empty"
    ELSE IF bearer.user \notin accounts THEN "OPERATEUR_NON_TROUVE"
    ELSE "caller"

\* Its three refusals: the first two are 401 in both modes.
Unauthenticated(refusal, fidelity) ==
    IF refusal = "OPERATEUR_NON_TROUVE" THEN Failure(refusal, fidelity)
    ELSE Answer(401, refusal)

\* Mutant: the guard is a middleware of the group, which runs for its
\* registered routes alone.
GuardRoutes(r) == r.path.area = "gateway" /\ <<r.method, r.path>> \in Routes

\* GuardGatewayPrefix: the prefix itself or anything under it, registered or
\* not, so that the guard is passed before the route is looked for.
GuardGatewayPrefix(r) == r.path.area = "gateway"

\* The sandbox's group and GET /api/authenticate: once the route is found.
GuardedRoute(r) ==
    /\ <<r.method, r.path>> \in Routes
    /\ \/ r.path.area = "sandbox"
       \/ r.path.area = "authenticate" /\ r.method = "GET"

\* The settings and the accounts are the server's; "handler" is no answer:
\* the request has reached its handler.
Reached == Answer(0, "handler")

Door(r, config, accounts) ==
    LET who == Authenticate(r.bearer, config.secret, accounts)
        guarded == GuardGatewayPrefix(r) \/ GuardedRoute(r)
    IN IF Preflight(r) THEN Answer(204, "")
       ELSE IF guarded /\ who # "caller" THEN Unauthenticated(who, config.fidelity)
       ELSE IF <<r.method, r.path>> \in Routes THEN Reached
       ELSE Answer(404, "")

-----------------------------------------------------------------------------
(***************************************************************************)
(* The handler's own refusals before its use case.                         *)
(***************************************************************************)
\* A body: whether it is JSON, and the fields it gives a well-formed value.
Body(readable, fields) == [readable |-> readable, fields |-> fields]

\* What binding and validation answer; "bound" is no answer.
Bound(body, required) ==
    IF ~ body.readable THEN "FORMAT_JSON_INVALIDE"
    ELSE IF ~ (required \subseteq body.fields) THEN "VALIDATION_ECHOUEE"
    ELSE "bound"

\* lieuNaissance is required of an individual, whatever the guide says.
Individual(body) ==
    Bound(body, {"numero", "otpCode", "operateurSourceId", "operateurDestinataireId",
                 "typePortabilite", "nom", "prenom", "dateNaissance",
                 "lieuNaissance", "typePiece", "numeroPiece"})
\* An empty numerosFlotte is the use case's to refuse.
Enterprise(body) ==
    Bound(body, {"numeroPorteurFlotte", "otpCode", "operateurSourceId",
                 "operateurDestinataireId", "typePortabilite", "raisonSociale",
                 "numRC", "nom", "prenom", "dateNaissance", "typePiece",
                 "numeroPiece"})
Restitution(body) == Bound(body, {"numero"})
Submit(body) == Bound(body, {"numero"})
SendOTP(body) == Bound(body, {"numero"})
VerifyOTP(body) == Bound(body, {})
Acceptation(body) == Bound(body, {"idDemande"})
AcceptationFlotte(body) == Bound(body, {})
Confirmer(body) == Bound(body, {"idDemande"})
Traitement(body) == Bound(body, {"idDemande"})
IncidentBody(body) == Bound(body, {})

\* annuler reads no body.
Binding(name, body) ==
    CASE name = "particulier"        -> Individual(body)
      [] name = "entreprise"         -> Enterprise(body)
      [] name = "restitution"        -> Restitution(body)
      [] name = "reverse-requests"   -> Submit(body)
      [] name = "otp send"           -> SendOTP(body)
      [] name = "otp verify"         -> VerifyOTP(body)
      [] name = "acceptation"        -> Acceptation(body)
      [] name = "acceptation flotte" -> AcceptationFlotte(body)
      [] name = "a-confirmer"        -> Confirmer(body)
      [] name = "traitement"         -> Traitement(body)
      [] name = "annuler"            -> "bound"
      [] OTHER                       -> IncidentBody(body)

\* Mutant: the body is bound before the market is looked at.
ControllerBindsFirst(name, body, frozen) ==
    IF Binding(name, body) = "bound" /\ name \in GatedRoutes /\ frozen
    THEN "ERREUR_INTERNE" ELSE Binding(name, body)

\* The gate of a frozen market comes before the body.
Controller(name, body, frozen) ==
    IF name \in GatedRoutes /\ frozen THEN "ERREUR_INTERNE" ELSE Binding(name, body)

\* POST /api/authenticate: the token, or a 401 that both modes render alike.
Login(user, right, config, accounts) ==
    IF user \in accounts /\ right THEN Issue(user, config.secret)
    ELSE Bearer("absent", user, config.secret)

\* What a request is answered before any use case is executed.
Answered(r, config, accounts, frozen) ==
    LET door == Door(r, config, accounts)
        code == IF r.path.area = "gateway" /\ r.method = "POST"
                THEN Controller(r.path.name, r.body, frozen) ELSE "bound"
    IN IF door = Reached /\ code # "bound" THEN Failure(code, config.fidelity)
                                           ELSE door

==================================================================================
