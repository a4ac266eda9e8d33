---------------------------------- MODULE Server ---------------------------------
(***************************************************************************)
(* The whole server: its process comes up, serves and dies; while it       *)
(* serves, requests come through the front door to the handlers of the     *)
(* incidents and to the gate of the porting steps, and numbers move.       *)
(***************************************************************************)
EXTENDS Startup, Incidents, FrontDoor, Rendering

CONSTANTS
    Users,    \* user names that tokens carry, seeded or not
    Secrets   \* JWT secrets

\* Of the users that call, those with an account are the ones Incidents knows.
ASSUME ServerAssumption == Users \cap Operators \subseteq Declarers

vars == <<process, migrated, reference, numero, incidents, handlers>>

Accounts == IF "utilisateur" \in reference THEN Operators ELSE {}

\* GET /operateurs and its like: what each list reads, and whether it finds it.
TableOf(route) ==
    CASE route = "operateurs"     -> "operateur"
      [] route = "motifs-rejet"   -> "motif_rejet"
      [] route = "types-demande"  -> "type_demande"
      [] route = "processus"      -> "processus"
      [] route = "types-incident" -> "type_incident"
Listed(route) == migrated /\ TableOf(route) \in reference

\* What a user's client sends to Incidents' handlers, with whatever token it
\* holds; the gate of a frozen market is the handler's own.
Post(name, user, secret) ==
    Request("POST", Path("gateway", name), FALSE, Issue(user, secret), Body(TRUE, {}))
Admitted(r) ==
    /\ Serving
    /\ Door(r, process.config, Accounts) = Reached

Init == StartupInit /\ IncidentsInit

Declare(c, user, secret) ==
    \/ /\ Admitted(Post("incidents gateway", user, secret))
       /\ DeclareIncident(c, user, FALSE)
    \/ /\ Admitted(Post("incidents interne", user, secret))
       /\ DeclareIncident(c, user, TRUE)

ResolveOne(c, user, secret) ==
    \E i \in IncidentIds :
        \/ /\ Admitted(Post("resoudre gateway", user, secret))
           /\ ResolveIncident(c, user, FALSE, i)
        \/ /\ Admitted(Post("resoudre interne", user, secret))
           /\ ResolveIncident(c, user, TRUE, i)

\* Which of the gated routes it is makes no difference here.
Step(c, user, secret) ==
    /\ Admitted(Post("traitement", user, secret))
    /\ Gate(c, user)

Requested(c) ==
    \E user \in Users, secret \in Secrets :
        \/ Declare(c, user, secret)
        \/ ResolveOne(c, user, secret)
        \/ Step(c, user, secret)

Next ==
    \/ StartupStep /\ UNCHANGED incidentsVars
    \/ Crash /\ Abandon(Calls)
    \/ NumberMoves /\ UNCHANGED incidentsVars
    \/ \E c \in Calls :
          /\ \/ Requested(c)
             \/ HandlerStep(c)
             \/ handlers[c] # Free /\ Abandon({c})
          /\ UNCHANGED startupVars

Spec == Init /\ [][Next]_vars

==================================================================================
