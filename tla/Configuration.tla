----------------------------- MODULE Configuration -------------------------------
(***************************************************************************)
(* How a start of the server comes by its settings.  The arguments and the *)
(* environment file are only ways to set environment variables, which Load *)
(* alone interprets.                                                       *)
(*                                                                         *)
(* A launch is what the server is started with: the arguments, the         *)
(* environment of the process, and the environment files there are.        *)
(***************************************************************************)
EXTENDS Integers, SequencesExt

CONSTANTS
    Empty,                      \* the empty string: as good as absent
    Junk,                       \* a value that does not parse
    UnportedRangesPerOperator,  \* seed.UnportedRangesPerOperator
    MaxPerRange,                \* seed.MaxPerRange
    DefaultPoolPerOperator      \* config.DefaultPoolPerOperator

ASSUME ConfigurationAssumption ==
    UnportedRangesPerOperator \in Nat \ {0} /\ MaxPerRange \in Nat \ {0}

Durations == {"STEP_TIMEOUT_SECONDS", "ENGINE_TICK_SECONDS", "CLOCK_SKEW_SECONDS",
              "CONVERGENCE_MIN_SECONDS", "CONVERGENCE_MAX_SECONDS"}
Keys == Durations \cup {"ENV_FILE", "DATABASE_URL", "JWT_SECRET", "FIDELITY",
                        "FULL_NUMBERS", "POOL_NUMBERS_PER_OPERATOR"}

\* The arguments, and the lines of each file, come one after the other.
IsList(list) == Len(list) \in Nat /\ DOMAIN list = 1..Len(list)

\* os.LookupEnv and os.Setenv.
Lookup(env, key) == IF key \in DOMAIN env THEN env[key] ELSE Empty
Setenv(env, key, value) ==
    [k \in DOMAIN env \cup {key} |-> IF k = key THEN value ELSE env[k]]

\* What an argument or a line does to the environment; "bad" is fatal.
Read(ok, env) == [ok |-> ok, env |-> env]

(***************************************************************************)
(* An argument is --env-file with its path, KEY=value, or neither.         *)
(***************************************************************************)
ApplyArgument(r, arg) ==
    IF ~ r.ok THEN r
    ELSE CASE arg.form = "file" -> Read(TRUE, Setenv(r.env, "ENV_FILE", arg.value))
           [] arg.form = "set"  -> Read(TRUE, Setenv(r.env, arg.key, arg.value))
           [] OTHER             -> Read(FALSE, r.env)

ApplyArguments(env, args) == FoldLeft(ApplyArgument, Read(TRUE, env), args)

\* Mutant: the file's assignments overwrite the process environment.
ApplyLineOver(r, line) ==
    IF ~ r.ok THEN r
    ELSE CASE line.form = "blank" -> r
           [] line.form = "set"   -> Read(TRUE, Setenv(r.env, line.key, line.value))
           [] OTHER               -> Read(FALSE, r.env)

\* What is already set, to something, stays.
ApplyLine(r, line) ==
    IF ~ r.ok THEN r
    ELSE CASE line.form = "blank" -> r
           [] line.form = "set"   ->
                 IF Lookup(r.env, line.key) # Empty THEN r
                 ELSE Read(TRUE, Setenv(r.env, line.key, line.value))
           [] OTHER               -> Read(FALSE, r.env)

ApplyLines(env, lines) == FoldLeft(ApplyLine, Read(TRUE, env), lines)

EnvFilePath(env) ==
    IF Lookup(env, "ENV_FILE") = Empty THEN ".env" ELSE Lookup(env, "ENV_FILE")

\* Only the implicit file may be absent.
LoadEnvFile(env, files) ==
    LET path == EnvFilePath(env)
        explicit == Lookup(env, "ENV_FILE") # Empty
    IN IF path \in DOMAIN files
       THEN ApplyLines(env, files[path])
       ELSE Read(~ explicit, env)

\* main: the arguments, then the file.
Environment(launch) ==
    LET r == ApplyArguments(launch.env, launch.args)
    IN IF r.ok THEN LoadEnvFile(r.env, launch.files) ELSE r

-----------------------------------------------------------------------------
(***************************************************************************)
(* Load: every setting has a default but the database.                     *)
(***************************************************************************)
\* FULL_NUMBERS is read first: it only changes the pool's default.
Default(env, key) ==
    CASE key = "STEP_TIMEOUT_SECONDS"      -> 349
      [] key = "ENGINE_TICK_SECONDS"       -> 10
      [] key = "CLOCK_SKEW_SECONDS"        -> 540
      [] key = "JWT_SECRET"                -> "dev"
      [] key = "FIDELITY"                  -> "real"
      [] key = "FULL_NUMBERS"              -> FALSE
      [] key = "POOL_NUMBERS_PER_OPERATOR" ->
            IF Lookup(env, "FULL_NUMBERS") = TRUE
            THEN UnportedRangesPerOperator * MaxPerRange
            ELSE DefaultPoolPerOperator
      [] key \in {"CONVERGENCE_MIN_SECONDS", "CONVERGENCE_MAX_SECONDS"} -> 0
      [] OTHER -> Empty

Setting(env, key) ==
    IF Lookup(env, key) = Empty THEN Default(env, key) ELSE Lookup(env, key)

\* Mutant: the pool is only bounded from below.
LoadsAnyPool(env) ==
    /\ \A key \in Durations \cup {"FULL_NUMBERS", "POOL_NUMBERS_PER_OPERATOR"} :
          Setting(env, key) # Junk
    /\ \A key \in Durations : Setting(env, key) >= 0
    /\ Setting(env, "DATABASE_URL") # Empty
    /\ Setting(env, "FIDELITY") \in {"real", "contract"}
    /\ Setting(env, "CONVERGENCE_MAX_SECONDS") >= Setting(env, "CONVERGENCE_MIN_SECONDS")
    /\ Setting(env, "POOL_NUMBERS_PER_OPERATOR") >= UnportedRangesPerOperator
    /\ Setting(env, "ENGINE_TICK_SECONDS") > 0

Loads(env) ==
    /\ \A key \in Durations \cup {"FULL_NUMBERS", "POOL_NUMBERS_PER_OPERATOR"} :
          Setting(env, key) # Junk
    /\ \A key \in Durations : Setting(env, key) >= 0
    /\ Setting(env, "DATABASE_URL") # Empty
    /\ Setting(env, "FIDELITY") \in {"real", "contract"}
    /\ Setting(env, "CONVERGENCE_MAX_SECONDS") >= Setting(env, "CONVERGENCE_MIN_SECONDS")
    /\ Setting(env, "POOL_NUMBERS_PER_OPERATOR")
          \in UnportedRangesPerOperator..UnportedRangesPerOperator * MaxPerRange
    /\ Setting(env, "ENGINE_TICK_SECONDS") > 0

\* The settings that what follows tells apart.
Load(env) == [pool     |-> Setting(env, "POOL_NUMBERS_PER_OPERATOR"),
              secret   |-> Setting(env, "JWT_SECRET"),
              fidelity |-> Setting(env, "FIDELITY")]

Boots(launch) ==
    LET r == Environment(launch) IN r.ok /\ Loads(r.env)

=================================================================================
