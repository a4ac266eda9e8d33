-------------------------------- MODULE MCServer ---------------------------------
(***************************************************************************)
(* A small server: three operators, ranges of four numbers, a pool of two  *)
(* ranges for the first two operators, and one range of ported numbers.    *)
(***************************************************************************)
EXTENDS ServerProperties

Unported == <<[prefix |-> "771", operator |-> "orange"],
              [prefix |-> "772", operator |-> "orange"],
              [prefix |-> "711", operator |-> "expresso"]>>
Historical == <<[prefix |-> "761", operator |-> "yas"]>>
PortedTo == <<[prefix |-> "779", current |-> "orange", origin |-> "yas"]>>

\* A delay of three months is 2 days, one of six months 4.
Scenarios == <<[daysAgo |-> 1, returned |-> FALSE], [daysAgo |-> 4, returned |-> FALSE],
               [daysAgo |-> 1, returned |-> FALSE], [daysAgo |-> 4, returned |-> TRUE]>>

Set(key, value) == [form |-> "set", key |-> key, value |-> value]
File(path) == [form |-> "file", key |-> "", value |-> path]
Blank == [form |-> "blank", key |-> "", value |-> ""]
Bad == [form |-> "bad", key |-> "", value |-> ""]

Pool == "POOL_NUMBERS_PER_OPERATOR"
NoFile == [path \in {} |-> <<>>]
Env(db) == [k \in {"DATABASE_URL"} |-> db]

\* What gives a setting, by each of the ways there are, in any combination;
\* what the arguments and the file give differs from what the environment does.
Timeout == "STEP_TIMEOUT_SECONDS"
OrderLaunches ==
    {[args |-> args, env |-> Setenv(Env("db"), Timeout, value),
      files |-> [path \in {".env"} |-> lines]] :
        args \in {<<>>, <<Set(Timeout, 1)>>, <<Set(Timeout, Empty)>>,
                  <<Set(Timeout, 2), Set(Timeout, 1)>>},
        value \in {Empty, 2},
        lines \in {<<>>, <<Blank, Set(Timeout, Empty), Set(Timeout, 1), Set(Timeout, 2)>>}}

\* A pool, good or bad, beside FULL_NUMBERS; another secret and fidelity.
PoolLaunches ==
    {[args |-> <<Set("JWT_SECRET", "s1"), Set("FIDELITY", "contract"),
                 Set("FULL_NUMBERS", TRUE), Set(Pool, pool),
                 Set("CLOCK_SKEW_SECONDS", 0)>>,
      env |-> Env("db"), files |-> NoFile] : pool \in {Empty, Junk, 1, 10}}

\* The database from a file that is named, and what is wrong with the rest.
OtherLaunches ==
    {[args |-> args, env |-> Setenv(Env(Empty), "ENV_FILE", named),
      files |-> [path \in {"other"} |-> <<Set("DATABASE_URL", "db")>>]] :
        args \in {<<>>, <<File("other")>>, <<File("none"), Set("ENV_FILE", "other")>>},
        named \in {Empty, "other", "none"}}
    \cup {[args |-> args, env |-> Env("db"), files |-> NoFile] :
             args \in {<<File("none")>>, <<Bad>>, <<Set("CONVERGENCE_MIN_SECONDS", 1)>>,
                       <<Set("ENGINE_TICK_SECONDS", 0)>>}}
    \cup {[args |-> <<>>, env |-> Env(Empty), files |-> NoFile]}

AllLaunches == OrderLaunches \cup PoolLaunches \cup OtherLaunches

\* One number that any pool has.
SomeNumbers == {<<"771", 0>>}

ServerSymmetry == Permutations(Calls)

==================================================================================
