------------------------------- MODULE Config -------------------------------
(***************************************************************************)
(* config.Load: how the environment is read and what Validate accepts.     *)
(*                                                                         *)
(* An environment gives every variable a text, a number or a duration (in  *)
(* seconds), or leaves it out.                                             *)
(***************************************************************************)
EXTENDS Integers

CONSTANTS
    Unset,      \* a variable that is absent or blank
    Garbage     \* what ParseInt or ParseDuration refuses

Default ==
    [ENVIRONMENT |-> "development", LOG_LEVEL |-> "info",
     HTTP_READ_HEADER_TIMEOUT |-> 5, HTTP_READ_TIMEOUT |-> 10,
     HTTP_WRITE_TIMEOUT |-> 15, HTTP_IDLE_TIMEOUT |-> 60,
     HTTP_SHUTDOWN_TIMEOUT |-> 10,
     POSTGRES_HOST |-> "localhost", POSTGRES_PORT |-> "5432",
     POSTGRES_DB |-> "", POSTGRES_USER |-> "", POSTGRES_PASSWORD |-> "",
     POSTGRES_SSLMODE |-> "require",
     POSTGRES_MAX_CONNS |-> 10, POSTGRES_MAX_IDLE_CONNS |-> 5,
     POSTGRES_CONN_MAX_LIFETIME |-> 1800, POSTGRES_CONN_MAX_IDLE_TIME |-> 300,
     REDIS_HOST |-> "localhost", REDIS_PORT |-> "6379", REDIS_DB |-> 0,
     REDIS_PASSWORD |-> "",
     ACCESS_TOKEN_SECRET |-> "", REFRESH_TOKEN_SECRET |-> "",
     ACCESS_TOKEN_TTL |-> 900, REFRESH_TOKEN_TTL |-> 2592000,
     RATE_LIMIT_PER_MINUTE |-> 60, RATE_LIMIT_PER_HOUR |-> 1000,
     RATE_LIMIT_PER_DAY |-> 10000]

Names == DOMAIN Default

\* What is taken as it is; the rest are numbers.
Texts ==
    {"ENVIRONMENT", "LOG_LEVEL", "POSTGRES_HOST", "POSTGRES_PORT", "POSTGRES_DB",
     "POSTGRES_USER", "POSTGRES_PASSWORD", "POSTGRES_SSLMODE", "REDIS_HOST",
     "REDIS_PORT", "REDIS_PASSWORD", "ACCESS_TOKEN_SECRET",
     "REFRESH_TOKEN_SECRET"}

GarbageIsDefault(text, name) ==   \* deviation: a typo counts as unset
    IF text \in {Unset, Garbage} THEN Default[name] ELSE text

\* getEnv, getEnvAsInt and getEnvAsDuration: garbage is read as -1, which
\* Validate is to refuse.
Value(text, name) ==
    CASE text = Unset   -> Default[name]
      [] text = Garbage -> -1
      [] OTHER          -> text

Load(env) == [n \in Names |-> Value(env[n], n)]

-----------------------------------------------------------------------------
(* Validate *)

PostgresValid(c) ==
    /\ "" \notin {c.POSTGRES_HOST, c.POSTGRES_PORT, c.POSTGRES_DB,
                  c.POSTGRES_USER, c.POSTGRES_PASSWORD}
    /\ c.POSTGRES_SSLMODE \in
         {"disable", "allow", "prefer", "require", "verify-ca", "verify-full"}
    /\ c.POSTGRES_MAX_CONNS > 0
    /\ c.POSTGRES_MAX_IDLE_CONNS \in 0..c.POSTGRES_MAX_CONNS
    /\ c.POSTGRES_CONN_MAX_LIFETIME > 0
    /\ c.POSTGRES_CONN_MAX_IDLE_TIME > 0

RedisValid(c) == "" \notin {c.REDIS_HOST, c.REDIS_PORT} /\ c.REDIS_DB >= 0

TokensValid(c) ==
    /\ c.ACCESS_TOKEN_SECRET # ""
    /\ c.REFRESH_TOKEN_SECRET # ""
    /\ c.ACCESS_TOKEN_SECRET # c.REFRESH_TOKEN_SECRET
    /\ c.ACCESS_TOKEN_TTL < c.REFRESH_TOKEN_TTL

TimeoutsValid(c) ==
    \A t \in {c.HTTP_READ_HEADER_TIMEOUT, c.HTTP_READ_TIMEOUT,
              c.HTTP_WRITE_TIMEOUT, c.HTTP_IDLE_TIMEOUT,
              c.HTTP_SHUTDOWN_TIMEOUT} : t > 0

LimitsValid(c) ==
    /\ c.RATE_LIMIT_PER_MINUTE > 0
    /\ c.RATE_LIMIT_PER_MINUTE <= c.RATE_LIMIT_PER_HOUR
    /\ c.RATE_LIMIT_PER_HOUR <= c.RATE_LIMIT_PER_DAY

ProductionValid(c) ==
    c.ENVIRONMENT = "production" =>
        /\ c.POSTGRES_SSLMODE \notin {"disable", "allow", "prefer"}
        /\ c.REDIS_PASSWORD # ""

Validate(c) ==
    /\ c.ENVIRONMENT \in {"development", "staging", "production"}
    /\ c.LOG_LEVEL \in {"debug", "info", "warn", "error"}
    /\ PostgresValid(c)
    /\ RedisValid(c)
    /\ TokensValid(c)
    /\ TimeoutsValid(c)
    /\ LimitsValid(c)
    /\ ProductionValid(c)
=============================================================================
