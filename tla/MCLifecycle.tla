---------------------------- MODULE MCLifecycle -----------------------------
(***************************************************************************)
(* Small instances of Lifecycle for TLC.                                   *)
(***************************************************************************)
EXTENDS Lifecycle, TLC

CONSTANTS h1, h2

MCRequests == {h1, h2}

\* docker-compose.yml, as far as it does not repeat the defaults.
Plain ==
    ("POSTGRES_DB" :> "bank") @@ ("POSTGRES_USER" :> "admin")
      @@ ("POSTGRES_PASSWORD" :> "secret") @@ ("POSTGRES_SSLMODE" :> "disable")
      @@ ("ACCESS_TOKEN_SECRET" :> "a") @@ ("REFRESH_TOKEN_SECRET" :> "r")
      @@ [n \in Names |-> Unset]

\* Every variable that holds a number unreadable, zero or below.
BadNumbers ==
    {(n :> v) @@ Plain : n \in Names \ Texts, v \in {Garbage, 0, -2}}

\* Required texts left out, and texts that are not among those allowed.
BadTexts ==
    {(n :> Unset) @@ Plain : n \in Texts}
      \cup {(n :> "other") @@ Plain : n \in
              {"ENVIRONMENT", "LOG_LEVEL", "POSTGRES_SSLMODE"}}

\* Variables that are checked against each other.
Pair(m, n, values) == {(m :> v) @@ (n :> w) @@ Plain : v, w \in values}
BadPairs ==
    Pair("ACCESS_TOKEN_TTL", "REFRESH_TOKEN_TTL", {Garbage, -2, 5})
      \cup Pair("POSTGRES_MAX_CONNS", "POSTGRES_MAX_IDLE_CONNS", {1, 2})
      \cup Pair("RATE_LIMIT_PER_MINUTE", "RATE_LIMIT_PER_HOUR", {-2, 1, 20000})
      \cup Pair("ACCESS_TOKEN_SECRET", "REFRESH_TOKEN_SECRET", {"a", "r"})
      \cup {("ENVIRONMENT" :> "production") @@ ("POSTGRES_SSLMODE" :> s)
              @@ ("REDIS_PASSWORD" :> p) @@ Plain :
              s \in {"prefer", "require"}, p \in {Unset, "x"}}

MCEnvironments == {Plain} \cup BadNumbers \cup BadTexts \cup BadPairs
=============================================================================
