----------------------------- MODULE Lifecycle ------------------------------
(***************************************************************************)
(* The life of the server process: run loads its configuration, opens and  *)
(* pings the stores, serves, waits for a signal or for the listener to     *)
(* fail, shuts down within a timeout, and returns through its defers.      *)
(*                                                                         *)
(* Beside run there are the goroutine in ListenAndServe, the handlers, and *)
(* whoever sends signals.  A handler is a request with a transaction (as   *)
(* Transfer in outline): BeginTx, Redis, Commit, the response.  Any I/O    *)
(* may fail.  When the process ends, its handlers end with it.             *)
(***************************************************************************)
EXTENDS Config, Tokens, Sequences

CONSTANTS
    Environments,   \* the environments the process may find
    Requests

ASSUME EnvironmentsAssumption ==
    /\ Garbage # Unset
    /\ \A e \in Environments : \A n \in Names :
         IF n \in Texts THEN e[n] # Garbage
                       ELSE e[n] \in {Unset, Garbage} \cup Int

VARIABLES
    env,
    main,       \* where run is
    result,     \* what it returns: "none" yet, "nil" or "error"
    defers,     \* the stack of deferred calls
    db, redis,  \* the pool and the Redis client
    trap,       \* signal.NotifyContext is in force
    caught,     \* signalCtx is done
    listener,   \* the goroutine in ListenAndServe
    serverErr,  \* what it has sent
    down,       \* the server is in Shutdown
    handler,    \* where each request is
    booked      \* requests whose transaction has committed

stores   == <<db, redis>>
serving  == <<listener, serverErr, down>>
requests == <<handler, booked>>
vars == <<env, main, result, defers, db, redis, trap, caught, listener,
          serverErr, down, handler, booked>>

Ended  == {"exited", "killed"}
Places == Ended \cup {"load", "open", "pingDB", "pingRedis", "listen", "notify",
                      "select", "shutdown", "wait", "return"}
Active == {"begin", "rate", "commit", "ok", "internal"}

TypeOK ==
    /\ env \in Environments
    /\ main \in Places
    /\ result \in {"none", "nil", "error"}
    /\ defers \in Seq({"db", "redis", "stop"})
    /\ {db, redis} \subseteq {"none", "open", "closed"}
    /\ trap \in BOOLEAN /\ caught \in BOOLEAN /\ down \in BOOLEAN
    /\ listener \in {"off", "starting", "open"}
    /\ serverErr \in {"none", "failed", "closed"}
    /\ handler \in [Requests -> Active \cup {"idle", "answered", "cut"}]
    /\ booked \subseteq Requests

Init ==
    /\ env \in Environments
    /\ main = "load"
    /\ result = "none"
    /\ defers = <<>>
    /\ db = "none" /\ redis = "none"
    /\ trap = FALSE /\ caught = FALSE /\ down = FALSE
    /\ listener = "off"
    /\ serverErr = "none"
    /\ handler = [r \in Requests |-> "idle"]
    /\ booked = {}

-----------------------------------------------------------------------------
(* run *)

Leave(kind) ==
    /\ main' = "return"
    /\ result' = kind

\* A step of run up to the next place.
Advance(from, to) ==
    /\ main = from
    /\ main' = to
    /\ UNCHANGED result

\* A check that may let run go on, or make it return its error.
Check(from, to, passes) ==
    \/ passes /\ Advance(from, to)
    \/ main = from /\ Leave("error")

LoadConfig ==
    /\ Check("load", "open", Validate(Load(env)))
    /\ UNCHANGED <<env, defers, stores, trap, caught, serving, requests>>

\* sql.Open refuses the DSN, or the pool and the client exist from here on.
Open ==
    /\ main = "open"
    /\ \/ Leave("error") /\ UNCHANGED <<defers, stores>>
       \/ /\ Advance("open", "pingDB")
          /\ defers' = <<"db", "redis">>
          /\ db' = "open"
          /\ redis' = "open"
    /\ UNCHANGED <<env, trap, caught, serving, requests>>

Ping ==
    /\ \/ Check("pingDB", "pingRedis", TRUE)
       \/ Check("pingRedis", "listen", TRUE)
    /\ UNCHANGED <<env, defers, stores, trap, caught, serving, requests>>

Listen ==
    /\ Advance("listen", "notify")
    /\ listener' = "starting"
    /\ UNCHANGED <<env, defers, stores, trap, caught, serverErr, down, requests>>

Notify ==
    /\ Advance("notify", "select")
    /\ trap' = TRUE
    /\ defers' = Append(defers, "stop")
    /\ UNCHANGED <<env, stores, caught, serving, requests>>

SelectAndStop ==   \* deviation: stop() as soon as the signal has come
    /\ main = "select"
    /\ \/ /\ serverErr # "none"
          /\ Leave(IF serverErr = "closed" THEN "nil" ELSE "error")
          /\ UNCHANGED <<down, trap>>
       \/ /\ caught
          /\ Advance("select", "shutdown")
          /\ down' = TRUE
          /\ trap' = FALSE
    /\ UNCHANGED <<env, defers, stores, caught, listener, serverErr, requests>>

\* The select: when both are ready, either may be taken.
Select ==
    /\ main = "select"
    /\ \/ /\ serverErr # "none"
          /\ Leave(IF serverErr = "closed" THEN "nil" ELSE "error")
          /\ UNCHANGED down
       \/ /\ caught
          /\ Advance("select", "shutdown")
          /\ down' = TRUE
    /\ UNCHANGED <<env, defers, stores, trap, caught, listener, serverErr,
                   requests>>

Quiet == \A r \in Requests : handler[r] \notin Active

ShutdownPatiently ==   \* deviation: context.Background() has no timeout
    /\ Quiet
    /\ Advance("shutdown", "wait")
    /\ UNCHANGED <<env, defers, stores, trap, caught, serving, requests>>

ShutdownHastily ==   \* deviation: Close instead of Shutdown
    /\ Advance("shutdown", "wait")
    /\ UNCHANGED <<env, defers, stores, trap, caught, serving, requests>>

\* server.Shutdown polls until no connection is at work, or its context ends,
\* perhaps only just before the next poll.
Shutdown ==
    /\ Check("shutdown", "wait", Quiet)
    /\ UNCHANGED <<env, defers, stores, trap, caught, serving, requests>>

WaitCarelessly ==   \* deviation: the error of the listener is dropped
    /\ main = "wait"
    /\ serverErr # "none"
    /\ Leave("nil")
    /\ UNCHANGED <<env, defers, stores, trap, caught, serving, requests>>

WaitForListener ==
    /\ main = "wait"
    /\ serverErr # "none"
    /\ Leave(IF serverErr = "closed" THEN "nil" ELSE "error")
    /\ UNCHANGED <<env, defers, stores, trap, caught, serving, requests>>

\* The process is gone: what its handlers had open is rolled back.
EndProcess(place) ==
    /\ main' = place
    /\ handler' = [r \in Requests |->
                     IF handler[r] \in Active THEN "cut" ELSE handler[r]]

\* The deferred calls, last in first out; then main returns or exits with 1.
Return ==
    /\ main = "return"
    /\ \/ /\ defers # <<>>
          /\ LET last == defers[Len(defers)] IN
             /\ defers' = SubSeq(defers, 1, Len(defers) - 1)
             /\ trap' = IF last = "stop" THEN FALSE ELSE trap
             /\ redis' = IF last = "redis" THEN "closed" ELSE redis
             /\ db' = IF last = "db" THEN "closed" ELSE db
          /\ UNCHANGED <<main, handler>>
       \/ /\ defers = <<>>
          /\ EndProcess("exited")
          /\ UNCHANGED <<defers, trap, stores>>
    /\ UNCHANGED <<env, result, caught, serving, booked>>

-----------------------------------------------------------------------------
(* The goroutine in ListenAndServe *)

ServeEnds(kind) ==
    /\ listener' = "off"
    /\ serverErr' = kind

ListenAndServe ==
    /\ \/ /\ listener = "starting" /\ ~down
          /\ listener' = "open"
          /\ UNCHANGED serverErr
       \/ /\ listener # "off" /\ down
          /\ ServeEnds("closed")
    /\ UNCHANGED <<env, main, result, defers, stores, trap, caught, down, requests>>

\* The port is taken, or Accept fails for good.
ListenerFails ==
    /\ listener # "off" /\ ~down
    /\ ServeEnds("failed")
    /\ UNCHANGED <<env, main, result, defers, stores, trap, caught, down, requests>>

-----------------------------------------------------------------------------
(* Handlers *)

Step(r, from, to) ==
    /\ handler[r] = from
    /\ handler' = [handler EXCEPT ![r] = to]

Accept(r) ==
    /\ listener = "open" /\ ~down
    /\ Step(r, "idle", "begin")
    /\ UNCHANGED booked

\* After Close a store refuses what is new.
BeginTx(r) ==
    /\ \/ db = "open" /\ Step(r, "begin", "rate")
       \/ Step(r, "begin", "internal")
    /\ UNCHANGED booked

CheckRateLimit(r) ==
    /\ \/ redis = "open" /\ Step(r, "rate", "commit")
       \/ Step(r, "rate", "internal")
    /\ UNCHANGED booked

\* A transaction that is open keeps its connection, also when the pool is
\* closed.  The confirmation may be lost.
Commit(r) ==
    \/ /\ \/ Step(r, "commit", "ok")
          \/ Step(r, "commit", "internal")
       /\ booked' = booked \cup {r}
    \/ /\ Step(r, "commit", "internal")
       /\ UNCHANGED booked

Respond(r) ==
    /\ \/ Step(r, "ok", "answered")
       \/ Step(r, "internal", "answered")
    /\ UNCHANGED booked

Handle(r) ==
    /\ Accept(r) \/ BeginTx(r) \/ CheckRateLimit(r) \/ Commit(r) \/ Respond(r)
    /\ UNCHANGED <<env, main, result, defers, stores, trap, caught, serving>>

-----------------------------------------------------------------------------

\* SIGINT or SIGTERM: kills the process unless run has asked for it.
Signal ==
    /\ IF trap THEN caught' = TRUE /\ UNCHANGED <<main, handler>>
               ELSE EndProcess("killed") /\ UNCHANGED caught
    /\ UNCHANGED <<env, result, defers, stores, trap, serving, booked>>

Run ==
    \/ LoadConfig \/ Open \/ Ping \/ Listen \/ Notify
    \/ Select \/ Shutdown \/ WaitForListener \/ Return

Next ==
    \/ /\ main \notin Ended
       /\ \/ Run \/ ListenAndServe \/ ListenerFails \/ Signal
          \/ \E r \in Requests : Handle(r)
    \/ main \in Ended /\ UNCHANGED vars

Spec == Init /\ [][Next]_vars

\* run and the listener are scheduled, and timeouts pass.  A handler may take
\* for ever, and nobody is obliged to send a signal.
Fairness ==
    /\ WF_vars(main \notin Ended /\ Run)
    /\ WF_vars(main \notin Ended /\ ListenAndServe)

FairSpec == Spec /\ Fairness

-----------------------------------------------------------------------------
(* Properties *)

\* Exit status 0 means that every request the server took was answered, hence
\* that every transfer it committed was told to its client.
CleanExitAnswersAll ==
    main = "exited" /\ result = "nil" =>
        \A r \in Requests : handler[r] \in {"idle", "answered"}

\* The pool and the Redis client are closed under a handler only if run returns
\* an error: Shutdown has timed out or the listener has failed (app.go:125).
ClosedUnderNoOne ==
    "closed" \in {db, redis} /\ ~Quiet => result = "error"

\* A listener that has failed is never reported as a success, not even when a
\* signal came first and Shutdown succeeded.
FailureIsReported ==
    main = "exited" /\ serverErr = "failed" => result = "error"

\* On every way out, what was opened is closed and the signals are released.
AllClosed ==
    main = "exited" => "open" \notin {db, redis} /\ ~trap

\* What the process says of its end is true, and it leaves nothing behind.
ExitsAreTrue ==
    /\ CleanExitAnswersAll
    /\ ClosedUnderNoOne
    /\ FailureIsReported
    /\ AllClosed

\* A second signal does not cut a shutdown short (the handlers are waited for).
KillStep == main' = "killed" => main \notin {"select", "shutdown", "wait"}
SignalsNeverCutShort == [][KillStep]_vars

\* A server that starts has the configuration the other parts assume: a pool
\* with connections, positive limits that grow with the window, sessions that
\* outlive access tokens, different keys for the two kinds of tokens.
LimitsFit ==
    main \notin {"load", "return"} \cup Ended =>
        LET c == Load(env) IN
        /\ c.POSTGRES_MAX_CONNS \in Nat \ {0}
        /\ {c.RATE_LIMIT_PER_MINUTE, c.RATE_LIMIT_PER_HOUR,
            c.RATE_LIMIT_PER_DAY} \subseteq Nat \ {0}
        /\ c.RATE_LIMIT_PER_MINUTE <= c.RATE_LIMIT_PER_DAY
        /\ c.ACCESS_TOKEN_TTL < c.REFRESH_TOKEN_TTL
        /\ c.ACCESS_TOKEN_SECRET # c.REFRESH_TOKEN_SECRET
        /\ c.HTTP_SHUTDOWN_TIMEOUT > 0

\* A number that cannot be read stops the start: -1 passes no check but that of
\* the token lifetimes, and there only where access tokens are dead at birth.
GarbageStops ==
    main \notin {"load", "return"} \cup Ended
      /\ Load(env).ACCESS_TOKEN_TTL > 0 =>
        \A n \in Names : env[n] # Garbage

\* What the other parts take for granted is so in every server that starts.
StartedConfigFits == LimitsFit /\ GarbageStops

\* The tokens a started server gives out at any moment of a second, presented
\* about the end of either lifetime.
TokensFit ==
    main \notin {"load", "return"} \cup Ended =>
        LET c == Load(env)
            lives == {c.ACCESS_TOKEN_TTL, c.REFRESH_TOKEN_TTL}
        IN  \A now \in 0..(Second - 1), life \in lives, d \in -Second..Second :
                LET t == now + life * Second + d IN
                /\ ExpiryIsNested(now, t, c)
                /\ KindsApart(now, t, c)
                /\ ExpiresInIsTrue(now, t, c)

\* After a signal that was caught, or the failure of the listener, the process
\* ends, whatever its handlers do.
ProcessEnds ==
    (caught \/ serverErr = "failed") ~> (main \in Ended)

-----------------------------------------------------------------------------
(* The inductive invariant *)

\* Where run is determines what is deferred, and what is deferred determines
\* what is open: every resource is either on the stack or given back.
Stores(state) == db = state /\ redis = state

AllDeferred  == defers = <<"db", "redis", "stop">> /\ Stores("open") /\ trap
StoresOpen   == defers = <<"db", "redis">> /\ Stores("open") /\ ~trap
RedisClosed  == defers = <<"db">> /\ db = "open" /\ redis = "closed" /\ ~trap
NoneOpened   == defers = <<>> /\ Stores("none") /\ ~trap
AllGivenBack == defers = <<>> /\ Stores("closed") /\ ~trap

Deferred ==
    /\ main \in {"load", "open"} => NoneOpened
    /\ main \in {"pingDB", "pingRedis", "listen", "notify"} => StoresOpen
    /\ main \in {"select", "shutdown", "wait"} => AllDeferred
    /\ main = "return" => \/ AllDeferred \/ StoresOpen \/ RedisClosed
                          \/ NoneOpened \/ AllGivenBack
    /\ main = "exited" => NoneOpened \/ AllGivenBack

\* Nothing is served before Listen, nothing new once the server is down; the
\* listener reports once.
Served ==
    /\ main \in {"load", "open", "pingDB", "pingRedis", "listen"} =>
         listener = "off" /\ serverErr = "none"
    /\ listener # "off" => serverErr = "none"
    /\ serverErr = "closed" => down
    /\ main \in {"shutdown", "wait"} => down
    /\ main = "wait" => Quiet
    /\ main \notin {"shutdown", "wait", "return"} \cup Ended => ~down
    /\ main \notin Ended => \A r \in Requests : handler[r] # "cut"

\* What run returns is settled when it starts to return; nil means that the
\* server went down in peace.
Returned ==
    /\ result = "none" <=> main \notin {"return"} \cup Ended
         \/ (main = "killed" /\ result = "none")
    /\ "closed" \in {db, redis} => result # "none"
    /\ result = "nil" =>
         /\ down /\ serverErr = "closed" /\ Quiet
         /\ main = "exited" => \A r \in Requests : handler[r] # "cut"

\* Only a valid configuration gets past its check.
Configured ==
    main \notin {"load", "return"} \cup Ended => Validate(Load(env))

LInv == TypeOK /\ Deferred /\ Served /\ Returned /\ Configured
=============================================================================
