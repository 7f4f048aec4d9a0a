-------------------------- MODULE LifecycleProofs ---------------------------
(***************************************************************************)
(* Theorems about Lifecycle for every environment and every set of         *)
(* requests, and about Tokens for every configuration that is valid.       *)
(***************************************************************************)
EXTENDS Lifecycle, SequenceTheorems, TLAPS

USE DEF Stores

-----------------------------------------------------------------------------
(* The stack of deferred calls *)

Calls == {"db", "redis", "stop"}

\* What Notify pushes.
LEMMA Pushed == Append(<<"db", "redis">>, "stop") = <<"db", "redis", "stop">>
  <1> DEFINE s == <<"db", "redis">>
             t == Append(s, "stop")
             u == <<"db", "redis", "stop">>
  <1>1. s \in Seq(Calls) /\ u \in Seq(Calls) /\ Len(s) = 2 /\ Len(u) = 3
    BY DEF Calls
  <1>2. t \in Seq(Calls) /\ Len(t) = 3 /\ t[3] = "stop" /\ t[1] = s[1] /\ t[2] = s[2]
    BY <1>1, AppendProperties DEF Calls
  <1>3. \A i \in 1..Len(t) : t[i] = u[i]
    BY <1>2
  <1> QED
    BY <1>1, <1>2, <1>3, SeqEqual

\* What Return leaves of a stack.
LEMMA Popped ==
    ASSUME NEW s \in Seq(Calls), NEW t \in Seq(Calls),
           Len(s) = Len(t) + 1, \A i \in 1..Len(t) : s[i] = t[i]
    PROVE  s # <<>> /\ SubSeq(s, 1, Len(s) - 1) = t
  <1>1. Len(t) \in Nat /\ \A i \in 1..Len(t) : s[i] \in Calls
    BY LenProperties, ElementOfSeq
  <1>2. Len(s) - 1 = Len(t)
    BY <1>1
  <1> DEFINE u == SubSeq(s, 1, Len(t))
  <1>3. u \in Seq(Calls) /\ Len(u) = Len(t) /\ \A i \in 1..Len(t) : u[i] = s[i]
    BY <1>1, SubSeqProperties
  <1>4. u = t
    BY <1>3, SeqEqual
  <1> QED
    BY <1>1, <1>2, <1>4

\* What it finds on each of the stacks it meets, and what it leaves.
LEMMA Stacks ==
    /\ LET s == <<"db", "redis", "stop">> IN
         s # <<>> /\ s[Len(s)] = "stop" /\ SubSeq(s, 1, Len(s) - 1) = <<"db", "redis">>
    /\ LET s == <<"db", "redis">> IN
         s # <<>> /\ s[Len(s)] = "redis" /\ SubSeq(s, 1, Len(s) - 1) = <<"db">>
    /\ LET s == <<"db">> IN
         s # <<>> /\ s[Len(s)] = "db" /\ SubSeq(s, 1, Len(s) - 1) = <<>>
  <1> DEFINE three == <<"db", "redis", "stop">>
             two == <<"db", "redis">>
             one == <<"db">>
             none == <<>>
  <1>1. {three, two, one, none} \subseteq Seq(Calls)
    BY DEF Calls
  <1>2. /\ Len(three) = Len(two) + 1 /\ \A i \in 1..Len(two) : three[i] = two[i]
        /\ Len(two) = Len(one) + 1 /\ \A i \in 1..Len(one) : two[i] = one[i]
        /\ Len(one) = Len(none) + 1 /\ \A i \in 1..Len(none) : one[i] = none[i]
    OBVIOUS
  <1>3. /\ three[Len(three)] = "stop"
        /\ two[Len(two)] = "redis"
        /\ one[Len(one)] = "db"
    OBVIOUS
  <1> HIDE DEF three, two, one, none
  <1>4. /\ three # <<>> /\ SubSeq(three, 1, Len(three) - 1) = two
        /\ two # <<>> /\ SubSeq(two, 1, Len(two) - 1) = one
        /\ one # <<>> /\ SubSeq(one, 1, Len(one) - 1) = none
    BY <1>1, <1>2, Popped
  <1> QED
    BY <1>3, <1>4 DEF three, two, one, none

\* Every stack the invariant allows has the type of defers.
LEMMA StackTypes ==
    {<<>>, <<"db">>, <<"db", "redis">>, <<"db", "redis", "stop">>}
      \subseteq Seq({"db", "redis", "stop"})
  OBVIOUS

\* The invariant holds at the start: nothing is open, nobody is served.
LEMMA InitInv == Init => LInv
  <1> SUFFICES ASSUME Init PROVE LInv
    OBVIOUS
  <1>1. TypeOK
    BY StackTypes DEF Init, TypeOK, Places, Ended, Active
  <1>2. Deferred /\ Configured
    BY DEF Init, Deferred, NoneOpened, Configured
  <1>3. Served /\ Returned
    BY DEF Init, Served, Returned, Ended
  <1> QED
    BY <1>1, <1>2, <1>3 DEF LInv

-----------------------------------------------------------------------------
(* Steps of run *)

\* Start-up: each step goes on, or leaves with the error of its check.
LEMMA StartKeeps == ASSUME LInv, LoadConfig \/ Open \/ Ping \/ Listen \/ Notify
                    PROVE  LInv'
  <1> USE DEF Advance, Leave, Check, stores, serving, requests, Ended
  <1>1. TypeOK'
    BY Pushed, StackTypes DEF LInv, TypeOK, Places, LoadConfig, Open, Ping,
       Listen, Notify, Deferred, StoresOpen
  <1>2. Deferred'
    <2> USE DEF LInv, Deferred, StoresOpen, NoneOpened
    <2>1. CASE LoadConfig
      BY <2>1 DEF LoadConfig
    <2>2. CASE Open
      BY <2>2 DEF Open
    <2>3. CASE Ping \/ Listen
      BY <2>3 DEF Ping, Listen
    <2>4. CASE Notify
      <3>1. StoresOpen /\ main' = "select" /\ trap' /\ UNCHANGED stores
            /\ defers' = Append(defers, "stop")
        BY <2>4 DEF Notify
      <3>2. AllDeferred'
        BY <3>1, Pushed DEF AllDeferred
      <3> QED
        BY <3>1, <3>2
    <2> QED
      BY <2>1, <2>2, <2>3, <2>4
  <1>3. Served'
    BY DEF LInv, LoadConfig, Open, Ping, Listen, Notify, Served, Quiet
  <1>4. Returned'
    BY DEF LInv, LoadConfig, Open, Ping, Listen, Notify, Deferred, NoneOpened,
       Returned, Quiet
  <1>5. Configured'
    BY DEF LInv, LoadConfig, Open, Ping, Listen, Notify, Configured
  <1> QED
    BY <1>1, <1>2, <1>3, <1>4, <1>5 DEF LInv

\* The select, Shutdown and the wait for the listener.
LEMMA StopKeeps == ASSUME LInv, Select \/ Shutdown \/ WaitForListener
                   PROVE  LInv'
  <1> USE DEF Advance, Leave, Check, stores, serving, requests, Ended
  <1>1. TypeOK'
    BY DEF LInv, TypeOK, Places, Select, Shutdown, WaitForListener
  <1>2. Deferred'
    BY DEF LInv, Select, Shutdown, WaitForListener, Deferred,
       AllDeferred, StoresOpen, RedisClosed, NoneOpened, AllGivenBack
  <1>3. Served'
    BY DEF LInv, TypeOK, Places, Select, Shutdown, WaitForListener, Served, Quiet
  <1>4. Returned'
    BY DEF LInv, Select, Shutdown, WaitForListener, Deferred, AllDeferred,
       Served, Returned, Quiet
  <1>5. Configured'
    BY DEF LInv, Select, Shutdown, WaitForListener, Configured
  <1> QED
    BY <1>1, <1>2, <1>3, <1>4, <1>5 DEF LInv

\* A process that ends cuts its handlers off; if there are none at work, none
\* is cut.
LEMMA EndCuts ==
    ASSUME TypeOK, NEW place, EndProcess(place)
    PROVE  /\ main' = place
           /\ handler' \in [Requests -> Active \cup {"idle", "answered", "cut"}]
           /\ Quiet'
           /\ Quiet /\ (\A r \in Requests : handler[r] # "cut") =>
                \A r \in Requests : handler'[r] # "cut"
  BY DEF TypeOK, EndProcess, Quiet, Active

\* The deferred calls and the end of the process.
LEMMA ReturnKeeps == ASSUME LInv, Return PROVE LInv'
  <1> USE DEF serving, stores
  <1>1. CASE defers # <<>>
    <2>0. \/ AllDeferred /\ StoresOpen'
          \/ StoresOpen /\ RedisClosed'
          \/ RedisClosed /\ AllGivenBack'
      <3>1. AllDeferred \/ StoresOpen \/ RedisClosed
        BY <1>1 DEF LInv, Return, Deferred, NoneOpened, AllGivenBack
      <3>2. CASE AllDeferred
        <4>1. /\ defers[Len(defers)] = "stop"
              /\ SubSeq(defers, 1, Len(defers) - 1) = <<"db", "redis">>
          BY <3>2, Stacks DEF AllDeferred
        <4>2. /\ defers' = <<"db", "redis">>
              /\ ~trap' /\ UNCHANGED stores
          BY <1>1, <4>1 DEF Return
        <4> QED
          BY <3>2, <4>2 DEF AllDeferred, StoresOpen
      <3>3. CASE StoresOpen
        <4>1. /\ defers[Len(defers)] = "redis"
              /\ SubSeq(defers, 1, Len(defers) - 1) = <<"db">>
          BY <3>3, Stacks DEF StoresOpen
        <4>2. /\ defers' = <<"db">>
              /\ redis' = "closed" /\ UNCHANGED <<db, trap>>
          BY <1>1, <4>1 DEF Return
        <4> QED
          BY <3>3, <4>2 DEF StoresOpen, RedisClosed
      <3>4. CASE RedisClosed
        BY <1>1, <3>4, Stacks DEF Return, RedisClosed, AllGivenBack
      <3> QED
        BY <3>1, <3>2, <3>3, <3>4
    <2>1. main = "return" /\ main' = "return"
      BY <1>1 DEF Return
    <2>2. TypeOK'
      BY <1>1, <2>0, <2>1, StackTypes DEF LInv, TypeOK, Return, Places, StoresOpen,
         RedisClosed, AllGivenBack
    <2>3. Deferred'
      BY <2>0, <2>1 DEF Deferred, Ended
    <2>4. Served' /\ Returned' /\ Configured'
      BY <1>1, <2>1 DEF LInv, Return, Served, Returned, Configured, Ended, Quiet
    <2> QED
      BY <2>2, <2>3, <2>4 DEF LInv
  <1>2. CASE defers = <<>>
    <2>1. main = "return" /\ EndProcess("exited") /\ UNCHANGED <<defers, trap, stores>>
      BY <1>2 DEF Return
    <2>2. TypeOK'
      BY <2>1, EndCuts DEF LInv, TypeOK, Return, Places, Ended
    <2>3. Deferred'
      BY <1>2, <2>1, EndCuts, Stacks DEF LInv, Deferred, AllDeferred, StoresOpen,
         RedisClosed, NoneOpened, AllGivenBack, Ended
    <2>4. Served' /\ Configured'
      BY <2>1, EndCuts DEF LInv, Return, Served, Configured, Ended
    <2>5. Returned'
      BY <2>1, EndCuts DEF LInv, Return, Served, Returned, Ended
    <2> QED
      BY <2>2, <2>3, <2>4, <2>5 DEF LInv
  <1> QED
    BY <1>1, <1>2

-----------------------------------------------------------------------------
(* Steps of the others *)

\* The listener opens, is taken down, or fails.
LEMMA ListenerKeeps == ASSUME LInv, main \notin Ended, ListenAndServe \/ ListenerFails
                       PROVE  LInv'
  <1> USE DEF ListenAndServe, ListenerFails, ServeEnds, stores, requests
  <1>1. TypeOK'
    BY DEF LInv, TypeOK
  <1>2. Deferred' /\ Configured'
    BY DEF LInv, Deferred, AllDeferred, StoresOpen, RedisClosed, NoneOpened,
       AllGivenBack, Configured
  <1>3. Served'
    BY DEF LInv, TypeOK, Served, Quiet
  <1>4. Returned'
    BY DEF LInv, TypeOK, Served, Returned, Quiet
  <1> QED
    BY <1>1, <1>2, <1>3, <1>4 DEF LInv

\* Handlers: none starts once the server is down.
LEMMA HandleKeeps == ASSUME LInv, main \notin Ended, NEW r \in Requests, Handle(r)
                     PROVE  LInv'
  <1> USE DEF Handle, stores, serving
  <1>1. /\ handler' \in [Requests -> Active \cup {"idle", "answered", "cut"}]
        /\ booked' \subseteq Requests
        /\ \A q \in Requests : handler[q] # "cut" => handler'[q] # "cut"
        /\ Quiet /\ down => Quiet'
    BY DEF LInv, TypeOK, Accept, BeginTx, CheckRateLimit, Commit, Respond, Step,
       Quiet, Active
  <1>2. TypeOK' /\ Deferred' /\ Configured'
    BY <1>1 DEF LInv, TypeOK, Deferred, AllDeferred, StoresOpen, RedisClosed,
       NoneOpened, AllGivenBack, Configured
  <1>3. Served' /\ Returned'
    BY <1>1 DEF LInv, Served, Returned, Ended
  <1> QED
    BY <1>2, <1>3 DEF LInv

\* A signal is noted, or kills.
LEMMA SignalKeeps == ASSUME LInv, main \notin Ended, Signal PROVE LInv'
  <1> USE DEF stores, serving
  <1>1. CASE trap
    BY <1>1 DEF Signal, LInv, TypeOK, Deferred, AllDeferred, StoresOpen,
       RedisClosed, NoneOpened, AllGivenBack, Served, Returned, Configured, Quiet
  <1>2. CASE ~trap
    <2>1. EndProcess("killed") /\ UNCHANGED caught
      BY <1>2 DEF Signal
    <2>2. TypeOK'
      BY <2>1, EndCuts DEF LInv, TypeOK, Signal, Places, Ended
    <2>3. Deferred' /\ Served' /\ Configured'
      BY <2>1, EndCuts DEF LInv, Signal, Deferred, Served, Configured, Ended
    <2>4. Returned'
      BY <2>1, EndCuts DEF LInv, Signal, Served, Returned, Ended
    <2> QED
      BY <2>2, <2>3, <2>4 DEF LInv
  <1> QED
    BY <1>1, <1>2

\* Every step keeps the invariant.
LEMMA NextInv == LInv /\ [Next]_vars => LInv'
  <1> SUFFICES ASSUME LInv, [Next]_vars PROVE LInv'
    OBVIOUS
  <1>1. CASE UNCHANGED vars
    BY <1>1 DEF vars, LInv, TypeOK, Deferred, AllDeferred, StoresOpen, RedisClosed,
       NoneOpened, AllGivenBack, Served, Returned, Configured, Quiet
  <1>2. CASE main \notin Ended /\ Run
    BY <1>2, StartKeeps, StopKeeps, ReturnKeeps DEF Run
  <1>3. CASE main \notin Ended /\ (ListenAndServe \/ ListenerFails)
    BY <1>3, ListenerKeeps
  <1>4. CASE main \notin Ended /\ Signal
    BY <1>4, SignalKeeps
  <1>5. CASE main \notin Ended /\ \E r \in Requests : Handle(r)
    BY <1>5, HandleKeeps
  <1> QED
    BY <1>1, <1>2, <1>3, <1>4, <1>5 DEF Next

\* Where run is decides what is deferred, what is open, who may still be served
\* and what run can return (run, app.go).
THEOREM LifecycleInvariant == Spec => []LInv
  BY InitInv, NextInv, PTL DEF Spec

\* A clean exit has answered whoever was served: Shutdown has waited for the
\* handlers, and none was let in after it (app.go:126).
THEOREM CleanExits == Spec => []CleanExitAnswersAll
  <1>1. LInv => CleanExitAnswersAll
    BY DEF LInv, TypeOK, Served, Returned, Quiet, Active, Ended, CleanExitAnswersAll
  <1> QED
    BY <1>1, LifecycleInvariant, PTL

\* Whatever is closed while a handler is at work, run reports an error.
THEOREM NobodyIsCutOff == Spec => []ClosedUnderNoOne
  <1>1. LInv => ClosedUnderNoOne
    BY DEF LInv, TypeOK, Returned, ClosedUnderNoOne
  <1> QED
    BY <1>1, LifecycleInvariant, PTL

\* The error of the listener survives a signal that came with it.
THEOREM FailuresAreReported == Spec => []FailureIsReported
  <1>1. LInv => FailureIsReported
    BY DEF LInv, TypeOK, Returned, FailureIsReported, Ended
  <1> QED
    BY <1>1, LifecycleInvariant, PTL

\* Every way out runs all the defers there are by then, last in first out.
THEOREM EverythingIsClosed == Spec => []AllClosed
  <1>1. LInv => AllClosed
    BY DEF LInv, Deferred, NoneOpened, AllGivenBack, AllClosed
  <1> QED
    BY <1>1, LifecycleInvariant, PTL

\* All of it together.
THEOREM ExitsAlwaysTrue == Spec => []ExitsAreTrue
  BY CleanExits, NobodyIsCutOff, FailuresAreReported, EverythingIsClosed, PTL
     DEF ExitsAreTrue

\* stop is deferred, so the signals stay caught until Shutdown is over.
THEOREM ShutdownsRunOn == Spec => SignalsNeverCutShort
  <1>1. LInv /\ [Next]_vars => [KillStep]_vars
    <2> SUFFICES ASSUME LInv, Next, main' = "killed",
                        main \in {"select", "shutdown", "wait"}
                 PROVE  FALSE
      BY DEF KillStep
    <2>1. trap
      BY DEF LInv, Deferred, AllDeferred
    <2>2. CASE Run
      BY <2>2 DEF Run, LoadConfig, Open, Ping, Listen, Notify, Select, Shutdown,
         WaitForListener, Return, Advance, Leave, Check
    <2>3. CASE ListenAndServe \/ ListenerFails
      BY <2>3 DEF ListenAndServe, ListenerFails
    <2>4. CASE Signal
      BY <2>1, <2>4 DEF Signal
    <2>5. ASSUME NEW r \in Requests, Handle(r) PROVE FALSE
      BY <2>5 DEF Handle
    <2> QED
      BY <2>2, <2>3, <2>4, <2>5 DEF Next, Ended
  <1> QED
    BY <1>1, LifecycleInvariant, PTL DEF SignalsNeverCutShort, Spec

-----------------------------------------------------------------------------
(* The configuration *)

\* What Load leaves of the numbers the other parts rest on, and of a typo.
LEMMA LoadedNumbers ==
    ASSUME NEW e \in Environments
    PROVE  LET c == Load(e) IN
           /\ c.POSTGRES_MAX_CONNS \in Int
           /\ c.ACCESS_TOKEN_TTL \in Int /\ c.REFRESH_TOKEN_TTL \in Int
           /\ c.RATE_LIMIT_PER_MINUTE \in Int /\ c.RATE_LIMIT_PER_HOUR \in Int
           /\ c.RATE_LIMIT_PER_DAY \in Int
           /\ \A n \in Names : e[n] = Garbage => n \notin Texts /\ c[n] = -1
  <1>1. ASSUME NEW x \in {Unset, Garbage} \cup Int, NEW n, Default[n] \in Int
        PROVE  Value(x, n) \in Int
    BY <1>1, SMT DEF Value
  <1>2. ASSUME NEW n \in Names
        PROVE  Load(e)[n] = Value(e[n], n)
    BY DEF Load
  <1>3. ASSUME NEW n \in Names \ Texts, Default[n] \in Int
        PROVE  Load(e)[n] \in Int
    <2>1. e[n] \in {Unset, Garbage} \cup Int
      BY EnvironmentsAssumption
    <2> QED
      BY <1>1, <1>2, <1>3, <2>1
  <1>4. ASSUME NEW n \in Names, e[n] = Garbage
        PROVE  n \notin Texts /\ Load(e)[n] = -1
    <2>1. n \notin Texts
      BY <1>4, EnvironmentsAssumption
    <2>2. Value(Garbage, n) = -1
      BY EnvironmentsAssumption, SMT DEF Value
    <2> QED
      BY <1>2, <1>4, <2>1, <2>2
  <1>5. /\ {"POSTGRES_MAX_CONNS", "ACCESS_TOKEN_TTL", "REFRESH_TOKEN_TTL",
           "RATE_LIMIT_PER_MINUTE", "RATE_LIMIT_PER_HOUR", "RATE_LIMIT_PER_DAY"}
             \subseteq Names \ Texts
        /\ Default["POSTGRES_MAX_CONNS"] \in Int
        /\ Default["ACCESS_TOKEN_TTL"] \in Int
        /\ Default["REFRESH_TOKEN_TTL"] \in Int
        /\ Default["RATE_LIMIT_PER_MINUTE"] \in Int
        /\ Default["RATE_LIMIT_PER_HOUR"] \in Int
        /\ Default["RATE_LIMIT_PER_DAY"] \in Int
    BY SMT DEF Default, Names, Texts
  <1>6. /\ Load(e)["POSTGRES_MAX_CONNS"] \in Int
        /\ Load(e)["ACCESS_TOKEN_TTL"] \in Int
        /\ Load(e)["REFRESH_TOKEN_TTL"] \in Int
        /\ Load(e)["RATE_LIMIT_PER_MINUTE"] \in Int
        /\ Load(e)["RATE_LIMIT_PER_HOUR"] \in Int
        /\ Load(e)["RATE_LIMIT_PER_DAY"] \in Int
    BY <1>3, <1>5
  <1> QED
    BY <1>4, <1>6

\* Numbers are positive and in order, texts are there and differ.
THEOREM LimitsAlwaysFit == Spec => []LimitsFit
  <1>1. LInv => LimitsFit
    <2> SUFFICES ASSUME LInv, main \notin {"load", "return"} \cup Ended
                 PROVE  LimitsFit
      BY DEF LimitsFit
    <2> DEFINE c == Load(env)
    <2>1. env \in Environments /\ Validate(c)
      BY DEF LInv, TypeOK, Configured
    <2>2. /\ c.POSTGRES_MAX_CONNS \in Int /\ c.RATE_LIMIT_PER_MINUTE \in Int
          /\ c.RATE_LIMIT_PER_HOUR \in Int /\ c.RATE_LIMIT_PER_DAY \in Int
      BY <2>1, LoadedNumbers
    <2> HIDE DEF c
    <2>3. /\ PostgresValid(c) /\ TokensValid(c) /\ TimeoutsValid(c)
          /\ LimitsValid(c)
      BY <2>1 DEF Validate
    <2>4. /\ c.POSTGRES_MAX_CONNS \in Nat \ {0}
          /\ {c.RATE_LIMIT_PER_MINUTE, c.RATE_LIMIT_PER_HOUR,
              c.RATE_LIMIT_PER_DAY} \subseteq Nat \ {0}
          /\ c.RATE_LIMIT_PER_MINUTE <= c.RATE_LIMIT_PER_DAY
      <3>1. c.POSTGRES_MAX_CONNS > 0
        BY <2>3 DEF PostgresValid
      <3>2. /\ c.RATE_LIMIT_PER_MINUTE > 0
            /\ c.RATE_LIMIT_PER_MINUTE <= c.RATE_LIMIT_PER_HOUR
            /\ c.RATE_LIMIT_PER_HOUR <= c.RATE_LIMIT_PER_DAY
        BY <2>3 DEF LimitsValid
      <3> QED
        BY <2>2, <3>1, <3>2
    <2> QED
      BY <2>3, <2>4 DEF LimitsFit, TokensValid, TimeoutsValid, c
  <1> QED
    BY <1>1, LifecycleInvariant, PTL

\* -1 is refused by every check of a number but one.
THEOREM TyposStop == Spec => []GarbageStops
  <1>1. LInv => GarbageStops
    <2> SUFFICES ASSUME LInv, main \notin {"load", "return"} \cup Ended,
                        Load(env).ACCESS_TOKEN_TTL > 0,
                        NEW n \in Names, env[n] = Garbage
                 PROVE  FALSE
      BY DEF GarbageStops
    <2> DEFINE c == Load(env)
    <2>1. env \in Environments /\ Validate(c)
      BY DEF LInv, TypeOK, Configured
    <2>2. n \in Names \ Texts /\ c[n] = -1
      BY <2>1, LoadedNumbers
    <2>3. n \in {"HTTP_READ_HEADER_TIMEOUT", "HTTP_READ_TIMEOUT",
                "HTTP_WRITE_TIMEOUT", "HTTP_IDLE_TIMEOUT", "HTTP_SHUTDOWN_TIMEOUT",
                "POSTGRES_MAX_CONNS", "POSTGRES_MAX_IDLE_CONNS",
                "POSTGRES_CONN_MAX_LIFETIME", "POSTGRES_CONN_MAX_IDLE_TIME",
                "REDIS_DB", "ACCESS_TOKEN_TTL", "REFRESH_TOKEN_TTL",
                "RATE_LIMIT_PER_MINUTE", "RATE_LIMIT_PER_HOUR",
                "RATE_LIMIT_PER_DAY"}
      BY <2>2 DEF Names, Default, Texts
    <2>4. /\ c.ACCESS_TOKEN_TTL \in Int /\ c.RATE_LIMIT_PER_MINUTE \in Int
          /\ c.RATE_LIMIT_PER_HOUR \in Int
      BY <2>1, LoadedNumbers
    <2>5. c.ACCESS_TOKEN_TTL > 0
      OBVIOUS
    <2> HIDE DEF c
    <2>6. n \notin {"ACCESS_TOKEN_TTL", "REFRESH_TOKEN_TTL"}
      <3>1. c.ACCESS_TOKEN_TTL < c.REFRESH_TOKEN_TTL
        BY <2>1 DEF Validate, TokensValid
      <3>2. c.ACCESS_TOKEN_TTL # -1 /\ c.REFRESH_TOKEN_TTL # -1
        BY <2>4, <2>5, <3>1
      <3> QED
        BY <2>2, <3>2
    <2>7. n \notin {"RATE_LIMIT_PER_MINUTE", "RATE_LIMIT_PER_HOUR",
                   "RATE_LIMIT_PER_DAY"}
      BY <2>1, <2>2, <2>4 DEF Validate, LimitsValid
    <2>8. n \notin {"HTTP_READ_HEADER_TIMEOUT", "HTTP_READ_TIMEOUT",
                "HTTP_WRITE_TIMEOUT", "HTTP_IDLE_TIMEOUT", "HTTP_SHUTDOWN_TIMEOUT"}
      BY <2>1, <2>2 DEF Validate, TimeoutsValid
    <2>9. n \notin {"POSTGRES_MAX_CONNS", "POSTGRES_MAX_IDLE_CONNS",
                "POSTGRES_CONN_MAX_LIFETIME", "POSTGRES_CONN_MAX_IDLE_TIME",
                "REDIS_DB"}
      <3>1. /\ c.POSTGRES_MAX_CONNS > 0
            /\ c.POSTGRES_MAX_IDLE_CONNS \in 0..c.POSTGRES_MAX_CONNS
            /\ c.POSTGRES_CONN_MAX_LIFETIME > 0
            /\ c.POSTGRES_CONN_MAX_IDLE_TIME > 0
        BY <2>1 DEF Validate, PostgresValid
      <3>2. c.REDIS_DB >= 0
        BY <2>1 DEF Validate, RedisValid
      <3> QED
        BY <2>2, <3>1, <3>2
    <2> QED
      BY <2>3, <2>6, <2>7, <2>8, <2>9
  <1> QED
    BY <1>1, LifecycleInvariant, PTL

\* Both hold of every server that starts (Config.Validate).
THEOREM ConfigFits == Spec => []StartedConfigFits
  BY LimitsAlwaysFit, TyposStop, PTL DEF StartedConfigFits

-----------------------------------------------------------------------------
(* Tokens *)

\* Truncation takes away less than a second.
LEMMA DateBounds ==
    ASSUME NEW t \in Int
    PROVE  /\ NumericDate(t) \in Int
           /\ NumericDate(t) <= t
           /\ t < NumericDate(t) + Second
  BY SecondAssumption DEF NumericDate

\* A lifetime longer by at least a second ends at least a second later.
LEMMA LongerLife ==
    ASSUME NEW a \in Int, NEW b \in Int, a < b
    PROVE  /\ a * Second \in Int /\ b * Second \in Int
           /\ a * Second + Second <= b * Second
  <1>1. PICK k \in Nat : b = a + 1 + k
    <2>1. b - a - 1 \in Nat /\ b = a + 1 + (b - a - 1)
      OBVIOUS
    <2> QED
      BY <2>1
  <1>2. k * Second \in Nat /\ a * Second \in Int
    BY SecondAssumption
  <1>3. b * Second = a * Second + Second + k * Second
    BY <1>1, SecondAssumption
  <1> QED
    BY <1>2, <1>3, SecondAssumption

\* The lifetimes in the sense of the property, at any time at all and not only
\* about their ends (jwt.go:37, 61).
THEOREM TokenLives ==
    ASSUME NEW c, TokensValid(c), c.ACCESS_TOKEN_TTL \in Int,
           c.REFRESH_TOKEN_TTL \in Int, NEW now \in Int, NEW t \in Int
    PROVE  ExpiryIsNested(now, t, c) /\ KindsApart(now, t, c)
             /\ ExpiresInIsTrue(now, t, c)
  <1> DEFINE a == now + c.ACCESS_TOKEN_TTL * Second
             b == now + c.REFRESH_TOKEN_TTL * Second
  <1>1. a \in Int /\ b \in Int /\ a + Second <= b
    <2> DEFINE x == c.ACCESS_TOKEN_TTL * Second
               y == c.REFRESH_TOKEN_TTL * Second
    <2>1. c.ACCESS_TOKEN_TTL < c.REFRESH_TOKEN_TTL
      BY DEF TokensValid
    <2>2. x \in Int /\ y \in Int /\ x + Second <= y
      BY <2>1, LongerLife
    <2>3. a = now + x /\ b = now + y
      OBVIOUS
    <2> HIDE DEF a, b, x, y
    <2> QED
      BY <2>2, <2>3, SecondAssumption
  <1>2. /\ NumericDate(a) \in Int /\ NumericDate(a) <= a
        /\ a < NumericDate(a) + Second
        /\ NumericDate(b) \in Int /\ NumericDate(b) <= b
        /\ b < NumericDate(b) + Second
    BY <1>1, DateBounds
  <1>3. KindsApart(now, t, c)
    BY DEF KindsApart, Authorized, Refreshable, AccessToken, RefreshToken,
       TokensValid
  <1>4. AccessToken(now, c).exp = NumericDate(a) /\ RowExpiry(now, c) = b
        /\ RefreshToken(now, c).exp = NumericDate(b)
        /\ RefreshToken(now, c).id # ""
        /\ RefreshToken(now, c).key = c.REFRESH_TOKEN_SECRET
        /\ AccessToken(now, c).role # ""
        /\ AccessToken(now, c).key = c.ACCESS_TOKEN_SECRET
    BY DEF AccessToken, RefreshToken, RowExpiry
  <1>5. /\ Authorized(AccessToken(now, c), c, t) <=> t < NumericDate(a)
        /\ Refreshable(RefreshToken(now, c), c, t) <=> t < NumericDate(b)
    BY <1>4 DEF Authorized, Refreshable
  <1>6. ExpiryIsNested(now, t, c)
    <2> HIDE DEF a, b
    <2>1. /\ t < NumericDate(a) => t < NumericDate(b)
          /\ t < NumericDate(b) => t < b
      BY <1>1, <1>2, SecondAssumption
    <2> QED
      BY <1>4, <1>5, <2>1 DEF ExpiryIsNested
  <1>7. ExpiresInIsTrue(now, t, c)
    <2>1. ExpiresInIsTrue(now, t, c) <=>
            /\ Authorized(AccessToken(now, c), c, t) => t < a
            /\ t <= a - Second => Authorized(AccessToken(now, c), c, t)
      BY DEF ExpiresInIsTrue
    <2> HIDE DEF a, b
    <2>2. /\ t < NumericDate(a) => t < a
          /\ t <= a - Second => t < NumericDate(a)
      BY <1>1, <1>2, SecondAssumption
    <2> QED
      BY <1>5, <2>1, <2>2
  <1> QED
    BY <1>3, <1>6, <1>7

\* The pairs a started server gives out.
THEOREM TokensAlwaysFit == Spec => []TokensFit
  <1>1. LInv => TokensFit
    <2> SUFFICES ASSUME LInv, main \notin {"load", "return"} \cup Ended
                 PROVE  TokensFit
      BY DEF TokensFit
    <2> DEFINE c == Load(env)
    <2>1. env \in Environments /\ Validate(c)
      BY DEF LInv, TypeOK, Configured
    <2>2. c.ACCESS_TOKEN_TTL \in Int /\ c.REFRESH_TOKEN_TTL \in Int
      BY <2>1, LoadedNumbers
    <2>3. TokensValid(c)
      BY <2>1 DEF Validate
    <2> HIDE DEF c
    <2>4. ASSUME NEW now \in 0..(Second - 1), NEW d \in -Second..Second,
                 NEW life \in {c.ACCESS_TOKEN_TTL, c.REFRESH_TOKEN_TTL}
          PROVE  LET t == now + life * Second + d IN
                 /\ ExpiryIsNested(now, t, c)
                 /\ KindsApart(now, t, c)
                 /\ ExpiresInIsTrue(now, t, c)
      <3>1. now \in Int /\ now + life * Second + d \in Int
        BY <2>2, SecondAssumption
      <3> QED
        BY <2>2, <2>3, <3>1, TokenLives
    <2> QED
      BY <2>4 DEF TokensFit, c
  <1> QED
    BY <1>1, LifecycleInvariant, PTL
=============================================================================
