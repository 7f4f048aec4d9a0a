------------------------------ MODULE Sessions ------------------------------
(***************************************************************************)
(* Refresh sessions: Login, Refresh, Logout and LogoutAll of AuthService   *)
(* against the refresh_token table, at READ COMMITTED.                     *)
(*                                                                         *)
(* Every call is a request.  A request that stores a session stores the    *)
(* one named after it (its jti), and a family is named after the Login     *)
(* that founded it.  An UPDATE of several rows fixes at its start which    *)
(* rows it can see, then locks and re-checks them one by one, in no order  *)
(* the code asks for; a row that is inserted meanwhile is not among them.  *)
(*                                                                         *)
(* status, family, owner are the committed table; rowLock and inserts are  *)
(* what open transactions have written.                                    *)
(***************************************************************************)
EXTENDS Naturals, FiniteSets

CONSTANTS
    Requests,   \* calls of the handlers
    Users,      \* ids of accounts
    Calls,      \* what each request may ask for
    Mortals,    \* sessions that may expire within the run
    NoRequest,
    NoUser

Tokens == Requests

AllCalls ==
    [op: {"Login", "LogoutAll"}, user: Users, token: {NoRequest}]
      \cup [op: {"Refresh", "Logout"}, user: Users, token: Tokens]

NoCall == [op |-> "None", user |-> NoUser, token |-> NoRequest]

ASSUME SessionsAssumption ==
    /\ NoRequest \notin Requests
    /\ Calls \in [Requests -> SUBSET AllCalls]
    /\ Mortals \subseteq Requests

VARIABLES
    status,    \* a session: "absent", "live" (revoked = false) or "revoked"
    family,    \* family_id
    owner,     \* user_id
    expired,   \* sessions past expires_at
    rowLock,   \* the request whose transaction has revoked the row
    inserts,   \* requests whose transaction has inserted their session
    targets,   \* rows the UPDATE of a request still has to visit
    known,     \* tokens that have reached a client
    call,      \* what a request asks for
    pc,
    answer,    \* what the call returned
    before     \* history: the sessions that were live when the call began

table == <<status, family, owner>>
held  == <<rowLock, inserts, targets>>
world == <<expired, known>>
asked == <<call, before>>
vars  == <<status, family, owner, expired, rowLock, inserts, targets, known,
           call, pc, answer, before>>

\* Places in an open transaction, named after the statement that is due.
InTx == {"get", "consume", "expire", "forget", "save", "family", "all",
         "visit", "commit", "commitExpired"}
Places == InTx \cup {"idle", "answer", "done"}
Answers == {"None", "Ok", "Refused", "Expired", "Invalid", "Reuse",
            "Internal", "Lost"}

Live   == {t \in Tokens : status[t] = "live"}
Stored == {t \in Tokens : status[t] # "absent"}

TypeOK ==
    /\ status \in [Tokens -> {"absent", "live", "revoked"}]
    /\ family \in [Tokens -> Tokens \cup {NoRequest}]
    /\ owner \in [Tokens -> Users \cup {NoUser}]
    /\ expired \subseteq Tokens
    /\ rowLock \in [Tokens -> Requests \cup {NoRequest}]
    /\ inserts \subseteq Requests
    /\ targets \in [Requests -> SUBSET Tokens]
    /\ known \subseteq Tokens
    /\ call \in [Requests -> AllCalls \cup {NoCall}]
    /\ pc \in [Requests -> Places]
    /\ answer \in [Requests -> Answers]
    /\ before \in [Requests -> SUBSET Tokens]
    /\ \A t \in Stored : family[t] \in Stored   \* family_id is NOT NULL

Init ==
    /\ status = [t \in Tokens |-> "absent"]
    /\ family = [t \in Tokens |-> NoRequest]
    /\ owner = [t \in Tokens |-> NoUser]
    /\ expired = {}
    /\ rowLock = [t \in Tokens |-> NoRequest]
    /\ inserts = {}
    /\ targets = [r \in Requests |-> {}]
    /\ known = {}
    /\ call = [r \in Requests |-> NoCall]
    /\ pc = [r \in Requests |-> "idle"]
    /\ answer = [r \in Requests |-> "None"]
    /\ before = [r \in Requests |-> {}]

-----------------------------------------------------------------------------
(* Helpers *)

Goto(r, place) == pc' = [pc EXCEPT ![r] = place]

Return(r, kind) ==
    /\ Goto(r, "answer")
    /\ answer' = [answer EXCEPT ![r] = kind]

\* Commit or Rollback releases the rows.
EndTx(r) ==
    /\ rowLock' = [t \in Tokens |->
                     IF rowLock[t] = r THEN NoRequest ELSE rowLock[t]]
    /\ inserts' = inserts \ {r}
    /\ targets' = [targets EXCEPT ![r] = {}]

AbandonWithoutRollback(r, kind) ==   \* deviation: no deferred Rollback
    /\ Return(r, kind)
    /\ UNCHANGED <<table, held, world, asked>>

\* A return without Commit: the deferred Rollback runs.
Abandon(r, kind) ==
    /\ EndTx(r)
    /\ Return(r, kind)
    /\ UNCHANGED <<table, world, asked>>

\* The transaction goes on with another statement and writes nothing.
Proceed(r, place) ==
    /\ Goto(r, place)
    /\ UNCHANGED <<table, held, world, asked, answer>>

RowFree(r, t) == rowLock[t] \in {NoRequest, r}

\* UPDATE ... SET revoked = true of one row, then the statement at place.
Revoke(r, t, place) ==
    /\ rowLock' = [rowLock EXCEPT ![t] = r]
    /\ Goto(r, place)
    /\ UNCHANGED <<table, inserts, targets, world, asked, answer>>

Token(r) == call[r].token

-----------------------------------------------------------------------------
(* The calls, statement by statement *)

\* A client presents only what it has received: a refresh token, or for
\* LogoutAll the access token that came with one.
Presentable(c) ==
    IF c.op \in {"Refresh", "Logout"}
    THEN c.token \in known /\ c.user = owner[c.token]
    ELSE c.op = "LogoutAll" => \E t \in known : owner[t] = c.user

\* What happens before the first statement that matters: rate limit,
\* credentials (Login) or the signature and expiry of the token.
Submit(r) ==
    /\ pc[r] = "idle"
    /\ \E c \in Calls[r] :
         /\ Presentable(c)
         /\ call' = [call EXCEPT ![r] = c]
         /\ \/ /\ c.op \in {"Login", "Refresh"}
               /\ Return(r, "Refused")
            \/ /\ c.op = "Login"
               /\ Goto(r, "save")
               /\ UNCHANGED answer
            \/ /\ c.op = "LogoutAll"
               /\ Goto(r, "all")
               /\ UNCHANGED answer
            \/ /\ c.op = "Refresh" /\ c.token \in expired
               /\ Return(r, "Expired")
            \/ /\ c.op = "Logout" /\ c.token \in expired
               /\ Return(r, "Ok")
            \/ /\ c.op \in {"Refresh", "Logout"} /\ c.token \notin expired
               /\ Goto(r, "get")
               /\ UNCHANGED answer
    /\ before' = [before EXCEPT ![r] = Live]
    /\ UNCHANGED <<table, held, world>>

\* GetRefreshToken: what it reads may be stale by the next statement.
GetForRefresh(r) ==
    /\ pc[r] = "get"
    /\ call[r].op = "Refresh"
    /\ \/ status[Token(r)] = "absent" /\ Abandon(r, "Invalid")
       \/ status[Token(r)] = "revoked" /\ Proceed(r, "family")
       \/ /\ status[Token(r)] = "live"
          /\ Proceed(r, IF Token(r) \in expired THEN "expire" ELSE "consume")

GetForLogout(r) ==
    /\ pc[r] = "get"
    /\ call[r].op = "Logout"
    /\ \/ status[Token(r)] # "live" /\ Abandon(r, "Ok")
       \/ status[Token(r)] = "live" /\ Proceed(r, "forget")

ConsumeStale(r) ==   \* deviation: no "AND revoked = false"
    /\ pc[r] = "consume"
    /\ RowFree(r, Token(r))
    /\ Revoke(r, Token(r), "save")

\* RevokeRefreshToken in Refresh: no row left means somebody was faster.
Consume(r) ==
    /\ pc[r] = "consume"
    /\ RowFree(r, Token(r))
    /\ \/ status[Token(r)] = "live" /\ Revoke(r, Token(r), "save")
       \/ status[Token(r)] # "live" /\ Proceed(r, "family")

\* RevokeRefreshToken of an expired session: no row left does not matter.
Expire(r) ==
    /\ pc[r] = "expire"
    /\ RowFree(r, Token(r))
    /\ \/ status[Token(r)] = "live" /\ Revoke(r, Token(r), "commitExpired")
       \/ status[Token(r)] # "live" /\ Proceed(r, "commitExpired")

ForgetWithoutCommit(r) ==   \* deviation: Logout returns before Commit
    /\ pc[r] = "forget"
    /\ RowFree(r, Token(r))
    /\ Abandon(r, "Ok")

\* RevokeRefreshToken in Logout: no row left ends the call as a success.
Forget(r) ==
    /\ pc[r] = "forget"
    /\ RowFree(r, Token(r))
    /\ \/ status[Token(r)] = "live" /\ Revoke(r, Token(r), "commit")
       \/ status[Token(r)] # "live" /\ Abandon(r, "Ok")

\* SaveRefreshToken, in Login's own transaction or in Refresh's.
Save(r) ==
    /\ pc[r] = "save"
    /\ inserts' = inserts \cup {r}
    /\ Goto(r, "commit")
    /\ UNCHANGED <<table, rowLock, targets, world, asked, answer>>

\* The statement snapshot of an UPDATE: rows others have not committed yet
\* are not in it.
See(r, rows) ==
    /\ targets' = [targets EXCEPT ![r] = rows \cap Live]
    /\ Goto(r, "visit")
    /\ UNCHANGED <<table, rowLock, inserts, world, asked, answer>>

RevokeTokenFamilyWide(r) ==   \* deviation: reuse ends all the user's families
    /\ pc[r] = "family"
    /\ See(r, {t \in Tokens : owner[t] = owner[Token(r)]})

RevokeTokenFamily(r) ==
    /\ pc[r] = "family"
    /\ See(r, {t \in Tokens : family[t] = family[Token(r)]})

RevokeAllUserTokens(r) ==
    /\ pc[r] = "all"
    /\ See(r, {t \in Tokens : owner[t] = call[r].user})

VisitSkipLocked(r) ==   \* deviation: locked rows are passed over
    /\ pc[r] = "visit"
    /\ \E t \in targets[r] :
         /\ targets' = [targets EXCEPT ![r] = @ \ {t}]
         /\ rowLock' = IF status[t] = "live" /\ RowFree(r, t)
                       THEN [rowLock EXCEPT ![t] = r] ELSE rowLock
    /\ UNCHANGED <<table, inserts, world, asked, answer, pc>>

\* The UPDATE waits for the row, and revokes it if it is still live.
Visit(r) ==
    /\ pc[r] = "visit"
    /\ \E t \in targets[r] :
         /\ RowFree(r, t)
         /\ targets' = [targets EXCEPT ![r] = @ \ {t}]
         /\ rowLock' = IF status[t] = "live"
                       THEN [rowLock EXCEPT ![t] = r] ELSE rowLock
    /\ UNCHANGED <<table, inserts, world, asked, answer, pc>>

\* The family and the user of the session r stores.
FamilyOf(r) == IF call[r].op = "Login" THEN r ELSE family[Token(r)]

Apply(r) ==
    /\ status' = [t \in Tokens |->
                    CASE rowLock[t] = r         -> "revoked"
                      [] t = r /\ r \in inserts -> "live"
                      [] OTHER                  -> status[t]]
    /\ family' = IF r \in inserts
                 THEN [family EXCEPT ![r] = FamilyOf(r)] ELSE family
    /\ owner' = IF r \in inserts
                THEN [owner EXCEPT ![r] = call[r].user] ELSE owner

Verdict(r) ==
    CASE pc[r] = "commitExpired"                          -> "Expired"
      [] pc[r] = "visit" /\ call[r].op = "Refresh"        -> "Reuse"
      [] OTHER                                            -> "Ok"

\* Commit, with the answer that follows it; or Commit takes effect and its
\* confirmation is lost, which is an error.
Commit(r) ==
    /\ \/ pc[r] \in {"commit", "commitExpired"}
       \/ pc[r] = "visit" /\ targets[r] = {}
    /\ Apply(r)
    /\ EndTx(r)
    /\ \/ Return(r, Verdict(r))
       \/ Return(r, "Internal")
    /\ UNCHANGED <<world, asked>>

\* The response reaches the client with the tokens, or is lost.
Respond(r) ==
    /\ pc[r] = "answer"
    /\ Goto(r, "done")
    /\ \/ /\ known' = IF /\ answer[r] = "Ok"
                         /\ call[r].op \in {"Login", "Refresh"}
                      THEN known \cup {r} ELSE known
          /\ UNCHANGED answer
       \/ /\ answer' = [answer EXCEPT ![r] = "Lost"]
          /\ UNCHANGED known
    /\ UNCHANGED <<table, held, expired, asked>>

-----------------------------------------------------------------------------
(* What the environment does to it *)

\* An I/O error, or the request's context ends.
Fail(r) ==
    /\ pc[r] \in InTx
    /\ Abandon(r, "Internal")

\* r waits for a row that a request of S has revoked and not committed.
WaitsWithin(r, S) ==
    \E t \in Tokens :
        /\ rowLock[t] \in S \ {r}
        /\ \/ pc[r] \in {"consume", "expire", "forget"} /\ t = Token(r)
           \/ pc[r] = "visit" /\ t \in targets[r]

\* PostgreSQL finds a cycle of waiting transactions and aborts one of it.
DetectDeadlock(r) ==
    /\ \E S \in SUBSET Requests : r \in S /\ \A q \in S : WaitsWithin(q, S)
    /\ Abandon(r, "Internal")

\* Time passes: the token and its row expire together.
PassTime(t) ==
    /\ t \in (Stored \cap Mortals) \ expired
    /\ expired' = expired \cup {t}
    /\ UNCHANGED <<table, held, known, asked, pc, answer>>

\* The server dies: PostgreSQL rolls back what was open.
Crash ==
    /\ \E r \in Requests : pc[r] \in InTx \cup {"answer"}
    /\ rowLock' = [t \in Tokens |-> NoRequest]
    /\ inserts' = {}
    /\ targets' = [r \in Requests |-> {}]
    /\ pc' = [r \in Requests |-> IF pc[r] = "idle" THEN "idle" ELSE "done"]
    /\ answer' = [r \in Requests |->
                    IF pc[r] \in {"idle", "done"} THEN answer[r] ELSE "Lost"]
    /\ UNCHANGED <<table, world, asked>>

\* Nothing is in flight (what is idle may have nothing to present).
Terminated ==
    /\ \A r \in Requests : pc[r] \in {"idle", "done"}
    /\ UNCHANGED vars

Serve(r) ==
    \/ GetForRefresh(r) \/ GetForLogout(r) \/ Consume(r) \/ Expire(r)
    \/ Forget(r) \/ Save(r) \/ RevokeTokenFamily(r) \/ RevokeAllUserTokens(r)
    \/ Visit(r) \/ Commit(r) \/ Respond(r)

Next ==
    \/ \E r \in Requests : Submit(r) \/ Serve(r) \/ Fail(r) \/ DetectDeadlock(r)
    \/ \E t \in Tokens : PassTime(t)
    \/ Crash
    \/ Terminated

Spec == Init /\ [][Next]_vars

\* Goroutines are scheduled, a free row goes to a waiter, and the deadlock
\* detector of PostgreSQL finds every cycle.
Fairness ==
    \A r \in Requests : WF_vars(Serve(r)) /\ WF_vars(DetectDeadlock(r))

FairSpec == Spec /\ Fairness

-----------------------------------------------------------------------------
(* Safety *)

\* However many refreshes, reuses and logouts race, a login never has two
\* live sessions (Refresh rotates, it does not multiply).
OneLivePerFamily == \A t, u \in Live : family[t] = family[u] => t = u

\* A LogoutAll that succeeded, or a Refresh that reported reuse, has ended
\* every session of its scope that was live when the call began, rotations
\* and rollbacks that ran beside it notwithstanding.
RevocationReachesBack ==
    \A r \in Requests, t \in Tokens :
        /\ t \in before[r] /\ t \in Live
        /\ answer[r] \in {"Ok", "Reuse"}
        => /\ call[r].op = "LogoutAll" => owner[t] # call[r].user
           /\ answer[r] = "Reuse" => family[t] # family[Token(r)]

\* A success is the client's to rely on: the token of a successful Refresh is
\* used up and its new session stored, that of a successful Logout is dead.
SuccessIsTrue ==
    \A r \in Requests :
        answer[r] = "Ok" =>
            /\ call[r].op = "Refresh" =>
                 /\ status[Token(r)] = "revoked"
                 /\ r \in Stored
                 /\ owner[r] = owner[Token(r)]
            /\ call[r].op = "Login" => r \in Stored /\ owner[r] = call[r].user
            /\ call[r].op = "Logout" => Token(r) \notin Live \ expired

\* A step stores at most one session: the first of its family, or one that
\* takes over in the same step from a live session of its family and user.
\* A revoked session never becomes live again.
RotationStep ==
    /\ \A t \in Tokens : status[t] = "revoked" => status'[t] = "revoked"
    /\ \A t \in Tokens : status[t] = "absent" /\ status'[t] # "absent" =>
         \/ /\ family'[t] = t
            /\ \A u \in Tokens \ {t} : status'[u] = status[u]
         \/ \E p \in Live :
              /\ status'[p] = "revoked"
              /\ family'[t] = family[p]
              /\ owner'[t] = owner[p]
              /\ \A u \in Tokens \ {t, p} : status'[u] = status[u]

SessionsRotate == [][RotationStep]_vars

\* Nobody else is logged out: a live session is revoked only by the Commit of
\* a call of its user, which presented a token of its family (the very token,
\* for Logout) or asked for LogoutAll.
OwnCallStep ==
    \A t \in Live : status'[t] # "live" =>
        \E r \in Requests :
            /\ pc[r] # "answer" /\ pc'[r] = "answer"
            /\ call[r].user = owner[t]
            /\ \/ call[r].op = "LogoutAll"
               \/ call[r].op = "Refresh" /\ family[Token(r)] = family[t]
               \/ call[r].op = "Logout" /\ Token(r) = t

OnlyOwnCallsRevoke == [][OwnCallStep]_vars

\* A step founds a family, rotates a session or revokes within the scope of the
\* call that takes it, and does nothing else to the table.
StepsAreOwn == [][RotationStep /\ OwnCallStep]_vars

-----------------------------------------------------------------------------
(* Liveness *)

\* Every call is answered, also when updates of many rows lock each other out.
EveryCallEnds ==
    \A r \in Requests : (pc[r] \in InTx) ~> (pc[r] = "done")

-----------------------------------------------------------------------------
(* What the tests say of reuse and of logout-all *)

\* auth_test.go: the reuse of a token revokes its family.
ReuseEndsFamily ==
    \A r \in Requests, t \in Live :
        answer[r] = "Reuse" => family[t] # family[Token(r)]

\* e2e/auth_test.go: after logout-all the sessions the user had do not refresh.
LogoutAllEndsSessions ==
    \A r \in Requests : \A t \in Live, u \in before[r] :
        /\ call[r].op = "LogoutAll" /\ answer[r] = "Ok"
        /\ owner[u] = call[r].user
        => family[t] # family[u]

-----------------------------------------------------------------------------
(* What makes the safety properties inductive *)

\* The rows an UPDATE of r means to revoke.
Scope(r) ==
    {t \in Stored : IF call[r].op = "LogoutAll"
                    THEN owner[t] = call[r].user
                    ELSE family[t] = family[Token(r)]}

OpsAt(place) ==
    CASE place \in {"consume", "expire", "family", "commitExpired"}
                            -> {"Refresh"}
      [] place = "get"      -> {"Refresh", "Logout"}
      [] place = "forget"   -> {"Logout"}
      [] place = "all"      -> {"LogoutAll"}
      [] place = "save"     -> {"Login", "Refresh"}
      [] place = "visit"    -> {"Refresh", "LogoutAll"}
      [] place = "commit"   -> {"Login", "Refresh", "Logout"}
      [] OTHER              -> {"Login", "Refresh", "Logout", "LogoutAll"}

\* The place of a call says what it may be, and what it has not done yet.
CallInv(r) ==
    /\ pc[r] # "idle" =>
         /\ call[r] \in AllCalls
         /\ call[r].op \in OpsAt(pc[r])
         /\ call[r].op \in {"Refresh", "Logout"} =>
              Token(r) \in Stored /\ call[r].user = owner[Token(r)]
    /\ pc[r] \notin {"answer", "done"} => answer[r] = "None" /\ r \notin Stored
    /\ answer[r] = "Reuse" => call[r].op = "Refresh"

\* What an open transaction has written.
HoldInv(r) ==
    /\ \A t \in Tokens : rowLock[t] = r =>
         /\ t \in Live
         /\ \/ pc[r] \in {"save", "commit", "commitExpired"} /\ t = Token(r)
            \/ pc[r] = "visit" /\ t \in Scope(r)
    /\ \/ pc[r] \in {"save", "commit"} /\ call[r].op = "Refresh"
       \/ pc[r] = "commit" /\ call[r].op = "Logout"
       => rowLock[Token(r)] = r
    /\ r \in inserts <=> pc[r] = "commit" /\ call[r].op # "Logout"

\* What an UPDATE has yet to visit is all that may still be live of what was
\* when the call began.
ReachInv(r) ==
    /\ before[r] \subseteq Stored
    /\ pc[r] = "visit" =>
         /\ targets[r] \subseteq Scope(r)
         /\ \A t \in before[r] \cap Live \cap Scope(r) :
              t \in targets[r] \/ rowLock[t] = r

TableInv ==
    /\ known \subseteq Stored
    /\ \A t, u \in Stored : family[t] = family[u] => owner[t] = owner[u]
    /\ OneLivePerFamily

SInv ==
    /\ TypeOK
    /\ TableInv
    /\ \A r \in Requests : CallInv(r) /\ HoldInv(r) /\ ReachInv(r)
    /\ RevocationReachesBack
    /\ SuccessIsTrue
=============================================================================
