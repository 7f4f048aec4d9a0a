--------------------------- MODULE SessionsProofs ---------------------------
(***************************************************************************)
(* Theorems about Sessions for every set of requests, users and calls.     *)
(***************************************************************************)
EXTENDS Sessions, TLAPS

USE SessionsAssumption DEF Tokens

-----------------------------------------------------------------------------
(* Calls *)

\* The fields of a call, and that only Refresh and Logout present a token.
LEMMA CallFields ==
    ASSUME NEW c \in AllCalls
    PROVE  /\ c.op \in {"Login", "Refresh", "Logout", "LogoutAll"}
           /\ c.user \in Users
           /\ c.op \in {"Refresh", "Logout"} => c.token \in Tokens
           /\ c.op \notin {"Refresh", "Logout"} => c.token = NoRequest
  BY DEF AllCalls

\* A transaction that is not yet at a place that writes holds no row.
LEMMA HoldsNothing ==
    ASSUME SInv, NEW r \in Requests,
           pc[r] \notin {"save", "commit", "commitExpired", "visit"}
    PROVE  /\ \A t \in Tokens : rowLock[t] # r
           /\ r \notin inserts
  BY DEF SInv, HoldInv

\* The invariant holds at the start: nothing is stored, nobody has called.
LEMMA InitInv == Init => SInv
  <1> SUFFICES ASSUME Init PROVE SInv
    OBVIOUS
  <1>1. TypeOK
    BY DEF Init, TypeOK, Places, Answers, Stored
  <1>2. TableInv /\ RevocationReachesBack /\ SuccessIsTrue
    BY DEF Init, TableInv, Stored, Live, OneLivePerFamily,
           RevocationReachesBack, SuccessIsTrue
  <1>3. \A r \in Requests : CallInv(r) /\ HoldInv(r) /\ ReachInv(r)
    BY DEF Init, CallInv, HoldInv, ReachInv, Stored
  <1> QED
    BY <1>1, <1>2, <1>3 DEF SInv

-----------------------------------------------------------------------------
(* Steps that leave the table alone *)

\* A rollback: the transaction lets go of everything.  The answer promises
\* nothing, or is the success of a Logout whose session is dead already.
LEMMA AbandonKeeps ==
    ASSUME SInv, NEW r \in Requests, NEW kind \in {"Internal", "Invalid", "Ok"},
           pc[r] \in InTx, Abandon(r, kind),
           kind = "Ok" => call[r].op = "Logout" /\ Token(r) \notin Live
    PROVE  SInv'
  <1> USE DEF Abandon, Return, Goto, EndTx, table, world, asked
  <1>1. TypeOK'
    BY DEF SInv, TypeOK, Stored, Places, Answers
  <1>2. TableInv'
    BY DEF SInv, TableInv, OneLivePerFamily, Stored, Live
  <1>3. ASSUME NEW q \in Requests PROVE CallInv(q)'
    BY <1>3 DEF SInv, TypeOK, CallInv, OpsAt, Stored, Token, InTx, AllCalls
  <1>4. ASSUME NEW q \in Requests PROVE HoldInv(q)'
    BY <1>4 DEF SInv, TypeOK, HoldInv, CallInv, Stored, Live, Token, Scope
  <1>5. ASSUME NEW q \in Requests PROVE ReachInv(q)'
    BY <1>5 DEF SInv, TypeOK, ReachInv, Stored, Live, Token, Scope
  <1>6. RevocationReachesBack'
    BY DEF SInv, TypeOK, RevocationReachesBack, Live, Token
  <1>7. SuccessIsTrue'
    BY DEF SInv, TypeOK, SuccessIsTrue, Live, Token, Stored
  <1> QED
    BY <1>1, <1>2, <1>3, <1>4, <1>5, <1>6, <1>7 DEF SInv

\* The next statement of a transaction that has written nothing yet.
LEMMA ProceedKeeps ==
    ASSUME SInv, NEW r \in Requests,
           NEW place \in {"consume", "expire", "family", "forget", "commitExpired"},
           pc[r] \in {"get", "consume", "expire"}, call[r].op \in OpsAt(place),
           Proceed(r, place)
    PROVE  SInv'
  <1> USE DEF Proceed, Goto, table, held, world, asked
  <1>1. TypeOK'
    BY DEF SInv, TypeOK, Stored, Places, InTx
  <1>2. TableInv'
    BY DEF SInv, TableInv, OneLivePerFamily, Stored, Live
  <1>3. ASSUME NEW q \in Requests PROVE CallInv(q)'
    BY <1>3 DEF SInv, TypeOK, CallInv, OpsAt, Stored, Token
  <1>4. ASSUME NEW q \in Requests PROVE HoldInv(q)'
    BY <1>4, HoldsNothing DEF SInv, TypeOK, HoldInv, Stored, Live, Token, Scope
  <1>5. ASSUME NEW q \in Requests PROVE ReachInv(q)'
    BY <1>5 DEF SInv, TypeOK, ReachInv, Stored, Live, Token, Scope
  <1>6. RevocationReachesBack'
    BY DEF SInv, TypeOK, RevocationReachesBack, Live, Token
  <1>7. SuccessIsTrue'
    BY DEF SInv, TypeOK, SuccessIsTrue, Live, Token, Stored
  <1> QED
    BY <1>1, <1>2, <1>3, <1>4, <1>5, <1>6, <1>7 DEF SInv

\* A transaction revokes the row of its token.
LEMMA RevokeKeeps ==
    ASSUME SInv, NEW r \in Requests,
           NEW place \in {"save", "commit", "commitExpired"},
           pc[r] \in {"consume", "expire", "forget"},
           Token(r) \in Live, RowFree(r, Token(r)),
           place = "commit" => call[r].op = "Logout",
           place # "commit" => call[r].op = "Refresh",
           Revoke(r, Token(r), place)
    PROVE  SInv'
  <1> USE DEF Revoke, Goto, table, world, asked
  <1>0. Token(r) \in Tokens
    BY DEF Live
  <1>1. TypeOK'
    BY <1>0 DEF SInv, TypeOK, Stored, Places, InTx
  <1>2. TableInv'
    BY DEF SInv, TableInv, OneLivePerFamily, Stored, Live
  <1>3. ASSUME NEW q \in Requests PROVE CallInv(q)'
    BY <1>3 DEF SInv, TypeOK, CallInv, OpsAt, Stored, Token
  <1>4. ASSUME NEW q \in Requests PROVE HoldInv(q)'
    BY <1>0, <1>4, HoldsNothing
    DEF SInv, TypeOK, HoldInv, Stored, Live, Token, Scope, RowFree
  <1>5. ASSUME NEW q \in Requests PROVE ReachInv(q)'
    BY <1>0, <1>5 DEF SInv, TypeOK, ReachInv, Stored, Live, Token, Scope, RowFree
  <1>6. RevocationReachesBack'
    BY DEF SInv, TypeOK, RevocationReachesBack, Live, Token
  <1>7. SuccessIsTrue'
    BY DEF SInv, TypeOK, SuccessIsTrue, Live, Token, Stored
  <1> QED
    BY <1>1, <1>2, <1>3, <1>4, <1>5, <1>6, <1>7 DEF SInv

\* SaveRefreshToken: the session is inserted and not yet seen.
LEMMA SaveKeeps ==
    ASSUME SInv, NEW r \in Requests, Save(r)
    PROVE  SInv'
  <1> USE DEF Save, Goto, table, world, asked
  <1>1. TypeOK'
    BY DEF SInv, TypeOK, Stored, Places, InTx
  <1>2. TableInv'
    BY DEF SInv, TableInv, OneLivePerFamily, Stored, Live
  <1>3. ASSUME NEW q \in Requests PROVE CallInv(q)'
    BY <1>3 DEF SInv, TypeOK, CallInv, OpsAt, Stored, Token
  <1>4. ASSUME NEW q \in Requests PROVE HoldInv(q)'
    BY <1>4 DEF SInv, TypeOK, HoldInv, CallInv, OpsAt, Stored, Live, Token, Scope
  <1>5. ASSUME NEW q \in Requests PROVE ReachInv(q)'
    BY <1>5 DEF SInv, TypeOK, ReachInv, Stored, Live, Token, Scope
  <1>6. RevocationReachesBack'
    BY DEF SInv, TypeOK, RevocationReachesBack, Live, Token
  <1>7. SuccessIsTrue'
    BY DEF SInv, TypeOK, SuccessIsTrue, Live, Token, Stored
  <1> QED
    BY <1>1, <1>2, <1>3, <1>4, <1>5, <1>6, <1>7 DEF SInv

\* The snapshot of an UPDATE holds every live row of its scope.
LEMMA SeeKeeps ==
    ASSUME SInv, NEW r \in Requests, NEW rows,
           pc[r] \in {"family", "all"},
           rows \cap Live = Scope(r) \cap Live,
           See(r, rows)
    PROVE  SInv'
  <1> USE DEF See, Goto, table, world, asked
  <1>1. TypeOK'
    BY DEF SInv, TypeOK, Stored, Places, InTx, Live
  <1>2. TableInv'
    BY DEF SInv, TableInv, OneLivePerFamily, Stored, Live
  <1>3. ASSUME NEW q \in Requests PROVE CallInv(q)'
    BY <1>3 DEF SInv, TypeOK, CallInv, OpsAt, Stored, Token
  <1>4. ASSUME NEW q \in Requests PROVE HoldInv(q)'
    BY <1>4, HoldsNothing DEF SInv, TypeOK, HoldInv, Stored, Live, Token, Scope
  <1>5. ASSUME NEW q \in Requests PROVE ReachInv(q)'
    BY <1>5 DEF SInv, TypeOK, ReachInv, Stored, Live, Token, Scope
  <1>6. RevocationReachesBack'
    BY DEF SInv, TypeOK, RevocationReachesBack, Live, Token
  <1>7. SuccessIsTrue'
    BY DEF SInv, TypeOK, SuccessIsTrue, Live, Token, Stored
  <1> QED
    BY <1>1, <1>2, <1>3, <1>4, <1>5, <1>6, <1>7 DEF SInv

\* RevokeTokenFamily and RevokeAllUserTokens both see their whole scope.
LEMMA SnapshotKeeps ==
    ASSUME SInv, NEW r \in Requests, RevokeTokenFamily(r) \/ RevokeAllUserTokens(r)
    PROVE  SInv'
  <1>1. CASE RevokeTokenFamily(r)
    <2>1. call[r].op = "Refresh"
      BY <1>1 DEF RevokeTokenFamily, SInv, CallInv, OpsAt
    <2>2. {t \in Tokens : family[t] = family[Token(r)]} \cap Live = Scope(r) \cap Live
      BY <2>1 DEF Scope, Live, Stored
    <2> QED
      BY <1>1, <2>2, SeeKeeps DEF RevokeTokenFamily
  <1>2. CASE RevokeAllUserTokens(r)
    <2>1. call[r].op = "LogoutAll"
      BY <1>2 DEF RevokeAllUserTokens, SInv, CallInv, OpsAt
    <2>2. {t \in Tokens : owner[t] = call[r].user} \cap Live = Scope(r) \cap Live
      BY <2>1 DEF Scope, Live, Stored
    <2> QED
      BY <1>2, <2>2, SeeKeeps DEF RevokeAllUserTokens
  <1> QED
    BY <1>1, <1>2

\* A visited row is held, or was revoked by somebody else.
LEMMA VisitKeeps ==
    ASSUME SInv, NEW r \in Requests, Visit(r)
    PROVE  SInv'
  <1> USE DEF table, world, asked
  <1>0. PICK t \in targets[r] :
          /\ RowFree(r, t)
          /\ targets' = [targets EXCEPT ![r] = @ \ {t}]
          /\ rowLock' = IF status[t] = "live"
                        THEN [rowLock EXCEPT ![t] = r] ELSE rowLock
    BY DEF Visit
  <1>a. /\ t \in Tokens
        /\ t \in Scope(r)
        /\ pc[r] = "visit"
        /\ UNCHANGED <<table, inserts, world, asked, answer, pc>>
    BY DEF Visit, SInv, TypeOK, ReachInv
  <1>1. TypeOK'
    BY <1>0, <1>a DEF SInv, TypeOK, Stored
  <1>2. TableInv'
    BY <1>a DEF SInv, TableInv, OneLivePerFamily, Stored, Live
  <1>3. ASSUME NEW q \in Requests PROVE CallInv(q)'
    BY <1>a, <1>3 DEF SInv, TypeOK, CallInv, OpsAt, Stored, Token
  <1>4. ASSUME NEW q \in Requests PROVE HoldInv(q)'
    BY <1>0, <1>a, <1>4
    DEF SInv, TypeOK, HoldInv, Stored, Live, Token, Scope, RowFree
  <1>5. ASSUME NEW q \in Requests PROVE ReachInv(q)'
    BY <1>0, <1>a, <1>5
    DEF SInv, TypeOK, ReachInv, Stored, Live, Token, Scope, RowFree
  <1>6. RevocationReachesBack'
    BY <1>a DEF SInv, TypeOK, RevocationReachesBack, Live, Token
  <1>7. SuccessIsTrue'
    BY <1>a DEF SInv, TypeOK, SuccessIsTrue, Live, Token, Stored
  <1> QED
    BY <1>1, <1>2, <1>3, <1>4, <1>5, <1>6, <1>7 DEF SInv

-----------------------------------------------------------------------------
(* The edges of a call *)

\* What a client may present is stored.
LEMMA SubmitKeeps ==
    ASSUME SInv, NEW r \in Requests, Submit(r)
    PROVE  SInv'
  <1> USE DEF table, held, world, Return, Goto
  <1>0. PICK c \in Calls[r] :
          /\ Presentable(c)
          /\ call' = [call EXCEPT ![r] = c]
          /\ \/ /\ c.op \in {"Login", "Refresh"}
                /\ Return(r, "Refused")
             \/ /\ c.op = "Login"
                /\ Goto(r, "save")
                /\ UNCHANGED answer
             \/ /\ c.op = "LogoutAll"
                /\ Goto(r, "all")
                /\ UNCHANGED answer
             \/ /\ c.op = "Refresh" /\ c.token \in expired
                /\ Return(r, "Expired")
             \/ /\ c.op = "Logout" /\ c.token \in expired
                /\ Return(r, "Ok")
             \/ /\ c.op \in {"Refresh", "Logout"} /\ c.token \notin expired
                /\ Goto(r, "get")
                /\ UNCHANGED answer
    BY DEF Submit
  <1>a. /\ c \in AllCalls
        /\ pc[r] = "idle"
        /\ before' = [before EXCEPT ![r] = Live]
        /\ UNCHANGED <<table, held, world>>
        /\ Live \subseteq Stored /\ Live \subseteq Tokens
        /\ c.op \in {"Refresh", "Logout"} =>
             c.token \in Stored /\ c.user = owner[c.token]
    BY <1>0 DEF Submit, Live, Stored, Presentable, SInv, TableInv
  <1>b. \A t \in Tokens : rowLock[t] # r
    BY <1>a, HoldsNothing
  <1>1. TypeOK'
    BY <1>0, <1>a DEF SInv, TypeOK, Stored, Places, InTx, Answers
  <1>2. TableInv'
    BY <1>a DEF SInv, TableInv, OneLivePerFamily, Stored, Live
  <1>3. ASSUME NEW q \in Requests PROVE CallInv(q)'
    BY <1>0, <1>a, <1>3, CallFields
    DEF SInv, TypeOK, CallInv, OpsAt, Stored, Token
  <1>4. ASSUME NEW q \in Requests PROVE HoldInv(q)'
    BY <1>0, <1>a, <1>b, <1>4
    DEF SInv, TypeOK, HoldInv, Stored, Live, Token, Scope
  <1>5. ASSUME NEW q \in Requests PROVE ReachInv(q)'
    BY <1>0, <1>a, <1>5 DEF SInv, TypeOK, ReachInv, Stored, Live, Token, Scope
  <1>6. RevocationReachesBack'
    BY <1>0, <1>a DEF SInv, TypeOK, CallInv, RevocationReachesBack, Live, Token
  <1>7. SuccessIsTrue'
    BY <1>0, <1>a DEF SInv, TypeOK, CallInv, SuccessIsTrue, Live, Token, Stored
  <1> QED
    BY <1>1, <1>2, <1>3, <1>4, <1>5, <1>6, <1>7 DEF SInv

\* What reaches a client is stored: its call was a success.
LEMMA RespondKeeps ==
    ASSUME SInv, NEW r \in Requests, Respond(r)
    PROVE  SInv'
  <1> USE DEF Respond, Goto, table, held, asked
  <1>1. TypeOK'
    BY DEF SInv, TypeOK, Stored, Places, Answers
  <1>2. TableInv'
    BY DEF SInv, TypeOK, TableInv, OneLivePerFamily, SuccessIsTrue, Stored, Live
  <1>3. ASSUME NEW q \in Requests PROVE CallInv(q)'
    BY <1>3 DEF SInv, TypeOK, CallInv, OpsAt, Stored, Token
  <1>4. ASSUME NEW q \in Requests PROVE HoldInv(q)'
    BY <1>4, HoldsNothing DEF SInv, TypeOK, HoldInv, Stored, Live, Token, Scope
  <1>5. ASSUME NEW q \in Requests PROVE ReachInv(q)'
    BY <1>5 DEF SInv, TypeOK, ReachInv, Stored, Live, Token, Scope
  <1>6. RevocationReachesBack'
    BY DEF SInv, TypeOK, RevocationReachesBack, Live, Token
  <1>7. SuccessIsTrue'
    BY DEF SInv, TypeOK, SuccessIsTrue, Live, Token, Stored
  <1> QED
    BY <1>1, <1>2, <1>3, <1>4, <1>5, <1>6, <1>7 DEF SInv

\* Expiry only takes sessions out of use.
LEMMA PassTimeKeeps ==
    ASSUME SInv, NEW t \in Tokens, PassTime(t)
    PROVE  SInv'
  <1> USE DEF PassTime, table, held, asked
  <1>1. TypeOK'
    BY DEF SInv, TypeOK, Stored
  <1>2. TableInv'
    BY DEF SInv, TableInv, OneLivePerFamily, Stored, Live
  <1>3. ASSUME NEW q \in Requests
        PROVE  CallInv(q)' /\ HoldInv(q)' /\ ReachInv(q)'
    BY <1>3 DEF SInv, CallInv, HoldInv, ReachInv, OpsAt, Stored, Live, Token, Scope
  <1>4. RevocationReachesBack' /\ SuccessIsTrue'
    BY DEF SInv, RevocationReachesBack, SuccessIsTrue, Live, Token, Stored
  <1> QED
    BY <1>1, <1>2, <1>3, <1>4 DEF SInv

\* A crash leaves the committed table and forgets the rest.
LEMMA CrashKeeps ==
    ASSUME SInv, Crash
    PROVE  SInv'
  <1> USE DEF Crash, table, world, asked
  <1>1. TypeOK'
    BY DEF SInv, TypeOK, Stored, Places, Answers
  <1>2. TableInv'
    BY DEF SInv, TableInv, OneLivePerFamily, Stored, Live
  <1>3. ASSUME NEW q \in Requests PROVE CallInv(q)'
    BY <1>3, CallFields DEF SInv, TypeOK, CallInv, OpsAt, Stored, Token
  <1>4. ASSUME NEW q \in Requests PROVE HoldInv(q)'
    BY <1>4 DEF SInv, TypeOK, HoldInv
  <1>5. ASSUME NEW q \in Requests PROVE ReachInv(q)'
    BY <1>5 DEF SInv, TypeOK, ReachInv, Stored
  <1>6. RevocationReachesBack'
    BY DEF SInv, TypeOK, RevocationReachesBack, Live, Token
  <1>7. SuccessIsTrue'
    BY DEF SInv, TypeOK, SuccessIsTrue, Live, Token, Stored
  <1> QED
    BY <1>1, <1>2, <1>3, <1>4, <1>5, <1>6, <1>7 DEF SInv

-----------------------------------------------------------------------------
(* Commit *)

\* What a transaction holds when it commits: Login nothing but its insert,
\* Refresh also the row it rotates from, Logout that row, and an UPDATE of
\* many rows what it met alive in its scope.
LEMMA AtCommit ==
    ASSUME SInv, NEW r \in Requests, Commit(r)
    PROVE  /\ r \in inserts =>
                /\ r \notin Stored
                /\ call[r].op = "Login" => \A t \in Tokens : rowLock[t] # r
                /\ call[r].op # "Login" =>
                     /\ call[r].op = "Refresh"
                     /\ Token(r) \in Live
                     /\ \A t \in Tokens : rowLock[t] = r <=> t = Token(r)
           /\ \A t \in Tokens : rowLock[t] = r =>
                /\ t \in Live
                /\ \/ t = Token(r) /\ call[r].op \in {"Refresh", "Logout"}
                   \/ t \in Scope(r) /\ call[r].op \in {"Refresh", "LogoutAll"}
  <1>1. call[r] \in AllCalls /\ call[r].op \in OpsAt(pc[r])
    BY DEF Commit, SInv, CallInv
  <1>2. r \in inserts => pc[r] = "commit" /\ call[r].op # "Logout"
    BY DEF SInv, HoldInv
  <1>3. Token(r) \in Tokens => call[r].op \in {"Refresh", "Logout"}
    BY <1>1, CallFields DEF Token
  <1>4. \A t \in Tokens : rowLock[t] = r =>
          /\ t \in Live
          /\ \/ pc[r] \in {"save", "commit", "commitExpired"} /\ t = Token(r)
             \/ pc[r] = "visit" /\ t \in Scope(r)
    BY DEF SInv, HoldInv
  <1>5. pc[r] = "visit" => call[r].op \in {"Refresh", "LogoutAll"}
    BY <1>1 DEF OpsAt
  <1>6. r \in inserts => r \notin Stored /\ call[r].op \in {"Login", "Refresh"}
    BY <1>1, <1>2 DEF SInv, CallInv, OpsAt
  <1>7. r \in inserts /\ call[r].op = "Refresh" =>
          rowLock[Token(r)] = r /\ Token(r) \in Stored
    BY <1>2 DEF SInv, HoldInv, CallInv
  <1> QED
    BY <1>2, <1>3, <1>4, <1>5, <1>6, <1>7 DEF Stored

\* The token of a Refresh or a Logout is a stored row.
LEMMA CallTokenStored ==
    ASSUME SInv, NEW q \in Requests, pc[q] # "idle"
    PROVE  /\ call[q].op \in {"Refresh", "Logout"} => Token(q) \in Stored
           /\ call[q].op \in {"Login", "Refresh", "Logout", "LogoutAll"}
  BY CallFields DEF SInv, CallInv

\* What Commit makes of the table.
LEMMA CommitTable ==
    ASSUME SInv, NEW r \in Requests, Commit(r)
    PROVE  /\ Stored' = Stored \cup (inserts \cap {r})
           /\ Live' = {t \in Live : rowLock[t] # r} \cup (inserts \cap {r})
           /\ \A t \in Stored : family'[t] = family[t] /\ owner'[t] = owner[t]
           /\ r \in inserts => family'[r] = FamilyOf(r) /\ owner'[r] = call[r].user
           /\ \A t \in Tokens : rowLock'[t] = r => FALSE
           /\ \A q \in Requests \ {r}, t \in Tokens :
                rowLock'[t] = q <=> rowLock[t] = q
  <1>1. Apply(r) /\ EndTx(r)
    BY DEF Commit
  <1>2. r \in inserts => r \notin Stored
    BY AtCommit
  <1>3. \A t \in Tokens : rowLock[t] = r => t \in Live
    BY AtCommit
  <1>4. TypeOK
    BY DEF SInv
  <1> QED
    BY <1>1, <1>2, <1>3, <1>4 DEF TypeOK, Apply, EndTx, Stored, Live

\* What another UPDATE means to revoke does not move under it.
LEMMA ScopeStable ==
    ASSUME SInv, NEW r \in Requests, Commit(r),
           NEW q \in Requests, pc[q] = "visit"
    PROVE  Scope(q) = Scope(q)' \cap Stored
  <1>1. /\ call[q].op = "Refresh" => Token(q) \in Stored
        /\ call[q].op \in {"Refresh", "LogoutAll"}
    BY CallTokenStored DEF SInv, CallInv, OpsAt
  <1>2. call'[q] = call[q] /\ Token(q)' = Token(q)
    BY DEF Commit, asked, Token
  <1>3. /\ Stored \subseteq Stored'
        /\ \A t \in Stored : family'[t] = family[t] /\ owner'[t] = owner[t]
    BY CommitTable
  <1> QED
    BY <1>1, <1>2, <1>3 DEF Scope

\* The rotation of a session, the first one of a family, and a revocation all
\* keep the invariant.
LEMMA CommitKeeps ==
    ASSUME SInv, NEW r \in Requests, Commit(r)
    PROVE  SInv'
  <1> USE DEF world, asked
  <1>0. /\ UNCHANGED <<world, asked>>
        /\ pc' = [pc EXCEPT ![r] = "answer"]
        /\ \/ answer' = [answer EXCEPT ![r] = Verdict(r)]
           \/ answer' = [answer EXCEPT ![r] = "Internal"]
        /\ inserts' = inserts \ {r}
        /\ targets' = [targets EXCEPT ![r] = {}]
        /\ Apply(r) /\ EndTx(r)
    BY DEF Commit, Return, Goto, EndTx
  <1>a. /\ TypeOK /\ TableInv
        /\ pc[r] \in {"commit", "commitExpired", "visit"}
    BY DEF Commit, SInv
  <1>b. /\ call[r] \in AllCalls
        /\ call[r].op \in OpsAt(pc[r])
        /\ call[r].op \in {"Refresh", "Logout"} =>
             Token(r) \in Stored /\ call[r].user = owner[Token(r)]
    BY <1>a DEF SInv, CallInv
  <1>c. \A q \in Requests : Token(q)' = Token(q)
    BY <1>0 DEF Token
  <1>1. TypeOK'
    <2>1. family' \in [Tokens -> Tokens \cup {NoRequest}]
      BY <1>0, <1>a, AtCommit DEF Apply, TypeOK, FamilyOf, Live
    <2>2. owner' \in [Tokens -> Users \cup {NoUser}]
      BY <1>0, <1>a, <1>b, CallFields DEF Apply, TypeOK
    <2>3. /\ status' \in [Tokens -> {"absent", "live", "revoked"}]
          /\ rowLock' \in [Tokens -> Requests \cup {NoRequest}]
      BY <1>0, <1>a DEF Apply, EndTx, TypeOK
    <2>4. \A t \in Stored' : family'[t] \in Stored'
      BY <1>a, <1>b, CommitTable, AtCommit DEF TypeOK, FamilyOf
    <2>5. /\ pc' \in [Requests -> Places]
          /\ answer' \in [Requests -> Answers]
      BY <1>0, <1>a DEF TypeOK, Places, Answers, Verdict
    <2> QED
      BY <1>0, <1>a, <2>1, <2>2, <2>3, <2>4, <2>5 DEF TypeOK
  <1>2. TableInv'
    <2>1. known' \subseteq Stored'
      BY <1>0, <1>a, CommitTable DEF TableInv
    <2>2. r \in inserts => \A t \in Stored :
            family[t] = FamilyOf(r) =>
              /\ owner[t] = call[r].user
              /\ t \in Live => rowLock[t] = r
      BY <1>a, <1>b, AtCommit
      DEF TypeOK, TableInv, OneLivePerFamily, FamilyOf, Stored, Live
    <2>3. \A t, u \in Stored' : family'[t] = family'[u] => owner'[t] = owner'[u]
      BY <1>a, <2>2, CommitTable DEF TableInv
    <2>4. OneLivePerFamily'
      BY <1>a, <2>2, CommitTable DEF TableInv, OneLivePerFamily, Live, Stored
    <2> QED
      BY <2>1, <2>3, <2>4 DEF TableInv
  <1>3. ASSUME NEW q \in Requests PROVE CallInv(q)'
    <2>1. CallInv(q)
      BY DEF SInv
    <2>2. call'[q] = call[q] /\ Token(q)' = Token(q)
      BY <1>0, <1>c
    <2>3. Token(q) \in Stored => owner'[Token(q)] = owner[Token(q)]
      BY CommitTable
    <2>4. Stored \subseteq Stored' /\ (q # r /\ q \notin Stored => q \notin Stored')
      BY CommitTable
    <2>5. CASE q = r
      <3>1. pc'[q] = "answer" /\ answer'[q] \in {Verdict(r), "Internal"}
        BY <1>0, <1>a, <2>5 DEF TypeOK
      <3>2. answer'[q] = "Reuse" => call[r].op = "Refresh"
        BY <3>1 DEF Verdict
      <3> QED
        BY <1>b, <2>2, <2>3, <2>4, <2>5, <3>1, <3>2, CallFields DEF CallInv, OpsAt
    <2>6. CASE q # r
      <3>1. pc'[q] = pc[q] /\ answer'[q] = answer[q]
        BY <1>0, <1>a, <2>6 DEF TypeOK
      <3> QED
        BY <2>1, <2>2, <2>3, <2>4, <2>6, <3>1 DEF CallInv
    <2> QED
      BY <2>5, <2>6
  <1>4. ASSUME NEW q \in Requests PROVE HoldInv(q)'
    <2>1. CASE q = r
      BY <1>0, <1>a, <2>1, CommitTable DEF HoldInv, TypeOK
    <2>2. CASE q # r
      <3>1. HoldInv(q)
        BY DEF SInv
      <3>2. /\ pc'[q] = pc[q] /\ call'[q] = call[q] /\ Token(q)' = Token(q)
            /\ q \in inserts' <=> q \in inserts
        BY <1>0, <1>a, <1>c, <2>2 DEF TypeOK
      <3>3. \A t \in Tokens : rowLock'[t] = q <=> rowLock[t] = q
        BY <2>2, CommitTable
      <3>4. \A t \in Tokens : rowLock[t] = q => t \in Live'
        BY <2>2, <3>1, CommitTable DEF HoldInv
      <3>5. pc[q] = "visit" => Scope(q) \subseteq Scope(q)'
        BY ScopeStable
      <3>6. /\ \/ pc[q] \in {"save", "commit"} /\ call[q].op = "Refresh"
               \/ pc[q] = "commit" /\ call[q].op = "Logout"
            => rowLock'[Token(q)] = q
        BY <3>1, <3>3, CallTokenStored DEF HoldInv, Stored
      <3> QED
        BY <3>1, <3>2, <3>3, <3>4, <3>5, <3>6 DEF HoldInv
    <2> QED
      BY <2>1, <2>2
  <1>5. ASSUME NEW q \in Requests PROVE ReachInv(q)'
    <2>1. before'[q] \subseteq Stored'
      BY <1>0, CommitTable DEF SInv, ReachInv
    <2>2. CASE q = r
      BY <1>0, <1>a, <2>1, <2>2 DEF ReachInv, TypeOK
    <2>3. CASE q # r
      <3>1. ReachInv(q)
        BY DEF SInv
      <3>2. pc'[q] = pc[q] /\ targets'[q] = targets[q] /\ before'[q] = before[q]
        BY <1>0, <1>a, <2>3 DEF TypeOK
      <3>3. \A t \in Tokens : rowLock'[t] = q <=> rowLock[t] = q
        BY <2>3, CommitTable
      <3>4. pc[q] = "visit" => Scope(q) = Scope(q)' \cap Stored
        BY ScopeStable
      <3>5. before[q] \cap Live' \subseteq Live /\ Live \subseteq Tokens
        BY <3>1, CommitTable, AtCommit DEF ReachInv, Live
      <3> QED
        BY <2>1, <3>1, <3>2, <3>3, <3>4, <3>5 DEF ReachInv
    <2> QED
      BY <2>2, <2>3
  <1>6. RevocationReachesBack'
    <2> SUFFICES ASSUME NEW q \in Requests, NEW t \in Tokens,
                        t \in before'[q], t \in Live',
                        answer'[q] \in {"Ok", "Reuse"}
                 PROVE  /\ call'[q].op = "LogoutAll" => owner'[t] # call'[q].user
                        /\ answer'[q] = "Reuse" => family'[t] # family'[Token(q)']
      BY DEF RevocationReachesBack
    <2>1. t \in Stored /\ t \in before[q] /\ t \in Live /\ rowLock[t] # r
      BY <1>0, CommitTable, AtCommit DEF SInv, ReachInv
    <2>2. family'[t] = family[t] /\ owner'[t] = owner[t] /\ call'[q] = call[q]
      BY <1>0, <2>1, CommitTable
    <2>3. CASE q = r
      <3>1. answer'[r] = Verdict(r)
        BY <1>0, <1>a, <2>3 DEF TypeOK
      <3>2. CASE pc[r] = "visit"
        <4>1. t \notin Scope(r)
          BY <2>1, <2>3, <3>2 DEF Commit, SInv, ReachInv
        <4>2. family'[Token(r)'] = family[Token(r)] \/ call[r].op = "LogoutAll"
          BY <1>b, <1>c, <3>2, CommitTable DEF OpsAt
        <4> QED
          BY <2>1, <2>2, <2>3, <3>1, <3>2, <4>1, <4>2 DEF Scope, Verdict
      <3>3. CASE pc[r] # "visit"
        BY <1>a, <1>b, <2>2, <2>3, <3>1, <3>3 DEF Verdict, OpsAt
      <3> QED
        BY <3>2, <3>3
    <2>4. CASE q # r
      <3>1. answer[q] = answer'[q]
        BY <1>0, <1>a, <2>4 DEF TypeOK
      <3>2. answer[q] = "Reuse" => family'[Token(q)'] = family[Token(q)]
        <4>1. pc[q] # "idle"
          BY <3>1 DEF SInv, CallInv
        <4>2. answer[q] = "Reuse" => call[q].op = "Refresh"
          BY DEF SInv, CallInv
        <4> QED
          BY <1>c, <4>1, <4>2, CallTokenStored, CommitTable
      <3> QED
        BY <2>1, <2>2, <3>1, <3>2 DEF SInv, RevocationReachesBack
    <2> QED
      BY <2>3, <2>4
  <1>7. SuccessIsTrue'
    <2> SUFFICES ASSUME NEW q \in Requests, answer'[q] = "Ok"
                 PROVE  /\ call'[q].op = "Refresh" =>
                             /\ status'[Token(q)'] = "revoked"
                             /\ q \in Stored'
                             /\ owner'[q] = owner'[Token(q)']
                        /\ call'[q].op = "Login" =>
                             q \in Stored' /\ owner'[q] = call'[q].user
                        /\ call'[q].op = "Logout" =>
                             Token(q)' \notin Live' \ expired'
      BY DEF SuccessIsTrue
    <2>1. call'[q] = call[q] /\ Token(q)' = Token(q) /\ expired' = expired
      BY <1>0, <1>c
    <2>2. Stored' \subseteq Tokens /\ Live' = {t \in Tokens : status'[t] = "live"}
      BY DEF Stored, Live
    <2>3. CASE q = r
      <3>1. answer'[r] = Verdict(r)
        BY <1>0, <1>a, <2>3 DEF TypeOK
      <3>2. pc[r] \in {"commit", "visit"} /\ (pc[r] = "visit" => call[r].op = "LogoutAll")
        BY <1>a, <1>b, <2>3, <3>1 DEF Verdict, OpsAt
      <3>3. CASE call[r].op \in {"Login", "Refresh"}
        <4>1. r \in inserts
          BY <3>2, <3>3 DEF SInv, HoldInv
        <4>2. call[r].op = "Refresh" => rowLock[Token(r)] = r
          BY <4>1, AtCommit DEF Live
        <4>3. call[r].op = "Refresh" => status'[Token(r)] = "revoked"
          BY <1>0, <1>b, <4>1, <4>2, AtCommit, <3>3 DEF Apply, Stored
        <4> QED
          BY <1>b, <2>1, <2>3, <3>3, <4>1, <4>3, CommitTable
      <3>4. CASE call[r].op = "Logout"
        <4>1. rowLock[Token(r)] = r
          BY <3>2, <3>4 DEF SInv, HoldInv
        <4> QED
          BY <2>1, <2>3, <3>4, <4>1, AtCommit, CommitTable
      <3>5. CASE call[r].op = "LogoutAll"
        BY <2>1, <2>3, <3>5
      <3> QED
        BY <1>b, <3>3, <3>4, <3>5, CallFields
    <2>4. CASE q # r
      <3>1. answer[q] = "Ok" /\ pc[q] # "idle"
        BY <1>0, <1>a, <2>4 DEF TypeOK, SInv, CallInv
      <3>2. /\ call[q].op \in {"Refresh", "Logout"} => Token(q) \in Stored
            /\ call[q].op \in {"Login", "Refresh"} => q \in Stored
        BY <3>1, CallTokenStored DEF SInv, SuccessIsTrue
      <3>3. \A t \in Tokens : status[t] = "revoked" => status'[t] = "revoked"
        BY <1>0, <1>a, AtCommit DEF TypeOK, Apply, Stored
      <3> QED
        BY <2>1, <2>2, <3>1, <3>2, <3>3, CommitTable, AtCommit
        DEF SInv, SuccessIsTrue, Stored
    <2> QED
      BY <2>3, <2>4
  <1> QED
    BY <1>1, <1>2, <1>3, <1>4, <1>5, <1>6, <1>7 DEF SInv

-----------------------------------------------------------------------------
(* Theorems *)

\* Every step keeps the invariant.
LEMMA NextKeeps ==
    ASSUME SInv, [Next]_vars
    PROVE  SInv'
  <1>1. ASSUME NEW r \in Requests, GetForRefresh(r)
        PROVE  SInv'
    BY <1>1, AbandonKeeps, ProceedKeeps DEF GetForRefresh, OpsAt, InTx
  <1>2. ASSUME NEW r \in Requests, GetForLogout(r)
        PROVE  SInv'
    BY <1>2, AbandonKeeps, ProceedKeeps DEF GetForLogout, OpsAt, InTx, Live
  <1>3. ASSUME NEW r \in Requests, Consume(r) \/ Expire(r) \/ Forget(r)
        PROVE  SInv'
    <2>1. /\ call[r].op = IF pc[r] = "forget" THEN "Logout" ELSE "Refresh"
          /\ Token(r) \in Stored
      BY <1>3, CallTokenStored
      DEF Consume, Expire, Forget, SInv, CallInv, OpsAt
    <2>2. CASE Consume(r)
      BY <2>1, <2>2, ProceedKeeps, RevokeKeeps DEF Consume, OpsAt, Live, Stored
    <2>3. CASE Expire(r)
      BY <2>1, <2>3, ProceedKeeps, RevokeKeeps DEF Expire, OpsAt, Live, Stored
    <2>4. CASE Forget(r)
      BY <2>1, <2>4, AbandonKeeps, RevokeKeeps DEF Forget, InTx, Live, Stored
    <2> QED
      BY <1>3, <2>2, <2>3, <2>4
  <1>4. ASSUME NEW r \in Requests, Fail(r) \/ DetectDeadlock(r)
        PROVE  SInv'
    <2>1. pc[r] \in InTx
      BY <1>4 DEF Fail, DetectDeadlock, WaitsWithin, InTx
    <2> QED
      BY <1>4, <2>1, AbandonKeeps DEF Fail, DetectDeadlock
  <1>5. CASE UNCHANGED vars \/ Terminated
    BY <1>5
    DEF Terminated, vars, table, held, world, asked, SInv, TypeOK, TableInv, CallInv,
        HoldInv, ReachInv, RevocationReachesBack, SuccessIsTrue,
        OneLivePerFamily, Scope, OpsAt, Stored, Live, Token
  <1> QED
    BY <1>1, <1>2, <1>3, <1>4, <1>5, SaveKeeps, SnapshotKeeps, VisitKeeps,
       CommitKeeps, RespondKeeps, SubmitKeeps, PassTimeKeeps, CrashKeeps
    DEF Next, Serve

\* The inductive invariant of the session table and the calls on it.
THEOREM SessionsInvariant == Spec => []SInv
  BY InitInv, NextKeeps, PTL DEF Spec

\* However many refreshes, reuses and logouts race, no login has two live
\* sessions (Refresh, RevokeRefreshToken).
THEOREM OneSessionPerLogin == Spec => []OneLivePerFamily
  <1>1. SInv => OneLivePerFamily
    BY DEF SInv, TableInv
  <1> QED
    BY <1>1, SessionsInvariant, PTL

\* LogoutAll and the detection of reuse end every session of their scope that
\* was live when the call began (RevokeAllUserTokens, RevokeTokenFamily).
THEOREM RevocationsReachBack == Spec => []RevocationReachesBack
  <1>1. SInv => RevocationReachesBack
    BY DEF SInv
  <1> QED
    BY <1>1, SessionsInvariant, PTL

\* The answers of Login, Refresh and Logout can be relied on.
THEOREM SuccessesAreTrue == Spec => []SuccessIsTrue
  <1>1. SInv => SuccessIsTrue
    BY DEF SInv
  <1> QED
    BY <1>1, SessionsInvariant, PTL

\* Only Commit writes to the table.
LEMMA OnlyCommitWrites ==
    ASSUME [Next]_vars
    PROVE  UNCHANGED table \/ \E r \in Requests : Commit(r)
  BY DEF Next, Serve, vars, Submit, GetForRefresh, GetForLogout, Consume, Expire,
         Forget, Save, RevokeTokenFamily, RevokeAllUserTokens, See, Visit,
         Respond, Fail, DetectDeadlock, PassTime, Crash, Terminated, Abandon,
         Proceed, Revoke, table

\* A stored session takes over from a live one of its family, or founds one.
LEMMA CommitRotates ==
    ASSUME SInv, NEW r \in Requests, Commit(r)
    PROVE  RotationStep
  <1>1. Apply(r) /\ TypeOK
    BY DEF Commit, SInv
  <1>2. \A t \in Tokens :
          status'[t] = CASE rowLock[t] = r         -> "revoked"
                         [] t = r /\ r \in inserts -> "live"
                         [] OTHER                  -> status[t]
    BY <1>1 DEF Apply
  <1>3. ASSUME NEW t \in Tokens, status[t] = "revoked" PROVE status'[t] = "revoked"
    BY <1>2, <1>3, AtCommit DEF Stored, Live
  <1>4. ASSUME NEW t \in Tokens, status[t] = "absent", status'[t] # "absent"
        PROVE  \/ /\ family'[t] = t
                  /\ \A u \in Tokens \ {t} : status'[u] = status[u]
               \/ \E p \in Live :
                    /\ status'[p] = "revoked"
                    /\ family'[t] = family[p]
                    /\ owner'[t] = owner[p]
                    /\ \A u \in Tokens \ {t, p} : status'[u] = status[u]
    <2>1. t = r /\ r \in inserts
      BY <1>2, <1>4, AtCommit DEF Live
    <2>2. CASE call[r].op = "Login"
      BY <1>2, <2>1, <2>2, AtCommit, CommitTable DEF FamilyOf
    <2>3. CASE call[r].op # "Login"
      <3>1. /\ Token(r) \in Live /\ Token(r) # r
            /\ \A u \in Tokens : rowLock[u] = r <=> u = Token(r)
        BY <2>1, <2>3, AtCommit DEF Live, Stored
      <3>2. call[r].user = owner[Token(r)]
        BY <2>1, <2>3, AtCommit DEF Commit, SInv, CallInv
      <3>3. family'[t] = family[Token(r)] /\ owner'[t] = owner[Token(r)]
        BY <2>1, <2>3, <3>2, CommitTable DEF FamilyOf
      <3>4. /\ status'[Token(r)] = "revoked"
            /\ \A u \in Tokens \ {t, Token(r)} : status'[u] = status[u]
        BY <1>2, <2>1, <3>1 DEF Live
      <3> QED
        BY <3>1, <3>3, <3>4
    <2> QED
      BY <2>2, <2>3
  <1> QED
    BY <1>3, <1>4 DEF RotationStep

\* Refresh rotates: a session is stored in the step that revokes the one it
\* comes from, and nothing revives a revoked session.
THEOREM RefreshRotates == Spec => SessionsRotate
  <1>1. ASSUME SInv, [Next]_vars PROVE [RotationStep]_vars
    <2>1. CASE UNCHANGED table
      BY <2>1 DEF RotationStep, table
    <2>2. CASE \E r \in Requests : Commit(r)
      BY <1>1, <2>2, CommitRotates
    <2> QED
      BY <1>1, <2>1, <2>2, OnlyCommitWrites
  <1> QED
    BY <1>1, SessionsInvariant, PTL DEF Spec, SessionsRotate

\* Every revocation is some call's of the same user: on its own token, its
\* own family, or by LogoutAll.
THEOREM NobodyElseIsLoggedOut == Spec => OnlyOwnCallsRevoke
  <1>1. ASSUME SInv, [Next]_vars PROVE [OwnCallStep]_vars
    <2>1. CASE UNCHANGED table
      BY <2>1 DEF OwnCallStep, table, Live
    <2>2. ASSUME NEW r \in Requests, Commit(r) PROVE OwnCallStep
      <3> SUFFICES ASSUME NEW t \in Live, status'[t] # "live"
                   PROVE  /\ pc[r] # "answer" /\ pc'[r] = "answer"
                          /\ call[r].user = owner[t]
                          /\ \/ call[r].op = "LogoutAll"
                             \/ /\ call[r].op = "Refresh"
                                /\ family[Token(r)] = family[t]
                             \/ call[r].op = "Logout" /\ Token(r) = t
        BY DEF OwnCallStep
      <3>1. t \in Tokens /\ rowLock[t] = r
        BY <1>1, <2>2, CommitTable DEF Live
      <3>2. /\ call[r].op \in {"Refresh", "Logout"} =>
                 Token(r) \in Stored /\ call[r].user = owner[Token(r)]
            /\ TypeOK /\ TableInv
            /\ pc[r] # "answer"
        BY <1>1, <2>2 DEF Commit, SInv, CallInv
      <3>3. pc'[r] = "answer"
        BY <2>2, <3>2 DEF Commit, Return, Goto, TypeOK
      <3>4. CASE t = Token(r) /\ call[r].op \in {"Refresh", "Logout"}
        BY <3>2, <3>3, <3>4
      <3>5. CASE t \in Scope(r) /\ call[r].op \in {"Refresh", "LogoutAll"}
        BY <3>2, <3>3, <3>5 DEF Scope, TableInv
      <3> QED
        BY <1>1, <2>2, <3>1, <3>4, <3>5, AtCommit
    <2> QED
      BY <1>1, <2>1, <2>2, OnlyCommitWrites
  <1> QED
    BY <1>1, SessionsInvariant, PTL DEF Spec, OnlyOwnCallsRevoke

\* Every step on the table is one of those a single call may take (AuthService).
THEOREM TableSteps == Spec => StepsAreOwn
  <1>1. [RotationStep]_vars /\ [OwnCallStep]_vars => [RotationStep /\ OwnCallStep]_vars
    OBVIOUS
  <1> QED
    BY <1>1, RefreshRotates, NobodyElseIsLoggedOut, PTL
       DEF StepsAreOwn, SessionsRotate, OnlyOwnCallsRevoke
=============================================================================
