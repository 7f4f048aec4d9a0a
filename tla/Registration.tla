---------------------------- MODULE Registration ----------------------------
(***************************************************************************)
(* How accounts come about and are logged into: Register (and the login    *)
(* that its handler adds), Login, and AccountsService.Create with its      *)
(* marker in Redis, against the accounts table at READ COMMITTED.          *)
(*                                                                         *)
(* The account that a call stores is named after the call.  An INSERT that *)
(* meets the uncommitted row of a rival waits for the rival's transaction. *)
(***************************************************************************)
EXTENDS Naturals, FiniteSets

CONSTANTS
    Requests,        \* calls
    Mailboxes,
    Passwords,
    ValidPasswords,  \* those of a legal length
    Ips,
    Calls,           \* what each request may ask for
    NoRequest

\* Ways to write an address: as normalizeEmail does, with capitals, with
\* blanks around it.
Forms == {"lower", "upper", "padded"}
Emails == [mailbox: Mailboxes, form: Forms]

AllCalls == [op: {"Register", "Login", "Create"}, email: Emails,
             password: Passwords, ip: Ips]

ASSUME RegistrationAssumption ==
    /\ NoRequest \notin Requests
    /\ ValidPasswords \subseteq Passwords
    /\ Calls \in [Requests -> SUBSET AllCalls]

VARIABLES
    accounts,   \* the committed table
    inserted,   \* requests whose open transaction has inserted an account
    session,    \* the account for which a request has stored a session
    marker,     \* addresses with a marker in Redis
    call,       \* what a request asks for
    found,      \* the account that Login has read
    pc,
    answer,
    before      \* history: the accounts there were when the call began

tables == <<accounts, session>>
vars == <<accounts, inserted, session, marker, call, found, pc, answer, before>>

Rows == [id: Requests, email: Emails, password: Passwords]

Running == {"limit", "marker", "insert", "commit",
            "loginLimit", "load", "save"}
Answers == {"None", "Ok", "Invalid", "RateLimited", "Duplicate", "Conflict",
            "BadCredentials", "Internal", "Lost"}

TypeOK ==
    /\ accounts \subseteq Rows
    /\ inserted \subseteq Requests
    /\ session \in [Requests -> Requests \cup {NoRequest}]
    /\ marker \subseteq Ips
    /\ call \in [Requests -> AllCalls \cup {NoRequest}]
    /\ \A r \in Requests : pc[r] # "idle" => call[r] \in AllCalls
    /\ found \in [Requests -> Requests \cup {NoRequest}]
    /\ pc \in [Requests -> Running \cup {"idle", "answer", "done"}]
    /\ answer \in [Requests -> Answers]
    /\ before \in [Requests -> SUBSET Rows]
    /\ \A r \in Requests :     \* refresh_token.user_id REFERENCES accounts
        session[r] # NoRequest => \E a \in accounts : a.id = session[r]

Init ==
    /\ accounts = {}
    /\ inserted = {}
    /\ session = [r \in Requests |-> NoRequest]
    /\ marker = {}
    /\ call = [r \in Requests |-> NoRequest]
    /\ found = [r \in Requests |-> NoRequest]
    /\ pc = [r \in Requests |-> "idle"]
    /\ answer = [r \in Requests |-> "None"]
    /\ before = [r \in Requests |-> {}]

-----------------------------------------------------------------------------
(* Helpers *)

Goto(r, place) == pc' = [pc EXCEPT ![r] = place]

Return(r, kind) ==
    /\ Goto(r, "answer")
    /\ answer' = [answer EXCEPT ![r] = kind]

\* TrimSpace and ToLower.
NormalizeEmail(e) == [e EXCEPT !.form = "lower"]

\* LOWER(email) in SQL leaves blanks alone.
LowerEmail(e) ==
    [e EXCEPT !.form = IF @ = "padded" THEN "padded" ELSE "lower"]

\* What a request stores: Create takes the account as it is given.
NewRow(r) ==
    [id |-> r,
     email |-> IF call[r].op = "Create" THEN call[r].email
               ELSE NormalizeEmail(call[r].email),
     password |-> call[r].password]

Collide(a, b) == LowerEmail(a.email) = LowerEmail(b.email)

Taken(r) == \E a \in accounts : Collide(a, NewRow(r))

RivalInserting(r) ==
    \E q \in inserted \ {r} : Collide(NewRow(q), NewRow(r))

\* An early return; the deferred Rollback takes the row back.
Abandon(r, kind) ==
    /\ Return(r, kind)
    /\ inserted' = inserted \ {r}

-----------------------------------------------------------------------------
(* The calls *)

\* Register validates before anything else, Login later, Create not at all.
Submit(r) ==
    /\ pc[r] = "idle"
    /\ \E c \in Calls[r] :
        /\ call' = [call EXCEPT ![r] = c]
        /\ \/ /\ c.op = "Register" /\ c.password \notin ValidPasswords
              /\ Return(r, "Invalid")
           \/ /\ c.op = "Register" => c.password \in ValidPasswords
              /\ Goto(r, IF c.op = "Login" THEN "loginLimit" ELSE "limit")
              /\ UNCHANGED answer
    /\ before' = [before EXCEPT ![r] = accounts]
    /\ UNCHANGED <<tables, inserted, marker, found>>

\* The rate limiter lets a call through or does not.
CheckRateLimit(r) ==
    /\ \/ pc[r] = "limit" /\ call[r].op = "Create" /\ Goto(r, "marker")
             /\ UNCHANGED answer
       \/ pc[r] = "limit" /\ call[r].op = "Register" /\ Goto(r, "insert")
             /\ UNCHANGED answer
       \/ pc[r] = "loginLimit" /\ call[r].password \in ValidPasswords
             /\ Goto(r, "load") /\ UNCHANGED answer
       \/ pc[r] = "loginLimit" /\ call[r].password \notin ValidPasswords
             /\ Return(r, "BadCredentials")
       \/ pc[r] \in {"limit", "loginLimit"} /\ Return(r, "RateLimited")
    /\ UNCHANGED <<tables, inserted, marker, call, found, before>>

\* SetNX.  If the reply is lost, the client may report an error, or send the
\* command again and be told of a duplicate which is its own.
IdempotencyCheck(r) ==
    /\ pc[r] = "marker"
    /\ \/ /\ call[r].ip \notin marker
          /\ Goto(r, "insert")
          /\ UNCHANGED answer
       \/ Return(r, "Duplicate")
       \/ Return(r, "Internal")
    /\ marker' = marker \cup {call[r].ip}
    /\ UNCHANGED <<tables, inserted, call, found, before>>

InsertWithoutWaiting(r) ==   \* deviation: the rival's insert is a conflict
    /\ pc[r] = "insert"
    /\ \/ (Taken(r) \/ RivalInserting(r)) /\ Abandon(r, "Conflict")
       \/ /\ ~Taken(r) /\ ~RivalInserting(r)
          /\ inserted' = inserted \cup {r}
          /\ Goto(r, "commit")
          /\ UNCHANGED answer
    /\ UNCHANGED <<tables, marker, call, found, before>>

InsertUnindexed(r) ==   \* deviation: looks whether the address is taken
    /\ pc[r] = "insert"
    /\ \/ Taken(r) /\ Abandon(r, "Conflict")
       \/ /\ ~Taken(r)
          /\ inserted' = inserted \cup {r}
          /\ Goto(r, "commit")
          /\ UNCHANGED answer
    /\ UNCHANGED <<tables, marker, call, found, before>>

\* accountRepo.Create: 23505 is ErrAccountAlreadyExist.
Insert(r) ==
    /\ pc[r] = "insert"
    /\ ~RivalInserting(r)
    /\ \/ Taken(r) /\ Abandon(r, "Conflict")
       \/ /\ ~Taken(r)
          /\ inserted' = inserted \cup {r}
          /\ Goto(r, "commit")
          /\ UNCHANGED answer
    /\ UNCHANGED <<tables, marker, call, found, before>>

\* The confirmation may be lost.  After Register the handler calls Login.
Commit(r) ==
    /\ pc[r] = "commit"
    /\ accounts' = accounts \cup {NewRow(r)}
    /\ inserted' = inserted \ {r}
    /\ \/ call[r].op = "Register" /\ Goto(r, "loginLimit") /\ UNCHANGED answer
       \/ call[r].op = "Create" /\ Return(r, "Ok")
       \/ Return(r, "Internal")
    /\ UNCHANGED <<session, marker, call, found, before>>

\* GetByEmail for a normalised address.
RowFor(r) ==
    {a \in accounts : LowerEmail(a.email) = NormalizeEmail(call[r].email)}

LoadExact(r) ==   \* deviation: WHERE email = $1, with the address as written
    /\ pc[r] = "load"
    /\ \/ \E a \in accounts :
            /\ a.email = call[r].email
            /\ a.password = call[r].password
            /\ found' = [found EXCEPT ![r] = a.id]
            /\ Goto(r, "save")
            /\ UNCHANGED answer
       \/ /\ \A a \in accounts :
                a.email = call[r].email => a.password # call[r].password
          /\ Return(r, "BadCredentials")
          /\ UNCHANGED found
    /\ UNCHANGED <<tables, inserted, marker, call, before>>

\* loadAccountForLogin, and bcrypt.
Load(r) ==
    /\ pc[r] = "load"
    /\ \/ \E a \in RowFor(r) :
            /\ a.password = call[r].password
            /\ found' = [found EXCEPT ![r] = a.id]
            /\ Goto(r, "save")
            /\ UNCHANGED answer
       \/ /\ \A a \in RowFor(r) : a.password # call[r].password
          /\ Return(r, "BadCredentials")
          /\ UNCHANGED found
    /\ UNCHANGED <<tables, inserted, marker, call, before>>

SaveSwapped(r) ==   \* deviation: the jti in the place of the user's id
    /\ pc[r] = "save"
    /\ session' = [session EXCEPT ![r] = r]
    /\ Return(r, "Ok") \/ Return(r, "Internal")
    /\ UNCHANGED <<accounts, inserted, marker, call, found, before>>

\* saveRefreshSession; the confirmation of its Commit may be lost.
Save(r) ==
    /\ pc[r] = "save"
    /\ session' = [session EXCEPT ![r] = found[r]]
    /\ Return(r, "Ok") \/ Return(r, "Internal")
    /\ UNCHANGED <<accounts, inserted, marker, call, found, before>>

Respond(r) ==
    /\ pc[r] = "answer"
    /\ Goto(r, "done")
    /\ UNCHANGED <<tables, inserted, marker, call, found, answer, before>>

-----------------------------------------------------------------------------
(* The environment *)

\* A store fails, or the request's context ends.
Fail(r) ==
    /\ pc[r] \in Running
    /\ Abandon(r, "Internal")
    /\ UNCHANGED <<tables, marker, call, found, before>>

\* The marker's minute is over.
ExpireMarker(ip) ==
    /\ ip \in marker
    /\ marker' = marker \ {ip}
    /\ UNCHANGED <<tables, inserted, call, found, pc, answer, before>>

\* Open transactions are rolled back, Redis and PostgreSQL go on.
Crash ==
    /\ \E r \in Requests : pc[r] \in Running
    /\ inserted' = {}
    /\ pc' = [r \in Requests |-> IF pc[r] \in Running \cup {"answer"}
                                 THEN "done" ELSE pc[r]]
    /\ answer' = [r \in Requests |-> IF pc[r] \in Running \cup {"answer"}
                                     THEN "Lost" ELSE answer[r]]
    /\ UNCHANGED <<tables, marker, call, found, before>>

-----------------------------------------------------------------------------

Serve(r) ==
    \/ CheckRateLimit(r) \/ IdempotencyCheck(r) \/ Insert(r) \/ Commit(r)
    \/ Load(r) \/ Save(r) \/ Respond(r)

Terminated ==
    /\ \A r \in Requests : pc[r] \in {"idle", "done"}
    /\ UNCHANGED vars

Next ==
    \/ \E r \in Requests : Submit(r) \/ Serve(r) \/ Fail(r)
    \/ \E ip \in Ips : ExpireMarker(ip)
    \/ Crash
    \/ Terminated

Spec == Init /\ [][Next]_vars

-----------------------------------------------------------------------------
(* Properties *)

\* However many registrations race, and by whichever route, there is one
\* account for an address, whatever its capitals (accounts_email_lower_uidx).
OneAccountPerAddress ==
    \A a, b \in accounts : Collide(a, b) => a = b

\* Who is told that the account exists is told the truth, also if the rival
\* was still in flight and might have failed (23505, WriteAuthError).
ConflictIsTrue ==
    \A r \in Requests :
        answer[r] = "Conflict" =>
            \E a \in accounts : a.id # r /\ Collide(a, NewRow(r))

\* Whoever is registered has an account of his own and the session is on it;
\* a session is only ever on an account with the caller's password and address.
SessionIsOnes ==
    \A r \in Requests :
        /\ answer[r] = "Ok" /\ call[r].op = "Register" => session[r] = r
        /\ answer[r] = "Ok" /\ call[r].op = "Login" => session[r] # NoRequest
        /\ session[r] # NoRequest =>
            \E a \in RowFor(r) :
                a.id = session[r] /\ a.password = call[r].password

\* Credentials are not refused if Register took them: neither by the login in
\* the same request nor by one that writes the address in another way.
RightCredentialsAreTaken ==
    \A r \in Requests :
        answer[r] = "BadCredentials" =>
            /\ call[r].op = "Login"
            /\ \A a \in before[r] :
                /\ call[a.id].op = "Register"
                /\ a.email.mailbox = call[r].email.mailbox
                => a.password # call[r].password

\* The right credentials are enough, and nothing else is (Login, Register).
CredentialsDecide == SessionIsOnes /\ RightCredentialsAreTaken

-----------------------------------------------------------------------------
(* The inductive invariant *)

Answered == {"answer", "done"}
LoggingIn == {"loginLimit", "load", "save"}

\* Whoever has inserted has no rival, neither committed nor in flight: the index
\* makes the second insert wait.
InsertInv ==
    /\ inserted = {r \in Requests : pc[r] = "commit"}
    /\ \A r \in inserted : ~Taken(r)
    /\ \A r, q \in inserted : Collide(NewRow(r), NewRow(q)) => r = q

\* A committed account is what its call has asked for, and that call is past
\* its Commit.
AccountInv ==
    \A a \in accounts :
        /\ a = NewRow(a.id)
        /\ pc[a.id] \in LoggingIn \cup Answered
        /\ answer[a.id] # "Conflict"
        /\ call[a.id].op # "Login"
        /\ call[a.id].op = "Register" => a.password \in ValidPasswords

\* What a call has behind it at each place.
CallInv ==
    \A r \in Requests :
        /\ before[r] \subseteq accounts
        /\ answer[r] # "None" \/ session[r] # NoRequest => pc[r] \in Answered
        /\ pc[r] \in {"limit", "marker", "insert", "commit"} =>
             /\ call[r].op # "Login"
             /\ call[r].op = "Register" => call[r].password \in ValidPasswords
        /\ pc[r] \in LoggingIn =>
             /\ call[r].op # "Create"
             /\ call[r].op = "Register" => NewRow(r) \in accounts
        /\ pc[r] = "save" =>
             \E a \in RowFor(r) :
                a.id = found[r] /\ a.password = call[r].password

RegInv ==
    /\ TypeOK
    /\ InsertInv /\ AccountInv /\ CallInv
    /\ OneAccountPerAddress
    /\ ConflictIsTrue
    /\ CredentialsDecide
=============================================================================
