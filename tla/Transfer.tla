------------------------------ MODULE Transfer ------------------------------
(***************************************************************************)
(* POST /transactions: concurrent transfer requests against PostgreSQL.    *)
(*                                                                         *)
(* A request is one call of the Transfer handler.  It runs up to           *)
(* MaxAttempts SQL transactions; each takes a pooled connection, locks the *)
(* two account rows in id order, reserves its Idempotency-Key, charges the *)
(* rate limit, moves the money, books the transaction, completes the key   *)
(* and commits.  Every SQL statement is a step, so requests, PostgreSQL    *)
(* aborts, I/O errors and server crashes interleave between statements.    *)
(*                                                                         *)
(* The database is balance, txs and idem (committed rows); lock, conn and  *)
(* staged are what open transactions hold; the rest is the local state of  *)
(* the handler.  Amounts are naturals in units of NUMERIC(36,18).          *)
(***************************************************************************)
EXTENDS Naturals, FiniteSetsExt

CONSTANTS
    Requests,       \* HTTP requests to POST /transactions
    Accounts,       \* ids of the rows of the accounts table
    Ids,            \* ids a client may name as receiver
    Keys,           \* values of the Idempotency-Key header
    ValidKeys,      \* those that pass ValidateIdempotencyKey
    Commands,       \* what the requests ask for
    MaxNumeric,     \* the largest value of NUMERIC(36,18)
    InitialBalance, \* balances the accounts are seeded with
    MaxConns,       \* POSTGRES_MAX_CONNS
    MaxAttempts,    \* transferMaxAttempts
    NoRequest,
    NoTx

AllCommands == [sender: Accounts, receiver: Ids, key: Keys, amount: Nat]

TxIds == Requests \X (1..MaxAttempts)

ASSUME ConstantsAssumption ==
    /\ Ids \subseteq Nat
    /\ Accounts \subseteq Ids
    /\ ValidKeys \subseteq Keys
    /\ Commands \subseteq AllCommands
    /\ MaxNumeric \in Nat
    /\ InitialBalance \in [Accounts -> 0..MaxNumeric]
    /\ MaxConns \in Nat \ {0}
    /\ MaxAttempts \in Nat \ {0}
    /\ NoRequest \notin Requests
    /\ NoTx \notin TxIds

VARIABLES
    balance,     \* accounts.balance
    txs,         \* rows of transactions
    idem,        \* rows of transfer_idempotency
    conn,        \* requests that hold a pooled connection
    lock,        \* the request whose SQL transaction locks the account row
    staged,      \* uncommitted writes of the request's SQL transaction
    charged,     \* how often Redis charged the request's rate limit
    cmd,         \* the request's transferCommand
    pc,          \* where the request is
    attempt,     \* the loop variable of Transfer
    rateChecked, \* rateLimitChecked
    outcome,     \* what Transfer returned: "Ok" or the kind of error
    answerTx     \* the transaction id returned with "Ok"

db   == <<balance, txs, idem>>
held == <<conn, lock, staged>>
rate == <<charged, rateChecked>>
ret  == <<outcome, answerTx>>
vars == <<balance, txs, idem, conn, lock, staged, charged, cmd, pc, attempt,
          rateChecked, outcome, answerTx>>

Writes == {"reserve", "debit", "credit", "insert", "update", "complete"}

\* Places at which the request's SQL transaction is open ...
InTx == {"check", "lock", "reserve", "lookup", "rate", "sub", "add",
         "insert", "update", "complete", "commit"}
\* ... where a statement of it runs on the server ...
Statements == InTx \ {"check", "rate"}
\* ... and at which Transfer has not returned yet.
Running == InTx \cup {"begin", "backoff"}
Places == Running \cup {"idle", "answer", "done"}

Refusals == {"InvalidKey", "InvalidAmount", "SameAccount", "Conflict",
             "InProgress", "RateLimited", "InsufficientFunds",
             "ReceiverNotFound"}
Outcomes == Refusals \cup {"None", "Ok", "Internal", "Lost"}

TxRows == [id: TxIds, sender: Accounts, receiver: Accounts, amount: Nat,
           status: {"pending", "completed"}]

\* The fingerprint is a SHA-256 over the canonical payload: injective here.
Fingerprint(c) == <<c.sender, c.receiver, c.amount>>

IdemRows == [sender: Accounts, key: Keys, print: Accounts \X Ids \X Nat,
             status: {"processing", "completed"}, tx: TxIds \cup {NoTx}]

TypeOK ==
    /\ balance \in [Accounts -> 0..MaxNumeric]
    /\ txs \subseteq TxRows
    /\ idem \subseteq IdemRows
    /\ conn \subseteq Requests
    /\ lock \in [Accounts -> Requests \cup {NoRequest}]
    /\ staged \in [Requests -> SUBSET Writes]
    /\ charged \in [Requests -> Nat]
    /\ cmd \in [Requests -> Commands]
    /\ pc \in [Requests -> Places]
    /\ attempt \in [Requests -> 1..MaxAttempts]
    /\ rateChecked \in [Requests -> BOOLEAN]
    /\ outcome \in [Requests -> Outcomes]
    /\ answerTx \in [Requests -> TxIds \cup {NoTx}]

Init ==
    /\ balance = InitialBalance
    /\ txs = {}
    /\ idem = {}
    /\ conn = {}
    /\ lock = [a \in Accounts |-> NoRequest]
    /\ staged = [r \in Requests |-> {}]
    /\ charged = [r \in Requests |-> 0]
    /\ cmd \in [Requests -> Commands]
    /\ pc = [r \in Requests |-> "idle"]
    /\ attempt = [r \in Requests |-> 1]
    /\ rateChecked = [r \in Requests |-> FALSE]
    /\ outcome = [r \in Requests |-> "None"]
    /\ answerTx = [r \in Requests |-> NoTx]

-----------------------------------------------------------------------------
(* Helpers *)

Goto(r, place) == pc' = [pc EXCEPT ![r] = place]

\* Transfer returns to the handler, which has yet to write the response.
Return(r, kind, id) ==
    /\ Goto(r, "answer")
    /\ outcome' = [outcome EXCEPT ![r] = kind]
    /\ answerTx' = [answerTx EXCEPT ![r] = id]

\* Commit or Rollback: PostgreSQL frees the rows, the pool the connection.
EndTx(r) ==
    /\ conn' = conn \ {r}
    /\ lock' = [a \in Accounts |-> IF lock[a] = r THEN NoRequest ELSE lock[a]]
    /\ staged' = [staged EXCEPT ![r] = {}]

AbandonWithoutRollback(r, kind, id) ==   \* deviation: no deferred Rollback
    /\ Return(r, kind, id)
    /\ UNCHANGED <<db, held, rate, cmd, attempt>>

\* An attempt that returns without Commit: the deferred Rollback runs.
Abandon(r, kind, id) ==
    /\ EndTx(r)
    /\ Return(r, kind, id)
    /\ UNCHANGED <<db, rate, cmd, attempt>>

\* A statement that writes and is followed by the one at place.
Stage(r, write, place) ==
    /\ staged' = [staged EXCEPT ![r] = @ \cup {write}]
    /\ Goto(r, place)
    /\ UNCHANGED <<db, conn, rate, ret, cmd, attempt>>

\* A row lock is granted when it is free or already the transaction's own.
RowFree(r, a) == lock[a] \in {NoRequest, r}

\* The account rows WHERE id IN (sender, receiver) finds.
RowsOf(c) == {c.sender, c.receiver} \cap Accounts
Unlocked(r) == {a \in RowsOf(cmd[r]) : lock[a] # r}

NextRowUnordered(r) ==   \* deviation: no ORDER BY id, the sender's row first
    IF cmd[r].sender \in Unlocked(r) THEN cmd[r].sender ELSE cmd[r].receiver

\* ORDER BY id FOR UPDATE: rows are locked one by one, the smallest id first.
NextRow(r) == CHOOSE a \in Unlocked(r) : \A b \in Unlocked(r) : a <= b

\* The committed transfer_idempotency row of the command, if there is one.
KeyRow(c) == {i \in idem : i.sender = c.sender /\ i.key = c.key}

\* q's open transaction has inserted the row r wants to insert.
HoldsKeyOf(q, r) ==
    /\ q # r
    /\ "reserve" \in staged[q]
    /\ cmd[q].sender = cmd[r].sender
    /\ cmd[q].key = cmd[r].key

TxId(r) == <<r, attempt[r]>>

ValidAmount(c) == c.amount > 0 /\ c.amount <= MaxNumeric

-----------------------------------------------------------------------------
(* The handler, statement by statement *)

\* The handler and Transfer check the key and the amount before any I/O.
Submit(r) ==
    /\ pc[r] = "idle"
    /\ \/ /\ cmd[r].key \notin ValidKeys
          /\ Return(r, "InvalidKey", NoTx)
       \/ /\ cmd[r].key \in ValidKeys
          /\ ~ValidAmount(cmd[r])
          /\ Return(r, "InvalidAmount", NoTx)
       \/ /\ cmd[r].key \in ValidKeys
          /\ ValidAmount(cmd[r])
          /\ Goto(r, "begin")
          /\ UNCHANGED ret
    /\ UNCHANGED <<db, held, rate, cmd, attempt>>

\* NewTX waits for a connection of the pool.
NewTX(r) ==
    /\ pc[r] = "begin"
    /\ Cardinality(conn) < MaxConns
    /\ conn' = conn \cup {r}
    /\ Goto(r, "check")
    /\ UNCHANGED <<db, lock, staged, rate, ret, cmd, attempt>>

CheckParties(r) ==
    /\ pc[r] = "check"
    /\ \/ /\ cmd[r].sender = cmd[r].receiver
          /\ Abandon(r, "SameAccount", NoTx)
       \/ /\ cmd[r].sender # cmd[r].receiver
          /\ Goto(r, "lock")
          /\ UNCHANGED <<db, held, rate, ret, cmd, attempt>>

LockForTransfer(r) ==
    /\ pc[r] = "lock"
    /\ lock[NextRow(r)] = NoRequest
    /\ lock' = [lock EXCEPT ![NextRow(r)] = r]
    /\ Goto(r, IF Unlocked(r) = {NextRow(r)} THEN "reserve" ELSE "lock")
    /\ UNCHANGED <<db, conn, staged, rate, ret, cmd, attempt>>

TryCreateIdempotencyUpsert(r) ==   \* deviation: ON CONFLICT DO UPDATE
    /\ pc[r] = "reserve"
    /\ \A q \in Requests : ~HoldsKeyOf(q, r)
    /\ Stage(r, "reserve", IF rateChecked[r] THEN "sub" ELSE "rate")
    /\ UNCHANGED lock

TryCreateIdempotencyApart(r) ==   \* deviation: the key is committed on its own
    /\ pc[r] = "reserve"
    /\ \/ /\ KeyRow(cmd[r]) = {}
          /\ idem' = idem \cup
               {[sender |-> cmd[r].sender, key |-> cmd[r].key,
                 print |-> Fingerprint(cmd[r]), status |-> "processing",
                 tx |-> NoTx]}
          /\ Goto(r, "rate")
       \/ /\ KeyRow(cmd[r]) # {}
          /\ Goto(r, "lookup")
          /\ UNCHANGED idem
    /\ UNCHANGED <<balance, txs, held, rate, ret, cmd, attempt>>

\* INSERT ... ON CONFLICT DO NOTHING waits for a rival uncommitted insert,
\* then inserts, or finds the committed row.
TryCreateIdempotency(r) ==
    /\ pc[r] = "reserve"
    /\ \A q \in Requests : ~HoldsKeyOf(q, r)
    /\ \/ /\ KeyRow(cmd[r]) = {}
          /\ Stage(r, "reserve", IF rateChecked[r] THEN "sub" ELSE "rate")
       \/ /\ KeyRow(cmd[r]) # {}
          /\ Goto(r, "lookup")
          /\ UNCHANGED <<db, conn, staged, rate, ret, cmd, attempt>>
    /\ UNCHANGED lock

ResolveWithoutFingerprint(r) ==   \* deviation: the payload is not compared
    /\ pc[r] = "lookup"
    /\ \E row \in KeyRow(cmd[r]) : Abandon(r, "Ok", row.tx)

\* GetIdempotency and the rest of resolveIdempotency.
ResolveIdempotency(r) ==
    /\ pc[r] = "lookup"
    /\ \/ /\ KeyRow(cmd[r]) = {}
          /\ Abandon(r, "Internal", NoTx)
       \/ \E row \in KeyRow(cmd[r]) :
            \/ /\ row.print # Fingerprint(cmd[r])
               /\ Abandon(r, "Conflict", NoTx)
            \/ /\ row.print = Fingerprint(cmd[r])
               /\ row.status # "completed" \/ row.tx = NoTx
               /\ Abandon(r, "InProgress", NoTx)
            \/ /\ row.print = Fingerprint(cmd[r])
               /\ row.status = "completed" /\ row.tx # NoTx
               /\ Abandon(r, "Ok", row.tx)

CheckRateLimitForgetful(r) ==   \* deviation: rateLimitChecked is never set
    /\ pc[r] = "rate"
    /\ charged' = [charged EXCEPT ![r] = @ + 1]
    /\ Goto(r, "sub")
    /\ UNCHANGED <<db, held, ret, cmd, attempt, rateChecked>>

\* The Redis call, made while the SQL transaction is open: allowed, refused,
\* or charged with the answer lost on the way back.
CheckRateLimit(r) ==
    /\ pc[r] = "rate"
    /\ \/ /\ charged' = [charged EXCEPT ![r] = @ + 1]
          /\ rateChecked' = [rateChecked EXCEPT ![r] = TRUE]
          /\ Goto(r, "sub")
          /\ UNCHANGED <<db, held, ret, cmd, attempt>>
       \/ Abandon(r, "RateLimited", NoTx)
       \/ /\ charged' = [charged EXCEPT ![r] = @ + 1]
          /\ EndTx(r)
          /\ Return(r, "Internal", NoTx)
          /\ UNCHANGED <<db, cmd, attempt, rateChecked>>

SubApart(r) ==   \* deviation: the debit is committed on its own
    /\ pc[r] = "sub"
    /\ balance[cmd[r].sender] >= cmd[r].amount
    /\ balance' = [balance EXCEPT ![cmd[r].sender] = @ - cmd[r].amount]
    /\ Goto(r, "add")
    /\ UNCHANGED <<txs, idem, held, rate, ret, cmd, attempt>>

\* UPDATE ... WHERE id = sender AND balance >= amount.
Sub(r) ==
    /\ pc[r] = "sub"
    /\ RowFree(r, cmd[r].sender)
    /\ \/ /\ balance[cmd[r].sender] >= cmd[r].amount
          /\ lock' = [lock EXCEPT ![cmd[r].sender] = r]
          /\ Stage(r, "debit", "add")
       \/ /\ balance[cmd[r].sender] < cmd[r].amount
          /\ Abandon(r, "InsufficientFunds", NoTx)

\* UPDATE ... WHERE id = receiver: no such row, numeric overflow, or done.
Add(r) ==
    LET to == cmd[r].receiver IN
    /\ pc[r] = "add"
    /\ \/ /\ to \notin Accounts
          /\ Abandon(r, "ReceiverNotFound", NoTx)
       \/ /\ to \in Accounts
          /\ RowFree(r, to)
          /\ balance[to] + cmd[r].amount > MaxNumeric
          /\ Abandon(r, "Internal", NoTx)
       \/ /\ to \in Accounts
          /\ RowFree(r, to)
          /\ balance[to] + cmd[r].amount <= MaxNumeric
          /\ lock' = [lock EXCEPT ![to] = r]
          /\ Stage(r, "credit", "insert")

InsertTransaction(r) ==
    /\ pc[r] = "insert"
    /\ Stage(r, "insert", "update")
    /\ UNCHANGED lock

UpdateStatus(r) ==
    /\ pc[r] = "update"
    /\ Stage(r, "update", "complete")
    /\ UNCHANGED lock

\* UPDATE ... WHERE status = 'processing' must hit the row reserved above.
CompleteIdempotency(r) ==
    /\ pc[r] = "complete"
    /\ \/ /\ "reserve" \in staged[r]
          /\ Stage(r, "complete", "commit")
          /\ UNCHANGED lock
       \/ /\ "reserve" \notin staged[r]
          /\ Abandon(r, "Internal", NoTx)

\* What the staged writes make of the tables.
Debit(r, a) ==
    IF "debit" \in staged[r] /\ cmd[r].sender = a THEN cmd[r].amount ELSE 0

Credit(r, a) ==
    IF "credit" \in staged[r] /\ cmd[r].receiver = a THEN cmd[r].amount ELSE 0

StagedTx(r) ==
    [id |-> TxId(r), sender |-> cmd[r].sender, receiver |-> cmd[r].receiver,
     amount |-> cmd[r].amount,
     status |-> IF "update" \in staged[r] THEN "completed" ELSE "pending"]

StagedKey(r) ==
    [sender |-> cmd[r].sender, key |-> cmd[r].key,
     print |-> Fingerprint(cmd[r]),
     status |-> IF "complete" \in staged[r] THEN "completed" ELSE "processing",
     tx |-> IF "complete" \in staged[r] THEN TxId(r) ELSE NoTx]

ApplyWithoutKey(r) ==   \* deviation: the key lives outside the SQL transaction
    /\ balance' = [a \in Accounts |-> (balance[a] + Credit(r, a)) - Debit(r, a)]
    /\ txs' = txs \cup (IF "insert" \in staged[r] THEN {StagedTx(r)} ELSE {})
    /\ UNCHANGED idem

Apply(r) ==
    /\ balance' = [a \in Accounts |-> (balance[a] + Credit(r, a)) - Debit(r, a)]
    /\ txs' = txs \cup (IF "insert" \in staged[r] THEN {StagedTx(r)} ELSE {})
    /\ idem' = idem \cup (IF "reserve" \in staged[r] THEN {StagedKey(r)} ELSE {})

\* Commit succeeds, or takes effect although the connection fails before the
\* confirmation arrives; Transfer then returns an error it does not retry.
Commit(r) ==
    /\ pc[r] = "commit"
    /\ Apply(r)
    /\ EndTx(r)
    /\ \/ Return(r, "Ok", TxId(r))
       \/ Return(r, "Internal", NoTx)
    /\ UNCHANGED <<rate, cmd, attempt>>

\* The backoff timer fires: the next attempt.
Retry(r) ==
    /\ pc[r] = "backoff"
    /\ attempt' = [attempt EXCEPT ![r] = @ + 1]
    /\ Goto(r, "begin")
    /\ UNCHANGED <<db, held, rate, ret, cmd>>

\* The handler writes the response.
Respond(r) ==
    /\ pc[r] = "answer"
    /\ Goto(r, "done")
    /\ UNCHANGED <<db, held, rate, ret, cmd, attempt>>

-----------------------------------------------------------------------------
(* What the environment does to it *)

\* An I/O error, or the request's context ends: not retried.
Fail(r) ==
    /\ pc[r] \in Running
    /\ Abandon(r, "Internal", NoTx)

\* SQLSTATE 40001 or 40P01: the SQL transaction is gone; Transfer backs off,
\* or gives up after the last attempt.
PgAbort(r) ==
    /\ pc[r] \in Statements
    /\ EndTx(r)
    /\ \/ /\ attempt[r] < MaxAttempts
          /\ Goto(r, "backoff")
          /\ UNCHANGED ret
       \/ /\ attempt[r] = MaxAttempts
          /\ Return(r, "Internal", NoTx)
    /\ UNCHANGED <<db, rate, cmd, attempt>>

\* The server dies: PostgreSQL rolls back what was open, the clients get no
\* answer, not even to what was committed.
Crash ==
    /\ \E r \in Requests : pc[r] \in Running \cup {"answer"}
    /\ conn' = {}
    /\ lock' = [a \in Accounts |-> NoRequest]
    /\ staged' = [r \in Requests |-> {}]
    /\ pc' = [r \in Requests |-> IF pc[r] = "idle" THEN "idle" ELSE "done"]
    /\ outcome' = [r \in Requests |->
                     IF pc[r] \in {"idle", "done"} THEN outcome[r] ELSE "Lost"]
    /\ answerTx' = [r \in Requests |->
                      IF pc[r] \in {"idle", "done"} THEN answerTx[r] ELSE NoTx]
    /\ UNCHANGED <<db, rate, cmd, attempt>>

Terminated ==
    /\ \A r \in Requests : pc[r] = "done"
    /\ UNCHANGED vars

\* What the server does for a request once it has arrived.
Serve(r) ==
    \/ NewTX(r) \/ CheckParties(r) \/ LockForTransfer(r)
    \/ TryCreateIdempotency(r) \/ ResolveIdempotency(r) \/ CheckRateLimit(r)
    \/ Sub(r) \/ Add(r) \/ InsertTransaction(r) \/ UpdateStatus(r)
    \/ CompleteIdempotency(r) \/ Commit(r) \/ Retry(r) \/ Respond(r)

Next ==
    \/ \E r \in Requests : Submit(r) \/ Serve(r) \/ Fail(r) \/ PgAbort(r)
    \/ Crash
    \/ Terminated

Spec == Init /\ [][Next]_vars

\* The runtime schedules every goroutine, PostgreSQL grants a free row to a
\* waiter and the pool a free connection to one: no step that stays possible
\* is put off for ever.  Nothing obliges a client to send, or a fault to occur.
Fairness == \A r \in Requests : WF_vars(Serve(r))

FairSpec == Spec /\ Fairness

-----------------------------------------------------------------------------
(* Safety *)

Total(rows) == MapThenSumSet(LAMBDA t : t.amount, rows)

Received(a) == Total({t \in txs : t.receiver = a})
Sent(a)     == Total({t \in txs : t.sender = a})

\* Every balance is what the booked transactions make of the initial one: no
\* interleaving of Sub and Add, rollback, retry or crash creates or loses
\* money, or lets a transfer move it without its row (Transfer, executeTransfer).
BalancesMatchBooks ==
    \A a \in Accounts : balance[a] + Sent(a) = InitialBalance[a] + Received(a)

\* The requests that send one Idempotency-Key of one sender, client retries
\* after a lost answer included, book one transaction between them.
ExactlyOncePerKey ==
    \A t, u \in txs :
        LET c == cmd[t.id[1]]
            d == cmd[u.id[1]]
        IN  c.sender = d.sender /\ c.key = d.key => t = u

\* Committed key rows and committed transactions correspond one to one, both
\* are completed, and the fingerprint is the transaction's payload.
KeysMatchBooks ==
    /\ \A i \in idem :
         /\ i.status = "completed"
         /\ \E t \in txs :
              /\ t.id = i.tx
              /\ t.status = "completed"
              /\ i.sender = t.sender
              /\ i.print = <<t.sender, t.receiver, t.amount>>
    /\ \A t \in txs : \E i \in idem : i.tx = t.id
    /\ \A i, j \in idem :
         (i.sender = j.sender /\ i.key = j.key) \/ i.tx = j.tx => i = j

\* An "Ok" names the transaction its key and payload stand for (a replay
\* names the first one's), a conflict has a row with another payload behind
\* it, and a refused request has booked nothing.
AnswersAreTrue ==
    \A r \in Requests :
        /\ outcome[r] = "Ok" =>
             \E i \in KeyRow(cmd[r]) :
                 i.print = Fingerprint(cmd[r]) /\ i.tx = answerTx[r]
        /\ outcome[r] = "Conflict" =>
             \E i \in KeyRow(cmd[r]) : i.print # Fingerprint(cmd[r])
        /\ outcome[r] \in Refusals => \A t \in txs : t.id[1] # r

\* The branches written for the impossible are never taken: a key found in
\* progress (409), a key row that vanishes between INSERT and SELECT, and a
\* completion that hits no row.  All three rest on the sender's row lock.
KeysAreNeverInProgress ==
    \A r \in Requests :
        /\ outcome[r] # "InProgress"
        /\ pc[r] = "lookup" => KeyRow(cmd[r]) # {}
        /\ pc[r] = "complete" => "reserve" \in staged[r]

\* The limit is charged at most once per request over all its attempts, once
\* for every booked transfer, and never for a replay on the first attempt.
ChargedOnce ==
    \A r \in Requests :
        /\ charged[r] <= 1
        /\ (\E t \in txs : t.id[1] = r) => charged[r] = 1
        /\ outcome[r] = "Ok" /\ attempt[r] = 1 /\ answerTx[r] # TxId(r)
             => charged[r] = 0

\* On every way out of an attempt the deferred Rollback or Commit gives back
\* the connection and the row locks, and no write survives into the next one.
NothingLeaks ==
    \A r \in Requests :
        pc[r] \notin InTx =>
            /\ r \notin conn
            /\ \A a \in Accounts : lock[a] # r
            /\ staged[r] = {}

\* r waits for q: for a row lock, for q's uncommitted key, or for any one
\* connection of the full pool.
RowWanted(r) ==
    CASE pc[r] = "lock" -> {NextRow(r)}
      [] pc[r] = "sub"  -> {cmd[r].sender}
      [] pc[r] = "add"  -> {cmd[r].receiver} \cap Accounts
      [] OTHER          -> {}

WaitsWithin(r, S) ==
    \/ \E q \in S \ {r}, a \in RowWanted(r) : lock[a] = q
    \/ pc[r] = "reserve" /\ \E q \in S : HoldsKeyOf(q, r)
    \/ pc[r] = "begin" /\ Cardinality(conn) >= MaxConns /\ conn \subseteq S

\* No set of requests waits for itself: not on rows taken in opposite orders,
\* not on the pool while its connections wait on rows (the comment on
\* LockForTransfer in transferAttempt).
NoDeadlock ==
    \A S \in (SUBSET Requests) \ {{}} : \E r \in S : ~WaitsWithin(r, S)

-----------------------------------------------------------------------------
(* Steps *)

\* Committed rows are never rewritten, and a step that moves money books
\* exactly one transaction and moves exactly its amount (Commit is the only
\* place where the world sees a transfer).
BookedStep ==
    /\ txs \subseteq txs'
    /\ idem \subseteq idem'
    /\ balance' # balance =>
         \E t \in txs' \ txs :
             /\ txs' = txs \cup {t}
             /\ balance' = [balance EXCEPT ![t.sender] = @ - t.amount,
                                           ![t.receiver] = @ + t.amount]

MoneyMovesWithBooks == [][BookedStep]_vars

-----------------------------------------------------------------------------
(* Liveness *)

\* Under fair scheduling every request that reaches the pool is answered, or
\* lost in a crash: neither a full pool nor a chain of row locks starves it.
EveryRequestEnds ==
    \A r \in Requests : pc[r] = "begin" ~> pc[r] = "done"

-----------------------------------------------------------------------------
(* Refinement *)

\* The client knows nothing before the response is written.
Promise == INSTANCE Ledger WITH
    Attempts <- 1..MaxAttempts,
    answer <- [r \in Requests |-> IF pc[r] = "done" THEN outcome[r] ELSE "None"],
    answerTx <- [r \in Requests |-> IF pc[r] = "done" THEN answerTx[r] ELSE NoTx]

\* Every behaviour of the handlers is one of the abstract ledger.
ImplementsLedger == Promise!Spec

-----------------------------------------------------------------------------
(* What README.md says of an Idempotency-Key *)

HttpStatus(kind) ==
    CASE kind = "Ok" -> 201
      [] kind \in {"Conflict", "InProgress"} -> 409
      [] kind \in {"InvalidKey", "InvalidAmount", "SameAccount",
                   "InsufficientFunds", "ReceiverNotFound"} -> 400
      [] OTHER -> 500

\* README.md: the same key and the same payload give the same result.  Stated
\* of the answers the clients receive, server errors set aside.
SameKeySameResult ==
    \A r, q \in Requests :
        /\ pc[r] = "done" /\ pc[q] = "done"
        /\ HttpStatus(outcome[r]) < 500 /\ HttpStatus(outcome[q]) < 500
        /\ cmd[r].key = cmd[q].key
        /\ Fingerprint(cmd[r]) = Fingerprint(cmd[q])
        => outcome[r] = outcome[q] /\ answerTx[r] = answerTx[q]
=============================================================================
