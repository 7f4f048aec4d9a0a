# Verification of the payment processing service

TLA+ models of the service in `src/`, TLC configurations that check them on
small instances, and theorems proved with TLAPS. Paths below are relative to
`src/`.

## 1. The system

A Go HTTP server in front of PostgreSQL (the source of truth) and Redis (rate
limits and short-lived markers). Every request is a goroutine; goroutines share
nothing but the `database/sql` pool and the two stores. All SQL runs in explicit
transactions at READ COMMITTED (`internal/infrastructure/storage/storage.go`).

| Component | State | Operations | Hard part | What makes it correct |
|---|---|---|---|---|
| Transfers: `usecase/transactions.go`, `transaction_handler.go`, `storage.go` | `accounts.balance`, `transactions`, `transfer_idempotency`; row locks, pool | `Transfer`: lock two rows, reserve key, rate limit, debit, credit, insert, complete, commit; 3 attempts | interleaved statements, lock order, aborts and retries, ambiguous commit, crash | money is conserved, a key books once, answers are true, nobody waits for ever |
| Refresh sessions: `usecase/auth.go`, `auth_handler.go`, `jwt.go`, `storage.go` | `refresh_token` | `Login`, `Refresh` (rotation, reuse detection), `Logout`, `LogoutAll` | two refreshes of one token, reuse and logout-all against a rotation in flight, expiry | one live session per login, revocation is effective and limited to its scope |
| Rate limiter: `cache/redis.go` | one sorted set per identity and window | `CheckRateLimit` (minute, hour, day), `IdempotencyCheck` | three windows charged in turn, request times out of order, commands repeated or late | a window (shorter by the lag of a command than its nominal length, section 3) never admits more than its limit, nobody is charged twice or let through unpaid |
| Registration: `usecase/auth.go`, `usecase/accounts.go`, `auth_handler.go` | `accounts`, a Redis marker | `Register` then `Login`; `Create` | commit then login, unique e-mail, marker left after a failure | one account per e-mail, true conflicts, a session on the right account |
| Queries: `usecase/accounts.go`, `usecase/transactions.go`, `storage/helper.go`, `account.go`, `request.go` | none | paged history of an account, a transaction by its id, a filter | count and page in two snapshots, rows that appear behind what was read, equal times, dates as bounds | a walk misses nothing that was there, a count is never more than the pages keep, a lookup by id shows a transfer to its parties and nobody else, a filter shows the page that was asked for (of anybody's transfers, section 7) |
| Decimal: `internal/decimal` | none | parse, rescale, compare, `FitsNumeric` | digits and exponents at the limits | agrees with rational arithmetic |
| Lifecycle: `internal/pkg/app`, `cmd/server` | the stack of deferred calls, server, pool, Redis client, signals | start, serve, signal, `Shutdown`, close | shutdown timeout while handlers run, signal and failure together, failures half-way through the start | status 0 means all were answered, nothing stays open, failures are reported, the process ends |
| Configuration: `config.go` | none | `Load`, `Validate` | unreadable numbers, values checked against each other | what starts fits what the other parts assume |
| Access tokens: `jwt.go`, `middleware.go` | none | `GenerateTokenPair`, the two validations | `exp` cut to the second, a row that is exact, two kinds of tokens | lifetimes nest, no kind passes for the other |
| HTTP helpers, logger, migrations tool, seed, scripts | none | formatting, tools that run by themselves | none | not modelled |

Interactions: handlers call services, services call storage in a transaction
and Redis, in `Transfer` even while the transaction holds row locks. Sessions
and transfers meet only in the pool and in `accounts` (a session references its
user), never in the rows they write.

## 2. Plan

Order of work, most important first. Done: 1 to 13.

1. `Ledger` – the abstract specification of a transfer.
2. `Transfer` – the protocol, statement by statement; implements `Ledger`.
3. `TransferInvariant`, `TransferProofs`, `TransferRefinement` – the theorems.
4. `Sessions` – refresh sessions, statement by statement.
5. `SessionsProofs` – the theorems.
6. `RateLimit`, `RateLimitProofs` – the sliding windows of the Lua script,
   charged one after the other over an unreliable connection, and the theorems.
7. `Decimal` – parsing, rescaling, `FitsNumeric` and printing against exact
   definitions over bounded inputs.
8. `Registration` – `Register` then `Login`, `Create` with its Redis marker, the
   unique e-mail.
9. `Config`, `Tokens`, `Lifecycle`, `LifecycleProofs` – the process from its
   configuration to its end, with handlers in outline, and the theorems.
10. `History` – pages, counts, lookups and filters beside transfers that commit.
11. `NoDeadlock` from the lock order (`TransferProofs`).
12. `RegistrationProofs`, `HistoryProofs` – the theorems about accounts and about
    reading; `ChargedOnce` in `TransferInvariant`.
13. `BalancesMatch` (`TransferRefinement`), which rests on lemmas about sums over a
    finite set, and `DecimalProofs`, which rests on lemmas about powers of ten and digits.
14. Open: an abstract limiter (a log of admissions) that `RateLimit` implements,
    to be used in `Transfer`.

## 3. Modules

`Transfer`. A request is one
call of the handler with its `transferCommand`. `balance`, `txs`, `idem` are
the committed tables; `conn`, `lock`, `staged` are the pool, the row locks and
the uncommitted writes; `pc`, `attempt`, `rateChecked`, `outcome`, `answerTx`
are the handler's locals; `charged` is Redis. Every SQL statement is an action
of the same name (`LockForTransfer`, `TryCreateIdempotency`, `Sub`, `Add`, ...);
`NextRow` is the `ORDER BY id` under `FOR UPDATE`; `Abandon` is an early return
with the deferred `Rollback`; `Commit` applies all staged writes at once, and
may take effect although its confirmation is lost. `PgAbort` is SQLSTATE 40001
or 40P01 at any statement (the only errors that are retried), `Fail` any other
error or the end of the request's context, `Crash` the death of the server.
Amounts are naturals in units of NUMERIC(36,18); `MaxNumeric` is its largest
value, and exceeding it makes `Add` fail. That a text, a decimal and a fingerprint may stand for
such a number is `AmountsAreUnits` in `DecimalProofs`. `Total` sums the amounts of a set of rows. A UNIQUE violation is modelled as
PostgreSQL does it: the insert waits for the rival transaction.

`Ledger`. A transfer is one step (`Execute`) that moves the money, books the
row and fills the key; the client learns about it in another (`Acknowledge`),
a refusal promises that nothing was booked, an error promises nothing.
`Transfer!Promise` instantiates it: tables and commands are the same, and an
answer exists only once the response has been written.

`Sessions`. A request is one call; the session it stores is named after it.
`status`, `family`, `owner`, `expired` are the table, `rowLock` and `inserts`
the uncommitted writes, `targets` the rows an UPDATE has seen and not visited,
`known` the tokens that have reached a client. An UPDATE of many rows
(`RevokeTokenFamily`, `RevokeAllUserTokens`) takes its snapshot in one step and
then waits for, re-checks and revokes one row after the other (`Visit`), which
is what READ COMMITTED does; the order is open since the code asks for none.
`DetectDeadlock` is PostgreSQL's detector. Rate limit, credentials and
signatures are reduced to whether a call is refused (`Submit`). A client
presents only tokens that have reached it. The token and its row expire
together (`PassTime`): the two checks of Refresh are two steps, so the token may
expire between them.

`RateLimit`. A check (a call of `CheckRateLimit`) asks its windows in turn.
`entries` and `expires` are the sorted sets in Redis and their EXPIRE, `flight`
the commands that may still reach it. `Send` takes the time and the request id
and sends the script (`checkWindow`); `Resend` is the go-redis client's retry
with the same arguments; `RunScript` is the Lua script in one step, for a
command whose sender may have given up long ago; `Receive` goes on to the next
window, returns `ErrRateLimited` or nil; `Fail` any error. `admitted`, the log of
everything a bucket ever took, is history. Redis and the servers share a clock,
and a command runs, or is lost, within `MaxLag` of its time stamp. The windows
are parameters; the code has three, 60, 3600 and 86400 seconds long. Request ids
are made from nanoseconds and are taken to differ between checks. Two things the model
shows about the code as it is: with commands that overtake each other a window
of full length can hold more than its limit, so `SlidingWindow` is about
`Length - MaxLag`; and a check whose first command was charged while its reply
was lost may be refused by its own entry.

`Registration`. A request is one call of Register, Login or Create; the account it
stores is named after it. `accounts` is the committed table, `inserted` the open
transactions that have inserted; an INSERT with a rival's uncommitted row in
its way waits for it (`RivalInserting`). An address is a mailbox and the way it
is written: `NormalizeEmail` is the trimming and lower-casing of the service,
`LowerEmail` the index on `LOWER(email)`, which does not trim. The rate limiter is
reduced to yes or no. No route calls `Create`; it is modelled with any
spelling, since it validates nothing. `IdempotencyCheck` may be repeated by the
client after a lost reply and then refuse its own caller.

`Decimal`. One amount on its way: the text of the request (`Parse`), validation
and fingerprint (`Check`), the SQL parameter (`Store`), the row (`Load`). A text is its
sign, its digits before and after the point and its exponent. The operators
(`NewFromString`, `FitsNumeric`, `String`, `Rescale`, `Add`, `Sub`, `Cmp`) follow the
code; the properties compare them with exact integers in units of
10^-`MaxAbsExponent`. `Pow10` and `Value` (the number that the first digits of a text
are) are recursive functions, `Width` is the number of digits of a natural. PostgreSQL rounds what it stores to the column's scale
without an error (`Units`), which is why `FitsNumeric` has to be right.

`Config`. `Load` and `Validate` as operators on an environment that gives each
variable a text, a number, garbage or nothing; `Validate` is split by what it
checks. Garbage is read as -1, as the code does.

`Tokens`. A pair of tokens made at a moment and presented at another, in ticks
finer than a second: claims are truncated to the second (`NumericDate`), the
row of the session is exact. A key is the secret a token is signed with.

`Lifecycle` (extends both). `main` is where `run` is, `defers` its stack of deferred
calls, `listener` and `serverErr` the goroutine in `ListenAndServe` and its channel,
`trap` and `caught` `signal.NotifyContext`. `Select` may take either case when both are
ready; `Shutdown` succeeds once no handler is at work, or times out at any moment;
`Return` runs one deferred call per step. `handler` is a transfer in outline, with the
commits that took effect in `booked`. A `Signal` kills the process and its handlers unless `NotifyContext` is in
force. The environment is chosen in `Init`.

`History`. `phase` and `made` are the transfers and their `created_at`, which is
the time their SQL transaction began, so that rows appear out of order. A reader is
either a client that walks through the pages of the history (`CountTotal` and
`ReadPage` are the two statements of `TransactionHistory`), or one call of
`GetTransaction` or `TransactionFilter`. `Pages` is the set of pages PostgreSQL may
return: every order that agrees with `created_at DESC` counts. `LookupIsTrue` is about
the reply of `GetTransaction`. `FilterIsTrue` is about that of `TransactionFilter` and
does not mention `Matches` or `Pages`: it says which rows a client asks for (`Sought`, in days
where the code compares with midnights), that a row which was there before the call is left out only behind
a full page or among the skipped ones, and that each row shown has `offset` others before it. As
in the code the user's id plays no part in a filter. How the client walks on
(next offset, stop at a short page or at the total) is not in `src/`: it
is the use the two numbers of the response are for.

`MCTransfer`, `MCSessions`, `MCRateLimit`, `MCRegistration`, `MCDecimal`,
`MCLifecycle`, `MCHistory`. Sets, commands, texts, environments and queries for TLC.

Definitions marked "deviation" are what the modules would say if the code had
one plausible bug (no `ORDER BY`, `ON CONFLICT DO UPDATE`, no
`AND revoked = false`, a missing `Rollback`, ...). No specification uses them;
they show for each property that it can tell the code from such a bug.

## 4. Runs

| Run | Instance | Shows |
|---|---|---|
| `transfer_safety` | 3 requests, 2 accounts (balances 2 and 1), 2 keys, amounts 1 and 2, 2 connections, 2 attempts; symmetry on requests | `IInv`, the state invariants, `NoDeadlock` |
| `transfer_ledger` | 3 requests, 2 accounts, one attempt, each kind of refusal: bad key, zero amount, own account, unknown receiver, lack of funds, overflow, reused key | `MoneyMovesWithBooks`, refinement of `Ledger`, `EveryRequestEnds` |
| `transfer_readme` | 3 rivals, poor accounts | a violation, see section 7 |
| `sessions_safety` | 4 calls of any kind by one user, every session may expire; symmetry | `SInv` and the state invariants |
| `sessions_liveness` | 2 logins of one or two users, 2 calls of LogoutAll or Refresh | `EveryCallEnds`, `StepsAreOwn` |
| `sessions_reuse`, `sessions_logout_all` | 4 calls | violations, see section 7 |
| `rate_limit` | 3 checks of one identity, windows of 2 and 3 ticks with limits 1 and 2, lag 1, every command sent up to twice, 3 ticks; symmetry | `RInv` and the state invariants |
| `registration` | 3 calls for one mailbox in three spellings, two legal passwords and an illegal one, one marker; symmetry | `RegInv` and the state invariants |
| `decimal` | all texts of up to two digits before and three after the point with exponents -2 to 2 and 4, NUMERIC(4,2), exponent bound 3, which is crossed below (-2 and two or three decimals) and above (4 and none) | `DInv`, then validation, fingerprint, round trip and arithmetic |
| `lifecycle` | 84 environments around that of docker-compose, 2 handlers, 3 ticks to a second | `LInv`, what an exit means, what a started server is configured with, `SignalsNeverCutShort`, `ProcessEnds` |
| `history` | 4 transfers (three of the account, one of others), 3 moments, limits 1, 2, 0 and none, 9 single calls (2 lookups, 7 filters by party, amount and date, with pages, one refused and one garbled) | `HInv`, what a walk shows, what a count promises, `RepliesAreTrue` |

Some properties are conjunctions of named parts that belong together, each with a
comment of its own: `PaidOncePerWindow`, `StepsAreOwn`, `CredentialsDecide`,
`AcceptedIsStored`, `ExitsAreTrue`, `StartedConfigFits`, `RepliesAreTrue`. Where an
inductive invariant is checked, the type invariant is its first conjunct. `KeysMatchBooks` is
a conjunct of `IInv` and `ExpiryForgetsNothing` follows from `RInv`.

Why the bounds are enough. Two transfers conflict on a row, a key or a
connection; a third one adds a waiter behind a waiter, a replay after a crash,
and cycles of length three. Two attempts already distinguish "first" from
"repeated"; `transfer_ledger` makes do with one, since a retry starts over from
nothing, as `transfer_safety` checks and `Refinement` proves for any number. Two keys and two amounts separate the
same key, the same payload and both. `MaxNumeric` is 4 in `transfer_safety` and 3
elsewhere; `transfer_ledger` reaches the overflow. In `rate_limit` three checks
overfill both windows, entries leave the shorter one within the run, and a
bucket expires while a command for it is under way; the clock is bounded by a
state constraint. In `registration` the third call is the witness of a race of
two. In `decimal` the digits 0, 1, 5 and 9 and five places meet every boundary of
the column and of the exponent, at both signs. In `lifecycle`
one handler may hold the server up while another ends, and the environments
take every number through garbage, zero and below, every text through its absence, and every
pair that is checked together through its orders. In `history` one reader is
enough because reads change nothing; three rows make a page of one or two with a row before and
behind it. For sessions, four calls are a login, two rotations and a reuse, or
two logins and two calls that block each other on two rows; the theorems below
remove the bound for the safety properties they cover.

Deadlock is checked in every run but `history`: `Terminated` (in `Decimal`
`Ended`, in `Lifecycle` the stutter of an ended process, in `RateLimit` the clock) is the only
step of a system with nothing in flight. In `history` everything there is to do may have been done.

Fairness. `Serve(r)` is weakly fair: the Go runtime schedules every goroutine,
PostgreSQL hands a row to a waiter once it is free, the pool a connection. No
client is obliged to send and no fault to happen; `DetectDeadlock` is fair since
PostgreSQL runs its detector after `deadlock_timeout`. Weak fairness suffices
for the pool and the rows because requests are finitely many and each ends. In `Lifecycle` the steps of `run`
and of the listener's goroutine are weakly fair, timeouts included; handlers are not, since
one may wait for ever, nor is anybody obliged to send a signal.

## 5. Proofs

For every set of requests, accounts, keys and commands, any number of
connections and attempts (`ConstantsAssumption`):

* `InvariantHolds` proves `Spec => []IInv`. `IInv` (module `TransferInvariant`)
  adds to the properties what they rest on: what an open transaction has staged
  and locked at each place (`HoldInv`), what it has already checked and nobody
  else can change while it holds the row (`CheckedInv`: the balance and the
  receiver's room), how the books relate to the keys (`BooksInv`), and what
  stands behind an outcome (`OutcomeInv`). The argument is that the
  sender's row lock is held from the first statement to Commit, so that
  two transactions of one sender are never between `reserve` and Commit
  together. `ChargeInv` says that until `Transfer`
  returns, Redis has charged a request once if `rateLimitChecked` is set and not at all
  otherwise, whatever is retried (`Charges`). `TypeCorrect`, `ExactlyOnce`, `BooksAgree`, `AnswersTrue`,
  `NeverInProgress`, `NoLeaks` and `ChargesAreSingle` follow from it.
* `DeadlockFree`: whoever is past `LockForTransfer` waits for
  nobody (`OnlyLockersWait`), and while a request locks its rows it holds only smaller
  ones than it waits for; so in a set of requests that wait only for each other there would be a
  largest row waited for, whose holder waits for a larger one, or no holder
  of a connection that waits.
* `ProgressIsMade`: `Left(r)`, a number of at most 13 for each attempt and two more, falls with every step the
  request makes itself, `PgAbort` and `Retry` included, and no step of another or of the
  environment raises it. A request cannot go round for ever, and with `DeadlockFree` requests cannot all wait
  for each other; that a step which stays possible is taken, and that a request is not overtaken
  for ever in the pool, is the fairness and the part of `EveryRequestEnds` left to TLC. `StepsAreBounded`
  belongs to no run; TLC finds no violation with two requests and three attempts.
* `MoneyMoves` and `Refinement` (module `TransferRefinement`): every step is
  a step of the ledger or a stutter, case by case over the actions.
* `BalancesMatch`: in every state, and for any number of booked rows, a balance is its opening
  value plus all that came in minus all that went out. The books are finite in every
  state (`FiniteBooks`), a row more adds its amount to the sum (`TotalAdd`), and `CommitMoves`
  gives what a commit does to the two balances. That a sum does not depend on the order
  in which rows are taken out (`TotalRemove`) is an induction over the size of the
  set.

For every set of calls and users (`SessionsAssumption`):

* `SessionsInvariant` proves `Spec => []SInv`. `SInv` says what a call may be at
  each place (`CallInv`), that a held row is live and is the call's token or in
  its scope, and that a rotation holds the row it rotates (`HoldInv`), and
  that what an UPDATE has still to visit or holds is all that can still be live
  of what was when the call began (`ReachInv`). `OneSessionPerLogin`,
  `RevocationsReachBack`, `SuccessesAreTrue`, `RefreshRotates` and
  `NobodyElseIsLoggedOut` follow from it.

For every set of checks, identities and windows (`RateLimitAssumption`: positive
lengths and limits, a lag shorter than each window):

* `RateLimitInvariant` proves `Spec => []Inv`, where `Inv` is `RInv`, which the run
  checks, and the bound for windows that end at any time. `RInv` says that copies
  of a command agree on time and window (`FlightInv`), that an entry of the log
  stands for one check with the time that all its copies carry (`ChargeInv`), that
  a check has paid for every window it has left behind (`PathInv`), and that Redis
  still has each entry that is younger than the window (`StoreInv`). The
  heart is `WindowsStep`: everything a window of the log holds besides the new entry
  is younger than the window when the script runs, hence still in Redis, hence
  counted. `WindowsNeverOverflow`, `ChargesAreSingle`, `AdmissionIsPaidFor`,
  `RefusalsAreFair`, `ExpiryIsInvisible` and, for the conjunction the run checks,
  `PaymentsAreExact` follow.

For every set of calls, addresses, passwords and markers (`RegistrationAssumption`):

* `RegistrationInvariant` proves `Spec => []RegInv`. `RegInv` says that whoever has inserted has no
  rival, committed or about to be (`InsertInv`), that a committed account is what its call
  asked for and that call is past its commit (`AccountInv`), and that a login
  after `Register` finds the account of its own call (`CallInv`). `OneAccount`,
  `ConflictsTrue` and `CredentialsAlwaysDecide` follow from it.

For every finite set of transfers, every account, any limits and calls (`HistoryAssumption`):

* `HistoryInvariant` proves `Spec => []HInv`. Its core is `AheadInv`: a row that was there at the
  start and has not been shown has at least `offset` rows before it. A commit can
  only add to the rows before it; and a page, by `Ranks`, shows it or leaves it behind
  all that is skipped and shown. A page that is not full is therefore the last, and
  so is one that reaches a total which no row has exceeded (`TotalInv`). `PrefixInv` says that an
  undisturbed walk has shown exactly the rows of rank below `offset`.
  `WalksAreComplete`, `TotalsAreCovered` and `QuietWalksAreExact` follow.
* `RepliesTrue`: a lookup by id is true by cases. A page of a filter is a slice of the rows that match
  (`SliceFacts`): as many before it as are skipped, none behind it unless it is full.
  `FindsWhatIsSought` says that comparing with midnights finds the days asked for, whatever the length of a
  day (`DayOf`), and `PageIsTrue` turns slices into what `FilterIsTrue` says. A
  reply stays true whatever commits afterwards (`RepliesStand`).

For every set of environments and handlers and every fineness of the clock
(`EnvironmentsAssumption`, `SecondAssumption`):

* `LifecycleInvariant` proves `Spec => []LInv`. `LInv` says that where `run` is determines
  what is deferred and what is deferred determines what is open (`Deferred`), who
  may be served when (`Served`), what stands behind a result (`Returned`), and that only a
  valid configuration gets past its check (`Configured`). `ExitsAlwaysTrue`,
  `ShutdownsRunOn` and `ConfigFits` follow from it.
* `TokenLives` is arithmetic: truncation moves `exp` back by less than a second. With
  the configuration's order of lifetimes it gives `TokensAlwaysFit`.

For texts of any length, any bound of exponents and every NUMERIC(Precision, Scale) whose scale
is within that bound (`DecimalAssumption`):

* `AmountInvariant` proves `Spec => []DInv`. `OnTheWay` says that what a variable holds is what the
  steps before it make of the text; that is all the protocol there is, and the rest is
  about the operators. From the lemmas about powers of ten (`PowAdd`, `PowLess`) and digits
  (`ValueConcat`: what digits that follow others are worth; `DigitsAre`: the digits of a natural are
  worth that natural and start with no zero; `SameNumber`: there is one such way to
  write it) follow
  * `ExactArithmetic`, since rescaling to the smaller exponent only multiplies, and with it
    `ArithmeticExact`;
  * `StringIs`: `String` writes the value of any decimal, and canonically; `CanonicalUnique`: a value has one
    canonical text. Hence `FingerprintCanonical` and `StringsAreValues`: decimals are printed
    alike if and only if `Cmp` calls them equal;
  * `FitsIsExact`: counting digits, less the zeros at the end, decides whether the column can
    hold the value. `UnitsAreExact` and `ColumnIsExact` then take it into the column and back:
    `AcceptedStored`;
  * `AmountsAreUnits`: accepted amounts are positive numbers of units, and have the same fingerprint
    if and only if these are equal, which is how `Transfer` counts.

Induction is used as a statement about sets (`Least`, `Induction`): a set of naturals that is not
empty has a least element, by the well-foundedness of `<` in the library. With it a recursive
function is shown to satisfy its equation (`PowDef`, `ValueStep`, `TotalChosen`), after which only that equation is used.

Every invariant and every action property that a run checks has a theorem. Only model-checked are
the liveness properties (`EveryRequestEnds`, `EveryCallEnds`, `ProcessEnds`), which are out of the
prover's reach, as is ENABLED. No module uses a RECURSIVE operator.

## 6. Not modelled

The components marked so in section 1, each with its reason in `PROJECT.json`.
Within the modelled ones: the pool is left out of `Sessions` (a call holds at
most one connection at a time and none of them waits for the pool while it
holds a row); wording of errors, logging and cookies; the backoff delay, which
only postpones `Retry`; SHA-256, taken to be injective; foreign-key share locks
on `accounts` rows, which make a session insert wait for a transfer
of the same user and never the other way round in a circle.

The tools (`cmd/migrate`, `cmd/seed`, `scripts`) run by themselves and keep no state;
the logger, the HTTP helpers and DTOs format. `GetAccount` reads one row by the
caller's own id. The readiness routes only ping. In `Config`: the `.env` file, the DSN and
addresses, and `HTTP_PORT`, `REDIS_USER` and `ISSUER`, which nothing checks. In
`Tokens`: signatures (a token is accepted under its own key only) and the form of the header. In
`Lifecycle` the handler is an outline; what a transfer does when a statement fails is `Transfer`.

In `Decimal`: the JSON methods and scientific notation (balances are printed, never
read from a client); texts whose parsing fails for syntax (two points, letters)
are left out, since they are refused before anything is computed. So are signs after the point, which the
code accepts (".+5" is read as ".05" would be): a text has its sign in front. In
`Registration`: the single rules of validation, the dummy comparison that
hides which accounts exist, and the cookies. In `History`: the offset a client types itself, which
`AccountTransactions` reads like the limit (unreadable is 0); the offsets of the walk are those of
its own pages. `GET /transactions` takes any (`Refused`).

## 7. Where the code and its documents disagree

* `transfer_readme`: README.md:64 promises the same result for the same key and
  payload. Refused transfers are rolled back together with their key, so the
  repeated request is executed afresh and may succeed.
* `sessions_reuse`: `auth_test.go:178` says that reuse revokes the family. The
  UPDATE does not see the session that a concurrent Refresh has inserted and
  not yet committed, and that session stays live after the reuse was reported.
* `sessions_logout_all`: the same for LogoutAll, of which `e2e/auth_test.go:283`
  asserts that no session of the user refreshes afterwards.
* `history`, without a violation: `e2e/transactions_test.go:330` and `:425` assert that neither `GET
  /transactions/{id}` nor the history of an account shows a user the transfers of others, and
  `handlers/transactions/transaction_test.go:264` says that access to them is denied. `GET
  /transactions` shows them to anybody: `GetTransactionFilter` (`usecase/transactions.go:288`) passes
  the client's filter on as it is, and uses `userID` for the rate limit and the log. No document says whose
  rows the filter may show. `FilterIsTrue` holds with this in it: nothing that fits is left out, whoever asks.

What does hold of sessions, and is proved, is `RevocationReachesBack`: every session
that was live when the call began is dead when it has succeeded. What holds of lookups by id is
`LookupIsTrue`.

Observations without a run, from reading the code for the models:

* The filter example at `transaction_handler.go:145` names no limit and no offset; such a
  request is answered 400, because `NewTransactionFilter` parses both with `Atoi`
  (`Refused`). A `to` date ends at its first midnight, so that day's transfers are left out.
* A client that walks through its history and goes by `total` may stop one row early when a
  transfer commits between the count and the page (`WalkIsComplete` states the exception).
* An unreadable `ACCESS_TOKEN_TTL` becomes -1 and passes `Validate`; the server starts and gives
  out access tokens that have expired (`GarbageStops` states the exception).
* The lifetime of the cookies is fixed at 604800 and 900 seconds whatever the lifetimes of the tokens; the
  refresh cookie has the path `/auth/refresh` and does not reach `/auth/logout`.
* Signals are caught only after the listener has been started (`app.go:103` to `:113`): one in between
  kills handlers that are already at work (`KillStep` begins at `select`).
