------------------------------ MODULE History -------------------------------
(***************************************************************************)
(* Reading transactions while transfers commit: the paged history of an    *)
(* account (GET /accounts/:id/transactions), one transaction by its id     *)
(* (GET /transactions/:id) and the filter (GET /transactions).             *)
(*                                                                         *)
(* created_at is the time at which a transfer's SQL transaction began; its *)
(* row appears when it commits.  Two rows with one created_at come in an   *)
(* order that may change from query to query.  Every statement has a       *)
(* snapshot of its own (READ COMMITTED).  Reads change nothing, so one     *)
(* reader is enough: a client that walks through its history page by page, *)
(* or one that makes a single call.                                        *)
(***************************************************************************)
EXTENDS Integers, FiniteSetsExt

CONSTANTS
    Transfers,  \* transfers that may happen
    Row,        \* the sender, receiver and amount of each
    Owner,      \* the account whose history is walked through
    Limits,     \* the texts its client may give for limit
    Calls,      \* the single calls there may be
    DayLength,  \* ticks of the clock between two midnights
    MaxTime,    \* bound on the clock
    Unset,      \* a query parameter that is not given
    Garbage     \* one that cannot be parsed

ASSUME HistoryAssumption ==
    /\ IsFiniteSet(Transfers)
    /\ \A t \in Transfers :
         Row[t].sender # Row[t].receiver /\ Row[t].amount \in Int
    /\ Owner # Unset
    /\ Limits \subseteq Int \cup {Unset, Garbage}
    /\ DayLength \in Nat \ {0}
    /\ MaxTime \in Nat
    /\ \A c \in Calls : c.op = "Filter" =>
         /\ c.query.account = Unset
         /\ {c.query.min, c.query.max, c.query.from, c.query.to,
             c.query.limit, c.query.offset} \subseteq Int \cup {Unset, Garbage}

VARIABLES
    clock,
    phase,      \* each transfer's SQL transaction
    made,       \* its created_at
    reader,     \* where the walk or the call is
    limit,      \* the limit the client has chosen
    offset,     \* the offset of the next page
    total,      \* the number of rows it was told last
    shown,      \* how often each row has been shown to it
    until,      \* what made it stop
    slipped,    \* history: a row came between a count and its page
    must,       \* history: the rows there were when the reader began
    call,       \* the single call
    reply       \* its status and rows

world == <<clock, phase, made>>
walk  == <<limit, offset, total, shown, until>>
vars  == <<clock, phase, made, reader, limit, offset, total, shown, until,
           slipped, must, call, reply>>

TypeOK ==
    /\ clock \in 0..MaxTime
    /\ phase \in [Transfers -> {"idle", "open", "committed", "aborted"}]
    /\ made \in [Transfers -> 0..MaxTime]
    /\ reader \in {"idle", "count", "page", "done", "asked", "answered"}
    /\ limit \in Int /\ offset \in Nat /\ total \in Nat
    /\ shown \in [Transfers -> Nat]
    /\ until \in {"none", "short", "total"}
    /\ slipped \in BOOLEAN
    /\ must \subseteq Transfers
    /\ call \in Calls \cup {Unset}
    /\ reply \in [status: {"None", "Ok", "BadRequest", "NotFound", "Missing",
                           "Internal"},
                  rows: SUBSET Transfers]

Init ==
    /\ clock = 0
    /\ phase = [t \in Transfers |-> "idle"]
    /\ made = [t \in Transfers |-> 0]
    /\ reader = "idle"
    /\ limit = 0 /\ offset = 0 /\ total = 0
    /\ shown = [t \in Transfers |-> 0]
    /\ until = "none"
    /\ slipped = FALSE
    /\ must = {}
    /\ call = Unset
    /\ reply = [status |-> "None", rows |-> {}]

-----------------------------------------------------------------------------
(* The statements *)

Committed == {t \in Transfers : phase[t] = "committed"}
Parties(t) == {Row[t].sender, Row[t].receiver}
Of(account) == {t \in Committed : account \in Parties(t)}

\* What a filter is before the client says anything.
NoFilter == [account |-> Unset, sender |-> Unset, receiver |-> Unset,
             min |-> Unset, max |-> Unset, from |-> Unset, to |-> Unset,
             limit |-> 0, offset |-> 0]

MatchesStrictly(t, f) ==   \* deviation: created_at > from
    /\ f.from # Unset => made[t] > f.from * DayLength
    /\ f.to # Unset => made[t] <= f.to * DayLength

\* The WHERE clause sqlrequest builds; a date means the midnight it begins with.
Matches(t, f) ==
    /\ f.account # Unset => f.account \in Parties(t)
    /\ f.sender # Unset => Row[t].sender = f.sender
    /\ f.receiver # Unset => Row[t].receiver = f.receiver
    /\ f.min # Unset => Row[t].amount >= f.min
    /\ f.max # Unset => Row[t].amount <= f.max
    /\ f.from # Unset => made[t] >= f.from * DayLength
    /\ f.to # Unset => made[t] <= f.to * DayLength

\* No row of the first set comes after one of the second.
Precedes(S, T) == \A s \in S, t \in T : made[s] >= made[t]

PagesUnordered(f) ==   \* deviation: no ORDER BY
    LET rows == {t \in Committed : Matches(t, f)}
        skipped == Min({Max({f.offset, 0}), Cardinality(rows)})
        left == Cardinality(rows) - skipped
    IN  {P \in SUBSET rows :
           Cardinality(P) = IF f.limit > 0 THEN Min({f.limit, left}) ELSE left}

PagesSwapped(f) ==   \* deviation: OFFSET is bound to the argument of LIMIT
    LET rows == {t \in Committed : Matches(t, f)}
        skipped == IF f.offset > 0 THEN Min({f.limit, Cardinality(rows)}) ELSE 0
        left == Cardinality(rows) - skipped
    IN  {P \in SUBSET rows :
           /\ Cardinality(P) = IF f.limit > 0 THEN Min({f.limit, left}) ELSE left
           /\ \E B \in SUBSET (rows \ P) :
                /\ Cardinality(B) = skipped
                /\ Precedes(B, rows \ B)
                /\ Precedes(P, rows \ (B \cup P))}

\* GetTransactions: ORDER BY created_at DESC, LIMIT and OFFSET if positive.
\* Every way the rows may be ordered gives a page.
Pages(f) ==
    LET rows == {t \in Committed : Matches(t, f)}
        skipped == Min({Max({f.offset, 0}), Cardinality(rows)})
        left == Cardinality(rows) - skipped
    IN  {P \in SUBSET rows :
           /\ Cardinality(P) = IF f.limit > 0 THEN Min({f.limit, left}) ELSE left
           /\ \E B \in SUBSET (rows \ P) :
                /\ Cardinality(B) = skipped
                /\ Precedes(B, rows \ B)
                /\ Precedes(P, rows \ (B \cup P))}

TotalOfAll(account) ==   \* deviation: COUNT(*) without WHERE
    Cardinality(Committed)

TotalTransactions(account) == Cardinality(Of(account))

-----------------------------------------------------------------------------
(* Transfers *)

Tick ==
    /\ clock < MaxTime
    /\ clock' = clock + 1
    /\ UNCHANGED <<phase, made, reader, walk, slipped, must, call, reply>>

Begin(t) ==
    /\ phase[t] = "idle"
    /\ phase' = [phase EXCEPT ![t] = "open"]
    /\ made' = [made EXCEPT ![t] = clock]
    /\ UNCHANGED <<clock, reader, walk, slipped, must, call, reply>>

Commit(t) ==
    /\ phase[t] = "open"
    /\ phase' = [phase EXCEPT ![t] = "committed"]
    /\ slipped' = (slipped \/ (reader = "page" /\ Owner \in Parties(t)))
    /\ UNCHANGED <<clock, made, reader, walk, must, call, reply>>

Abort(t) ==
    /\ phase[t] = "open"
    /\ phase' = [phase EXCEPT ![t] = "aborted"]
    /\ made' = [made EXCEPT ![t] = 0]
    /\ UNCHANGED <<clock, reader, walk, slipped, must, call, reply>>

-----------------------------------------------------------------------------
(* AccountTransactions and TransactionHistory *)

\* A limit that Atoi refuses is 10.
LimitOf(text) == IF text \in {Unset, Garbage} THEN 10 ELSE text

StartWalk ==
    /\ reader = "idle"
    /\ reader' = "count"
    /\ \E text \in Limits : limit' = LimitOf(text)
    /\ must' = Committed
    /\ UNCHANGED <<world, offset, total, shown, until, slipped, call, reply>>

CountTotal ==
    /\ reader = "count"
    /\ reader' = "page"
    /\ total' = TotalTransactions(Owner)
    /\ UNCHANGED <<world, limit, offset, shown, until, slipped, must, call, reply>>

PageFilter ==
    [NoFilter EXCEPT !.account = Owner, !.limit = limit, !.offset = offset]

\* The client's next page starts where this one ended; it stops at a page that
\* is not full, or at the total.
ReadPage ==
    /\ reader = "page"
    /\ \E page \in Pages(PageFilter) :
         LET full == limit > 0 /\ Cardinality(page) = limit IN
         /\ shown' = [t \in Transfers |->
                        shown[t] + IF t \in page THEN 1 ELSE 0]
         /\ offset' = offset + Cardinality(page)
         /\ \/ ~full /\ reader' = "done" /\ until' = "short"
            \/ offset' >= total /\ reader' = "done" /\ until' = "total"
            \/ full /\ reader' = "count" /\ UNCHANGED until
    /\ UNCHANGED <<world, limit, total, slipped, must, call, reply>>

\* The rate limit, a statement or the commit fails: the client asks again.
FailPage ==
    /\ reader = "page"
    /\ reader' = "count"
    /\ UNCHANGED <<world, walk, slipped, must, call, reply>>

-----------------------------------------------------------------------------
(* GetTransaction and TransactionFilter *)

Ask ==
    /\ reader = "idle"
    /\ reader' = "asked"
    /\ call' \in Calls
    /\ must' = Committed
    /\ UNCHANGED <<world, walk, slipped, reply>>

Answer(status, rows) ==
    /\ reader' = "answered"
    /\ reply' = [status |-> status, rows |-> rows]
    /\ UNCHANGED <<world, walk, slipped, must, call>>

\* No row is an error of the statement (500 like any other), a stranger's is a
\* 404.
GetTransaction ==
    /\ reader = "asked" /\ call.op = "Get"
    /\ \/ call.tx \notin Committed /\ Answer("Missing", {})
       \/ /\ call.tx \in Committed /\ call.user \notin Parties(call.tx)
          /\ Answer("NotFound", {})
       \/ /\ call.tx \in Committed /\ call.user \in Parties(call.tx)
          /\ Answer("Ok", {call.tx})

\* NewTransactionFilter wants both a limit and an offset.
Refused(query) ==
    \/ {query.limit, query.offset} \cap {Unset, Garbage} # {}
    \/ Garbage \in {query.sender, query.receiver, query.from, query.to}

\* The user's id is for the rate limit only: the rows are whose they may be.
TransactionFilter ==
    /\ reader = "asked" /\ call.op = "Filter"
    /\ \/ Refused(call.query) /\ Answer("BadRequest", {})
       \/ /\ ~Refused(call.query)
          /\ IF Garbage \in {call.query.min, call.query.max}
             THEN Answer("Internal", {})
             ELSE \E page \in Pages(call.query) : Answer("Ok", page)

\* Rate limit, pool or statement.
FailCall == reader = "asked" /\ Answer("Internal", {})

-----------------------------------------------------------------------------

Next ==
    \/ Tick
    \/ \E t \in Transfers : Begin(t) \/ Commit(t) \/ Abort(t)
    \/ StartWalk \/ CountTotal \/ ReadPage \/ FailPage
    \/ Ask \/ GetTransaction \/ TransactionFilter \/ FailCall

Spec == Init /\ [][Next]_vars

-----------------------------------------------------------------------------
(* Properties *)

Untied(t) == \A u \in Of(Owner) \ {t} : made[u] # made[t]

\* The account's rows there were when the reader began.
Old == {t \in must : Owner \in Parties(t)}

\* A walk that ends shows every row there was when it began, however many
\* commit meanwhile and in whatever order of created_at.  Two exceptions: rows
\* with one created_at, which no ORDER BY keeps apart, and a client that goes
\* by a total that was counted before a row came in (TransactionHistory).
WalkIsComplete ==
    reader = "done" /\ (until = "short" \/ ~slipped) =>
        \A t \in Old : Untied(t) => shown[t] > 0

\* The total is no promise the pages do not keep: a client that has read up to
\* a page that is not full has been shown at least as many rows as the total
\* counted (two statements, two snapshots).
TotalIsCovered ==
    reader = "done" /\ until = "short" => total <= offset

\* With nothing committed meanwhile and no equal created_at a walk shows every
\* row of the account once and nothing else.
QuietWalkIsExact ==
    reader = "done" /\ Of(Owner) = Old /\ (\A t \in Old : Untied(t)) =>
        /\ \A t \in Transfers : shown[t] = IF t \in Old THEN 1 ELSE 0
        /\ total = Cardinality(Old)

\* A transfer that was committed before the call is neither missing nor denied
\* to a party of it, and GET /transactions/:id shows it to nobody else
\* (GetTransaction; the filter below does not ask who is a party).
LookupIsTrue ==
    reader = "answered" /\ call.op = "Get" =>
        /\ reply.status = "Missing" => call.tx \notin must
        /\ reply.status = "NotFound" => call.user \notin Parties(call.tx)
        /\ reply.status = "Ok" =>
             reply.rows = {call.tx} /\ call.user \in Parties(call.tx)

\* What a client asks for, counted in days: of the last date no more than its
\* first moment.
Day(t) == made[t] \div DayLength

Sought(t, q) ==
    /\ q.sender \in {Unset, Row[t].sender}
    /\ q.receiver \in {Unset, Row[t].receiver}
    /\ q.min # Unset => q.min <= Row[t].amount
    /\ q.max # Unset => Row[t].amount <= q.max
    /\ q.from # Unset => q.from <= Day(t)
    /\ q.to # Unset => Day(t) < q.to \/ made[t] = q.to * DayLength

\* A row is left out because a full page of rows comes before it, ...
BehindPage(t, rows, q) ==
    /\ q.limit > 0 /\ Cardinality(rows) = q.limit
    /\ \A u \in rows : made[u] >= made[t]

\* ... or because it is one of those the client has skipped.
WithinOffset(t, rows, q) ==
    /\ \A u \in rows : made[u] <= made[t]
    /\ Cardinality({u \in must : Sought(u, q) /\ made[u] > made[t]}) < q.offset

\* As many rows as the client has skipped come before a row that is shown.
AfterOffset(t, rows, q) ==
    Cardinality({u \in Committed \ rows : Sought(u, q) /\ made[u] >= made[t]})
        >= q.offset

\* What the filter shows is committed and is what was asked for, on the page that
\* limit and offset name; and of what was there before the call nothing is left
\* out but by these two, whatever commits meanwhile and whoever asks: transfers of
\* others are shown like one's own (GetTransactionFilter, sqlrequest).
FilterIsTrue ==
    reader = "answered" /\ call.op = "Filter" /\ reply.status = "Ok" =>
        LET q == call.query IN
        /\ \A t \in reply.rows :
             t \in Committed /\ Sought(t, q) /\ AfterOffset(t, reply.rows, q)
        /\ q.limit > 0 => Cardinality(reply.rows) <= q.limit
        /\ \A t \in must \ reply.rows :
             Sought(t, q) =>
                BehindPage(t, reply.rows, q) \/ WithinOffset(t, reply.rows, q)

\* What a single call is told is true.
RepliesAreTrue == LookupIsTrue /\ FilterIsTrue

-----------------------------------------------------------------------------
(* The inductive invariant *)

\* The rows that come before t in the history, whatever becomes of equal times.
Before(t) == {u \in Of(Owner) : made[u] > made[t]}

Walking == {"count", "page", "done"}

\* What has not been shown is still ahead: a row that appears may push it back
\* and never forward.
AheadInv ==
    /\ reader = "idle" => offset = 0 /\ shown = [t \in Transfers |-> 0]
    /\ reader \in Walking =>
         \A t \in Old :
            Untied(t) /\ shown[t] = 0 => Cardinality(Before(t)) >= offset

\* A count is exceeded only by rows that came in since.
TotalInv ==
    reader = "page" =>
        /\ total <= Cardinality(Of(Owner))
        /\ ~slipped => total = Cardinality(Of(Owner))

\* As long as nothing comes in, the walk has shown a prefix of the history.
Quiet == Of(Owner) = Old /\ \A t \in Old : Untied(t)

PrefixInv ==
    reader \in Walking /\ Quiet =>
        /\ offset <= Cardinality(Old)
        /\ \A t \in Transfers :
             shown[t] = IF t \in Old /\ Cardinality(Before(t)) < offset
                        THEN 1 ELSE 0
        /\ reader \in {"page", "done"} => total = Cardinality(Old)
        /\ reader = "done" => offset = Cardinality(Old)

\* What holds of a walk.
WalkInv == AheadInv /\ TotalInv /\ PrefixInv /\ WalkIsComplete /\ TotalIsCovered

\* Only a query that is in order is answered with rows.
AskedInv ==
    /\ reader \in {"asked", "answered"} => call \in Calls
    /\ reader = "answered" /\ call.op = "Filter" /\ reply.status = "Ok" =>
         ~Refused(call.query)

\* What holds of a single call.
ReplyInv == AskedInv /\ RepliesAreTrue

HInv ==
    /\ TypeOK
    /\ must \subseteq Committed
    /\ WalkInv
    /\ ReplyInv
=============================================================================
