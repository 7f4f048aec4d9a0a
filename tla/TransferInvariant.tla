-------------------------- MODULE TransferInvariant --------------------------
(***************************************************************************)
(* The inductive invariant of Transfer: why row locks, taken before the    *)
(* key is looked up and held until Commit, make every check of an attempt  *)
(* still true when it commits.  And the measure of what a request has left *)
(* to do.                                                                  *)
(***************************************************************************)
EXTENDS Transfer

\* The places at which both rows are locked, at which the key is reserved,
\* and at which the sender, then the receiver, has been updated.
Credited == {"insert", "update", "complete", "commit"}
Debited  == Credited \cup {"add"}
Reserved == Debited \cup {"rate", "sub"}
Locked   == Reserved \cup {"reserve", "lookup"}

StagedAt(place) ==
    CASE place \in {"rate", "sub"} -> {"reserve"}
      [] place = "add"      -> {"reserve", "debit"}
      [] place = "insert"   -> {"reserve", "debit", "credit"}
      [] place = "update"   -> {"reserve", "debit", "credit", "insert"}
      [] place = "complete" -> Writes \ {"complete"}
      [] place = "commit"   -> Writes
      [] OTHER              -> {}

\* What an open SQL transaction holds is a function of where its request is.
Hold(r) ==
    /\ staged[r] = StagedAt(pc[r])
    /\ r \in conn <=> pc[r] \in InTx
    /\ \A a \in Accounts :
         lock[a] = r => a \in RowsOf(cmd[r]) /\ pc[r] \in Locked \cup {"lock"}
    /\ pc[r] = "lock" => Unlocked(r) # {}
    /\ pc[r] \in Locked => Unlocked(r) = {}

HoldInv == \A r \in Requests : Hold(r)

\* What the code has checked before it got where it is.
Checked(r) ==
    /\ pc[r] \in Running => ValidAmount(cmd[r])
    /\ pc[r] = "backoff" => attempt[r] < MaxAttempts
    /\ pc[r] \in Locked \cup {"lock"} => cmd[r].sender # cmd[r].receiver
    /\ pc[r] \in Debited => balance[cmd[r].sender] >= cmd[r].amount
    /\ pc[r] \in Credited =>
         /\ cmd[r].receiver \in Accounts
         /\ balance[cmd[r].receiver] + cmd[r].amount <= MaxNumeric
    /\ pc[r] \in Reserved => KeyRow(cmd[r]) = {}
    /\ pc[r] = "lookup" => KeyRow(cmd[r]) # {}

CheckedInv == \A r \in Requests : Checked(r)

\* A booked transaction belongs to a request whose Transfer has returned, and
\* it and its key row carry that request's command.
BooksInv ==
    /\ \A t \in txs :
         LET r == t.id[1] IN
         /\ pc[r] \in {"answer", "done"}
         /\ outcome[r] \in {"Ok", "Internal", "Lost"}
         /\ t = [id |-> TxId(r), sender |-> cmd[r].sender,
                 receiver |-> cmd[r].receiver, amount |-> cmd[r].amount,
                 status |-> "completed"]
    /\ \A i \in idem :
         /\ i.status = "completed"
         /\ \E t \in txs :
              /\ t.id = i.tx
              /\ i.sender = t.sender
              /\ i.key = cmd[t.id[1]].key
              /\ i.print = <<t.sender, t.receiver, t.amount>>
    /\ \A t \in txs : \E i \in idem : i.tx = t.id
    /\ \A i, j \in idem : i.sender = j.sender /\ i.key = j.key => i = j

\* An answer exists once Transfer has returned, and is backed by a key row.
Backed(r) ==
    /\ pc[r] \notin {"answer", "done"} => outcome[r] = "None"
    /\ pc[r] = "answer" => outcome[r] \notin {"None", "Lost"}
    /\ outcome[r] # "Ok" => answerTx[r] = NoTx
    /\ outcome[r] = "Ok" =>
         \E i \in KeyRow(cmd[r]) :
             i.print = Fingerprint(cmd[r]) /\ i.tx = answerTx[r]
    /\ outcome[r] = "Conflict" =>
         \E i \in KeyRow(cmd[r]) : i.print # Fingerprint(cmd[r])
    /\ outcome[r] # "InProgress"

OutcomeInv == \A r \in Requests : Backed(r)

\* rateLimitChecked and Redis agree as long as Transfer has not returned, and
\* the flag is set before anything but the key is written.
Charges(r) ==
    /\ charged[r] <= 1
    /\ pc[r] \notin {"answer", "done"} => (charged[r] = 1 <=> rateChecked[r])
    /\ pc[r] = "rate" => ~rateChecked[r]
    /\ pc[r] \in Debited \cup {"sub"} => rateChecked[r]
    /\ attempt[r] = 1 /\ rateChecked[r] =>
         pc[r] \in Debited \cup {"sub", "backoff", "answer", "done"}
    /\ (\E t \in txs : t.id[1] = r) => charged[r] = 1
    /\ outcome[r] = "Ok" /\ attempt[r] = 1 /\ answerTx[r] # TxId(r)
         => charged[r] = 0

ChargeInv == \A r \in Requests : Charges(r)

IInv ==
    /\ TypeOK
    /\ HoldInv
    /\ CheckedInv
    /\ BooksInv
    /\ OutcomeInv
    /\ ChargeInv

\* How many statements a request has left at most in the attempt it is in ...
Ahead(r) ==
    CASE pc[r] = "begin"    -> 14
      [] pc[r] = "check"    -> 13
      [] pc[r] = "lock"     -> 10 + Cardinality(Unlocked(r))
      [] pc[r] = "reserve"  -> 10
      [] pc[r] \in {"rate", "lookup"} -> 9
      [] pc[r] = "sub"      -> 8
      [] pc[r] = "add"      -> 7
      [] pc[r] = "insert"   -> 6
      [] pc[r] = "update"   -> 5
      [] pc[r] = "complete" -> 4
      [] pc[r] = "commit"   -> 3
      [] pc[r] = "backoff"  -> 2

\* ... and in all its attempts, the answer included.
Left(r) ==
    CASE pc[r] = "idle"   -> 13 * MaxAttempts + 2
      [] pc[r] = "answer" -> 1
      [] pc[r] = "done"   -> 0
      [] OTHER            -> 13 * (MaxAttempts - attempt[r]) + Ahead(r)

\* Whatever happens, a request never has more to do than before, and each step
\* of its own, a retry after an abort included, leaves it less (the loop of
\* Transfer, whose variable attempt bounds it).
ProgressStep ==
    \A r \in Requests :
        /\ Left(r) \in 0..13 * MaxAttempts + 2
        /\ Left(r)' <= Left(r)
        /\ Submit(r) \/ Serve(r) \/ Fail(r) \/ PgAbort(r) => Left(r)' < Left(r)

StepsAreBounded == [][ProgressStep]_vars
=============================================================================
