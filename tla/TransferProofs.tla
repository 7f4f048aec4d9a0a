--------------------------- MODULE TransferProofs ---------------------------
(***************************************************************************)
(* Theorems about Transfer for every set of requests, accounts, keys and   *)
(* commands, every pool size and every number of attempts.                 *)
(***************************************************************************)
EXTENDS TransferInvariant, FiniteSetTheorems, TLAPS

USE ConstantsAssumption

-----------------------------------------------------------------------------
(* Facts about the helpers *)

\* A command names an existing sender and at most two account rows.
LEMMA CommandFacts ==
    ASSUME NEW c \in Commands
    PROVE  /\ c.sender \in Accounts
           /\ c.receiver \in Ids
           /\ c.key \in Keys
           /\ c.amount \in Nat
           /\ RowsOf(c) \subseteq Accounts
           /\ c.sender \in RowsOf(c)
           /\ RowsOf(c) \subseteq {c.sender, c.receiver}
  BY DEF AllCommands, RowsOf

\* ORDER BY id: the next row is the smallest one still to be locked.
LEMMA NextRowIsLeast ==
    ASSUME TypeOK, NEW r \in Requests, Unlocked(r) # {}
    PROVE  /\ NextRow(r) \in Unlocked(r)
           /\ \A b \in Unlocked(r) : NextRow(r) <= b
  <1> DEFINE c == cmd[r]
  <1>1. c \in Commands
    BY DEF TypeOK
  <1>2. Unlocked(r) \subseteq {c.sender, c.receiver} /\ Unlocked(r) \subseteq Nat
    BY <1>1, CommandFacts DEF Unlocked
  <1>3. \E a \in Unlocked(r) : \A b \in Unlocked(r) : a <= b
    <2>1. PICK a \in Unlocked(r) : TRUE
      OBVIOUS
    <2>2. CASE \A b \in Unlocked(r) : a <= b
      BY <2>2
    <2>3. CASE \E b \in Unlocked(r) : ~(a <= b)
      BY <1>2, <2>3
    <2> QED
      BY <2>2, <2>3
  <1> QED
    BY <1>3 DEF NextRow

-----------------------------------------------------------------------------
(* Types *)

\* The tables, the locks and the handlers' locals start with their types.
LEMMA InitType == Init => TypeOK
  BY DEF Init, TypeOK, Places, Outcomes, Running, InTx

LEMMA EndTxType ==
    ASSUME TypeOK, NEW r \in Requests, EndTx(r)
    PROVE  /\ conn' \subseteq Requests
           /\ lock' \in [Accounts -> Requests \cup {NoRequest}]
           /\ staged' \in [Requests -> SUBSET Writes]
  BY DEF TypeOK, EndTx

LEMMA ReturnType ==
    ASSUME TypeOK, NEW r \in Requests, NEW kind \in Outcomes,
           NEW id \in TxIds \cup {NoTx}, Return(r, kind, id)
    PROVE  /\ pc' \in [Requests -> Places]
           /\ outcome' \in [Requests -> Outcomes]
           /\ answerTx' \in [Requests -> TxIds \cup {NoTx}]
  BY DEF TypeOK, Return, Goto, Places

LEMMA AbandonType ==
    ASSUME TypeOK, NEW r \in Requests, NEW kind \in Outcomes,
           NEW id \in TxIds \cup {NoTx}, Abandon(r, kind, id)
    PROVE  TypeOK'
  BY EndTxType, ReturnType DEF Abandon, TypeOK, db, rate

LEMMA StageType ==
    ASSUME TypeOK, NEW r \in Requests, NEW w \in Writes, NEW p \in Places,
           Stage(r, w, p), lock' \in [Accounts -> Requests \cup {NoRequest}]
    PROVE  TypeOK'
  BY DEF Stage, TypeOK, Goto, db, rate, ret

LEMMA GotoType ==
    ASSUME TypeOK, NEW r \in Requests, NEW p \in Places, Goto(r, p)
    PROVE  pc' \in [Requests -> Places]
  BY DEF Goto, TypeOK

\* At Commit all six writes are staged, the money is there and the receiver
\* has room for it.
LEMMA AtCommit ==
    ASSUME IInv, NEW r \in Requests, pc[r] = "commit"
    PROVE  LET c == cmd[r] IN
           /\ c \in Commands
           /\ c.receiver \in Accounts
           /\ c.sender # c.receiver
           /\ c.amount > 0
           /\ balance[c.sender] >= c.amount
           /\ balance[c.receiver] + c.amount <= MaxNumeric
           /\ KeyRow(c) = {}
           /\ staged[r] = Writes
  BY DEF IInv, TypeOK, HoldInv, Hold, CheckedInv, Checked, StagedAt,
         Credited, Debited, Reserved, Locked, Running, InTx, ValidAmount

\* What Commit does to the tables, spelled out.
LEMMA ApplyFacts ==
    ASSUME IInv, NEW r \in Requests, pc[r] = "commit", Apply(r)
    PROVE  LET c == cmd[r] IN
           /\ balance' = [balance EXCEPT ![c.sender] = @ - c.amount,
                                         ![c.receiver] = @ + c.amount]
           /\ balance' \in [Accounts -> 0..MaxNumeric]
           /\ txs' = txs \cup
                {[id |-> TxId(r), sender |-> c.sender, receiver |-> c.receiver,
                  amount |-> c.amount, status |-> "completed"]}
           /\ idem' = idem \cup
                {[sender |-> c.sender, key |-> c.key, print |-> Fingerprint(c),
                  status |-> "completed", tx |-> TxId(r)]}
  <1> DEFINE c == cmd[r]
  <1>1. /\ c.sender \in Accounts /\ c.receiver \in Accounts
        /\ c.sender # c.receiver /\ c.amount \in Nat
        /\ staged[r] = Writes
        /\ balance[c.sender] >= c.amount
        /\ balance[c.receiver] + c.amount <= MaxNumeric
    BY AtCommit, CommandFacts
  <1>2. balance \in [Accounts -> 0..MaxNumeric]
    BY DEF IInv, TypeOK
  <1>3. \A a \in Accounts :
          /\ Debit(r, a) = IF c.sender = a THEN c.amount ELSE 0
          /\ Credit(r, a) = IF c.receiver = a THEN c.amount ELSE 0
    BY <1>1 DEF Debit, Credit, Writes
  <1>4. balance' = [a \in Accounts |-> (balance[a] + Credit(r, a)) - Debit(r, a)]
    BY DEF Apply
  <1>5. balance' = [a \in Accounts |->
                      IF a = c.receiver THEN balance[a] + c.amount
                      ELSE IF a = c.sender THEN balance[a] - c.amount
                      ELSE balance[a]]
    BY <1>1, <1>2, <1>3, <1>4
  <1>6. balance' = [balance EXCEPT ![c.sender] = @ - c.amount,
                                   ![c.receiver] = @ + c.amount]
    BY <1>1, <1>2, <1>5
  <1>7. balance' \in [Accounts -> 0..MaxNumeric]
    BY <1>1, <1>2, <1>5
  <1>8. /\ StagedTx(r) = [id |-> TxId(r), sender |-> c.sender,
                          receiver |-> c.receiver, amount |-> c.amount,
                          status |-> "completed"]
        /\ StagedKey(r) = [sender |-> c.sender, key |-> c.key,
                           print |-> Fingerprint(c), status |-> "completed",
                           tx |-> TxId(r)]
    BY <1>1 DEF StagedTx, StagedKey, Writes
  <1> QED
    BY <1>1, <1>6, <1>7, <1>8 DEF Apply, Writes

LEMMA CommitType ==
    ASSUME IInv, NEW r \in Requests, Commit(r)
    PROVE  TypeOK'
  <1> DEFINE c == cmd[r]
  <1>1. TypeOK /\ pc[r] = "commit" /\ Apply(r) /\ EndTx(r)
    BY DEF IInv, Commit
  <1>2. TxId(r) \in TxIds
    BY <1>1 DEF TypeOK, TxId, TxIds
  <1>3. balance' \in [Accounts -> 0..MaxNumeric]
    BY <1>1, ApplyFacts
  <1>4. c \in Commands /\ c.sender \in Accounts /\ c.receiver \in Accounts
        /\ c.receiver \in Ids /\ c.key \in Keys /\ c.amount \in Nat
    BY <1>1, AtCommit, CommandFacts
  <1>5. txs' \subseteq TxRows
    BY <1>1, <1>2, <1>4, ApplyFacts DEF TypeOK, TxRows
  <1>6. idem' \subseteq IdemRows
    BY <1>1, <1>2, <1>4, ApplyFacts DEF TypeOK, IdemRows, Fingerprint
  <1>7. /\ pc' \in [Requests -> Places]
        /\ outcome' \in [Requests -> Outcomes]
        /\ answerTx' \in [Requests -> TxIds \cup {NoTx}]
    BY <1>1, <1>2, ReturnType DEF Commit, Outcomes
  <1> QED
    BY <1>1, <1>3, <1>5, <1>6, <1>7, EndTxType DEF Commit, TypeOK, rate

\* No step leaves the types; a balance stays a NUMERIC(36,18) because what Sub
\* and Add checked still holds at Commit.
LEMMA NextType == IInv /\ [Next]_vars => TypeOK'
  <1> SUFFICES ASSUME IInv, [Next]_vars PROVE TypeOK'
    OBVIOUS
  <1> USE DEF IInv
  <1>0. InTx \subseteq Places /\ {"begin", "backoff", "answer", "done"} \subseteq Places
    BY DEF InTx, Places, Running
  <1>1. ASSUME NEW r \in Requests, Submit(r) PROVE TypeOK'
    BY <1>0, <1>1, ReturnType, GotoType
       DEF Submit, TypeOK, db, held, rate, ret, Outcomes, Refusals
  <1>2. ASSUME NEW r \in Requests, NewTX(r) PROVE TypeOK'
    BY <1>0, <1>2, GotoType DEF NewTX, TypeOK, db, rate, ret, InTx
  <1>3. ASSUME NEW r \in Requests, CheckParties(r) PROVE TypeOK'
    BY <1>0, <1>3, AbandonType, GotoType
       DEF CheckParties, TypeOK, db, held, rate, ret, Outcomes, Refusals, InTx
  <1>4. ASSUME NEW r \in Requests, LockForTransfer(r) PROVE TypeOK'
    BY <1>0, <1>4, GotoType
       DEF LockForTransfer, TypeOK, db, rate, ret, InTx
  <1>5. ASSUME NEW r \in Requests, TryCreateIdempotency(r) PROVE TypeOK'
    BY <1>0, <1>5, StageType, GotoType
       DEF TryCreateIdempotency, TypeOK, db, rate, ret, InTx, Writes
  <1>6. ASSUME NEW r \in Requests, ResolveIdempotency(r) PROVE TypeOK'
    <2>1. \A row \in KeyRow(cmd[r]) : row.tx \in TxIds \cup {NoTx}
      BY DEF KeyRow, TypeOK, IdemRows
    <2> QED
      BY <1>6, <2>1, AbandonType DEF ResolveIdempotency, Outcomes, Refusals
  <1>7. ASSUME NEW r \in Requests, CheckRateLimit(r) PROVE TypeOK'
    <2>1. CASE Abandon(r, "RateLimited", NoTx)
      BY <2>1, AbandonType DEF Outcomes, Refusals
    <2>0. ASSUME charged' = [charged EXCEPT ![r] = @ + 1]
          PROVE  charged' \in [Requests -> Nat]
      BY <2>0 DEF TypeOK
    <2>2. CASE /\ charged' = [charged EXCEPT ![r] = @ + 1]
               /\ rateChecked' = [rateChecked EXCEPT ![r] = TRUE]
               /\ Goto(r, "sub") 
               /\ UNCHANGED <<db, held, ret, cmd, attempt>>
      BY <1>0, <2>0, <2>2, GotoType DEF TypeOK, db, held, ret, InTx
    <2>3. CASE /\ charged' = [charged EXCEPT ![r] = @ + 1]
               /\ EndTx(r)
               /\ Return(r, "Internal", NoTx)
               /\ UNCHANGED <<db, cmd, attempt, rateChecked>>
      <3>1. /\ pc' \in [Requests -> Places]
            /\ outcome' \in [Requests -> Outcomes]
            /\ answerTx' \in [Requests -> TxIds \cup {NoTx}]
        BY <2>3, ReturnType DEF Outcomes
      <3> QED
        BY <2>0, <2>3, <3>1, EndTxType DEF TypeOK, db
    <2> QED
      BY <1>7, <2>1, <2>2, <2>3 DEF CheckRateLimit
  <1>8. ASSUME NEW r \in Requests, Sub(r) PROVE TypeOK'
    <2>1. cmd[r].sender \in Accounts
      BY CommandFacts DEF TypeOK
    <2>2. CASE Abandon(r, "InsufficientFunds", NoTx)
      BY <2>2, AbandonType DEF Outcomes, Refusals
    <2>3. CASE /\ lock' = [lock EXCEPT ![cmd[r].sender] = r]
               /\ Stage(r, "debit", "add")
      BY <1>0, <2>1, <2>3, StageType DEF TypeOK, InTx, Writes
    <2> QED
      BY <1>8, <2>2, <2>3 DEF Sub
  <1>9. ASSUME NEW r \in Requests, Add(r) PROVE TypeOK'
    <2>1. CASE Abandon(r, "ReceiverNotFound", NoTx) \/ Abandon(r, "Internal", NoTx)
      BY <2>1, AbandonType DEF Outcomes, Refusals
    <2>2. CASE /\ lock' = [lock EXCEPT ![cmd[r].receiver] = r]
               /\ Stage(r, "credit", "insert")
      BY <1>0, <2>2, StageType DEF TypeOK, InTx, Writes
    <2> QED
      BY <1>9, <2>1, <2>2 DEF Add
  <1>10. ASSUME NEW r \in Requests, InsertTransaction(r) PROVE TypeOK'
    BY <1>0, <1>10, StageType DEF InsertTransaction, TypeOK, InTx, Writes
  <1>11. ASSUME NEW r \in Requests, UpdateStatus(r) PROVE TypeOK'
    BY <1>0, <1>11, StageType DEF UpdateStatus, TypeOK, InTx, Writes
  <1>12. ASSUME NEW r \in Requests, CompleteIdempotency(r) PROVE TypeOK'
    BY <1>0, <1>12, StageType, AbandonType
       DEF CompleteIdempotency, TypeOK, InTx, Writes, Outcomes
  <1>13. ASSUME NEW r \in Requests, Commit(r) PROVE TypeOK'
    BY <1>13, CommitType
  <1>14. ASSUME NEW r \in Requests, Retry(r) PROVE TypeOK'
    BY <1>0, <1>14, GotoType DEF Retry, TypeOK, CheckedInv, Checked, db, held, rate, ret
  <1>15. ASSUME NEW r \in Requests, Respond(r) PROVE TypeOK'
    BY <1>0, <1>15, GotoType DEF Respond, TypeOK, db, held, rate, ret
  <1>16. ASSUME NEW r \in Requests, Fail(r) PROVE TypeOK'
    BY <1>16, AbandonType DEF Fail, Outcomes
  <1>17. ASSUME NEW r \in Requests, PgAbort(r) PROVE TypeOK'
    BY <1>0, <1>17, EndTxType, ReturnType, GotoType
       DEF PgAbort, TypeOK, db, rate, ret, Outcomes
  <1>18. CASE Crash
    BY <1>0, <1>18 DEF Crash, TypeOK, db, rate, Outcomes, Places
  <1>19. CASE UNCHANGED vars
    BY <1>19 DEF vars, TypeOK
  <1> QED
    BY <1>1, <1>2, <1>3, <1>4, <1>5, <1>6, <1>7, <1>8, <1>9, <1>10, <1>11,
       <1>12, <1>13, <1>14, <1>15, <1>16, <1>17, <1>18, <1>19
       DEF Next, Serve, Terminated

-----------------------------------------------------------------------------
(* What an open SQL transaction holds *)

\* A place outside InTx stages nothing and locks nothing.
LEMMA Outside ==
    ASSUME NEW p \in Places \ InTx
    PROVE  StagedAt(p) = {} /\ p \notin Locked \cup {"lock"}
  BY DEF StagedAt, Locked, Reserved, Debited, Credited, InTx

LEMMA EndTxHold ==
    ASSUME IInv, NEW r \in Requests, EndTx(r), NEW p \in Places \ InTx,
           Goto(r, p), cmd' = cmd
    PROVE  HoldInv'
  <1> USE DEF IInv
  <1>1. SUFFICES ASSUME NEW q \in Requests PROVE Hold(q)'
    BY DEF HoldInv
  <1>2. CASE q = r
    BY <1>2, Outside DEF EndTx, Goto, TypeOK, InTx, Hold
  <1>3. CASE q # r
    <2>1. pc'[q] = pc[q] /\ staged'[q] = staged[q] /\ (q \in conn' <=> q \in conn)
      BY <1>3 DEF EndTx, Goto, TypeOK
    <2>2. \A a \in Accounts : lock'[a] = q <=> lock[a] = q
      BY <1>3 DEF EndTx, TypeOK
    <2>3. Unlocked(q)' = Unlocked(q)
      BY <2>2, CommandFacts DEF Unlocked, TypeOK
    <2> QED
      BY <2>1, <2>2, <2>3 DEF HoldInv, Hold
  <1> QED
    BY <1>2, <1>3

LEMMA AbandonHold ==
    ASSUME IInv, NEW r \in Requests, NEW kind, NEW id, Abandon(r, kind, id)
    PROVE  HoldInv'
  <1>1. "answer" \in Places \ InTx
    BY DEF Places, Running, InTx
  <1> QED
    BY <1>1, EndTxHold DEF Abandon, Return

\* A step inside the SQL transaction of r that leaves the locks alone.
LEMMA InsideHold ==
    ASSUME IInv, NEW r \in Requests, NEW p \in Places, Goto(r, p), cmd' = cmd,
           lock' = lock, staged' = [staged EXCEPT ![r] = StagedAt(p)],
           pc[r] \in Locked, p \in Locked, conn' = conn
    PROVE  HoldInv'
  <1> USE DEF IInv
  <1>1. Locked \subseteq InTx /\ "lock" \notin Locked
    BY DEF Locked, Reserved, Debited, Credited, InTx
  <1>2. \A q \in Requests : Unlocked(q)' = Unlocked(q)
    BY DEF Unlocked
  <1>3. ASSUME NEW q \in Requests PROVE Hold(q)'
    <2>1. CASE q = r
      BY <1>1, <1>2, <2>1 DEF HoldInv, Hold, Goto, TypeOK
    <2>2. CASE q # r
      BY <1>1, <1>2, <2>2 DEF HoldInv, Hold, Goto, TypeOK
    <2> QED
      BY <2>1, <2>2
  <1> QED
    BY <1>3 DEF HoldInv

LEMMA StageHold ==
    ASSUME IInv, NEW r \in Requests, NEW w, NEW p \in Places, Stage(r, w, p),
           lock' = lock, pc[r] \in Locked, p \in Locked,
           StagedAt(p) = StagedAt(pc[r]) \cup {w}
    PROVE  HoldInv'
  <1>1. staged' = [staged EXCEPT ![r] = StagedAt(p)]
    BY DEF IInv, Stage, HoldInv, Hold, TypeOK
  <1> QED
    BY <1>1, InsideHold DEF Stage

\* A step outside every SQL transaction.
LEMMA OutsideHold ==
    ASSUME IInv, NEW r \in Requests, NEW p \in Places \ InTx, Goto(r, p),
           pc[r] \notin InTx, cmd' = cmd, UNCHANGED held
    PROVE  HoldInv'
  <1> USE DEF IInv
  <1>1. \A q \in Requests : Unlocked(q)' = Unlocked(q)
    BY DEF Unlocked, held
  <1>2. StagedAt(pc[r]) = StagedAt(p)
    BY Outside DEF TypeOK
  <1>3. ASSUME NEW q \in Requests PROVE Hold(q)'
    <2>1. CASE q = r
      BY <1>1, <1>2, <2>1, Outside DEF HoldInv, Hold, Goto, TypeOK, held
    <2>2. CASE q # r
      BY <1>1, <2>2 DEF HoldInv, Hold, Goto, TypeOK, held
    <2> QED
      BY <2>1, <2>2
  <1> QED
    BY <1>3 DEF HoldInv

\* Every step leaves a request with exactly what its place entitles it to.
LEMMA NextHold == IInv /\ [Next]_vars => HoldInv'
  <1> SUFFICES ASSUME IInv, [Next]_vars PROVE HoldInv'
    OBVIOUS
  <1> USE DEF IInv
  <1>0. /\ Locked \subseteq InTx /\ Locked \subseteq Places
        /\ {"answer", "begin", "done", "backoff"} \subseteq Places \ InTx
    BY DEF Locked, Reserved, Debited, Credited, InTx, Places, Running
  <1>1. ASSUME NEW r \in Requests, Submit(r) PROVE HoldInv'
    BY <1>0, <1>1, OutsideHold DEF Submit, Return, InTx
  <1>2. ASSUME NEW r \in Requests, NewTX(r) PROVE HoldInv'
    <2>1. ASSUME NEW q \in Requests PROVE Hold(q)'
      <3>1. Unlocked(q)' = Unlocked(q)
        BY <1>2 DEF NewTX, Unlocked
      <3>2. CASE q = r
        BY <1>2, <3>1, <3>2 DEF NewTX, Goto, HoldInv, Hold, TypeOK, StagedAt, InTx,
           Locked, Reserved, Debited, Credited
      <3>3. CASE q # r
        BY <1>2, <3>1, <3>3 DEF NewTX, Goto, HoldInv, Hold, TypeOK
      <3> QED
        BY <3>2, <3>3
    <2> QED
      BY <2>1 DEF HoldInv
  <1>3. ASSUME NEW r \in Requests, CheckParties(r) PROVE HoldInv'
    <2>1. CASE Abandon(r, "SameAccount", NoTx)
      BY <2>1, AbandonHold
    <2>2. CASE Goto(r, "lock") /\ UNCHANGED <<db, held, rate, ret, cmd, attempt>>
      <3>1. ASSUME NEW q \in Requests PROVE Hold(q)'
        <4>1. Unlocked(q)' = Unlocked(q)
          BY <2>2 DEF Unlocked, held
        <4>2. CASE q = r
          <5>1. pc[r] = "check" /\ "check" \notin Locked \cup {"lock"}
            BY <1>3 DEF CheckParties, Locked, Reserved, Debited, Credited
          <5>2. cmd[r].sender \in Unlocked(r)
            BY ZenonT(40), <5>1, CommandFacts DEF Unlocked, HoldInv, Hold, TypeOK
          <5> QED
            BY <2>2, <4>1, <4>2, <5>1, <5>2
               DEF Goto, HoldInv, Hold, TypeOK, held, StagedAt, InTx,
                   Locked, Reserved, Debited, Credited
        <4>3. CASE q # r
          BY <2>2, <4>1, <4>3 DEF Goto, HoldInv, Hold, TypeOK, held
        <4> QED
          BY <4>2, <4>3
      <3> QED
        BY <3>1 DEF HoldInv
    <2> QED
      BY <1>3, <2>1, <2>2 DEF CheckParties
  <1>4. ASSUME NEW r \in Requests, LockForTransfer(r) PROVE HoldInv'
    <2> DEFINE n == NextRow(r)
    <2>1. /\ pc[r] = "lock" /\ lock[n] = NoRequest
          /\ lock' = [lock EXCEPT ![n] = r]
          /\ Goto(r, IF Unlocked(r) = {n} THEN "reserve" ELSE "lock")
          /\ UNCHANGED <<conn, staged, cmd>>
      BY <1>4 DEF LockForTransfer
    <2>2. n \in Unlocked(r) /\ n \in RowsOf(cmd[r]) /\ n \in Accounts
      BY <2>1, NextRowIsLeast DEF HoldInv, Hold, Unlocked, RowsOf
    <2>3. \A q \in Requests \ {r} : Unlocked(q)' = Unlocked(q)
      BY <2>1, <2>2 DEF Unlocked, TypeOK
    <2>4. Unlocked(r)' = Unlocked(r) \ {n}
      BY <2>1, <2>2, CommandFacts DEF Unlocked, TypeOK
    <2>5. ASSUME NEW q \in Requests PROVE Hold(q)'
      <3>1. CASE q = r /\ Unlocked(r) = {n}
        BY <2>1, <2>2, <2>4, <3>1 DEF Goto, HoldInv, Hold, TypeOK, StagedAt, InTx,
           Locked, Reserved, Debited, Credited
      <3>2. CASE q = r /\ Unlocked(r) # {n}
        BY <2>1, <2>2, <2>4, <3>2 DEF Goto, HoldInv, Hold, TypeOK, StagedAt, InTx,
           Locked, Reserved, Debited, Credited
      <3>3. CASE q # r
        BY <2>1, <2>2, <2>3, <3>3 DEF Goto, HoldInv, Hold, TypeOK
      <3> QED
        BY <3>1, <3>2, <3>3
    <2> QED
      BY <2>5 DEF HoldInv
  <1>5. ASSUME NEW r \in Requests, TryCreateIdempotency(r) PROVE HoldInv'
    <2>1. pc[r] = "reserve" /\ staged[r] = {} /\ lock' = lock
      BY <1>5 DEF TryCreateIdempotency, HoldInv, Hold, StagedAt
    <2>2. CASE Stage(r, "reserve", IF rateChecked[r] THEN "sub" ELSE "rate")
      BY <1>0, <2>1, <2>2, StageHold DEF StagedAt, Locked, Reserved
    <2>3. CASE Goto(r, "lookup") /\ UNCHANGED <<conn, staged, cmd>>
      BY <1>0, <2>1, <2>3, InsideHold DEF TypeOK, StagedAt, Locked
    <2> QED
      BY <1>5, <2>2, <2>3 DEF TryCreateIdempotency
  <1>6. ASSUME NEW r \in Requests, ResolveIdempotency(r) PROVE HoldInv'
    BY <1>6, AbandonHold DEF ResolveIdempotency
  <1>7. ASSUME NEW r \in Requests, CheckRateLimit(r) PROVE HoldInv'
    <2>1. pc[r] = "rate" /\ staged[r] = {"reserve"}
      BY <1>7 DEF CheckRateLimit, HoldInv, Hold, StagedAt
    <2>2. CASE Abandon(r, "RateLimited", NoTx)
      BY <2>2, AbandonHold
    <2>3. CASE EndTx(r) /\ Return(r, "Internal", NoTx) /\ cmd' = cmd
      BY <1>0, <2>3, EndTxHold DEF Return
    <2>4. CASE Goto(r, "sub") /\ UNCHANGED <<held, cmd>>
      <3>1. staged' = [staged EXCEPT ![r] = StagedAt("sub")]
        BY <2>1, <2>4 DEF TypeOK, held, StagedAt
      <3> QED
        BY <1>0, <2>1, <2>4, <3>1, InsideHold DEF held, Locked, Reserved
    <2> QED
      BY <1>7, <2>2, <2>3, <2>4 DEF CheckRateLimit
  <1>8. ASSUME NEW r \in Requests, Sub(r) PROVE HoldInv'
    <2>1. CASE Abandon(r, "InsufficientFunds", NoTx)
      BY <2>1, AbandonHold
    <2>2. CASE /\ lock' = [lock EXCEPT ![cmd[r].sender] = r]
               /\ Stage(r, "debit", "add")
      <3>1. pc[r] = "sub" /\ pc[r] \in Locked
        BY <1>8 DEF Sub, Locked, Reserved
      <3>2. lock' = lock
        BY <2>2, <3>1, CommandFacts DEF HoldInv, Hold, Unlocked, TypeOK
      <3> QED
        BY <1>0, <2>2, <3>1, <3>2, StageHold
           DEF StagedAt, Locked, Reserved, Debited
    <2> QED
      BY <1>8, <2>1, <2>2 DEF Sub
  <1>9. ASSUME NEW r \in Requests, Add(r) PROVE HoldInv'
    <2>1. CASE Abandon(r, "ReceiverNotFound", NoTx) \/ Abandon(r, "Internal", NoTx)
      BY <2>1, AbandonHold
    <2>2. CASE /\ cmd[r].receiver \in Accounts
               /\ lock' = [lock EXCEPT ![cmd[r].receiver] = r]
               /\ Stage(r, "credit", "insert")
      <3>1. pc[r] = "add" /\ pc[r] \in Locked
        BY <1>9 DEF Add, Locked, Reserved, Debited
      <3>2. lock' = lock
        BY <2>2, <3>1 DEF HoldInv, Hold, Unlocked, RowsOf, TypeOK
      <3> QED
        BY <1>0, <2>2, <3>1, <3>2, StageHold
           DEF StagedAt, Locked, Reserved, Debited, Credited
    <2> QED
      BY <1>9, <2>1, <2>2 DEF Add
  <1>10. ASSUME NEW r \in Requests, InsertTransaction(r) PROVE HoldInv'
    BY <1>0, <1>10, StageHold
       DEF InsertTransaction, StagedAt, Locked, Reserved, Debited, Credited
  <1>11. ASSUME NEW r \in Requests, UpdateStatus(r) PROVE HoldInv'
    BY <1>0, <1>11, StageHold
       DEF UpdateStatus, StagedAt, Writes, Locked, Reserved, Debited, Credited
  <1>12. ASSUME NEW r \in Requests, CompleteIdempotency(r) PROVE HoldInv'
    BY <1>0, <1>12, AbandonHold, StageHold
       DEF CompleteIdempotency, StagedAt, Writes, Locked, Reserved, Debited,
           Credited
  <1>13. ASSUME NEW r \in Requests, Commit(r) PROVE HoldInv'
    BY <1>0, <1>13, EndTxHold DEF Commit, Return
  <1>14. ASSUME NEW r \in Requests, Retry(r) PROVE HoldInv'
    BY <1>0, <1>14, OutsideHold DEF Retry, InTx
  <1>15. ASSUME NEW r \in Requests, Respond(r) PROVE HoldInv'
    BY <1>0, <1>15, OutsideHold DEF Respond, InTx
  <1>16. ASSUME NEW r \in Requests, Fail(r) PROVE HoldInv'
    BY <1>16, AbandonHold DEF Fail
  <1>17. ASSUME NEW r \in Requests, PgAbort(r) PROVE HoldInv'
    BY <1>0, <1>17, EndTxHold DEF PgAbort, Return
  <1>18. CASE Crash
    BY <1>18 DEF Crash, HoldInv, Hold, TypeOK, StagedAt, InTx, Locked, Reserved,
       Debited, Credited
  <1>19. CASE UNCHANGED vars
    BY <1>19 DEF vars, HoldInv, Hold, Unlocked
  <1> QED
    BY <1>1, <1>2, <1>3, <1>4, <1>5, <1>6, <1>7, <1>8, <1>9, <1>10, <1>11,
       <1>12, <1>13, <1>14, <1>15, <1>16, <1>17, <1>18, <1>19
       DEF Next, Serve, Terminated

-----------------------------------------------------------------------------
(* What was checked stays true *)

\* A request that has returned, or has sent nothing, has nothing to keep.
LEMMA ReturnedChecked ==
    ASSUME NEW r \in Requests, pc'[r] \in {"idle", "answer", "done"}
    PROVE  Checked(r)'
  BY DEF Checked, Running, InTx, Locked, Reserved, Debited, Credited

\* A step that leaves the tables alone can only disturb its own request.
LEMMA LocalChecked ==
    ASSUME IInv, NEW r \in Requests, NEW p \in Places, Goto(r, p),
           UNCHANGED <<db, cmd>>,
           \A q \in Requests \ {r} : attempt'[q] = attempt[q],
           Checked(r)'
    PROVE  CheckedInv'
  <1> USE DEF IInv
  <1>1. ASSUME NEW q \in Requests PROVE Checked(q)'
    <2>1. CASE q = r
      BY <2>1
    <2>2. CASE q # r
      <3>1. pc'[q] = pc[q] /\ attempt'[q] = attempt[q] /\ cmd'[q] = cmd[q]
        BY <2>2 DEF Goto, TypeOK
      <3>2. balance' = balance /\ KeyRow(cmd[q])' = KeyRow(cmd[q])
        BY DEF db, KeyRow
      <3> QED
        BY <3>1, <3>2 DEF CheckedInv, Checked, ValidAmount, KeyRow
    <2> QED
      BY <2>1, <2>2
  <1> QED
    BY <1>1 DEF CheckedInv

LEMMA ReturnChecked ==
    ASSUME IInv, NEW r \in Requests, NEW kind, NEW id, Return(r, kind, id),
           UNCHANGED <<db, cmd, attempt>>
    PROVE  CheckedInv'
  <1>1. Goto(r, "answer") /\ "answer" \in Places
    BY DEF Return, Places
  <1>2. Checked(r)'
    BY <1>1, ReturnedChecked DEF Goto, IInv, TypeOK
  <1> QED
    BY <1>1, <1>2, LocalChecked DEF Return

LEMMA AbandonChecked ==
    ASSUME IInv, NEW r \in Requests, NEW kind, NEW id, Abandon(r, kind, id)
    PROVE  CheckedInv'
  BY ReturnChecked DEF Abandon

\* Two requests past LockForTransfer have no account in common.
LEMMA LockedRowsDisjoint ==
    ASSUME IInv, NEW r \in Requests, NEW q \in Requests \ {r},
           pc[r] \in Locked, pc[q] \in Locked
    PROVE  RowsOf(cmd[r]) \cap RowsOf(cmd[q]) = {}
  BY DEF IInv, HoldInv, Hold, Unlocked

\* A commit of r changes neither the balances nor the key row that another
\* request has looked at under its own locks.
LEMMA CommitChecked ==
    ASSUME IInv, NEW r \in Requests, Commit(r)
    PROVE  CheckedInv'
  <1> USE DEF IInv
  <1> DEFINE c == cmd[r]
  <1>1. /\ pc[r] = "commit" /\ Apply(r) /\ cmd' = cmd /\ attempt' = attempt
        /\ Goto(r, "answer")
    BY DEF Commit, Return
  <1>2. /\ c.sender \in Accounts /\ c.receiver \in Accounts
        /\ RowsOf(c) = {c.sender, c.receiver}
    BY <1>1, AtCommit, CommandFacts DEF RowsOf
  <1>3. \A a \in Accounts \ RowsOf(c) : balance'[a] = balance[a]
    BY <1>1, <1>2, ApplyFacts DEF TypeOK
  <1>4. ASSUME NEW q \in Requests PROVE Checked(q)'
    <2>1. CASE q = r
      BY <1>1, <2>1, ReturnedChecked DEF Goto, TypeOK
    <2>2. CASE q # r
      <3> DEFINE d == cmd[q]
      <3>1. pc'[q] = pc[q] /\ attempt'[q] = attempt[q] /\ cmd'[q] = d
        BY <1>1, <2>2 DEF Goto, TypeOK
      <3>2. CASE pc[q] \notin Locked
        BY <3>1, <3>2 DEF CheckedInv, Checked, ValidAmount, Locked, Reserved,
           Debited, Credited
      <3>3. CASE pc[q] \in Locked
        <4>1. RowsOf(d) \cap RowsOf(c) = {} /\ d.sender \in RowsOf(d)
          BY <1>1, <2>2, <3>3, LockedRowsDisjoint, CommandFacts
             DEF Locked, Reserved, Debited, Credited, TypeOK
        <4>2. balance'[d.sender] = balance[d.sender]
          BY <1>3, <4>1, CommandFacts DEF TypeOK
        <4>3. d.receiver \in Accounts =>
                balance'[d.receiver] = balance[d.receiver]
          BY <1>3, <4>1 DEF RowsOf
        <4>4. d.sender # c.sender
          BY <1>2, <4>1
        <4>5. KeyRow(d)' = KeyRow(d)
          BY <1>1, <4>4, ApplyFacts DEF KeyRow
        <4> QED
          BY <3>1, <4>2, <4>3, <4>5
             DEF CheckedInv, Checked, ValidAmount, KeyRow
      <3> QED
        BY <3>2, <3>3
    <2> QED
      BY <2>1, <2>2
  <1> QED
    BY <1>4 DEF CheckedInv

\* No step of any request makes a check of an open attempt stale.
LEMMA NextChecked == IInv /\ [Next]_vars => CheckedInv'
  <1> SUFFICES ASSUME IInv, [Next]_vars PROVE CheckedInv'
    OBVIOUS
  <1> USE DEF IInv
  <1>0. InTx \cup {"begin", "backoff", "answer", "done"} \subseteq Places
    BY DEF Places, Running
  <1>a. ASSUME NEW r \in Requests, NEW p \in InTx \cup {"begin", "backoff"},
               Goto(r, p), UNCHANGED <<db, cmd, attempt>>,
               pc[r] \in InTx \cup {"begin", "backoff"},
               p = "backoff" => attempt[r] < MaxAttempts,
               p \in Locked \cup {"lock"} => cmd[r].sender # cmd[r].receiver,
               p \in Debited => balance[cmd[r].sender] >= cmd[r].amount,
               p \in Credited =>
                 /\ cmd[r].receiver \in Accounts
                 /\ balance[cmd[r].receiver] + cmd[r].amount <= MaxNumeric,
               p \in Reserved => KeyRow(cmd[r]) = {},
               p = "lookup" => KeyRow(cmd[r]) # {}
        PROVE  CheckedInv'
    <2>1. pc'[r] = p /\ ValidAmount(cmd[r])
      BY <1>a DEF Goto, TypeOK, CheckedInv, Checked, Running
    <2>2. Checked(r)'
      BY <1>a, <2>1 DEF Checked, ValidAmount, db, KeyRow
    <2> QED
      BY <1>0, <1>a, <2>2, LocalChecked
  <1>1. ASSUME NEW r \in Requests, Submit(r) PROVE CheckedInv'
    <2>1. CASE \E kind : Return(r, kind, NoTx)
      BY <1>1, <2>1, ReturnChecked DEF Submit
    <2>2. CASE Goto(r, "begin") /\ ValidAmount(cmd[r])
      <3>1. Checked(r)'
        BY <1>1, <2>2 DEF Submit, Checked, Goto, TypeOK, ValidAmount, InTx,
           Locked, Reserved, Debited, Credited
      <3> QED
        BY <1>0, <1>1, <2>2, <3>1, LocalChecked DEF Submit
    <2> QED
      BY <1>1, <2>1, <2>2 DEF Submit
  <1>2. ASSUME NEW r \in Requests, NewTX(r) PROVE CheckedInv'
    BY <1>2, <1>a
       DEF NewTX, InTx, Locked, Reserved, Debited, Credited
  <1>3. ASSUME NEW r \in Requests, CheckParties(r) PROVE CheckedInv'
    BY <1>3, <1>a, AbandonChecked
       DEF CheckParties, InTx, Locked, Reserved, Debited, Credited
  <1>4. ASSUME NEW r \in Requests, LockForTransfer(r) PROVE CheckedInv'
    <2>1. cmd[r].sender # cmd[r].receiver
      BY <1>4 DEF LockForTransfer, CheckedInv, Checked
    <2> QED
      BY <1>4, <1>a, <2>1
         DEF LockForTransfer, InTx, Locked, Reserved, Debited, Credited
  <1>b. ASSUME NEW r \in Requests, pc[r] \in Locked
        PROVE  /\ cmd[r].sender # cmd[r].receiver
               /\ pc[r] \in Reserved => KeyRow(cmd[r]) = {}
               /\ pc[r] \in Debited => balance[cmd[r].sender] >= cmd[r].amount
               /\ pc[r] \in Credited =>
                    /\ cmd[r].receiver \in Accounts
                    /\ balance[cmd[r].receiver] + cmd[r].amount <= MaxNumeric
    BY <1>b DEF CheckedInv, Checked
  <1>5. ASSUME NEW r \in Requests, TryCreateIdempotency(r) PROVE CheckedInv'
    BY <1>5, <1>a, <1>b
       DEF TryCreateIdempotency, Stage, InTx, Locked, Reserved, Debited, Credited
  <1>6. ASSUME NEW r \in Requests, ResolveIdempotency(r) PROVE CheckedInv'
    BY <1>6, AbandonChecked DEF ResolveIdempotency
  <1>7. ASSUME NEW r \in Requests, CheckRateLimit(r) PROVE CheckedInv'
    BY <1>7, <1>a, <1>b, AbandonChecked, ReturnChecked
       DEF CheckRateLimit, InTx, Locked, Reserved, Debited, Credited
  <1>8. ASSUME NEW r \in Requests, Sub(r) PROVE CheckedInv'
    BY <1>8, <1>a, <1>b, AbandonChecked
       DEF Sub, Stage, InTx, Locked, Reserved, Debited, Credited
  <1>9. ASSUME NEW r \in Requests, Add(r) PROVE CheckedInv'
    BY <1>9, <1>a, <1>b, AbandonChecked
       DEF Add, Stage, InTx, Locked, Reserved, Debited, Credited
  <1>10. ASSUME NEW r \in Requests, InsertTransaction(r) PROVE CheckedInv'
    BY <1>10, <1>a, <1>b
       DEF InsertTransaction, Stage, InTx, Locked, Reserved, Debited, Credited
  <1>11. ASSUME NEW r \in Requests, UpdateStatus(r) PROVE CheckedInv'
    BY <1>11, <1>a, <1>b
       DEF UpdateStatus, Stage, InTx, Locked, Reserved, Debited, Credited
  <1>12. ASSUME NEW r \in Requests, CompleteIdempotency(r) PROVE CheckedInv'
    BY <1>12, <1>a, <1>b, AbandonChecked
       DEF CompleteIdempotency, Stage, InTx, Locked, Reserved, Debited, Credited
  <1>13. ASSUME NEW r \in Requests, Commit(r) PROVE CheckedInv'
    BY <1>13, CommitChecked
  <1>14. ASSUME NEW r \in Requests, Retry(r) PROVE CheckedInv'
    <2>1. Checked(r)'
      BY <1>14 DEF Retry, Checked, CheckedInv, Goto, TypeOK, Running,
         ValidAmount, InTx, Locked, Reserved, Debited, Credited
    <2>2. \A q \in Requests \ {r} : attempt'[q] = attempt[q]
      BY <1>14 DEF Retry, TypeOK
    <2> QED
      BY <1>0, <1>14, <2>1, <2>2, LocalChecked DEF Retry
  <1>15. ASSUME NEW r \in Requests, Respond(r) PROVE CheckedInv'
    <2>1. Checked(r)'
      BY <1>15, ReturnedChecked DEF Respond, Goto, TypeOK
    <2> QED
      BY <1>0, <1>15, <2>1, LocalChecked DEF Respond
  <1>16. ASSUME NEW r \in Requests, Fail(r) PROVE CheckedInv'
    BY <1>16, AbandonChecked DEF Fail
  <1>17. ASSUME NEW r \in Requests, PgAbort(r) PROVE CheckedInv'
    <2>1. CASE Goto(r, "backoff") /\ attempt[r] < MaxAttempts
      BY <1>17, <2>1, <1>a
         DEF PgAbort, Statements, InTx, Locked, Reserved, Debited, Credited
    <2>2. CASE Return(r, "Internal", NoTx)
      BY <1>17, <2>2, ReturnChecked DEF PgAbort
    <2> QED
      BY <1>17, <2>1, <2>2 DEF PgAbort
  <1>18. CASE Crash
    <2>1. \A q \in Requests : pc'[q] \in {"idle", "done"}
      BY <1>18 DEF Crash
    <2> QED
      BY <2>1, ReturnedChecked DEF CheckedInv
  <1>19. CASE UNCHANGED vars
    BY <1>19 DEF vars, CheckedInv, Checked, ValidAmount, KeyRow
  <1> QED
    BY <1>1, <1>2, <1>3, <1>4, <1>5, <1>6, <1>7, <1>8, <1>9, <1>10, <1>11,
       <1>12, <1>13, <1>14, <1>15, <1>16, <1>17, <1>18, <1>19
       DEF Next, Serve, Terminated

-----------------------------------------------------------------------------
(* The books *)

\* A step that books nothing and un-returns nobody keeps the books.
LEMMA SameBooks ==
    ASSUME IInv, UNCHANGED <<txs, idem, cmd>>,
           \A q \in Requests :
               pc[q] \in {"answer", "done"} =>
                   /\ pc'[q] \in {"answer", "done"}
                   /\ outcome'[q] \in {outcome[q], "Lost"}
                   /\ attempt'[q] = attempt[q]
    PROVE  BooksInv'
  <1> USE DEF IInv
  <1>1. \A t \in txs : t.id[1] \in Requests
    BY DEF TypeOK, TxRows, TxIds
  <1>2. ASSUME NEW t \in txs
        PROVE  LET r == t.id[1] IN
               /\ pc'[r] \in {"answer", "done"}
               /\ outcome'[r] \in {"Ok", "Internal", "Lost"}
               /\ TxId(r)' = TxId(r)
    BY <1>1 DEF BooksInv, TxId
  <1> QED
    BY <1>2 DEF BooksInv

LEMMA NotBooked ==
    ASSUME IInv, NEW r \in Requests, pc[r] \notin {"answer", "done"}
    PROVE  \A t \in txs : t.id[1] # r
  BY DEF IInv, BooksInv

LEMMA RunningBooks ==
    ASSUME IInv, NEW r \in Requests, NEW p, Goto(r, p),
           UNCHANGED <<txs, idem, cmd>>,
           \/ pc[r] \notin {"answer", "done"}
           \/ p \in {"answer", "done"} /\ UNCHANGED <<outcome, attempt>>,
           \A q \in Requests \ {r} :
               outcome'[q] = outcome[q] /\ attempt'[q] = attempt[q]
    PROVE  BooksInv'
  BY SameBooks DEF Goto, IInv, TypeOK

LEMMA ReturnBooks ==
    ASSUME IInv, NEW r \in Requests, NEW kind, NEW id, Return(r, kind, id),
           pc[r] \notin {"answer", "done"}, UNCHANGED <<txs, idem, cmd, attempt>>
    PROVE  BooksInv'
  <1>1. \A q \in Requests \ {r} : outcome'[q] = outcome[q]
    BY DEF Return, IInv, TypeOK
  <1> QED
    BY <1>1, RunningBooks DEF Return

LEMMA CommitBooks ==
    ASSUME IInv, NEW r \in Requests, Commit(r)
    PROVE  BooksInv'
  <1> USE DEF IInv
  <1> DEFINE c == cmd[r]
             t0 == [id |-> TxId(r), sender |-> c.sender,
                    receiver |-> c.receiver, amount |-> c.amount,
                    status |-> "completed"]
             i0 == [sender |-> c.sender, key |-> c.key,
                    print |-> Fingerprint(c), status |-> "completed",
                    tx |-> TxId(r)]
  <1>1. /\ pc[r] = "commit" /\ Apply(r) /\ cmd' = cmd /\ attempt' = attempt
        /\ Goto(r, "answer")
    BY DEF Commit, Return
  <1>2. txs' = txs \cup {t0} /\ idem' = idem \cup {i0}
    BY <1>1, ApplyFacts
  <1>3. KeyRow(c) = {}
    BY <1>1, AtCommit
  <1>4. \A q \in Requests : TxId(q)' = TxId(q)
    BY <1>1 DEF TxId
  <1>5. t0.id[1] = r
    BY DEF TxId
  <1>6. /\ pc'[r] = "answer" /\ outcome'[r] \in {"Ok", "Internal"}
        /\ \A q \in Requests \ {r} : pc'[q] = pc[q] /\ outcome'[q] = outcome[q]
    BY DEF Commit, Return, Goto, TypeOK
  <1>7. \A t \in txs : t.id[1] \in Requests \ {r}
    BY <1>1, NotBooked DEF TypeOK, TxRows, TxIds
  <1>8. ASSUME NEW t \in txs'
        PROVE  LET q == t.id[1] IN
               /\ pc'[q] \in {"answer", "done"}
               /\ outcome'[q] \in {"Ok", "Internal", "Lost"}
               /\ t = [id |-> TxId(q)', sender |-> cmd'[q].sender,
                       receiver |-> cmd'[q].receiver,
                       amount |-> cmd'[q].amount, status |-> "completed"]
    <2>1. CASE t \in txs
      BY <1>1, <1>4, <1>6, <1>7, <2>1 DEF BooksInv
    <2>2. CASE t = t0
      BY <1>1, <1>4, <1>5, <1>6, <2>2
    <2> QED
      BY <1>2, <2>1, <2>2
  <1>9. ASSUME NEW i \in idem'
        PROVE  /\ i.status = "completed"
               /\ \E t \in txs' :
                    /\ t.id = i.tx
                    /\ i.sender = t.sender
                    /\ i.key = cmd'[t.id[1]].key
                    /\ i.print = <<t.sender, t.receiver, t.amount>>
    <2>1. CASE i \in idem
      BY <1>1, <1>2, <2>1 DEF BooksInv
    <2>2. CASE i = i0
      <3>1. t0 \in txs' /\ t0.id = i.tx /\ i.sender = t0.sender
        BY <1>2, <2>2
      <3>2. i.key = cmd'[t0.id[1]].key
        BY <1>1, <1>5, <2>2
      <3>3. i.print = <<t0.sender, t0.receiver, t0.amount>>
        BY <2>2 DEF Fingerprint
      <3> QED
        BY <2>2, <3>1, <3>2, <3>3
    <2> QED
      BY <1>2, <2>1, <2>2
  <1>10. \A t \in txs' : \E i \in idem' : i.tx = t.id
    <2>1. i0 \in idem' /\ i0.tx = t0.id
      BY <1>2
    <2> QED
      BY <1>2, <2>1 DEF BooksInv
  <1>11. \A i, j \in idem' : i.sender = j.sender /\ i.key = j.key => i = j
    BY <1>2, <1>3 DEF BooksInv, KeyRow
  <1> QED
    BY <1>8, <1>9, <1>10, <1>11 DEF BooksInv

\* Every step keeps keys and transactions in step with each other.
LEMMA NextBooks == IInv /\ [Next]_vars => BooksInv'
  <1> SUFFICES ASSUME IInv, [Next]_vars PROVE BooksInv'
    OBVIOUS
  <1> USE DEF IInv
  <1>1. ASSUME NEW r \in Requests, NEW p, Goto(r, p),
               pc[r] \notin {"answer", "done"}, UNCHANGED <<db, ret, cmd, attempt>>
        PROVE  BooksInv'
    BY <1>1, RunningBooks DEF db, ret
  <1>2. ASSUME NEW r \in Requests, NEW kind, NEW id, Abandon(r, kind, id),
               pc[r] \notin {"answer", "done"}
        PROVE  BooksInv'
    BY <1>2, ReturnBooks DEF Abandon, db
  <1>3. ASSUME NEW r \in Requests, Submit(r) PROVE BooksInv'
    BY <1>1, <1>3, ReturnBooks DEF Submit, db
  <1>4. ASSUME NEW r \in Requests,
               NewTX(r) \/ CheckParties(r) \/ LockForTransfer(r)
        PROVE  BooksInv'
    BY <1>1, <1>2, <1>4 DEF NewTX, CheckParties, LockForTransfer
  <1>5. ASSUME NEW r \in Requests,
               TryCreateIdempotency(r) \/ ResolveIdempotency(r)
        PROVE  BooksInv'
    BY <1>1, <1>2, <1>5 DEF TryCreateIdempotency, ResolveIdempotency, Stage
  <1>6. ASSUME NEW r \in Requests, CheckRateLimit(r) PROVE BooksInv'
    BY <1>1, <1>2, <1>6, ReturnBooks DEF CheckRateLimit, db
  <1>7. ASSUME NEW r \in Requests, Sub(r) \/ Add(r) PROVE BooksInv'
    BY <1>1, <1>2, <1>7 DEF Sub, Add, Stage
  <1>8. ASSUME NEW r \in Requests,
               \/ InsertTransaction(r) \/ UpdateStatus(r)
               \/ CompleteIdempotency(r)
        PROVE  BooksInv'
    BY <1>1, <1>2, <1>8
       DEF InsertTransaction, UpdateStatus, CompleteIdempotency, Stage
  <1>9. ASSUME NEW r \in Requests, Commit(r) PROVE BooksInv'
    BY <1>9, CommitBooks
  <1>10. ASSUME NEW r \in Requests, Retry(r) PROVE BooksInv'
    BY <1>10, RunningBooks DEF Retry, db, ret, TypeOK
  <1>11. ASSUME NEW r \in Requests, Respond(r) PROVE BooksInv'
    BY <1>11, RunningBooks DEF Respond, db, ret
  <1>12. ASSUME NEW r \in Requests, Fail(r) PROVE BooksInv'
    BY <1>2, <1>12 DEF Fail, Running, InTx
  <1>13. ASSUME NEW r \in Requests, PgAbort(r) PROVE BooksInv'
    BY <1>1, <1>13, ReturnBooks DEF PgAbort, Statements, InTx, db
  <1>14. CASE Crash
    BY <1>14, SameBooks DEF Crash, db
  <1>15. CASE UNCHANGED vars
    BY <1>15, SameBooks DEF vars
  <1> QED
    BY <1>3, <1>4, <1>5, <1>6, <1>7, <1>8, <1>9, <1>10, <1>11, <1>12, <1>13,
       <1>14, <1>15 DEF Next, Serve, Terminated

-----------------------------------------------------------------------------
(* The answers *)

\* What backs an answer is a committed key row, and those are never removed.
LEMMA StillBacked ==
    ASSUME IInv, NEW q \in Requests, Backed(q), cmd' = cmd,
           idem \subseteq idem', outcome'[q] = outcome[q],
           answerTx'[q] = answerTx[q],
           \/ pc'[q] = pc[q]
           \/ pc'[q] = "done" /\ pc[q] = "answer"
           \/ {pc[q], pc'[q]} \cap {"answer", "done"} = {}
    PROVE  Backed(q)'
  BY DEF Backed, KeyRow, Fingerprint

\* A step of r that does not set its outcome.
LEMMA SilentOutcome ==
    ASSUME IInv, NEW r \in Requests, NEW p, Goto(r, p),
           \/ p = "done" /\ pc[r] = "answer"
           \/ {pc[r], p} \cap {"answer", "done"} = {},
           UNCHANGED <<ret, cmd, idem>>
    PROVE  OutcomeInv'
  <1> USE DEF IInv
  <1>1. ASSUME NEW q \in Requests PROVE Backed(q)'
    BY StillBacked DEF OutcomeInv, Goto, TypeOK, ret
  <1> QED
    BY <1>1 DEF OutcomeInv

LEMMA ReturnOutcome ==
    ASSUME IInv, NEW r \in Requests, NEW kind, NEW id, Return(r, kind, id),
           cmd' = cmd, idem \subseteq idem',
           kind \notin {"InProgress", "None", "Lost"},
           kind # "Ok" => id = NoTx,
           kind = "Ok" => \E i \in idem' :
               /\ i.sender = cmd[r].sender /\ i.key = cmd[r].key
               /\ i.print = Fingerprint(cmd[r]) /\ i.tx = id,
           kind = "Conflict" => \E i \in idem' :
               /\ i.sender = cmd[r].sender /\ i.key = cmd[r].key
               /\ i.print # Fingerprint(cmd[r])
    PROVE  OutcomeInv'
  <1> USE DEF IInv
  <1>1. pc'[r] = "answer" /\ outcome'[r] = kind /\ answerTx'[r] = id
    BY DEF Return, Goto, TypeOK
  <1>2. ASSUME NEW q \in Requests PROVE Backed(q)'
    <2>1. CASE q = r
      BY <1>1, <2>1 DEF Backed, KeyRow, Fingerprint
    <2>2. CASE q # r
      BY <2>2, StillBacked DEF OutcomeInv, Return, Goto, TypeOK
    <2> QED
      BY <2>1, <2>2
  <1> QED
    BY <1>2 DEF OutcomeInv

\* An answer that neither acknowledges nor speaks of the key.
LEMMA PlainOutcome ==
    ASSUME IInv, NEW r \in Requests,
           NEW kind \in Outcomes \ {"Ok", "Conflict", "InProgress", "None", "Lost"},
           Return(r, kind, NoTx), UNCHANGED <<cmd, idem>>
    PROVE  OutcomeInv'
  BY ReturnOutcome

LEMMA PlainAbandon ==
    ASSUME IInv, NEW r \in Requests,
           NEW kind \in Outcomes \ {"Ok", "Conflict", "InProgress", "None", "Lost"},
           Abandon(r, kind, NoTx)
    PROVE  OutcomeInv'
  BY PlainOutcome DEF Abandon, db

\* The three answers of resolveIdempotency that are about an existing row.
LEMMA ResolveOutcome ==
    ASSUME IInv, NEW r \in Requests, ResolveIdempotency(r)
    PROVE  OutcomeInv'
  <1> USE DEF IInv
  <1>1. cmd' = cmd /\ idem' = idem
    BY DEF ResolveIdempotency, Abandon, db
  <1>2. CASE Abandon(r, "Internal", NoTx)
    BY <1>2, PlainAbandon DEF Outcomes
  <1>3. ASSUME NEW row \in KeyRow(cmd[r]), row.print # Fingerprint(cmd[r]),
               Abandon(r, "Conflict", NoTx)
        PROVE  OutcomeInv'
    BY <1>1, <1>3, ReturnOutcome DEF Abandon, KeyRow
  <1>4. ASSUME NEW row \in KeyRow(cmd[r])
        PROVE  row.status = "completed" /\ row.tx # NoTx
    <2>1. row \in idem
      BY DEF KeyRow
    <2>2. PICK t \in txs : t.id = row.tx
      BY <2>1 DEF BooksInv
    <2> QED
      BY <2>1, <2>2 DEF BooksInv, TypeOK, TxRows
  <1>5. ASSUME NEW row \in KeyRow(cmd[r]), row.print = Fingerprint(cmd[r]),
               Abandon(r, "Ok", row.tx)
        PROVE  OutcomeInv'
    BY <1>1, <1>5, ReturnOutcome DEF Abandon, KeyRow
  <1> QED
    BY <1>2, <1>3, <1>4, <1>5 DEF ResolveIdempotency

\* Every step leaves only answers that are backed.
LEMMA NextOutcome == IInv /\ [Next]_vars => OutcomeInv'
  <1> SUFFICES ASSUME IInv, [Next]_vars PROVE OutcomeInv'
    OBVIOUS
  <1> USE DEF IInv
  <1>1. ASSUME NEW r \in Requests, NEW p, p \notin {"answer", "done"}, Goto(r, p),
               pc[r] \notin {"answer", "done"}, UNCHANGED <<db, ret, cmd>>
        PROVE  OutcomeInv'
    BY <1>1, SilentOutcome DEF db
  <1>3. ASSUME NEW r \in Requests, Submit(r) PROVE OutcomeInv'
    BY <1>1, <1>3, PlainOutcome DEF Submit, db, Outcomes, Refusals
  <1>4. ASSUME NEW r \in Requests,
               NewTX(r) \/ CheckParties(r) \/ LockForTransfer(r)
        PROVE  OutcomeInv'
    BY <1>1, <1>4, PlainAbandon
       DEF NewTX, CheckParties, LockForTransfer, Outcomes, Refusals
  <1>5. ASSUME NEW r \in Requests,
               TryCreateIdempotency(r) \/ ResolveIdempotency(r)
        PROVE  OutcomeInv'
    BY <1>1, <1>5, ResolveOutcome DEF TryCreateIdempotency, Stage
  <1>6. ASSUME NEW r \in Requests, CheckRateLimit(r) PROVE OutcomeInv'
    BY <1>1, <1>6, PlainOutcome, PlainAbandon
       DEF CheckRateLimit, db, Outcomes, Refusals
  <1>7. ASSUME NEW r \in Requests, Sub(r) \/ Add(r) PROVE OutcomeInv'
    BY <1>1, <1>7, PlainAbandon DEF Sub, Add, Stage, Outcomes, Refusals
  <1>8. ASSUME NEW r \in Requests,
               \/ InsertTransaction(r) \/ UpdateStatus(r)
               \/ CompleteIdempotency(r)
        PROVE  OutcomeInv'
    BY <1>1, <1>8, PlainAbandon
       DEF InsertTransaction, UpdateStatus, CompleteIdempotency, Stage, Outcomes
  <1>9. ASSUME NEW r \in Requests, Commit(r) PROVE OutcomeInv'
    <2>1. /\ pc[r] = "commit" /\ Apply(r) /\ cmd' = cmd
      BY <1>9 DEF Commit
    <2> DEFINE i0 == [sender |-> cmd[r].sender, key |-> cmd[r].key,
                      print |-> Fingerprint(cmd[r]), status |-> "completed",
                      tx |-> TxId(r)]
    <2>2. /\ i0 \in idem'
          /\ i0.sender = cmd[r].sender /\ i0.key = cmd[r].key
          /\ i0.print = Fingerprint(cmd[r]) /\ i0.tx = TxId(r)
      BY <2>1, ApplyFacts
    <2>3. idem \subseteq idem'
      BY <2>1, ApplyFacts
    <2>4. CASE Return(r, "Ok", TxId(r))
      BY <2>1, <2>2, <2>3, <2>4, ReturnOutcome
    <2>5. CASE Return(r, "Internal", NoTx)
      BY <2>1, <2>3, <2>5, ReturnOutcome
    <2> QED
      BY <1>9, <2>4, <2>5 DEF Commit
  <1>10. ASSUME NEW r \in Requests, Retry(r) PROVE OutcomeInv'
    BY <1>1, <1>10 DEF Retry
  <1>11. ASSUME NEW r \in Requests, Respond(r) PROVE OutcomeInv'
    BY <1>11, SilentOutcome DEF Respond, db
  <1>12. ASSUME NEW r \in Requests, Fail(r) PROVE OutcomeInv'
    BY <1>12, PlainAbandon DEF Fail, Outcomes
  <1>13. ASSUME NEW r \in Requests, PgAbort(r) PROVE OutcomeInv'
    BY <1>1, <1>13, PlainOutcome
       DEF PgAbort, Statements, InTx, db, Outcomes
  <1>14. CASE Crash
    BY <1>14 DEF Crash, OutcomeInv, Backed, KeyRow, Fingerprint, db, TypeOK
  <1>15. CASE UNCHANGED vars
    BY <1>15 DEF vars, OutcomeInv, Backed, KeyRow, Fingerprint
  <1> QED
    BY <1>3, <1>4, <1>5, <1>6, <1>7, <1>8, <1>9, <1>10, <1>11, <1>12, <1>13,
       <1>14, <1>15 DEF Next, Serve, Terminated

-----------------------------------------------------------------------------
(* ChargeInv *)

LEMMA SameTxId ==
    ASSUME attempt' = attempt
    PROVE  \A q : TxId(q)' = TxId(q)
  BY DEF TxId

\* A request that does not move keeps what holds of it.
LEMMA StillCharged ==
    ASSUME ChargeInv, NEW q \in Requests,
           charged'[q] = charged[q], rateChecked'[q] = rateChecked[q],
           pc'[q] = pc[q], attempt'[q] = attempt[q],
           outcome'[q] = outcome[q], answerTx'[q] = answerTx[q],
           \A t \in txs' : t.id[1] = q => t \in txs
    PROVE  Charges(q)'
  BY DEF ChargeInv, Charges, TxId

\* Nothing is booked and nothing charged: what is left to show is where the
\* request now is.
LEMMA MovedOn ==
    ASSUME IInv, NEW r \in Requests, UNCHANGED <<txs, rate>>,
           \A q \in Requests \ {r} :
             /\ pc'[q] = pc[q] /\ attempt'[q] = attempt[q]
             /\ outcome'[q] = outcome[q] /\ answerTx'[q] = answerTx[q],
           pc[r] \notin {"answer", "done"},
           pc'[r] = "rate" => ~rateChecked[r],
           pc'[r] \in Debited \cup {"sub"} => rateChecked[r],
           attempt'[r] = 1 /\ rateChecked[r] =>
             pc'[r] \in Debited \cup {"sub", "backoff", "answer", "done"},
           outcome'[r] = "Ok" /\ attempt'[r] = 1 => ~rateChecked[r]
    PROVE  ChargeInv'
  <1>1. charged[r] \in Nat /\ (charged[r] = 1 <=> rateChecked[r])
    BY DEF IInv, TypeOK, ChargeInv, Charges
  <1>2. Charges(r)'
    BY <1>1 DEF IInv, ChargeInv, Charges, rate
  <1>3. \A q \in Requests \ {r} : Charges(q)'
    BY StillCharged DEF IInv, rate
  <1> QED
    BY <1>2, <1>3 DEF ChargeInv

\* Redis has charged a request for the first time.
LEMMA Charged ==
    ASSUME IInv, NEW r \in Requests, txs' = txs, attempt' = attempt,
           charged' = [charged EXCEPT ![r] = @ + 1], charged'[r] = 1,
           \/ pc'[r] = "sub" /\ rateChecked'[r]
           \/ pc'[r] = "answer",
           outcome'[r] \notin {"Ok"},
           \A q \in Requests \ {r} :
             /\ pc'[q] = pc[q] /\ rateChecked'[q] = rateChecked[q]
             /\ outcome'[q] = outcome[q] /\ answerTx'[q] = answerTx[q]
    PROVE  ChargeInv'
  <1>1. Charges(r)'
    BY DEF Charges, Debited, Credited
  <1>2. ASSUME NEW q \in Requests \ {r} PROVE Charges(q)'
    <2>1. charged'[q] = charged[q]
      BY DEF IInv, TypeOK
    <2> QED
      BY <2>1, StillCharged DEF IInv
  <1> QED
    BY <1>1, <1>2 DEF ChargeInv

LEMMA NextCharges == IInv /\ [Next]_vars => ChargeInv'
  <1> SUFFICES ASSUME IInv, [Next]_vars PROVE ChargeInv'
    OBVIOUS
  <1> USE DEF IInv, TypeOK
  <1>1. ASSUME NEW r \in Requests, NEW p, Goto(r, p), p # "rate",
               p \notin Debited \cup {"sub"}, attempt[r] = 1 /\ rateChecked[r] =>
                 p \in Debited \cup {"sub", "backoff", "answer", "done"},
               pc[r] \notin {"answer", "done"},
               UNCHANGED <<txs, rate, ret, attempt>>
        PROVE  ChargeInv'
    BY <1>1, MovedOn DEF Goto, ret, OutcomeInv, Backed
  <1>2. ASSUME NEW r \in Requests, NEW kind \in Outcomes, NEW id,
               Return(r, kind, id), pc[r] \notin {"answer", "done"},
               kind = "Ok" /\ attempt[r] = 1 => ~rateChecked[r],
               UNCHANGED <<txs, rate, attempt>>
        PROVE  ChargeInv'
    BY <1>2, MovedOn DEF Return, Goto, Debited, Credited
  <1>3. ASSUME NEW r \in Requests, NEW kind \in Outcomes, NEW id,
               Abandon(r, kind, id), pc[r] \notin {"answer", "done"},
               kind = "Ok" /\ attempt[r] = 1 => ~rateChecked[r]
        PROVE  ChargeInv'
    BY <1>2, <1>3 DEF Abandon, db
  <1>4. ASSUME NEW r \in Requests, NEW w, NEW p, Stage(r, w, p),
               pc[r] \notin {"answer", "done"},
               p = "rate" => ~rateChecked[r],
               p \in Debited \cup {"sub"} => rateChecked[r],
               attempt[r] = 1 /\ rateChecked[r] => p \in Debited \cup {"sub"}
        PROVE  ChargeInv'
    BY <1>4, MovedOn DEF Stage, Goto, db, ret, OutcomeInv, Backed
  <1>5. ASSUME NEW r \in Requests, Submit(r) PROVE ChargeInv'
    BY <1>1, <1>2, <1>5 DEF Submit, db, Outcomes, Refusals, ChargeInv, Charges,
       Debited, Credited
  <1>6. ASSUME NEW r \in Requests,
               NewTX(r) \/ CheckParties(r) \/ LockForTransfer(r)
        PROVE  ChargeInv'
    BY <1>1, <1>3, <1>6 DEF NewTX, CheckParties, LockForTransfer, db, Outcomes,
       Refusals, ChargeInv, Charges, Debited, Credited
  <1>7. ASSUME NEW r \in Requests,
               TryCreateIdempotency(r) \/ ResolveIdempotency(r)
        PROVE  ChargeInv'
    BY <1>1, <1>3, <1>4, <1>7 DEF TryCreateIdempotency, ResolveIdempotency, db,
       Outcomes, Refusals, ChargeInv, Charges, Debited, Credited
  <1>8. ASSUME NEW r \in Requests, CheckRateLimit(r) PROVE ChargeInv'
    <2>1. Charges(r) /\ pc[r] = "rate" /\ outcome[r] = "None" /\ charged[r] \in Nat
      BY <1>8 DEF CheckRateLimit, ChargeInv, OutcomeInv, Backed
    <2>2. ~rateChecked[r] /\ charged[r] # 1 /\ charged[r] <= 1
      BY <2>1 DEF Charges
    <2>3. charged[r] = 0
      BY <2>1, <2>2
    <2>4. CASE Abandon(r, "RateLimited", NoTx)
      BY <1>3, <1>8, <2>4 DEF CheckRateLimit, Outcomes, Refusals
    <2>5. CASE charged' = [charged EXCEPT ![r] = @ + 1]
      <3>1. charged'[r] = 1 /\ txs' = txs
        BY <1>8, <2>3, <2>5 DEF CheckRateLimit, Abandon, db
      <3>2. CASE /\ rateChecked' = [rateChecked EXCEPT ![r] = TRUE]
                 /\ Goto(r, "sub") /\ UNCHANGED ret
        <4>1. pc'[r] = "sub" /\ rateChecked'[r] /\ outcome'[r] = "None"
          BY <2>1, <3>2 DEF Goto, ret
        <4>2. \A q \in Requests \ {r} :
                /\ pc'[q] = pc[q] /\ rateChecked'[q] = rateChecked[q]
                /\ outcome'[q] = outcome[q] /\ answerTx'[q] = answerTx[q]
          BY <3>2 DEF Goto, ret
        <4>3. attempt' = attempt
          BY <1>8 DEF CheckRateLimit, Abandon
        <4> QED
          BY <2>5, <3>1, <4>1, <4>2, <4>3, Charged
      <3>3. CASE Return(r, "Internal", NoTx) /\ UNCHANGED <<rateChecked, attempt>>
        <4>1. pc'[r] = "answer" /\ outcome'[r] = "Internal"
          BY <3>3 DEF Return, Goto
        <4>2. \A q \in Requests \ {r} :
                /\ pc'[q] = pc[q] /\ rateChecked'[q] = rateChecked[q]
                /\ outcome'[q] = outcome[q] /\ answerTx'[q] = answerTx[q]
          BY <3>3 DEF Return, Goto
        <4> QED
          BY <2>5, <3>1, <3>3, <4>1, <4>2, Charged
      <3> QED
        BY <1>8, <2>5, <3>2, <3>3 DEF CheckRateLimit, Abandon, rate
    <2> QED
      BY <1>8, <2>4, <2>5 DEF CheckRateLimit
  <1>9. ASSUME NEW r \in Requests, Sub(r) \/ Add(r) PROVE ChargeInv'
    BY <1>3, <1>4, <1>9 DEF Sub, Add, Outcomes, Refusals, ChargeInv, Charges,
       Debited, Credited
  <1>10. ASSUME NEW r \in Requests,
                \/ InsertTransaction(r) \/ UpdateStatus(r)
                \/ CompleteIdempotency(r)
         PROVE  ChargeInv'
    BY <1>3, <1>4, <1>10 DEF InsertTransaction, UpdateStatus,
       CompleteIdempotency, Outcomes, ChargeInv, Charges, Debited, Credited
  <1>11. ASSUME NEW r \in Requests, Commit(r) PROVE ChargeInv'
    <2>1. /\ pc[r] = "commit" /\ Apply(r) /\ charged[r] = 1
          /\ UNCHANGED <<charged, rateChecked, attempt>>
      BY <1>11 DEF Commit, ChargeInv, Charges, Debited, Credited, rate
    <2>2. \A t \in txs' : t \in txs \/ t.id = TxId(r)
      BY <2>1, ApplyFacts
    <2>3. /\ pc'[r] = "answer"
          /\ outcome'[r] = "Ok" => answerTx'[r] = TxId(r)
          /\ \A q \in Requests \ {r} :
               /\ pc'[q] = pc[q] /\ outcome'[q] = outcome[q]
               /\ answerTx'[q] = answerTx[q]
      BY <1>11 DEF Commit, Return, Goto
    <2>4. Charges(r)'
      BY <2>1, <2>3 DEF Charges, TxId, Debited, Credited
    <2>5. \A q \in Requests \ {r} : Charges(q)'
      BY <2>1, <2>2, <2>3, StillCharged DEF TxId
    <2> QED
      BY <2>4, <2>5 DEF ChargeInv
  <1>12. ASSUME NEW r \in Requests, Retry(r) PROVE ChargeInv'
    <2>1. attempt'[r] # 1 /\ outcome'[r] = "None"
      BY <1>12 DEF Retry, ret, OutcomeInv, Backed
    <2> QED
      BY <1>12, <2>1, MovedOn DEF Retry, Goto, db, ret, Debited, Credited
  <1>13. ASSUME NEW r \in Requests, Respond(r) PROVE ChargeInv'
    BY <1>13, SameTxId DEF Respond, Goto, db, rate, ret, ChargeInv, Charges, Debited,
       Credited
  <1>14. ASSUME NEW r \in Requests, Fail(r) PROVE ChargeInv'
    BY <1>3, <1>14 DEF Fail, Running, InTx, Outcomes
  <1>15. ASSUME NEW r \in Requests, PgAbort(r) PROVE ChargeInv'
    BY <1>1, <1>2, <1>15 DEF PgAbort, Statements, InTx, db, Outcomes, Debited,
       Credited
  <1>16. CASE Crash
    BY <1>16, SameTxId DEF Crash, ChargeInv, Charges, Debited, Credited, db, rate
  <1>17. CASE UNCHANGED vars
    BY <1>17, SameTxId DEF vars, ChargeInv, Charges
  <1> QED
    BY <1>5, <1>6, <1>7, <1>8, <1>9, <1>10, <1>11, <1>12, <1>13, <1>14, <1>15,
       <1>16, <1>17 DEF Next, Serve, Terminated

-----------------------------------------------------------------------------
(* Theorems *)

\* Nothing is held, booked or answered at the start.
LEMMA InitInv == Init => IInv
  <1> SUFFICES ASSUME Init PROVE IInv
    OBVIOUS
  <1>1. TypeOK
    BY InitType
  <1>2. HoldInv
    BY DEF Init, HoldInv, Hold, StagedAt, InTx, Locked, Reserved, Debited, Credited
  <1>3. CheckedInv
    BY DEF Init, CheckedInv, Checked, Running, InTx, Locked, Reserved, Debited,
       Credited
  <1>4. BooksInv /\ OutcomeInv
    BY DEF Init, BooksInv, OutcomeInv, Backed
  <1>5. ChargeInv
    BY DEF Init, ChargeInv, Charges, Debited, Credited
  <1> QED
    BY <1>1, <1>2, <1>3, <1>4, <1>5 DEF IInv

LEMMA NextInv == IInv /\ [Next]_vars => IInv'
  BY NextType, NextHold, NextChecked, NextBooks, NextOutcome, NextCharges DEF IInv

\* The invariant holds of every reachable state of the transfer handlers.
THEOREM InvariantHolds == Spec => []IInv
  BY InitInv, NextInv, PTL DEF Spec

\* Every variable keeps its type; in particular no balance leaves the range
\* of NUMERIC(36,18), below or above (Sub's and Add's checks at commit time).
THEOREM TypeCorrect == Spec => []TypeOK
  BY InvariantHolds, PTL DEF IInv

\* Requests that send the same Idempotency-Key of the same sender book one
\* transaction between them, whatever is retried, lost or crashed.
THEOREM ExactlyOnce == Spec => []ExactlyOncePerKey
  <1>1. IInv => ExactlyOncePerKey
    <2> SUFFICES ASSUME IInv, NEW t \in txs, NEW u \in txs,
                        cmd[t.id[1]].sender = cmd[u.id[1]].sender,
                        cmd[t.id[1]].key = cmd[u.id[1]].key
                 PROVE  t = u
      BY DEF ExactlyOncePerKey
    <2>1. PICK i \in idem : i.tx = t.id
      BY DEF IInv, BooksInv
    <2>2. PICK j \in idem : j.tx = u.id
      BY DEF IInv, BooksInv
    <2>3. /\ i.key = cmd[t.id[1]].key /\ i.sender = cmd[t.id[1]].sender
          /\ j.key = cmd[u.id[1]].key /\ j.sender = cmd[u.id[1]].sender
      BY <2>1, <2>2 DEF IInv, BooksInv
    <2>4. i = j
      BY <2>3 DEF IInv, BooksInv
    <2>5. t.id = u.id
      BY <2>1, <2>2, <2>4
    <2> QED
      BY <2>5 DEF IInv, BooksInv
  <1> QED
    BY <1>1, InvariantHolds, PTL

\* Key rows and transactions correspond one to one, all completed.
THEOREM BooksAgree == Spec => []KeysMatchBooks
  <1>1. IInv => KeysMatchBooks
    <2> SUFFICES ASSUME IInv PROVE KeysMatchBooks
      OBVIOUS
    <2>1. ASSUME NEW i \in idem
          PROVE  /\ i.status = "completed"
                 /\ \E t \in txs :
                      /\ t.id = i.tx
                      /\ t.status = "completed"
                      /\ i.sender = t.sender
                      /\ i.print = <<t.sender, t.receiver, t.amount>>
      BY DEF IInv, BooksInv
    <2>2. ASSUME NEW i \in idem, NEW j \in idem, i.tx = j.tx
          PROVE  i = j
      BY <2>2 DEF IInv, BooksInv
    <2> QED
      BY <2>1, <2>2 DEF IInv, BooksInv, KeysMatchBooks
  <1> QED
    BY <1>1, InvariantHolds, PTL

\* Acknowledgements and conflicts are backed by a committed key row, and a
\* refused request has booked nothing.
THEOREM AnswersTrue == Spec => []AnswersAreTrue
  <1>1. IInv => AnswersAreTrue
    BY DEF IInv, BooksInv, OutcomeInv, Backed, AnswersAreTrue, Refusals
  <1> QED
    BY <1>1, InvariantHolds, PTL

\* The row lock of the sender makes the in-progress answer, the vanished key
\* row and the completion that hits nothing unreachable.
THEOREM NeverInProgress == Spec => []KeysAreNeverInProgress
  <1>1. IInv => KeysAreNeverInProgress
    BY DEF IInv, HoldInv, Hold, StagedAt, Writes, CheckedInv, Checked,
       OutcomeInv, Backed, KeysAreNeverInProgress
  <1> QED
    BY <1>1, InvariantHolds, PTL

\* However often a transfer is retried, Redis charges it at most once, and for
\* what it books exactly once; a replay on the first attempt is free.
THEOREM ChargesAreSingle == Spec => []ChargedOnce
  <1>1. IInv => ChargedOnce
    BY DEF IInv, ChargeInv, Charges, ChargedOnce
  <1> QED
    BY <1>1, InvariantHolds, PTL

\* Whatever ends an attempt, its connection, locks and writes are gone.
THEOREM NoLeaks == Spec => []NothingLeaks
  <1>1. IInv => NothingLeaks
    BY Outside DEF IInv, TypeOK, HoldInv, Hold, NothingLeaks
  <1> QED
    BY <1>1, InvariantHolds, PTL

-----------------------------------------------------------------------------
(* No set of requests waits for itself: LockForTransfer's order at work *)

\* Once LockForTransfer is through, a request waits for nobody: both rows are
\* its own, and a rival for its key would have to hold its sender's row.
LEMMA OnlyLockersWait ==
    ASSUME IInv, NEW S \in SUBSET Requests, NEW r \in S, WaitsWithin(r, S)
    PROVE  \/ /\ pc[r] = "lock"
              /\ \E q \in S \ {r} : lock[NextRow(r)] = q
           \/ /\ pc[r] = "begin"
              /\ Cardinality(conn) >= MaxConns /\ conn \subseteq S
  <1> USE DEF IInv
  <1>1. Hold(r) /\ Checked(r) /\ cmd[r] \in Commands
    BY DEF HoldInv, CheckedInv, TypeOK
  <1>2. ASSUME NEW q \in S \ {r}, NEW a \in RowWanted(r), lock[a] = q
        PROVE  pc[r] = "lock" /\ a = NextRow(r)
    <2>1. CASE pc[r] = "sub"
      <3>1. a = cmd[r].sender /\ Unlocked(r) = {}
        BY <1>1, <1>2, <2>1 DEF RowWanted, Hold, Locked, Reserved
      <3> QED
        BY <1>1, <1>2, <3>1, CommandFacts DEF Unlocked
    <2>2. CASE pc[r] = "add"
      <3>1. a \in {cmd[r].receiver} \cap Accounts /\ Unlocked(r) = {}
        BY <1>1, <1>2, <2>2 DEF RowWanted, Hold, Locked, Reserved, Debited
      <3> QED
        BY <1>2, <3>1 DEF Unlocked, RowsOf
    <2> QED
      BY <1>2, <2>1, <2>2 DEF RowWanted
  <1>3. ASSUME pc[r] = "reserve", NEW q \in S, HoldsKeyOf(q, r)
        PROVE  FALSE
    <2>1. /\ q \in Requests /\ q # r /\ "reserve" \in staged[q]
          /\ cmd[q].sender = cmd[r].sender
      BY <1>3 DEF HoldsKeyOf
    <2>2. Hold(q) /\ cmd[q] \in Commands
      BY <2>1 DEF HoldInv, TypeOK
    <2>3. pc[q] \in Locked
      BY <2>1, <2>2 DEF Hold, StagedAt, Locked, Reserved, Debited, Credited
    <2>4. Unlocked(q) = {} /\ Unlocked(r) = {}
      BY <1>1, <1>3, <2>2, <2>3 DEF Hold, Locked
    <2>5. lock[cmd[r].sender] = q
      BY <2>1, <2>2, <2>4, CommandFacts DEF Unlocked
    <2>6. lock[cmd[r].sender] = r
      BY <1>1, <2>4, CommandFacts DEF Unlocked
    <2> QED
      BY <2>1, <2>5, <2>6
  <1> QED
    BY <1>2, <1>3 DEF WaitsWithin

-----------------------------------------------------------------------------
(* The lock order *)

\* FOR UPDATE ... ORDER BY id: what a request holds while it locks its rows is
\* smaller than what it has still to lock.
LockOrder(r) ==
    pc[r] = "lock" =>
        \A a \in RowsOf(cmd[r]), b \in Unlocked(r) : lock[a] = r => a < b

OrderInv == \A r \in Requests : LockOrder(r)

LEMMA SameLocksSameOrder ==
    ASSUME NEW r \in Requests, LockOrder(r), TypeOK, cmd' = cmd,
           pc'[r] = "lock" => pc[r] = "lock",
           \A a \in Accounts : lock'[a] = r <=> lock[a] = r
    PROVE  LockOrder(r)'
  <1>1. RowsOf(cmd[r]) \subseteq Accounts
    BY CommandFacts DEF TypeOK
  <1> QED
    BY <1>1 DEF LockOrder, Unlocked

\* A step of one request leaves the others where they are and their rows
\* theirs.
LEMMA OthersKeep ==
    ASSUME IInv, NEW q \in Requests, NEW r \in Requests \ {q},
           Submit(q) \/ Serve(q) \/ Fail(q) \/ PgAbort(q)
    PROVE  /\ cmd' = cmd
           /\ pc'[r] = pc[r]
           /\ \A a \in Accounts : lock'[a] = r <=> lock[a] = r
  <1> USE DEF IInv
  <1>1. NoRequest # r
    OBVIOUS
  <1>2. ASSUME NEW p, Goto(q, p) PROVE pc'[r] = pc[r]
    BY <1>2 DEF Goto, TypeOK
  <1>3. ASSUME EndTx(q) PROVE \A a \in Accounts : lock'[a] = r <=> lock[a] = r
    BY <1>1, <1>3 DEF EndTx
  <1>4. ASSUME NEW kind, NEW id, Abandon(q, kind, id)
        PROVE  /\ cmd' = cmd
               /\ pc'[r] = pc[r]
               /\ \A a \in Accounts : lock'[a] = r <=> lock[a] = r
    BY <1>2, <1>3, <1>4 DEF Abandon, Return
  <1>5. CASE Submit(q)
    BY <1>2, <1>5 DEF Submit, Return, held
  <1>6. CASE NewTX(q) \/ CheckParties(q)
    BY <1>2, <1>4, <1>6 DEF NewTX, CheckParties, held
  <1>7. CASE LockForTransfer(q)
    BY <1>1, <1>2, <1>7 DEF LockForTransfer, TypeOK
  <1>8. CASE TryCreateIdempotency(q) \/ ResolveIdempotency(q)
    BY <1>2, <1>4, <1>8 DEF TryCreateIdempotency, ResolveIdempotency, Stage
  <1>9. CASE CheckRateLimit(q)
    BY <1>2, <1>3, <1>4, <1>9 DEF CheckRateLimit, Return, held
  <1>10. CASE Sub(q) \/ Add(q)
    BY <1>1, <1>2, <1>4, <1>10 DEF Sub, Add, Stage, RowFree, TypeOK
  <1>11. CASE InsertTransaction(q) \/ UpdateStatus(q) \/ CompleteIdempotency(q)
    BY <1>2, <1>4, <1>11
       DEF InsertTransaction, UpdateStatus, CompleteIdempotency, Stage
  <1>12. CASE Commit(q) \/ Fail(q) \/ PgAbort(q)
    BY <1>2, <1>3, <1>4, <1>12 DEF Commit, Fail, PgAbort, Return
  <1>13. CASE Retry(q) \/ Respond(q)
    BY <1>2, <1>13 DEF Retry, Respond, held
  <1> QED
    BY <1>5, <1>6, <1>7, <1>8, <1>9, <1>10, <1>11, <1>12, <1>13 DEF Serve

\* Only two statements lead to the place where rows are locked.
LEMMA EnterLock ==
    ASSUME IInv, NEW r \in Requests, pc'[r] = "lock",
           Submit(r) \/ Serve(r) \/ Fail(r) \/ PgAbort(r)
    PROVE  CheckParties(r) \/ LockForTransfer(r)
  <1>1. ASSUME NEW p, Goto(r, p) PROVE p = "lock"
    BY <1>1 DEF IInv, Goto, TypeOK
  <1> QED
    BY <1>1 DEF Submit, Serve, Fail, PgAbort, NewTX, TryCreateIdempotency,
       ResolveIdempotency, CheckRateLimit, Sub, Add, InsertTransaction,
       UpdateStatus, CompleteIdempotency, Commit, Retry, Respond, Abandon,
       Return, Stage

LEMMA NextOrder == IInv /\ OrderInv /\ [Next]_vars => OrderInv'
  <1> SUFFICES ASSUME IInv, OrderInv, [Next]_vars, NEW r \in Requests,
                      pc'[r] = "lock"
               PROVE  LockOrder(r)'
    BY DEF OrderInv, LockOrder
  <1> USE DEF IInv
  <1>1. Hold(r) /\ LockOrder(r) /\ cmd[r] \in Commands
    BY DEF HoldInv, OrderInv, TypeOK
  <1>2. ASSUME NEW q \in Requests \ {r},
               Submit(q) \/ Serve(q) \/ Fail(q) \/ PgAbort(q)
        PROVE  LockOrder(r)'
    BY <1>1, <1>2, OthersKeep, SameLocksSameOrder
  <1>3. CASE CheckParties(r)
    <2>1. pc[r] = "check" /\ cmd' = cmd /\ lock' = lock
      BY <1>3 DEF CheckParties, Abandon, Return, Goto, held, TypeOK
    <2>2. \A a \in Accounts : lock[a] # r
      BY <1>1, <2>1 DEF Hold, Locked, Reserved, Debited, Credited
    <2> QED
      BY <1>1, <2>1, <2>2, CommandFacts DEF LockOrder
  <1>4. CASE LockForTransfer(r)
    <2>1. /\ pc[r] = "lock" /\ cmd' = cmd
          /\ lock' = [lock EXCEPT ![NextRow(r)] = r]
      BY <1>4 DEF LockForTransfer
    <2>2. /\ NextRow(r) \in Unlocked(r)
          /\ \A b \in Unlocked(r) : NextRow(r) <= b
      BY <1>1, <2>1, NextRowIsLeast DEF Hold
    <2>3. RowsOf(cmd[r]) \subseteq Accounts /\ Accounts \subseteq Nat
          /\ lock \in [Accounts -> Requests \cup {NoRequest}]
      BY <1>1, CommandFacts DEF TypeOK
    <2>4. \A b \in Unlocked(r)' : b \in Unlocked(r) /\ b # NextRow(r)
      BY <2>1, <2>2, <2>3 DEF Unlocked
    <2>5. ASSUME NEW a \in RowsOf(cmd[r]), NEW b \in Unlocked(r)', lock'[a] = r
          PROVE  a < b
      <3>1. b \in Nat /\ a \in Nat /\ NextRow(r) \in Nat
        BY <2>2, <2>3, <2>4 DEF Unlocked
      <3>2. CASE a = NextRow(r)
        BY <2>2, <2>4, <3>1, <3>2
      <3>3. CASE a # NextRow(r)
        BY <1>1, <2>1, <2>3, <2>4, <2>5, <3>3 DEF LockOrder
      <3> QED
        BY <3>2, <3>3
    <2> QED
      BY <2>1, <2>5 DEF LockOrder
  <1>5. CASE Crash
    BY <1>5 DEF Crash, TypeOK
  <1>6. CASE UNCHANGED vars
    BY <1>1, <1>6, SameLocksSameOrder DEF vars
  <1> QED
    BY <1>2, <1>3, <1>4, <1>5, <1>6, EnterLock DEF Next, Terminated

LEMMA OrderHolds == Spec => [](IInv /\ OrderInv)
  <1>1. Init => OrderInv
    BY DEF Init, OrderInv, LockOrder
  <1> QED
    BY <1>1, InitInv, NextInv, NextOrder, PTL DEF Spec

-----------------------------------------------------------------------------
(* No cycle *)

\* The rows above the one a request wants to lock next.
Above(r) == {a \in Accounts : a > NextRow(r)}

\* When the holder of a row waits for a row itself, it waits for a larger one.
LEMMA WaitsForLarger ==
    ASSUME IInv, OrderInv, NEW r \in Requests, NEW q \in Requests \ {r},
           pc[r] = "lock", pc[q] = "lock", lock[NextRow(r)] = q
    PROVE  Above(q) \subseteq Above(r) /\ Above(q) # Above(r)
  <1> USE DEF IInv
  <1>1. /\ Hold(r) /\ Hold(q) /\ LockOrder(q)
        /\ Unlocked(r) # {} /\ Unlocked(q) # {}
        /\ cmd[r] \in Commands /\ cmd[q] \in Commands
    BY DEF HoldInv, OrderInv, Hold, TypeOK
  <1>2. /\ NextRow(r) \in Accounts /\ NextRow(q) \in Accounts
        /\ NextRow(q) \in Unlocked(q)
    BY <1>1, NextRowIsLeast, CommandFacts DEF Unlocked
  <1>3. NextRow(r) < NextRow(q)
    BY <1>1, <1>2 DEF Hold, LockOrder
  <1>4. NextRow(r) \in Nat /\ NextRow(q) \in Nat
    BY <1>2
  <1>5. NextRow(q) \in Above(r) /\ NextRow(q) \notin Above(q)
    BY <1>2, <1>3, <1>4 DEF Above
  <1>6. ASSUME NEW a \in Accounts, a > NextRow(q) PROVE a > NextRow(r)
    <2>1. a \in Nat
      OBVIOUS
    <2> HIDE ConstantsAssumption
    <2> QED
      BY <1>3, <1>4, <1>6, <2>1
  <1> QED
    BY <1>5, <1>6 DEF Above

\* Neither the rows, nor the keys, nor the pool can make a set of requests wait
\* for itself: of those that lock rows, one wants the largest; if the pool is
\* full, its connections are at work.
THEOREM DeadlockFree ==
    ASSUME IsFiniteSet(Accounts)
    PROVE  Spec => []NoDeadlock
  <1>1. ASSUME IInv, OrderInv PROVE NoDeadlock
    <2> SUFFICES ASSUME NEW S \in SUBSET Requests, S # {},
                        \A r \in S : WaitsWithin(r, S)
                 PROVE  FALSE
      BY <1>1 DEF NoDeadlock
    <2> DEFINE L == {r \in S : pc[r] = "lock"}
    <2>1. L # {}
      <3>1. PICK r \in S : TRUE
        OBVIOUS
      <3>2. CASE pc[r] = "lock"
        BY <3>2
      <3>3. CASE Cardinality(conn) >= MaxConns /\ conn \subseteq S
        <4>1. conn # {}
          BY <3>3, FS_EmptySet
        <4>2. PICK q \in conn : TRUE
          BY <4>1
        <4>3. q \in S /\ pc[q] \in InTx
          BY <1>1, <3>3, <4>2 DEF IInv, HoldInv, Hold, TypeOK
        <4> QED
          BY <1>1, <4>3, OnlyLockersWait DEF InTx
      <3> QED
        BY <1>1, <3>2, <3>3, OnlyLockersWait
    <2>2. ASSUME NEW r \in L
          PROVE  \E q \in L : Above(q) \subseteq Above(r) /\ Above(q) # Above(r)
      <3>1. PICK q \in S \ {r} : lock[NextRow(r)] = q
        BY <1>1, <2>2, OnlyLockersWait
      <3>2. /\ Hold(q) /\ cmd[r] \in Commands /\ Hold(r)
            /\ Unlocked(r) # {}
        BY <1>1, <2>2, <3>1 DEF IInv, HoldInv, TypeOK, Hold
      <3>3. NextRow(r) \in Accounts
        BY <1>1, <2>2, <3>2, NextRowIsLeast, CommandFacts DEF IInv, Unlocked
      <3>4. pc[q] \in Locked \cup {"lock"}
        BY <3>1, <3>2, <3>3 DEF Hold
      <3>5. pc[q] = "lock"
        BY <1>1, <3>1, <3>4, OnlyLockersWait
           DEF Locked, Reserved, Debited, Credited
      <3> QED
        BY <1>1, <2>2, <3>1, <3>5, WaitsForLarger
    <2> DEFINE T == {Above(r) : r \in L}
    <2>3. T \subseteq FiniteSubsetsOf(Accounts) /\ T # {}
      <3>1. \A r \in L : Above(r) \in SUBSET Accounts
        BY DEF Above
      <3>2. \A r \in L : IsFiniteSet(Above(r))
        BY <3>1, FS_Subset
      <3> QED
        BY <2>1, <3>1, <3>2 DEF FiniteSubsetsOf
    <2>4. PICK A \in T : \A B \in T :
                 ~(<<B, A>> \in StrictSubsetOrdering(Accounts))
      BY <2>3, WFMin, FS_StrictSubsetOrderingWellFounded
    <2>5. PICK r \in L : A = Above(r)
      BY <2>4
    <2>6. PICK q \in L : Above(q) \subseteq Above(r) /\ Above(q) # Above(r)
      BY <2>2
    <2>7. Above(q) \in T /\ Above(q) \in SUBSET Accounts /\ A \in SUBSET Accounts
      BY <2>5 DEF Above
    <2> QED
      BY <2>4, <2>5, <2>6, <2>7 DEF StrictSubsetOrdering
  <1> QED
    BY <1>1, OrderHolds, PTL

-----------------------------------------------------------------------------
(* Progress: every step of a request leaves it less to do *)

LEMMA FewUnlocked ==
    ASSUME TypeOK, NEW r \in Requests
    PROVE  IsFiniteSet(Unlocked(r)) /\ Cardinality(Unlocked(r)) \in 0..2
  <1> DEFINE s == cmd[r].sender
             t == cmd[r].receiver
  <1>1. Unlocked(r) \subseteq {s, t}
    BY DEF Unlocked, RowsOf
  <1>2. /\ IsFiniteSet({s}) /\ Cardinality({s}) = 1
        /\ {s, t} = {s} \cup {t}
    BY FS_Singleton
  <1>3. IsFiniteSet({s, t}) /\ Cardinality({s, t}) \in {1, 2}
    BY <1>2, FS_AddElement
  <1>4. /\ IsFiniteSet(Unlocked(r))
        /\ Cardinality(Unlocked(r)) <= Cardinality({s, t})
    BY <1>1, <1>3, FS_Subset
  <1>5. Cardinality(Unlocked(r)) \in Nat
    BY <1>4, FS_CardinalityType
  <1> QED
    BY <1>3, <1>4, <1>5

\* While Transfer runs there is something left besides the answer, and never
\* more than the attempts that remain can take.
LEMMA LeftIs ==
    ASSUME TypeOK, NEW r \in Requests
    PROVE  /\ Left(r) \in 0..13 * MaxAttempts + 2
           /\ pc[r] \in Running =>
                /\ Left(r) = 13 * (MaxAttempts - attempt[r]) + Ahead(r)
                /\ Ahead(r) \in 2..14
                /\ pc[r] \in Statements => Ahead(r) > 2
  <1>1. /\ MaxAttempts \in Nat \ {0} /\ attempt[r] \in 1..MaxAttempts
        /\ pc[r] \in Places
    BY DEF TypeOK
  <1>2. Cardinality(Unlocked(r)) \in 0..2
    BY FewUnlocked
  <1>3. ASSUME pc[r] \in Running
        PROVE  /\ Left(r) = 13 * (MaxAttempts - attempt[r]) + Ahead(r)
               /\ Ahead(r) \in 2..14
               /\ pc[r] \in Statements => Ahead(r) > 2
    <2>1. Left(r) = 13 * (MaxAttempts - attempt[r]) + Ahead(r)
      BY <1>3 DEF Left, Running, InTx
    <2>2. Ahead(r) \in 2..14 /\ (pc[r] \in Statements => Ahead(r) > 2)
      BY <1>2, <1>3 DEF Ahead, Running, InTx, Statements
    <2> QED
      BY <2>1, <2>2
  <1>4. pc[r] \notin Running => Left(r) \in {0, 1, 13 * MaxAttempts + 2}
    BY <1>1 DEF Left, Places
  <1> HIDE ConstantsAssumption
  <1> QED
    BY <1>1, <1>3, <1>4

\* One statement further within an attempt.
LEMMA SameAttemptLess ==
    ASSUME TypeOK, NEW r \in Requests, pc[r] \in Running, pc'[r] \in Running,
           attempt' = attempt, Ahead(r)' < Ahead(r), Ahead(r)' \in Nat
    PROVE  Left(r)' < Left(r)
  <1>1. MaxAttempts \in Nat /\ attempt[r] \in 1..MaxAttempts
    BY DEF TypeOK
  <1>2. /\ Left(r) = 13 * (MaxAttempts - attempt[r]) + Ahead(r)
        /\ Ahead(r) \in 2..14
    BY LeftIs
  <1>3. Left(r)' = 13 * (MaxAttempts - attempt[r]) + Ahead(r)'
    BY DEF Left, Running, InTx
  <1> HIDE ConstantsAssumption
  <1> QED
    BY <1>1, <1>2, <1>3

LEMMA ReturnLess ==
    ASSUME TypeOK, NEW r \in Requests, pc[r] \in Running \cup {"idle"},
           pc'[r] = "answer"
    PROVE  Left(r)' < Left(r)
  <1>1. MaxAttempts \in Nat /\ attempt[r] \in 1..MaxAttempts
    BY DEF TypeOK
  <1>2. Left(r)' = 1
    BY DEF Left
  <1>3. pc[r] = "idle" => Left(r) = 13 * MaxAttempts + 2
    BY DEF Left
  <1>4. pc[r] \in Running =>
            /\ Left(r) = 13 * (MaxAttempts - attempt[r]) + Ahead(r)
            /\ Ahead(r) \in 2..14
    BY LeftIs
  <1> HIDE ConstantsAssumption
  <1> QED
    BY <1>1, <1>2, <1>3, <1>4

LEMMA OwnStepLess ==
    ASSUME IInv, NEW r \in Requests,
           Submit(r) \/ Serve(r) \/ Fail(r) \/ PgAbort(r)
    PROVE  Left(r)' < Left(r)
  <1> USE DEF IInv
  <1>1. /\ TypeOK /\ Hold(r) /\ Checked(r)
        /\ pc \in [Requests -> Places]
        /\ MaxAttempts \in Nat /\ attempt[r] \in 1..MaxAttempts
    BY DEF HoldInv, CheckedInv, TypeOK
  <1>2. ASSUME NEW p, Goto(r, p) PROVE pc'[r] = p
    BY <1>1, <1>2 DEF Goto
  <1>3. ASSUME NEW kind, NEW id, Return(r, kind, id) \/ Abandon(r, kind, id),
               pc[r] \in Running \cup {"idle"}
        PROVE  Left(r)' < Left(r)
    <2>1. pc'[r] = "answer"
      BY <1>2, <1>3 DEF Abandon, Return
    <2> QED
      BY <1>1, <1>3, <2>1, ReturnLess
  \* From a place with n statements ahead to one with fewer.
  <1>4. ASSUME NEW n \in Nat, NEW m \in Nat, m < n, Ahead(r) = n,
               Ahead(r)' = m, pc[r] \in Running, pc'[r] \in Running,
               attempt' = attempt
        PROVE  Left(r)' < Left(r)
    BY <1>1, <1>4, SameAttemptLess
  <1>5. CASE Submit(r)
    <2>1. pc[r] = "idle"
      BY <1>5 DEF Submit
    <2>2. CASE \E kind : Return(r, kind, NoTx)
      BY <1>3, <2>1, <2>2
    <2>3. CASE Goto(r, "begin")
      <3>1. pc'[r] = "begin" /\ attempt' = attempt
        BY <1>2, <1>5, <2>3 DEF Submit
      <3>2. /\ Left(r) = 13 * MaxAttempts + 2
            /\ Left(r)' = 13 * (MaxAttempts - attempt[r]) + 14
        BY <2>1, <3>1 DEF Left, Ahead
      <3> HIDE ConstantsAssumption
      <3> QED
        BY <1>1, <3>2
    <2> QED
      BY <1>5, <2>2, <2>3 DEF Submit
  <1>6. CASE NewTX(r)
    <2>1. pc[r] = "begin" /\ pc'[r] = "check" /\ attempt' = attempt
      BY <1>2, <1>6 DEF NewTX
    <2> QED
      BY <1>4, <2>1 DEF Ahead, Running, InTx
  <1>7. CASE CheckParties(r)
    <2>1. pc[r] = "check"
      BY <1>7 DEF CheckParties
    <2>2. CASE Abandon(r, "SameAccount", NoTx)
      BY <1>3, <2>1, <2>2 DEF Running, InTx
    <2>3. CASE Goto(r, "lock") /\ UNCHANGED <<held, cmd, attempt>>
      <3>1. pc'[r] = "lock" /\ attempt' = attempt /\ Unlocked(r)' = Unlocked(r)
        BY <1>2, <2>3 DEF held, Unlocked
      <3>2. Ahead(r) = 13 /\ Ahead(r)' = 10 + Cardinality(Unlocked(r))
        BY <2>1, <3>1 DEF Ahead
      <3>3. Cardinality(Unlocked(r)) \in 0..2
        BY <1>1, FewUnlocked
      <3>4. 10 + Cardinality(Unlocked(r)) \in Nat
            /\ 10 + Cardinality(Unlocked(r)) < 13
        BY <3>3
      <3> QED
        BY <1>4, <2>1, <3>1, <3>2, <3>4 DEF Running, InTx
    <2> QED
      BY <1>7, <2>2, <2>3 DEF CheckParties
  <1>8. CASE LockForTransfer(r)
    <2> DEFINE n == Cardinality(Unlocked(r))
    <2>1. /\ pc[r] = "lock" /\ attempt' = attempt /\ cmd' = cmd
          /\ lock' = [lock EXCEPT ![NextRow(r)] = r]
          /\ pc'[r] = IF Unlocked(r) = {NextRow(r)} THEN "reserve" ELSE "lock"
      BY <1>2, <1>8 DEF LockForTransfer
    <2>2. NextRow(r) \in Unlocked(r)
      BY <1>1, <2>1, NextRowIsLeast DEF Hold
    <2>3. Unlocked(r)' = Unlocked(r) \ {NextRow(r)}
      <3>1. /\ lock \in [Accounts -> Requests \cup {NoRequest}]
            /\ RowsOf(cmd[r]) \subseteq Accounts
        BY <1>1, CommandFacts DEF TypeOK
      <3> QED
        BY <2>1, <2>2, <3>1 DEF Unlocked
    <2>4. IsFiniteSet(Unlocked(r)) /\ n \in 0..2
      BY <1>1, FewUnlocked
    <2>5. Cardinality(Unlocked(r)') = n - 1
      <3>1. Cardinality(Unlocked(r) \ {NextRow(r)}) = n - 1
        BY <2>2, <2>4, FS_RemoveElement
      <3> QED
        BY <2>3, <3>1
    <2>6. n \in 1..2
      <3>1. n # 0
        BY <2>2, <2>4, FS_EmptySet
      <3> QED
        BY <2>4, <3>1
    <2>7. Ahead(r) = 10 + n
      BY <2>1 DEF Ahead
    <2>8. Ahead(r)' \in {10, 10 + (n - 1)}
      BY <2>1, <2>5 DEF Ahead
    <2>9. pc[r] \in Running /\ pc'[r] \in Running
      BY <2>1 DEF Running, InTx
    <2>10. Ahead(r)' < Ahead(r) /\ Ahead(r)' \in Nat
      <3> HIDE DEF n
      <3> QED
        BY <2>6, <2>7, <2>8
    <2> QED
      BY <1>1, <2>1, <2>9, <2>10, SameAttemptLess
  <1>9. CASE TryCreateIdempotency(r)
    <2>1. /\ pc[r] = "reserve" /\ attempt' = attempt
          /\ pc'[r] \in {"sub", "rate", "lookup"}
      BY <1>2, <1>9 DEF TryCreateIdempotency, Stage
    <2>2. Ahead(r) = 10 /\ Ahead(r)' \in {8, 9}
      BY <2>1 DEF Ahead
    <2> QED
      BY <1>4, <2>1, <2>2 DEF Running, InTx
  <1>10. CASE ResolveIdempotency(r)
    <2>1. pc[r] = "lookup" /\ \E kind, id : Abandon(r, kind, id)
      BY <1>10 DEF ResolveIdempotency
    <2> QED
      BY <1>3, <2>1 DEF Running, InTx
  <1>11. CASE CheckRateLimit(r)
    <2>1. pc[r] = "rate"
      BY <1>11 DEF CheckRateLimit
    <2>2. CASE \E kind : Return(r, kind, NoTx) \/ Abandon(r, kind, NoTx)
      BY <1>3, <2>1, <2>2 DEF Running, InTx
    <2>3. CASE Goto(r, "sub") /\ UNCHANGED attempt
      <3>1. pc'[r] = "sub" /\ attempt' = attempt
        BY <1>2, <2>3
      <3> QED
        BY <1>4, <2>1, <3>1 DEF Ahead, Running, InTx
    <2> QED
      BY <1>11, <2>2, <2>3 DEF CheckRateLimit
  <1>12. CASE Sub(r)
    <2>1. pc[r] = "sub"
      BY <1>12 DEF Sub
    <2>2. CASE Abandon(r, "InsufficientFunds", NoTx)
      BY <1>3, <2>1, <2>2 DEF Running, InTx
    <2>3. CASE Stage(r, "debit", "add")
      <3>1. pc'[r] = "add" /\ attempt' = attempt
        BY <1>2, <2>3 DEF Stage
      <3> QED
        BY <1>4, <2>1, <3>1 DEF Ahead, Running, InTx
    <2> QED
      BY <1>12, <2>2, <2>3 DEF Sub
  <1>13. CASE Add(r)
    <2>1. pc[r] = "add"
      BY <1>13 DEF Add
    <2>2. CASE \E kind : Abandon(r, kind, NoTx)
      BY <1>3, <2>1, <2>2 DEF Running, InTx
    <2>3. CASE Stage(r, "credit", "insert")
      <3>1. pc'[r] = "insert" /\ attempt' = attempt
        BY <1>2, <2>3 DEF Stage
      <3> QED
        BY <1>4, <2>1, <3>1 DEF Ahead, Running, InTx
    <2> QED
      BY <1>13, <2>2, <2>3 DEF Add
  <1>14. CASE InsertTransaction(r)
    <2>1. pc[r] = "insert" /\ pc'[r] = "update" /\ attempt' = attempt
      BY <1>2, <1>14 DEF InsertTransaction, Stage
    <2> QED
      BY <1>4, <2>1 DEF Ahead, Running, InTx
  <1>15. CASE UpdateStatus(r)
    <2>1. pc[r] = "update" /\ pc'[r] = "complete" /\ attempt' = attempt
      BY <1>2, <1>15 DEF UpdateStatus, Stage
    <2> QED
      BY <1>4, <2>1 DEF Ahead, Running, InTx
  <1>16. CASE CompleteIdempotency(r)
    <2>1. pc[r] = "complete"
      BY <1>16 DEF CompleteIdempotency
    <2>2. CASE Abandon(r, "Internal", NoTx)
      BY <1>3, <2>1, <2>2 DEF Running, InTx
    <2>3. CASE Stage(r, "complete", "commit")
      <3>1. pc'[r] = "commit" /\ attempt' = attempt
        BY <1>2, <2>3 DEF Stage
      <3> QED
        BY <1>4, <2>1, <3>1 DEF Ahead, Running, InTx
    <2> QED
      BY <1>16, <2>2, <2>3 DEF CompleteIdempotency
  <1>17. CASE Commit(r)
    <2>1. pc[r] = "commit" /\ \E kind, id : Return(r, kind, id)
      BY <1>17 DEF Commit
    <2> QED
      BY <1>3, <2>1 DEF Running, InTx
  <1>18. CASE Retry(r)
    <2>1. /\ pc[r] = "backoff" /\ pc'[r] = "begin"
          /\ attempt'[r] = attempt[r] + 1 /\ attempt[r] < MaxAttempts
      BY <1>1, <1>2, <1>18 DEF Retry, Checked, TypeOK
    <2>2. /\ Left(r) = 13 * (MaxAttempts - attempt[r]) + 2
          /\ Left(r)' = 13 * (MaxAttempts - (attempt[r] + 1)) + 14
      BY <2>1 DEF Left, Ahead
    <2> HIDE ConstantsAssumption
    <2> QED
      BY <1>1, <2>1, <2>2
  <1>19. CASE Respond(r)
    <2>1. pc[r] = "answer" /\ pc'[r] = "done"
      BY <1>2, <1>19 DEF Respond
    <2> QED
      BY <2>1 DEF Left
  <1>20. CASE Fail(r)
    BY <1>3, <1>20 DEF Fail
  <1>21. CASE PgAbort(r)
    <2>1. pc[r] \in Statements /\ attempt' = attempt /\ pc[r] \in Running
      BY <1>21 DEF PgAbort, Statements, Running
    <2>2. CASE Return(r, "Internal", NoTx)
      BY <1>3, <2>1, <2>2
    <2>3. CASE Goto(r, "backoff")
      <3>1. pc'[r] = "backoff"
        BY <1>2, <2>3
      <3>2. Ahead(r)' = 2 /\ pc'[r] \in Running
        BY <3>1 DEF Ahead, Running
      <3>3. Ahead(r) \in 2..14 /\ Ahead(r) > 2
        BY <1>1, <2>1, LeftIs
      <3> QED
        BY <1>1, <2>1, <3>2, <3>3, SameAttemptLess
    <2> QED
      BY <1>21, <2>2, <2>3 DEF PgAbort
  <1> QED
    BY <1>5, <1>6, <1>7, <1>8, <1>9, <1>10, <1>11, <1>12, <1>13, <1>14,
       <1>15, <1>16, <1>17, <1>18, <1>19, <1>20, <1>21 DEF Serve

\* What is left stays a number.
LEMMA NextLeftIsInt ==
    ASSUME IInv, [Next]_vars, NEW r \in Requests
    PROVE  Left(r)' \in Int
  <1>1. /\ MaxAttempts \in Nat /\ TypeOK'
        /\ attempt'[r] \in 1..MaxAttempts /\ pc'[r] \in Places
    BY NextInv DEF IInv, TypeOK
  <1>2. Unlocked(r)' \subseteq {cmd'[r].sender} \cup {cmd'[r].receiver}
    BY DEF Unlocked, RowsOf
  <1>3. Cardinality(Unlocked(r)') \in Nat
    BY <1>2, FS_Singleton, FS_Union, FS_Subset, FS_CardinalityType
  <1>4. pc'[r] \in Running => Ahead(r)' \in Int
    BY <1>3 DEF Ahead, Running, InTx
  <1>5. pc'[r] \in Running =>
            Left(r)' = 13 * (MaxAttempts - attempt'[r]) + Ahead(r)'
    BY DEF Left, Running, InTx
  <1>6. pc'[r] \notin Running => Left(r)' \in {0, 1, 13 * MaxAttempts + 2}
    BY <1>1 DEF Left, Places
  <1> HIDE ConstantsAssumption
  <1> QED
    BY <1>1, <1>4, <1>5, <1>6

\* A step of one request takes no attempt from another.
LEMMA OthersAttempt ==
    ASSUME TypeOK, NEW q \in Requests, NEW r \in Requests \ {q},
           Submit(q) \/ Serve(q) \/ Fail(q) \/ PgAbort(q)
    PROVE  attempt'[r] = attempt[r]
  <1>1. CASE Retry(q)
    BY <1>1 DEF Retry, TypeOK
  <1>2. CASE ~Retry(q)
    BY <1>2 DEF Submit, Serve, Fail, PgAbort, NewTX, CheckParties,
       LockForTransfer, TryCreateIdempotency, ResolveIdempotency,
       CheckRateLimit, Sub, Add, InsertTransaction, UpdateStatus,
       CompleteIdempotency, Commit, Respond, Abandon, Stage
  <1> QED
    BY <1>1, <1>2

LEMMA SameLeft ==
    ASSUME TypeOK, NEW r \in Requests, cmd' = cmd, pc'[r] = pc[r],
           attempt'[r] = attempt[r],
           \A a \in Accounts : lock'[a] = r <=> lock[a] = r
    PROVE  Left(r)' = Left(r)
  <1>1. RowsOf(cmd[r]) \subseteq Accounts
    BY CommandFacts DEF TypeOK
  <1>2. Unlocked(r)' = Unlocked(r)
    BY <1>1 DEF Unlocked
  <1>3. Ahead(r)' = Ahead(r)
    BY <1>2 DEF Ahead
  <1> QED
    BY <1>3 DEF Left

\* A request makes at most 13 steps per attempt and two more, whatever fails,
\* is aborted and retried (the loop of Transfer): it cannot run for ever.
THEOREM ProgressIsMade == Spec => StepsAreBounded
  <1>1. IInv /\ [Next]_vars => ProgressStep
    <2> SUFFICES ASSUME IInv, [Next]_vars, NEW r \in Requests
                 PROVE  Left(r) \in 0..13 * MaxAttempts + 2 /\ Left(r)' <= Left(r)
      BY OwnStepLess DEF ProgressStep
    <2>1. TypeOK /\ Left(r) \in 0..13 * MaxAttempts + 2
      BY LeftIs DEF IInv
    <2>2. Left(r) \in Int
      BY <2>1
    <2>3. CASE Left(r)' = Left(r)
      BY <2>1, <2>2, <2>3
    <2>4. CASE Submit(r) \/ Serve(r) \/ Fail(r) \/ PgAbort(r)
      <3>1. Left(r)' < Left(r)
        BY <2>4, OwnStepLess
      <3>2. Left(r)' \in Int
        BY NextLeftIsInt
      <3> HIDE ConstantsAssumption
      <3> QED
        BY <2>1, <2>2, <3>1, <3>2
    <2>5. ASSUME NEW q \in Requests \ {r},
                 Submit(q) \/ Serve(q) \/ Fail(q) \/ PgAbort(q)
          PROVE  Left(r)' = Left(r)
      BY <2>1, <2>5, OthersKeep, OthersAttempt, SameLeft
    <2>6. CASE Crash
      <3>1. pc'[r] = IF pc[r] = "idle" THEN "idle" ELSE "done"
        BY <2>6 DEF Crash
      <3>2. pc[r] = "idle" => Left(r)' = Left(r)
        BY <3>1 DEF Left
      <3>3. pc[r] # "idle" => Left(r)' = 0
        BY <3>1 DEF Left
      <3> QED
        BY <2>1, <2>3, <3>2, <3>3
    <2>7. CASE UNCHANGED vars
      BY <2>1, <2>3, <2>7, SameLeft DEF vars
    <2> QED
      BY <2>3, <2>4, <2>5, <2>6, <2>7 DEF Next, Terminated
  <1> QED
    BY <1>1, InvariantHolds, PTL DEF Spec, StepsAreBounded
=============================================================================
