------------------------- MODULE TransferRefinement -------------------------
(***************************************************************************)
(* Transfer implements Ledger: the commit is the abstract Execute, the     *)
(* response the abstract answer, a crash loses answers, and every other    *)
(* step of a handler, a rollback or a retry is a stutter.                  *)
(***************************************************************************)
EXTENDS TransferProofs, WellFoundedInduction

\* Every step of the handlers leaves the tables as they are, except Commit.
LEMMA OnlyCommitWrites ==
    ASSUME [Next]_vars
    PROVE  UNCHANGED db \/ \E r \in Requests : Commit(r)
  BY DEF Next, Serve, Submit, NewTX, CheckParties, LockForTransfer,
     TryCreateIdempotency, ResolveIdempotency, CheckRateLimit, Sub, Add,
     InsertTransaction, UpdateStatus, CompleteIdempotency, Retry, Respond,
     Fail, PgAbort, Crash, Terminated, Abandon, Stage, db, vars

-----------------------------------------------------------------------------
(* Sums over finite sets *)

\* Induction, for the provers: a set of naturals has a least element.
LEMMA Least ==
    ASSUME NEW T \in SUBSET Nat, T # {}
    PROVE  \E n \in T : \A m \in T : n <= m
  <1> DEFINE R == OpToRel(<, Nat)
  <1>1. \A m, n \in Nat : <<m, n>> \in R <=> m < n
    BY DEF OpToRel
  <1>2. IsWellFoundedOn(R, Nat)
    BY NatLessThanWellFounded
  <1> HIDE DEF R
  <1>3. PICK n \in T : \A m \in T : ~(<<m, n>> \in R)
    BY <1>2, WFMin
  <1>4. n \in Nat /\ \A m \in T : m \in Nat /\ ~(m < n)
    BY <1>1, <1>3
  <1>5. \A m \in T : n <= m
    BY <1>4
  <1> QED
    BY <1>3, <1>5

\* The recursive function with which the fold over S is defined.
Chosen(s) == CHOOSE x \in s : TRUE
IsFold(g, D) ==
    g = [s \in D |-> IF s = {} THEN 0 ELSE Chosen(s).amount + g[s \ {Chosen(s)}]]
Fold(S) == CHOOSE g : IsFold(g, SUBSET S)

LEMMA TotalIsFold == ASSUME NEW S PROVE Total(S) = Fold(S)[S]
  BY DEF Total, MapThenSumSet, MapThenFoldSet, Fold, IsFold, Chosen

\* The fold over a finite set is well-defined: by the size of its arguments.
LEMMA FoldExists ==
    ASSUME NEW S, IsFiniteSet(S)
    PROVE  IsFold(Fold(S), SUBSET S)
  <1> DEFINE Upto(n) == {s \in SUBSET S : Cardinality(s) <= n}
             Bad == {n \in Nat : ~\E g : IsFold(g, Upto(n))}
  <1>1. \A s \in SUBSET S : IsFiniteSet(s) /\ Cardinality(s) \in Nat
    BY FS_Subset, FS_CardinalityType
  <1>2. \A s \in SUBSET S : s # {} =>
          /\ Chosen(s) \in s
          /\ s \ {Chosen(s)} \in SUBSET S
          /\ Cardinality(s \ {Chosen(s)}) = Cardinality(s) - 1
    BY <1>1, FS_RemoveElement DEF Chosen
  <1>3. Upto(0) = {{}}
    BY <1>1, FS_EmptySet
  <1>4. 0 \notin Bad
    <2> DEFINE g == [s \in Upto(0) |-> 0]
    <2>1. IsFold(g, Upto(0))
      BY <1>3 DEF IsFold
    <2> QED
      BY <2>1
  <1>5. ASSUME NEW n \in Nat, n \notin Bad
        PROVE  n + 1 \notin Bad
    <2>1. PICK g : IsFold(g, Upto(n))
      BY <1>5
    <2> DEFINE next(s) == IF s = {} THEN 0
                          ELSE Chosen(s).amount + g[s \ {Chosen(s)}]
               h == [s \in Upto(n + 1) |-> next(s)]
    <2>2. \A s \in Upto(n) : g[s] = next(s)
      BY <2>1 DEF IsFold
    <2>3. Upto(n) \subseteq Upto(n + 1)
      BY <1>1
    <2>4. \A s \in Upto(n + 1) : s # {} => s \ {Chosen(s)} \in Upto(n)
      BY <1>1, <1>2
    <2> HIDE DEF Upto
    <2>5. \A s \in Upto(n + 1) :
            h[s] = IF s = {} THEN 0 ELSE Chosen(s).amount + h[s \ {Chosen(s)}]
      BY <2>2, <2>3, <2>4
    <2>6. IsFold(h, Upto(n + 1))
      BY <2>5 DEF IsFold
    <2> QED
      BY <2>6
  <1>6. Bad = {}
    <2> SUFFICES ASSUME Bad # {} PROVE FALSE
      OBVIOUS
    <2>1. PICK n \in Bad : \A m \in Bad : n <= m
      BY Least
    <2>2. Bad \subseteq Nat
      OBVIOUS
    <2> HIDE DEF Bad
    <2>3. n \in Nat /\ n # 0
      BY <1>4, <2>1, <2>2
    <2>4. n - 1 \in Nat /\ (n - 1) + 1 = n /\ ~(n <= n - 1)
      BY <2>3
    <2>5. n - 1 \notin Bad
      BY <2>1, <2>4
    <2> QED
      BY <1>5, <2>1, <2>4, <2>5
  <1>7. Upto(Cardinality(S)) = SUBSET S
    BY <1>1, FS_Subset
  <1>8. \E g : IsFold(g, SUBSET S)
    BY <1>1, <1>6, <1>7
  <1> QED
    BY <1>8 DEF Fold

\* The fold does not depend on the set within which it is computed.
LEMMA FoldAgrees ==
    ASSUME NEW S, IsFiniteSet(S), NEW T \in SUBSET S, NEW s \in SUBSET T
    PROVE  Fold(S)[s] = Fold(T)[s]
  <1> DEFINE Bad == {n \in Nat : \E u \in SUBSET T :
                       Cardinality(u) = n /\ Fold(S)[u] # Fold(T)[u]}
  <1>1. \A u \in SUBSET T : IsFiniteSet(u) /\ Cardinality(u) \in Nat
    BY FS_Subset, FS_CardinalityType
  <1>2. /\ IsFold(Fold(S), SUBSET S) /\ IsFold(Fold(T), SUBSET T)
    BY FoldExists, FS_Subset
  <1>3. \A u \in SUBSET T :
          /\ Fold(S)[u] = IF u = {} THEN 0
                          ELSE Chosen(u).amount + Fold(S)[u \ {Chosen(u)}]
          /\ Fold(T)[u] = IF u = {} THEN 0
                          ELSE Chosen(u).amount + Fold(T)[u \ {Chosen(u)}]
    BY <1>2 DEF IsFold
  <1>4. Bad = {}
    <2> SUFFICES ASSUME Bad # {} PROVE FALSE
      OBVIOUS
    <2>1. PICK n \in Bad : \A m \in Bad : n <= m
      BY Least
    <2>2. PICK u \in SUBSET T : Cardinality(u) = n /\ Fold(S)[u] # Fold(T)[u]
      BY <2>1
    <2>3. u # {}
      BY <1>3, <2>2
    <2>4. /\ u \ {Chosen(u)} \in SUBSET T
          /\ Cardinality(u \ {Chosen(u)}) = n - 1
      BY <1>1, <2>2, <2>3, FS_RemoveElement DEF Chosen
    <2>5. Fold(S)[u \ {Chosen(u)}] = Fold(T)[u \ {Chosen(u)}]
      BY <1>1, <2>1, <2>4
    <2> QED
      BY <1>3, <2>2, <2>3, <2>5
  <1> QED
    BY <1>1, <1>4

LEMMA TotalEmpty == Total({}) = 0
  <1>1. IsFold(Fold({}), SUBSET {})
    BY FoldExists, FS_EmptySet
  <1> QED
    BY <1>1, TotalIsFold DEF IsFold

LEMMA TotalChosen ==
    ASSUME NEW S, IsFiniteSet(S), S # {}
    PROVE  Total(S) = Chosen(S).amount + Total(S \ {Chosen(S)})
  <1>1. Fold(S)[S] = Chosen(S).amount + Fold(S)[S \ {Chosen(S)}]
    BY FoldExists DEF IsFold
  <1>2. Fold(S)[S \ {Chosen(S)}] = Fold(S \ {Chosen(S)})[S \ {Chosen(S)}]
    BY FoldAgrees
  <1> QED
    BY <1>1, <1>2, TotalIsFold

LEMMA TotalRemove ==
    ASSUME NEW S \in SUBSET TxRows, IsFiniteSet(S)
    PROVE  /\ Total(S) \in Nat
           /\ \A x \in S : Total(S) = x.amount + Total(S \ {x})
  <1> DEFINE Fine(T) == /\ Total(T) \in Nat
                        /\ \A x \in T : Total(T) = x.amount + Total(T \ {x})
             Bad == {n \in Nat : \E T \in SUBSET S : Cardinality(T) = n /\ ~Fine(T)}
  <1>1. \A T \in SUBSET S : IsFiniteSet(T) /\ Cardinality(T) \in Nat
    BY FS_Subset, FS_CardinalityType
  <1>2. Bad = {}
    <2> SUFFICES ASSUME Bad # {} PROVE FALSE
      OBVIOUS
    <2>1. PICK n \in Bad : \A m \in Bad : n <= m
      BY Least
    <2>2. PICK T \in SUBSET S : Cardinality(T) = n /\ ~Fine(T)
      BY <2>1
    <2>3. T # {}
      BY <2>2, TotalEmpty
    <2>4. \A U \in SUBSET T : U # T => Fine(U)
      <3> SUFFICES ASSUME NEW U \in SUBSET T, U # T PROVE Fine(U)
        OBVIOUS
      <3>1. Cardinality(U) < n
        BY <1>1, <2>2, FS_Subset
      <3>2. U \in SUBSET S /\ Cardinality(U) \in Nat
        BY <1>1
      <3>3. Cardinality(U) \notin Bad
        BY <2>1, <3>1, <3>2
      <3> HIDE DEF Fine
      <3> QED
        BY <3>2, <3>3
    <2>5. \A x \in T : Fine(T \ {x})
      BY <2>4
    <2> DEFINE c == Chosen(T)
    <2>6. c \in T /\ Total(T) = c.amount + Total(T \ {c})
      BY <1>1, <2>3, TotalChosen DEF Chosen
    <2>7. \A x \in T : x.amount \in Nat /\ Total(T \ {x}) \in Nat
      BY <2>5 DEF TxRows
    <2> HIDE DEF c
    <2>8. ASSUME NEW x \in T, x # c
          PROVE  Total(T) = x.amount + Total(T \ {x})
      <3>1. (T \ {c}) \ {x} = (T \ {x}) \ {c}
        OBVIOUS
      <3>2. Total(T \ {c}) = x.amount + Total((T \ {c}) \ {x})
        BY <2>5, <2>6, <2>8
      <3>3. Total(T \ {x}) = c.amount + Total((T \ {x}) \ {c})
        BY <2>5, <2>6, <2>8
      <3>4. Total((T \ {x}) \ {c}) \in Nat
        <4>1. (T \ {x}) \ {c} \in SUBSET T /\ (T \ {x}) \ {c} # T
          BY <2>6
        <4> QED
          BY <2>4, <4>1
      <3> QED
        BY <2>6, <2>7, <2>8, <3>1, <3>2, <3>3, <3>4
    <2>9. \A x \in T : Total(T) = x.amount + Total(T \ {x})
      BY <2>6, <2>8
    <2>10. Total(T) \in Nat
      BY <2>6, <2>7
    <2> QED
      BY <2>2, <2>9, <2>10
  <1> QED
    BY <1>1, <1>2

LEMMA TotalAdd ==
    ASSUME NEW S \in SUBSET TxRows, IsFiniteSet(S), NEW x \in TxRows \ S
    PROVE  /\ Total(S) \in Nat
           /\ Total(S \cup {x}) = Total(S) + x.amount
  <1>1. IsFiniteSet(S \cup {x}) /\ (S \cup {x}) \ {x} = S
    BY FS_AddElement
  <1>2. Total(S \cup {x}) = x.amount + Total((S \cup {x}) \ {x})
    BY <1>1, TotalRemove
  <1> QED
    BY <1>1, <1>2, TotalRemove DEF TxRows

-----------------------------------------------------------------------------
(* Money *)

\* Commit books a new row and moves its amount, which the sender has.
LEMMA CommitMoves ==
    ASSUME IInv, NEW r \in Requests, Commit(r)
    PROVE  \E t \in TxRows \ txs :
             /\ txs' = txs \cup {t} /\ idem \subseteq idem'
             /\ t.sender # t.receiver /\ balance[t.sender] >= t.amount
             /\ balance' = [balance EXCEPT ![t.sender] = @ - t.amount,
                                           ![t.receiver] = @ + t.amount]
  <1> USE DEF IInv
  <1> DEFINE c == cmd[r]
             t0 == [id |-> TxId(r), sender |-> c.sender,
                    receiver |-> c.receiver, amount |-> c.amount,
                    status |-> "completed"]
  <1>1. pc[r] = "commit" /\ Apply(r)
    BY DEF Commit
  <1>2. /\ txs' = txs \cup {t0} /\ idem \subseteq idem'
        /\ balance' = [balance EXCEPT ![c.sender] = @ - c.amount,
                                      ![c.receiver] = @ + c.amount]
    BY <1>1, ApplyFacts
  <1>3. t0 \notin txs
    BY <1>1, NotBooked DEF TxId
  <1>4. /\ c.receiver \in Accounts \ {c.sender}
        /\ balance[c.sender] >= c.amount
    BY <1>1, AtCommit
  <1>5. c.sender \in Accounts /\ c.amount \in Nat /\ TxId(r) \in TxIds
    BY ConstantsAssumption DEF TypeOK, AllCommands, TxId, TxIds
  <1>6. /\ t0 \in TxRows
        /\ t0.sender = c.sender /\ t0.receiver = c.receiver
        /\ t0.amount = c.amount
    BY <1>4, <1>5 DEF TxRows
  <1> QED
    BY <1>2, <1>3, <1>4, <1>6

\* Rows are never rewritten, and money moves only in the step that books the
\* transaction, by its amount and between its two accounts.
THEOREM MoneyMoves == Spec => MoneyMovesWithBooks
  <1>1. IInv /\ [Next]_vars => BookedStep
    BY OnlyCommitWrites, CommitMoves DEF db, BookedStep
  <1> QED
    BY <1>1, InvariantHolds, PTL DEF Spec, MoneyMovesWithBooks

\* What holds of the sums besides: there are finitely many rows to add up.
FiniteBooks == IsFiniteSet(txs) /\ BalancesMatchBooks

\* Every balance is what the booked transactions make of the initial one, with
\* any number of requests, whatever fails, retries or crashes (Apply, Commit).
THEOREM BalancesMatch == Spec => []BalancesMatchBooks
  <1>1. Init => FiniteBooks
    <2> SUFFICES ASSUME Init PROVE FiniteBooks
      OBVIOUS
    <2>1. \A a \in Accounts : Received(a) = 0 /\ Sent(a) = 0
      BY TotalEmpty DEF Init, Received, Sent
    <2>2. balance = InitialBalance /\ \A a \in Accounts : balance[a] \in Nat
      BY ConstantsAssumption DEF Init
    <2> QED
      BY <2>1, <2>2, FS_EmptySet DEF Init, FiniteBooks, BalancesMatchBooks
  <1>2. IInv /\ FiniteBooks /\ [Next]_vars => FiniteBooks'
    <2> SUFFICES ASSUME IInv, FiniteBooks, [Next]_vars PROVE FiniteBooks'
      OBVIOUS
    <2>1. CASE UNCHANGED db
      BY <2>1 DEF FiniteBooks, BalancesMatchBooks, Received, Sent, db
    <2>2. ASSUME NEW r \in Requests, Commit(r) PROVE FiniteBooks'
      <3>1. PICK t \in TxRows \ txs :
              /\ txs' = txs \cup {t}
              /\ t.sender # t.receiver /\ balance[t.sender] >= t.amount
              /\ balance' = [balance EXCEPT ![t.sender] = @ - t.amount,
                                            ![t.receiver] = @ + t.amount]
        BY <2>2, CommitMoves
      <3>2. IsFiniteSet(txs) /\ txs \subseteq TxRows
            /\ balance \in [Accounts -> Nat] /\ t.amount \in Nat
        BY DEF FiniteBooks, IInv, TypeOK, TxRows
      <3>3. ASSUME NEW a \in Accounts
            PROVE  (balance[a] + Sent(a) = InitialBalance[a] + Received(a))'
        <4> DEFINE in  == {u \in txs : u.receiver = a}
                   out == {u \in txs : u.sender = a}
        <4>1. /\ IsFiniteSet(in) /\ IsFiniteSet(out)
              /\ in \in SUBSET TxRows /\ out \in SUBSET TxRows
              /\ t \notin in /\ t \notin out
          BY <3>1, <3>2, FS_Subset
        <4>2. /\ Total(in) \in Nat /\ Total(out) \in Nat
              /\ Total(in \cup {t}) = Total(in) + t.amount
              /\ Total(out \cup {t}) = Total(out) + t.amount
          BY <4>1, TotalAdd
        <4>3. Received(a)' = IF t.receiver = a THEN Total(in \cup {t}) ELSE Total(in)
          <5>1. {u \in txs' : u.receiver = a}
                  = IF t.receiver = a THEN in \cup {t} ELSE in
            BY <3>1
          <5> QED
            BY <5>1 DEF Received
        <4>4. Sent(a)' = IF t.sender = a THEN Total(out \cup {t}) ELSE Total(out)
          <5>1. {u \in txs' : u.sender = a}
                  = IF t.sender = a THEN out \cup {t} ELSE out
            BY <3>1
          <5> QED
            BY <5>1 DEF Sent
        <4>5. balance[a] + Total(out) = InitialBalance[a] + Total(in)
          BY DEF FiniteBooks, BalancesMatchBooks, Received, Sent
        <4>6. balance'[a] = IF t.sender = a THEN balance[a] - t.amount
                            ELSE IF t.receiver = a THEN balance[a] + t.amount
                            ELSE balance[a]
          BY <3>1, <3>2
        <4>7. InitialBalance[a] \in Nat /\ balance[a] \in Nat
          BY <3>2, ConstantsAssumption
        <4> HIDE DEF in, out
        <4> QED
          BY <3>1, <3>2, <4>2, <4>3, <4>4, <4>5, <4>6, <4>7
      <3>4. IsFiniteSet(txs')
        BY <3>1, <3>2, FS_AddElement
      <3> QED
        BY <3>3, <3>4 DEF FiniteBooks, BalancesMatchBooks
    <2> QED
      BY <2>1, <2>2, OnlyCommitWrites
  <1>3. FiniteBooks => BalancesMatchBooks
    BY DEF FiniteBooks
  <1> QED
    BY <1>1, <1>2, <1>3, InvariantHolds, PTL DEF Spec

-----------------------------------------------------------------------------
(* The refinement mapping, by name *)

Told    == [r \in Requests |-> IF pc[r] = "done" THEN outcome[r] ELSE "None"]
ToldTx  == [r \in Requests |-> IF pc[r] = "done" THEN answerTx[r] ELSE NoTx]

LEMMA InitRefines == Init => Promise!Init
  BY DEF Init, Promise!Init

\* A step in which nobody is answered and no table changes is a stutter.
LEMMA SilentStep ==
    ASSUME UNCHANGED <<db, cmd>>, Told' = Told, ToldTx' = ToldTx
    PROVE  UNCHANGED Promise!vars
  BY DEF db, Told, ToldTx, Promise!vars

LEMMA QuietStep ==
    ASSUME IInv, NEW r \in Requests, NEW p, Goto(r, p), p # "done",
           pc[r] # "done", UNCHANGED <<db, cmd>>,
           \A q \in Requests \ {r} :
               outcome'[q] = outcome[q] /\ answerTx'[q] = answerTx[q]
    PROVE  UNCHANGED Promise!vars
  <1>1. \A q \in Requests : pc'[q] = "done" <=> pc[q] = "done"
    BY DEF Goto, IInv, TypeOK
  <1>2. Told' = Told /\ ToldTx' = ToldTx
    BY <1>1 DEF Told, ToldTx
  <1> QED
    BY <1>2, SilentStep

LEMMA AbandonIsQuiet ==
    ASSUME IInv, NEW r \in Requests, NEW kind, NEW id, Abandon(r, kind, id),
           pc[r] # "done"
    PROVE  UNCHANGED Promise!vars
  BY QuietStep DEF Abandon, Return, IInv, TypeOK

\* The commit moves the money, books the row and binds the key at once.
LEMMA CommitExecutes ==
    ASSUME IInv, NEW r \in Requests, Commit(r)
    PROVE  Promise!Execute(r)
  <1> USE DEF IInv
  <1> DEFINE c == cmd[r]
  <1>1. pc[r] = "commit" /\ Apply(r) /\ cmd' = cmd /\ Goto(r, "answer")
    BY DEF Commit, Return
  <1>2. /\ Told[r] = "None"
        /\ Promise!KeyRow(c) = {}
        /\ \A t \in txs : t.id[1] # r
    BY <1>1, AtCommit, NotBooked DEF Told, Promise!KeyRow, KeyRow
  <1>3. /\ c.receiver \in Accounts \ {c.sender}
        /\ c.amount > 0
        /\ balance[c.sender] >= c.amount
        /\ balance[c.receiver] + c.amount <= MaxNumeric
    BY <1>1, AtCommit
  <1>4. /\ balance' = [balance EXCEPT ![c.sender] = @ - c.amount,
                                      ![c.receiver] = @ + c.amount]
        /\ txs' = txs \cup
             {[id |-> <<r, attempt[r]>>, sender |-> c.sender,
               receiver |-> c.receiver, amount |-> c.amount,
               status |-> "completed"]}
        /\ idem' = idem \cup
             {[sender |-> c.sender, key |-> c.key,
               print |-> Promise!Payload(c), status |-> "completed",
               tx |-> <<r, attempt[r]>>]}
    BY <1>1, ApplyFacts DEF Fingerprint, Promise!Payload, TxId
  <1>5. Told' = Told /\ ToldTx' = ToldTx
    <2>1. \A q \in Requests :
            /\ pc'[q] = "done" <=> pc[q] = "done"
            /\ q # r => outcome'[q] = outcome[q] /\ answerTx'[q] = answerTx[q]
      BY <1>1 DEF Commit, Return, Goto, TypeOK
    <2> QED
      BY <1>1, <2>1 DEF Told, ToldTx
  <1>6. attempt[r] \in 1..MaxAttempts
    BY DEF TypeOK
  <1> QED
    BY <1>1, <1>2, <1>3, <1>4, <1>5, <1>6 DEF Promise!Execute, Told, ToldTx

\* The response is an acknowledgement, a refusal or a server error.
LEMMA RespondTells ==
    ASSUME IInv, NEW r \in Requests, Respond(r)
    PROVE  Promise!Acknowledge(r) \/ Promise!Refuse(r) \/ Promise!Shrug(r)
  <1> USE DEF IInv
  <1>1. pc[r] = "answer" /\ Goto(r, "done") /\ UNCHANGED <<db, ret, cmd>>
    BY DEF Respond
  <1>2. /\ Told[r] = "None"
        /\ Told' = [Told EXCEPT ![r] = outcome[r]]
        /\ ToldTx' = [ToldTx EXCEPT ![r] = answerTx[r]]
    BY <1>1 DEF Told, ToldTx, Goto, ret, TypeOK
  <1>3. Promise!Tell(r, outcome[r], answerTx[r])
    BY <1>1, <1>2 DEF Promise!Tell, Told, ToldTx, db
  <1>4. outcome[r] \in Refusals \cup {"Ok", "Internal"}
    BY <1>1 DEF OutcomeInv, Backed, TypeOK, Outcomes
  <1>5. CASE outcome[r] = "Ok"
    <2>1. PICK i \in KeyRow(cmd[r]) :
             i.print = Fingerprint(cmd[r]) /\ i.tx = answerTx[r]
      BY <1>5 DEF OutcomeInv, Backed
    <2>2. i \in Promise!KeyRow(cmd[r]) /\ i.print = Promise!Payload(cmd[r])
      BY <2>1 DEF KeyRow, Promise!KeyRow, Fingerprint, Promise!Payload
    <2> QED
      BY <1>3, <1>5, <2>1, <2>2 DEF Promise!Acknowledge, Promise!Tell
  <1>6. CASE outcome[r] = "Internal"
    BY <1>3, <1>6 DEF Promise!Shrug, Promise!Tell, OutcomeInv, Backed
  <1>7. CASE outcome[r] \in Refusals
    <2>1. answerTx[r] = NoTx
      BY <1>7 DEF OutcomeInv, Backed, Refusals
    <2>2. \A t \in txs : t.id[1] # r
      BY <1>7 DEF BooksInv, Refusals
    <2>3. outcome[r] = "Conflict" =>
            \E i \in Promise!KeyRow(cmd[r]) : i.print # Promise!Payload(cmd[r])
      BY DEF OutcomeInv, Backed, KeyRow, Promise!KeyRow, Fingerprint,
             Promise!Payload
    <2> QED
      BY <1>3, <1>7, <2>1, <2>2, <2>3 DEF Promise!Refuse, Promise!Tell
  <1> QED
    BY <1>4, <1>5, <1>6, <1>7

LEMMA CrashLoses ==
    ASSUME IInv, Crash
    PROVE  Promise!LoseAnswers
  <1> USE DEF IInv
  <1> DEFINE lost == {r \in Requests : pc[r] \notin {"idle", "done"}}
  <1>1. lost \in SUBSET {r \in Requests : Told[r] = "None"}
    BY DEF Told
  <1>2. Told' = [r \in Requests |-> IF r \in lost THEN "Lost" ELSE Told[r]]
    BY DEF Crash, Told, OutcomeInv, Backed
  <1>3. ToldTx' = ToldTx
    BY DEF Crash, ToldTx, OutcomeInv, Backed
  <1>4. UNCHANGED <<balance, txs, idem, cmd>>
    BY DEF Crash, db
  <1> QED
    BY <1>1, <1>2, <1>3, <1>4 DEF Promise!LoseAnswers, Told, ToldTx

LEMMA NextRefines == IInv /\ [Next]_vars => [Promise!Next]_(Promise!vars)
  <1> SUFFICES ASSUME IInv, [Next]_vars
               PROVE  Promise!Next \/ UNCHANGED Promise!vars
    OBVIOUS
  <1> USE DEF IInv
  <1>1. ASSUME NEW r \in Requests, NEW p, Goto(r, p), p # "done",
               pc[r] # "done", UNCHANGED <<db, cmd, ret>>
        PROVE  UNCHANGED Promise!vars
    BY <1>1, QuietStep DEF ret
  <1>2. ASSUME NEW r \in Requests, NEW kind, NEW id, Return(r, kind, id),
               pc[r] # "done", UNCHANGED <<db, cmd>>
        PROVE  UNCHANGED Promise!vars
    BY <1>2, QuietStep DEF Return, TypeOK
  <1>3. ASSUME NEW r \in Requests, NEW kind, NEW id, Abandon(r, kind, id),
               pc[r] # "done"
        PROVE  UNCHANGED Promise!vars
    BY <1>3, AbandonIsQuiet
  <1>4. ASSUME NEW r \in Requests, Submit(r)
        PROVE  UNCHANGED Promise!vars
    BY <1>1, <1>2, <1>4 DEF Submit
  <1>5. ASSUME NEW r \in Requests,
               NewTX(r) \/ CheckParties(r) \/ LockForTransfer(r)
        PROVE  UNCHANGED Promise!vars
    BY <1>1, <1>3, <1>5 DEF NewTX, CheckParties, LockForTransfer
  <1>6. ASSUME NEW r \in Requests,
               TryCreateIdempotency(r) \/ ResolveIdempotency(r)
        PROVE  UNCHANGED Promise!vars
    BY <1>1, <1>3, <1>6 DEF TryCreateIdempotency, ResolveIdempotency, Stage
  <1>7. ASSUME NEW r \in Requests, CheckRateLimit(r)
        PROVE  UNCHANGED Promise!vars
    BY <1>1, <1>2, <1>3, <1>7 DEF CheckRateLimit
  <1>8. ASSUME NEW r \in Requests, Sub(r) \/ Add(r)
        PROVE  UNCHANGED Promise!vars
    BY <1>1, <1>3, <1>8 DEF Sub, Add, Stage
  <1>9. ASSUME NEW r \in Requests,
               \/ InsertTransaction(r) \/ UpdateStatus(r)
               \/ CompleteIdempotency(r) \/ Retry(r)
        PROVE  UNCHANGED Promise!vars
    BY <1>1, <1>3, <1>9
       DEF InsertTransaction, UpdateStatus, CompleteIdempotency, Retry, Stage
  <1>10. ASSUME NEW r \in Requests, Fail(r) \/ PgAbort(r)
         PROVE  UNCHANGED Promise!vars
    BY <1>1, <1>2, <1>3, <1>10
       DEF Fail, PgAbort, Running, Statements, InTx
  <1>11. ASSUME NEW r \in Requests, Commit(r) PROVE Promise!Next
    BY <1>11, CommitExecutes DEF Promise!Next
  <1>12. ASSUME NEW r \in Requests, Respond(r) PROVE Promise!Next
    BY <1>12, RespondTells DEF Promise!Next
  <1>13. CASE Crash
    BY <1>13, CrashLoses DEF Promise!Next
  <1>14. CASE UNCHANGED vars
    BY <1>14, SilentStep DEF vars, db, Told, ToldTx
  <1> QED
    BY <1>4, <1>5, <1>6, <1>7, <1>8, <1>9, <1>10, <1>11, <1>12, <1>13, <1>14
       DEF Next, Serve, Terminated

\* The handlers, with their locks, retries, lost answers and crashes, do only
\* what the abstract ledger allows.
THEOREM Refinement == Spec => ImplementsLedger
  BY InitRefines, NextRefines, InvariantHolds, PTL
     DEF Spec, Promise!Spec, ImplementsLedger
=============================================================================
