------------------------------- MODULE Ledger -------------------------------
(***************************************************************************)
(* What POST /transactions promises, without connections, locks, retries   *)
(* or a cache: a transfer takes effect in one indivisible step together    *)
(* with its transaction row and its Idempotency-Key, at most once for a    *)
(* key, and the answers tell the truth about it.                           *)
(***************************************************************************)
EXTENDS Naturals

CONSTANTS
    Requests, Accounts, Commands,
    MaxNumeric,        \* the largest balance
    InitialBalance,
    Attempts,          \* how a request numbers its tries
    Refusals,          \* answers that promise that nothing happened
    NoTx

VARIABLES
    balance, txs, idem,
    cmd,               \* what each request asks for
    answer,            \* what the client was told: "None", "Ok", ...
    answerTx           \* and the transaction named in an "Ok"

vars == <<balance, txs, idem, cmd, answer, answerTx>>

\* The payload an Idempotency-Key is bound to.
Payload(c) == <<c.sender, c.receiver, c.amount>>

KeyRow(c) == {i \in idem : i.sender = c.sender /\ i.key = c.key}

Init ==
    /\ balance = InitialBalance
    /\ txs = {}
    /\ idem = {}
    /\ cmd \in [Requests -> Commands]
    /\ answer = [r \in Requests |-> "None"]
    /\ answerTx = [r \in Requests |-> NoTx]

\* The whole transfer: both balances, the row and the key.
Execute(r) ==
    LET c == cmd[r] IN
    \E n \in Attempts :
        /\ answer[r] = "None"
        /\ KeyRow(c) = {}
        /\ \A t \in txs : t.id[1] # r
        /\ c.receiver \in Accounts \ {c.sender}
        /\ c.amount > 0
        /\ balance[c.sender] >= c.amount
        /\ balance[c.receiver] + c.amount <= MaxNumeric
        /\ balance' = [balance EXCEPT ![c.sender] = @ - c.amount,
                                      ![c.receiver] = @ + c.amount]
        /\ txs' = txs \cup
             {[id |-> <<r, n>>, sender |-> c.sender, receiver |-> c.receiver,
               amount |-> c.amount, status |-> "completed"]}
        /\ idem' = idem \cup
             {[sender |-> c.sender, key |-> c.key, print |-> Payload(c),
               status |-> "completed", tx |-> <<r, n>>]}
        /\ UNCHANGED <<cmd, answer, answerTx>>

Tell(r, kind, id) ==
    /\ answer[r] = "None"
    /\ answer' = [answer EXCEPT ![r] = kind]
    /\ answerTx' = [answerTx EXCEPT ![r] = id]
    /\ UNCHANGED <<balance, txs, idem, cmd>>

\* 201 with the transaction that the key and this very payload stand for.
Acknowledge(r) ==
    \E i \in KeyRow(cmd[r]) : i.print = Payload(cmd[r]) /\ Tell(r, "Ok", i.tx)

\* A refusal: this request moved nothing; a conflict has a cause.
Refuse(r) ==
    \E kind \in Refusals :
        /\ \A t \in txs : t.id[1] # r
        /\ kind = "Conflict" =>
             \E i \in KeyRow(cmd[r]) : i.print # Payload(cmd[r])
        /\ Tell(r, kind, NoTx)

\* 500: nothing is promised.
Shrug(r) == Tell(r, "Internal", NoTx)

\* A crash leaves any number of clients without an answer.
LoseAnswers ==
    \E lost \in SUBSET {r \in Requests : answer[r] = "None"} :
        /\ answer' = [r \in Requests |->
                        IF r \in lost THEN "Lost" ELSE answer[r]]
        /\ UNCHANGED <<balance, txs, idem, cmd, answerTx>>

Next ==
    \/ \E r \in Requests : Execute(r) \/ Acknowledge(r) \/ Refuse(r) \/ Shrug(r)
    \/ LoseAnswers

Spec == Init /\ [][Next]_vars
=============================================================================
