----------------------------- MODULE RateLimit -----------------------------
(***************************************************************************)
(* CheckRateLimit: sliding windows kept in Redis.                          *)
(*                                                                         *)
(* A check asks one window after the other (minute, hour, day).  It takes  *)
(* the time at the server, sends the Lua script with it, and waits; Redis  *)
(* runs each script in one step.  A command may reach Redis late, be sent  *)
(* again by the client after a network error, be lost, or take effect      *)
(* although nobody waits for the reply any more.                           *)
(***************************************************************************)
EXTENDS Naturals, FiniteSets

CONSTANTS
    Checks,     \* calls of CheckRateLimit
    Ids,        \* whom they are charged to: a user, an address, ...
    NumScales,  \* how many windows there are
    Length,     \* how long each window is
    Limit,      \* and how many requests it admits
    Slack,      \* what EXPIRE adds to the window, 10 in the script
    MaxLag,     \* how old a command may be when Redis runs it
    MaxSends    \* how often the client sends one command

Scales == 1..NumScales

\* config.validate demands positive limits.
ASSUME RateLimitAssumption ==
    /\ NumScales \in Nat \ {0}
    /\ Length \in [Scales -> Nat \ {0}]
    /\ Limit \in [Scales -> Nat \ {0}]
    /\ Slack \in Nat
    /\ MaxLag \in Nat
    /\ \A i \in Scales : MaxLag < Length[i]
    /\ MaxSends \in Nat \ {0}

VARIABLES
    clock,      \* the time, the same at Redis and at the servers
    entries,    \* the sorted set of each bucket
    expires,    \* when Redis drops it
    admitted,   \* every entry a bucket ever took: history
    id,         \* whom each check is charged to
    pc,         \* where the check is
    scale,      \* the window it is at
    stamp,      \* now, as read for that window
    sends,      \* how often the command for that window was sent
    flight,     \* commands that Redis may still run
    reply,      \* what has come back for the last copy sent
    answer      \* what CheckRateLimit returned

store == <<entries, expires, admitted>>
vars == <<clock, entries, expires, admitted, id, pc, scale, stamp, sends,
          flight, reply, answer>>

\* ratelimit:<id>:<suffix>
Buckets == Ids \X Scales

\* A member of a sorted set: requestID names the check and when it was made.
Members == [by: Checks, made: Nat, score: Nat]
Commands == [by: Checks, scale: Scales, now: Nat, copy: 1..MaxSends]

TypeOK ==
    /\ clock \in Nat
    /\ entries \in [Buckets -> SUBSET Members]
    /\ expires \in [Buckets -> Nat]
    /\ admitted \in [Buckets -> SUBSET Members]
    /\ id \in [Checks -> Ids]
    /\ pc \in [Checks -> {"check", "wait", "done"}]
    /\ scale \in [Checks -> Scales]
    /\ stamp \in [Checks -> Nat]
    /\ sends \in [Checks -> 0..MaxSends]
    /\ flight \subseteq Commands
    /\ reply \in [Checks -> {"none", "yes", "no"}]
    /\ answer \in [Checks -> {"None", "Ok", "RateLimited", "Error"}]

Init ==
    /\ clock = 0
    /\ entries = [k \in Buckets |-> {}]
    /\ expires = [k \in Buckets |-> 0]
    /\ admitted = [k \in Buckets |-> {}]
    /\ id \in [Checks -> Ids]
    /\ pc = [r \in Checks |-> "check"]
    /\ scale = [r \in Checks |-> 1]
    /\ stamp = [r \in Checks |-> 0]
    /\ sends = [r \in Checks |-> 0]
    /\ flight = {}
    /\ reply = [r \in Checks |-> "none"]
    /\ answer = [r \in Checks |-> "None"]

-----------------------------------------------------------------------------
(* The server *)

CommandOf(r, now, copy) ==
    [by |-> r, scale |-> scale[r], now |-> now, copy |-> copy]

\* checkWindow takes the time and sends the script.
Send(r) ==
    /\ pc[r] = "check"
    /\ stamp' = [stamp EXCEPT ![r] = clock]
    /\ sends' = [sends EXCEPT ![r] = 1]
    /\ flight' = flight \cup {CommandOf(r, clock, 1)}
    /\ pc' = [pc EXCEPT ![r] = "wait"]
    /\ UNCHANGED <<clock, store, id, scale, reply, answer>>

\* The client sends the same command again after a network error; the first
\* copy may have reached Redis, its reply is no longer read.
Resend(r) ==
    /\ pc[r] = "wait"
    /\ sends[r] < MaxSends
    /\ clock <= stamp[r] + MaxLag
    /\ sends' = [sends EXCEPT ![r] = @ + 1]
    /\ flight' = flight \cup {CommandOf(r, stamp[r], sends[r] + 1)}
    /\ reply' = [reply EXCEPT ![r] = "none"]
    /\ UNCHANGED <<clock, store, id, pc, scale, stamp, answer>>

Finish(r, kind) ==
    /\ pc' = [pc EXCEPT ![r] = "done"]
    /\ answer' = [answer EXCEPT ![r] = kind]
    /\ sends' = [sends EXCEPT ![r] = 0]
    /\ reply' = [reply EXCEPT ![r] = "none"]
    /\ UNCHANGED <<clock, store, id, scale, stamp, flight>>

\* The reply: refused, on to the next window, or through all of them.
Receive(r) ==
    /\ pc[r] = "wait"
    /\ \/ /\ reply[r] = "no"
          /\ Finish(r, "RateLimited")
       \/ /\ reply[r] = "yes"
          /\ scale[r] < NumScales
          /\ scale' = [scale EXCEPT ![r] = @ + 1]
          /\ pc' = [pc EXCEPT ![r] = "check"]
          /\ sends' = [sends EXCEPT ![r] = 0]
          /\ reply' = [reply EXCEPT ![r] = "none"]
          /\ UNCHANGED <<clock, store, id, stamp, flight, answer>>
       \/ /\ reply[r] = "yes"
          /\ scale[r] = NumScales
          /\ Finish(r, "Ok")

\* The context has ended or the client gives up.  What was charged stays so.
Fail(r) ==
    /\ pc[r] # "done"
    /\ Finish(r, "Error")

-----------------------------------------------------------------------------
(* Redis *)

Bucket(c) == <<id[c.by], c.scale>>

RequestIDPerRun(c) == clock   \* deviation: made by the script, not the caller

\* requestID is made before the script is sent: all copies carry it.
RequestID(c) == c.now

Member(c) == [by |-> c.by, made |-> RequestID(c), score |-> c.now]

\* What Redis still has of the sorted set.
Entries(b) == IF expires[b] <= clock THEN {} ELSE entries[b]

KeptWhole(c) == {m \in Entries(Bucket(c)) :   \* deviation: fixed windows
    m.score \div Length[c.scale] = c.now \div Length[c.scale]}

KeptAll(c) == Entries(Bucket(c))   \* deviation: no ZREMRANGEBYSCORE

\* ZREMRANGEBYSCORE key -inf now - window
Kept(c) ==
    {m \in Entries(Bucket(c)) : m.score + Length[c.scale] > c.now}

ExpiryAtWindow(c) == clock + Length[c.scale]   \* deviation: no slack

\* EXPIRE key window + 10
Expiry(c) == clock + Length[c.scale] + Slack

\* The reply reaches the check if it still waits for this very copy.
Answer(c, yesno) ==
    reply' = IF /\ pc[c.by] = "wait"
                /\ scale[c.by] = c.scale
                /\ sends[c.by] = c.copy
             THEN [reply EXCEPT ![c.by] = yesno]
             ELSE reply

\* current < limit
Admit(c) == Cardinality(Kept(c)) < Limit[c.scale]

\* The script, which Redis runs without interruption.
RunScript(c) ==
    LET b == Bucket(c) IN
    /\ flight' = flight \ {c}
    /\ \/ /\ Admit(c)
          /\ entries' = [entries EXCEPT ![b] = Kept(c) \cup {Member(c)}]
          /\ expires' = [expires EXCEPT ![b] = Expiry(c)]
          /\ admitted' = [admitted EXCEPT ![b] = @ \cup {Member(c)}]
          /\ Answer(c, "yes")
       \/ /\ ~Admit(c)
          /\ entries' = [entries EXCEPT ![b] = Kept(c)]
          /\ Answer(c, "no")
          /\ UNCHANGED <<expires, admitted>>
    /\ UNCHANGED <<clock, id, pc, scale, stamp, sends, answer>>

LoseCommand(c) ==
    /\ flight' = flight \ {c}
    /\ UNCHANGED <<clock, store, id, pc, scale, stamp, sends, reply, answer>>

\* Time passes; a command is run, or lost, before it is older than MaxLag.
Tick ==
    /\ \A c \in flight : clock < c.now + MaxLag
    /\ clock' = clock + 1
    /\ UNCHANGED <<store, id, pc, scale, stamp, sends, flight, reply, answer>>

-----------------------------------------------------------------------------

Next ==
    \/ \E r \in Checks : Send(r) \/ Resend(r) \/ Receive(r) \/ Fail(r)
    \/ \E c \in flight : RunScript(c) \/ LoseCommand(c)
    \/ Tick

Spec == Init /\ [][Next]_vars

-----------------------------------------------------------------------------
(* Properties *)

\* A window that slides over the requests by the time they were made never
\* holds more than its limit, not even when commands overtake each other: then
\* the window that is kept is shorter by the lag (checkWindow, the script).
WindowHolds(b, t) ==
    Cardinality({m \in admitted[b] :
                    /\ m.score <= t
                    /\ m.score + Length[b[2]] > t + MaxLag}) <= Limit[b[2]]

SlidingWindow ==
    \A b \in Buckets : \A m \in admitted[b] :
        \A d \in 0..Length[b[2]] : WindowHolds(b, m.score + d)

\* However often a command is repeated, and whenever the copies run, a check
\* is charged at most once for a window (requestID).
ChargedOncePerWindow ==
    \A b \in Buckets : \A m, n \in admitted[b] : m.by = n.by => m = n

\* A check that was let through has been charged for every window.
AdmittedByAll ==
    \A r \in Checks :
        answer[r] = "Ok" =>
            \A i \in Scales : \E m \in admitted[<<id[r], i>>] : m.by = r

\* Nobody is let through unpaid, nobody pays twice.
PaidOncePerWindow == ChargedOncePerWindow /\ AdmittedByAll

\* A check is refused only because of requests less than a window old: those
\* who stay below the limit are never turned away.
RefusalsAreDeserved ==
    \A r \in Checks :
        answer[r] = "RateLimited" =>
            Cardinality({m \in admitted[<<id[r], scale[r]>>] :
                            m.score + Length[scale[r]] > stamp[r]})
                >= Limit[scale[r]]

\* When Redis drops an idle bucket, no command that is still to run and at most
\* Slack old would have counted any of its entries (EXPIRE window + 10).
ExpiryForgetsNothing ==
    \A c \in flight :
        expires[Bucket(c)] <= clock /\ clock <= c.now + Slack =>
            \A m \in entries[Bucket(c)] : m.score + Length[c.scale] <= c.now

-----------------------------------------------------------------------------
(* Why they hold *)

Charged(r, i) == \E m \in admitted[<<id[r], i>>] : m.by = r

\* Copies of a command agree, and are not older than MaxLag.
FlightInv ==
    /\ \A c \in flight :
        /\ c.now <= clock
        /\ clock <= c.now + MaxLag
        /\ c.scale <= scale[c.by]
        /\ c.scale = scale[c.by] => pc[c.by] # "check" /\ c.now = stamp[c.by]
    /\ \A c, d \in flight : c.by = d.by /\ c.scale = d.scale => c.now = d.now
    /\ \A r \in Checks : stamp[r] <= clock

\* What a bucket took stands for one check, with the time all copies carry.
ChargeInv ==
    \A k \in Buckets : \A m \in admitted[k] :
        /\ id[m.by] = k[1]
        /\ k[2] <= scale[m.by]
        /\ m.made = m.score
        /\ m.score <= clock
        /\ k[2] = scale[m.by] => pc[m.by] # "check" /\ m.score = stamp[m.by]
        /\ \A c \in flight : c.by = m.by /\ c.scale = k[2] => c.now = m.score

\* A check has paid for every window it has left behind.
PathInv ==
    \A r \in Checks :
        /\ \A i \in Scales : i < scale[r] => Charged(r, i)
        /\ reply[r] = "yes" => Charged(r, scale[r])
        /\ reply[r] # "none" => pc[r] = "wait"
        /\ answer[r] # "None" => pc[r] = "done"

\* Redis still has every entry that is younger than the window.
StoreInv ==
    \A k \in Buckets :
        /\ entries[k] \subseteq admitted[k]
        /\ IsFiniteSet(admitted[k])
        /\ Cardinality(entries[k]) <= Limit[k[2]]
        /\ \A m \in entries[k] : m.score + Length[k[2]] + Slack <= expires[k]
        /\ \A m \in admitted[k] :
                m \in entries[k] \/ m.score + Length[k[2]] <= clock

RefusalInv ==
    \A r \in Checks :
        reply[r] = "no" \/ answer[r] = "RateLimited" =>
            Cardinality({m \in admitted[<<id[r], scale[r]>>] :
                            m.score + Length[scale[r]] > stamp[r]})
                >= Limit[scale[r]]

RInv ==
    /\ TypeOK
    /\ FlightInv
    /\ ChargeInv
    /\ ChargedOncePerWindow
    /\ PathInv
    /\ AdmittedByAll
    /\ StoreInv
    /\ RefusalInv
    /\ SlidingWindow
=============================================================================
