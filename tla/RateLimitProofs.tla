-------------------------- MODULE RateLimitProofs --------------------------
(***************************************************************************)
(* Theorems about RateLimit for every number of checks, identities,        *)
(* windows, limits, and every lag shorter than the windows.                *)
(***************************************************************************)
EXTENDS RateLimit, FiniteSetTheorems, TLAPS

USE RateLimitAssumption DEF Scales, Buckets

\* A window over the log of admissions, wherever it ends.
Windows == \A k \in Buckets : \A t \in Nat : WindowHolds(k, t)

Inv == RInv /\ Windows

-----------------------------------------------------------------------------
(* Values *)

\* The fields of a command and of what it asks for.
LEMMA CommandFields ==
    ASSUME TypeOK, NEW c \in flight
    PROVE  /\ c.by \in Checks
           /\ c.scale \in Scales
           /\ c.now \in Nat
           /\ Bucket(c) \in Buckets
           /\ Bucket(c)[1] = id[c.by] /\ Bucket(c)[2] = c.scale
           /\ Bucket(c) = <<id[c.by], c.scale>>
  BY DEF TypeOK, Commands, Bucket

\* A member of a sorted set has the fields of its command.
LEMMA MemberFields ==
    ASSUME TypeOK, NEW c \in flight
    PROVE  /\ Member(c) \in Members
           /\ Member(c).by = c.by
           /\ Member(c).made = c.now
           /\ Member(c).score = c.now
  BY CommandFields DEF Member, RequestID, Members

\* A command that is sent carries the check, its window and the time.
LEMMA CommandOfFields ==
    ASSUME TypeOK, NEW r \in Checks, NEW now \in Nat, NEW copy \in 1..MaxSends
    PROVE  /\ CommandOf(r, now, copy) \in Commands
           /\ CommandOf(r, now, copy).by = r
           /\ CommandOf(r, now, copy).scale = scale[r]
           /\ CommandOf(r, now, copy).now = now
  BY DEF CommandOf, Commands, TypeOK

\* Redis counts only entries of the bucket that are in the log.
LEMMA KeptFacts ==
    ASSUME TypeOK, StoreInv, NEW c \in flight
    PROVE  /\ Kept(c) \subseteq entries[Bucket(c)]
           /\ Kept(c) \subseteq admitted[Bucket(c)]
           /\ \A m \in Kept(c) : m \in Members /\ m.score + Length[c.scale] > c.now
           /\ IsFiniteSet(Kept(c))
           /\ Cardinality(Kept(c)) \in Nat
           /\ Cardinality(Kept(c)) <= Limit[c.scale]
  <1>1. Kept(c) \subseteq entries[Bucket(c)]
    BY DEF Kept, Entries
  <1>2. /\ entries[Bucket(c)] \subseteq admitted[Bucket(c)]
        /\ IsFiniteSet(admitted[Bucket(c)])
        /\ Cardinality(entries[Bucket(c)]) <= Limit[c.scale]
    BY CommandFields DEF StoreInv
  <1>3. /\ IsFiniteSet(entries[Bucket(c)])
        /\ IsFiniteSet(Kept(c))
        /\ Cardinality(Kept(c)) <= Cardinality(entries[Bucket(c)])
    BY <1>1, <1>2, FS_Subset
  <1>4. /\ Cardinality(Kept(c)) \in Nat
        /\ Cardinality(entries[Bucket(c)]) \in Nat
    BY <1>3, FS_CardinalityType
  <1>5. /\ Limit[c.scale] \in Nat
        /\ entries[Bucket(c)] \subseteq Members
    BY CommandFields DEF TypeOK
  <1>6. \A m \in Kept(c) : m.score + Length[c.scale] > c.now
    BY DEF Kept
  <1> QED
    BY <1>1, <1>2, <1>3, <1>4, <1>5, <1>6

\* What the script does to the buckets, the log and the reply.
LEMMA ScriptEffect ==
    ASSUME TypeOK, StoreInv, NEW c \in flight, RunScript(c)
    PROVE  /\ entries' \in [Buckets -> SUBSET Members]
           /\ expires' \in [Buckets -> Nat]
           /\ admitted' \in [Buckets -> SUBSET Members]
           /\ \A k \in Buckets \ {Bucket(c)} :
                /\ entries'[k] = entries[k]
                /\ expires'[k] = expires[k]
                /\ admitted'[k] = admitted[k]
           /\ \/ /\ Cardinality(Kept(c)) < Limit[c.scale]
                 /\ entries'[Bucket(c)] = Kept(c) \cup {Member(c)}
                 /\ expires'[Bucket(c)] = clock + Length[c.scale] + Slack
                 /\ admitted'[Bucket(c)] = admitted[Bucket(c)] \cup {Member(c)}
                 /\ Answer(c, "yes")
              \/ /\ Cardinality(Kept(c)) >= Limit[c.scale]
                 /\ entries'[Bucket(c)] = Kept(c)
                 /\ expires'[Bucket(c)] = expires[Bucket(c)]
                 /\ admitted'[Bucket(c)] = admitted[Bucket(c)]
                 /\ Answer(c, "no")
  <1>1. /\ Expiry(c) \in Nat
        /\ Expiry(c) = clock + Length[c.scale] + Slack
        /\ Limit[c.scale] \in Nat
    <2>1. clock \in Nat /\ c.scale \in 1..NumScales
      BY CommandFields DEF TypeOK
    <2>2. Length[c.scale] \in Nat /\ Limit[c.scale] \in Nat
      BY <2>1
    <2> QED
      BY <2>1, <2>2 DEF Expiry
  <1>2. Kept(c) \subseteq Members
    BY KeptFacts
  <1> DEFINE b == Bucket(c)
             e == Kept(c)
             m == Member(c)
             x == Expiry(c)
  <1>a. b \in Buckets /\ m \in Members /\ x \in Nat /\ e \subseteq Members
    BY <1>1, <1>2, CommandFields, MemberFields
  <1>b. Cardinality(e) \in Nat
    BY KeptFacts
  <1>3. CASE Admit(c)
    <2>1. /\ entries' = [entries EXCEPT ![b] = e \cup {m}]
          /\ expires' = [expires EXCEPT ![b] = x]
          /\ admitted' = [admitted EXCEPT ![b] = admitted[b] \cup {m}]
          /\ Answer(c, "yes")
      BY <1>3 DEF RunScript
    <2>2. Cardinality(e) < Limit[c.scale]
      BY <1>3 DEF Admit
    <2> HIDE DEF b, e, m, x
    <2>3. /\ entries' \in [Buckets -> SUBSET Members]
          /\ expires' \in [Buckets -> Nat]
          /\ admitted' \in [Buckets -> SUBSET Members]
          /\ \A k \in Buckets \ {b} :
                /\ entries'[k] = entries[k]
                /\ expires'[k] = expires[k]
                /\ admitted'[k] = admitted[k]
          /\ entries'[b] = e \cup {m}
          /\ expires'[b] = x
          /\ admitted'[b] = admitted[b] \cup {m}
      BY <2>1, <1>a DEF TypeOK
    <2> QED
      BY <2>1, <2>2, <2>3, <1>1 DEF b, e, m, x
  <1>4. CASE ~Admit(c)
    <2>1. /\ entries' = [entries EXCEPT ![b] = e]
          /\ expires' = expires /\ admitted' = admitted
          /\ Answer(c, "no")
      BY <1>4 DEF RunScript
    <2>2. Cardinality(e) >= Limit[c.scale]
      BY <1>4, <1>1, <1>b DEF Admit
    <2> HIDE DEF b, e, m, x
    <2>3. /\ entries' \in [Buckets -> SUBSET Members]
          /\ \A k \in Buckets \ {b} : entries'[k] = entries[k]
          /\ entries'[b] = e
      BY <2>1, <1>a DEF TypeOK
    <2> QED
      BY <2>1, <2>2, <2>3 DEF TypeOK, b, e, m, x
  <1> QED
    BY <1>3, <1>4

\* A reply ends the check or takes it to the next window.
LEMMA ReceiveEffect ==
    ASSUME TypeOK, NEW r \in Checks, Receive(r)
    PROVE  /\ UNCHANGED <<clock, entries, expires, admitted, id, stamp, flight>>
           /\ \A q \in Checks \ {r} :
                /\ pc'[q] = pc[q] /\ scale'[q] = scale[q]
                /\ reply'[q] = reply[q] /\ answer'[q] = answer[q]
           /\ pc[r] = "wait"
           /\ reply'[r] = "none"
           /\ \/ /\ pc'[r] = "done" /\ scale' = scale
                 /\ \/ reply[r] = "no" /\ answer'[r] = "RateLimited"
                    \/ /\ reply[r] = "yes" /\ answer'[r] = "Ok"
                       /\ scale[r] = NumScales
              \/ /\ pc'[r] = "check" /\ scale'[r] = scale[r] + 1
                 /\ scale[r] < NumScales /\ reply[r] = "yes"
                 /\ answer' = answer
  BY DEF Receive, Finish, TypeOK, store

-----------------------------------------------------------------------------
(* Types *)

\* Every step keeps the types.
LEMMA TypeStep == RInv /\ [Next]_vars => TypeOK'
  <1> SUFFICES ASSUME RInv, [Next]_vars PROVE TypeOK'
    OBVIOUS
  <1>0. TypeOK /\ StoreInv
    BY DEF RInv
  <1> USE <1>0
  <1>1. ASSUME NEW r \in Checks, Send(r) PROVE TypeOK'
    <2>1. CommandOf(r, clock, 1) \in Commands
      BY SMTT(30), CommandOfFields DEF TypeOK
    <2> QED
      BY SMTT(30), <1>1, <2>1 DEF Send, TypeOK, store
  <1>2. ASSUME NEW r \in Checks, Resend(r) PROVE TypeOK'
    <2>1. sends[r] + 1 \in 1..MaxSends /\ stamp[r] \in Nat
      BY <1>2 DEF Resend, TypeOK
    <2>2. CommandOf(r, stamp[r], sends[r] + 1) \in Commands
      BY <2>1, CommandOfFields
    <2>3. sends[r] + 1 \in 0..MaxSends
      BY <2>1
    <2>4. sends' \in [Checks -> 0..MaxSends]
      BY <1>2, <2>3 DEF Resend, TypeOK
    <2> QED
      BY <1>2, <2>2, <2>4 DEF Resend, TypeOK, store
  <1>3. ASSUME NEW r \in Checks, Receive(r) PROVE TypeOK'
    <2>1. ASSUME NEW kind \in {"Ok", "RateLimited"}, Finish(r, kind)
          PROVE  TypeOK'
      BY SMTT(30), <2>1 DEF Finish, TypeOK, store
    <2>2. CASE scale[r] < NumScales /\ scale' = [scale EXCEPT ![r] = @ + 1]
               /\ pc' = [pc EXCEPT ![r] = "check"]
               /\ sends' = [sends EXCEPT ![r] = 0]
               /\ reply' = [reply EXCEPT ![r] = "none"]
               /\ UNCHANGED <<clock, store, id, stamp, flight, answer>>
      <3>1. scale[r] + 1 \in 1..NumScales
        BY <2>2 DEF TypeOK
      <3>2. 0 \in 0..MaxSends
        OBVIOUS
      <3>3. sends' \in [Checks -> 0..MaxSends]
        BY <2>2, <3>2 DEF TypeOK
      <3> QED
        BY <2>2, <3>1, <3>3 DEF TypeOK, store
    <2> QED
      BY <1>3, <2>1, <2>2 DEF Receive
  <1>4. ASSUME NEW r \in Checks, Fail(r) PROVE TypeOK'
    BY SMTT(30), <1>4 DEF Fail, Finish, TypeOK, store
  <1>5. ASSUME NEW c \in flight, RunScript(c) PROVE TypeOK'
    <2>1. reply' \in [Checks -> {"none", "yes", "no"}]
      BY <1>5, CommandFields DEF RunScript, Answer, TypeOK
    <2> QED
      BY <1>5, <2>1, ScriptEffect DEF RunScript, TypeOK
  <1>6. ASSUME NEW c \in flight, LoseCommand(c) PROVE TypeOK'
    BY <1>6 DEF LoseCommand, TypeOK, store
  <1>7. CASE Tick
    BY <1>7 DEF Tick, TypeOK, store
  <1>8. CASE UNCHANGED vars
    BY <1>8 DEF vars, TypeOK
  <1> QED
    BY <1>1, <1>2, <1>3, <1>4, <1>5, <1>6, <1>7, <1>8 DEF Next

-----------------------------------------------------------------------------
(* Commands in flight *)

\* All copies of a command carry the time its check read, and are young.
LEMMA FlightStep == RInv /\ [Next]_vars => FlightInv'
  <1> SUFFICES ASSUME RInv, [Next]_vars PROVE FlightInv'
    OBVIOUS
  <1>0. TypeOK /\ FlightInv /\ PathInv
    BY DEF RInv
  <1>a. \A c \in flight : c.by \in Checks /\ c.scale \in Scales /\ c.now \in Nat
    BY <1>0, CommandFields
  <1> USE <1>0, <1>a
  <1>1. ASSUME NEW r \in Checks, Send(r) PROVE FlightInv'
    <2> DEFINE n == CommandOf(r, clock, 1)
    <2>0. clock \in Nat /\ 1 \in 1..MaxSends
      BY DEF TypeOK
    <2>1. n.by = r /\ n.scale = scale[r] /\ n.now = clock
      BY DEF CommandOf
    <2>2. /\ flight' = flight \cup {n}
          /\ clock' = clock /\ scale' = scale /\ pc[r] = "check"
          /\ pc' = [pc EXCEPT ![r] = "wait"]
          /\ stamp' = [stamp EXCEPT ![r] = clock]
      BY <1>1 DEF Send
    <2>3. \A c \in flight : c.by = r => c.scale # scale[r]
      BY <2>2 DEF FlightInv
    <2> HIDE DEF n
    <2>4. /\ \A q \in Checks : q # r => pc'[q] = pc[q] /\ stamp'[q] = stamp[q]
          /\ pc'[r] = "wait" /\ stamp'[r] = clock
      BY <2>2 DEF TypeOK
    <2>5. \A c \in flight' :
            /\ c.now <= clock /\ clock <= c.now + MaxLag
            /\ c.scale <= scale[c.by]
            /\ c.scale = scale[c.by] => pc'[c.by] # "check" /\ c.now = stamp'[c.by]
      <3>1. ASSUME NEW c \in flight
            PROVE  /\ c.now <= clock /\ clock <= c.now + MaxLag
                   /\ c.scale <= scale[c.by]
                   /\ c.scale = scale[c.by] =>
                        pc'[c.by] # "check" /\ c.now = stamp'[c.by]
        BY <2>3, <2>4 DEF FlightInv
      <3>2. clock \in Nat /\ scale[r] \in Nat
        BY DEF TypeOK
      <3> QED
        BY <2>1, <2>2, <2>4, <3>1, <3>2
    <2>6. \A c, d \in flight' : c.by = d.by /\ c.scale = d.scale => c.now = d.now
      BY <2>1, <2>2, <2>3 DEF FlightInv
    <2>7. \A q \in Checks : stamp'[q] <= clock
      <3>1. \A q \in Checks : stamp[q] <= clock
        BY DEF FlightInv
      <3> QED
        BY <2>0, <2>4, <3>1
    <2> QED
      BY <2>2, <2>5, <2>6, <2>7 DEF FlightInv
  <1>2. ASSUME NEW r \in Checks, Resend(r) PROVE FlightInv'
    <2> DEFINE n == CommandOf(r, stamp[r], sends[r] + 1)
    <2>1. sends[r] + 1 \in 1..MaxSends /\ stamp[r] \in Nat
      BY <1>2 DEF Resend, TypeOK
    <2>2. n.by = r /\ n.scale = scale[r] /\ n.now = stamp[r]
      BY <2>1, CommandOfFields
    <2>3. /\ flight' = flight \cup {n} /\ clock' = clock /\ scale' = scale
          /\ pc' = pc /\ stamp' = stamp /\ pc[r] = "wait"
          /\ clock <= stamp[r] + MaxLag
      BY <1>2 DEF Resend
    <2>4. \A c \in flight : c.by = r /\ c.scale = scale[r] => c.now = stamp[r]
      BY DEF FlightInv
    <2> HIDE DEF n
    <2> QED
      BY SMTT(30), <2>2, <2>3, <2>4 DEF FlightInv, TypeOK
  <1>3. ASSUME NEW r \in Checks, Receive(r) PROVE FlightInv'
    <2>1. /\ clock' = clock /\ stamp' = stamp /\ flight' = flight
          /\ \A q \in Checks \ {r} : pc'[q] = pc[q] /\ scale'[q] = scale[q]
          /\ \/ pc'[r] = "done" /\ scale'[r] = scale[r]
             \/ scale'[r] = scale[r] + 1
      BY <1>3, ReceiveEffect
    <2>2. \A q \in Checks : scale[q] \in Nat /\ scale'[q] \in Nat
      <3>1. \A q \in Checks : scale[q] \in Nat
        BY DEF TypeOK
      <3> QED
        BY SMTT(30), <2>1, <3>1
    <2>3. ASSUME NEW c \in flight
          PROVE  /\ c.now <= clock /\ clock <= c.now + MaxLag
                 /\ c.scale <= scale'[c.by]
                 /\ c.scale = scale'[c.by] =>
                      pc'[c.by] # "check" /\ c.now = stamp[c.by]
      <3>1. /\ c.scale <= scale[c.by] /\ c.scale \in Nat
            /\ c.now <= clock /\ clock <= c.now + MaxLag
            /\ c.scale = scale[c.by] => pc[c.by] # "check" /\ c.now = stamp[c.by]
        BY DEF FlightInv
      <3>2. CASE c.by # r
        BY <2>1, <3>1, <3>2
      <3>3. CASE c.by = r
        BY <2>1, <2>2, <3>1, <3>3
      <3> QED
        BY <3>2, <3>3
    <2> QED
      BY <2>1, <2>3 DEF FlightInv
  <1>4. ASSUME NEW r \in Checks, Fail(r) PROVE FlightInv'
    BY <1>4 DEF Fail, Finish, FlightInv, TypeOK, store
  <1>5. ASSUME NEW c \in flight, RunScript(c) \/ LoseCommand(c)
        PROVE  FlightInv'
    <2>1. /\ flight' \subseteq flight
          /\ UNCHANGED <<clock, pc, scale, stamp>>
      BY <1>5 DEF RunScript, LoseCommand
    <2> QED
      BY <2>1 DEF FlightInv, TypeOK
  <1>6. CASE Tick
    <2>1. /\ UNCHANGED <<flight, pc, scale, stamp>>
          /\ clock' = clock + 1 /\ clock \in Nat
          /\ \A c \in flight : clock < c.now + MaxLag
      BY <1>6 DEF Tick, TypeOK
    <2>2. ASSUME NEW c \in flight
          PROVE  c.now <= clock' /\ clock' <= c.now + MaxLag
      <3>1. c.now \in Nat /\ c.now <= clock
        BY DEF FlightInv, TypeOK, Commands
      <3>2. MaxLag \in Nat
        BY DEF RateLimitAssumption
      <3> QED
        BY <2>1, <3>1, <3>2
    <2>3. ASSUME NEW r \in Checks
          PROVE  stamp[r] <= clock'
      <3>1. stamp[r] \in Nat /\ stamp[r] <= clock
        BY DEF FlightInv, TypeOK
      <3> QED
        BY <2>1, <3>1
    <2> QED
      BY <2>1, <2>2, <2>3 DEF FlightInv
  <1>7. CASE UNCHANGED vars
    BY <1>7 DEF vars, FlightInv
  <1> QED
    BY <1>1, <1>2, <1>3, <1>4, <1>5, <1>6, <1>7 DEF Next

-----------------------------------------------------------------------------
(* What the buckets have taken *)

\* A charge stands for one check, and every copy of its command agrees.
LEMMA ChargeStep == RInv /\ [Next]_vars => ChargeInv' /\ ChargedOncePerWindow'
  <1> SUFFICES ASSUME RInv, [Next]_vars
               PROVE  ChargeInv' /\ ChargedOncePerWindow'
    OBVIOUS
  <1>0. /\ TypeOK /\ StoreInv /\ FlightInv /\ ChargeInv
        /\ ChargedOncePerWindow /\ PathInv
    BY DEF RInv
  <1> USE <1>0
  <1>a. /\ \A c \in flight : c.by \in Checks /\ c.scale \in Scales /\ c.now \in Nat
        /\ \A k \in Buckets : \A m \in admitted[k] :
              m.by \in Checks /\ m.score \in Nat
        /\ \A q \in Checks : scale[q] \in Nat
        /\ clock \in Nat
    <2>1. \A c \in flight : c.by \in Checks /\ c.scale \in Scales /\ c.now \in Nat
      BY CommandFields
    <2>2. \A k \in Buckets : \A m \in admitted[k] :
             m.by \in Checks /\ m.score \in Nat
      BY SMTT(30) DEF TypeOK, Members
    <2>3. (\A q \in Checks : scale[q] \in Nat) /\ clock \in Nat
      BY DEF TypeOK
    <2> QED
      BY <2>1, <2>2, <2>3
  <1>1. ASSUME NEW r \in Checks, Send(r)
        PROVE  ChargeInv' /\ ChargedOncePerWindow'
    <2> DEFINE n == CommandOf(r, clock, 1)
    <2>1. n.by = r /\ n.scale = scale[r] /\ n.now = clock
      BY DEF CommandOf
    <2>2. /\ flight' = flight \cup {n} /\ pc[r] = "check"
          /\ clock' = clock /\ scale' = scale /\ id' = id /\ admitted' = admitted
      BY <1>1 DEF Send, store
    <2> HIDE DEF n
    <2>3. /\ \A q \in Checks : q # r => pc'[q] = pc[q] /\ stamp'[q] = stamp[q]
          /\ pc'[r] = "wait"
      BY <1>1 DEF Send, TypeOK
    <2>4. ASSUME NEW k \in Buckets, NEW m \in admitted[k]
          PROVE  /\ id[m.by] = k[1] /\ k[2] <= scale[m.by]
                 /\ m.made = m.score /\ m.score <= clock
                 /\ k[2] = scale[m.by] =>
                      pc'[m.by] # "check" /\ m.score = stamp'[m.by]
                 /\ \A c \in flight' :
                      c.by = m.by /\ c.scale = k[2] => c.now = m.score
      <3>1. /\ id[m.by] = k[1] /\ k[2] <= scale[m.by]
            /\ m.made = m.score /\ m.score <= clock /\ m.by \in Checks
            /\ k[2] = scale[m.by] =>
                 pc[m.by] # "check" /\ m.score = stamp[m.by]
            /\ \A c \in flight :
                 c.by = m.by /\ c.scale = k[2] => c.now = m.score
        BY <1>a DEF ChargeInv
      <3>2. m.by = r => k[2] # scale[r]
        BY <2>2, <3>1
      <3> QED
        BY <2>1, <2>2, <2>3, <3>1, <3>2
    <2> QED
      BY <2>2, <2>4 DEF ChargeInv, ChargedOncePerWindow
  <1>2. ASSUME NEW r \in Checks, Resend(r)
        PROVE  ChargeInv' /\ ChargedOncePerWindow'
    <2> DEFINE n == CommandOf(r, stamp[r], sends[r] + 1)
    <2>1. n.by = r /\ n.scale = scale[r] /\ n.now = stamp[r]
      BY DEF CommandOf
    <2>2. /\ flight' = flight \cup {n} /\ pc' = pc /\ stamp' = stamp
          /\ clock' = clock /\ scale' = scale /\ id' = id /\ admitted' = admitted
      BY <1>2 DEF Resend, store
    <2> HIDE DEF n
    <2> QED
      BY <2>1, <2>2 DEF ChargeInv, ChargedOncePerWindow
  <1>3. ASSUME NEW r \in Checks, Receive(r)
        PROVE  ChargeInv' /\ ChargedOncePerWindow'
    <2>1. /\ clock' = clock /\ stamp' = stamp /\ flight' = flight /\ id' = id
          /\ admitted' = admitted
          /\ \A q \in Checks \ {r} : pc'[q] = pc[q] /\ scale'[q] = scale[q]
          /\ \/ pc'[r] = "done" /\ scale'[r] = scale[r]
             \/ scale'[r] = scale[r] + 1
      BY <1>3, ReceiveEffect
    <2>2. ASSUME NEW k \in Buckets, NEW m \in admitted[k]
          PROVE  /\ k[2] <= scale'[m.by]
                 /\ k[2] = scale'[m.by] =>
                      pc'[m.by] # "check" /\ m.score = stamp[m.by]
      <3>1. /\ k[2] <= scale[m.by] /\ k[2] \in Nat /\ m.by \in Checks
            /\ k[2] = scale[m.by] =>
                 pc[m.by] # "check" /\ m.score = stamp[m.by]
        BY <1>a DEF ChargeInv
      <3>2. CASE m.by # r
        BY <2>1, <3>1, <3>2
      <3>3. CASE m.by = r
        BY <1>a, <2>1, <3>1, <3>3
      <3> QED
        BY <3>2, <3>3
    <2> QED
      BY <2>1, <2>2 DEF ChargeInv, ChargedOncePerWindow
  <1>4. ASSUME NEW r \in Checks, Fail(r)
        PROVE  ChargeInv' /\ ChargedOncePerWindow'
    <2>1. /\ clock' = clock /\ stamp' = stamp /\ flight' = flight /\ id' = id
          /\ admitted' = admitted /\ scale' = scale
          /\ \A q \in Checks : pc'[q] = pc[q] \/ pc'[q] = "done"
      BY <1>4 DEF Fail, Finish, store, TypeOK
    <2>2. \A k \in Buckets : \A m \in admitted[k] :
             k[2] = scale[m.by] => pc'[m.by] # "check"
      BY <1>a, <2>1 DEF ChargeInv
    <2> QED
      BY <2>1, <2>2 DEF ChargeInv, ChargedOncePerWindow
  <1>5. ASSUME NEW c \in flight, RunScript(c)
        PROVE  ChargeInv' /\ ChargedOncePerWindow'
    <2> DEFINE b == Bucket(c)
               n == Member(c)
    <2>1. /\ flight' \subseteq flight
          /\ UNCHANGED <<clock, id, pc, scale, stamp>>
      BY <1>5 DEF RunScript
    <2>2. /\ b \in Buckets /\ b[1] = id[c.by] /\ b[2] = c.scale
          /\ n.by = c.by /\ n.made = c.now /\ n.score = c.now
      BY CommandFields, MemberFields
    <2>3. \A k \in Buckets :
             \A m \in admitted'[k] : m \in admitted[k] \/ (k = b /\ m = n)
      BY <1>5, ScriptEffect
    <2> HIDE DEF b, n
    <2>4. /\ c.scale <= scale[c.by] /\ c.now <= clock
          /\ c.scale = scale[c.by] => pc[c.by] # "check" /\ c.now = stamp[c.by]
          /\ \A d \in flight : d.by = c.by /\ d.scale = c.scale => d.now = c.now
      BY DEF FlightInv
    <2>5. ChargeInv'
      <3>1. ASSUME NEW k \in Buckets, NEW m \in admitted[k]
            PROVE  /\ id[m.by] = k[1] /\ k[2] <= scale[m.by]
                   /\ m.made = m.score /\ m.score <= clock
                   /\ k[2] = scale[m.by] =>
                        pc[m.by] # "check" /\ m.score = stamp[m.by]
                   /\ \A d \in flight' :
                        d.by = m.by /\ d.scale = k[2] => d.now = m.score
        BY <2>1 DEF ChargeInv
      <3>2. /\ id[n.by] = b[1] /\ b[2] <= scale[n.by]
            /\ n.made = n.score /\ n.score <= clock
            /\ b[2] = scale[n.by] =>
                 pc[n.by] # "check" /\ n.score = stamp[n.by]
            /\ \A d \in flight' :
                 d.by = n.by /\ d.scale = b[2] => d.now = n.score
        BY <2>1, <2>2, <2>4
      <3> QED
        BY <2>1, <2>3, <3>1, <3>2 DEF ChargeInv
    <2>6. ChargedOncePerWindow'
      <3>1. n \in Members /\ n.made = n.score
        BY <2>2, MemberFields DEF n
      <3>2. ASSUME NEW m \in admitted[b], m.by = n.by
            PROVE  m = n
        <4>1. m.score = n.score /\ m.made = m.score
          BY <2>2, <3>2 DEF ChargeInv
        <4>2. m \in Members
          BY <2>2 DEF TypeOK
        <4> QED
          BY <3>1, <3>2, <4>1, <4>2 DEF Members
      <3> QED
        BY <2>3, <3>2 DEF ChargedOncePerWindow
    <2> QED
      BY <2>5, <2>6
  <1>6. ASSUME NEW c \in flight, LoseCommand(c)
        PROVE  ChargeInv' /\ ChargedOncePerWindow'
    BY <1>6 DEF LoseCommand, store, ChargeInv, ChargedOncePerWindow
  <1>7. CASE Tick
    <2>1. /\ clock' = clock + 1
          /\ UNCHANGED <<id, pc, scale, stamp, flight, admitted>>
      BY <1>7 DEF Tick, store
    <2>2. \A k \in Buckets : \A m \in admitted[k] : m.score <= clock + 1
      BY <1>a DEF ChargeInv
    <2> QED
      BY <2>1, <2>2 DEF ChargeInv, ChargedOncePerWindow
  <1>8. CASE UNCHANGED vars
    BY <1>8 DEF vars, ChargeInv, ChargedOncePerWindow
  <1> QED
    BY <1>1, <1>2, <1>3, <1>4, <1>5, <1>6, <1>7, <1>8 DEF Next

-----------------------------------------------------------------------------
(* What a check has paid *)

\* The log only grows, and nobody changes whom a check is charged to.
LEMMA LogGrows ==
    ASSUME RInv, [Next]_vars
    PROVE  /\ id' = id
           /\ \A k \in Buckets : admitted[k] \subseteq admitted'[k]
  <1>0. TypeOK /\ StoreInv
    BY DEF RInv
  <1>1. ASSUME NEW c \in flight, RunScript(c)
        PROVE  id' = id /\ \A k \in Buckets : admitted[k] \subseteq admitted'[k]
    <2>1. \A k \in Buckets : admitted[k] \subseteq admitted'[k]
      BY <1>0, <1>1, ScriptEffect
    <2> QED
      BY <1>1, <2>1 DEF RunScript
  <1>2. ASSUME ~\E c \in flight : RunScript(c)
        PROVE  id' = id /\ admitted' = admitted
    BY <1>2 DEF Next, vars, store, Send, Resend, Receive, Finish, Fail,
               LoseCommand, Tick
  <1> QED
    BY <1>1, <1>2

\* What has been paid stays paid.
LEMMA PaidForGood ==
    ASSUME RInv, [Next]_vars, NEW r \in Checks, NEW i \in Scales, Charged(r, i)
    PROVE  Charged(r, i)'
  <1>1. <<id[r], i>> \in Buckets
    BY DEF RInv, TypeOK
  <1> QED
    BY <1>1, LogGrows DEF Charged

\* A check gets past a window only by paying for it.
LEMMA PathStep == RInv /\ [Next]_vars => PathInv' /\ AdmittedByAll'
  <1> SUFFICES ASSUME RInv, [Next]_vars PROVE PathInv' /\ AdmittedByAll'
    OBVIOUS
  <1>0. TypeOK /\ StoreInv /\ FlightInv /\ PathInv /\ AdmittedByAll
    BY DEF RInv
  <1> USE <1>0
  <1> DEFINE Path(q) ==
               /\ \A i \in Scales : i < scale'[q] => Charged(q, i)'
               /\ reply'[q] = "yes" => Charged(q, scale[q])'
               /\ reply'[q] # "none" => pc'[q] = "wait"
               /\ answer'[q] # "None" => pc'[q] = "done"
               /\ answer'[q] = "Ok" => \A i \in Scales : Charged(q, i)'
  <1> SUFFICES ASSUME NEW q \in Checks PROVE Path(q)
    <2>1. \A p \in Checks : Path(p)
      OBVIOUS
    <2> QED
      BY <2>1 DEF PathInv, AdmittedByAll, Charged
  <1>a. /\ \A i \in Scales : i < scale[q] => Charged(q, i)
        /\ reply[q] = "yes" => Charged(q, scale[q])
        /\ reply[q] # "none" => pc[q] = "wait"
        /\ answer[q] # "None" => pc[q] = "done"
        /\ answer[q] = "Ok" => \A i \in Scales : Charged(q, i)
        /\ scale[q] \in Scales
    BY DEF PathInv, AdmittedByAll, Charged, TypeOK
  <1>b. \A i \in Scales : Charged(q, i) => Charged(q, i)'
    BY PaidForGood
  <1>c. CASE /\ scale'[q] = scale[q] /\ answer'[q] = answer[q]
             /\ reply'[q] \in {"none", reply[q]}
             /\ pc'[q] = pc[q] \/ (pc[q] = "check" /\ pc'[q] = "wait")
    <2>1. reply'[q] = "yes" => Charged(q, scale[q])'
      BY <1>a, <1>b, <1>c
    <2>2. \A i \in Scales : i < scale'[q] => Charged(q, i)'
      BY <1>a, <1>b, <1>c
    <2> QED
      BY <1>a, <1>b, <1>c, <2>1, <2>2
  <1>1. ASSUME NEW r \in Checks, Send(r) PROVE Path(q)
    BY <1>1, <1>c DEF Send, TypeOK
  <1>2. ASSUME NEW r \in Checks, Resend(r) PROVE Path(q)
    BY <1>2, <1>c DEF Resend, TypeOK
  <1>3. ASSUME NEW r \in Checks, Receive(r) PROVE Path(q)
    <2>1. CASE q # r
      BY <1>3, <1>c, <2>1, ReceiveEffect
    <2>2. CASE q = r /\ answer'[q] = "RateLimited" /\ scale' = scale
      BY <1>3, <1>a, <1>b, <2>2, ReceiveEffect
    <2>3. CASE q = r /\ answer'[q] = "Ok" /\ scale' = scale /\ scale[q] = NumScales
      <3>1. Charged(q, NumScales)
        BY <1>3, <1>a, <2>3, ReceiveEffect
      <3>2. \A i \in Scales : Charged(q, i)
        BY <1>a, <2>3, <3>1
      <3> QED
        BY <1>3, <1>b, <2>3, <3>2, ReceiveEffect
    <2>4. CASE q = r /\ scale'[q] = scale[q] + 1
      <3>1. reply[q] = "yes" /\ pc[q] = "wait" /\ answer' = answer /\ reply'[q] = "none"
        <4>1. scale[q] \in Nat
          BY DEF TypeOK
        <4>2. scale' # scale
          BY <2>4, <4>1
        <4> QED
          BY <1>3, <2>4, <4>2, ReceiveEffect
      <3>2. \A i \in Scales : i < scale'[q] => Charged(q, i)
        BY <1>a, <2>4, <3>1
      <3> QED
        BY <1>a, <1>b, <3>1, <3>2
    <2> QED
      BY <1>3, <2>1, <2>2, <2>3, <2>4, ReceiveEffect
  <1>4. ASSUME NEW r \in Checks, Fail(r) PROVE Path(q)
    <2>1. CASE q # r
      BY <1>4, <1>c, <2>1 DEF Fail, Finish, TypeOK
    <2>2. CASE q = r
      <3>1. /\ scale'[q] = scale[q] /\ reply'[q] = "none" /\ pc'[q] = "done"
            /\ answer'[q] = "Error"
        BY <1>4, <2>2 DEF Fail, Finish, TypeOK
      <3> QED
        BY <1>a, <1>b, <3>1
    <2> QED
      BY <2>1, <2>2
  <1>5. ASSUME NEW c \in flight, RunScript(c) PROVE Path(q)
    <2>0. /\ pc' = pc /\ scale' = scale /\ answer' = answer
          /\ c.by \in Checks /\ c.scale \in Scales
      BY <1>5, CommandFields DEF RunScript
    <2>1. CASE reply'[q] \in {"none", reply[q]}
      BY <1>c, <2>0, <2>1
    <2>2. CASE reply'[q] \notin {"none", reply[q]}
      <3>1. q = c.by /\ pc[q] = "wait" /\ scale[q] = c.scale
        BY ZenonT(40), <1>5, <2>0, <2>2, ScriptEffect DEF Answer, TypeOK
      <3>2. reply'[q] = "yes" => Member(c) \in admitted'[Bucket(c)]
        BY ZenonT(40), <1>5, <2>0, <2>2, <3>1, ScriptEffect DEF Answer, TypeOK
      <3>3. reply'[q] = "yes" => Charged(q, scale[q])'
        BY <2>0, <3>1, <3>2, CommandFields, MemberFields, LogGrows DEF Charged
      <3> QED
        BY <1>a, <1>b, <2>0, <3>1, <3>3
    <2> QED
      BY <2>1, <2>2
  <1>6. ASSUME NEW c \in flight, LoseCommand(c) PROVE Path(q)
    BY <1>6, <1>c DEF LoseCommand
  <1>7. CASE Tick
    BY <1>7, <1>c DEF Tick
  <1>8. CASE UNCHANGED vars
    BY <1>8, <1>c DEF vars
  <1> QED
    BY <1>1, <1>2, <1>3, <1>4, <1>5, <1>6, <1>7, <1>8 DEF Next

-----------------------------------------------------------------------------
(* The buckets *)

\* Redis drops and trims only entries that are older than their window.
LEMMA StoreStep == RInv /\ [Next]_vars => StoreInv'
  <1> SUFFICES ASSUME RInv, [Next]_vars PROVE StoreInv'
    OBVIOUS
  <1>0. TypeOK /\ StoreInv /\ FlightInv /\ ChargeInv
    BY DEF RInv
  <1> USE <1>0
  <1>a. clock \in Nat
    BY DEF TypeOK
  <1>b. \A k \in Buckets :
          /\ Length[k[2]] \in Nat \ {0}
          /\ Limit[k[2]] \in Nat \ {0}
          /\ \A m \in admitted[k] : m.score \in Nat
    BY DEF TypeOK, Members
  <1>1. ASSUME entries' = entries, expires' = expires, admitted' = admitted,
               clock' \in {clock, clock + 1}
        PROVE  StoreInv'
    <2>1. ASSUME NEW k \in Buckets, NEW m \in admitted[k]
          PROVE  m \in entries[k] \/ m.score + Length[k[2]] <= clock'
      <3>1. m \in entries[k] \/ m.score + Length[k[2]] <= clock
        BY DEF StoreInv
      <3>2. m.score + Length[k[2]] \in Nat
        BY <1>b
      <3> QED
        BY <1>1, <1>a, <3>1, <3>2
    <2> QED
      BY <1>1, <2>1 DEF StoreInv
  <1>2. ASSUME NEW c \in flight, RunScript(c) PROVE StoreInv'
    <2> DEFINE b == Bucket(c)
               n == Member(c)
               e == Kept(c)
    <2>1. clock' = clock
      BY <1>2 DEF RunScript
    <2>2. /\ b \in Buckets /\ b[2] = c.scale
          /\ n.score = c.now /\ c.now \in Nat /\ c.now <= clock
      BY CommandFields, MemberFields DEF FlightInv
    <2>3. /\ e \subseteq admitted[b] /\ e \subseteq entries[b]
          /\ IsFiniteSet(e) /\ Cardinality(e) \in Nat
          /\ Cardinality(e) <= Limit[b[2]]
      BY <2>2, KeptFacts
    <2>4. \A m \in admitted[b] : m \in e \/ m.score + Length[b[2]] <= clock
      <3> SUFFICES ASSUME NEW m \in admitted[b], m.score + Length[b[2]] > clock
                   PROVE  m \in e
        BY <1>a, <1>b, <2>2
      <3>1. m \in entries[b] /\ m.score + Length[b[2]] + Slack <= expires[b]
        BY <1>a, <1>b, <2>2 DEF StoreInv
      <3>2. ~(expires[b] <= clock)
        <4>1. expires[b] \in Nat /\ m.score \in Nat /\ Length[b[2]] \in Nat
          BY <1>b, <2>2 DEF TypeOK
        <4> QED
          BY SMTT(30), <1>a, <3>1, <4>1
      <3>3. m.score + Length[b[2]] > c.now
        BY <1>a, <1>b, <2>2
      <3> QED
        BY <2>2, <3>1, <3>2, <3>3 DEF Kept, Entries
    <2>7. ASSUME /\ entries'[b] \subseteq admitted'[b]
                 /\ IsFiniteSet(admitted'[b])
                 /\ Cardinality(entries'[b]) <= Limit[b[2]]
                 /\ \A m \in entries'[b] :
                       m.score + Length[b[2]] + Slack <= expires'[b]
                 /\ \A m \in admitted'[b] :
                       m \in entries'[b] \/ m.score + Length[b[2]] <= clock
          PROVE  StoreInv'
      <3>1. \A k \in Buckets \ {b} :
              /\ entries'[k] = entries[k]
              /\ expires'[k] = expires[k]
              /\ admitted'[k] = admitted[k]
        BY <1>2, ScriptEffect
      <3> HIDE DEF b
      <3> SUFFICES ASSUME NEW k \in Buckets
                   PROVE  /\ entries'[k] \subseteq admitted'[k]
                          /\ IsFiniteSet(admitted'[k])
                          /\ Cardinality(entries'[k]) <= Limit[k[2]]
                          /\ \A m \in entries'[k] :
                                m.score + Length[k[2]] + Slack <= expires'[k]
                          /\ \A m \in admitted'[k] :
                                \/ m \in entries'[k]
                                \/ m.score + Length[k[2]] <= clock
        BY <2>1 DEF StoreInv
      <3>2. CASE k = b
        BY <2>7, <3>2
      <3>3. CASE k # b
        BY <3>1, <3>3 DEF StoreInv
      <3> QED
        BY <3>2, <3>3
    <2>5. CASE /\ Cardinality(e) < Limit[b[2]]
               /\ entries'[b] = e \cup {n}
               /\ expires'[b] = clock + Length[b[2]] + Slack
               /\ admitted'[b] = admitted[b] \cup {n}
      <3>1. entries'[b] \subseteq admitted'[b]
        BY <2>3, <2>5
      <3>2. IsFiniteSet(admitted'[b])
        <4>1. IsFiniteSet(admitted[b])
          BY <2>2 DEF StoreInv
        <4> HIDE DEF b, n
        <4>2. IsFiniteSet(admitted[b] \cup {n})
          BY <4>1, FS_AddElement
        <4> QED
          BY <2>5, <4>2
      <3>3. Cardinality(entries'[b]) <= Limit[b[2]]
        <4>1. Cardinality(e \cup {n}) \in {Cardinality(e), Cardinality(e) + 1}
          BY <2>3, FS_AddElement
        <4>2. Limit[b[2]] \in Nat
          BY <1>b, <2>2
        <4> HIDE DEF e, n
        <4> QED
          BY <2>3, <2>5, <4>1, <4>2
      <3>4. \A m \in entries'[b] : m.score + Length[b[2]] + Slack <= expires'[b]
        <4>1. ASSUME NEW m \in e \cup {n}
              PROVE  m.score <= clock /\ m.score \in Nat
          BY <1>b, <2>2, <2>3 DEF ChargeInv
        <4>2. Length[b[2]] \in Nat
          BY <1>b, <2>2
        <4> HIDE DEF b, e, n
        <4> QED
          BY SMTT(30), <1>a, <2>5, <4>1, <4>2
      <3>5. \A m \in admitted'[b] :
               m \in entries'[b] \/ m.score + Length[b[2]] <= clock
        BY <2>4, <2>5
      <3> QED
        BY <2>7, <3>1, <3>2, <3>3, <3>4, <3>5
    <2>6. CASE entries'[b] = e /\ expires'[b] = expires[b]
               /\ admitted'[b] = admitted[b]
      <3>1. /\ IsFiniteSet(admitted[b])
            /\ \A m \in e : m.score + Length[b[2]] + Slack <= expires[b]
        BY <2>2, <2>3 DEF StoreInv
      <3> QED
        BY <2>3, <2>4, <2>6, <2>7, <3>1
    <2> QED
      BY <1>2, <2>2, <2>5, <2>6, ScriptEffect
  <1>3. ASSUME ~\E c \in flight : RunScript(c) PROVE StoreInv'
    <2>1. /\ entries' = entries /\ expires' = expires /\ admitted' = admitted
          /\ clock' \in {clock, clock + 1}
      BY <1>3 DEF Next, vars, store, Send, Resend, Receive, Finish, Fail,
                 LoseCommand, Tick
    <2> QED
      BY <1>1, <2>1
  <1> QED
    BY <1>2, <1>3

\* The heart of the matter: what a window of the log holds besides the new
\* entry is still in Redis, so the script has counted it.
LEMMA WindowsStep == Inv /\ [Next]_vars => Windows'
  <1> SUFFICES ASSUME Inv, [Next]_vars, NEW k \in Buckets, NEW t \in Nat
               PROVE  WindowHolds(k, t)'
    BY DEF Windows
  <1>0. TypeOK /\ StoreInv /\ FlightInv /\ WindowHolds(k, t)
    BY DEF Inv, RInv, Windows
  <1> USE <1>0
  <1> DEFINE W(S) == {m \in S : m.score <= t /\ m.score + Length[k[2]] > t + MaxLag}
  <1>1. CASE admitted'[k] = admitted[k]
    BY <1>1 DEF WindowHolds
  <1>2. ASSUME admitted'[k] # admitted[k]
        PROVE  WindowHolds(k, t)'
    <2>1. PICK c \in flight : RunScript(c)
      BY <1>2 DEF Next, vars, store, Send, Resend, Receive, Finish, Fail,
                 LoseCommand, Tick
    <2> DEFINE n == Member(c)
               e == Kept(c)
    <2>2. /\ k = Bucket(c) /\ k[2] = c.scale
          /\ Cardinality(e) < Limit[k[2]]
          /\ admitted'[k] = admitted[k] \cup {n}
      BY <1>2, <2>1, ScriptEffect, CommandFields
    <2>3. /\ n.score = c.now /\ c.now \in Nat /\ clock <= c.now + MaxLag
          /\ c.now <= clock /\ clock \in Nat
      BY CommandFields, MemberFields DEF FlightInv, TypeOK
    <2>4. CASE ~(n.score <= t /\ n.score + Length[k[2]] > t + MaxLag)
      <3>1. W(admitted'[k]) = W(admitted[k])
        BY <2>2, <2>4
      <3> QED
        BY <3>1 DEF WindowHolds
    <2>5. CASE n.score <= t /\ n.score + Length[k[2]] > t + MaxLag
      <3>1. W(admitted'[k]) \subseteq e \cup {n}
        <4> SUFFICES ASSUME NEW m \in admitted[k], m.score <= t,
                            m.score + Length[k[2]] > t + MaxLag
                     PROVE  m \in e
          BY <2>2
        <4>1. /\ m.score \in Nat /\ Length[k[2]] \in Nat
              /\ expires[k] \in Nat
          BY DEF TypeOK, Members
        <4>2. m.score + Length[k[2]] > clock
          <5>1. /\ n.score = c.now /\ c.now \in Nat /\ c.now <= t
                /\ clock \in Nat /\ clock <= c.now + MaxLag
            BY <2>3, <2>5
          <5>2. MaxLag \in Nat
            BY DEF RateLimitAssumption
          <5> HIDE DEF n
          <5> QED
            BY SMTT(30), <4>1, <5>1, <5>2
        <4>3. m \in entries[k]
          <5>1. m \in entries[k] \/ m.score + Length[k[2]] <= clock
            BY DEF StoreInv
          <5> QED
            BY <2>3, <4>1, <4>2, <5>1
        <4>4. m.score + Length[k[2]] <= expires[k]
          <5>1. m.score + Length[k[2]] + Slack <= expires[k]
            BY <4>3 DEF StoreInv
          <5>2. Slack \in Nat
            BY DEF RateLimitAssumption
          <5> QED
            BY SMTT(30), <4>1, <5>1, <5>2
        <4>5. m.score + Length[k[2]] \in Nat
          BY <4>1
        <4>6. ~(expires[k] <= clock)
          BY SMTT(30), <2>3, <4>1, <4>2, <4>4, <4>5
        <4>7. m.score + Length[k[2]] > c.now
          BY <2>3, <4>2, <4>5
        <4> QED
          BY <2>2, <4>3, <4>6, <4>7 DEF Kept, Entries
      <3>2. /\ IsFiniteSet(e) /\ Cardinality(e) \in Nat
        BY KeptFacts
      <3>3. /\ IsFiniteSet(e \cup {n})
            /\ Cardinality(e \cup {n}) \in {Cardinality(e), Cardinality(e) + 1}
        BY <3>2, FS_AddElement
      <3>4. /\ Cardinality(W(admitted'[k])) <= Cardinality(e \cup {n})
            /\ Cardinality(W(admitted'[k])) \in Nat
        BY <3>1, <3>3, FS_Subset, FS_CardinalityType
      <3>5. Limit[k[2]] \in Nat
        OBVIOUS
      <3>6. Cardinality(W(admitted'[k])) <= Limit[k[2]]
        <4> HIDE DEF e, n, W
        <4> QED
          BY <2>2, <3>2, <3>3, <3>4, <3>5
      <3> QED
        BY <3>6 DEF WindowHolds
    <2> QED
      BY <2>4, <2>5
  <1> QED
    BY <1>1, <1>2

-----------------------------------------------------------------------------
(* Refusals *)

Young(S, l, n) == {m \in S : m.score + l > n}

\* A larger log has at least as many young entries.
LEMMA YoungGrows ==
    ASSUME NEW S, NEW T, S \subseteq T, IsFiniteSet(T), NEW l, NEW n,
           NEW x \in Nat, Cardinality(Young(S, l, n)) >= x
    PROVE  Cardinality(Young(T, l, n)) >= x
  <1>1. Young(S, l, n) \subseteq Young(T, l, n) /\ Young(T, l, n) \subseteq T
    BY DEF Young
  <1>2. IsFiniteSet(Young(T, l, n))
    BY <1>1, FS_Subset
  <1>3. /\ IsFiniteSet(Young(S, l, n))
        /\ Cardinality(Young(S, l, n)) <= Cardinality(Young(T, l, n))
    BY <1>1, <1>2, FS_Subset
  <1>4. Cardinality(Young(S, l, n)) \in Nat /\ Cardinality(Young(T, l, n)) \in Nat
    BY <1>2, <1>3, FS_CardinalityType
  <1> QED
    BY <1>3, <1>4

\* A check that is refused, or about to be, stays at its window.
LEMMA RefusedStays ==
    ASSUME RInv, [Next]_vars, NEW q \in Checks,
           reply[q] = "no" \/ answer[q] = "RateLimited"
    PROVE  scale'[q] = scale[q] /\ stamp'[q] = stamp[q]
  <1>0. TypeOK /\ (reply[q] = "no" => pc[q] = "wait")
               /\ (answer[q] = "RateLimited" => pc[q] = "done")
    BY DEF RInv, PathInv
  <1>1. ASSUME NEW r \in Checks, Send(r)
        PROVE  scale'[q] = scale[q] /\ stamp'[q] = stamp[q]
    BY <1>0, <1>1 DEF Send, TypeOK
  <1>2. ASSUME NEW r \in Checks, Receive(r)
        PROVE  scale'[q] = scale[q] /\ stamp'[q] = stamp[q]
    BY <1>0, <1>2 DEF Receive, Finish, TypeOK
  <1> QED
    BY <1>1, <1>2 DEF Next, vars, Resend, Finish, Fail, RunScript,
                      LoseCommand, Tick

\* A step that refuses a check anew is the script, for that very check.
LEMMA RefusedByScript ==
    ASSUME RInv, [Next]_vars, NEW q \in Checks,
           reply[q] # "no", answer[q] # "RateLimited",
           reply'[q] = "no" \/ answer'[q] = "RateLimited"
    PROVE  \E c \in flight : RunScript(c)
  <1>0. TypeOK
    BY DEF RInv
  <1>1. ASSUME NEW r \in Checks, Receive(r) PROVE FALSE
    BY <1>0, <1>1, ReceiveEffect DEF TypeOK
  <1>2. ASSUME NEW r \in Checks, Fail(r) PROVE FALSE
    BY <1>0, <1>2 DEF Fail, Finish, TypeOK
  <1>3. ASSUME NEW r \in Checks, Send(r) \/ Resend(r) PROVE FALSE
    BY <1>0, <1>3 DEF Send, Resend, TypeOK
  <1>4. ASSUME NEW c \in flight, LoseCommand(c) PROVE FALSE
    BY <1>4 DEF LoseCommand
  <1>5. ~Tick /\ ~UNCHANGED vars
    BY DEF Tick, vars
  <1> QED
    BY <1>1, <1>2, <1>3, <1>4, <1>5 DEF Next

\* The entries that Redis counted against a refused check stay in the log.
LEMMA RefusalStep == RInv /\ [Next]_vars => RefusalInv'
  <1> SUFFICES ASSUME RInv, [Next]_vars PROVE RefusalInv'
    OBVIOUS
  <1>0. TypeOK /\ TypeOK' /\ StoreInv /\ StoreInv' /\ FlightInv /\ RefusalInv
    BY StoreStep, TypeStep DEF RInv
  <1> USE <1>0
  <1> SUFFICES ASSUME NEW q \in Checks,
                      reply'[q] = "no" \/ answer'[q] = "RateLimited"
               PROVE  Cardinality(Young(admitted'[<<id'[q], scale'[q]>>],
                                        Length[scale'[q]], stamp'[q]))
                        >= Limit[scale'[q]]
    BY DEF RefusalInv, Young
  <1> DEFINE k == <<id[q], scale[q]>>
             l == Length[scale[q]]
             x == Limit[scale[q]]
             n == stamp[q]
  <1>a. /\ k \in Buckets /\ l \in Nat /\ x \in Nat /\ n \in Nat
        /\ admitted[k] \subseteq admitted'[k] /\ id' = id
    BY LogGrows DEF TypeOK
  <1>b. IsFiniteSet(admitted'[k])
    BY <1>a DEF StoreInv
  <1>1. CASE reply[q] = "no" \/ answer[q] = "RateLimited"
    <2>1. scale'[q] = scale[q] /\ stamp'[q] = stamp[q]
      BY <1>1, RefusedStays
    <2>2. Cardinality(Young(admitted[k], l, n)) >= x
      BY <1>1 DEF RefusalInv, Young
    <2> HIDE DEF l, x, n, k
    <2>3. Cardinality(Young(admitted'[k], l, n)) >= x
      BY <1>a, <1>b, <2>2, YoungGrows
    <2> QED
      BY <1>a, <2>1, <2>3 DEF l, x, n, k
  <1>2. CASE reply[q] # "no" /\ answer[q] # "RateLimited"
    <2>1. PICK c \in flight : RunScript(c)
      BY <1>2, RefusedByScript
    <2>2. /\ scale' = scale /\ stamp' = stamp /\ answer' = answer /\ id' = id
      BY <2>1 DEF RunScript
    <2>a. reply'[q] = "no" /\ reply[q] # "no" /\ c.by \in Checks
      BY <1>2, <2>2, CommandFields
    <2>b. ~Answer(c, "yes")
      BY <2>a DEF Answer, TypeOK
    <2>c. Answer(c, "no")
      BY <2>1, <2>b, ScriptEffect
    <2>3. /\ q = c.by /\ c.scale = scale[q]
      BY <2>a, <2>c DEF Answer, TypeOK
    <2>4. /\ k = Bucket(c) /\ c.now = n /\ l = Length[c.scale]
      BY <2>3 DEF Bucket, FlightInv
    <2>5. Cardinality(Kept(c)) >= x
      BY <2>1, <2>3, <2>b, ScriptEffect
    <2> HIDE DEF l, x, n, k
    <2>6. Young(Kept(c), l, n) = Kept(c)
      BY <2>4, KeptFacts DEF Young
    <2>7. Kept(c) \subseteq admitted'[k]
      BY <1>a, <2>4, KeptFacts
    <2>8. Cardinality(Young(admitted'[k], l, n)) >= x
      BY <1>a, <1>b, <2>5, <2>6, <2>7, YoungGrows
    <2> QED
      BY <2>2, <2>8 DEF l, x, n, k
  <1> QED
    BY <1>1, <1>2

-----------------------------------------------------------------------------
(* Theorems *)

\* Nothing is in flight and every bucket is empty at the start.
LEMMA InitInv == Init => Inv
  <1> SUFFICES ASSUME Init PROVE Inv
    OBVIOUS
  <1>0. \A k \in Buckets : entries[k] = {} /\ admitted[k] = {}
    BY DEF Init
  <1>1. TypeOK
    <2>1. 1 \in Scales /\ 0 \in 0..MaxSends
      OBVIOUS
    <2> QED
      BY <2>1 DEF Init, TypeOK
  <1>2. FlightInv
    BY DEF Init, FlightInv
  <1>3. ChargeInv /\ ChargedOncePerWindow /\ AdmittedByAll /\ SlidingWindow
    BY <1>0 DEF Init, ChargeInv, ChargedOncePerWindow, AdmittedByAll, SlidingWindow
  <1>4. PathInv
    <2>1. \A r \in Checks : \A i \in Scales : ~(i < scale[r])
      BY DEF Init
    <2> QED
      BY <2>1 DEF Init, PathInv
  <1>5. StoreInv
    <2>1. \A k \in Buckets : Limit[k[2]] \in Nat
      OBVIOUS
    <2>2. IsFiniteSet({}) /\ Cardinality({}) = 0
      BY FS_EmptySet
    <2>3. \A k \in Buckets :
             IsFiniteSet(admitted[k]) /\ Cardinality(entries[k]) = 0
      BY <1>0, <2>2
    <2>4. \A k \in Buckets : Cardinality(entries[k]) <= Limit[k[2]]
      BY <2>1, <2>3
    <2> QED
      BY <1>0, <2>3, <2>4 DEF StoreInv
  <1>6. RefusalInv
    BY DEF Init, RefusalInv
  <1>7. Windows
    <2> SUFFICES ASSUME NEW k \in Buckets, NEW t \in Nat PROVE WindowHolds(k, t)
      BY DEF Windows
    <2> DEFINE W == {m \in admitted[k] :
                       m.score <= t /\ m.score + Length[k[2]] > t + MaxLag}
    <2>1. W = {}
      BY <1>0
    <2>2. Limit[k[2]] \in Nat
      OBVIOUS
    <2>3. Cardinality({}) = 0
      BY FS_EmptySet
    <2>4. WindowHolds(k, t) <=> Cardinality(W) <= Limit[k[2]]
      BY DEF WindowHolds
    <2> HIDE DEF W
    <2> QED
      BY <2>1, <2>2, <2>3, <2>4
  <1> QED
    BY <1>1, <1>2, <1>3, <1>4, <1>5, <1>6, <1>7 DEF Inv, RInv

\* A bound on every window bounds those that end near an entry.
LEMMA WindowsSlide == TypeOK /\ Windows => SlidingWindow
  <1> SUFFICES ASSUME TypeOK, Windows, NEW k \in Buckets,
                      NEW m \in admitted[k], NEW d \in 0..Length[k[2]]
               PROVE  WindowHolds(k, m.score + d)
    BY DEF SlidingWindow
  <1>1. m.score + d \in Nat
    BY SMTT(30) DEF TypeOK, Members
  <1> QED
    BY <1>1 DEF Windows

\* The inductive invariant of the limiter holds in every reachable state.
THEOREM RateLimitInvariant == Spec => []Inv
  <1>1. Inv /\ [Next]_vars => Inv'
    <2> SUFFICES ASSUME Inv, [Next]_vars PROVE Inv'
      OBVIOUS
    <2>1. RInv
      BY DEF Inv
    <2>2. TypeOK' /\ FlightInv' /\ ChargeInv' /\ ChargedOncePerWindow'
          /\ PathInv' /\ AdmittedByAll' /\ StoreInv' /\ RefusalInv' /\ Windows'
      BY <2>1, TypeStep, FlightStep, ChargeStep, PathStep, StoreStep,
         RefusalStep, WindowsStep
    <2>3. (TypeOK /\ Windows => SlidingWindow)'
      BY WindowsSlide, PTL
    <2> QED
      BY <2>2, <2>3 DEF Inv, RInv
  <1> QED
    BY <1>1, InitInv, PTL DEF Spec

\* The part of it that the runs check.
THEOREM RInvHolds == Spec => []RInv
  <1>1. Inv => RInv
    BY DEF Inv
  <1> QED
    BY <1>1, RateLimitInvariant, PTL

\* No window of the log, wherever it is placed, holds more than the limit,
\* whatever the lag and the order in which commands reach Redis.
THEOREM WindowsNeverOverflow == Spec => []SlidingWindow
  <1>1. Inv => SlidingWindow
    BY DEF Inv, RInv
  <1> QED
    BY <1>1, RateLimitInvariant, PTL

\* Repeated commands do not charge twice.
THEOREM ChargesAreSingle == Spec => []ChargedOncePerWindow
  <1>1. Inv => ChargedOncePerWindow
    BY DEF Inv, RInv
  <1> QED
    BY <1>1, RateLimitInvariant, PTL

\* Whoever is let through has paid for every window.
THEOREM AdmissionIsPaidFor == Spec => []AdmittedByAll
  <1>1. Inv => AdmittedByAll
    BY DEF Inv, RInv
  <1> QED
    BY <1>1, RateLimitInvariant, PTL

\* Both together: every admission is paid for, once a window (CheckRateLimit).
THEOREM PaymentsAreExact == Spec => []PaidOncePerWindow
  BY ChargesAreSingle, AdmissionIsPaidFor, PTL DEF PaidOncePerWindow

\* Whoever is refused had a full window before it.
THEOREM RefusalsAreFair == Spec => []RefusalsAreDeserved
  <1>1. Inv => RefusalsAreDeserved
    BY DEF Inv, RInv, RefusalInv, RefusalsAreDeserved
  <1> QED
    BY <1>1, RateLimitInvariant, PTL

\* EXPIRE forgets nothing that a command no older than Slack would count.
THEOREM ExpiryIsInvisible == Spec => []ExpiryForgetsNothing
  <1>1. Inv => ExpiryForgetsNothing
    <2> SUFFICES ASSUME Inv, NEW c \in flight, expires[Bucket(c)] <= clock,
                        clock <= c.now + Slack, NEW m \in entries[Bucket(c)]
                 PROVE  m.score + Length[c.scale] <= c.now
      BY DEF ExpiryForgetsNothing
    <2>0. TypeOK /\ StoreInv
      BY DEF Inv, RInv
    <2>1. m.score + Length[c.scale] + Slack <= expires[Bucket(c)]
      BY <2>0, CommandFields DEF StoreInv
    <2>2. /\ m.score \in Nat /\ expires[Bucket(c)] \in Nat
          /\ Length[c.scale] \in Nat /\ c.now \in Nat /\ clock \in Nat
      <3>1. m \in Members /\ c.scale \in Scales /\ c.now \in Nat /\ clock \in Nat
            /\ expires[Bucket(c)] \in Nat
        BY <2>0, CommandFields DEF TypeOK
      <3>2. m.score \in Nat /\ Length[c.scale] \in Nat
        BY <3>1 DEF Members
      <3> QED
        BY <3>1, <3>2
    <2>3. m.score + Length[c.scale] + Slack <= clock
      BY SMTT(30), <2>1, <2>2
    <2>4. m.score + Length[c.scale] + Slack <= c.now + Slack
      BY SMTT(30), <2>2, <2>3
    <2> QED
      BY SMTT(30), <2>2, <2>4
  <1> QED
    BY <1>1, RateLimitInvariant, PTL
=============================================================================
