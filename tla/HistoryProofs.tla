---------------------------- MODULE HistoryProofs ----------------------------
(***************************************************************************)
(* Theorems about History, for any finite set of transfers, any limits and *)
(* any calls: a walk through a growing history misses nothing that was     *)
(* there.                                                                  *)
(***************************************************************************)
EXTENDS History, FiniteSetTheorems, TLAPS

USE HistoryAssumption

-----------------------------------------------------------------------------
(* Facts about the statements *)

LEMMA MinOfTwo ==
    ASSUME NEW a \in Int, NEW b \in Int
    PROVE  Min({a, b}) = IF a <= b THEN a ELSE b
  <1> DEFINE m == IF a <= b THEN a ELSE b
  <1>1. m \in {a, b} /\ \A y \in {a, b} : m =< y
    OBVIOUS
  <1>2. \A x \in {a, b} : (\A y \in {a, b} : x =< y) => x = m
    OBVIOUS
  <1> QED
    BY <1>1, <1>2 DEF Min

LEMMA MaxOfTwo ==
    ASSUME NEW a \in Int, NEW b \in Int
    PROVE  Max({a, b}) = IF a >= b THEN a ELSE b
  <1> DEFINE m == IF a >= b THEN a ELSE b
  <1>1. m \in {a, b} /\ \A y \in {a, b} : m >= y
    OBVIOUS
  <1>2. \A x \in {a, b} : (\A y \in {a, b} : x >= y) => x = m
    OBVIOUS
  <1> QED
    BY <1>1, <1>2 DEF Max

\* The history of an account is a finite set of committed rows.
LEMMA OfFacts ==
    /\ Of(Owner) \subseteq Committed /\ Committed \subseteq Transfers
    /\ \A S \in SUBSET Transfers : IsFiniteSet(S) /\ Cardinality(S) \in Nat
  <1>1. ASSUME NEW S \in SUBSET Transfers
        PROVE  IsFiniteSet(S) /\ Cardinality(S) \in Nat
    BY FS_Subset, FS_CardinalityType
  <1> QED
    BY <1>1 DEF Of, Committed

LEMMA Smaller ==
    ASSUME NEW S \in SUBSET Transfers, NEW T \in SUBSET S
    PROVE  /\ Cardinality(T) <= Cardinality(S)
           /\ \A x \in S \ T : Cardinality(T) < Cardinality(S)
  <1>1. IsFiniteSet(S) /\ Cardinality(S) \in Nat /\ Cardinality(T) \in Nat
    BY OfFacts
  <1>2. Cardinality(T) <= Cardinality(S) /\ (Cardinality(S) = Cardinality(T) => S = T)
    BY <1>1, FS_Subset
  <1> QED
    BY <1>1, <1>2

LEMMA Disjoint ==
    ASSUME NEW S \in SUBSET Transfers, NEW T \in SUBSET Transfers, S \cap T = {}
    PROVE  Cardinality(S \cup T) = Cardinality(S) + Cardinality(T)
  <1>1. IsFiniteSet(S) /\ IsFiniteSet(T)
        /\ Cardinality(S) \in Nat /\ Cardinality(T) \in Nat
    BY OfFacts
  <1>2. Cardinality(S \cap T) = 0
    BY FS_EmptySet
  <1>3. Cardinality(S \cup T)
          = Cardinality(S) + Cardinality(T) - Cardinality(S \cap T)
    BY <1>1, FS_Union
  <1> QED
    BY <1>1, <1>2, <1>3

\* The rows a page is cut from.
Rows(f) == {t \in Committed : Matches(t, f)}

\* The rows B that a page P of them skips.
Skips(f, P, B) ==
    /\ Precedes(B, Rows(f) \ B)
    /\ Precedes(P, Rows(f) \ (B \cup P))
    /\ Cardinality(B) =
         IF f.offset <= 0 THEN 0
         ELSE IF f.offset <= Cardinality(Rows(f)) THEN f.offset
         ELSE Cardinality(Rows(f))
    /\ Cardinality(P) # f.limit \/ f.limit <= 0 =>
         Cardinality(P) = Cardinality(Rows(f)) - Cardinality(B)

\* What is skipped comes before the page, and the page before the rest.
LEMMA SliceFacts ==
    ASSUME NEW f, f.limit \in Int, f.offset \in Int, NEW P \in Pages(f)
    PROVE  /\ P \subseteq Rows(f)
           /\ f.limit > 0 => Cardinality(P) <= f.limit
           /\ \E B \in SUBSET (Rows(f) \ P) : Skips(f, P, B)
  <1> DEFINE R == Rows(f)
             n == Cardinality(R)
             m == Max({f.offset, 0})
             skipped == Min({m, n})
  <1>1. R \subseteq Transfers /\ n \in Nat
    BY OfFacts DEF Rows
  <1>2. /\ P \in SUBSET R
        /\ Cardinality(P) = IF f.limit > 0 THEN Min({f.limit, n - skipped})
                            ELSE n - skipped
        /\ \E B \in SUBSET (R \ P) :
             /\ Cardinality(B) = skipped
             /\ Precedes(B, R \ B)
             /\ Precedes(P, R \ (B \cup P))
    BY DEF Pages, Rows
  <1>3. m = IF f.offset >= 0 THEN f.offset ELSE 0
    BY MaxOfTwo
  <1> HIDE DEF m, n, R
  <1>4. m \in Nat
    BY <1>3
  <1>5. skipped = IF m <= n THEN m ELSE n
    BY <1>1, <1>4, MinOfTwo
  <1> HIDE DEF skipped
  <1>6. skipped = IF f.offset <= 0 THEN 0
                  ELSE IF f.offset <= n THEN f.offset ELSE n
    BY <1>1, <1>3, <1>5
  <1>7. skipped \in Nat /\ skipped <= n
    BY <1>1, <1>6
  <1>8. f.limit > 0 =>
          Min({f.limit, n - skipped})
            = IF f.limit <= n - skipped THEN f.limit ELSE n - skipped
    BY <1>1, <1>7, MinOfTwo
  <1>9. f.limit > 0 => Cardinality(P) <= f.limit
    BY <1>1, <1>2, <1>7, <1>8
  <1>10. Cardinality(P) # f.limit \/ f.limit <= 0 => Cardinality(P) = n - skipped
    BY <1>2, <1>8
  <1> QED
    BY <1>2, <1>6, <1>9, <1>10 DEF R, n, Skips

\* The rows of a page of the walk are those of the account.
LEMMA PageRows == Rows(PageFilter) = Of(Owner)
  <1>1. /\ PageFilter.account = Owner /\ PageFilter.sender = Unset
        /\ PageFilter.receiver = Unset /\ PageFilter.min = Unset
        /\ PageFilter.max = Unset /\ PageFilter.from = Unset
        /\ PageFilter.to = Unset
    BY DEF PageFilter, NoFilter
  <1> QED
    BY <1>1 DEF Matches, Of, Rows

LEMMA PageFacts ==
    ASSUME TypeOK, NEW P \in Pages(PageFilter)
    PROVE  /\ P \subseteq Of(Owner)
           /\ \E B \in SUBSET (Of(Owner) \ P) :
                /\ Precedes(B, Of(Owner) \ B)
                /\ Precedes(P, Of(Owner) \ (B \cup P))
                /\ Cardinality(B) =
                     IF offset <= Cardinality(Of(Owner)) THEN offset
                     ELSE Cardinality(Of(Owner))
                /\ Cardinality(P) # limit \/ limit <= 0 =>
                     Cardinality(P) = Cardinality(Of(Owner)) - Cardinality(B)
  <1> DEFINE R == Of(Owner)
             n == Cardinality(R)
  <1>1. n \in Nat /\ offset \in Nat /\ limit \in Int
    BY OfFacts DEF TypeOK
  <1>2. PageFilter.limit = limit /\ PageFilter.offset = offset
    BY DEF PageFilter, NoFilter
  <1> HIDE DEF R, n
  <1>3. PICK B \in SUBSET (R \ P) : P \subseteq R /\ Skips(PageFilter, P, B)
    BY <1>1, <1>2, SliceFacts, PageRows DEF R
  <1>4. /\ Precedes(B, R \ B)
        /\ Precedes(P, R \ (B \cup P))
        /\ Cardinality(B) = IF offset <= 0 THEN 0
                            ELSE IF offset <= n THEN offset ELSE n
        /\ Cardinality(P) # limit \/ limit <= 0 =>
             Cardinality(P) = n - Cardinality(B)
    BY <1>2, <1>3, PageRows DEF R, n, Skips
  <1>5. Cardinality(B) = IF offset <= n THEN offset ELSE n
    BY <1>1, <1>4
  <1> QED
    BY <1>3, <1>4, <1>5 DEF R, n

-----------------------------------------------------------------------------
(* Ranks *)

\* Whoever is skipped has fewer rows before him than are skipped, whoever is
\* left behind a page has at least the skipped ones and the page.
LEMMA Ranks ==
    ASSUME TypeOK, NEW P \in SUBSET Of(Owner), NEW B \in SUBSET (Of(Owner) \ P),
           Precedes(B, Of(Owner) \ B), Precedes(P, Of(Owner) \ (B \cup P)),
           NEW t \in Of(Owner)
    PROVE  /\ t \in B => Cardinality(Before(t)) < Cardinality(B)
           /\ t \in P /\ Untied(t) =>
                /\ Cardinality(B) <= Cardinality(Before(t))
                /\ Cardinality(Before(t)) < Cardinality(B) + Cardinality(P)
           /\ t \notin B \cup P /\ Untied(t) =>
                Cardinality(B) + Cardinality(P) <= Cardinality(Before(t))
           /\ Cardinality(Before(t)) < Cardinality(Of(Owner))
  <1>1. /\ Of(Owner) \subseteq Transfers /\ \A u \in Of(Owner) : made[u] \in Int
        /\ Before(t) \subseteq Of(Owner) \ {t}
    BY OfFacts DEF TypeOK, Before
  <1>2. /\ B \subseteq Transfers /\ P \subseteq Transfers
        /\ B \cup P \subseteq Of(Owner) /\ B \cap P = {}
    BY <1>1
  <1>3. Cardinality(B \cup P) = Cardinality(B) + Cardinality(P)
    BY <1>2, Disjoint
  <1>4. ASSUME t \in B
        PROVE  Cardinality(Before(t)) < Cardinality(B)
    <2>1. Before(t) \subseteq B /\ t \in B \ Before(t)
      BY <1>1, <1>4 DEF Before, Precedes
    <2> QED
      BY <1>2, <2>1, Smaller
  <1>5. ASSUME t \in P, Untied(t)
        PROVE  /\ Cardinality(B) <= Cardinality(Before(t))
               /\ Cardinality(Before(t)) < Cardinality(B) + Cardinality(P)
    <2>1. B \subseteq Before(t)
      BY <1>1, <1>2, <1>5 DEF Before, Precedes, Untied
    <2>2. Before(t) \subseteq B \cup P /\ t \in (B \cup P) \ Before(t)
      BY <1>1, <1>5 DEF Before, Precedes
    <2> QED
      BY <1>1, <1>2, <1>3, <2>1, <2>2, Smaller
  <1>6. ASSUME t \notin B \cup P, Untied(t)
        PROVE  Cardinality(B) + Cardinality(P) <= Cardinality(Before(t))
    <2>1. B \cup P \subseteq Before(t)
      BY <1>1, <1>2, <1>6 DEF Before, Precedes, Untied
    <2> QED
      BY <1>1, <1>3, <2>1, Smaller
  <1>7. Cardinality(Before(t)) < Cardinality(Of(Owner))
    BY <1>1, Smaller
  <1> QED
    BY <1>4, <1>5, <1>6, <1>7

-----------------------------------------------------------------------------
(* Steps *)

LEMMA SameRows ==
    ASSUME must \subseteq Committed, must' = must, Committed' = Committed,
           \A u \in Committed : made'[u] = made[u]
    PROVE  /\ Of(Owner)' = Of(Owner) /\ Old' = Old /\ Old \subseteq Of(Owner)
           /\ \A u \in Old : (Untied(u)' <=> Untied(u)) /\ Before(u)' = Before(u)
  <1>1. Of(Owner)' = Of(Owner) /\ Old' = Old /\ Old \subseteq Of(Owner)
    BY DEF Of, Old
  <1>2. \A u \in Of(Owner) : made'[u] = made[u]
    BY DEF Of
  <1>3. ASSUME NEW u \in Old
        PROVE  Untied(u)' <=> Untied(u)
    BY <1>1, <1>2, <1>3 DEF Untied
  <1>4. ASSUME NEW u \in Old
        PROVE  Before(u)' = Before(u)
    BY <1>1, <1>2, <1>4 DEF Before
  <1> QED
    BY <1>1, <1>3, <1>4

\* A step that leaves the rows and the walk alone.
LEMMA Undisturbed ==
    ASSUME WalkInv, must \subseteq Committed, must' = must,
           Committed' = Committed, \A u \in Committed : made'[u] = made[u],
           UNCHANGED <<reader, walk, slipped>>
    PROVE  WalkInv'
  <1>1. /\ Of(Owner)' = Of(Owner) /\ Old' = Old
        /\ \A u \in Old : (Untied(u)' <=> Untied(u)) /\ Before(u)' = Before(u)
    BY SameRows
  <1>2. AheadInv'
    BY <1>1 DEF WalkInv, AheadInv, walk
  <1>3. TotalInv'
    BY <1>1 DEF WalkInv, TotalInv, walk
  <1>4. PrefixInv'
    BY <1>1 DEF WalkInv, PrefixInv, Quiet, walk
  <1>5. WalkIsComplete' /\ TotalIsCovered'
    BY <1>1 DEF WalkInv, WalkIsComplete, TotalIsCovered, walk
  <1> QED
    BY <1>2, <1>3, <1>4, <1>5 DEF WalkInv

-----------------------------------------------------------------------------
(* The single calls *)

\* The day a moment belongs to begins at or before it, the next day after it.
LEMMA DayOf ==
    ASSUME NEW m \in Nat, NEW n \in Int
    PROVE  /\ m >= n * DayLength <=> n <= m \div DayLength
           /\ m <= n * DayLength <=>
                m \div DayLength < n \/ m = n * DayLength
  <1> DEFINE d == DayLength
             k == m \div d
  <1>1. /\ d \in Nat /\ d > 0
        /\ k \in Int /\ k * d <= m /\ m < (k + 1) * d
    OBVIOUS
  <1> HIDE DEF k
  <1>2. CASE n <= k
    <2>1. n * d <= k * d
      BY <1>1, <1>2
    <2>2. n * d \in Int /\ k * d \in Int
      BY <1>1
    <2>3. m >= n * d /\ (m <= n * d => m = n * d)
      BY <1>1, <2>1, <2>2
    <2> QED
      BY <1>1, <1>2, <2>2, <2>3 DEF k
  <1>3. CASE ~(n <= k)
    <2>1. k + 1 <= n /\ k < n
      BY <1>1, <1>3
    <2>2. (k + 1) * d <= n * d
      BY <1>1, <2>1
    <2>3. n * d \in Int /\ (k + 1) * d \in Int
      BY <1>1
    <2>4. m < n * d
      BY <1>1, <2>2, <2>3
    <2> QED
      BY <1>3, <2>1, <2>3, <2>4 DEF k
  <1> QED
    BY <1>2, <1>3

\* The WHERE clause finds what the client asks for.
LEMMA FindsWhatIsSought ==
    ASSUME TypeOK, NEW c \in Calls, c.op = "Filter", NEW t \in Committed,
           Garbage \notin {c.query.from, c.query.to, c.query.min, c.query.max}
    PROVE  Matches(t, c.query) <=> Sought(t, c.query)
  <1> DEFINE q == c.query
  <1>1. /\ q.account = Unset
        /\ {q.min, q.max, q.from, q.to} \subseteq Int \cup {Unset}
    OBVIOUS
  <1>2. made[t] \in Nat /\ Row[t].amount \in Int
    BY OfFacts DEF TypeOK
  <1> HIDE DEF q
  <1>3. q.from # Unset => (made[t] >= q.from * DayLength <=> q.from <= Day(t))
    BY <1>1, <1>2, DayOf DEF Day
  <1>4. q.to # Unset =>
          (made[t] <= q.to * DayLength
             <=> Day(t) < q.to \/ made[t] = q.to * DayLength)
    BY <1>1, <1>2, DayOf DEF Day
  <1>5. /\ q.min # Unset => (Row[t].amount >= q.min <=> q.min <= Row[t].amount)
        /\ q.sender # Unset /\ Row[t].sender = q.sender
             => q.sender \in {Unset, Row[t].sender}
    BY <1>1, <1>2
  <1>6. Matches(t, q) <=> Sought(t, q)
    BY <1>1, <1>3, <1>4, <1>5 DEF Matches, Sought
  <1> QED
    BY <1>6 DEF q

LEMMA NoReply ==
    ASSUME reader' \notin {"asked", "answered"}
    PROVE  ReplyInv'
  BY DEF ReplyInv, AskedInv, RepliesAreTrue, LookupIsTrue, FilterIsTrue

\* A reply stays true: what is committed stays as it is, what commits is more.
LEMMA RepliesStand ==
    ASSUME HInv, UNCHANGED <<reader, reply, call, must>>,
           Committed \subseteq Committed', Committed' \subseteq Transfers,
           \A u \in Committed : made'[u] = made[u]
    PROVE  ReplyInv'
  <1>1. LookupIsTrue'
    BY DEF HInv, ReplyInv, RepliesAreTrue, LookupIsTrue, Parties
  <1>2. FilterIsTrue'
    <2> SUFFICES ASSUME reader = "answered", call.op = "Filter",
                        reply.status = "Ok"
                 PROVE  FilterIsTrue'
      BY DEF FilterIsTrue
    <2> DEFINE q == call.query
               rows == reply.rows
    <2>1. must \subseteq Committed /\ Committed \subseteq Transfers
      BY OfFacts DEF HInv
    <2>2. /\ \A t \in rows :
               t \in Committed /\ Sought(t, q) /\ AfterOffset(t, rows, q)
          /\ q.limit > 0 => Cardinality(rows) <= q.limit
          /\ \A t \in must \ rows :
               Sought(t, q) => BehindPage(t, rows, q) \/ WithinOffset(t, rows, q)
      BY DEF HInv, ReplyInv, RepliesAreTrue, FilterIsTrue
    <2>3. \A t \in Committed : Sought(t, q)' <=> Sought(t, q)
      BY DEF Sought, Day
    <2>4. ASSUME NEW t \in rows PROVE AfterOffset(t, rows, q)'
      <3> DEFINE S == {u \in Committed \ rows : Sought(u, q) /\ made[u] >= made[t]}
      <3>1. S \subseteq S' /\ S' \subseteq Transfers
        BY <2>1, <2>2, <2>3, <2>4
      <3>2. Cardinality(S) >= q.offset
        BY <2>2, <2>4 DEF AfterOffset
      <3>3. /\ Cardinality(S) <= Cardinality(S')
            /\ Cardinality(S) \in Nat /\ Cardinality(S') \in Nat
        BY <3>1, Smaller, OfFacts
      <3>4. q.offset \in Int
        BY DEF HInv, ReplyInv, AskedInv, Refused
      <3> HIDE DEF S
      <3>5. Cardinality(S') >= q.offset
        BY <3>2, <3>3, <3>4
      <3> QED
        BY <3>5 DEF S, AfterOffset
    <2>5. ASSUME NEW t \in must \ rows, Sought(t, q)'
          PROVE  BehindPage(t, rows, q)' \/ WithinOffset(t, rows, q)'
      <3>1. t \in Committed /\ rows \subseteq Committed
        BY <2>1, <2>2
      <3>2. BehindPage(t, rows, q) \/ WithinOffset(t, rows, q)
        BY <2>2, <2>3, <2>5, <3>1
      <3>3. BehindPage(t, rows, q)' <=> BehindPage(t, rows, q)
        BY <3>1 DEF BehindPage
      <3>4. {u \in must : Sought(u, q) /\ made[u] > made[t]}'
              = {u \in must : Sought(u, q) /\ made[u] > made[t]}
        BY <2>1, <2>3, <3>1
      <3>5. WithinOffset(t, rows, q)' <=> WithinOffset(t, rows, q)
        BY <3>1, <3>4 DEF WithinOffset
      <3> QED
        BY <3>2, <3>3, <3>5
    <2> QED
      BY <2>1, <2>2, <2>3, <2>4, <2>5 DEF FilterIsTrue
  <1>3. AskedInv'
    BY DEF HInv, ReplyInv, AskedInv
  <1> QED
    BY <1>1, <1>2, <1>3 DEF ReplyInv, RepliesAreTrue

\* What a query that is not refused is answered with, if it is, is a page of it.
LEMMA PageIsTrue ==
    ASSUME HInv, NEW c \in Calls, c.op = "Filter", ~Refused(c.query),
           Garbage \notin {c.query.min, c.query.max},
           NEW P \in Pages(c.query)
    PROVE  /\ \A t \in P : /\ t \in Committed /\ Sought(t, c.query)
                           /\ AfterOffset(t, P, c.query)
           /\ c.query.limit > 0 => Cardinality(P) <= c.query.limit
           /\ \A t \in must \ P :
                Sought(t, c.query) =>
                   BehindPage(t, P, c.query) \/ WithinOffset(t, P, c.query)
  <1> DEFINE q == c.query
             R == Rows(q)
             n == Cardinality(R)
  <1>1. q.limit \in Int /\ q.offset \in Int
        /\ Garbage \notin {q.from, q.to, q.min, q.max}
    BY DEF Refused
  <1>2. \A t \in Committed : t \in R <=> Sought(t, q)
    BY <1>1, FindsWhatIsSought DEF HInv, Rows
  <1>3. /\ R \subseteq Committed /\ Committed \subseteq Transfers
        /\ must \subseteq Committed
    BY OfFacts DEF HInv, Rows
  <1>4. \A t \in Committed : made[t] \in Nat
    BY <1>3 DEF HInv, TypeOK
  <1> HIDE DEF q, R
  <1>5. P \subseteq R /\ (q.limit > 0 => Cardinality(P) <= q.limit)
    BY <1>1, SliceFacts DEF R, q
  <1>6. PICK B \in SUBSET (R \ P) : Skips(q, P, B)
    BY <1>1, SliceFacts DEF R, q
  <1>7. /\ Precedes(B, R \ B)
        /\ Precedes(P, R \ (B \cup P))
        /\ Cardinality(B) = IF q.offset <= 0 THEN 0
                            ELSE IF q.offset <= n THEN q.offset ELSE n
        /\ Cardinality(P) # q.limit \/ q.limit <= 0 =>
             Cardinality(P) = n - Cardinality(B)
    BY <1>6 DEF R, Skips
  <1>8. /\ Cardinality(B \cup P) = Cardinality(B) + Cardinality(P)
        /\ B \cup P \subseteq R
        /\ n \in Nat /\ Cardinality(B) \in Nat /\ Cardinality(P) \in Nat
    BY <1>3, <1>5, <1>6, <1>7, Disjoint, OfFacts
  <1> HIDE DEF n
  \* Whoever is shown has the skipped rows before him.
  <1>9. ASSUME NEW t \in P PROVE AfterOffset(t, P, q)
    <2> DEFINE S == {u \in Committed \ P : Sought(u, q) /\ made[u] >= made[t]}
    <2>1. t \in R \ B
      BY <1>5, <1>6, <1>7
    <2>2. B \subseteq S /\ S \subseteq Transfers
      BY <1>2, <1>3, <1>6, <1>7, <2>1 DEF Precedes
    <2>3. /\ Cardinality(B) <= Cardinality(S)
          /\ Cardinality(S) \in Nat
      BY <2>2, Smaller, OfFacts
    <2>4. Cardinality(B) < n
      BY <1>3, <1>6, <1>7, <2>1, Smaller DEF n
    <2>5. Cardinality(B) >= q.offset
      BY <1>1, <1>6, <1>7, <1>8, <2>4
    <2> HIDE DEF S
    <2>6. Cardinality(S) >= q.offset
      BY <1>1, <1>8, <2>3, <2>5
    <2> QED
      BY <2>6 DEF S, AfterOffset
  \* Whoever is not is skipped, or left behind a full page.
  <1>10. ASSUME NEW t \in must \ P, Sought(t, q)
        PROVE  BehindPage(t, P, q) \/ WithinOffset(t, P, q)
    <2>1. t \in R
      BY <1>2, <1>3, <1>10
    <2>2. CASE t \in B
      <3> DEFINE S == {u \in must : Sought(u, q) /\ made[u] > made[t]}
      <3>1. \A u \in P : made[u] <= made[t]
        BY <1>3, <1>4, <1>5, <1>6, <1>7, <2>1, <2>2 DEF Precedes
      <3>2. ASSUME NEW u \in S PROVE u \in B \ {t}
        <4>1. u \in R /\ made[u] > made[t]
          BY <1>2, <1>3
        <4>2. u \notin R \ B
          BY <1>3, <1>4, <1>6, <1>7, <2>1, <2>2, <4>1 DEF Precedes
        <4> QED
          BY <1>3, <1>4, <2>1, <4>1, <4>2
      <3>3. S \in SUBSET B /\ t \in B \ S /\ B \in SUBSET Transfers
        BY <1>3, <1>6, <1>7, <2>2, <3>2
      <3>4. Cardinality(S) < Cardinality(B)
        BY <3>3, Smaller
      <3>5. Cardinality(S) \in Nat
        BY <3>3, OfFacts
      <3> HIDE DEF S
      <3>6. Cardinality(S) < q.offset
        BY <1>1, <1>6, <1>7, <1>8, <3>4, <3>5
      <3> QED
        BY <3>1, <3>6 DEF S, WithinOffset
    <2>3. CASE t \notin B
      <3>1. t \in R \ (B \cup P)
        BY <1>10, <2>1, <2>3
      <3>2. Cardinality(B \cup P) < n
        BY <1>3, <1>8, <3>1, Smaller DEF n
      <3>3. q.limit > 0 /\ Cardinality(P) = q.limit
        BY <1>1, <1>6, <1>7, <1>8, <3>2
      <3>4. \A u \in P : made[u] >= made[t]
        BY <1>6, <1>7, <3>1 DEF Precedes
      <3> QED
        BY <3>3, <3>4 DEF BehindPage
    <2> QED
      BY <2>2, <2>3
  <1> QED
    BY <1>2, <1>3, <1>5, <1>9, <1>10 DEF q

\* Without a walk there is nothing to say of one.
LEMMA NoWalk ==
    ASSUME reader' \in {"asked", "answered"}
    PROVE  WalkInv'
  BY DEF WalkInv, AheadInv, TotalInv, PrefixInv, WalkIsComplete, TotalIsCovered,
         Walking

LEMMA TickInv == HInv /\ Tick => HInv'
  <1> SUFFICES ASSUME HInv, Tick PROVE HInv'
    OBVIOUS
  <1>1. TypeOK'
    BY DEF HInv, TypeOK, Tick, walk
  <1>2. WalkInv'
    <2>1. Committed' = Committed
      BY DEF Tick, Committed
    <2> QED
      BY <2>1, Undisturbed DEF HInv, Tick
  <1>3. (must \subseteq Committed)' /\ ReplyInv'
    <2>1. Committed' = Committed /\ Committed \subseteq Transfers
      BY DEF Tick, Committed
    <2> QED
      BY <2>1, RepliesStand DEF HInv, Tick
  <1> QED
    BY <1>1, <1>2, <1>3 DEF HInv

LEMMA BeginInv == ASSUME HInv, NEW t \in Transfers, Begin(t) PROVE HInv'
  <1>1. TypeOK'
    BY DEF HInv, TypeOK, Begin, walk
  <1>2. Committed' = Committed /\ \A u \in Committed : made'[u] = made[u]
    BY DEF HInv, TypeOK, Begin, Committed
  <1>3. WalkInv'
    BY <1>2, Undisturbed DEF HInv, Begin
  <1>4. (must \subseteq Committed)' /\ ReplyInv'
    BY <1>2, OfFacts, RepliesStand DEF HInv, Begin
  <1> QED
    BY <1>1, <1>3, <1>4 DEF HInv

LEMMA AbortInv == ASSUME HInv, NEW t \in Transfers, Abort(t) PROVE HInv'
  <1>1. TypeOK'
    BY DEF HInv, TypeOK, Abort, walk
  <1>2. Committed' = Committed /\ \A u \in Committed : made'[u] = made[u]
    BY DEF HInv, TypeOK, Abort, Committed
  <1>3. WalkInv'
    BY <1>2, Undisturbed DEF HInv, Abort
  <1>4. (must \subseteq Committed)' /\ ReplyInv'
    BY <1>2, OfFacts, RepliesStand DEF HInv, Abort
  <1> QED
    BY <1>1, <1>3, <1>4 DEF HInv

\* A row that appears may push what has not been shown back, never forward.
LEMMA CommitInv == ASSUME HInv, NEW t \in Transfers, Commit(t) PROVE HInv'
  <1>1. TypeOK'
    BY DEF HInv, TypeOK, Commit, walk
  <1>2. Committed' = Committed \cup {t}
    BY DEF HInv, TypeOK, Commit, Committed
  <1>3. /\ Of(Owner)' = IF Owner \in Parties(t) THEN Of(Owner) \cup {t} ELSE Of(Owner)
        /\ Old' = Old /\ Old \subseteq Of(Owner)
    BY <1>2 DEF HInv, Of, Old, Commit, Parties
  <1>4. /\ Of(Owner) \subseteq Of(Owner)' /\ Of(Owner)' \subseteq Transfers
        /\ Cardinality(Of(Owner)) <= Cardinality(Of(Owner)')
        /\ Cardinality(Of(Owner)) \in Nat /\ Cardinality(Of(Owner)') \in Nat
    <2>1. Of(Owner) \subseteq Of(Owner)' /\ Of(Owner)' \subseteq Transfers
      BY <1>3, OfFacts
    <2> QED
      BY <2>1, OfFacts, Smaller
  <1>5. ASSUME NEW u \in Old
        PROVE  /\ Untied(u)' => Untied(u)
               /\ Cardinality(Before(u)) <= Cardinality(Before(u)')
               /\ Cardinality(Before(u)) \in Nat /\ Cardinality(Before(u)') \in Nat
    <2>1. Untied(u)' => Untied(u)
      BY <1>4 DEF Untied, Commit
    <2>2. Before(u) \subseteq Before(u)' /\ Before(u)' \subseteq Transfers
      BY <1>4 DEF Before, Commit
    <2> QED
      BY <2>1, <2>2, OfFacts, Smaller
  <1>6. UNCHANGED <<reader, walk, must, call, reply>>
    BY DEF Commit
  <1>7. offset \in Nat /\ total \in Nat
    BY DEF HInv, TypeOK
  <1>8. AheadInv'
    <2>1. (reader = "idle" => offset = 0 /\ shown = [v \in Transfers |-> 0])'
      BY <1>6 DEF HInv, WalkInv, AheadInv, walk
    <2>2. ASSUME (reader \in Walking)', NEW u \in Old', Untied(u)', shown'[u] = 0
          PROVE  Cardinality(Before(u)') >= offset'
      <3>1. u \in Old /\ Untied(u) /\ shown[u] = 0 /\ reader \in Walking
            /\ offset' = offset
        BY <2>2, <1>3, <1>5, <1>6 DEF walk, Walking
      <3>2. Cardinality(Before(u)) >= offset
        BY <3>1 DEF HInv, WalkInv, AheadInv
      <3> QED
        BY <3>1, <3>2, <1>5, <1>7
    <2> QED
      BY <2>1, <2>2 DEF AheadInv
  <1>9. TotalInv'
    <2>1. ASSUME reader' = "page"
          PROVE  total' <= Cardinality(Of(Owner)')
      BY <2>1, <1>4, <1>6, <1>7 DEF HInv, WalkInv, TotalInv, walk
    <2>2. ASSUME reader' = "page", ~slipped'
          PROVE  total' = Cardinality(Of(Owner)')
      <3>1. ~slipped /\ Of(Owner)' = Of(Owner) /\ reader = "page"
        BY <2>2, <1>3, <1>6 DEF Commit
      <3> QED
        BY <3>1, <1>6 DEF HInv, WalkInv, TotalInv, walk
    <2> QED
      BY <2>1, <2>2 DEF TotalInv
  <1>10. PrefixInv'
    <2> SUFFICES ASSUME (reader \in Walking)', Quiet'
                 PROVE  PrefixInv'
      BY DEF PrefixInv
    <2>1. Of(Owner)' = Of(Owner) /\ Of(Owner) = Old
      BY <1>3, <1>4 DEF Quiet
    <2>2. \A u \in Old : Untied(u)
      BY <1>3, <1>5 DEF Quiet
    <2>3. \A u \in Old : Before(u)' = Before(u)
      BY <2>1 DEF Before, Commit
    <2>4. PrefixInv /\ Quiet /\ reader \in Walking
      BY <2>1, <2>2, <1>6 DEF HInv, WalkInv, Quiet, Walking
    <2> QED
      BY <2>3, <2>4, <1>3, <1>6 DEF PrefixInv, walk
  <1>11. WalkIsComplete' /\ TotalIsCovered'
    <2>1. slipped => slipped'
      BY DEF Commit
    <2> QED
      BY <2>1, <1>3, <1>5, <1>6
      DEF HInv, WalkInv, WalkIsComplete, TotalIsCovered, walk
  <1>12. (must \subseteq Committed)' /\ ReplyInv'
    <2>1. Committed \subseteq Committed' /\ Committed' \subseteq Transfers
      BY <1>2, OfFacts
    <2>2. made' = made
      BY DEF Commit
    <2> QED
      BY <2>1, <2>2, <1>6, RepliesStand DEF HInv
  <1> QED
    BY <1>1, <1>8, <1>9, <1>10, <1>11, <1>12 DEF HInv, WalkInv

LEMMA StartWalkInv == HInv /\ StartWalk => HInv'
  <1> SUFFICES ASSUME HInv, StartWalk PROVE HInv'
    OBVIOUS
  <1>1. PICK text \in Limits : limit' = LimitOf(text)
    BY DEF StartWalk
  <1>2. limit' \in Int
    BY <1>1 DEF LimitOf
  <1>3. TypeOK'
    BY <1>2, OfFacts DEF HInv, TypeOK, StartWalk, world
  <1>4. /\ reader' = "count" /\ offset' = 0
        /\ shown' = [t \in Transfers |-> 0]
    BY DEF HInv, WalkInv, AheadInv, StartWalk
  <1>5. \A t \in Transfers : Cardinality(Before(t)') \in Nat
    <2>1. \A t \in Transfers : Before(t)' \subseteq Transfers
      BY DEF Before, Of, Committed
    <2> QED
      BY <2>1, OfFacts
  <1>6. Old' \subseteq Transfers /\ Cardinality(Old') \in Nat
    <2>1. Old' \subseteq Transfers
      BY OfFacts DEF Old, StartWalk
    <2> QED
      BY <2>1, OfFacts
  <1>7. AheadInv' /\ PrefixInv'
    BY <1>4, <1>5, <1>6 DEF AheadInv, PrefixInv
  <1>8. TotalInv' /\ WalkIsComplete' /\ TotalIsCovered'
    BY <1>4 DEF TotalInv, WalkIsComplete, TotalIsCovered
  <1>9. (must \subseteq Committed)' /\ ReplyInv'
    BY <1>4, NoReply DEF StartWalk, world, Committed
  <1> QED
    BY <1>3, <1>7, <1>8, <1>9 DEF HInv, WalkInv

LEMMA CountTotalInv == HInv /\ CountTotal => HInv'
  <1> SUFFICES ASSUME HInv, CountTotal PROVE HInv'
    OBVIOUS
  <1>1. Of(Owner) \subseteq Transfers /\ Cardinality(Of(Owner)) \in Nat
    BY OfFacts
  <1>2. TypeOK'
    BY <1>1 DEF HInv, TypeOK, CountTotal, world, TotalTransactions
  <1>3. Committed' = Committed /\ made' = made /\ must' = must
    BY DEF CountTotal, Committed, world
  <1>4. /\ Of(Owner)' = Of(Owner) /\ Old' = Old
        /\ \A u \in Old : (Untied(u)' <=> Untied(u)) /\ Before(u)' = Before(u)
    BY <1>3, SameRows DEF HInv
  <1>5. /\ reader = "count" /\ reader' = "page"
        /\ total' = Cardinality(Of(Owner))
        /\ offset' = offset /\ shown' = shown
    BY DEF CountTotal, TotalTransactions
  <1>6. AheadInv'
    BY <1>4, <1>5 DEF HInv, WalkInv, AheadInv, Walking
  <1>7. TotalInv'
    BY <1>1, <1>4, <1>5 DEF TotalInv
  <1>8. PrefixInv'
    BY <1>4, <1>5 DEF HInv, WalkInv, PrefixInv, Quiet, Walking
  <1>9. WalkIsComplete' /\ TotalIsCovered' /\ (must \subseteq Committed)'
    BY <1>3, <1>5
    DEF HInv, WalkIsComplete, TotalIsCovered
  <1>10. ReplyInv'
    BY <1>5, NoReply
  <1> QED
    BY <1>2, <1>6, <1>7, <1>8, <1>9, <1>10 DEF HInv, WalkInv

LEMMA FailPageInv == HInv /\ FailPage => HInv'
  <1> SUFFICES ASSUME HInv, FailPage PROVE HInv'
    OBVIOUS
  <1>1. TypeOK'
    BY DEF HInv, TypeOK, FailPage, world, walk
  <1>2. Committed' = Committed /\ made' = made /\ must' = must
    BY DEF FailPage, Committed, world
  <1>3. /\ Of(Owner)' = Of(Owner) /\ Old' = Old
        /\ \A u \in Old : (Untied(u)' <=> Untied(u)) /\ Before(u)' = Before(u)
    BY <1>2, SameRows DEF HInv
  <1>4. reader = "page" /\ reader' = "count" /\ UNCHANGED walk
    BY DEF FailPage
  <1>5. AheadInv' /\ PrefixInv'
    BY <1>3, <1>4
    DEF HInv, WalkInv, AheadInv, PrefixInv, Quiet, Walking, walk
  <1>6. /\ TotalInv' /\ WalkIsComplete' /\ TotalIsCovered'
        /\ (must \subseteq Committed)'
    BY <1>2, <1>4
    DEF HInv, TotalInv, WalkIsComplete, TotalIsCovered
  <1>7. ReplyInv'
    BY <1>4, NoReply
  <1> QED
    BY <1>1, <1>5, <1>6, <1>7 DEF HInv, WalkInv

\* A page shows what comes next, so that only rows further behind are missing;
\* one that is not full is the last.
LEMMA ReadPageInv == HInv /\ ReadPage => HInv'
  <1> SUFFICES ASSUME HInv, ReadPage PROVE HInv'
    OBVIOUS
  <1> DEFINE R == Of(Owner)
             n == Cardinality(R)
  <1>1. PICK P \in Pages(PageFilter) :
          LET full == limit > 0 /\ Cardinality(P) = limit IN
          /\ shown' = [t \in Transfers |-> shown[t] + IF t \in P THEN 1 ELSE 0]
          /\ offset' = offset + Cardinality(P)
          /\ \/ ~full /\ reader' = "done" /\ until' = "short"
             \/ offset' >= total /\ reader' = "done" /\ until' = "total"
             \/ full /\ reader' = "count" /\ UNCHANGED until
    BY DEF ReadPage
  <1>2. TypeOK
    BY DEF HInv
  <1>3. PICK B \in SUBSET (R \ P) :
          /\ P \subseteq R
          /\ Precedes(B, R \ B) /\ Precedes(P, R \ (B \cup P))
          /\ Cardinality(B) = IF offset <= n THEN offset ELSE n
          /\ Cardinality(P) # limit \/ limit <= 0 =>
               Cardinality(P) = n - Cardinality(B)
    BY <1>2, PageFacts
  <1> DEFINE b == Cardinality(B)
             p == Cardinality(P)
             Rank(t) == Cardinality(Before(t))
  <1>4. /\ R \subseteq Transfers /\ B \subseteq R /\ P \subseteq R
        /\ n \in Nat /\ b \in Nat /\ p \in Nat
        /\ offset \in Nat /\ total \in Nat /\ limit \in Int
        /\ \A t \in Transfers : shown[t] \in Nat
    BY <1>2, <1>3, OfFacts DEF TypeOK
  <1>5. ASSUME NEW t \in R
        PROVE  /\ Rank(t) \in Nat /\ Rank(t) < n
               /\ t \in B => Rank(t) < b
               /\ t \in P /\ Untied(t) => b <= Rank(t) /\ Rank(t) < b + p
               /\ t \notin B \cup P /\ Untied(t) => b + p <= Rank(t)
    <2>1. Before(t) \subseteq Transfers
      BY <1>4 DEF Before
    <2> QED
      BY <2>1, <1>2, <1>3, <1>5, OfFacts, Ranks
  <1>6. /\ reader = "page" /\ UNCHANGED <<world, limit, total, slipped, must, call, reply>>
    BY DEF ReadPage
  <1>7. Committed' = Committed /\ made' = made
    BY <1>6 DEF Committed, world
  <1>8. /\ Of(Owner)' = R /\ Old' = Old /\ Old \subseteq R
        /\ \A u \in Old : (Untied(u)' <=> Untied(u)) /\ Before(u)' = Before(u)
    BY <1>6, <1>7, SameRows DEF HInv
  <1>9. /\ \A t \in Transfers : shown'[t] = shown[t] + IF t \in P THEN 1 ELSE 0
        /\ shown' \in [Transfers -> Nat]
    BY <1>1, <1>4
  <1>10. /\ offset' = offset + p /\ offset' \in Nat
         /\ reader' \in {"count", "done"}
         /\ reader' = "done" => until' \in {"short", "total"}
         /\ reader' = "done" /\ until' = "short" => p # limit \/ limit <= 0
         /\ reader' = "done" /\ until' = "total" => offset' >= total
         /\ until' \in {"none", "short", "total"}
    BY <1>1, <1>2, <1>4 DEF TypeOK
  <1>11. /\ b = IF offset <= n THEN offset ELSE n
         /\ p # limit \/ limit <= 0 => p = n - b
    BY <1>3
  <1> HIDE DEF R, n, b, p, Rank
  <1>12. TypeOK'
    BY <1>2, <1>6, <1>9, <1>10 DEF TypeOK, world
  <1>13. ASSUME NEW t \in Old, Untied(t), shown'[t] = 0
         PROVE  offset' <= Rank(t) /\ Rank(t) < n
    <2>1. t \in R /\ t \in Transfers /\ t \notin P /\ shown[t] = 0
      BY <1>4, <1>8, <1>9, <1>13
    <2>2. offset <= Rank(t)
      BY <1>6, <1>13, <2>1 DEF HInv, WalkInv, AheadInv, Walking, Rank
    <2>3. t \notin B
      BY <1>4, <1>5, <1>11, <2>1, <2>2
    <2>4. b + p <= Rank(t) /\ Rank(t) < n /\ Rank(t) \in Nat
      BY <1>5, <1>13, <2>1, <2>3
    <2> QED
      BY <1>4, <1>10, <1>11, <2>4
  <1>14. \A t \in Old : Untied(t) /\ shown'[t] = 0 => Rank(t) \in Nat
    BY <1>5, <1>8
  <1>15. AheadInv'
    BY <1>8, <1>10, <1>13, <1>14 DEF AheadInv, Rank
  <1>16. TotalInv'
    BY <1>10 DEF TotalInv
  <1>17. /\ total <= n
         /\ ~slipped => total = n
    BY <1>6 DEF HInv, WalkInv, TotalInv, R, n
  <1>18. WalkIsComplete'
    <2> SUFFICES ASSUME reader' = "done", until' = "short" \/ ~slipped',
                        NEW t \in Old, Untied(t), ~(shown'[t] > 0)
                 PROVE  FALSE
      BY <1>8 DEF WalkIsComplete
    <2>1. shown'[t] = 0
      BY <1>4, <1>8, <1>9
    <2>2. offset' <= Rank(t) /\ Rank(t) < n /\ Rank(t) \in Nat
      BY <2>1, <1>13, <1>14
    <2>3. CASE until' = "short"
      BY <2>2, <2>3, <1>4, <1>10, <1>11
    <2>4. CASE until' = "total" /\ ~slipped
      BY <2>2, <2>4, <1>4, <1>10, <1>17
    <2> QED
      BY <2>3, <2>4, <1>6, <1>10
  <1>19. TotalIsCovered'
    <2> SUFFICES ASSUME reader' = "done", until' = "short"
                 PROVE  total' <= offset'
      BY DEF TotalIsCovered
    <2> QED
      BY <1>4, <1>6, <1>10, <1>11, <1>17
  <1>20. PrefixInv'
    <2> SUFFICES ASSUME Quiet' PROVE PrefixInv'
      BY DEF PrefixInv
    <2>1. R = Old /\ (\A t \in Old : Untied(t)) /\ Quiet
      BY <1>8 DEF Quiet, R
    <2>2. /\ offset <= n /\ total = n
          /\ \A t \in Transfers :
               shown[t] = IF t \in R /\ Rank(t) < offset THEN 1 ELSE 0
      BY <1>6, <2>1 DEF HInv, WalkInv, PrefixInv, Walking, n, Rank
    <2>3. b = offset
      BY <1>11, <2>2
    <2>4. offset' <= n
      <3>1. B \cup P \subseteq R /\ B \cap P = {}
        BY <1>3 DEF R
      <3>2. Cardinality(B \cup P) = b + p
        BY <3>1, <1>4, Disjoint DEF b, p
      <3>3. Cardinality(B \cup P) <= n
        BY <3>1, <1>4, Smaller DEF n
      <3> QED
        BY <3>2, <3>3, <2>3, <1>4, <1>10
    <2>5. ASSUME NEW t \in Transfers
          PROVE  shown'[t] = IF t \in R /\ Rank(t) < offset' THEN 1 ELSE 0
      <3>1. CASE t \notin R
        BY <3>1, <2>2, <1>4, <1>9
      <3>2. CASE t \in R
        <4>1. /\ Rank(t) \in Nat
              /\ t \in B => Rank(t) < b
              /\ t \in P => b <= Rank(t) /\ Rank(t) < b + p
              /\ t \notin B /\ t \notin P => b + p <= Rank(t)
          BY <1>5, <2>1, <3>2
        <4>2. t \in B => t \notin P
          BY <1>3
        <4>3. shown[t] = IF Rank(t) < offset THEN 1 ELSE 0
          BY <2>2, <3>2
        <4>4. shown'[t] = shown[t] + IF t \in P THEN 1 ELSE 0
          BY <1>9
        <4> QED
          BY <3>2, <4>1, <4>2, <4>3, <4>4, <2>3, <1>4, <1>10
      <3> QED
        BY <3>1, <3>2
    <2>6. reader' = "done" => offset' = n
      <3>1. CASE reader' = "done" /\ until' = "short"
        BY <3>1, <2>3, <1>4, <1>10, <1>11
      <3>2. CASE reader' = "done" /\ until' = "total"
        BY <3>2, <2>2, <2>4, <1>4, <1>10
      <3> QED
        BY <3>1, <3>2, <1>10
    <2> QED
      BY <2>1, <2>2, <2>4, <2>5, <2>6, <1>6, <1>8 DEF PrefixInv, n, Rank
  <1>21. (must \subseteq Committed)' /\ ReplyInv'
    BY <1>6, <1>7, <1>10, NoReply DEF HInv
  <1> QED
    BY <1>12, <1>15, <1>16, <1>18, <1>19, <1>20, <1>21 DEF HInv, WalkInv

LEMMA AskInv == HInv /\ Ask => HInv'
  <1> SUFFICES ASSUME HInv, Ask PROVE HInv'
    OBVIOUS
  <1>1. TypeOK'
    BY OfFacts DEF HInv, TypeOK, Ask, world, walk
  <1>2. WalkInv'
    BY NoWalk DEF Ask
  <1>3. (must \subseteq Committed)'
    BY DEF Ask, world, Committed
  <1>4. ReplyInv'
    BY DEF Ask, ReplyInv, AskedInv, RepliesAreTrue, LookupIsTrue, FilterIsTrue
  <1> QED
    BY <1>1, <1>2, <1>3, <1>4 DEF HInv

\* An answer to the single call.
LEMMA AnswerInv ==
    ASSUME HInv, reader = "asked", NEW status, NEW rows,
           status \in {"Ok", "BadRequest", "NotFound", "Missing", "Internal"},
           rows \subseteq Transfers, Answer(status, rows), RepliesAreTrue',
           call.op = "Filter" /\ status = "Ok" => ~Refused(call.query)
    PROVE  HInv'
  <1>1. TypeOK'
    BY DEF HInv, TypeOK, Answer, world, walk
  <1>2. WalkInv'
    BY NoWalk DEF Answer
  <1>3. (must \subseteq Committed)'
    BY DEF HInv, Answer, world, Committed
  <1>4. ReplyInv'
    BY DEF HInv, ReplyInv, AskedInv, Answer
  <1> QED
    BY <1>1, <1>2, <1>3, <1>4 DEF HInv

LEMMA GetTransactionInv == HInv /\ GetTransaction => HInv'
  <1> SUFFICES ASSUME HInv, GetTransaction PROVE HInv'
    OBVIOUS
  <1>1. PICK status \in {"Missing", "NotFound", "Ok"}, rows \in SUBSET Transfers :
          /\ Answer(status, rows)
          /\ status = "Missing" => call.tx \notin Committed
          /\ status = "NotFound" => call.user \notin Parties(call.tx)
          /\ status = "Ok" => rows = {call.tx} /\ call.user \in Parties(call.tx)
    <2>1. CASE call.tx \notin Committed /\ Answer("Missing", {})
      BY <2>1
    <2>2. CASE call.user \notin Parties(call.tx) /\ Answer("NotFound", {})
      BY <2>2
    <2>3. CASE /\ call.tx \in Committed /\ call.user \in Parties(call.tx)
               /\ Answer("Ok", {call.tx})
      <3>1. {call.tx} \in SUBSET Transfers
        BY <2>3, OfFacts
      <3> QED
        BY <2>3, <3>1
    <2> QED
      BY <2>1, <2>2, <2>3 DEF GetTransaction
  <1>2. /\ reply' = [status |-> status, rows |-> rows]
        /\ call' = call /\ must' = must
    BY <1>1 DEF Answer
  <1>3. call.op = "Get"
    BY DEF GetTransaction
  <1>4. RepliesAreTrue'
    BY <1>1, <1>2, <1>3 DEF HInv, RepliesAreTrue, LookupIsTrue, FilterIsTrue, Parties
  <1> QED
    BY <1>1, <1>3, <1>4, AnswerInv DEF GetTransaction

LEMMA TransactionFilterInv == HInv /\ TransactionFilter => HInv'
  <1> SUFFICES ASSUME HInv, TransactionFilter PROVE HInv'
    OBVIOUS
  <1> DEFINE q == call.query
  <1>1. PICK status \in {"BadRequest", "Internal", "Ok"},
             rows \in SUBSET Transfers :
             /\ Answer(status, rows)
             /\ status = "Ok" =>
                  /\ ~Refused(q) /\ Garbage \notin {q.min, q.max}
                  /\ rows \in Pages(q)
    <2>1. Pages(q) \subseteq SUBSET Transfers
      BY OfFacts DEF Pages
    <2> QED
      BY <2>1 DEF TransactionFilter
  <1>2. /\ reader = "asked" /\ call.op = "Filter" /\ call' = call
        /\ must' = must /\ made' = made /\ phase' = phase
        /\ reply' = [status |-> status, rows |-> rows]
    BY <1>1 DEF TransactionFilter, Answer, world
  <1>3. call \in Calls
    BY <1>2 DEF HInv, ReplyInv, AskedInv
  <1>4. LookupIsTrue'
    BY <1>2 DEF LookupIsTrue
  <1>5. CASE status = "Ok"
    <2>1. /\ \A t \in rows : /\ t \in Committed /\ Sought(t, q)
                            /\ AfterOffset(t, rows, q)
          /\ q.limit > 0 => Cardinality(rows) <= q.limit
          /\ \A t \in must \ rows :
               Sought(t, q) => BehindPage(t, rows, q) \/ WithinOffset(t, rows, q)
      BY <1>1, <1>2, <1>3, <1>5, PageIsTrue
    <2>2. FilterIsTrue'
      BY <1>2, <2>1 DEF FilterIsTrue, Sought, Day, AfterOffset, BehindPage,
         WithinOffset, Committed
    <2> QED
      BY <1>1, <1>2, <1>4, <2>2, AnswerInv DEF RepliesAreTrue
  <1>6. CASE status # "Ok"
    <2>1. FilterIsTrue'
      BY <1>2, <1>6 DEF FilterIsTrue
    <2> QED
      BY <1>1, <1>2, <1>4, <2>1, AnswerInv DEF RepliesAreTrue
  <1> QED
    BY <1>5, <1>6

LEMMA FailCallInv == HInv /\ FailCall => HInv'
  <1> SUFFICES ASSUME HInv, FailCall PROVE HInv'
    OBVIOUS
  <1>1. reader = "asked" /\ Answer("Internal", {}) /\ reply'.status = "Internal"
    BY DEF FailCall, Answer
  <1>2. RepliesAreTrue'
    BY <1>1 DEF RepliesAreTrue, LookupIsTrue, FilterIsTrue
  <1> QED
    BY <1>1, <1>2, AnswerInv

-----------------------------------------------------------------------------
(* The theorems *)

LEMMA InitInv == Init => HInv
  <1> SUFFICES ASSUME Init PROVE HInv
    OBVIOUS
  <1>1. TypeOK
    <2>1. clock \in 0..MaxTime /\ made \in [Transfers -> 0..MaxTime]
      BY DEF Init
    <2>2. phase \in [Transfers -> {"idle", "open", "committed", "aborted"}]
      BY DEF Init
    <2>3. shown \in [Transfers -> Nat] /\ must \subseteq Transfers
      BY DEF Init
    <2>4. /\ limit \in Int /\ offset \in Nat /\ total \in Nat
          /\ reader = "idle" /\ until = "none" /\ slipped = FALSE
          /\ call = Unset /\ reply = [status |-> "None", rows |-> {}]
      BY DEF Init
    <2> QED
      BY <2>1, <2>2, <2>3, <2>4 DEF TypeOK
  <1>2. WalkInv
    BY DEF Init, WalkInv, AheadInv, TotalInv, PrefixInv, WalkIsComplete,
           TotalIsCovered, Walking
  <1>3. must \subseteq Committed /\ ReplyInv
    BY DEF Init, ReplyInv, AskedInv, RepliesAreTrue, LookupIsTrue, FilterIsTrue
  <1> QED
    BY <1>1, <1>2, <1>3 DEF HInv

LEMMA StutterInv == HInv /\ UNCHANGED vars => HInv'
  <1> SUFFICES ASSUME HInv, UNCHANGED vars PROVE HInv'
    OBVIOUS
  <1>1. Committed' = Committed /\ UNCHANGED <<reader, walk, slipped, must, made>>
    BY DEF vars, walk, Committed
  <1>2. WalkInv'
    BY <1>1, Undisturbed DEF HInv
  <1>3. TypeOK' /\ (must \subseteq Committed)' /\ ReplyInv'
    BY <1>1, OfFacts, RepliesStand DEF HInv, TypeOK, vars
  <1> QED
    BY <1>2, <1>3 DEF HInv

LEMMA NextInv == HInv /\ [Next]_vars => HInv'
  BY TickInv, BeginInv, CommitInv, AbortInv, StartWalkInv, CountTotalInv,
     ReadPageInv, FailPageInv, AskInv, GetTransactionInv, TransactionFilterInv,
     FailCallInv, StutterInv
  DEF Next

\* What holds of every reader, whatever the transfers, the limits and the calls
\* are: what a walk has not shown is still ahead of it, a count is exceeded only
\* by rows that came in since (HInv).
THEOREM HistoryInvariant == Spec => []HInv
  BY InitInv, NextInv, PTL DEF Spec

\* A walk that ends has shown every row of the account there was when it began,
\* unless rows share a created_at or the client went by an old total
\* (GetTransactions, AccountTransactions).
THEOREM WalksAreComplete == Spec => []WalkIsComplete
  <1>1. HInv => WalkIsComplete
    BY DEF HInv, WalkInv
  <1> QED
    BY <1>1, HistoryInvariant, PTL

\* Who reads up to a page that is not full has been shown at least as many rows
\* as it was told there are (TotalTransactions, then GetTransactions).
THEOREM TotalsAreCovered == Spec => []TotalIsCovered
  <1>1. HInv => TotalIsCovered
    BY DEF HInv, WalkInv
  <1> QED
    BY <1>1, HistoryInvariant, PTL

\* A walk during which nothing commits shows the account's rows once each and
\* nothing else (LIMIT, OFFSET and ORDER BY of GetTransactions).
THEOREM QuietWalksAreExact == Spec => []QuietWalkIsExact
  <1>1. HInv => QuietWalkIsExact
    <2> SUFFICES ASSUME HInv, reader = "done", Of(Owner) = Old,
                        \A t \in Old : Untied(t)
                 PROVE  /\ \A t \in Transfers :
                             shown[t] = IF t \in Old THEN 1 ELSE 0
                        /\ total = Cardinality(Old)
      BY DEF QuietWalkIsExact
    <2>1. /\ \A t \in Transfers :
               shown[t] = IF t \in Old /\ Cardinality(Before(t)) < offset
                          THEN 1 ELSE 0
          /\ offset = Cardinality(Old) /\ total = Cardinality(Old)
      BY DEF HInv, WalkInv, PrefixInv, Quiet, Walking
    <2>2. \A t \in Old : Cardinality(Before(t)) < Cardinality(Old)
      <3> SUFFICES ASSUME NEW t \in Old
                   PROVE  Cardinality(Before(t)) < Cardinality(Old)
        OBVIOUS
      <3>1. Before(t) \subseteq Old /\ t \in Old \ Before(t)
        BY DEF HInv, TypeOK, Before, Of, Committed
      <3>2. Old \subseteq Transfers
        BY OfFacts
      <3> QED
        BY <3>1, <3>2, Smaller
    <2> QED
      BY <2>1, <2>2
  <1> QED
    BY <1>1, HistoryInvariant, PTL

\* A transfer that was committed before a call of GetTransaction is neither missing
\* nor denied to a party, and shown to nobody else; and whatever commits meanwhile,
\* the rows GetTransactionFilter replies with are committed, are what was asked for
\* and are the page that limit and offset name.
THEOREM RepliesTrue == Spec => []RepliesAreTrue
  <1>1. HInv => RepliesAreTrue
    BY DEF HInv, ReplyInv
  <1> QED
    BY <1>1, HistoryInvariant, PTL
=============================================================================
