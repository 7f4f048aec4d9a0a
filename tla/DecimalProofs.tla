---------------------------- MODULE DecimalProofs -----------------------------
(***************************************************************************)
(* Theorems about Decimal for texts of any length, any exponents and any   *)
(* NUMERIC(Precision, Scale): amounts are compared, added, printed,        *)
(* refused and stored exactly.                                             *)
(***************************************************************************)
EXTENDS Decimal, WellFoundedInduction, TLAPS

-----------------------------------------------------------------------------
(* Induction, as a statement about sets *)

LEMMA Least ==
    ASSUME NEW T \in SUBSET Nat, T # {}
    PROVE  \E n \in T : \A m \in T : n <= m
  <1> DEFINE R == OpToRel(<, Nat)
  <1>1. \A m, n \in Nat : <<m, n>> \in R <=> m < n
    BY DEF OpToRel
  <1>2. IsWellFoundedOn(R, Nat)
    BY NatLessThanWellFounded
  <1> HIDE DEF R
  <1>3. PICK n \in T : \A m \in T : ~(<<m, n>> \in R)
    BY <1>2, WFMin
  <1>4. n \in Nat /\ \A m \in T : m \in Nat /\ ~(m < n)
    BY <1>1, <1>3
  <1>5. \A m \in T : n <= m
    BY <1>4
  <1> QED
    BY <1>3, <1>5

LEMMA Induction ==
    ASSUME NEW S, 0 \in S, \A n \in Nat : n \in S => n + 1 \in S
    PROVE  \A n \in Nat : n \in S
  <1> DEFINE Bad == {n \in Nat : n \notin S}
  <1> SUFFICES ASSUME Bad # {} PROVE FALSE
    OBVIOUS
  <1>1. PICK n \in Bad : \A m \in Bad : n <= m
    BY Least
  <1>2. n \in Nat \ {0}
    BY <1>1
  <1>3. n - 1 \in Nat /\ (n - 1) + 1 = n /\ ~(n <= n - 1)
    BY <1>2
  <1>4. n - 1 \in S
    BY <1>1, <1>3
  <1> QED
    BY <1>1, <1>3, <1>4

-----------------------------------------------------------------------------
(* Powers of ten *)

IsPow(g, n) == g = [i \in 0..n |-> IF i = 0 THEN 1 ELSE 10 * g[i - 1]]

LEMMA PowUnique ==
    ASSUME NEW m \in Nat, NEW n \in Nat, m <= n, NEW g, NEW h,
           IsPow(g, m), IsPow(h, n)
    PROVE  \A i \in 0..m : g[i] = h[i]
  <1> DEFINE S == {i \in Nat : i <= m => g[i] = h[i]}
  <1>1. /\ \A i \in 0..m : g[i] = IF i = 0 THEN 1 ELSE 10 * g[i - 1]
        /\ \A i \in 0..n : h[i] = IF i = 0 THEN 1 ELSE 10 * h[i - 1]
    BY DEF IsPow
  <1>2. 0 \in S
    BY <1>1
  <1>3. ASSUME NEW i \in Nat, i \in S
        PROVE  i + 1 \in S
    <2> SUFFICES ASSUME i + 1 <= m PROVE g[i + 1] = h[i + 1]
      OBVIOUS
    <2>1. g[i] = h[i] /\ i + 1 \in 0..m /\ i + 1 \in 0..n /\ (i + 1) - 1 = i
          /\ i + 1 # 0
      BY <1>3
    <2>2. g[i + 1] = 10 * g[i] /\ h[i + 1] = 10 * h[i]
      BY <1>1, <2>1
    <2> QED
      BY <2>1, <2>2
  <1> HIDE DEF S
  <1>4. \A i \in Nat : i \in S
    BY <1>2, <1>3, Induction
  <1> QED
    BY <1>4 DEF S

LEMMA PowExists == \A n \in Nat : \E g : IsPow(g, n)
  <1> DEFINE S == {n \in Nat : \E g : IsPow(g, n)}
  <1>1. 0 \in S
    <2>1. IsPow([i \in 0..0 |-> 1], 0)
      BY DEF IsPow
    <2> QED
      BY <2>1
  <1>2. ASSUME NEW n \in Nat, n \in S
        PROVE  n + 1 \in S
    <2>1. PICK g : IsPow(g, n)
      BY <1>2
    <2> DEFINE next(i) == IF i = 0 THEN 1 ELSE 10 * g[i - 1]
               h == [i \in 0..(n + 1) |-> next(i)]
    <2>2. \A i \in 0..n : g[i] = next(i)
      BY <2>1 DEF IsPow
    <2>3. \A i \in 0..(n + 1) : i # 0 => i - 1 \in 0..n /\ i - 1 \in 0..(n + 1)
      OBVIOUS
    <2>4. \A i \in 0..(n + 1) : h[i] = IF i = 0 THEN 1 ELSE 10 * h[i - 1]
      BY <2>2, <2>3
    <2>5. IsPow(h, n + 1)
      BY <2>4 DEF IsPow
    <2> QED
      BY <2>5
  <1> HIDE DEF S
  <1>3. \A n \in Nat : n \in S
    BY <1>1, <1>2, Induction
  <1> QED
    BY <1>3 DEF S

LEMMA PowDef == Pow10 = [n \in Nat |-> IF n = 0 THEN 1 ELSE 10 * Pow10[n - 1]]
  <1> DEFINE G(n) == CHOOSE g : IsPow(g, n)
             P == [n \in Nat |-> G(n)[n]]
  <1>1. \A n \in Nat : IsPow(G(n), n)
    BY PowExists
  <1> HIDE DEF G
  <1>2. ASSUME NEW n \in Nat
        PROVE  P[n] = IF n = 0 THEN 1 ELSE 10 * P[n - 1]
    <2>1. G(n)[n] = IF n = 0 THEN 1 ELSE 10 * G(n)[n - 1]
      BY <1>1 DEF IsPow
    <2>2. ASSUME n # 0 PROVE G(n)[n - 1] = G(n - 1)[n - 1]
      <3>1. n - 1 \in Nat /\ n - 1 <= n /\ n - 1 \in 0..(n - 1)
        BY <2>2
      <3>2. IsPow(G(n - 1), n - 1) /\ IsPow(G(n), n)
        BY <1>1, <3>1
      <3> QED
        BY <3>1, <3>2, PowUnique
    <2>3. n # 0 => n - 1 \in Nat
      OBVIOUS
    <2> QED
      BY <2>1, <2>2, <2>3
  <1>3. P = [n \in Nat |-> IF n = 0 THEN 1 ELSE 10 * P[n - 1]]
    BY <1>2
  <1> HIDE DEF P
  <1>4. \E p : p = [n \in Nat |-> IF n = 0 THEN 1 ELSE 10 * p[n - 1]]
    BY <1>3
  <1> QED
    BY <1>4 DEF Pow10

LEMMA PowStep ==
    Pow10[0] = 1 /\ \A n \in Nat : Pow10[n + 1] = 10 * Pow10[n]
  <1>1. \A n \in Nat : Pow10[n] = IF n = 0 THEN 1 ELSE 10 * Pow10[n - 1]
    BY PowDef
  <1>2. \A n \in Nat : n + 1 \in Nat /\ n + 1 # 0 /\ (n + 1) - 1 = n
    OBVIOUS
  <1> QED
    BY <1>1, <1>2

LEMMA PowPositive == \A n \in Nat : Pow10[n] \in Nat \ {0} /\ n < Pow10[n]
  <1> DEFINE S == {n \in Nat : Pow10[n] \in Nat \ {0} /\ n < Pow10[n]}
  <1>1. 0 \in S
    BY PowStep
  <1>2. \A n \in Nat : n \in S => n + 1 \in S
    BY PowStep
  <1> HIDE DEF S
  <1>3. \A n \in Nat : n \in S
    BY <1>1, <1>2, Induction
  <1> QED
    BY <1>3 DEF S

LEMMA PowAdd ==
    ASSUME NEW m \in Nat, NEW n \in Nat
    PROVE  Pow10[m + n] = Pow10[m] * Pow10[n]
  <1> DEFINE S == {k \in Nat : Pow10[m + k] = Pow10[m] * Pow10[k]}
  <1>1. 0 \in S
    BY PowStep, PowPositive
  <1>2. ASSUME NEW k \in Nat, k \in S
        PROVE  k + 1 \in S
    <2>1. Pow10[m + (k + 1)] = 10 * Pow10[m + k]
      <3>1. m + (k + 1) = (m + k) + 1 /\ m + k \in Nat
        OBVIOUS
      <3> QED
        BY <3>1, PowStep
    <2>2. Pow10[k + 1] = 10 * Pow10[k] /\ Pow10[m + k] = Pow10[m] * Pow10[k]
      BY <1>2, PowStep
    <2>3. Pow10[m] \in Nat /\ Pow10[k] \in Nat
      BY PowPositive
    <2> QED
      BY <2>1, <2>2, <2>3
  <1> HIDE DEF S
  <1>3. \A k \in Nat : k \in S
    BY <1>1, <1>2, Induction
  <1> QED
    BY <1>3 DEF S

LEMMA PowLess ==
    ASSUME NEW m \in Nat, NEW n \in Nat, m < n
    PROVE  10 * Pow10[m] <= Pow10[n]
  <1> DEFINE d == n - (m + 1)
  <1>1. d \in Nat /\ n = (m + 1) + d /\ m + 1 \in Nat
    OBVIOUS
  <1> HIDE DEF d
  <1>2. Pow10[n] = (10 * Pow10[m]) * Pow10[d]
    BY <1>1, PowAdd, PowStep
  <1>3. Pow10[m] \in Nat /\ Pow10[d] \in Nat \ {0}
    BY <1>1, PowPositive
  <1> QED
    BY <1>2, <1>3

-----------------------------------------------------------------------------
(* The value of a sequence of digits *)

IsValue(v, digits, n) ==
    v = [i \in 0..n |-> IF i = 0 THEN 0 ELSE 10 * v[i - 1] + digits[i]]

LEMMA ValueUnique ==
    ASSUME NEW m \in Nat, NEW n \in Nat, m <= n, NEW d, NEW e, NEW v, NEW w,
           \A i \in 1..m : d[i] = e[i], IsValue(v, d, m), IsValue(w, e, n)
    PROVE  \A i \in 0..m : v[i] = w[i]
  <1> DEFINE S == {i \in Nat : i <= m => v[i] = w[i]}
  <1>1. /\ \A i \in 0..m : v[i] = IF i = 0 THEN 0 ELSE 10 * v[i - 1] + d[i]
        /\ \A i \in 0..n : w[i] = IF i = 0 THEN 0 ELSE 10 * w[i - 1] + e[i]
    BY DEF IsValue
  <1>2. 0 \in S
    BY <1>1
  <1>3. ASSUME NEW i \in Nat, i \in S
        PROVE  i + 1 \in S
    <2> SUFFICES ASSUME i + 1 <= m PROVE v[i + 1] = w[i + 1]
      OBVIOUS
    <2>1. v[i] = w[i] /\ i + 1 \in 0..m /\ i + 1 \in 0..n /\ (i + 1) - 1 = i
          /\ i + 1 # 0 /\ i + 1 \in 1..m
      BY <1>3
    <2>2. v[i + 1] = 10 * v[i] + d[i + 1] /\ w[i + 1] = 10 * w[i] + e[i + 1]
      BY <1>1, <2>1
    <2> QED
      BY <2>1, <2>2
  <1> HIDE DEF S
  <1>4. \A i \in Nat : i \in S
    BY <1>2, <1>3, Induction
  <1> QED
    BY <1>4 DEF S

LEMMA ValueExists ==
    ASSUME NEW d
    PROVE  \A n \in Nat : \E v : IsValue(v, d, n)
  <1> DEFINE S == {n \in Nat : \E v : IsValue(v, d, n)}
  <1>1. 0 \in S
    <2>1. IsValue([i \in 0..0 |-> 0], d, 0)
      BY DEF IsValue
    <2> QED
      BY <2>1
  <1>2. ASSUME NEW n \in Nat, n \in S
        PROVE  n + 1 \in S
    <2>1. PICK v : IsValue(v, d, n)
      BY <1>2
    <2> DEFINE next(i) == IF i = 0 THEN 0 ELSE 10 * v[i - 1] + d[i]
               w == [i \in 0..(n + 1) |-> next(i)]
    <2>2. \A i \in 0..n : v[i] = next(i)
      BY <2>1 DEF IsValue
    <2>3. \A i \in 0..(n + 1) : i # 0 => i - 1 \in 0..n /\ i - 1 \in 0..(n + 1)
      OBVIOUS
    <2>4. \A i \in 0..(n + 1) : w[i] = IF i = 0 THEN 0 ELSE 10 * w[i - 1] + d[i]
      BY <2>2, <2>3
    <2>5. IsValue(w, d, n + 1)
      BY <2>4 DEF IsValue
    <2> QED
      BY <2>5
  <1> HIDE DEF S
  <1>3. \A n \in Nat : n \in S
    BY <1>1, <1>2, Induction
  <1> QED
    BY <1>3 DEF S

LEMMA ValueIs ==
    ASSUME NEW d, NEW n \in Nat
    PROVE  \E v : IsValue(v, d, n) /\ Value(d, n) = v[n]
  <1> DEFINE v == CHOOSE f : IsValue(f, d, n)
  <1>1. IsValue(v, d, n)
    BY ValueExists
  <1>2. Value(d, n) = v[n]
    BY DEF Value, IsValue
  <1> QED
    BY <1>1, <1>2

\* Only the first digits count.
LEMMA ValueAgrees ==
    ASSUME NEW n \in Nat, NEW d, NEW e, \A i \in 1..n : d[i] = e[i]
    PROVE  Value(d, n) = Value(e, n)
  <1>1. PICK v : IsValue(v, d, n) /\ Value(d, n) = v[n]
    BY ValueIs
  <1>2. PICK w : IsValue(w, e, n) /\ Value(e, n) = w[n]
    BY ValueIs
  <1>3. n \in 0..n /\ n <= n
    OBVIOUS
  <1> QED
    BY <1>1, <1>2, <1>3, ValueUnique

LEMMA ValueStep ==
    ASSUME NEW d
    PROVE  Value(d, 0) = 0
           /\ \A n \in Nat : Value(d, n + 1) = 10 * Value(d, n) + d[n + 1]
  <1>1. Value(d, 0) = 0
    BY ValueIs DEF IsValue
  <1>2. ASSUME NEW n \in Nat
        PROVE  Value(d, n + 1) = 10 * Value(d, n) + d[n + 1]
    <2>1. PICK v : IsValue(v, d, n + 1) /\ Value(d, n + 1) = v[n + 1]
      BY ValueIs
    <2>2. PICK w : IsValue(w, d, n) /\ Value(d, n) = w[n]
      BY ValueIs
    <2>3. n \in 0..n /\ n <= n + 1 /\ n + 1 \in Nat
      OBVIOUS
    <2>4. w[n] = v[n]
      BY <2>1, <2>2, <2>3, ValueUnique
    <2>5. v[n + 1] = 10 * v[n] + d[n + 1]
      <3>1. n + 1 \in 0..(n + 1) /\ n + 1 # 0 /\ (n + 1) - 1 = n
        OBVIOUS
      <3> QED
        BY <2>1, <3>1 DEF IsValue
    <2> QED
      BY <2>1, <2>2, <2>4, <2>5
  <1> QED
    BY <1>1, <1>2

LEMMA ValueBound ==
    ASSUME NEW d, NEW n \in Nat, \A i \in 1..n : d[i] \in 0..9
    PROVE  Value(d, n) \in Nat /\ Value(d, n) < Pow10[n]
  <1> DEFINE S == {k \in Nat : k <= n => Value(d, k) \in Nat /\ Value(d, k) < Pow10[k]}
  <1>1. 0 \in S
    BY ValueStep, PowStep
  <1>2. ASSUME NEW k \in Nat, k \in S
        PROVE  k + 1 \in S
    <2> SUFFICES ASSUME k + 1 <= n
                 PROVE  Value(d, k + 1) \in Nat /\ Value(d, k + 1) < Pow10[k + 1]
      OBVIOUS
    <2>1. Value(d, k) \in Nat /\ Value(d, k) < Pow10[k] /\ Pow10[k] \in Nat
      BY <1>2, PowPositive
    <2>2. d[k + 1] \in 0..9
      OBVIOUS
    <2>3. /\ Value(d, k + 1) = 10 * Value(d, k) + d[k + 1]
          /\ Pow10[k + 1] = 10 * Pow10[k]
      BY ValueStep, PowStep
    <2> QED
      BY <2>1, <2>2, <2>3
  <1> HIDE DEF S
  <1>3. \A k \in Nat : k \in S
    BY <1>1, <1>2, Induction
  <1>4. n \in S
    BY <1>3
  <1> QED
    BY <1>4 DEF S

\* Digits that follow others.
LEMMA ValueConcat ==
    ASSUME NEW s \in Seq(0..9), NEW t \in Seq(0..9)
    PROVE  Number(s \o t) = Number(s) * Pow10[Len(t)] + Number(t)
  <1> DEFINE S == {k \in Nat : k <= Len(t) =>
                     Value(s \o t, Len(s) + k)
                       = Value(s, Len(s)) * Pow10[k] + Value(t, k)}
  <1>1. /\ Len(s) \in Nat /\ Len(t) \in Nat
        /\ Len(s \o t) = Len(s) + Len(t)
        /\ \A i \in 1..Len(s) : (s \o t)[i] = s[i]
        /\ \A i \in 1..Len(t) : (s \o t)[Len(s) + i] = t[i]
    OBVIOUS
  <1>2. Value(s, Len(s)) \in Nat /\ \A k \in 0..Len(t) : Value(t, k) \in Nat
    <2>1. \A i \in 1..Len(s) : s[i] \in 0..9
      OBVIOUS
    <2>2. \A i \in 1..Len(t) : t[i] \in 0..9
      OBVIOUS
    <2>3. \A k \in 0..Len(t) : k \in Nat /\ \A i \in 1..k : t[i] \in 0..9
      BY <2>2
    <2> QED
      BY <1>1, <2>1, <2>3, ValueBound
  <1>3. 0 \in S
    <2>1. Value(s \o t, Len(s)) = Value(s, Len(s))
      BY <1>1, ValueAgrees
    <2>2. Len(s) + 0 = Len(s) /\ Value(t, 0) = 0 /\ Pow10[0] = 1
      BY <1>1, PowStep, ValueStep
    <2>3. Value(s, Len(s)) * 1 + 0 = Value(s, Len(s))
      BY <1>2
    <2>4. Value(s \o t, Len(s) + 0) = Value(s, Len(s)) * Pow10[0] + Value(t, 0)
      BY <2>1, <2>2, <2>3
    <2> QED
      BY <2>4
  <1>4. ASSUME NEW k \in Nat, k \in S
        PROVE  k + 1 \in S
    <2> SUFFICES ASSUME k + 1 <= Len(t)
                 PROVE  Value(s \o t, Len(s) + (k + 1))
                          = Value(s, Len(s)) * Pow10[k + 1] + Value(t, k + 1)
      OBVIOUS
    <2>1. Value(s \o t, Len(s) + k) = Value(s, Len(s)) * Pow10[k] + Value(t, k)
      BY <1>1, <1>4
    <2>2. k + 1 \in 1..Len(t) /\ k \in 0..Len(t)
      BY <1>1
    <2>3. (s \o t)[Len(s) + (k + 1)] = t[k + 1] /\ t[k + 1] \in 0..9
      BY <1>1, <2>2
    <2>4. Value(s \o t, Len(s) + (k + 1))
            = 10 * Value(s \o t, Len(s) + k) + t[k + 1]
      <3>1. Len(s) + (k + 1) = (Len(s) + k) + 1 /\ Len(s) + k \in Nat
        BY <1>1
      <3> QED
        BY <2>3, <3>1, ValueStep
    <2>5. Value(t, k + 1) = 10 * Value(t, k) + t[k + 1]
          /\ Pow10[k + 1] = 10 * Pow10[k]
      BY ValueStep, PowStep
    <2>6. Value(s, Len(s)) \in Nat /\ Value(t, k) \in Nat /\ Pow10[k] \in Nat
      BY <1>2, <2>2, PowPositive
    <2> DEFINE A == Value(s, Len(s))
               P == Pow10[k]
               B == Value(t, k)
               C == t[k + 1]
    <2>7. A \in Nat /\ P \in Nat /\ B \in Nat /\ C \in Nat
      BY <2>3, <2>6
    <2>8. /\ Value(s \o t, Len(s) + (k + 1)) = 10 * (A * P + B) + C
          /\ Value(s, Len(s)) * Pow10[k + 1] + Value(t, k + 1)
               = A * (10 * P) + (10 * B + C)
      BY <2>1, <2>4, <2>5
    <2> HIDE DEF A, P, B, C
    <2>9. 10 * (A * P + B) + C = A * (10 * P) + (10 * B + C)
      BY <2>7
    <2> QED
      BY <2>8, <2>9
  <1> HIDE DEF S
  <1>5. \A k \in Nat : k \in S
    BY <1>3, <1>4, Induction
  <1>6. Len(t) \in S
    BY <1>1, <1>5
  <1> QED
    BY <1>1, <1>6 DEF S, Number

LEMMA NumberType ==
    ASSUME NEW s \in Seq(0..9)
    PROVE  Number(s) \in Nat /\ Number(s) < Pow10[Len(s)]
  <1>1. Len(s) \in Nat /\ \A i \in 1..Len(s) : s[i] \in 0..9
    OBVIOUS
  <1> QED
    BY <1>1, ValueBound DEF Number

-----------------------------------------------------------------------------
(* Comparing and adding *)

Text == [neg: BOOLEAN, whole: Seq(0..9), frac: Seq(0..9), exp: Int]
Decimals == [value: Int, exp: (-Finest)..Finest]

LEMMA Constants ==
    /\ Texts \subseteq Text
    /\ Finest \in Nat /\ Scale \in Nat /\ Precision \in Nat
    /\ Scale <= Precision /\ Precision > 0 /\ Scale <= Finest
  BY DecimalAssumption DEF Text, Finest

LEMMA TextDigits ==
    ASSUME NEW t \in Text
    PROVE  /\ t.neg \in BOOLEAN /\ t.whole \in Seq(0..9) /\ t.frac \in Seq(0..9)
           /\ t.exp \in Int /\ Len(t.frac) \in Nat /\ Len(t.whole) \in Nat
           /\ t.whole \o t.frac \in Seq(0..9)
           /\ Len(t.whole \o t.frac) = Len(t.whole) + Len(t.frac)
           /\ ParsedExp(t) \in Int /\ ParsedExp(t) = t.exp - Len(t.frac)
  <1>1. t.neg \in BOOLEAN /\ t.whole \in Seq(0..9) /\ t.frac \in Seq(0..9)
        /\ t.exp \in Int
    BY DEF Text
  <1> QED
    BY <1>1 DEF ParsedExp

LEMMA SignedType ==
    ASSUME NEW neg \in BOOLEAN, NEW n \in Nat, NEW p \in Nat
    PROVE  Signed(neg, n) \in Int /\ Signed(neg, n) * p = Signed(neg, n * p)
  BY DEF Signed

\* What NewFromString makes of a text that parses is its value.
LEMMA ParsedIsExact ==
    ASSUME NEW t \in Text, Parses(t)
    PROVE  NewFromString(t) \in Decimals /\ ExactOf(NewFromString(t)) = Exact(t)
  <1> DEFINE n == Number(t.whole \o t.frac)
             e == ParsedExp(t)
  <1>1. n \in Nat
    BY TextDigits, NumberType
  <1>2. e \in (-Finest)..Finest
    <2>1. e \in Int /\ Abs(e) <= Finest /\ Finest \in Nat
      BY TextDigits, Constants DEF Parses, Finest
    <2> QED
      BY <2>1 DEF Abs
  <1>3. Finest + e \in Nat
    BY <1>2, Constants
  <1>4. Pow10[Finest + e] \in Nat
    BY <1>3, PowPositive
  <1>5. t.neg \in BOOLEAN
    BY TextDigits
  <1>6. /\ NewFromString(t) = [value |-> Signed(t.neg, n), exp |-> e]
        /\ Exact(t) = Signed(t.neg, n * Pow10[Finest + e])
    BY DEF NewFromString, Exact
  <1> HIDE DEF n, e
  <1>7. Signed(t.neg, n) \in Int
        /\ Signed(t.neg, n) * Pow10[Finest + e] = Signed(t.neg, n * Pow10[Finest + e])
    BY <1>1, <1>4, <1>5, SignedType
  <1> QED
    BY <1>2, <1>6, <1>7 DEF Decimals, ExactOf

\* rescale towards a smaller exponent loses nothing.
LEMMA RescaleIsExact ==
    ASSUME NEW d \in Decimals, NEW e \in (-Finest)..Finest, e <= d.exp
    PROVE  /\ Rescale(d, e).value \in Int
           /\ Rescale(d, e).value * Pow10[Finest + e] = ExactOf(d)
  <1>1. d.value \in Int /\ d.exp \in (-Finest)..Finest /\ Finest \in Nat
    BY Constants DEF Decimals
  <1>2. d.exp - e \in Nat /\ Finest + e \in Nat
        /\ Finest + d.exp = (d.exp - e) + (Finest + e) /\ ~(e > d.exp)
    BY <1>1
  <1>3. Rescale(d, e).value = d.value * Pow10[d.exp - e]
    BY <1>2 DEF Rescale
  <1>4. Pow10[d.exp - e] \in Nat /\ Pow10[Finest + e] \in Nat
    BY <1>2, PowPositive
  <1>5. Pow10[Finest + d.exp] = Pow10[d.exp - e] * Pow10[Finest + e]
    BY <1>2, PowAdd
  <1> DEFINE a == d.value
             p == Pow10[d.exp - e]
             q == Pow10[Finest + e]
  <1>6. a \in Int /\ p \in Int /\ q \in Int
    BY <1>1, <1>4
  <1>7. /\ Rescale(d, e).value = a * p
        /\ ExactOf(d) = a * (p * q) /\ Pow10[Finest + e] = q
    BY <1>3, <1>5 DEF ExactOf
  <1> HIDE DEF a, p, q
  <1>8. a * p \in Int /\ (a * p) * q = a * (p * q)
    BY <1>6
  <1> QED
    BY <1>7, <1>8

LEMMA SgnScaled ==
    ASSUME NEW a \in Int, NEW b \in Int, NEW p \in Nat \ {0}
    PROVE  /\ Sgn(a - b) = Sgn(a * p - b * p)
           /\ (a + b) * p = a * p + b * p
           /\ (a - b) * p = a * p - b * p
  <1> DEFINE c == a - b
  <1>1. (a + b) * p = a * p + b * p /\ c * p = a * p - b * p /\ c \in Int
    OBVIOUS
  <1> HIDE DEF c
  <1>2. (c < 0 <=> c * p < 0) /\ (c = 0 <=> c * p = 0)
    BY <1>1
  <1>3. Sgn(c) = Sgn(c * p)
    BY <1>2 DEF Sgn
  <1> QED
    BY <1>1, <1>3 DEF c

\* Cmp, Add and Sub of any two decimals within the bound of exponents.
LEMMA ExactArithmetic ==
    ASSUME NEW d \in Decimals, NEW e \in Decimals
    PROVE  /\ Cmp(d, e) = Sgn(ExactOf(d) - ExactOf(e))
           /\ ExactOf(Add(d, e)) = ExactOf(d) + ExactOf(e)
           /\ ExactOf(Sub(d, e)) = ExactOf(d) - ExactOf(e)
  <1> DEFINE x == CommonExp(d, e)
             a == Rescale(d, x).value
             b == Rescale(e, x).value
             p == Pow10[Finest + x]
  <1>1. x \in (-Finest)..Finest /\ x <= d.exp /\ x <= e.exp
    BY Constants DEF Decimals, CommonExp
  <1>2. a \in Int /\ b \in Int /\ a * p = ExactOf(d) /\ b * p = ExactOf(e)
    BY <1>1, RescaleIsExact
  <1>3. p \in Nat \ {0}
    <2>1. Finest + x \in Nat
      BY <1>1, Constants
    <2> QED
      BY <2>1, PowPositive
  <1>4. /\ Cmp(d, e) = Sgn(a - b)
        /\ ExactOf(Add(d, e)) = (a + b) * p
        /\ ExactOf(Sub(d, e)) = (a - b) * p
    BY DEF Cmp, Add, Sub, ExactOf
  <1> HIDE DEF x, a, b, p
  <1>5. /\ Sgn(a - b) = Sgn(a * p - b * p)
        /\ (a + b) * p = a * p + b * p
        /\ (a - b) * p = a * p - b * p
    BY <1>2, <1>3, SgnScaled
  <1> QED
    BY <1>2, <1>4, <1>5

-----------------------------------------------------------------------------
(* The digits of a natural *)

IsWidth(n, k) == n < Pow10[k] /\ (k > 1 => Pow10[k - 1] <= n)

LEMMA WidthExists ==
    ASSUME NEW n \in Nat
    PROVE  \E k \in 1..(n + 1) : IsWidth(n, k)
  <1> DEFINE T == {k \in Nat : k > 0 /\ n < Pow10[k]}
  <1>1. n + 1 \in T
    <2>1. n + 1 \in Nat /\ Pow10[n + 1] \in Nat /\ n + 1 < Pow10[n + 1]
      BY PowPositive
    <2> QED
      BY <2>1
  <1>2. PICK k \in T : \A m \in T : k <= m
    BY <1>1, Least
  <1>3. k \in 1..(n + 1) /\ n < Pow10[k]
    BY <1>1, <1>2
  <1>4. ASSUME k > 1 PROVE Pow10[k - 1] <= n
    <2>1. k - 1 \in Nat /\ k - 1 > 0 /\ k - 1 \notin T
      BY <1>2, <1>3, <1>4
    <2>2. Pow10[k - 1] \in Nat /\ ~(n < Pow10[k - 1])
      BY <2>1, PowPositive
    <2> QED
      BY <2>2
  <1> QED
    BY <1>3, <1>4 DEF IsWidth

LEMMA WidthUnique ==
    ASSUME NEW n \in Nat, NEW k \in Nat \ {0}, NEW l \in Nat \ {0},
           IsWidth(n, k), IsWidth(n, l)
    PROVE  k = l
  <1>1. ASSUME NEW i \in Nat \ {0}, NEW j \in Nat \ {0}, i < j,
               IsWidth(n, i), IsWidth(n, j)
        PROVE  FALSE
    <2>1. j > 1 /\ j - 1 \in Nat /\ i \in Nat /\ (i < j - 1 \/ i = j - 1)
      BY <1>1
    <2>2. n < Pow10[i] /\ Pow10[j - 1] <= n
      BY <1>1, <2>1 DEF IsWidth
    <2>3. Pow10[i] \in Nat /\ Pow10[j - 1] \in Nat
      BY <2>1, PowPositive
    <2>4. Pow10[i] <= Pow10[j - 1]
      <3>1. CASE i < j - 1
        BY <2>1, <2>3, <3>1, PowLess
      <3>2. CASE i = j - 1
        BY <2>3, <3>2
      <3> QED
        BY <2>1, <3>1, <3>2
    <2> QED
      BY <2>2, <2>3, <2>4
  <1>2. k < l \/ l < k \/ k = l
    OBVIOUS
  <1> QED
    BY <1>1, <1>2

LEMMA WidthIs ==
    ASSUME NEW n \in Nat
    PROVE  Width(n) \in Nat \ {0} /\ IsWidth(n, Width(n))
  <1>1. \E k \in 1..(n + 1) : n < Pow10[k] /\ (k > 1 => Pow10[k - 1] <= n)
    BY WidthExists DEF IsWidth
  <1>2. /\ Width(n) \in 1..(n + 1)
        /\ n < Pow10[Width(n)]
        /\ Width(n) > 1 => Pow10[Width(n) - 1] <= n
    BY <1>1 DEF Width
  <1> QED
    BY <1>2 DEF IsWidth

\* The last w digits of a natural, with the zeros before it.
LastDigits(n, w) == [i \in 1..w |-> (n \div Pow10[w - i]) % 10]

LEMMA LastDigitsType ==
    ASSUME NEW n \in Nat, NEW w \in Nat
    PROVE  LastDigits(n, w) \in Seq(0..9) /\ Len(LastDigits(n, w)) = w
  <1>1. ASSUME NEW i \in 1..w
        PROVE  (n \div Pow10[w - i]) % 10 \in 0..9
    <2>1. w - i \in Nat
      OBVIOUS
    <2>2. Pow10[w - i] \in Nat \ {0}
      BY <2>1, PowPositive
    <2>3. n \div Pow10[w - i] \in Int
      BY <2>2
    <2> QED
      BY <2>3
  <1> QED
    BY <1>1 DEF LastDigits

LEMMA LastDigitsValue ==
    ASSUME NEW n \in Nat, NEW w \in Nat
    PROVE  Number(LastDigits(n, w)) = n % Pow10[w]
  <1> DEFINE D == LastDigits(n, w)
             q(i) == n \div Pow10[w - i]
             S == {i \in Nat : i <= w => Value(D, i) = q(i) % Pow10[i]}
  <1>1. \A i \in 0..w : w - i \in Nat /\ Pow10[w - i] \in Nat \ {0} /\ q(i) \in Nat
    <2>1. ASSUME NEW i \in 0..w
          PROVE  w - i \in Nat /\ Pow10[w - i] \in Nat \ {0}
      <3>1. w - i \in Nat
        OBVIOUS
      <3> QED
        BY <3>1, PowPositive
    <2>2. ASSUME NEW i \in 0..w PROVE q(i) \in Nat
      <3>1. Pow10[w - i] \in Nat \ {0}
        BY <2>1
      <3> QED
        BY <3>1
    <2> QED
      BY <2>1, <2>2
  <1>2. 0 \in S
    <2>1. q(0) \in Nat /\ q(0) % 1 = 0
      BY <1>1
    <2> QED
      BY <2>1, ValueStep, PowStep
  <1>3. ASSUME NEW i \in Nat, i \in S
        PROVE  i + 1 \in S
    <2> SUFFICES ASSUME i + 1 <= w
                 PROVE  Value(D, i + 1) = q(i + 1) % Pow10[i + 1]
      OBVIOUS
    <2>1. i \in 0..w /\ i + 1 \in 1..w /\ i + 1 \in 0..w
      OBVIOUS
    <2>2. Value(D, i) = q(i) % Pow10[i]
      BY <1>3
    <2>3. Value(D, i + 1) = 10 * Value(D, i) + D[i + 1]
      BY ValueStep
    <2>4. D[i + 1] = q(i + 1) % 10
      BY <2>1 DEF LastDigits
    <2>5. q(i) = q(i + 1) \div 10
      <3>1. w - i = (w - (i + 1)) + 1 /\ w - (i + 1) \in Nat
        OBVIOUS
      <3>2. Pow10[w - i] = 10 * Pow10[w - (i + 1)]
        BY <3>1, PowStep
      <3>3. Pow10[w - (i + 1)] \in Nat \ {0}
        BY <2>1, <1>1
      <3> QED
        BY <3>2, <3>3
    <2>6. Pow10[i + 1] = 10 * Pow10[i] /\ Pow10[i] \in Nat \ {0}
      BY PowStep, PowPositive
    <2>7. q(i + 1) \in Nat
      BY <1>1, <2>1
    <2> DEFINE a == q(i + 1)
               p == Pow10[i]
               v == Value(D, i + 1)
    <2>8. a \in Nat /\ p \in Nat \ {0} /\ v = 10 * ((a \div 10) % p) + (a % 10)
      BY <2>2, <2>3, <2>4, <2>5, <2>6, <2>7
    <2>9. q(i + 1) = a /\ Pow10[i + 1] = 10 * p /\ Value(D, i + 1) = v
      BY <2>6
    <2> HIDE DEF a, p, v
    <2>10. v = a % (10 * p)
      <3>1. PICK h \in Nat, r \in Nat : a \div 10 = p * h + r /\ r < p
                                        /\ (a \div 10) % p = r
        <4>1. a \div 10 \in Nat
          BY <2>8
        <4>2. /\ (a \div 10) \div p \in Nat /\ (a \div 10) % p \in Nat
              /\ (a \div 10) % p < p
              /\ a \div 10 = p * ((a \div 10) \div p) + ((a \div 10) % p)
          BY <2>8, <4>1
        <4> QED
          BY <4>2
      <3>2. a % 10 \in 0..9 /\ a = 10 * (a \div 10) + (a % 10)
        BY <2>8
      <3> DEFINE c == a % 10
      <3>3. c \in 0..9 /\ v = 10 * r + c /\ a = 10 * (p * h + r) + c
        BY <2>8, <3>1, <3>2
      <3> HIDE DEF c
      <3>4. 10 * (p * h + r) + c = (10 * p) * h + (10 * r + c)
        BY <2>8, <3>1, <3>3
      <3>5. 10 * r + c \in Nat /\ 10 * r + c < 10 * p /\ 10 * p \in Nat
        BY <2>8, <3>1, <3>3
      <3> DEFINE m == 10 * p
                 s == 10 * r + c
      <3>6. a = m * h + s /\ s \in Nat /\ m \in Nat /\ s < m /\ h \in Nat
        BY <3>1, <3>3, <3>4, <3>5
      <3>7. v = s
        BY <3>3
      <3> HIDE DEF m, s
      <3>8. a % m = s
        BY <3>6
      <3> QED
        BY <3>7, <3>8 DEF m
    <2> QED
      BY <2>9, <2>10
  <1>4. Len(D) = w
    BY LastDigitsType
  <1>5. q(w) = n
    <2>1. w - w = 0 /\ Pow10[0] = 1
      BY PowStep
    <2> QED
      BY <2>1
  <1> HIDE DEF S
  <1>6. \A i \in Nat : i \in S
    BY <1>2, <1>3, Induction
  <1>7. Value(D, w) = q(w) % Pow10[w]
    BY <1>6 DEF S
  <1> QED
    BY <1>4, <1>5, <1>7 DEF Number

\* Digits are the digits of the natural, without zeros before it.
LEMMA DigitsAre ==
    ASSUME NEW n \in Nat
    PROVE  /\ Digits(n) \in Seq(0..9) /\ Len(Digits(n)) = Width(n)
           /\ Number(Digits(n)) = n
           /\ Len(Digits(n)) > 1 => Digits(n)[1] # 0
  <1> DEFINE w == Width(n)
  <1>1. w \in Nat \ {0} /\ n < Pow10[w] /\ (w > 1 => Pow10[w - 1] <= n)
    BY WidthIs DEF IsWidth
  <1>2. Digits(n) = LastDigits(n, w)
    BY DEF Digits, LastDigits
  <1> HIDE DEF w
  <1>3. Digits(n) \in Seq(0..9) /\ Len(Digits(n)) = w
    BY <1>1, <1>2, LastDigitsType
  <1>4. Number(Digits(n)) = n
    <2>1. Number(Digits(n)) = n % Pow10[w]
      BY <1>1, <1>2, LastDigitsValue
    <2>2. Pow10[w] \in Nat
      BY <1>1, PowPositive
    <2> QED
      BY <1>1, <2>1, <2>2
  <1>5. ASSUME w > 1 PROVE Digits(n)[1] # 0
    <2>1. w - 1 \in Nat /\ w = (w - 1) + 1 /\ 1 \in 1..w
      BY <1>1, <1>5
    <2> DEFINE p == Pow10[w - 1]
    <2>2. p \in Nat \ {0} /\ Pow10[w] = 10 * p
      BY <2>1, PowPositive, PowStep
    <2>3. Digits(n)[1] = (n \div p) % 10
      BY <1>2, <2>1 DEF LastDigits
    <2>4. p <= n /\ n < 10 * p
      BY <1>1, <1>5, <2>2
    <2> HIDE DEF p
    <2>5. n \div p \in 1..9
      BY <2>2, <2>4
    <2> QED
      BY <2>3, <2>5
  <1> QED
    BY <1>3, <1>4, <1>5 DEF w

-----------------------------------------------------------------------------
(* Printing *)

LEMMA Greatest ==
    ASSUME NEW n \in Nat, NEW T \in SUBSET (0..n), T # {}
    PROVE  Max(T) \in T /\ \A m \in T : m <= Max(T)
  <1> DEFINE U == {x \in Nat : n - x \in T}
  <1>1. PICK m \in T : TRUE
    OBVIOUS
  <1>2. n - m \in Nat /\ n - (n - m) = m
    BY <1>1
  <1>3. U # {} /\ U \in SUBSET Nat
    BY <1>1, <1>2
  <1> HIDE DEF U
  <1>4. PICK u \in U : \A x \in U : u <= x
    BY <1>3, Least
  <1>5. u \in Nat /\ n - u \in T
    BY <1>4 DEF U
  <1>6. ASSUME NEW y \in T PROVE n - u >= y
    <2>1. n - y \in Nat /\ n - (n - y) = y /\ y \in Nat
      OBVIOUS
    <2>2. n - y \in U
      BY <2>1 DEF U
    <2>3. u <= n - y
      BY <1>4, <2>2
    <2> QED
      BY <1>5, <2>1, <2>3
  <1>7. \E x \in T : \A y \in T : x >= y
    BY <1>5, <1>6
  <1>8. Max(T) \in T /\ \A y \in T : Max(T) >= y
    BY <1>7 DEF Max
  <1>9. \A y \in T : y \in Int
    OBVIOUS
  <1> QED
    BY <1>8, <1>9

LEMMA ZerosNumber ==
    ASSUME NEW k \in Nat
    PROVE  Zeros(k) \in Seq(0..9) /\ Len(Zeros(k)) = k /\ Number(Zeros(k)) = 0
  <1>1. Zeros(k) \in Seq(0..9) /\ Len(Zeros(k)) = k
    BY DEF Zeros
  <1> DEFINE S == {i \in Nat : i <= k => Value(Zeros(k), i) = 0}
  <1>2. 0 \in S
    BY ValueStep
  <1>3. ASSUME NEW i \in Nat, i \in S
        PROVE  i + 1 \in S
    <2> SUFFICES ASSUME i + 1 <= k PROVE Value(Zeros(k), i + 1) = 0
      OBVIOUS
    <2>1. Value(Zeros(k), i) = 0 /\ Zeros(k)[i + 1] = 0
      BY <1>3 DEF Zeros
    <2>2. Value(Zeros(k), i + 1) = 10 * Value(Zeros(k), i) + Zeros(k)[i + 1]
      BY ValueStep
    <2> QED
      BY <2>1, <2>2
  <1> HIDE DEF S
  <1>4. \A i \in Nat : i \in S
    BY <1>2, <1>3, Induction
  <1> QED
    BY <1>1, <1>4 DEF S, Number

\* Zeros before the digits of a number, or after them.
LEMMA ZerosAround ==
    ASSUME NEW s \in Seq(0..9), NEW k \in Nat
    PROVE  /\ Number(Zeros(k) \o s) = Number(s)
           /\ Number(s \o Zeros(k)) = Number(s) * Pow10[k]
  <1>1. Zeros(k) \in Seq(0..9) /\ Len(Zeros(k)) = k /\ Number(Zeros(k)) = 0
    BY ZerosNumber
  <1>2. /\ Number(Zeros(k) \o s) = Number(Zeros(k)) * Pow10[Len(s)] + Number(s)
        /\ Number(s \o Zeros(k)) = Number(s) * Pow10[k] + Number(Zeros(k))
    BY <1>1, ValueConcat
  <1>3. Number(s) \in Nat /\ Pow10[Len(s)] \in Nat /\ Pow10[k] \in Nat
    BY NumberType, PowPositive
  <1>4. 0 * Pow10[Len(s)] + Number(s) = Number(s)
    BY <1>3
  <1>5. Number(s) * Pow10[k] + 0 = Number(s) * Pow10[k]
    BY <1>3
  <1> QED
    BY <1>1, <1>2, <1>4, <1>5

LEMMA Trimmed ==
    ASSUME NEW s \in Seq(0..9)
    PROVE  \E k \in 0..Len(s) :
              /\ WithoutTrailingZeros(s) = SubSeq(s, 1, k)
              /\ k > 0 => s[k] # 0
              /\ \A i \in (k + 1)..Len(s) : s[i] = 0
  <1> DEFINE T == {0} \cup {i \in 1..Len(s) : s[i] # 0}
             k == Max(T)
  <1>1. Len(s) \in Nat /\ T \in SUBSET (0..Len(s)) /\ T # {}
    OBVIOUS
  <1>2. k \in T /\ \A m \in T : m <= k
    BY <1>1, Greatest
  <1>3. WithoutTrailingZeros(s) = SubSeq(s, 1, k)
    BY DEF WithoutTrailingZeros
  <1> HIDE DEF k
  <1>4. k \in 0..Len(s) /\ (k > 0 => s[k] # 0)
    BY <1>1, <1>2
  <1>5. ASSUME NEW i \in (k + 1)..Len(s) PROVE s[i] = 0
    BY <1>2, <1>4
  <1> QED
    BY <1>3, <1>4, <1>5

\* The zeros that end a fraction can be left out.
LEMMA TrimmedValue ==
    ASSUME NEW w \in Seq(0..9), NEW f \in Seq(0..9),
           NEW g, g = WithoutTrailingZeros(f)
    PROVE  /\ g \in Seq(0..9) /\ Len(g) <= Len(f)
           /\ g # <<>> => g[Len(g)] # 0
           /\ Number(w \o f) = Number(w \o g) * Pow10[Len(f) - Len(g)]
  <1>1. PICK k \in 0..Len(f) : /\ g = SubSeq(f, 1, k)
                               /\ k > 0 => f[k] # 0
                               /\ \A i \in (k + 1)..Len(f) : f[i] = 0
    BY Trimmed
  <1>2. /\ g \in Seq(0..9) /\ Len(g) = k /\ k \in Nat /\ k <= Len(f)
        /\ \A i \in 1..k : g[i] = f[i]
    BY <1>1
  <1> DEFINE z == Len(f) - k
             u == w \o g
             v == u \o Zeros(z)
  <1>3. z \in Nat /\ u \in Seq(0..9) /\ Len(u) = Len(w) + k
    BY <1>1, <1>2
  <1>4. Zeros(z) \in Seq(0..9) /\ Len(Zeros(z)) = z
        /\ Number(v) = Number(u) * Pow10[z]
    BY <1>3, ZerosNumber, ZerosAround
  <1>5. w \o f \in Seq(0..9) /\ Len(w \o f) = Len(w) + Len(f)
        /\ Len(v) = Len(w) + Len(f) /\ Len(w) + Len(f) \in Nat
    <2>1. Len(w) \in Nat /\ Len(f) \in Nat /\ w \o f \in Seq(0..9)
          /\ Len(w \o f) = Len(w) + Len(f)
      OBVIOUS
    <2>2. Len(v) = Len(u) + z
      <3>1. \A a, b \in Seq(0..9) : Len(a \o b) = Len(a) + Len(b)
        OBVIOUS
      <3>2. Len(u \o Zeros(z)) = Len(u) + Len(Zeros(z))
        BY <1>3, <1>4, <3>1
      <3> QED
        BY <1>4, <3>2
    <2>3. (Len(w) + k) + z = Len(w) + Len(f)
      BY <1>2, <2>1
    <2> QED
      BY <1>3, <2>1, <2>2, <2>3
  <1>6. ASSUME NEW i \in 1..(Len(w) + Len(f))
        PROVE  (w \o f)[i] = v[i]
    <2>1. CASE i <= Len(w)
      <3>1. (w \o f)[i] = w[i] /\ u[i] = w[i] /\ i \in 1..Len(u)
        BY <1>2, <1>3, <2>1
      <3>2. v[i] = u[i]
        BY <1>3, <1>4, <3>1
      <3> QED
        BY <3>1, <3>2
    <2>2. CASE i > Len(w) /\ i <= Len(w) + k
      <3>1. (w \o f)[i] = f[i - Len(w)] /\ u[i] = g[i - Len(w)]
            /\ i \in 1..Len(u) /\ i - Len(w) \in 1..k
        BY <1>2, <1>3, <2>2
      <3>2. v[i] = u[i]
        BY <1>3, <1>4, <3>1
      <3> QED
        BY <1>2, <3>1, <3>2
    <2>3. CASE i > Len(w) + k
      <3>1. (w \o f)[i] = f[i - Len(w)] /\ i - Len(w) \in (k + 1)..Len(f)
        BY <1>2, <2>3
      <3>2. i - Len(u) \in 1..z /\ i > Len(u)
        BY <1>2, <1>3, <2>3
      <3>3. v[i] = Zeros(z)[i - Len(u)]
        BY <1>3, <1>4, <3>2
      <3>4. Zeros(z)[i - Len(u)] = 0
        BY <3>2 DEF Zeros
      <3> QED
        BY <1>1, <3>1, <3>3, <3>4
    <2>4. Len(w) \in Nat /\ k \in Nat /\ i \in Int
      BY <1>2
    <2>5. i <= Len(w) \/ (i > Len(w) /\ i <= Len(w) + k) \/ i > Len(w) + k
      BY <2>4
    <2> QED
      BY <2>1, <2>2, <2>3, <2>5
  <1>7. Number(w \o f) = Number(v)
    <2>1. Value(w \o f, Len(w) + Len(f)) = Value(v, Len(w) + Len(f))
      BY <1>5, <1>6, ValueAgrees
    <2> QED
      BY <1>5, <2>1 DEF Number
  <1>8. g # <<>> => g[Len(g)] # 0
    BY <1>1, <1>2
  <1> QED
    BY <1>2, <1>4, <1>7, <1>8

LEMMA ConcatAt ==
    ASSUME NEW s \in Seq(0..9), NEW t \in Seq(0..9), NEW i \in 1..(Len(s) + Len(t))
    PROVE  (s \o t)[i] = IF i <= Len(s) THEN s[i] ELSE t[i - Len(s)]
  OBVIOUS

\* The point is put among the digits, or zeros between it and the digits.
Whole(digits, point) == IF point > 0 THEN SubSeq(digits, 1, point) ELSE <<0>>
Frac(digits, point) ==
    IF point > 0 THEN SubSeq(digits, point + 1, Len(digits))
    ELSE Zeros(-point) \o digits

LEMMA PointPut ==
    ASSUME NEW s \in Seq(0..9), Len(s) > 0, Len(s) > 1 => s[1] # 0,
           NEW m \in Nat, m > 0
    PROVE  /\ Whole(s, Len(s) - m) \in Seq(0..9) /\ Whole(s, Len(s) - m) # <<>>
           /\ Len(Whole(s, Len(s) - m)) > 1 => Whole(s, Len(s) - m)[1] # 0
           /\ Frac(s, Len(s) - m) \in Seq(0..9) /\ Len(Frac(s, Len(s) - m)) = m
           /\ Number(Whole(s, Len(s) - m) \o Frac(s, Len(s) - m)) = Number(s)
  <1> DEFINE p == Len(s) - m
             w == Whole(s, p)
             f == Frac(s, p)
  <1>1. Len(s) \in Nat /\ p \in Int /\ Len(s) = p + m
    OBVIOUS
  <1> SUFFICES /\ w \in Seq(0..9) /\ w # <<>>
               /\ Len(w) > 1 => w[1] # 0
               /\ f \in Seq(0..9) /\ Len(f) = m
               /\ Number(w \o f) = Number(s)
    OBVIOUS
  <1> HIDE DEF p
  <1>2. CASE p > 0
    <2>1. /\ w = SubSeq(s, 1, p) /\ f = SubSeq(s, p + 1, Len(s))
          /\ p \in Nat /\ p <= Len(s) /\ p + 1 \in Nat
      BY <1>1, <1>2 DEF Whole, Frac
    <2>2. w \in Seq(0..9) /\ Len(w) = p /\ \A i \in 1..p : w[i] = s[i]
      BY <1>1, <2>1
    <2>3. f \in Seq(0..9) /\ Len(f) = m /\ \A i \in 1..m : f[i] = s[p + i]
      <3>1. (Len(s) - (p + 1)) + 1 = m
        BY <1>1, <2>1
      <3>2. f \in Seq(0..9) /\ Len(f) = m
        BY <1>1, <1>2, <2>1, <3>1
      <3>3. ASSUME NEW i \in 1..m PROVE f[i] = s[p + i]
        <4>1. i \in 1..((Len(s) - (p + 1)) + 1) /\ (p + 1) + i - 1 = p + i
          BY <2>1, <3>1
        <4> QED
          BY <1>1, <2>1, <4>1
      <3> QED
        BY <3>2, <3>3
    <2> HIDE DEF w, f
    <2>4. Len(w \o f) = Len(s)
      BY <1>1, <2>2, <2>3
    <2>5. ASSUME NEW i \in 1..Len(s) PROVE (w \o f)[i] = s[i]
      <3>1. CASE i <= p
        BY <1>1, <2>1, <2>2, <2>3, <3>1
      <3>2. CASE i > p
        <4>1. i - p \in 1..m /\ p + (i - p) = i
          BY <1>1, <3>2
        <4>2. (w \o f)[i] = f[i - p]
          <5>1. i \in 1..(Len(w) + Len(f)) /\ ~(i <= Len(w))
            BY <1>1, <2>2, <2>3, <3>2
          <5>2. (w \o f)[i] = f[i - Len(w)]
            BY <2>2, <2>3, <5>1, ConcatAt
          <5> QED
            BY <2>2, <5>2
        <4> QED
          BY <2>3, <4>1, <4>2
      <3>3. i \in Int /\ (i <= p \/ i > p)
        BY <1>1
      <3> QED
        BY <3>1, <3>2, <3>3
    <2>6. Value(w \o f, Len(s)) = Value(s, Len(s))
      BY <1>1, <2>5, ValueAgrees
    <2> QED
      BY <1>1, <1>2, <2>2, <2>3, <2>4, <2>6 DEF Number
  <1>3. CASE ~(p > 0)
    <2>1. w = <<0>> /\ f = Zeros(-p) \o s /\ -p \in Nat
      BY <1>1, <1>3 DEF Whole, Frac
    <2>2. Zeros(-p) \in Seq(0..9) /\ Len(Zeros(-p)) = -p
          /\ Number(Zeros(-p) \o s) = Number(s)
      BY <2>1, ZerosNumber, ZerosAround
    <2>3. f \in Seq(0..9) /\ Len(f) = m
      <3>1. -p + Len(s) = m
        BY <1>1
      <3>2. \A a, b \in Seq(0..9) : a \o b \in Seq(0..9) /\ Len(a \o b) = Len(a) + Len(b)
        OBVIOUS
      <3> QED
        BY <2>1, <2>2, <3>1, <3>2
    <2>4. w = Zeros(1)
      BY <2>1 DEF Zeros
    <2>5. Number(w \o f) = Number(f)
      BY <2>3, <2>4, ZerosAround
    <2>6. w \in Seq(0..9) /\ w # <<>> /\ Len(w) = 1
      BY <2>1
    <2> QED
      BY <2>1, <2>2, <2>3, <2>5, <2>6
  <1> QED
    BY <1>2, <1>3

\* The one shortest way to write an amount.
Canonical(t) ==
    /\ t.exp = 0
    /\ Len(t.frac) <= Finest
    /\ t.whole # <<>>
    /\ Len(t.whole) > 1 => t.whole[1] # 0
    /\ t.frac # <<>> => t.frac[Len(t.frac)] # 0
    /\ t.neg => Number(t.whole \o t.frac) # 0

LEMMA AbsSigned ==
    ASSUME NEW v \in Int, NEW p \in Nat
    PROVE  /\ Abs(v) \in Nat /\ Signed(v < 0, Abs(v) * p) = v * p
           /\ v < 0 => Abs(v) # 0
  BY DEF Abs, Signed

LEMMA StringOfLarge ==
    ASSUME NEW d \in Decimals, d.exp >= 0
    PROVE  /\ String(d) \in Text /\ Canonical(String(d))
           /\ Exact(String(d)) = ExactOf(d)
  <1>1. d.value \in Int /\ d.exp \in Nat /\ Finest \in Nat
    BY Constants DEF Decimals
  <1> DEFINE v == d.value
             p == Pow10[d.exp]
             q == Pow10[Finest]
             n == Abs(v * p)
             t == String(d)
  <1>2. p \in Nat \ {0} /\ q \in Nat \ {0} /\ v \in Int
    BY <1>1, PowPositive
  <1>3. v * p \in Int /\ (v * p < 0 <=> v < 0)
    BY <1>2
  <1>4. Rescale(d, 0).value = v * p
    <2>1. CASE d.exp = 0
      <3>1. ~(0 > d.exp) /\ d.exp - 0 = d.exp
        BY <1>1
      <3> QED
        BY <3>1 DEF Rescale
    <2>2. CASE d.exp # 0
      <3>1. ~(0 > d.exp) /\ d.exp - 0 = d.exp
        BY <1>1
      <3> QED
        BY <3>1 DEF Rescale
    <2> QED
      BY <2>1, <2>2
  <1>5. t = [neg |-> v < 0, whole |-> Digits(n), frac |-> <<>>, exp |-> 0]
    BY <1>4 DEF String
  <1>6. n \in Nat /\ (v < 0 => n # 0)
    BY <1>3 DEF Abs
  <1>7. /\ Digits(n) \in Seq(0..9) /\ Len(Digits(n)) \in Nat \ {0}
        /\ Number(Digits(n)) = n
        /\ Len(Digits(n)) > 1 => Digits(n)[1] # 0
    <2>1. Width(n) \in Nat \ {0}
      BY <1>6, WidthIs
    <2>2. Digits(n) \in Seq(0..9) /\ Len(Digits(n)) = Width(n)
          /\ Number(Digits(n)) = n /\ (Len(Digits(n)) > 1 => Digits(n)[1] # 0)
      BY <1>6, DigitsAre
    <2> QED
      BY <2>1, <2>2
  <1>8. ExactOf(d) = (v * p) * q
    <2>1. Finest + d.exp = d.exp + Finest
      BY <1>1
    <2>2. Pow10[Finest + d.exp] = p * q
      BY <1>1, <2>1, PowAdd
    <2>3. ExactOf(d) = v * (p * q)
      BY <2>2 DEF ExactOf
    <2> HIDE DEF v, p, q
    <2> QED
      BY <1>2, <2>3
  <1> DEFINE s == Digits(n)
  <1>9. s \in Seq(0..9) /\ s # <<>> /\ s \o <<>> = s
    <2> HIDE DEF s
    <2>1. s \in Seq(0..9) /\ Len(s) \in Nat \ {0}
      BY <1>7 DEF s
    <2> QED
      BY <2>1
  <1>10. <<>> \in Seq(0..9) /\ Len(<<>>) = 0
    OBVIOUS
  <1> HIDE DEF n, v, p, q, s
  <1>11. t \in Text
    BY <1>5, <1>9, <1>10 DEF Text, s
  <1>12. Number(t.whole \o t.frac) = n /\ ParsedExp(t) = 0 /\ t.neg = (v < 0)
    BY <1>5, <1>7, <1>9, <1>10 DEF ParsedExp, s
  <1>13. Canonical(t)
    <2>1. t.exp = 0 /\ t.frac = <<>> /\ t.whole = s /\ Len(t.frac) <= Finest
      BY <1>1, <1>5, <1>10 DEF s
    <2>2. Len(s) > 1 => s[1] # 0
      BY <1>7 DEF s
    <2>3. t.neg => n # 0
      BY <1>6, <1>12
    <2> QED
      BY <1>9, <1>12, <2>1, <2>2, <2>3 DEF Canonical
  <1>14. Exact(t) = Signed(v < 0, n * q)
    <2>1. Finest + 0 = Finest
      BY <1>1
    <2> QED
      BY <1>12, <2>1 DEF Exact, q
  <1>15. Signed(v < 0, n * q) = (v * p) * q
    <2> DEFINE x == v * p
    <2>1. x \in Int /\ q \in Nat /\ n = Abs(x) /\ (v < 0) = (x < 0)
      BY <1>2, <1>3 DEF n
    <2> HIDE DEF x
    <2>2. Signed(x < 0, Abs(x) * q) = x * q
      BY <2>1, AbsSigned
    <2> QED
      BY <2>1, <2>2 DEF x
  <1> QED
    BY <1>8, <1>11, <1>13, <1>14, <1>15

LEMMA StringOfSmall ==
    ASSUME NEW d \in Decimals, d.exp < 0
    PROVE  /\ String(d) \in Text /\ Canonical(String(d))
           /\ Exact(String(d)) = ExactOf(d)
  <1> DEFINE v == d.value
             m == -d.exp
             s == Digits(Abs(v))
             w == Whole(s, Len(s) - m)
             f == Frac(s, Len(s) - m)
             g == WithoutTrailingZeros(f)
             t == String(d)
  <1>1. v \in Int /\ m \in Nat /\ m > 0 /\ m <= Finest /\ Finest \in Nat
    BY Constants DEF Decimals
  <1>2. Abs(v) \in Nat /\ (v < 0 => Abs(v) # 0)
    BY <1>1 DEF Abs
  <1>3. s \in Seq(0..9) /\ Len(s) > 0 /\ (Len(s) > 1 => s[1] # 0)
        /\ Number(s) = Abs(v)
    <2>1. Width(Abs(v)) \in Nat \ {0}
      BY <1>2, WidthIs
    <2>2. s \in Seq(0..9) /\ Len(s) = Width(Abs(v)) /\ Number(s) = Abs(v)
          /\ (Len(s) > 1 => s[1] # 0)
      BY <1>2, DigitsAre
    <2> HIDE DEF s
    <2> QED
      BY <2>1, <2>2
  <1>4. t = [neg |-> v < 0, whole |-> w, frac |-> g, exp |-> 0]
    <2>1. Len(s) + d.exp = Len(s) - m /\ ~(d.exp >= 0)
      BY <1>1, <1>3 DEF Decimals
    <2>2. t = [neg |-> v < 0, whole |-> Whole(s, Len(s) + d.exp),
               frac |-> WithoutTrailingZeros(Frac(s, Len(s) + d.exp)), exp |-> 0]
      BY <2>1 DEF String, Whole, Frac
    <2> QED
      BY <2>1, <2>2
  <1> HIDE DEF s
  <1>5. /\ w \in Seq(0..9) /\ w # <<>> /\ (Len(w) > 1 => w[1] # 0)
        /\ f \in Seq(0..9) /\ Len(f) = m
        /\ Number(w \o f) = Abs(v)
    BY <1>1, <1>3, PointPut
  <1> HIDE DEF w, f
  <1>6. /\ g \in Seq(0..9) /\ Len(g) <= m
        /\ g # <<>> => g[Len(g)] # 0
        /\ Abs(v) = Number(w \o g) * Pow10[m - Len(g)]
    BY <1>5, TrimmedValue
  <1> HIDE DEF g
  <1>7. Len(g) \in Nat /\ m - Len(g) \in Nat /\ Finest - m \in Nat
        /\ w \o g \in Seq(0..9)
        /\ Finest - Len(g) = (m - Len(g)) + (Finest - m)
    <2>1. Len(g) \in Nat /\ w \o g \in Seq(0..9)
      BY <1>5, <1>6
    <2> QED
      BY <1>1, <1>6, <2>1
  <1> DEFINE n == Number(w \o g)
             p == Pow10[m - Len(g)]
             q == Pow10[Finest - m]
  <1>8. n \in Nat /\ p \in Nat /\ q \in Nat /\ Pow10[Finest - Len(g)] = p * q
    BY <1>7, NumberType, PowPositive, PowAdd
  <1>9. t \in Text /\ ParsedExp(t) = -Len(g) /\ Number(t.whole \o t.frac) = n
        /\ t.neg = (v < 0)
    <2>1. t \in Text
      BY <1>4, <1>5, <1>6 DEF Text
    <2>2. 0 - Len(g) = -Len(g)
      BY <1>7
    <2> QED
      BY <1>4, <2>1, <2>2 DEF ParsedExp
  <1>10. ExactOf(d) = v * q /\ Exact(t) = Signed(v < 0, n * (p * q))
    <2>1. Finest + d.exp = Finest - m /\ Finest + (-Len(g)) = Finest - Len(g)
      BY <1>1, <1>7 DEF Decimals
    <2> QED
      BY <1>8, <1>9, <2>1 DEF Exact, ExactOf
  <1>11. Abs(v) = n * p
    BY <1>6
  <1> HIDE DEF n, p, q, v, t
  <1>12. n * (p * q) = Abs(v) * q
    BY <1>8, <1>11
  <1>13. Signed(v < 0, Abs(v) * q) = v * q
    BY <1>1, <1>8, AbsSigned
  <1>14. v < 0 => n # 0
    BY <1>2, <1>8, <1>11
  <1>15. Canonical(t)
    <2>1. Len(g) <= Finest
      BY <1>1, <1>6, <1>7
    <2> QED
      BY <1>4, <1>5, <1>6, <1>9, <1>14, <2>1 DEF Canonical
  <1> QED
    BY <1>9, <1>10, <1>12, <1>13, <1>15 DEF t

\* String writes the value of any decimal, and in the one shortest way.
LEMMA StringIs ==
    ASSUME NEW d \in Decimals
    PROVE  /\ String(d) \in Text /\ Canonical(String(d))
           /\ Exact(String(d)) = ExactOf(d)
  <1>1. d.exp >= 0 \/ d.exp < 0
    BY Constants DEF Decimals
  <1> QED
    BY <1>1, StringOfLarge, StringOfSmall

-----------------------------------------------------------------------------
(* Equal amounts are printed alike *)

LEMMA SameDigits ==
    ASSUME NEW s \in Seq(0..9), NEW t \in Seq(0..9), Len(s) = Len(t),
           Number(s) = Number(t)
    PROVE  s = t
  <1> DEFINE n == Len(s)
             S == {i \in Nat : i <= n => Value(s, n - i) = Value(t, n - i)}
  <1>1. n \in Nat /\ Len(t) = n
        /\ \A i \in 1..n : s[i] \in 0..9 /\ t[i] \in 0..9
    OBVIOUS
  <1> HIDE DEF n
  <1>2. ASSUME NEW k \in 0..n
        PROVE  Value(s, k) \in Nat /\ Value(t, k) \in Nat
    <2>1. k \in Nat /\ \A i \in 1..k : s[i] \in 0..9 /\ t[i] \in 0..9
      BY <1>1
    <2> QED
      BY <2>1, ValueBound
  <1>3. ASSUME NEW k \in 1..n, Value(s, k) = Value(t, k)
        PROVE  Value(s, k - 1) = Value(t, k - 1) /\ s[k] = t[k]
    <2>1. k - 1 \in Nat /\ k - 1 \in 0..n /\ (k - 1) + 1 = k
      BY <1>1
    <2>2. /\ Value(s, k) = 10 * Value(s, k - 1) + s[k]
          /\ Value(t, k) = 10 * Value(t, k - 1) + t[k]
      BY <2>1, ValueStep
    <2>3. Value(s, k - 1) \in Nat /\ Value(t, k - 1) \in Nat
          /\ s[k] \in 0..9 /\ t[k] \in 0..9
      BY <1>1, <1>2, <2>1
    <2> DEFINE a == Value(s, k - 1)
               b == Value(t, k - 1)
               c == s[k]
               d == t[k]
    <2>4. 10 * a + c = 10 * b + d /\ a \in Nat /\ b \in Nat
          /\ c \in 0..9 /\ d \in 0..9
      BY <1>3, <2>2, <2>3
    <2> HIDE DEF a, b, c, d
    <2>5. a = b /\ c = d
      BY <2>4
    <2> QED
      BY <2>5 DEF a, b, c, d
  <1>4. 0 \in S
    <2>1. n - 0 = n
      BY <1>1
    <2>2. Value(s, n) = Value(t, n)
      BY <1>1 DEF Number, n
    <2> QED
      BY <2>1, <2>2
  <1>5. ASSUME NEW i \in Nat, i \in S PROVE i + 1 \in S
    <2> SUFFICES ASSUME i + 1 <= n
                 PROVE  Value(s, n - (i + 1)) = Value(t, n - (i + 1))
      OBVIOUS
    <2>1. n - i \in 1..n /\ (n - i) - 1 = n - (i + 1)
      BY <1>1
    <2>2. Value(s, n - i) = Value(t, n - i)
      BY <1>1, <1>5
    <2>3. Value(s, (n - i) - 1) = Value(t, (n - i) - 1)
      BY <1>3, <2>1, <2>2
    <2> QED
      BY <2>1, <2>3
  <1> HIDE DEF S
  <1>6. \A i \in Nat : i \in S
    BY <1>4, <1>5, Induction
  <1>7. ASSUME NEW k \in 1..n PROVE s[k] = t[k]
    <2>1. n - k \in Nat /\ n - (n - k) = k /\ n - k <= n
      BY <1>1
    <2>2. Value(s, k) = Value(t, k)
      BY <1>6, <2>1 DEF S
    <2> QED
      BY <1>3, <2>2
  <1> QED
    BY <1>1, <1>7 DEF n

\* Without zeros before it, a natural is written in one way only.
LEMMA SameNumber ==
    ASSUME NEW s \in Seq(0..9), NEW t \in Seq(0..9), s # <<>>, t # <<>>,
           Len(s) > 1 => s[1] # 0, Len(t) > 1 => t[1] # 0,
           Number(s) = Number(t)
    PROVE  s = t
  <1>1. ASSUME NEW d \in Seq(0..9), d # <<>>, Len(d) > 1 => d[1] # 0
        PROVE  Len(d) \in Nat \ {0} /\ IsWidth(Number(d), Len(d))
    <2> DEFINE n == Len(d)
               S == {i \in Nat : i + 1 <= n => Pow10[i] <= Value(d, i + 1)}
    <2>1. n \in Nat \ {0} /\ \A i \in 1..n : d[i] \in 0..9
      BY <1>1
    <2>2. Number(d) < Pow10[n]
      BY NumberType
    <2>3. ASSUME n > 1 PROVE Pow10[n - 1] <= Number(d)
      <3>1. 0 \in S
        <4>1. Value(d, 0 + 1) = d[1]
          <5>1. Value(d, 0) = 0 /\ Value(d, 0 + 1) = 10 * Value(d, 0) + d[0 + 1]
            BY ValueStep
          <5>2. 0 + 1 = 1 /\ d[1] \in 0..9
            BY <2>1
          <5> QED
            BY <5>1, <5>2
        <4>2. d[1] \in 1..9
          BY <1>1, <2>1, <2>3
        <4>3. Pow10[0] = 1
          BY PowStep
        <4> QED
          BY <4>1, <4>2, <4>3
      <3>2. ASSUME NEW i \in Nat, i \in S PROVE i + 1 \in S
        <4> SUFFICES ASSUME (i + 1) + 1 <= n
                     PROVE  Pow10[i + 1] <= Value(d, (i + 1) + 1)
          OBVIOUS
        <4>1. /\ Value(d, (i + 1) + 1) = 10 * Value(d, i + 1) + d[(i + 1) + 1]
              /\ Pow10[i + 1] = 10 * Pow10[i] /\ Pow10[i] \in Nat
          <5>1. i + 1 \in Nat
            OBVIOUS
          <5> QED
            BY <5>1, ValueStep, PowStep, PowPositive
        <4>2. d[(i + 1) + 1] \in 0..9 /\ Pow10[i] <= Value(d, i + 1)
          BY <2>1, <3>2
        <4>3. Value(d, i + 1) \in Nat
          <5>1. i + 1 \in Nat /\ \A j \in 1..(i + 1) : d[j] \in 0..9
            BY <2>1
          <5> QED
            BY <5>1, ValueBound
        <4> DEFINE a == Value(d, i + 1)
                   b == d[(i + 1) + 1]
                   p == Pow10[i]
        <4>4. a \in Nat /\ b \in 0..9 /\ p \in Nat /\ p <= a
          BY <4>1, <4>2, <4>3
        <4>5. Value(d, (i + 1) + 1) = 10 * a + b /\ Pow10[i + 1] = 10 * p
          BY <4>1
        <4> HIDE DEF a, b, p
        <4>6. 10 * p <= 10 * a + b
          BY <4>4
        <4> QED
          BY <4>5, <4>6
      <3> HIDE DEF S
      <3>3. \A i \in Nat : i \in S
        BY <3>1, <3>2, Induction
      <3>4. n - 1 \in Nat /\ (n - 1) + 1 = n
        BY <2>1
      <3>5. n - 1 \in S
        BY <3>3, <3>4
      <3>6. Pow10[n - 1] <= Value(d, n)
        BY <2>1, <3>4, <3>5 DEF S
      <3> QED
        BY <3>6 DEF Number
    <2> QED
      BY <2>1, <2>2, <2>3 DEF IsWidth
  <1>2. Len(s) = Len(t)
    <2>1. Number(s) \in Nat
      BY NumberType
    <2>2. Len(s) \in Nat \ {0} /\ IsWidth(Number(s), Len(s))
      BY <1>1
    <2>3. Len(t) \in Nat \ {0} /\ IsWidth(Number(s), Len(t))
      BY <1>1
    <2> QED
      BY <2>1, <2>2, <2>3, WidthUnique
  <1> QED
    BY <1>2, SameDigits

\* The exact value of a text with the exponent 0.
LEMMA CanonicalValue ==
    ASSUME NEW t \in Text, Canonical(t)
    PROVE  /\ Number(t.whole \o t.frac) \in Nat
           /\ Finest - Len(t.frac) \in Nat
           /\ Exact(t) = Signed(t.neg, Number(t.whole \o t.frac)
                                         * Pow10[Finest - Len(t.frac)])
  <1>1. ParsedExp(t) = -Len(t.frac) /\ Len(t.frac) \in Nat /\ Len(t.frac) <= Finest
    BY TextDigits DEF Canonical
  <1>2. Finest + (-Len(t.frac)) = Finest - Len(t.frac) /\ Finest - Len(t.frac) \in Nat
    BY <1>1, Constants
  <1>3. Number(t.whole \o t.frac) \in Nat
    BY TextDigits, NumberType
  <1> QED
    BY <1>1, <1>2, <1>3 DEF Exact

LEMMA SameSign ==
    ASSUME NEW a \in Nat, NEW b \in Nat, NEW p \in Nat \ {0}, NEW q \in Nat \ {0},
           NEW neg \in BOOLEAN, NEW pos \in BOOLEAN,
           neg => a # 0, pos => b # 0,
           Signed(neg, a * p) = Signed(pos, b * q)
    PROVE  neg = pos /\ a * p = b * q
  <1> DEFINE x == a * p
             y == b * q
  <1>1. x \in Nat /\ y \in Nat /\ (neg => x > 0) /\ (pos => y > 0)
        /\ Signed(neg, x) = Signed(pos, y)
    OBVIOUS
  <1> HIDE DEF x, y
  <1>2. neg = pos /\ x = y
    BY <1>1 DEF Signed
  <1> QED
    BY <1>2 DEF x, y

\* A digit that is not zero ends the digits of a canonical fraction.
LEMMA CanonicalEnds ==
    ASSUME NEW t \in Text, Canonical(t), Len(t.frac) > 0
    PROVE  Number(t.whole \o t.frac) % 10 # 0
  <1> DEFINE w == t.whole
             f == t.frac
             s == w \o f
             n == Len(w) + Len(f)
  <1>1. w \in Seq(0..9) /\ f \in Seq(0..9) /\ Len(w) \in Nat /\ Len(f) \in Nat
        /\ s \in Seq(0..9) /\ Len(s) = n
    BY TextDigits
  <1>2. Len(f) > 0 /\ f[Len(f)] # 0
    <2>1. f # <<>> => f[Len(f)] # 0
      BY DEF Canonical
    <2> QED
      BY <1>1, <2>1
  <1> HIDE DEF w, f
  <1>3. n \in 1..n /\ n - 1 \in Nat /\ (n - 1) + 1 = n /\ ~(n <= Len(w))
        /\ n - Len(w) = Len(f)
    BY <1>1, <1>2
  <1>4. s[n] = f[Len(f)]
    <2>1. s[n] = IF n <= Len(w) THEN w[n] ELSE f[n - Len(w)]
      BY <1>1, <1>3, ConcatAt
    <2> QED
      BY <1>3, <2>1
  <1>5. s[n] \in 1..9
    BY <1>1, <1>2, <1>4
  <1>6. Number(s) = 10 * Value(s, n - 1) + s[n]
    <2>1. Value(s, (n - 1) + 1) = 10 * Value(s, n - 1) + s[(n - 1) + 1]
      BY <1>3, ValueStep
    <2> QED
      BY <1>1, <1>3, <2>1 DEF Number
  <1>7. Value(s, n - 1) \in Nat
    <2>1. \A i \in 1..(n - 1) : s[i] \in 0..9
      BY <1>1, <1>3
    <2> QED
      BY <1>3, <2>1, ValueBound
  <1> HIDE DEF s, n
  <1>8. Number(s) % 10 # 0
    BY <1>5, <1>6, <1>7
  <1> QED
    BY <1>8 DEF s, w, f

LEMMA CanonicalUnique ==
    ASSUME NEW t \in Text, NEW u \in Text, Canonical(t), Canonical(u),
           Exact(t) = Exact(u)
    PROVE  t = u
  <1> DEFINE n(x) == Number(x.whole \o x.frac)
             l(x) == Len(x.frac)
             p(x) == Pow10[Finest - l(x)]
  <1>1. ASSUME NEW x \in Text, Canonical(x)
        PROVE  /\ n(x) \in Nat /\ l(x) \in Nat /\ Finest - l(x) \in Nat
               /\ p(x) \in Nat \ {0} /\ x.neg \in BOOLEAN /\ (x.neg => n(x) # 0)
               /\ Exact(x) = Signed(x.neg, n(x) * p(x))
               /\ l(x) > 0 => n(x) % 10 # 0
    <2>1. n(x) \in Nat /\ Finest - l(x) \in Nat
          /\ Exact(x) = Signed(x.neg, n(x) * p(x))
      BY <1>1, CanonicalValue
    <2>2. l(x) \in Nat /\ x.neg \in BOOLEAN /\ (x.neg => n(x) # 0)
      BY <1>1, TextDigits DEF Canonical
    <2>3. p(x) \in Nat \ {0}
      BY <2>1, PowPositive
    <2>4. l(x) > 0 => n(x) % 10 # 0
      BY <1>1, CanonicalEnds
    <2> QED
      BY <2>1, <2>2, <2>3, <2>4
  <1> HIDE DEF n, l, p
  <1>2. t.neg = u.neg /\ n(t) * p(t) = n(u) * p(u)
    <2>1. /\ n(t) \in Nat /\ n(u) \in Nat /\ p(t) \in Nat \ {0} /\ p(u) \in Nat \ {0}
          /\ t.neg \in BOOLEAN /\ u.neg \in BOOLEAN
          /\ t.neg => n(t) # 0
          /\ u.neg => n(u) # 0
          /\ Signed(t.neg, n(t) * p(t)) = Signed(u.neg, n(u) * p(u))
      BY <1>1
    <2> QED
      BY <2>1, SameSign
  <1>3. ASSUME NEW x \in Text, NEW y \in Text, Canonical(x), Canonical(y),
               n(x) * p(x) = n(y) * p(y), l(x) < l(y)
        PROVE  FALSE
    <2> DEFINE m == (l(y) - l(x)) - 1
    <2>1. m \in Nat /\ l(x) \in Nat /\ l(y) \in Nat /\ Finest - l(y) \in Nat
          /\ n(x) \in Nat /\ n(y) \in Nat
      BY <1>1, <1>3
    <2>2. Finest \in Nat
      BY Constants
    <2>3. Finest - l(x) = (m + 1) + (Finest - l(y)) /\ m + 1 \in Nat
      BY <2>1, <2>2
    <2> HIDE DEF m
    <2>4. p(x) = (10 * Pow10[m]) * p(y)
      BY <2>1, <2>3, PowAdd, PowStep DEF p
    <2> DEFINE a == n(x)
               b == n(y)
               q == Pow10[m]
               r == p(y)
    <2>5. a \in Nat /\ b \in Nat /\ q \in Nat /\ r \in Nat \ {0}
          /\ a * ((10 * q) * r) = b * r
      BY <1>1, <1>3, <2>1, <2>4, PowPositive
    <2> HIDE DEF a, b, q, r
    <2>6. (10 * (a * q)) * r = b * r
      BY <2>5
    <2>7. 10 * (a * q) = b
      <3> DEFINE c == 10 * (a * q)
      <3>1. c \in Nat
        BY <2>5
      <3>2. c * r = b * r
        BY <2>6
      <3> HIDE DEF c
      <3>3. c = b
        BY <2>5, <3>1, <3>2
      <3> QED
        BY <3>3 DEF c
    <2>8. a * q \in Nat
      BY <2>5
    <2>9. b % 10 = 0
      <3> DEFINE c == a * q
      <3>1. c \in Nat /\ b = 10 * c
        BY <2>7, <2>8
      <3> HIDE DEF c
      <3> QED
        BY <3>1
    <2>10. b % 10 # 0
      BY <1>1, <1>3, <2>1 DEF b
    <2> QED
      BY <2>9, <2>10
  <1>4. l(t) = l(u)
    <2>1. l(t) \in Nat /\ l(u) \in Nat
      BY <1>1
    <2>2. ~(l(t) < l(u)) /\ ~(l(u) < l(t))
      BY <1>2, <1>3
    <2> QED
      BY <2>1, <2>2
  <1>5. n(t) = n(u)
    <2>1. p(t) = p(u) /\ p(t) \in Nat \ {0} /\ n(t) \in Nat /\ n(u) \in Nat
      BY <1>1, <1>4 DEF p
    <2> QED
      BY <1>2, <2>1
  <1>6. ASSUME NEW x \in Text, Canonical(x)
        PROVE  /\ Number(x.whole) = n(x) \div Pow10[l(x)]
               /\ Number(x.frac) = n(x) % Pow10[l(x)]
    <2>1. n(x) = Number(x.whole) * Pow10[l(x)] + Number(x.frac)
      BY TextDigits, ValueConcat DEF n, l
    <2>2. Number(x.whole) \in Nat /\ Number(x.frac) \in Nat
          /\ Number(x.frac) < Pow10[l(x)]
      BY TextDigits, NumberType DEF l
    <2> DEFINE a == Number(x.whole)
               b == Number(x.frac)
               q == Pow10[l(x)]
               m == n(x)
    <2>3. a \in Nat /\ b \in Nat /\ q \in Nat /\ b < q /\ m = a * q + b
      BY <2>1, <2>2, <1>1, <1>6, PowPositive
    <2> HIDE DEF a, b, q, m
    <2>4. a = m \div q /\ b = m % q
      BY <2>3
    <2> QED
      BY <2>4 DEF a, b, q, m
  <1>7. Number(t.whole) = Number(u.whole) /\ Number(t.frac) = Number(u.frac)
    BY <1>4, <1>5, <1>6
  <1>8. t.whole = u.whole
    <2>1. /\ t.whole \in Seq(0..9) /\ u.whole \in Seq(0..9)
          /\ t.whole # <<>> /\ u.whole # <<>>
          /\ Len(t.whole) > 1 => t.whole[1] # 0
          /\ Len(u.whole) > 1 => u.whole[1] # 0
      BY TextDigits DEF Canonical
    <2> QED
      BY <1>7, <2>1, SameNumber
  <1>9. t.frac = u.frac
    <2>1. t.frac \in Seq(0..9) /\ u.frac \in Seq(0..9) /\ Len(t.frac) = Len(u.frac)
      BY <1>4, TextDigits DEF l
    <2> QED
      BY <1>7, <2>1, SameDigits
  <1>10. t.exp = u.exp
    BY DEF Canonical
  <1> QED
    BY <1>2, <1>8, <1>9, <1>10 DEF Text

\* Two decimals are printed alike if and only if they are equal: a fingerprint
\* tells amounts apart by what they are worth, however they are represented.
THEOREM StringsAreValues ==
    ASSUME NEW d \in Decimals, NEW e \in Decimals
    PROVE  String(d) = String(e) <=> Cmp(d, e) = 0
  <1>1. ExactOf(d) \in Int /\ ExactOf(e) \in Int
    <2>1. ASSUME NEW x \in Decimals PROVE ExactOf(x) \in Int
      <3>1. x.value \in Int /\ Finest + x.exp \in Nat
        BY Constants DEF Decimals
      <3>2. Pow10[Finest + x.exp] \in Nat
        BY <3>1, PowPositive
      <3> QED
        BY <3>1, <3>2 DEF ExactOf
    <2> QED
      BY <2>1
  <1>2. Cmp(d, e) = 0 <=> ExactOf(d) = ExactOf(e)
    <2>1. Cmp(d, e) = Sgn(ExactOf(d) - ExactOf(e))
      BY ExactArithmetic
    <2> QED
      BY <1>1, <2>1 DEF Sgn
  <1>3. /\ String(d) \in Text /\ Canonical(String(d)) /\ Exact(String(d)) = ExactOf(d)
        /\ String(e) \in Text /\ Canonical(String(e)) /\ Exact(String(e)) = ExactOf(e)
    BY StringIs
  <1>4. ExactOf(d) = ExactOf(e) => String(d) = String(e)
    BY <1>3, CanonicalUnique
  <1>5. String(d) = String(e) => ExactOf(d) = ExactOf(e)
    BY <1>3
  <1> QED
    BY <1>2, <1>4, <1>5

-----------------------------------------------------------------------------
(* What the column can hold *)

LEMMA Multiple ==
    ASSUME NEW a \in Nat, NEW p \in Nat \ {0}
    PROVE  (a * p) % p = 0 /\ (a * p) \div p = a
  OBVIOUS

LEMMA Divisor ==
    ASSUME NEW a \in Nat, NEW p \in Nat \ {0}, a % p = 0
    PROVE  \E h \in Nat : a = h * p
  <1>1. a \div p \in Nat /\ a = (a \div p) * p
    OBVIOUS
  <1> QED
    BY <1>1

LEMMA DivisorOfMultiple ==
    ASSUME NEW a \in Nat, NEW p \in Nat \ {0}, NEW q \in Nat \ {0},
           (a * q) % (p * q) = 0
    PROVE  a % p = 0
  <1>1. p * q \in Nat \ {0} /\ a * q \in Nat
    OBVIOUS
  <1>2. PICK h \in Nat : a * q = h * (p * q)
    BY <1>1, Divisor
  <1>3. (h * p) * q = a * q /\ h * p \in Nat
    BY <1>2
  <1>4. h * p = a
    <2> DEFINE c == h * p
    <2>1. c \in Nat /\ c * q = a * q
      BY <1>3
    <2> HIDE DEF c
    <2>2. c = a
      BY <2>1
    <2> QED
      BY <2>2 DEF c
  <1> QED
    BY <1>4, Multiple

LEMMA Trailing ==
    ASSUME NEW d \in Decimals, d.value > 0
    PROVE  LET k == TrailingZeros(d)
               w == Width(d.value)
           IN  /\ k \in 0..(w - 1)
               /\ k = 0 \/ (k <= -d.exp /\ d.value % Pow10[k] = 0)
               /\ \A j \in 0..(w - 1) :
                     (j <= -d.exp /\ d.value % Pow10[j] = 0) => j <= k
               /\ Len(Digits(Abs(d.value))) = w
  <1> DEFINE w == Width(d.value)
             T == {k \in 0..(w - 1) :
                     k = 0 \/ (k <= -d.exp /\ d.value % Pow10[k] = 0)}
  <1>1. Abs(d.value) = d.value /\ d.value \in Nat
    BY DEF Decimals, Abs
  <1>2. w \in Nat \ {0} /\ Len(Digits(Abs(d.value))) = w
    BY <1>1, DigitsAre, WidthIs
  <1>3. TrailingZeros(d) = Max(T)
    BY <1>2 DEF TrailingZeros
  <1> HIDE DEF w
  <1>4. w - 1 \in Nat /\ 0 \in T /\ T \in SUBSET (0..(w - 1))
    BY <1>2
  <1>5. Max(T) \in T /\ \A m \in T : m <= Max(T)
    BY <1>4, Greatest
  <1> DEFINE k == Max(T)
  <1>6. k \in 0..(w - 1) /\ (k = 0 \/ (k <= -d.exp /\ d.value % Pow10[k] = 0))
    BY <1>5
  <1>7. \A j \in 0..(w - 1) :
           (j <= -d.exp /\ d.value % Pow10[j] = 0) => j <= k
    BY <1>5
  <1> HIDE DEF k
  <1> QED
    BY <1>2, <1>3, <1>6, <1>7 DEF k, w

\* The digits after the point fit if and only if nothing is cut off.
LEMMA FractionFits ==
    ASSUME NEW d \in Decimals, d.value > 0
    PROVE  d.exp + TrailingZeros(d) >= -Scale
             <=> ExactOf(d) % Pow10[Finest - Scale] = 0
  <1> DEFINE v == d.value
             e == d.exp
             k == TrailingZeros(d)
             w == Width(v)
  <1>1. /\ v \in Nat \ {0} /\ e \in Int /\ Finest + e \in Nat /\ Finest \in Nat
        /\ Scale \in Nat /\ Finest - Scale \in Nat
    BY Constants DEF Decimals
  <1>2. w \in Nat \ {0} /\ v < Pow10[w]
    BY <1>1, WidthIs DEF IsWidth
  <1>3. /\ k \in 0..(w - 1)
        /\ k = 0 \/ (k <= -e /\ v % Pow10[k] = 0)
        /\ \A j \in 0..(w - 1) : (j <= -e /\ v % Pow10[j] = 0) => j <= k
    BY Trailing
  <1>4. ExactOf(d) = v * Pow10[Finest + e]
    BY DEF ExactOf
  <1> HIDE DEF v, e, k, w
  <1>5. ASSUME e + k >= -Scale
        PROVE  ExactOf(d) % Pow10[Finest - Scale] = 0
    <2>1. k \in Nat /\ (Finest + e) + k \in Nat
          /\ (Finest + e) + k = ((e + k) + Scale) + (Finest - Scale)
          /\ (e + k) + Scale \in Nat
      BY <1>1, <1>2, <1>3, <1>5
    <2>2. v % Pow10[k] = 0 /\ Pow10[k] \in Nat \ {0}
      <3>1. CASE k = 0
        <4>1. Pow10[0] = 1 /\ v % 1 = 0
          BY <1>1, PowStep
        <4> QED
          BY <3>1, <4>1
      <3>2. CASE k # 0
        BY <1>3, <2>1, <3>2, PowPositive
      <3> QED
        BY <3>1, <3>2
    <2>3. PICK h \in Nat : v = h * Pow10[k]
      BY <1>1, <2>2, Divisor
    <2> DEFINE p == Pow10[k]
               q == Pow10[Finest + e]
               r == Pow10[(e + k) + Scale]
               s == Pow10[Finest - Scale]
    <2>4. p * q = r * s
      <3>1. k + (Finest + e) = ((e + k) + Scale) + (Finest - Scale)
        BY <1>1, <2>1
      <3> QED
        BY <1>1, <2>1, <3>1, PowAdd
    <2>5. p \in Nat /\ q \in Nat /\ r \in Nat /\ s \in Nat \ {0}
      BY <1>1, <2>1, PowPositive
    <2>6. ExactOf(d) = (h * p) * q
      BY <1>4, <2>3
    <2> HIDE DEF p, q, r, s
    <2>7. (h * p) * q = h * (p * q) /\ h * (r * s) = (h * r) * s /\ h * r \in Nat
      BY <2>5
    <2>8. ExactOf(d) = (h * r) * s
      BY <2>4, <2>6, <2>7
    <2>9. ((h * r) * s) % s = 0
      BY <2>5, <2>7, Multiple
    <2> QED
      BY <2>8, <2>9 DEF s
  <1>6. ASSUME ExactOf(d) % Pow10[Finest - Scale] = 0, ~(e + k >= -Scale)
        PROVE  FALSE
    <2> DEFINE j == -Scale - e
    <2>1. j \in Nat /\ j > k /\ j <= -e /\ Finest - Scale = j + (Finest + e)
      BY <1>1, <1>2, <1>3, <1>6
    <2> HIDE DEF j
    <2> DEFINE p == Pow10[j]
               q == Pow10[Finest + e]
    <2>2. p \in Nat \ {0} /\ q \in Nat \ {0} /\ Pow10[Finest - Scale] = p * q
      BY <1>1, <2>1, PowPositive, PowAdd
    <2>3. (v * q) % (p * q) = 0
      BY <1>4, <1>6, <2>2
    <2>4. v % p = 0
      BY <1>1, <2>2, <2>3, DivisorOfMultiple
    <2>5. p <= v
      BY <1>1, <2>2, <2>4
    <2>6. j < w
      <3> SUFFICES ASSUME ~(j < w) PROVE FALSE
        OBVIOUS
      <3>1. Pow10[w] \in Nat /\ (w = j \/ w < j)
        BY <1>2, <2>1, PowPositive
      <3>2. Pow10[w] <= p
        <4>1. CASE w = j
          BY <2>2, <4>1
        <4>2. CASE w < j
          BY <1>2, <2>1, <2>2, <3>1, <4>2, PowLess
        <4> QED
          BY <3>1, <4>1, <4>2
      <3> QED
        BY <1>1, <1>2, <2>2, <2>5, <3>1, <3>2
    <2>7. j \in 0..(w - 1)
      BY <1>2, <2>1, <2>6
    <2>8. j <= k
      BY <1>3, <2>1, <2>4, <2>7
    <2> QED
      BY <1>2, <1>3, <2>1, <2>8
  <1>7. e + k >= -Scale <=> ExactOf(d) % Pow10[Finest - Scale] = 0
    BY <1>5, <1>6
  <1> QED
    BY <1>7 DEF e, k

\* The digits before the point fit if and only if the value does.
LEMMA IntegerFits ==
    ASSUME NEW d \in Decimals, d.value > 0
    PROVE  Width(d.value) + d.exp <= Precision - Scale
             <=> ExactOf(d) < Pow10[Finest + Precision - Scale]
  <1> DEFINE v == d.value
             e == d.exp
             w == Width(v)
             q == Pow10[Finest + e]
             top == Finest + Precision - Scale
  <1>1. /\ v \in Nat \ {0} /\ e \in Int /\ Finest + e \in Nat /\ Finest \in Nat
        /\ Scale \in Nat /\ Precision \in Nat /\ top \in Nat
    BY Constants DEF Decimals
  <1>2. w \in Nat \ {0} /\ v < Pow10[w] /\ (w > 1 => Pow10[w - 1] <= v)
    BY <1>1, WidthIs DEF IsWidth
  <1>3. ExactOf(d) = v * q
    BY DEF ExactOf
  <1>4. q \in Nat \ {0} /\ Pow10[top] \in Nat
    BY <1>1, PowPositive
  <1> HIDE DEF v, e, w, q, top
  <1>5. ASSUME NEW m \in Nat, NEW n \in Nat, m <= n
        PROVE  Pow10[m] <= Pow10[n]
    <2>1. Pow10[m] \in Nat /\ Pow10[n] \in Nat /\ (m = n \/ m < n)
      BY <1>5, PowPositive
    <2> QED
      BY <2>1, PowLess
  <1>6. ASSUME w + e <= Precision - Scale
        PROVE  v * q < Pow10[top]
    <2>1. w + (Finest + e) \in Nat /\ w + (Finest + e) <= top
      BY <1>1, <1>2, <1>6 DEF top
    <2>2. Pow10[w + (Finest + e)] <= Pow10[top]
      BY <1>1, <1>5, <2>1
    <2>3. Pow10[w + (Finest + e)] = Pow10[w] * q
      BY <1>1, <1>2, PowAdd DEF q
    <2> DEFINE p == Pow10[w]
    <2>4. p \in Nat /\ v < p /\ p * q <= Pow10[top]
      BY <1>2, <2>2, <2>3, PowPositive
    <2> HIDE DEF p
    <2>5. v * q < p * q
      BY <1>1, <1>4, <2>4
    <2> QED
      BY <1>1, <1>4, <2>4, <2>5
  <1>7. ASSUME ~(w + e <= Precision - Scale)
        PROVE  ~(v * q < Pow10[top])
    <2>1. /\ w - 1 \in Nat /\ (w - 1) + (Finest + e) \in Nat
          /\ top <= (w - 1) + (Finest + e)
      BY <1>1, <1>2, <1>7 DEF top
    <2>2. Pow10[top] <= Pow10[(w - 1) + (Finest + e)]
      BY <1>1, <1>5, <2>1
    <2>3. Pow10[(w - 1) + (Finest + e)] = Pow10[w - 1] * q
      BY <1>1, <2>1, PowAdd DEF q
    <2>4. Pow10[w - 1] <= v
      <3>1. CASE w > 1
        BY <1>2, <3>1
      <3>2. CASE ~(w > 1)
        <4>1. w - 1 = 0 /\ Pow10[0] = 1
          BY <1>2, <3>2, PowStep
        <4> QED
          BY <1>1, <4>1
      <3> QED
        BY <3>1, <3>2
    <2> DEFINE p == Pow10[w - 1]
    <2>5. p \in Nat /\ p <= v /\ Pow10[top] <= p * q
      BY <2>1, <2>2, <2>3, <2>4, PowPositive
    <2> HIDE DEF p
    <2>6. p * q <= v * q
      BY <1>1, <1>4, <2>5
    <2> QED
      BY <1>1, <1>4, <2>5, <2>6
  <1>8. w + e <= Precision - Scale <=> ExactOf(d) < Pow10[top]
    BY <1>3, <1>6, <1>7
  <1> QED
    BY <1>8 DEF top, w, e, v

\* FitsNumeric, which counts digits, says whether the column holds the value.
LEMMA FitsIsExact ==
    ASSUME NEW d \in Decimals, d.value > 0
    PROVE  FitsNumeric(d, Precision, Scale)
             <=> /\ ExactOf(d) % Pow10[Finest - Scale] = 0
                 /\ ExactOf(d) < Pow10[Finest + Precision - Scale]
  <1> DEFINE k == TrailingZeros(d)
             e == d.exp
             w == Width(d.value)
             l == Len(Digits(Abs(d.value)))
  <1>1. e \in Int /\ Scale \in Nat /\ Precision \in Nat /\ Scale <= Precision
        /\ Precision > 0
    BY Constants DEF Decimals
  <1>2. w \in Nat /\ k \in Nat /\ l = w
    <2>1. d.value \in Nat
      BY DEF Decimals
    <2>2. w \in Nat \ {0}
      BY <2>1, WidthIs
    <2>3. k \in 0..(w - 1) /\ l = w
      BY Trailing
    <2> QED
      BY <2>2, <2>3
  <1>3. /\ e + k >= -Scale <=> ExactOf(d) % Pow10[Finest - Scale] = 0
        /\ w + e <= Precision - Scale
             <=> ExactOf(d) < Pow10[Finest + Precision - Scale]
    BY FractionFits, IntegerFits
  <1>4. FitsNumeric(d, Precision, Scale)
          <=> /\ Precision > 0 /\ Scale \in 0..Precision
              /\ \/ d.value = 0
                 \/ /\ (IF e + k < 0 THEN -(e + k) ELSE 0) <= Scale
                    /\ (l - k) + (e + k) <= Precision - Scale
    BY DEF FitsNumeric
  <1>5. d.value # 0
    BY DEF Decimals
  <1> HIDE DEF k, e, w, l
  <1>6. (IF e + k < 0 THEN -(e + k) ELSE 0) <= Scale <=> e + k >= -Scale
    BY <1>1, <1>2
  <1>7. (l - k) + (e + k) = w + e
    BY <1>1, <1>2
  <1>8. Scale \in 0..Precision
    BY <1>1
  <1> QED
    BY <1>1, <1>3, <1>4, <1>5, <1>6, <1>7, <1>8

-----------------------------------------------------------------------------
(* The way into the column and back *)

LEMMA UnitsAreExact ==
    ASSUME NEW t \in Text, Canonical(t), Exact(t) > 0,
           Exact(t) % Pow10[Finest - Scale] = 0
    PROVE  Units(t) \in Nat /\ Units(t) * Pow10[Finest - Scale] = Exact(t)
  <1> DEFINE n == Number(t.whole \o t.frac)
             l == Len(t.frac)
             p == Pow10[Finest - l]
             s == Pow10[Finest - Scale]
  <1>1. /\ n \in Nat /\ Finest - l \in Nat /\ Finest \in Nat /\ l \in Nat
        /\ Scale \in Nat /\ Finest - Scale \in Nat
        /\ t.neg \in BOOLEAN
        /\ Exact(t) = Signed(t.neg, n * p)
    BY CanonicalValue, TextDigits, Constants
  <1>2. p \in Nat \ {0} /\ s \in Nat \ {0}
    BY <1>1, PowPositive
  <1>3. Units(t) = Signed(t.neg,
                          IF l - Scale <= 0 THEN n * Pow10[-(l - Scale)]
                          ELSE (n + 5 * Pow10[(l - Scale) - 1])
                                 \div Pow10[l - Scale])
    BY DEF Units
  <1> HIDE DEF n, l, p, s
  <1>4. n * p \in Nat
    BY <1>1, <1>2
  <1>5. ~t.neg /\ Exact(t) = n * p
    BY <1>1, <1>4 DEF Signed
  <1>6. CASE l <= Scale
    <2> DEFINE q == Pow10[Scale - l]
    <2>1. Scale - l \in Nat /\ l - Scale <= 0 /\ -(l - Scale) = Scale - l
          /\ Finest - l = (Scale - l) + (Finest - Scale)
      BY <1>1, <1>6
    <2>2. p = q * s /\ q \in Nat
      BY <1>1, <2>1, PowAdd, PowPositive DEF p, s
    <2>3. Units(t) = n * q
      BY <1>3, <1>5, <2>1 DEF Signed
    <2> HIDE DEF q
    <2>4. n * q \in Nat /\ (n * q) * s = n * (q * s)
      BY <1>1, <1>2, <2>2
    <2> QED
      BY <1>5, <2>2, <2>3, <2>4 DEF s
  <1>7. CASE ~(l <= Scale)
    <2> DEFINE m == (l - Scale) - 1
               q == Pow10[m]
    <2>1. m \in Nat /\ l - Scale = m + 1 /\ ~(l - Scale <= 0)
          /\ Finest - Scale = (m + 1) + (Finest - l) /\ m + 1 \in Nat
      BY <1>1, <1>7
    <2>2. Units(t) = (n + 5 * Pow10[m]) \div Pow10[m + 1]
      BY <1>3, <1>5, <2>1 DEF Signed
    <2> HIDE DEF m
    <2>3. q \in Nat \ {0} /\ Pow10[m + 1] = 10 * q /\ s = (10 * q) * p
      <3>1. Pow10[m] \in Nat \ {0} /\ Pow10[m + 1] = 10 * Pow10[m]
        BY <2>1, PowStep, PowPositive
      <3>2. Pow10[(m + 1) + (Finest - l)] = Pow10[m + 1] * Pow10[Finest - l]
        BY <1>1, <2>1, PowAdd
      <3>3. s = Pow10[m + 1] * p
        BY <2>1, <3>2 DEF p, s
      <3> QED
        BY <3>1, <3>3
    <2> HIDE DEF q
    <2>4. 10 * q \in Nat \ {0}
      BY <2>3
    <2>5. (n * p) % ((10 * q) * p) = 0
      BY <1>5, <2>3 DEF s
    <2>6. n % (10 * q) = 0
      BY <1>1, <1>2, <2>4, <2>5, DivisorOfMultiple
    <2>7. PICK h \in Nat : n = h * (10 * q)
      BY <1>1, <2>4, <2>6, Divisor
    <2>8. (n + 5 * q) \div (10 * q) = h
      <3> DEFINE r == 10 * q
                 c == 5 * q
      <3>1. r \in Nat \ {0} /\ c \in Nat /\ c < r /\ n = h * r
        BY <2>3, <2>7
      <3> HIDE DEF r, c
      <3>2. (n + c) \div r = h
        BY <2>7, <3>1
      <3> QED
        BY <3>2 DEF r, c
    <2>9. Units(t) = h
      BY <2>2, <2>3, <2>8 DEF q
    <2>10. h * s = n * p
      <3> DEFINE r == 10 * q
      <3>1. r \in Nat /\ s = r * p /\ n = h * r
        BY <2>3, <2>7
      <3> HIDE DEF r
      <3>2. h * (r * p) = (h * r) * p
        BY <1>2, <2>7, <3>1
      <3> QED
        BY <3>1, <3>2
    <2> QED
      BY <1>5, <2>7, <2>9, <2>10 DEF s
  <1> QED
    BY <1>6, <1>7

LEMMA ColumnIsExact ==
    ASSUME NEW r \in Nat
    PROVE  /\ ColumnText(r) \in Text /\ Parses(ColumnText(r))
           /\ Exact(ColumnText(r)) = r * Pow10[Finest - Scale]
  <1> DEFINE q == Pow10[Scale]
             w == Digits(r \div q)
             f == LastDigits(r, Scale)
             t == ColumnText(r)
  <1>1. Scale \in Nat /\ Finest \in Nat /\ Scale <= Finest /\ q \in Nat \ {0}
    BY Constants, PowPositive
  <1>2. r \div q \in Nat
    BY <1>1
  <1>3. t = [neg |-> FALSE, whole |-> w, frac |-> f, exp |-> 0]
    <2>1. Abs(r) = r /\ (r < 0) = FALSE
      BY DEF Abs
    <2>2. t = [neg |-> r < 0, whole |-> Digits(Abs(r) \div q),
               frac |-> LastDigits(Abs(r), Scale), exp |-> 0]
      BY DEF ColumnText, LastDigits
    <2> QED
      BY <2>1, <2>2
  <1>4. w \in Seq(0..9) /\ Len(w) \in Nat \ {0} /\ Number(w) = r \div q
    <2>1. Width(r \div q) \in Nat \ {0}
      BY <1>2, WidthIs
    <2>2. w \in Seq(0..9) /\ Len(w) = Width(r \div q) /\ Number(w) = r \div q
      BY <1>2, DigitsAre
    <2> QED
      BY <2>1, <2>2
  <1>5. f \in Seq(0..9) /\ Len(f) = Scale /\ Number(f) = r % q
    BY <1>1, LastDigitsType, LastDigitsValue
  <1> HIDE DEF w, f
  <1>6. Number(w \o f) = r
    <2>1. Number(w \o f) = (r \div q) * q + (r % q)
      BY <1>4, <1>5, ValueConcat
    <2> HIDE DEF q
    <2>2. (r \div q) * q + (r % q) = r
      BY <1>1
    <2> QED
      BY <2>1, <2>2
  <1>7. t \in Text
    BY <1>3, <1>4, <1>5 DEF Text
  <1>8. ParsedExp(t) = -Scale /\ t.whole \o t.frac = w \o f /\ t.neg = FALSE
    BY <1>1, <1>3, <1>5 DEF ParsedExp
  <1>9. w \o f # <<>>
    <2>1. Len(w \o f) = Len(w) + Len(f)
      BY <1>4, <1>5
    <2>2. Len(w \o f) # 0
      BY <1>1, <1>4, <1>5, <2>1
    <2> QED
      BY <2>2
  <1>10. Parses(t)
    <2>1. Abs(-Scale) <= MaxAbsExponent
      BY <1>1 DEF Abs, Finest
    <2> QED
      BY <1>8, <1>9, <2>1 DEF Parses
  <1>11. Exact(t) = r * Pow10[Finest - Scale]
    <2>1. Finest + (-Scale) = Finest - Scale
      BY <1>1
    <2> QED
      BY <1>6, <1>8, <2>1 DEF Exact, Signed
  <1> QED
    BY <1>7, <1>10, <1>11

-----------------------------------------------------------------------------
(* The way of an amount *)

\* Between the steps of an amount, nothing but what they make of it.
THEOREM OnTheWayInductive == Spec => []OnTheWay
  <1>1. Init => OnTheWay
    BY DEF Init, OnTheWay, Passed
  <1>2. OnTheWay /\ [Next]_vars => OnTheWay'
    <2> SUFFICES ASSUME OnTheWay, [Next]_vars
                 PROVE  OnTheWay'
      OBVIOUS
    <2> USE DEF OnTheWay, Passed
    <2>1. CASE Parse
      BY <2>1 DEF Parse
    <2>2. CASE Check
      BY <2>2 DEF Check
    <2>3. CASE Store
      BY <2>3 DEF Store
    <2>4. CASE Load
      BY <2>4 DEF Load
    <2>5. CASE Ended \/ UNCHANGED vars
      BY <2>5 DEF Ended, vars
    <2> QED
      BY <2>1, <2>2, <2>3, <2>4, <2>5 DEF Next
  <1> QED
    BY <1>1, <1>2, PTL DEF Spec

LEMMA TextsAreText == \A t \in Texts : t \in Text
  BY Constants

LEMMA AmountIsExact ==
    ASSUME OnTheWay, pc \in {"check"} \cup Passed
    PROVE  /\ text \in Text /\ Parses(text)
           /\ amount \in Decimals /\ ExactOf(amount) = Exact(text)
  <1>1. text \in Text /\ Parses(text) /\ amount = NewFromString(text)
    BY TextsAreText DEF OnTheWay
  <1> QED
    BY <1>1, ParsedIsExact

\* The sign of a decimal is that of its value.
LEMMA PositiveIsExact ==
    ASSUME NEW d \in Decimals
    PROVE  ExactOf(d) \in Int /\ (d.value > 0 <=> ExactOf(d) > 0)
  <1> DEFINE v == d.value
             p == Pow10[Finest + d.exp]
  <1>1. v \in Int /\ Finest + d.exp \in Nat
    BY Constants DEF Decimals
  <1>2. p \in Nat \ {0}
    BY <1>1, PowPositive
  <1>3. ExactOf(d) = v * p
    BY DEF ExactOf
  <1> HIDE DEF v, p
  <1>4. v * p \in Int /\ (v > 0 <=> v * p > 0)
    BY <1>1, <1>2
  <1> QED
    BY <1>3, <1>4 DEF v

LEMMA PassedIsExact ==
    ASSUME OnTheWay, pc \in Passed
    PROVE  /\ printed \in Text /\ Canonical(printed)
           /\ Exact(printed) = Exact(text)
           /\ Exact(text) \in Int /\ Exact(text) > 0
           /\ Exact(text) % Pow10[Finest - Scale] = 0
           /\ Exact(text) < Pow10[Finest + Precision - Scale]
  <1>1. amount \in Decimals /\ ExactOf(amount) = Exact(text)
    BY AmountIsExact
  <1>2. amount.value > 0 /\ FitsNumeric(amount, Precision, Scale)
        /\ printed = String(amount)
    BY DEF OnTheWay
  <1>3. printed \in Text /\ Canonical(printed) /\ Exact(printed) = Exact(text)
    BY <1>1, <1>2, StringIs
  <1>4. Exact(text) \in Int /\ Exact(text) > 0
    BY <1>1, <1>2, PositiveIsExact
  <1> QED
    BY <1>1, <1>2, <1>3, <1>4, FitsIsExact

LEMMA RowIsExact ==
    ASSUME OnTheWay, pc \in {"load", "done"}
    PROVE  row \in Nat /\ row * Pow10[Finest - Scale] = Exact(text)
  <1>1. row = Units(printed) /\ pc \in Passed
    BY DEF OnTheWay, Passed
  <1> QED
    BY <1>1, PassedIsExact, UnitsAreExact

LEMMA TypeOKHolds == ASSUME OnTheWay PROVE TypeOK
  <1>1. text \in Texts
        /\ pc \in {"parse", "check", "store", "load", "done", "refused"}
    BY DEF OnTheWay
  <1>2. amount.value \in Int /\ amount.exp \in (-Finest)..Finest
    <2>1. CASE amount = NoDecimal
      BY <2>1, Constants DEF NoDecimal
    <2>2. CASE Parses(text) /\ amount = NewFromString(text)
      <3>1. amount \in Decimals
        BY <1>1, <2>2, TextsAreText, ParsedIsExact
      <3> QED
        BY <3>1 DEF Decimals
    <2> QED
      BY <2>1, <2>2 DEF OnTheWay
  <1>3. printed.exp = 0
    <2>1. CASE pc \in Passed
      BY <2>1, PassedIsExact DEF Canonical
    <2>2. CASE pc \notin Passed
      BY <2>2 DEF OnTheWay
    <2> QED
      BY <2>1, <2>2
  <1>4. row \in 0..(Pow10[Precision] - 1)
    <2>1. Pow10[Precision] \in Nat \ {0} /\ Pow10[Finest - Scale] \in Nat \ {0}
      BY Constants, PowPositive
    <2>2. CASE pc \in {"load", "done"}
      <3>1. row \in Nat /\ row * Pow10[Finest - Scale] = Exact(text)
        BY <2>2, RowIsExact
      <3>2. Exact(text) < Pow10[Finest + Precision - Scale]
        BY <2>2, PassedIsExact DEF Passed
      <3>3. Pow10[Finest + Precision - Scale]
              = Pow10[Precision] * Pow10[Finest - Scale]
        <4>1. Finest + Precision - Scale = Precision + (Finest - Scale)
              /\ Precision \in Nat /\ Finest - Scale \in Nat
          BY Constants
        <4> QED
          BY <4>1, PowAdd
      <3> DEFINE p == Pow10[Precision]
                 q == Pow10[Finest - Scale]
      <3>4. row * q < p * q /\ p \in Nat /\ q \in Nat \ {0}
        BY <2>1, <3>1, <3>2, <3>3
      <3> HIDE DEF p, q
      <3>5. row < p
        BY <3>1, <3>4
      <3> QED
        BY <3>1, <3>4, <3>5 DEF p
    <2>3. CASE pc \notin {"load", "done"}
      <3>1. row = 0
        BY <2>3 DEF OnTheWay
      <3> QED
        BY <2>1, <3>1
    <2> QED
      BY <2>2, <2>3
  <1> QED
    BY <1>1, <1>2, <1>3, <1>4 DEF TypeOK, Finest

LEMMA AcceptedIffExactHolds == ASSUME OnTheWay PROVE AcceptedIffExact
  <1> DEFINE Holds == /\ Exact(text) > 0
                      /\ Exact(text) % Pow10[Finest - Scale] = 0
                      /\ Exact(text) < Pow10[Finest + Precision - Scale]
  <1> SUFFICES ASSUME pc # "parse", Parses(text), pc # "check"
               PROVE  pc # "refused" <=> Holds
    BY DEF AcceptedIffExact
  <1>1. pc \in Passed \/ pc = "refused"
    BY DEF OnTheWay, Passed
  <1>2. CASE pc \in Passed
    <2>1. pc # "refused"
      BY <1>2 DEF Passed
    <2> QED
      BY <1>2, <2>1, PassedIsExact
  <1>3. CASE pc = "refused"
    <2> DEFINE d == NewFromString(text)
    <2>1. d \in Decimals /\ ExactOf(d) = Exact(text)
      BY TextsAreText, ParsedIsExact DEF OnTheWay
    <2>2. ~(d.value > 0 /\ FitsNumeric(d, Precision, Scale))
      BY <1>3 DEF OnTheWay
    <2> HIDE DEF d
    <2>3. d.value > 0 <=> Exact(text) > 0
      BY <2>1, PositiveIsExact
    <2>4. ASSUME d.value > 0
          PROVE  FitsNumeric(d, Precision, Scale)
                   <=> /\ Exact(text) % Pow10[Finest - Scale] = 0
                       /\ Exact(text) < Pow10[Finest + Precision - Scale]
      BY <2>1, <2>4, FitsIsExact
    <2>5. ~Holds
      BY <2>2, <2>3, <2>4
    <2> QED
      BY <1>3, <2>5
  <1> QED
    BY <1>1, <1>2, <1>3

LEMMA StoredIsAskedHolds == ASSUME OnTheWay PROVE StoredIsAsked
  <1>1. ASSUME pc \in {"load", "done"}
        PROVE  row * Pow10[Finest - Scale] = Exact(text)
    BY <1>1, RowIsExact
  <1>2. ASSUME pc = "done"
        PROVE  Cmp(read, amount) = 0 /\ String(read) = printed
    <2>1. read = NewFromString(ColumnText(row)) /\ printed = String(amount)
          /\ pc \in Passed
      BY <1>2 DEF OnTheWay, Passed
    <2>2. row \in Nat /\ row * Pow10[Finest - Scale] = Exact(text)
      BY <1>2, RowIsExact
    <2>3. ColumnText(row) \in Text /\ Parses(ColumnText(row))
          /\ Exact(ColumnText(row)) = Exact(text)
      BY <2>2, ColumnIsExact
    <2>4. read \in Decimals /\ ExactOf(read) = Exact(text)
      BY <2>1, <2>3, ParsedIsExact
    <2>5. amount \in Decimals /\ ExactOf(amount) = Exact(text)
      BY <2>1, AmountIsExact
    <2>6. Cmp(read, amount) = 0
      <3>1. Cmp(read, amount) = Sgn(Exact(text) - Exact(text))
        BY <2>4, <2>5, ExactArithmetic
      <3>2. Exact(text) - Exact(text) = 0
        BY <2>1, PassedIsExact
      <3> QED
        BY <3>1, <3>2 DEF Sgn
    <2>7. String(read) = String(amount)
      BY <2>4, <2>5, <2>6, StringsAreValues
    <2> QED
      BY <2>1, <2>6, <2>7
  <1> QED
    BY <1>1, <1>2 DEF StoredIsAsked

\* Nothing is changed on the way of an amount and no check is passed by; every
\* variable keeps its type, and in particular a row never leaves the range of
\* NUMERIC(Precision, Scale), so that the INSERT cannot overflow the column.
THEOREM AmountInvariant == Spec => []DInv
  <1>1. OnTheWay => DInv
    BY TypeOKHolds DEF DInv
  <1> QED
    BY <1>1, OnTheWayInductive, PTL

\* FitsNumeric refuses exactly the amounts that the column cannot hold, and what
\* is accepted is stored and read back to the last digit.
THEOREM AcceptedStored == Spec => []AcceptedIsStored
  <1>1. OnTheWay => AcceptedIsStored
    BY AcceptedIffExactHolds, StoredIsAskedHolds DEF AcceptedIsStored
  <1> QED
    BY <1>1, OnTheWayInductive, PTL

\* The text that goes into the fingerprint has the value of the request and is
\* the one shortest text with it.
THEOREM FingerprintCanonical == Spec => []FingerprintIsCanonical
  <1>1. OnTheWay => FingerprintIsCanonical
    <2> SUFFICES ASSUME OnTheWay, pc \in {"store", "load", "done"}
                 PROVE  /\ Exact(printed) = Exact(text)
                        /\ printed.whole # <<>>
                        /\ Len(printed.whole) > 1 => printed.whole[1] # 0
                        /\ printed.frac # <<>> => printed.frac[Len(printed.frac)] # 0
      BY DEF FingerprintIsCanonical
    <2> QED
      BY PassedIsExact DEF Passed, Canonical
  <1> QED
    BY <1>1, OnTheWayInductive, PTL

\* Amounts of any two exponents are compared, added and subtracted exactly.
THEOREM ArithmeticExact == Spec => []ArithmeticIsExact
  <1>1. OnTheWay => ArithmeticIsExact
    <2> SUFFICES ASSUME OnTheWay, pc = "check", NEW t \in Texts, Parses(t)
                 PROVE  LET d == NewFromString(t) IN
                        /\ Cmp(amount, d) = Sgn(Exact(text) - Exact(t))
                        /\ ExactOf(Add(amount, d)) = Exact(text) + Exact(t)
                        /\ ExactOf(Sub(amount, d)) = Exact(text) - Exact(t)
      BY DEF ArithmeticIsExact
    <2> DEFINE d == NewFromString(t)
    <2>1. d \in Decimals /\ ExactOf(d) = Exact(t)
      BY TextsAreText, ParsedIsExact
    <2>2. amount \in Decimals /\ ExactOf(amount) = Exact(text)
      BY AmountIsExact
    <2> HIDE DEF d
    <2>3. /\ Cmp(amount, d) = Sgn(Exact(text) - Exact(t))
          /\ ExactOf(Add(amount, d)) = Exact(text) + Exact(t)
          /\ ExactOf(Sub(amount, d)) = Exact(text) - Exact(t)
      BY <2>1, <2>2, ExactArithmetic
    <2> QED
      BY <2>3 DEF d
  <1> QED
    BY <1>1, OnTheWayInductive, PTL

\* Transfer counts amounts in units of the column. It may: an accepted amount
\* is a positive number of units that the column holds, and two of them have the
\* same fingerprint if and only if they are the same number of units.
THEOREM AmountsAreUnits ==
    ASSUME NEW d \in Decimals, d.value > 0, FitsNumeric(d, Precision, Scale),
           NEW e \in Decimals, e.value > 0, FitsNumeric(e, Precision, Scale)
    PROVE  /\ Units(String(d)) \in 1..(Pow10[Precision] - 1)
           /\ String(d) = String(e) <=> Units(String(d)) = Units(String(e))
  <1>1. ASSUME NEW x \in Decimals, x.value > 0, FitsNumeric(x, Precision, Scale)
        PROVE  /\ String(x) \in Text /\ Canonical(String(x))
               /\ Exact(String(x)) = ExactOf(x)
               /\ Units(String(x)) \in Nat \ {0}
               /\ Units(String(x)) * Pow10[Finest - Scale] = ExactOf(x)
    <2>1. String(x) \in Text /\ Canonical(String(x))
          /\ Exact(String(x)) = ExactOf(x)
      BY StringIs
    <2>2. ExactOf(x) \in Int /\ ExactOf(x) > 0
          /\ ExactOf(x) % Pow10[Finest - Scale] = 0
      BY <1>1, PositiveIsExact, FitsIsExact
    <2>3. Units(String(x)) \in Nat
          /\ Units(String(x)) * Pow10[Finest - Scale] = ExactOf(x)
      BY <2>1, <2>2, UnitsAreExact
    <2>4. Units(String(x)) # 0
      <3> SUFFICES ASSUME Units(String(x)) = 0 PROVE FALSE
        OBVIOUS
      <3>1. Finest - Scale \in Nat
        BY Constants
      <3>2. Pow10[Finest - Scale] \in Nat
        BY <3>1, PowPositive
      <3>3. 0 * Pow10[Finest - Scale] = 0
        BY <3>2
      <3> QED
        BY <2>2, <2>3, <3>3
    <2> QED
      BY <2>1, <2>3, <2>4
  <1>2. Units(String(d)) < Pow10[Precision]
    <2> DEFINE u == Units(String(d))
               p == Pow10[Precision]
               q == Pow10[Finest - Scale]
    <2>1. Finest + Precision - Scale = Precision + (Finest - Scale)
          /\ Precision \in Nat /\ Finest - Scale \in Nat
      BY Constants
    <2>2. Pow10[Finest + Precision - Scale] = p * q
          /\ p \in Nat /\ q \in Nat \ {0}
      BY <2>1, PowAdd, PowPositive
    <2>3. u \in Nat /\ u * q < p * q
      BY <1>1, <2>2, FitsIsExact
    <2> HIDE DEF u, p, q
    <2>4. u < p
      BY <2>2, <2>3
    <2> QED
      BY <2>4 DEF u, p
  <1>3. Pow10[Precision] \in Nat
    BY Constants, PowPositive
  <1>4. Units(String(d)) \in Nat \ {0}
    BY <1>1
  <1>5. Units(String(d)) \in 1..(Pow10[Precision] - 1)
    BY <1>2, <1>3, <1>4
  <1>6. Units(String(d)) = Units(String(e)) => String(d) = String(e)
    <2> SUFFICES ASSUME Units(String(d)) = Units(String(e))
                 PROVE  String(d) = String(e)
      OBVIOUS
    <2>1. Exact(String(d)) = Exact(String(e))
      BY <1>1
    <2> QED
      BY <1>1, <2>1, CanonicalUnique
  <1> QED
    BY <1>5, <1>6
=============================================================================
