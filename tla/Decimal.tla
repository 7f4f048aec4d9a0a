------------------------------ MODULE Decimal ------------------------------
(***************************************************************************)
(* internal/decimal, and the way of an amount through it: the text of a    *)
(* request is parsed, checked against NUMERIC(Precision, Scale), printed   *)
(* into the fingerprint and into the SQL statement, rounded by PostgreSQL  *)
(* to the column's scale, and parsed again when the row is read.           *)
(*                                                                         *)
(* A text is a sign, the digits before and after the point, and an         *)
(* exponent; a decimal is value * 10^exp.                                  *)
(***************************************************************************)
EXTENDS Integers, Sequences, FiniteSetsExt

CONSTANTS
    Texts,           \* amounts that clients write
    Precision,       \* moneyPrecision, 36
    Scale,           \* moneyScale, 18
    MaxAbsExponent   \* 1000

ASSUME DecimalAssumption ==
    /\ Texts \subseteq [neg: BOOLEAN, whole: Seq(0..9), frac: Seq(0..9), exp: Int]
    /\ Precision \in Nat \ {0}
    /\ Scale \in 0..Precision
    /\ MaxAbsExponent \in Nat
    /\ Scale <= MaxAbsExponent

VARIABLES
    text,     \* what the client wrote
    amount,   \* the decimal it was parsed to
    printed,  \* String of it: part of the fingerprint, and the SQL parameter
    row,      \* the column, in units of 10^-Scale
    read,     \* the decimal scanned from the column
    pc

vars == <<text, amount, printed, row, read, pc>>

NoDecimal == [value |-> 0, exp |-> 0]

Abs(n) == IF n < 0 THEN -n ELSE n
Signed(neg, n) == IF neg THEN -n ELSE n
Sgn(n) == IF n < 0 THEN -1 ELSE IF n = 0 THEN 0 ELSE 1

\* big.Int.Quo truncates towards zero.
Quo(n, m) == Signed(n < 0, Abs(n) \div m)

Pow10[n \in Nat] == IF n = 0 THEN 1 ELSE 10 * Pow10[n - 1]

\* The number of digits of a natural, its digits, ...
Width(n) == CHOOSE k \in 1..(n + 1) : n < Pow10[k] /\ (k > 1 => Pow10[k - 1] <= n)
Digits(n) == [i \in 1..Width(n) |-> (n \div Pow10[Width(n) - i]) % 10]

\* ... and the natural that the first n digits of a sequence are.
Value(digits, n) ==
    LET v[i \in 0..n] == IF i = 0 THEN 0 ELSE 10 * v[i - 1] + digits[i] IN v[n]
Number(digits) == Value(digits, Len(digits))

Zeros(n) == [i \in 1..n |-> 0]

-----------------------------------------------------------------------------
(* Decimals *)

ParsedExp(t) == t.exp - Len(t.frac)

ParsesUnbounded(t) == t.whole \o t.frac # <<>>   \* deviation: any exponent

\* NewFromString fails without a digit, or if the exponent is out of bounds.
Parses(t) ==
    /\ t.whole \o t.frac # <<>>
    /\ Abs(ParsedExp(t)) <= MaxAbsExponent

NewFromString(t) ==
    [value |-> Signed(t.neg, Number(t.whole \o t.frac)), exp |-> ParsedExp(t)]

\* rescale divides, and truncates, on the way to a larger exponent.
Rescale(d, exp) ==
    [value |-> IF exp > d.exp THEN Quo(d.value, Pow10[exp - d.exp])
               ELSE d.value * Pow10[d.exp - exp],
     exp |-> exp]

CommonExpMax(d, e) ==   \* deviation: RescalePair takes the larger exponent
    IF d.exp > e.exp THEN d.exp ELSE e.exp

\* RescalePair takes the smaller exponent.
CommonExp(d, e) == IF d.exp < e.exp THEN d.exp ELSE e.exp

Cmp(d, e) ==
    LET exp == CommonExp(d, e) IN
    Sgn(Rescale(d, exp).value - Rescale(e, exp).value)

Add(d, e) ==
    LET exp == CommonExp(d, e) IN
    [value |-> Rescale(d, exp).value + Rescale(e, exp).value, exp |-> exp]

Sub(d, e) ==
    LET exp == CommonExp(d, e) IN
    [value |-> Rescale(d, exp).value - Rescale(e, exp).value, exp |-> exp]

\* Zeros that end both the digits and the fraction, one digit left over.
TrailingZeros(d) ==
    Max({k \in 0..(Len(Digits(Abs(d.value))) - 1) :
            k = 0 \/ (k <= -d.exp /\ d.value % Pow10[k] = 0)})

FitsNumericUntrimmed(d, precision, scale) ==   \* deviation: zeros count
    \/ d.value = 0
    \/ /\ -d.exp <= scale
       /\ Len(Digits(Abs(d.value))) + d.exp <= precision - scale

FitsNumeric(d, precision, scale) ==
    LET k == TrailingZeros(d)
        exp == d.exp + k
        fractionalDigits == IF exp < 0 THEN -exp ELSE 0
        integerDigits == (Len(Digits(Abs(d.value))) - k) + exp
    IN  /\ precision > 0 /\ scale \in 0..precision
        /\ \/ d.value = 0
           \/ /\ fractionalDigits <= scale
              /\ integerDigits <= precision - scale

AllZeros(s) == s   \* deviation: trimTrailingZeros is not set

WithoutTrailingZeros(s) ==
    SubSeq(s, 1, Max({0} \cup {i \in 1..Len(s) : s[i] # 0}))

\* string(true, false)
String(d) ==
    LET digits == Digits(Abs(d.value))
        point == Len(digits) + d.exp   \* digits before the point
    IN  IF d.exp >= 0
        THEN [neg |-> d.value < 0, whole |-> Digits(Abs(Rescale(d, 0).value)),
              frac |-> <<>>, exp |-> 0]
        ELSE [neg |-> d.value < 0,
              whole |-> IF point > 0 THEN SubSeq(digits, 1, point) ELSE <<0>>,
              frac |-> WithoutTrailingZeros(
                  IF point > 0 THEN SubSeq(digits, point + 1, Len(digits))
                  ELSE Zeros(-point) \o digits),
              exp |-> 0]

-----------------------------------------------------------------------------
(* PostgreSQL: a number is rounded to the scale of the column *)

Units(t) ==
    LET n == Number(t.whole \o t.frac)
        drop == Len(t.frac) - Scale
    IN  Signed(t.neg, IF drop <= 0 THEN n * Pow10[-drop]
                      ELSE (n + 5 * Pow10[drop - 1]) \div Pow10[drop])

\* and is read back with all digits of it.
ColumnText(units) ==
    [neg |-> units < 0, whole |-> Digits(Abs(units) \div Pow10[Scale]),
     frac |-> [i \in 1..Scale |-> (Abs(units) \div Pow10[Scale - i]) % 10],
     exp |-> 0]

-----------------------------------------------------------------------------
(* The way of an amount *)

Init ==
    /\ text \in Texts
    /\ amount = NoDecimal
    /\ printed = [neg |-> FALSE, whole |-> <<>>, frac |-> <<>>, exp |-> 0]
    /\ row = 0
    /\ read = NoDecimal
    /\ pc = "parse"

\* The handler: NewFromString(dto.Amount).
Parse ==
    /\ pc = "parse"
    /\ \/ /\ ~Parses(text)
          /\ pc' = "refused"
          /\ UNCHANGED amount
       \/ /\ Parses(text)
          /\ amount' = NewFromString(text)
          /\ pc' = "check"
    /\ UNCHANGED <<text, printed, row, read>>

\* IsPositive and FitsNumeric, then transferFingerprint.
Check ==
    /\ pc = "check"
    /\ \/ /\ amount.value > 0 /\ FitsNumeric(amount, Precision, Scale)
          /\ printed' = String(amount)
          /\ pc' = "store"
       \/ /\ ~(amount.value > 0 /\ FitsNumeric(amount, Precision, Scale))
          /\ pc' = "refused"
          /\ UNCHANGED printed
    /\ UNCHANGED <<text, amount, row, read>>

\* Value: the statement carries String of the amount.
Store ==
    /\ pc = "store"
    /\ row' = Units(printed)
    /\ pc' = "load"
    /\ UNCHANGED <<text, amount, printed, read>>

\* Scan.
Load ==
    /\ pc = "load"
    /\ read' = NewFromString(ColumnText(row))
    /\ pc' = "done"
    /\ UNCHANGED <<text, amount, printed, row>>

Ended == pc \in {"refused", "done"} /\ UNCHANGED vars

Next == Parse \/ Check \/ Store \/ Load \/ Ended

Spec == Init /\ [][Next]_vars

-----------------------------------------------------------------------------
(* Properties *)

\* The exact value of a text, in units of 10^-MaxAbsExponent.
Finest == MaxAbsExponent

Exact(t) ==
    Signed(t.neg, Number(t.whole \o t.frac) * Pow10[Finest + ParsedExp(t)])

\* The exact value of a decimal, in the same units.
ExactOf(d) == d.value * Pow10[Finest + d.exp]

TypeOK ==
    /\ text \in Texts
    /\ amount.value \in Int /\ amount.exp \in -MaxAbsExponent..MaxAbsExponent
    /\ printed.exp = 0
    /\ row \in 0..(Pow10[Precision] - 1)
    /\ pc \in {"parse", "check", "store", "load", "done", "refused"}

Passed == {"store", "load", "done"}

\* What is kept between the steps is what the step before it has made of the
\* text: nothing is changed on the way, and nothing is skipped.
OnTheWay ==
    /\ text \in Texts
    /\ pc \in {"parse", "check", "store", "load", "done", "refused"}
    /\ amount = NoDecimal \/ (Parses(text) /\ amount = NewFromString(text))
    /\ pc \in {"check"} \cup Passed => Parses(text) /\ amount = NewFromString(text)
    /\ pc \in Passed => /\ amount.value > 0
                        /\ FitsNumeric(amount, Precision, Scale)
                        /\ printed = String(amount)
    /\ pc \notin Passed => printed.exp = 0
    /\ (pc = "refused" /\ Parses(text)) =>
          ~(NewFromString(text).value > 0
            /\ FitsNumeric(NewFromString(text), Precision, Scale))
    /\ row = IF pc \in {"load", "done"} THEN Units(printed) ELSE 0
    /\ pc = "done" => read = NewFromString(ColumnText(row))

\* The inductive invariant: types (a row fits into the column), and what every
\* step hands over to the next.
DInv == TypeOK /\ OnTheWay

\* An amount with a legal exponent is accepted if and only if it is positive
\* and the column can hold it exactly (FitsNumeric against its definition).
AcceptedIffExact ==
    pc # "parse" /\ Parses(text) /\ pc # "check" =>
        ((pc # "refused") <=>
            /\ Exact(text) > 0
            /\ Exact(text) % Pow10[Finest - Scale] = 0
            /\ Exact(text) < Pow10[Finest + Precision - Scale])

\* Equal amounts, however they are written, have the same fingerprint and
\* different ones do not: what is printed is the one shortest text of the value.
FingerprintIsCanonical ==
    pc \in {"store", "load", "done"} =>
        /\ Exact(printed) = Exact(text)
        /\ printed.whole # <<>>
        /\ Len(printed.whole) > 1 => printed.whole[1] # 0
        /\ printed.frac # <<>> => printed.frac[Len(printed.frac)] # 0

\* What is stored, and what is read back, is what the client asked for.
StoredIsAsked ==
    /\ pc \in {"load", "done"} => row * Pow10[Finest - Scale] = Exact(text)
    /\ pc = "done" => Cmp(read, amount) = 0 /\ String(read) = printed

\* What the client asks for is either refused or kept to the last digit.
AcceptedIsStored == AcceptedIffExact /\ StoredIsAsked

\* Cmp, Add and Sub agree with exact arithmetic for amounts of any exponents.
ArithmeticIsExact ==
    pc = "check" =>
        \A t \in Texts :
            Parses(t) =>
                LET d == NewFromString(t) IN
                /\ Cmp(amount, d) = Sgn(Exact(text) - Exact(t))
                /\ ExactOf(Add(amount, d)) = Exact(text) + Exact(t)
                /\ ExactOf(Sub(amount, d)) = Exact(text) - Exact(t)
=============================================================================
