----------------------------- MODULE FixedPoint -----------------------------
(***************************************************************************)
(* The exact fractions of verify-v-engine.mjs and their only rounding, to  *)
(* Scale decimal places half to even (section 1 of the file).  A decimal   *)
(* text is the tuple <<form, negative, integer part, fraction, places>>,   *)
(* where the fraction is read as an integer of that many places.           *)
(***************************************************************************)
EXTENDS Integers

CONSTANTS
    Scale,        \* places kept when a fraction is written, 14 in the code
    PlainDigits,  \* String(v) of a number this long has an exponent, 21
    PlainPlaces   \* and so has one below 10^-PlainPlaces, 6

Abs(n) == IF n < 0 THEN -n ELSE n

Gcd[p \in Nat \X Nat] ==
    IF p[2] = 0 THEN p[1] ELSE Gcd[<<p[2], p[1] % p[2]>>]

\* Lowest terms, the sign in the numerator; BigInt division is exact here.
Norm(num, den) ==
    LET sign == IF den < 0 THEN -1 ELSE 1
        g    == Gcd[<<Abs(num), Abs(den)>>]
    IN  [kind |-> "rat",
         num |-> sign * (IF num < 0 THEN -(Abs(num) \div g) ELSE num \div g),
         den |-> Abs(den) \div g]

FromInt(n) == [kind |-> "rat", num |-> n, den |-> 1]

\* String(v), its exponent expanded and read as a decimal: v is digits * 10^exp.
FromNumber(v) ==
    IF v.exp >= 0 THEN Norm(v.digits * 10^v.exp, 1)
                  ELSE Norm(v.digits, 10^(-v.exp))

Add(a, b) == Norm(a.num * b.den + b.num * a.den, a.den * b.den)
Sub(a, b) == Norm(a.num * b.den - b.num * a.den, a.den * b.den)
Mul(a, b) == Norm(a.num * b.num, a.den * b.den)
Div(a, b) == Norm(a.num * b.den, a.den * b.num)
Less(a, b) == a.num * b.den < b.num * a.den

-----------------------------------------------------------------------------
\* Trailing zeros of a fraction are dropped.
Trim[p \in Nat \X Nat] ==
    IF p[2] > 0 /\ p[1] % 10 = 0 THEN Trim[<<p[1] \div 10, p[2] - 1>>] ELSE p

\* Mutant: trailing zeros stay.
TextUntrimmed(neg, int, frac, places) == <<"plain", neg, int, frac, places>>

Text(neg, int, frac, places) ==
    <<"plain", neg, int, Trim[<<frac, places>>][1], Trim[<<frac, places>>][2]>>

\* The digit after the last one kept decides; a half looks at what follows
\* it and at the parity of the digit before it.
RoundsUp(last, next, hasRest) ==
    next > 5 \/ (next = 5 /\ (hasRest \/ last % 2 = 1))

\* num / den in units of 1 / pow, where pow is 1 or a power of 10: the integer
\* part and the fraction; the fraction may carry into the integer part.
RoundHalfEven(num, den, pow) ==
    LET ip     == num \div den
        scaled == ((num % den) * pow * 10) \div den
        kept   == scaled \div 10
        last   == IF pow > 1 THEN kept % 10 ELSE ip % 10
        up     == RoundsUp(last, scaled % 10, ((num % den) * pow * 10) % den # 0)
        frac   == IF up THEN kept + 1 ELSE kept
    IN  IF frac >= pow THEN <<ip + 1, frac - pow>> ELSE <<ip, frac>>

ToDecimalString(r, scale) ==
    LET parts == RoundHalfEven(Abs(r.num), r.den, 10^scale)
    IN  Text(r.num < 0, parts[1], parts[2], scale)

\* fromInt(toDecimalString(r, 0)): BigInt reads "-0" as 0.
RoundToInt(r) ==
    LET text == ToDecimalString(r, 0)
    IN  FromInt(IF text[2] THEN -text[3] ELSE text[3])

\* String(v) of a number: very large and very small ones get an exponent.
JsString(v) ==
    LET small == v.exp < 0 /\ Abs(v.digits) < 10^(-v.exp)
                           /\ Abs(v.digits) * 10^PlainPlaces < 10^(-v.exp)
        large == v.exp >= 0 /\ Abs(v.digits) * 10^v.exp >= 10^PlainDigits
        unit  == 10^(-v.exp)
    IN  IF v.digits # 0 /\ (small \/ large)
        THEN <<"exponent", v.digits < 0, Abs(v.digits), v.exp, 0>>
        ELSE IF v.exp >= 0 THEN Text(v.digits < 0, Abs(v.digits) * 10^v.exp, 0, 0)
        ELSE Text(v.digits < 0, Abs(v.digits) \div unit, Abs(v.digits) % unit, -v.exp)
=============================================================================
