------------------------------ MODULE Numbers ------------------------------
(***************************************************************************)
(* canonicalNumberString of internal/snapshot: one spelling for every      *)
(* number.  A number is its JSON token: a sign, the digits before and      *)
(* after the point, and a decimal exponent (0 when the token has none).    *)
(***************************************************************************)
EXTENDS Integers, SequencesExt, FiniteSetsExt

CONSTANTS
  NumberDigits,     \* limits.NumberDigits, 1024 in the code
  NumberExponent    \* limits.NumberExponent, 1024 in the code

ASSUME NumberBudget == NumberDigits \in Nat \ {0} /\ NumberExponent \in Nat

Zeros(n) == [i \in 1 .. n |-> 0]

\* Both bounds are on the token, before anything is expanded.
CheckNumericShape(n) ==
  /\ Len(n.int) + Len(n.frac) <= NumberDigits
  /\ n.exp \in -NumberExponent .. NumberExponent

TrimTrailingZeros(s) == SubSeq(s, 1, Max({0} \cup {i \in DOMAIN s : s[i] # 0}))

\* The digits before the point, "0" when there are none left.
TrimLeadingZeros(s) == SubSeq(s, Min({Len(s)} \cup {i \in DOMAIN s : s[i] # 0}), Len(s))

\* The exact decimal of a token: the point is moved by the exponent, and what
\* is left of a zero has no sign.
CanonicalNumber(n) ==
  LET digits == n.int \o n.frac
      point == Len(n.int) + n.exp
      padded == Zeros(1 - point) \o digits \o Zeros(point - Len(digits))
      whole == IF point < 1 THEN 1 ELSE point
  IN  [neg |-> n.neg /\ \E i \in DOMAIN digits : digits[i] # 0,
       int |-> TrimLeadingZeros(SubSeq(padded, 1, whole)),
       frac |-> TrimTrailingZeros(SubSeq(padded, whole + 1, Len(padded))),
       exp |-> 0]
=============================================================================
