------------------------------ MODULE Sorting -------------------------------
(***************************************************************************)
(* Lists: what sorting makes of a finite set, and filtering.  An order     *)
(* is a set of pairs, so that it can be computed from the data that is     *)
(* sorted.                                                                 *)
(***************************************************************************)
EXTENDS Naturals, FiniteSets, Sequences

\* A list: a function on the numbers from 1 to its length.
IsSequence(s) == s \in Seq({s[i] : i \in DOMAIN s})

StrictOrder(R, S) ==
  /\ \A x \in S : <<x, x>> \notin R
  /\ \A x, y, z \in S : <<x, y>> \in R /\ <<y, z>> \in R => <<x, z>> \in R
  /\ \A x, y \in S : x # y => <<x, y>> \in R \/ <<y, x>> \in R

\* At each place the element that has the places before it for its betters.
Arranged(S, R) ==
  [k \in 1 .. Cardinality(S) |-> CHOOSE x \in S : Cardinality({y \in S : <<y, x>> \in R}) = k - 1]

\* A loop over the entries that appends those at the places to keep.
Kept(entries, keep) ==
  LET list[i \in 0 .. Len(entries)] ==
        CASE i = 0 -> <<>>
          [] i > 0 /\ i \in keep -> Append(list[i - 1], entries[i])
          [] OTHER -> list[i - 1]
  IN  list[Len(entries)]
=============================================================================
