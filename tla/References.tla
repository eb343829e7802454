----------------------------- MODULE References -----------------------------
(***************************************************************************)
(* Resource references, Type[title]: how Puppet writes one, and how the    *)
(* normalizer takes it apart again with the pattern of PuppetDB's terminus *)
(* (resourceReferencePattern).  Brackets may be part of a title.           *)
(***************************************************************************)
EXTENDS Integers, Sequences

Brackets == {"[", "]"}

\* Puppet::Resource#to_s.
Reference(type, title) == type \o <<"[">> \o title \o <<"]">>

\* Where the type ends: the first bracket of either kind, 0 if there is none.
FirstBracket(ref) ==
  IF \E i \in DOMAIN ref : ref[i] \in Brackets
  THEN CHOOSE i \in DOMAIN ref : ref[i] \in Brackets /\ \A j \in 1 .. i - 1 : ref[j] \notin Brackets
  ELSE 0

IsReference(ref) ==
  LET i == FirstBracket(ref) IN
  i > 1 /\ ref[i] = "[" /\ Len(ref) > i + 1 /\ ref[Len(ref)] = "]"

\* The title runs to the last closing bracket.
SplitReference(ref) ==
  LET i == FirstBracket(ref) IN
  [type |-> SubSeq(ref, 1, i - 1), title |-> SubSeq(ref, i + 1, Len(ref) - 1)]
=============================================================================
