----------------------------- MODULE TreeSteps ------------------------------
(***************************************************************************)
(* What PIACE asks of a value at any depth: whether it holds something     *)
(* sensitive or rich, what the rich parts of it look like once PuppetDB    *)
(* has stored them, and what of a pair of values may be published.  Each   *)
(* is one recursive function of the source; here is its body, which says   *)
(* what it answers for v with its answers for the values in v as a         *)
(* parameter.  ValueTrees closes the recursion.                            *)
(***************************************************************************)
EXTENDS Values

SensitiveAt(v, in(_)) == IsSensitiveWrapper(v) \/ \E c \in Children(v) : in(c)

RichDataAt(v, in(_)) == RichTypeName(v) # "" \/ \E c \in Children(v) : in(c)

\* Sensitive wrappers at the top of v taken off.
UnwrappedAt(v, of(_)) == IF IsSensitiveWrapper(v) THEN of(Under(v, "__pvalue")) ELSE v

\* How deep the containers of v nest, and the numbers in it.
DepthAt(v, of(_)) == IF IsHash(v) \/ IsList(v) THEN 1 + Max({0} \cup {of(c) : c \in Children(v)}) ELSE 0

NumbersAt(v, of(_)) == IF IsNumber(v) THEN {v.number} ELSE UNION {of(c) : c \in Children(v)}

-----------------------------------------------------------------------------
(* The strings PuppetDB's terminus stores for rich values                   *)

\* Mutant: every slash that does not follow a backslash gets one.
EscapeAfterBackslash(pattern) ==
  FoldLeft(LAMBDA acc, c :
             [out |-> acc.out \o (IF c = "/" /\ ~acc.odd THEN <<"\\", c>> ELSE <<c>>),
              odd |-> c = "\\"],
           [out |-> <<>>, odd |-> FALSE], pattern).out

\* Every slash that is not already escaped gets a backslash: one preceded by
\* an odd number of backslashes is.
EscapeRegexpSlashes(pattern) ==
  FoldLeft(LAMBDA acc, c :
             [out |-> acc.out \o (IF c = "/" /\ ~acc.odd THEN <<"\\", c>> ELSE <<c>>),
              odd |-> c = "\\" /\ ~acc.odd],
           [out |-> <<>>, odd |-> FALSE], pattern).out

\* Regexp is the one type whose stored form was measured.
Measured(type, value) == type = RegexpWrapperType /\ IsText(value)
StringifyRich(value) == Text(<<"/">> \o EscapeRegexpSlashes(value.text) \o <<"/">>)

\* The rich types in v, outermost only, that have no measured stored form.
UnmeasuredAt(v, of(_)) ==
  LET type == RichTypeName(v) IN
  IF type # ""
  THEN IF Measured(type, Under(v, "__pvalue")) THEN {} ELSE {type}
  ELSE UNION {of(c) : c \in Children(v)}

\* v as PuppetDB stores it, for a v without unmeasured types.
StringifiedRichAt(v, of(_)) ==
  CASE RichTypeName(v) # "" -> StringifyRich(v.at["__pvalue"])
    [] IsHash(v) /\ RichTypeName(v) = "" -> Hash([k \in DOMAIN v.at |-> of(v.at[k])])
    [] IsList(v) -> List([i \in DOMAIN v.items |-> of(v.items[i])])
    [] OTHER -> v

-----------------------------------------------------------------------------
(* What of a pair of values may be published                                *)

\* A wrapper on either side masks the place on both; containers of different
\* shapes are masked whole when anything in them is sensitive.
RedactedPairAt(before, after, sensitive, of(_, _)) ==
  LET at(k) == of(before.at[k], after.at[k])
      item(i) == of(before.items[i], after.items[i])
  IN
  IF IsSensitiveWrapper(before) \/ IsSensitiveWrapper(after) THEN MaskedPair
  ELSE IF ~sensitive THEN <<before, after>>
  ELSE CASE IsHash(before) /\ IsHash(after) /\ DOMAIN before.at = DOMAIN after.at ->
              <<Hash([k \in DOMAIN before.at |-> at(k)[1]]),
                Hash([k \in DOMAIN after.at |-> at(k)[2]])>>
         [] IsList(before) /\ IsList(after) /\ Len(before.items) = Len(after.items) ->
              <<List([i \in DOMAIN before.items |-> item(i)[1]]),
                List([i \in DOMAIN after.items |-> item(i)[2]])>>
         [] OTHER -> MaskedPair

\* The projection of two members of one group: a mask of either masks both.
RestrictedAt(a, b, of(_, _)) ==
  IF a = RedactedValue \/ b = RedactedValue THEN RedactedValue
  ELSE CASE IsHash(a) -> Hash([k \in DOMAIN a.at |-> of(a.at[k], Under(b, k))])
         [] IsList(a) -> List([i \in DOMAIN a.items |-> of(a.items[i], b.items[i])])
         [] OTHER -> a
=============================================================================
