------------------------------- MODULE Values -------------------------------
(***************************************************************************)
(* The values a catalog parameter may have: the JSON-like domain of        *)
(* model.Value.  A string is a sequence of tokens, of which the models     *)
(* only ever look at the ones their properties tell apart; a number is a *)
(* token of Numbers.  A Pcore rich value is the hash a compiler sends for  *)
(* it, with its type and its value under two reserved keys.                *)
(***************************************************************************)
EXTENDS SequencesExt, Sorting

\* A parameter that is absent and one that is undef are the same.
Undef == [kind |-> "undef"]
Text(t) == [kind |-> "text", text |-> t]
Boolean(b) == [kind |-> "boolean", boolean |-> b]
Number(n) == [kind |-> "number", number |-> n]
List(s) == [kind |-> "list", items |-> s]
Hash(f) == [kind |-> "hash", at |-> f]

Rich(type, value) == Hash([__ptype |-> Text(<<type>>), __pvalue |-> value])

IsText(v) == v.kind = "text"
IsBoolean(v) == v.kind = "boolean"
IsNumber(v) == v.kind = "number"
IsList(v) == v.kind = "list"
IsHash(v) == v.kind = "hash"

\* What a hash holds under a key, undef when it has no such key.
Under(v, key) == IF key \in DOMAIN v.at THEN v.at[key] ELSE Undef

\* The values directly in v.
Children(v) ==
  CASE IsHash(v) -> {v.at[k] : k \in DOMAIN v.at}
    [] IsList(v) -> {v.items[i] : i \in DOMAIN v.items}
    [] OTHER -> {}

\* What a report carries in the place of a value it must not disclose.
RedactedValue == Text(<<"<redacted>">>)
MaskedPair == <<RedactedValue, RedactedValue>>

SensitiveWrapperType == "Sensitive"
RegexpWrapperType == "Regexp"

\* The Pcore type of a rich value, "" for any other value.
RichTypeName(v) ==
  IF IsHash(v) /\ IsText(Under(v, "__ptype")) /\ Len(v.at["__ptype"].text) = 1
  THEN v.at["__ptype"].text[1]
  ELSE ""

IsSensitiveWrapper(v) == RichTypeName(v) = SensitiveWrapperType

\* The parameters of a File that identify the bytes it manages.
FileResourceType == "File"
FileContentBearingParameters == {"content", "source", "checksum", "checksum_value"}
=============================================================================
