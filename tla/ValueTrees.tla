----------------------------- MODULE ValueTrees -----------------------------
(***************************************************************************)
(* The values that runs give to the constants of TreeOperators: each       *)
(* function is its step of TreeSteps, with itself for what the values      *)
(* inside are.                                                             *)
(***************************************************************************)
EXTENDS TreeSteps

RECURSIVE MCContainsSensitive(_)
MCContainsSensitive(v) == SensitiveAt(v, MCContainsSensitive)

RECURSIVE MCContainsRichData(_)
MCContainsRichData(v) == RichDataAt(v, MCContainsRichData)

RECURSIVE MCUnwrapped(_)
MCUnwrapped(v) == UnwrappedAt(v, MCUnwrapped)

RECURSIVE MCDepth(_)
MCDepth(v) == DepthAt(v, MCDepth)

RECURSIVE MCNumbersIn(_)
MCNumbersIn(v) == NumbersAt(v, MCNumbersIn)

RECURSIVE MCUnmeasured(_)
MCUnmeasured(v) == UnmeasuredAt(v, MCUnmeasured)

RECURSIVE MCProjectStringifiedRich(_)
MCProjectStringifiedRich(v) == StringifiedRichAt(v, MCProjectStringifiedRich)

RECURSIVE MCRedactSensitivePair(_, _)
MCRedactSensitivePair(before, after) ==
  RedactedPairAt(before, after, MCContainsSensitive(before) \/ MCContainsSensitive(after),
                 MCRedactSensitivePair)

RECURSIVE MCRestrictProjection(_, _)
MCRestrictProjection(a, b) == RestrictedAt(a, b, MCRestrictProjection)
=============================================================================
