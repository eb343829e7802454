--------------------------- MODULE TreeOperators ----------------------------
(***************************************************************************)
(* The recursive functions on values as their callers see them.  They are  *)
(* parameters, so that what is proved of the callers rests on what these   *)
(* are known to satisfy, and nothing else; TLC's runs take ValueTrees'.    *)
(***************************************************************************)
EXTENDS TreeSteps

CONSTANTS
  ContainsSensitive(_),      \* something in the value is wrapped as sensitive
  ContainsRichData(_),       \* something in it is a rich value
  Unwrapped(_),              \* it without Sensitive wrappers at its top
  Depth(_),                  \* how deep its containers nest
  NumbersIn(_),              \* the numbers in it
  Unmeasured(_),             \* the rich types in it whose stored form is unknown
  ProjectStringifiedRich(_), \* it as PuppetDB stores it
  RedactSensitivePair(_, _), \* what of two values may be published
  RestrictProjection(_, _)   \* what two projections of a value both show
=============================================================================
