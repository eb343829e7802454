SPECIFICATION Spec
CONSTANTS
  NameOrder <- MCNameOrder
  TitleOrder <- MCTitleOrder
  ElementOrder <- MCElementOrder
  NumberDigits = 2
  NumberExponent = 2
  JSONNestingDepth = 200
  Changes <- MCChanges
  Spellings <- MCSpellings
  Damages <- MCDamages
  AliasedTitle <- MCAliasedTitle
  ContainsSensitive <- MCContainsSensitive
  ContainsRichData <- MCContainsRichData
  Unwrapped <- MCUnwrapped
  Depth <- MCDepth
  NumbersIn <- MCNumbersIn
  Unmeasured <- MCUnmeasured
  ProjectStringifiedRich <- MCProjectStringifiedRich
  RedactSensitivePair <- MCRedactSensitivePair
  RestrictProjection <- MCRestrictProjection
INVARIANTS
  StorageIsNoDifference
  NothingIsHidden
  NeverPartial
CHECK_DEADLOCK FALSE
