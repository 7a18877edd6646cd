SPECIFICATION Spec
CONSTANTS
  f = f
  g = g
  root = root
  pkg = pkg
  base = base
  File = {f, g}
  TsConfig = {root, pkg, base}
  Named = {root, pkg}
  Above <- MCAbove
  Contents <- MCContents
  Settings <- MCSettings
  MaxChanges = 2
  Absent = Absent
  None = None
  Unknown = Unknown
  Generated = Generated
INVARIANTS AnswersCurrent LookupCurrent EachRequestedOnce PackageChangeSeen
PROPERTIES SearchEnds
CHECK_DEADLOCK FALSE
