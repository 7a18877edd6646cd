CONSTANTS
  Files = {f1, f2}
  Embedding = {f2}
  Contents = {c1, c2}
  Versions = {v1, v2}
  UcfgVersions = {u1, u2}
  Settings = {s1, s2}
  None = None
  MaxAnalyses = 3
  MaxChanges = 2
  MaxDamage = 1
  Names = {n1, n2}
  Bytes = {b1, b2}
  Absent = Absent
  Buffer = 2
  MaxSize = 3
  MaxPaths = 3
  Width = 7
  Chunk = 2
  Bits <- MCBits
  Locations <- MCLocations
  Images <- MCImages
  END <- MCEnd
  Null = Null
  MaxTokens = 3
SPECIFICATION MCSpec
SYMMETRY Symmetry
INVARIANTS TypeOK ResultsCurrent EntriesWrittenOnce MissJustified ExtractedRight RefusedIffCut CodecFaithful
CHECK_DEADLOCK FALSE
