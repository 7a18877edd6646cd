CONSTANTS
  t = t
  y = y
  z = z
  two = two
  N = 8
  Variables = {t, y, z}
  Literals = {two}
  Opaque = Opaque
  Undefined = Undefined
  Computed = Computed
SPECIFICATION MCSpec
PROPERTY DefinitionsEnd
CHECK_DEADLOCK FALSE
