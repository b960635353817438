\* Numbers of every type in and out of documents; no wrappers.
SPECIFICATION Spec
CONSTANTS
  k = k
  l = l
  d = d
  e = e
  m1 = m1
  m2 = m2
  m3 = m3
  m4 = m4
  NULL = NULL
  NoKey = NoKey
  Keys = {k}
  Fold <- NoFold
  M32 = 8
  M64 = 32
  Cells = {m1, m2, m3, m4}
  Vars = {d, e}
  Indices = {0}
  MaxDepth <- NoWraps
  MaxWrappers = 0
  Strings = {"s"}
  Booleans = {TRUE}
  Integers32or64 <- Boundaries
  Reals <- SomeReals
  Documents <- NumberMembers
  NumberTexts <- SomeTexts
  Liberties = {}
SYMMETRY AnyCell
INVARIANTS
  PrintedAsGiven
  ReadsBack
PROPERTIES
  CopiesReadTheSame
