\* Two variables, the wrappers below them, and what becomes of the memory.
SPECIFICATION Spec
CONSTANTS
  k = k
  l = l
  d = d
  e = e
  m1 = m1
  m2 = m2
  m3 = m3
  m4 = m4
  NULL = NULL
  NoKey = NoKey
  Keys = {k, l}
  Fold <- NoFold
  M32 = 4
  M64 = 8
  Cells = {m1, m2, m3}
  Vars = {d, e}
  Indices = {0, 1}
  MaxDepth <- WrapsD
  MaxWrappers = 2
  Strings = {}
  Booleans = {}
  Integers32or64 = {}
  Reals = {}
  Documents <- OneMember
  NumberTexts = {}
  Liberties = {}
SYMMETRY AnyCell
INVARIANTS
  TypeOK
  SingleOwner
  NoLeak
  WrappersFresh
  CursorLive
PROPERTIES
  OneDocumentChanges
