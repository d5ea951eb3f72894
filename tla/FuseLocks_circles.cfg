SPECIFICATION Spec
CONSTANTS
  Threads = {a, b}
  Dirs = {r, d}
  Files = {f, g}
  Root = r
  NULL = NULL
  Closer = closer
  Moved = {f, g}
SYMMETRY Symmetry
INVARIANTS TypeOK CirclesKnown OneLockPerNode
CHECK_DEADLOCK FALSE
