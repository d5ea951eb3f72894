SPECIFICATION Spec
CONSTANTS
  Threads = {a}
  Dirs = {r, d, e}
  Files = {f, g}
  Root = r
  NULL = NULL
  Closer = closer
  Moved = {}
SYMMETRY Symmetry
INVARIANT ParentFirst
CHECK_DEADLOCK FALSE
