SPECIFICATION Spec
CONSTANTS
  Threads = {a, b}
  Vnodes = {r, u, v, w}
  Rootvp = r
  NULLVP = NULLVP
  Nodes = {m, n}
  FUSE_ROOT_ID = 1
  FUSE_NULL_ID = 0
  Attrs <- MCAttrs
  MaxLookups = 2
SYMMETRY Symmetry
CHECK_DEADLOCK FALSE
INVARIANT OneVnode
