SPECIFICATION Spec
CONSTANTS
  Users = {a, b}
  Pagers = {p}
  Vfs = v
  Kinds = {"dir", "direct", "cached"}
  MaxHandles = 2
SYMMETRY Symmetry
CHECK_DEADLOCK FALSE
INVARIANTS TypeOK NoFilehandlePanic ValidHandleOpen NodeLockProtects NoUseAfterRelease DescriptorsCounted NoHandleLost HandleCount
