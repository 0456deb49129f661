SPECIFICATION Spec
CONSTANTS
  Procs = {p1}
  Pkgs = {a, b}
  MaxGen = 3
  DiePoints <- MCDieOutsideSwap
INVARIANTS
  CurrentComplete
  DamageIsLocal
PROPERTIES
  HistorySpec
SYMMETRY MCSymmetry
CHECK_DEADLOCK FALSE
