SPECIFICATION PlanSpec
CONSTANTS
  Pkgs = {a, b, c}
  Ghosts = {}
INVARIANTS
  OnlyForced
  AllOrphansFound
  NothingBroken
SYMMETRY MCSymmetry
