SPECIFICATION Spec
CONSTANTS
  Envs = {"move", "move2", "hardlink"}
  Link <- LinkByName
  Files = {f, g}
  Commands <- NoRestore
  Collecting = FALSE
  DiePoints <- AllButPlace
  MaxRunning = 1
INVARIANT Independent
INVARIANT UsableWhole
INVARIANT RemovedIsGone
CHECK_DEADLOCK FALSE
