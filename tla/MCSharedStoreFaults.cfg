SPECIFICATION Spec
CONSTANTS
  Envs = {"reflink", "move", "move2", "symlink"}
  Link <- LinkByName
  Files = {f}
  Commands <- FewCommands
  Collecting = TRUE
  DiePoints <- AllSteps
  MaxRunning = 2
INVARIANT ReflinkSafe
CHECK_DEADLOCK FALSE
