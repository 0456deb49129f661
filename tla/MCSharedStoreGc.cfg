SPECIFICATION Spec
CONSTANTS
  Envs = {"symlink", "hardlink"}
  Link <- LinkByName
  Files = {f}
  Commands <- InstallOnly
  Collecting = TRUE
  DiePoints <- NoSteps
  MaxRunning = 1
PROPERTY GcSparesReferenced
CHECK_DEADLOCK FALSE
