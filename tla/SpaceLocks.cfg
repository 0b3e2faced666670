SPECIFICATION Spec
CONSTANTS
  gui1 = gui1
  gui2 = gui2
  sync = sync
  listener = listener
  exit = exit
  Tasks = {gui1, sync, listener, exit}
  May <- DesktopMay
CHECK_DEADLOCK FALSE
INVARIANTS TypeOK WedgeNeedsHeldSpaces
PROPERTIES OpsFinish
