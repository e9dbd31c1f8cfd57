SPECIFICATION Spec
CONSTANTS
  order = order
  line = line
  user = user
  place = place
  table = table
  None = None
  Records = {order, line, user, place, table}
  Origin <- Origins
  Parent <- Parents
  Catalogue <- Installed
  Budget <- Busy
  Pushers = {"worker", "trigger"}
  MaxClock = 7
  MaxRetries = 2
  MaxAttempts = 2
  PerPage = 1
INVARIANT PushedIfStamped
CHECK_DEADLOCK FALSE
