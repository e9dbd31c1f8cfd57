SPECIFICATION FairSpec
CONSTANTS
  order = order
  line = line
  user = user
  place = place
  table = table
  None = None
  Records = {order, line, user, place, table}
  Origin <- Origins
  Parent <- Parents
  Catalogue <- Installed
  Budget <- Budgets
  Pushers = {"worker", "trigger"}
  MaxClock = 7
  MaxRetries = 2
  MaxAttempts = 2
  PerPage = 1
CHECK_DEADLOCK FALSE
INVARIANTS NothingIsLost RowsAgree
PROPERTIES OnlyForward EventuallySame
