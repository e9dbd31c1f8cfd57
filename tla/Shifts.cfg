SPECIFICATION Spec
CONSTANTS
  s1 = s1
  s2 = s2
  o1 = o1
  u1 = u1
  u2 = u2
  Shifts = {s1, s2}
  Users = {u1, u2}
  Orders = {o1}
  Terminals = {1, 2}
  Total <- TwoEach
  Worlds = {{}, {"server"}, {"two terminals"}, {"shared", "change", "late return"}, {"cash moves"}, {"back office"}}
  Counts <- Entered
  MaxSpent = 1
  MaxMoved = 1
  Nobody = Nobody
SYMMETRY Interchangeable
CHECK_DEADLOCK FALSE
INVARIANTS CountedInOneShift ExpectedIsPhysical MoneyIsSettled
