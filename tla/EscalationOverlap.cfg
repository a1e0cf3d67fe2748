SPECIFICATION Spec
CONSTANTS
  Alerts = {a1, a2}
  Users = {u1}
  NoUser = NoUser
  NoAlert = NoAlert
  Acks = {k1}
  Sweeps = {s1}
  Rules <- OneRule
  Seeded = {}
  MaxCreate = 1
  MaxNow = 2
INVARIANTS TypeOK TimerHasRow RowShape StepsInOrder
PROPERTIES DueMovesForward
