SPECIFICATION Spec
CONSTANTS
  Alerts = {a1}
  Users = {u1}
  NoUser = NoUser
  NoAlert = NoAlert
  Acks = {k1}
  Sweeps = {s1}
  Rules <- OneRule
  Seeded = {}
  MaxCreate = 0
  MaxNow = 2
INVARIANT AckIsFinal
