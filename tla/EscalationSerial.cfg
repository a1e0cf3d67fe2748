SPECIFICATION SerialFairSpec
CONSTANTS
  Alerts = {a1, a2, a3}
  Users = {u1}
  NoUser = NoUser
  NoAlert = NoAlert
  Acks = {k1}
  Sweeps = {s1}
  Rules <- TwoRules
  Seeded = {a3}
  MaxCreate = 0
  MaxNow = 2
INVARIANTS AckIsFinal OpenIsWatched
PROPERTIES AckedNotNotified ImplementsLifecycle ChainsEnd
