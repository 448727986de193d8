CONSTANTS
  r1 = r1
  r2 = r2
  r3 = r3
  r4 = r4
  r5 = r5
  ka = ka
  kb = kb
  kc = kc
  Requests = {r1, r2, r3, r4, r5}
  AudioRequests = {}
  Keys = {ka, kb, kc}
  NoKey = NoKey
  Total = 2
  NoSlot = NoSlot
SPECIFICATION MCSpec
INVARIANT NamedSlotIsIdle
