SPECIFICATION FairSpec
CONSTANTS
  r1 = r1  r2 = r2  r3 = r3
  Requests = {r1, r2, r3}
  Callers <- ThreeCallers
  Clients <- OneClient
  Hops = 1
  GlobalInflight = 2
  Results <- WaysOut
  Rates <- OnePerTick
  Bursts <- SmallBursts
  KeyTTL = 2
INVARIANTS SlotsHeld BucketsNameCallers
PROPERTIES ImplementsQuota Quiesces
