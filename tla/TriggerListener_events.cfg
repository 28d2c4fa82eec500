SPECIFICATION FairSpec
CONSTANTS
  Replica = {r1, r2}
  Outages = {{}, {r2}}
  Thread = {h1, h2}
  Admin = {a1, a2}
  TurnsOff = {a1}
  Occurrence = {o1}
  MaxTriggers = 2
  Faults = {}
  Nobody = Nobody
  r1 = r1
  r2 = r2
  h1 = h1
  h2 = h2
  a1 = a1
  a2 = a2
  o1 = o1
INVARIANT AskedOnce
PROPERTY SomeoneListens
PROPERTY RedeliveryHeals
