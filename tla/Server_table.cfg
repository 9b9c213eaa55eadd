SPECIFICATION Spec
CONSTANTS
  Ips = {a1, a2, a3}
  NoAddress = NoAddress
  NoClient = NoClient
  MaxClients = 2
  Streams = {"video"}
  StartValues = {0}
  Faults = {"leave", "stop", "accept"}
  MaxCount = 2
INVARIANTS TypeOK TableSound 
SYMMETRY IpSymmetry
