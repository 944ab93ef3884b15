\* One backbone or two, two devices on bus b, one of them without an address, and
\* two clients.
CONSTANTS
  Routers = {"r1", "r2"}
  Media = {"a", "x", "y", "b"}
  Topologies <- MCBoth
  Device <- MCDevice
  Home <- MCHome
  RouterAddr <- MCRouterAddr
  c1 = c1
  c2 = c2
  Clients = {c1, c2}
  Gate = "r1"
  BlockStart = 5
  BlockLen = 2
  Group = 100
  Dests = {1, 21}
  Hops = {2}
  force_broadcast = FALSE
  MaxSent = 2
  MaxOpens = 2
SPECIFICATION Spec
SYMMETRY Perms
INVARIANTS Once BlockStaysLocal NoStrayAnswer Reaches
CHECK_DEADLOCK FALSE
