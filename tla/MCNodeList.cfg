\* Two requests at a time, two nodes, two addresses.
SPECIFICATION NodesSpec
CONSTANTS
  Id = {i1, i2}
  Address = {a1, a2}
  Caller = {r1, r2}
SYMMETRY Alike
INVARIANTS NodesTypeOK ListIsSerial
