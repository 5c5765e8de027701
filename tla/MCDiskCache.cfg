\* Two requests at a time, two instants, a part of one piece and a whole of two.
SPECIFICATION Spec
CONSTANTS
  v1 = v1
  v2 = v2
  c1 = c1
  c2 = c2
  Client = {c1, c2}
  Version = {v1, v2}
  Part = {v1}
  Length <- OneAndTwo
  MaxLength = 2
  Ttl = 1
  MaxNow = 1
SYMMETRY Clients
INVARIANTS CacheTypeOK AnswersAreComplete
PROPERTIES BreaksHaveCauses HitsAreFresh
