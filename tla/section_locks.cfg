SPECIFICATION FairSpec
CONSTANTS
  Sections = {s1}
  Users = {u1, u2}
  Requests = {q1, q2}
  Clients = {c1}
  NoOne = NoOne
  TTL = 1
  Cap = 2
INVARIANT ViewAgrees
PROPERTY AbandonedLockIsFreed
