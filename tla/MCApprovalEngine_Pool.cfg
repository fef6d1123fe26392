SPECIFICATION FairSpec
CONSTANTS
  r1 = r1
  r2 = r2
  d1 = d1
  d2 = d2
  Workers = {w1, w2}
  Requests = {r1, r2}
  Devices = {d1, d2}
  Responses <- MCTwoDevices
  MaxConns = 2
PROPERTIES
  CallsFinish
