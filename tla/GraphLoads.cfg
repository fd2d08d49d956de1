SPECIFICATION GraphSpec
CONSTANTS
  target = target
  subdomain = subdomain
  service = service
  ip = ip
  w1 = w1
  w2 = w2
  Writers = {w1, w2}
  Readers = {r1}
  Graphs <- GraphSet
  NodeRank <- NodeRankTable
  EdgeRank <- EdgeRankTable
  Label <- LabelTable
  MaxGraphs = 2
  MaxSecond = 1
INVARIANTS StoresWork LoadsWhole
PROPERTY SearchesAreExact
CHECK_DEADLOCK FALSE
SYMMETRY WriterSymmetry
