SPECIFICATION RackSpec
CONSTANTS
  b1 = b1  b2 = b2  p1 = p1  p2 = p2  eid1 = eid1  eid2 = eid2  n1 = n1  n2 = n2
  MOBILE = MOBILE  NoPort = NoPort  NoEid = NoEid  NoNumber = NoNumber  NoFrame = NoFrame
  Boards = {b1, b2}
  Ports = {p1, p2}
  BoardOf <- AcrossBoardOf
  Eids = {eid1}
  Compared <- OneCompared
  Checked <- OneCompared
  Numbers = {n1, n2}
  Fds = {}
  MaxReports = 1
  Results = {TRUE, FALSE}
  FirstLabels <- BothFull
PROPERTY SettledOrderEnds
