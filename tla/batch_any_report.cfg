SPECIFICATION Spec
CONSTANTS
  p1 = p1  p2 = p2  p3 = p3  p4 = p4
  eid1 = eid1  eid2 = eid2  eid3 = eid3  n1 = n1  n2 = n2  f1 = f1
  MOBILE = MOBILE  Elsewhere = Elsewhere  Blank = Blank
  NoPort = NoPort  NoEid = NoEid  NoNumber = NoNumber  NoFrame = NoFrame
  MaxBoard = 2
  MaxEntries = 2
  Ports <- MCPorts
  BoardOf <- MCBoardOf
  Eids <- TwoEids
  Checked <- TwoChecked
  Layouts <- MCLayouts
  Numbers = {n1, n2}
  Fds = {f1}
INVARIANTS
  TypeOK
  OneLabelOnePair
  EndsAgree
  BatchCanClose
  LampMeansSomeOrder
VIEW WithoutResults
