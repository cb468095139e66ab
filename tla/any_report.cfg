SPECIFICATION Spec
CONSTANTS
  b1 = b1  b2 = b2  p1 = p1  p2 = p2  p3 = p3
  eid1 = eid1  eid2 = eid2  eid3 = eid3  n1 = n1  n2 = n2  f1 = f1  f2 = f2
  MOBILE = MOBILE  NoPort = NoPort  NoEid = NoEid  NoNumber = NoNumber  NoFrame = NoFrame
  Boards <- MCBoards
  Ports <- AcrossPorts
  BoardOf <- AcrossBoardOf
  Eids <- OneEid
  Compared <- OneCompared
  Checked <- OneCompared
  Numbers = {n1, n2}
  Fds = {f1}
INVARIANTS
  AnswerOnce
  AskerStillConnected
  LampMeansOrder
  FlagsAreOfThisOrder
  OnlyOutputLingers
VIEW WithoutLabels
SYMMETRY SameNumbers
