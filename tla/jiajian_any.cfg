SPECIFICATION Spec
CONSTANTS
  r1 = r1  r2 = r2  p1 = p1  p2 = p2  e1 = e1  e2 = e2  n1 = n1  n2 = n2
  f1 = f1  c1 = c1  c2 = c2  Blank = Blank
  Racks <- MCRacks
  Hosts = {r1}
  Ports = {p1}
  NoPort = NoPort
  Labels = {e1}
  NoLabel = NoLabel
  Results = {TRUE}
  FirstLabels = {e1}
  MaxReports = 1
  Clients = {f1}
  Nobody = Nobody
  Askers = {f1, Nobody}
  Orders = {n1, n2}
  NoOrder = NoOrder
  Conns = {c1, c2}
  NoSock = NoSock
  NoRack = NoRack
  NoMsg = NoMsg
  MaxWire = 1
  Resets = {}
  OwnEnds = {"A"}
  Asked = {"del"}
INVARIANTS
  TypeOK
  TakenAnsweredOnce
  AnswerGoesToAsker
  
VIEW WithoutObservers
SYMMETRY Same
CHECK_DEADLOCK FALSE
