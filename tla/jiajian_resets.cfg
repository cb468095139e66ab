SPECIFICATION Spec
CONSTANTS
  r1 = r1  r2 = r2  p1 = p1  p2 = p2  e1 = e1  e2 = e2  n1 = n1  n2 = n2
  f1 = f1  c1 = c1  c2 = c2  Blank = Blank
  Racks <- MCRacks
  Hosts = {r1}
  Ports = {p1}
  NoPort = NoPort
  Labels = {e1}
  NoLabel = NoLabel
  Results = {TRUE, FALSE}
  FirstLabels = {NoLabel, e1}
  MaxReports = 1
  Clients = {f1}
  Nobody = Nobody
  Askers = {f1, Nobody}
  Orders = {n1}
  NoOrder = NoOrder
  Conns = {c1, c2}
  NoSock = NoSock
  NoRack = NoRack
  NoMsg = NoMsg
  MaxWire = 2
  Resets = {r1, r2}
  OwnEnds = {"A"}
  Asked = {"new", "del"}
PROPERTY SuccessMeansBoth
CHECK_DEADLOCK FALSE
