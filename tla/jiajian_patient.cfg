SPECIFICATION PatientSpec
CONSTANTS
  r1 = r1  r2 = r2  p1 = p1  p2 = p2  e1 = e1  e2 = e2  n1 = n1  n2 = n2
  f1 = f1  c1 = c1  c2 = c2  Blank = Blank
  Racks <- MCRacks
  Hosts = {r1}
  Ports = {p1}
  NoPort = NoPort
  Labels = {e1, e2}
  NoLabel = NoLabel
  Results = {TRUE, FALSE}
  FirstLabels = {NoLabel}
  MaxReports = 1
  Clients = {f1}
  Nobody = Nobody
  Askers = {f1}
  Orders = {n1}
  NoOrder = NoOrder
  Conns = {c1, c2}
  NoSock = NoSock
  NoRack = NoRack
  NoMsg = NoMsg
  MaxWire = 2
  Resets = {}
  OwnEnds = {"A"}
  Asked = {"new", "del"}
 
PROPERTIES
  ConcludedOnAgreement
  SuccessMeansBoth
  ConcludedOrderEnds
CHECK_DEADLOCK FALSE
