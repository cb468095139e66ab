SPECIFICATION Spec
CONSTANTS
  NBoards = 3
  FirstPacket = 2
  NTrays = 4
  TraysInFrame = 2
  Unheard = {"startup", "first", "packet"}
  MinSize = 1
  MaxSize = 2
  MaxFiles = 2
INVARIANTS
  TypeOK
  
  
  
  
PROPERTY BoardsUpdateEnds
