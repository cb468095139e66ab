SPECIFICATION Spec
CONSTANTS
  NBoards = 1
  FirstPacket = 2
  NTrays = 2
  TraysInFrame = 2
  Unheard = {"startup"}
  MinSize = 1
  MaxSize = 1
  MaxFiles = 1
INVARIANT StartupFailureFails
