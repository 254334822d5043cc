SPECIFICATION Spec
CONSTANTS
  MaxRequests = 2
  Ids = {x1, x2}
  Loop = Loop
  None = None
INVARIANTS
  TypeOK
  FramesIntact
  TableSound
  CancelIsExact
  CleanReturn
PROPERTIES
  SettlesSafely
  ImplementsSession
  RequestsEnd
  ShutdownCompletes
