SPECIFICATION Spec
CONSTANTS
  ReadyReq = {load1, load2}
  UnloadReq = {unload}
  ListReq = {list1}
  projectOf <- MCProjectOf
INVARIANTS TypeOK SlotHeldWhileLive OwnReply NoOrphanWaiter
PROPERTIES ClosingFrees ImplementsSlot
\* stop() ends the client
CHECK_DEADLOCK FALSE
