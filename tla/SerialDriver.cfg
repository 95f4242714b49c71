SPECIFICATION Spec
CONSTANTS
  Size = 3
  Byte = {0, 1}
  NoData = NoData
INVARIANTS TypeOK NothingRefused
PROPERTIES ReceiveIsQueue TransmitIsQueue AllSent
