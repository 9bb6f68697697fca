SPECIFICATION EitherSpec
CONSTANTS
  HEADER_SIZE = 1
  MAX_FRAME_MESSAGE = 3
  MAX_ATTRIBUTE_VALUE = 3
  MIN_ATT_MTU = 5
  MaxMessageId = 2
  MAX_NDEF_RECORD = 3
  MAX_APDU_PAYLOAD = 2
  SequenceRange = 4
  BleMessages = 2
  IsoDepMessages = 3
  MaxFaults = 2
INVARIANTS
  MessagesAreWhole
  CleanConnectionDelivers
