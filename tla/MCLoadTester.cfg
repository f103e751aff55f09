CONSTANTS
  Slots = {s1, s2, s3}
  MaxRequests = 4
  MaxConnects = 5
SPECIFICATION LSpec
\* The program ends when it has printed its statistics.
CHECK_DEADLOCK FALSE
INVARIANTS
  LTypeOK
  OpenNowIsOpen
  
  RequestsAccounted
PROPERTY
  TestEnds
