SPECIFICATION Spec
CONSTANTS
  Urls <- MCUrls
  Pages <- MCPages
  MAX_REQUEST_SIZE = 4
  RecvSize = 3
  SEND_BUF_SIZE = 2
  MaxStream = 7
  MaxFile = 5
  MaxConnections = 2
INVARIANT StaysBelowRoot
CHECK_DEADLOCK FALSE
