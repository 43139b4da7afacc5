SPECIFICATION Spec
CONSTANTS
  MAX_BID_ERRORS = 3
  Name <- MCLongName
  Bids = {4}
  MaxRequests = 2
INVARIANT LengthAsSent
CHECK_DEADLOCK FALSE
