SPECIFICATION Spec
CONSTANTS
  MAX_BID_ERRORS = 3
  Name <- MCName
  Bids = {0, 4, 16}
  MaxRequests = 6
INVARIANTS TypeOK AnswersInOrder LagBounded BidsAreOffers MailBounded
INVARIANTS EverythingArrives
\* A session ends, or the server has sent all the requests it may.
CHECK_DEADLOCK FALSE
