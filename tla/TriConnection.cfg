CONSTANTS
  MaxId = 6
  MaxMsgs = 2
SPECIFICATION FairSpec
CHECK_DEADLOCK FALSE
INVARIANTS TypeOK ResultIsResult Delivery NoRequestLost
PROPERTIES RequestsReturn ImplementsRequestReply
