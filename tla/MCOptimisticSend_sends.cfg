SPECIFICATION FairSpec
CONSTANTS
  MaxSends = 2
  Cases <- SendCases
  FirstReqSeq = 7
  ReqSeqs = 8
  Clock = 1
INVARIANTS TypeOK SwapsOwnBubble PageConverges NothingLost FreshSequence
PROPERTIES BubbleSettles
CHECK_DEADLOCK FALSE
