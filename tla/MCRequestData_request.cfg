SPECIFICATION Spec
CONSTANTS
  None = None
  Messages <- AllMessages
  PathSize = 2
  PathLimit = 5
  FieldLimit = 1
  FieldSizeLimit = 7
  MaxContent = 4
  BodyBufferSize = 2
  BufferMax = 100
  ContentType <- C
  ContentLength <- A
  Sizes <- AllSizes
INVARIANTS TypeOK BufferHolds OutcomeOfMessage EnvironOfMessage PathAndQuery BodyArrives
PROPERTY ReadsLikeAFile
\* a refused request goes no further
CHECK_DEADLOCK FALSE
