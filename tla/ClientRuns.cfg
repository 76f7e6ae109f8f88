SPECIFICATION Spec
CONSTANTS
  Clients <- MCClients
  Resolvers <- MCClients
  Zone <- MCZone
  Answers <- MCAnswers
  Confs <- MCConfs
  BufferSize = 12
  RestCodes <- MCRestCodes
  RestSizes <- MCRestSizes
  MessageSize = 2
INVARIANTS IInv KeptClean AnswerIsOwn SocketsExplained NamesResolved AddsUp
PROPERTIES FetchEnds
CHECK_DEADLOCK FALSE
