SPECIFICATION Spec
CONSTANTS
  Clients <- MCClients
  Resolvers <- MCClients
  Zone <- MCZone
  Answers <- MCAnswers
  Confs <- MCOneCall
  BufferSize = 12
  RestCodes <- MCRestCodes
  RestSizes <- MCRestSizes
  MessageSize = 2
PROPERTIES TimeoutEnds
CHECK_DEADLOCK FALSE
