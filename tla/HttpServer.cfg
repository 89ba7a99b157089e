SPECIFICATION HttpSpec
CONSTANTS
  GET = GET
  POST = POST
  Methods = {GET, POST}
  OtherMethods = {"HEAD"}
  Params = {":a", ":b"}
  BadParams = {":!"}
  RoutePaths <- MCRoutePaths
  RequestPaths <- MCRequestPaths
  BodyLengths = {0, 2}
  FileSizes = {0, 2, 3}
  MaxFileSize = 2
  ChunkSize = 1
  MaxRoutes = 3
  MaxServedRoutes = 1
  MaxRequests = 2
SYMMETRY MCSymmetry
INVARIANTS HonestRefusal RightHandler WellFramed AnswerFitsRequest
CHECK_DEADLOCK FALSE
