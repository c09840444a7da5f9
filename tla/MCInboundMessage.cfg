CONSTANTS
  Requests <- MCRequests
  Garbage = Garbage

SPECIFICATION FairSpec

INVARIANTS TypeOK SearchFindsTheFirst ReadableRequestsAreSurvived FirstLineIsRead
           EveryPartIsVisited LimitIsKept RefsStayInTheirPart UrlIsDecoded DecodeKeepsTheRest
PROPERTIES ParsingEnds DecodingEnds
