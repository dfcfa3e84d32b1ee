\* The three buckets, and the API that reads them, against the abstract map; two detections may fall in one second.
SPECIFICATION APISpec
CONSTANTS
  IDs = {1, 2}
  Status = {"PENDING", "FORWARDED"}
  Times <- SortedAndUnsorted
  DefaultLimit = 1
  MaxLimit = 2
  MaxAsked = 3
INVARIANTS
  TypeOK
  IndexesExact
  AnswersMatchRecords
PROPERTIES
  ImplementsMap
