SPECIFICATION StreamSpec
CONSTANTS
  Subscribers = {s1}
  History = {s1}
  Helpers = {h}
  EventLogSize = 2
  MaxEvents = 4
  Payloads <- MCPayloads
  ChunkSize = 1
  MaxResultBytes = 3
  MaxAssembledBytes = 8
CONSTRAINT ShortWhenWatched
INVARIANTS
  HistoryComplete
  EndLearned
  ChunksExact
CHECK_DEADLOCK FALSE
