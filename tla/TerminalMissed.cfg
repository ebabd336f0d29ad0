SPECIFICATION FeedSpec
CONSTANTS
  Subscribers = {s1}
  History = {s1}
  Helpers = {}
  EventLogSize = 1
  MaxEvents = 1
INVARIANT EndLearnedByAll
CHECK_DEADLOCK FALSE
