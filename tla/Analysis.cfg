\* No usable setting, hence three attempts, any replies, failures of every call and analyses without end.
CONSTANTS
  None = None
  Metadata <- MCMetadata
  MaxRetries = 0
  Faults = {"gemini", "disk", "crash"}
SPECIFICATION FairSpec
INVARIANTS TypeOK FilesAreKeptApart FeedbackFollowsReply SavesLastReply
PROPERTIES ConversationEnds
