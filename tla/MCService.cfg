\* Two instances (the deployment's maximum), two questions, three troubles.
SPECIFICATION FairSpec
CONSTANTS
  Instances = {i1, i2}
  Turns = 2
  MaxTroubles = 3
INVARIANTS OnlyMemoryForgets OneRowPerAnswer ListingNeverReplays
PROPERTIES ConversationEnds
CHECK_DEADLOCK FALSE
