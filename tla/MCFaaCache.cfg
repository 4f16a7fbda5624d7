\* Three askers, two airports, a document good for three ticks.
SPECIFICATION FairSpec
CONSTANTS
  Askers = {a1, a2, a3}
  Airports = {bos, sfo}
  Ttl = 3
  None = none
INVARIANTS FaaInv FreshOrMarked WaitIsBounded
PROPERTIES FeedIsSpared EveryAskerIsAnswered
