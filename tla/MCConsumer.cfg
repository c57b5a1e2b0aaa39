\* Two consumers of one queue, one interruption each, a handler that may fail once.
SPECIFICATION FairSpec
CONSTANTS
  NoMessage = NoMessage
  Consumers = {c1, c2}
  Messages = {m, p}
  Poison = {p}
  MaxFailures = 1
  MaxInterruptions = 1
INVARIANTS
  NothingForgotten
  HandledOnceUnlessInterrupted
  StopsOnlyWithItsChannel
  ListeningMeansRouted
PROPERTIES
  EveryMessageHandled
