\* Two probes and a broker that may stay down.
SPECIFICATION FairSpec
CONSTANTS
  Callers = {c1, c2}
  MaxConns = 1
  ChannelMax = 1
  MaxLosses = 1
PROPERTIES
  OutageIsReported
