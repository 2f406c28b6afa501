SPECIFICATION FairSpec
CONSTANTS
  None = None
  Rates <- MCRates
  Answers <- MCAnswers
  EnvCaps <- MCEnvCaps
  U32Max = 200000
INVARIANTS
  FloorServed
  CapsKept
  RemoteFloorBelowOurs
  MaximumCoversSweep
PROPERTY PollingGoesOn
CHECK_DEADLOCK FALSE
