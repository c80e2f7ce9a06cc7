SPECIFICATION FairSpec
CONSTANTS
  a = a
  b = b
  me = me
  c1 = c1
  Bootstrap <- MCBootstrap
  Self <- MCSelf
  Workers = 1
  Caller <- MCCaller
INVARIANTS
  TypeOK
PROPERTIES
  StoppedIsFinal
  LoopsEnd
  CallersServed
  HealthKnown
