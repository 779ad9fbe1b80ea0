\* Two applications that send to and receive from each other.
SPECIFICATION SbFairSpec
CONSTANTS
  Msgs = {m0}
  Apps = {a, b}
  External = {b}
  ES = es
  NumPipes = 2
  Buffers = {b1, b2}
  None = none
  Depth = 2
  MsgLim = 1
  MaxDests = 2
  BlocksMayRunOut = TRUE
INVARIANTS
  SbTypeOK
  NeverFreedEarly
  BuffersAreCounted
  RoutesLeadToPipes
  CountsNeverLeak
PROPERTIES
  ActsAsPipe
  CleanUpEnds
