\* Frames of two tasks, refused lists, and audio tasks that come while the
\* engine waits or between its two submissions: graphics tasks yield.
SPECIFICATION Spec
CONSTANTS
  Predicts = {2}
  Lines = {TRUE}
  Refusals = {FALSE, TRUE}
  Fades = {FALSE}
  SoundAt <- Sometimes
  DisplayLists = 2
  MaxLate = 1
  MaxBacklog = 1
INVARIANTS
  EventsExpected
  DisplayListKept
  TokensConserved
PROPERTIES
  EveryFrameSeen
