\* Frames of different lengths, mode switches, and a scheduler up to two
\* retraces late.
SPECIFICATION Spec
CONSTANTS
  Predicts = {2, 3}
  Lines = {FALSE}
  Refusals = {FALSE}
  Fades = {FALSE, TRUE}
  SoundAt <- Never
  DisplayLists = 2
  MaxLate = 2
  MaxBacklog = 1
INVARIANTS
  NoTearing
PROPERTIES
  PipelineSpec
  SwitchIsQuiet
