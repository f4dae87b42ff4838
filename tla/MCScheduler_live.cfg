\* Frames keep coming while tasks yield to audio, which is always answered.
SPECIFICATION FairSpec
CONSTANTS
  Predicts = {2}
  Lines = {FALSE}
  Refusals = {FALSE}
  Fades = {FALSE}
  SoundAt <- WhileItWaits
  DisplayLists = 1
  MaxLate = 1
  MaxBacklog = 1
PROPERTIES
  FramesKeepComing
  AudioAnswered
