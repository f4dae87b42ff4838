\* One port, with and without mode 8; two paks of three notes, and five faults
\* while games are saved.
SPECIFICATION PadsSpec
CONSTANTS
  Ports = {p1}
  Modes = {"game", "menu"}
  RescanPeriod = 2
  MaxCommands = 2
  Paks = {A, B}
  Rumble = Rumble
  Nothing = Nothing
  Files = {f1, f2, f3}
  Names = {a, b}
  MaxFaults = 5
SYMMETRY PakSymmetry
INVARIANTS
  OneCommand
  OneFaultSurvived
PROPERTIES
  AnswerIsAsked
  OperationsEnd
  ChangeNoticed
  OthersKept
