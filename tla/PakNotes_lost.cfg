\* Five faults, enough for four notes that read back wrong.
SPECIFICATION PakSpec
CONSTANTS
  Paks = {A, B}
  Rumble = Rumble
  Nothing = Nothing
  Files = {f1, f2}
  Names = {a, b}
  MaxFaults = 5
INVARIANTS
  SavedMeansKept
