\* Mode 8, the main menu, is entered and left while the player saves a game.
SPECIFICATION FairSpec
CONSTANTS
  Ports = {p1}
  Modes = {"game", "menu"}
  RescanPeriod = 2
  MaxCommands = 2
PROPERTIES
  ServiceRuns
