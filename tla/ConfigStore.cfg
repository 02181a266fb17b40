CONSTANTS
  Savers = {r1, r2}
  Account = {"a1", "a2"}
  Broker = {"alpaca", "paper"}
  Bodies <- MCBodies
  Seeds <- MCSeeds
  Legacies <- MCLegacies
  Tunings <- MCTunings
  Universes <- MCUniverses
  Credentials <- MCCredentials
  Sources <- MCSources
  Knobs <- MCKnobs
  Defaults <- MCDefaults
  Env <- MCEnv
  SessionMinutes = 390
  LegacyGrid = 15
  None = None
  Bad = Bad
  MaxRequests = 3
SPECIFICATION ConfigSpec
INVARIANTS
  RoutedAsBound
  SavedReadsBack
PROPERTY
  OneWholeDocument
