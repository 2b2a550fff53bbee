CONSTANTS
  MaxClock = 2
  MaxSaves = 2
  Foreign <- MCForeign
SPECIFICATION MCSpec
PROPERTY DataSurvives SavedTextOnDisk TmpRemoved RemoteSuccessWroteText
CHECK_DEADLOCK FALSE
