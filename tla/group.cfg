SPECIFICATION FairSpec
CONSTANTS
  a = a
  b = b
  Instance = {a, b}
  GroupOp = {1, 2}
  LevelLists <- TwoLevels
  Policies = {"Continue", "Stop"}
  Scripts <- GroupScripts
  Faults = {"lostWrite", "callError", "deleteChild", "deleteOperation", "deleteInstance", "deleteGroup", "edit"}
  MaxFaults = 2
CHECK_DEADLOCK FALSE
PROPERTIES LevelsInOrder CompletedMeansAll CancelEndsFailovers FollowsLifecycle GroupEnds
