SPECIFICATION Spec
CONSTANTS
  Launches = {"a", "b", "c"}
  Identities = {1, 2}
  MaxFaults = 1
INVARIANTS AnsweredLaunchGivesWay
CHECK_DEADLOCK FALSE
