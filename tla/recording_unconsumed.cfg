SPECIFICATION Spec
CONSTANTS
  Names = {m1}
  Missions = {m1}
  NoMission = NoMission
  MaxRec = 2
  MaxRuns = 0
  Camera = {"sends"}
  Buttons = {"record"}
  Presses = {p1, p2}
INVARIANT OpenMeansConsumed
CHECK_DEADLOCK FALSE
