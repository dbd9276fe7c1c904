SPECIFICATION Spec
CONSTANTS
  Names = {m1}
  Missions = {m1}
  NoMission = NoMission
  MaxRec = 1
  MaxRuns = 1
  Camera = {"sends"}
  Buttons = {"send", "stop"}
  Presses = {p1, p2}
PROPERTY RunsAreFilmed
CHECK_DEADLOCK FALSE
