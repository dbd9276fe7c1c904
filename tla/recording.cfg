SPECIFICATION Spec
CONSTANTS
  Names = {m1}
  Missions = {m1}
  NoMission = NoMission
  MaxRec = 2
  MaxRuns = 1
  Camera = {}
  Buttons = {"send", "stop"}
  Presses = {p1, p2}
INVARIANT UploadedOnce
INVARIANT AnnouncesOnlyEnded
PROPERTY StopHasCause
SYMMETRY PressSymmetry
CHECK_DEADLOCK FALSE
