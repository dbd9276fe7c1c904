SPECIFICATION FairSpec
CONSTANTS
  Names = {m1}
  Missions = {m1}
  NoMission = NoMission
  MaxRec = 1
  MaxRuns = 0
  Camera = {"sends", "fails"}
  Buttons = {"record", "stop"}
  Presses = {p1, p2}
PROPERTY FramesOnlyWhileOpen
PROPERTY ConsumerLeaves
PROPERTY EveryRecordingEnds
PROPERTY PageLetsGo
CHECK_DEADLOCK FALSE
