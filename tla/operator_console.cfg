SPECIFICATION FairSpec
CONSTANTS
  N = 2
  QueueLimit = 1
  DoneLimit = 1
  MaxPages = 3
  MaxFailures = 1
  None = None
INVARIANT PaneShowsTheOpenMission
INVARIANT HiddenIsSaid
PROPERTY OpenMissionStays
PROPERTY OpenMissionIsFound
