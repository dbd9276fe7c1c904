SPECIFICATION Spec
CONSTANTS
  Missions = {m1, m2}
  NoMission = NoMission
  Yards = {here, there}
  Here = here
  Browsers = {"prompt", "blocks"}
  Reads = {r1}
  MaxLeaving = 2
  MaxLoads = 2
INVARIANT ImportsAreRead
