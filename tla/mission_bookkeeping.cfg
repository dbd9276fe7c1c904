SPECIFICATION Spec
CONSTANTS
  Yards = {home, away}
  HomeYard = home
  FilmedAt = away
  MaxRuns = 3
  Dispatch = 2
  Film = film
  Videos = {film, other}
  Requests = {a, b}
  NoVideo = NoVideo
  AnyYard = AnyYard
  MaxWrites = 3
INVARIANT MissionMirrorsARun
PROPERTY SettledStaysSettled
PROPERTY UndisturbedLinkIsTheOnlyOne
CHECK_DEADLOCK FALSE
SYMMETRY Permuted
