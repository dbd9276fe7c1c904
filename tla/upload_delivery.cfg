SPECIFICATION FairSpec
CONSTANTS
  Requests = {r1, r2}
  Nobody = Nobody
  MaxAttempts = 2
  Outlives = FALSE
INVARIANT OneUploader
INVARIANT OneVideoOffered
INVARIANT UploadedNoteIsTrue
INVARIANT GivesUpOnlyWhenOver
PROPERTY EveryNoteSettles
CHECK_DEADLOCK FALSE
