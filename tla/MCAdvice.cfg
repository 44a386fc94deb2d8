\* Checks, pages, summaries and investigations while transfers go on.
CONSTANTS
  me = me
  you = you
  new = new
  a1 = a1
  a2 = a2
  People = {me, you, new}
  Me = me
  Grant = 2
  PageSize = 2
  Scenes <- AllScenes
  Askers = {a1, a2}
  MaxAttempts = 2
  Claims = {"SAFE", "DELIVERED"}
  NoClaim = NoClaim
  Window = 2
  MaxRequests = 3
  FallbackTtl = 2
  AiTtl = 4
SPECIFICATION AdviceFairSpec
CHECK_DEADLOCK FALSE
INVARIANTS
  ReadsAreTrue
  AdviceIsSound
  BurstsAreBounded
PROPERTIES
  AdviceIsLive
