\* One account: guesses and codes, and a browser with one tab or two that keeps its session.
CONSTANTS
  t1 = t1
  t2 = t2
  Clients = {t1, t2}
  Slots = {1, 2}
  Adrift = {3, 4}
  MaxFailures = 2
  MaxTries = 1
  MaxEvents = 4
  MaxCodes = 2
  MaxClock = 1
  Scenes <- AllScenes
SPECIFICATION SessionsFairSpec
CHECK_DEADLOCK FALSE
INVARIANTS
  GuessingIsBounded
  SignedOutForAReason
PROPERTIES
  SessionsAreSound
  EveryCallEnds
