\* The rules over all signals and thresholds; one key assessed, reviewed and analysed.
CONSTANTS
  q1 = q1
  q2 = q2
  adm = adm
  oth = oth
  mod1 = mod1
  mod2 = mod2
  j1 = j1
  j2 = j2
  Requests = {q1, q2}
  Admins = {adm, oth, mod1, mod2}
  Page = {mod1, mod2}
  Askers = {j1, j2}
  MaxAttempts = 2
  Claims = {"LOW"}
  NoClaim = NoClaim
  Scenes <- AllScenes
SPECIFICATION ConsoleSpec
CHECK_DEADLOCK FALSE
PROPERTIES
  ReviewsAreSound
  RiskNeverFalls
