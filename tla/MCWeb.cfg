SPECIFICATION FairSpec
CONSTANTS
  t1 = t1
  NoSid = NoSid
  Tabs <- OneTab
  Sids <- ThreeSids
INVARIANTS TokenGoesWithCookie
PROPERTIES ReplaysComeFromLoss SentAwaySignedOut RestoresEnd
CHECK_DEADLOCK FALSE
