SPECIFICATION Spec
CONSTANTS
  Watchers = {w1, w2}
  Application = application
  Nobody = nobody
  Browsers = {browser}
  Applications = {application}
  MaxGenerations = 2
  MaxCloses = 1
  MaxOffers = 2
  MaxNotices = 1
  MaxVersions = 2
  MaxQuestions = 2
  MaxHints = 1
VIEW View
CHECK_DEADLOCK FALSE
INVARIANTS
  AnsweredOnce
  ClaimsAreHeld
  SnoozeHolds
  StreamsAreCurrent
  WatchedIsSubscribed
  UnwatchedIsLeft
  RecordIsTrue
  PageKeepsUp
