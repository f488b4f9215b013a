SPECIFICATION FairSpec
CONSTANTS
  a = a
  b = b
  Word <- MCWord
  MaxWords = 2
  Overlong <- MCOverlong
  NotFound = NotFound
INVARIANTS DurableBetweenCommands CrashOnlyForgets
PROPERTIES SetReachesFile KeepsPromise
