SPECIFICATION Spec
CONSTANTS
  Calls = 2
  Requests = 1
  Sends = 2
  Duration = 1
INVARIANTS MapsAgree KnownIfPaired ModeFollowsTimer QuietWhenDisposed
PROPERTIES DeletedOnlyIfReset
