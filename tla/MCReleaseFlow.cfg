\* Two pull requests side by side.
CONSTANTS
  PullRequests = {"p", "q"}
  MaxVersion = 3
  Dfcs = {1, 2}
  MaxEvents = 1
  MaxFaults = 1
SPECIFICATION Spec
INVARIANTS
  ReleasesFollowMain
PROPERTIES
  EveryVersionPublished
CHECK_DEADLOCK FALSE
