\* One login of each kind and two applications. A login that has ended stops.
CONSTANTS
  Flows <- MCFlows
  Requests <- MCRequests
  Inputs <- MCInputs
  Intervals <- MCIntervals
  Lifetimes <- MCLifetimes
  CodexLifetime = 9
  Providers = {"anthropic", "github-copilot"}
  Stored = {"anthropic"}
  Rotating = {"anthropic"}
  Apps = {"app1", "app2"}
  LoginTask = "cli"
  MaxRequests = 2
  MaxFaults = 1
  MaxIssued = 2
  MaxResolves = 2
  MaxFileFaults = 1
SPECIFICATION FairSpec
CHECK_DEADLOCK FALSE
INVARIANTS
  CodeIsMine
  LostOnlyByStaleSave
PROPERTIES
  PollsSpaced
  LoginEnds
