SPECIFICATION FairSpec
CONSTANTS
  Cases <- MCCases
  Width = 4
  PollUnit = 2
  MaxPolls = 3
INVARIANT FollowsScripts
PROPERTY ScriptsEnd
