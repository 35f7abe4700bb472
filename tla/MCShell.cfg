SPECIFICATION Spec
CONSTANTS
  Words = {"x", "y"}
  MAXARGS = 3
  Procs = {1, 2, 3, 4, 5}
  Sh = 1
  Init_ = 0
  NOFILE = 6
  MaxTokens = 4
  Lines <- MCLines
INVARIANTS ParsesGrammar DescriptorsWired ForegroundDone NeverStuck
CHECK_DEADLOCK FALSE
