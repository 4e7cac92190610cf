SPECIFICATION MCSpec
CONSTANTS
  Line <- MCLine
  FileText <- MCFileText
  Abbreviates <- MCAbbreviates
  MaxDepth = 3
  MaxContext = 2
  Process = {"p", "q"}
  Short = {"s"}
  Long = {"l"}
  MAX_SAVED_CMDS = 3
  MaxPieces = 3
  MaxRuns = 2
  Pattern = {"A", "B"}
  Output <- MCOutput
  MaxLines = 5
  MaxCmds = 2
  MaxScripts = 2
INVARIANTS ContextKept HandlerSeesPath DoComesBack PromptIsMode
           TriggersWhatWasListed  VerdictsAreOwn QueueIsFree
VIEW MCShellView
\* The process may end, and the bounds be used up.
CHECK_DEADLOCK FALSE
