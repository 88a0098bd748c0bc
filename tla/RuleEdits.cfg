SPECIFICATION Spec
CONSTANTS
  MaxServers = 4
  MaxRules = 5
  MaxPorts = 2
  c1 = c1
  c2 = c2
  Clis = {c1, c2}
  Initial <- Files
  Adds <- AddArgs
  Edits <- EditArgs
  ServerAdds <- ServerAddArgs
  ServerEdits <- ServerEditArgs
  Selections <- Chosen
  Written <- Json
  Drafts <- Candidates
  Words <- Vocabulary
  MaxRevision = 3
INVARIANTS OneMeaning BindTogether VerifiedIsDedicated UpgradeIsSafe
PROPERTIES EditIsAPatch
CHECK_DEADLOCK FALSE
SYMMETRY Alike
