SPECIFICATION LockSpec
CONSTANTS
  Tasks = {t1, t2}
  Locks = {"fs", "queue", "heap"}
  Nesting <- MCNesting
  First = t1
  NoCtx = NoCtx
INVARIANTS MutualExclusion NeverSpins FlagFollowsGuards
