SPECIFICATION Spec
CONSTANTS
  Urls <- MCUrls
  Hosts <- MCHosts
  Dirs <- MCDirs
  Within <- MCWithin
  AreaOf <- MCAreaOf
  NoArea = NoArea
  Primaries <- MCPrimaries
  Moves <- MCMoves
  Links <- MCLinks
  MaxLinks = 2
  Bans <- MCBans
  MaxHeap = 9
  Options <- MCOptions
  Answers = {"skip", "not this", "not tree", "not now", "nothing", "single", "tree", "site"}
  NoUrl = NoUrl
INVARIANTS StaysBelow  AnswerStands
 
CHECK_DEADLOCK FALSE
