SPECIFICATION FairSpec
CONSTANTS
  BAD = BAD
  NGroupsMax = 2
  Procs <- Ps2
  Overlap <- OnlySet
  Commands <- AllCommands
  Lines0 <- AllLines
  Passwd0 <- Passwd
  Group0 <- Group
  TempNames <- Temps
  Names <- FileNames
  Files = 10
  Bases <- HomeBases
  Garbage = Garbage
  Skels <- SkelTrees
  Letters <- AllLetters
  Lists <- SomeLists
  MaxFaults = 1
INVARIANTS TypeOK EtcInv RoundTrip AccountsKept GroupsKept HomeReady Recoverable AnyOrder
PROPERTIES DefaultsNeverLost OthersKept Ends
CHECK_DEADLOCK FALSE
