\* After end of file an old message is executed again.
SPECIFICATION Spec
CONSTANTS
  A = A
  B = B
  a1 = a1
  a2 = a2
  b1 = b1
  star = star
  x = x
  odd = odd
  NoProc = NoProc
  NoPattern = NoPattern
  NoTopic = NoTopic
  EmptyId = EmptyId
  NoFd <- MCNoFd
  Ids = {A, B}
  Procs <- TwoIds
  IdOf <- TwoIdsIdOf
  Fds = {5, 6}
  InitialNfds = 256
  Patterns = {x}
  EmptyPattern = EmptyPattern
  StrayPatterns = {}
  Topics = {"x"}
  Covers <- MCCovers
  Unspellable = {}
  UnspellableTopics = {}
  Leftovers = {}
  Overlong = {}
  UpCap = 3
  DownCap = 3
  MaxCommands <- Once
  MaxDatagrams = 0
  Faults = {"crash"}
  ConsoleLines = {}
\* The users and the providers may stop for ever: the server then waits in
\* poll() without a timeout.  After exit(0) or DIE nothing runs at all.
CHECK_DEADLOCK FALSE
INVARIANT CommandsApplied
