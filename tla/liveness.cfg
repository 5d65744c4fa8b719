\* What happens in the end; patient users, buffers of one message, exit at the server.
SPECIFICATION FairSpec
CONSTANTS
  A = A
  B = B
  a1 = a1
  a2 = a2
  b1 = b1
  star = star
  x = x
  odd = odd
  NoProc = NoProc
  NoPattern = NoPattern
  NoTopic = NoTopic
  EmptyId = EmptyId
  NoFd <- MCNoFd
  Ids = {A}
  Procs <- Twice
  IdOf <- TwiceIdOf
  Fds = {5, 6}
  InitialNfds = 3
  Patterns = {x}
  EmptyPattern = EmptyPattern
  StrayPatterns = {}
  Topics = {"x"}
  Covers <- MCCovers
  Unspellable = {}
  UnspellableTopics = {}
  Leftovers = {}
  Overlong = {}
  UpCap = 1
  DownCap = 1
  MaxCommands <- OnlyFirst
  MaxDatagrams = 2
  Faults = {}
  ConsoleLines = {"exit"}
\* The users and the providers may stop for ever: the server then waits in
\* poll() without a timeout.  After exit(0) or DIE nothing runs at all.
CHECK_DEADLOCK FALSE
PROPERTIES
  ExitedIsUnregistered ConnectIsAnswered DatagramsArrive ExitEndsSubscribers
