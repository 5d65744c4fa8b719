\* Users who type at once, an id that is too long, topics outside the alphabet, processes that end without CLOSE_SUB_MSG.
SPECIFICATION Spec
CONSTANTS
  A = A
  B = B
  a1 = a1
  a2 = a2
  b1 = b1
  star = star
  x = x
  odd = odd
  NoProc = NoProc
  NoPattern = NoPattern
  NoTopic = NoTopic
  EmptyId = EmptyId
  NoFd <- MCNoFd
  Ids = {A}
  Procs <- Twice
  IdOf <- TwiceIdOf
  Fds = {5, 6}
  InitialNfds = 3
  Patterns = {star, odd}
  EmptyPattern = EmptyPattern
  StrayPatterns = {odd}
  Topics = {"y"}
  Covers <- MCCovers
  Unspellable = {odd}
  UnspellableTopics = {"y"}
  Leftovers <- SpelledByChance
  Overlong = {a2}
  UpCap = 3
  DownCap = 3
  MaxCommands <- Once
  MaxDatagrams = 1
  Faults = {"eager", "crash"}
  ConsoleLines = {}
\* The users and the providers may stop for ever: the server then waits in
\* poll() without a timeout.  After exit(0) or DIE nothing runs at all.
CHECK_DEADLOCK FALSE
INVARIANTS
  IInv EveryReadyServedOnce NoBlockingRecv
PROPERTY
  ImplementsBroker
