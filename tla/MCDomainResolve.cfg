SPECIFICATION DomainFairSpec
CONSTANTS
  Fds = {1, 2, 3}
  NameServers = 2
  MaxAsks = 4
  NoFd = NoFd
CHECK_DEADLOCK FALSE
INVARIANTS OthersKeepTheirs
PROPERTIES AnswerMakesClient
