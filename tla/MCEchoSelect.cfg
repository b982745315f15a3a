CONSTANTS
    Clients = {c1, c2}
    Segments = 3
    ListenFd = 3
    Fds = {4, 5}
    NoClient = NoClient
SPECIFICATION FairSpec
INVARIANTS TypeOK WatchesWhatIsOpen NeverBlocks EchoConserved DiesOnlyOfEarlyClose
PROPERTY EveryClientAnswered
CHECK_DEADLOCK FALSE
