CONSTANTS
    Clients = {c1, c2}
    Segments = 3
    ListenFd = 3
    Fds = {4, 5}
    NoClient = NoClient
    Capacity = 3
    SizeofPollfd = 8
SPECIFICATION BusySpec
INVARIANTS TypeOK WatchesWhatIsOpen
PROPERTY WaitingEnds
CHECK_DEADLOCK FALSE
