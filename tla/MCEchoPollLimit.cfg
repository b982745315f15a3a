CONSTANTS
    Clients = {c1, c2}
    Segments = 2
    ListenFd = 3
    Fds = {4, 5}
    NoClient = NoClient
    Capacity = 2
    SizeofPollfd = 8
SPECIFICATION Spec
INVARIANT LimitedToArray
CHECK_DEADLOCK FALSE
