CONSTANTS
    read = read
    write = write
    socket = socket
    Watches = {read, write}
    Fd <- SocketFd
    AtStart = {read}
    Timeouts = {t1, t2, t3}
    MaxInits = 2
SPECIFICATION Spec
INVARIANTS TypeOK OnePollPerFd HandlesAreOwned DueIsTimed
CHECK_DEADLOCK FALSE
