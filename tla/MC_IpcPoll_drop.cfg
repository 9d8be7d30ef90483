\* Three clients against the server of ipc_poll, with the code's table of
\* 10 entries, two idle polls before giving up and one message a client.
CONSTANTS
    c1 = c1  c2 = c2  c3 = c3
    Conns <- MCConns
    L = L
    ZeroFd = ZeroFd
    MaxFds = 10
    MaxRepeat = 2
    FdLimit = 1020
    MaxSends = 1
    ListenNonBlocking = TRUE
SPECIFICATION Spec
INVARIANT NoMessageDropped
