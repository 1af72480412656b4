\* Two workers: a broadcast on one worker and server_free_client of its target on the other.
CONSTANTS
    Workers = {w1, w2}
    Clients = {c1, c2, c3}
    Users = {u1, u2}
    Fds = {f1, f2}
    Null = Null
SYMMETRY Sym
SPECIFICATION Spec
INVARIANT NoUseOfFreedClient
CHECK_DEADLOCK FALSE
