\* Three worker threads accepting, serving and freeing four clients on two descriptors: user_ht and client_ht stay sound.
CONSTANTS
    Workers = {w1, w2, w3}
    Clients = {c1, c2, c3, c4}
    Users = {u1, u2}
    Fds = {f1, f2}
    Null = Null
SYMMETRY Sym
SPECIFICATION Spec
INVARIANT TypeOK
INVARIANT UserHtSound
INVARIANT ClientHtSound
\* The clients are bounded; afterwards the workers idle in epoll_wait.
CHECK_DEADLOCK FALSE
