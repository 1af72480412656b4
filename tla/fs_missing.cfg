\* Two worker threads, and any database statement may fail: two uploads of the same content, a save racing
\* the delete of a replaced picture, or an insert or a refcount query failing under an upload that goes on.
CONSTANTS
    Workers = {w1, w2}
    Users = {u1, u2}
    Hashes = {h1, h2}
    Fails <- AllFails
    MaxUploads <- MCMaxUploads
    Null = Null
SYMMETRY Sym
SPECIFICATION Spec
INVARIANT PictureOnDisk
\* The number of uploads is bounded; afterwards the workers idle in epoll_wait.
CHECK_DEADLOCK FALSE
