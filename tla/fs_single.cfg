\* One worker thread: uploads run one after another; a chain may fail to be sent, and a user update or a delete may fail.
CONSTANTS
    Workers = {w1}
    Users = {u1, u2}
    Hashes = {h1, h2}
    Fails <- HandledFails
    MaxUploads <- MCMaxUploads
    Null = Null
SYMMETRY Sym
SPECIFICATION Spec
INVARIANT TypeOK
INVARIANT PictureOnDisk
INVARIANT AttachmentOnDisk
INVARIANT RefcountMatches
INVARIANT NoOrphanFile
\* The number of uploads is bounded; afterwards the workers idle in epoll_wait.
CHECK_DEADLOCK FALSE
