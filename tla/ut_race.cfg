\* Two worker threads and two clients: the timer expiry and the POST of the same token are handled concurrently.
CONSTANTS
    Workers = {w1, w2}
    Clients = {c1, c2}
    TokenIds = {t1, t2}
    Fds <- MCFds
    Chunks <- MCChunks
    MaxTokens <- MCMaxTokens
    MaxPosts <- MCMaxPosts
    Null = Null
SYMMETRY Sym
SPECIFICATION Spec
\* The environment is bounded (mints, posts); the server then idles in epoll_wait.
CHECK_DEADLOCK FALSE
INVARIANT NoDanglingUse
