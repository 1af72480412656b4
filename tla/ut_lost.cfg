\* Two worker threads and two clients POSTing the two chunks of one message concurrently.
CONSTANTS
    Workers = {w1, w2}
    Clients = {c1, c2}
    TokenIds = {t1, t2}
    Fds <- MCFds
    Chunks <- MCChunks
    MaxTokens <- MCMaxTokens
    MaxPosts <- MCMaxPosts
    Null = Null
SYMMETRY Sym
SPECIFICATION Spec
INVARIANT CompleteMessageSent
\* The environment is bounded (mints, posts); the server then idles in epoll_wait.
CHECK_DEADLOCK FALSE
