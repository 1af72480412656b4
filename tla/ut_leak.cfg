\* One worker thread (thread_pool = 1): the two disposal paths cannot overlap.
CONSTANTS
    Workers = {w1}
    Clients = {c1}
    TokenIds = {t1, t2}
    Fds <- MCFds
    Chunks <- MCChunks
    MaxTokens <- MCMaxTokens
    MaxPosts <- MCMaxPosts
    Null = Null
SPECIFICATION Spec
\* The environment is bounded (mints, posts); the server then idles in epoll_wait.
CHECK_DEADLOCK FALSE
INVARIANT UploadConsumesToken
