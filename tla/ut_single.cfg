\* One worker thread (thread_pool = 1): the two disposal paths cannot overlap;
\* with fair workers every fired timer is torn down.
CONSTANTS
    Workers = {w1}
    Clients = {c1}
    TokenIds = {t1, t2}
    Fds <- MCFds
    Chunks <- MCChunks
    MaxTokens <- MCMaxTokens
    MaxPosts <- MCMaxPosts
    Null = Null
SPECIFICATION FairSpec
INVARIANT TypeOK
INVARIANT NoDanglingUse
 
PROPERTY TimerTornDown
\* The environment is bounded (mints, posts); the server then idles in epoll_wait.
CHECK_DEADLOCK FALSE
