\* Requests on one connection, with any Connection tokens, with or without an Upgrade header, and fewer header lines
\* than HTTP_MAX_HEADERS.  A request that crashes parse_http ends the behaviour; the properties are about the others.
CONSTANTS
    HeaderSeqs <- ShortHeaderSeqs
    MaxHeaders <- MCMaxHeaders
    ConnHeaders <- MCConnHeaders
    BodyLens <- MCBodyLens
    AllocMax <- MCAllocMax
    Urls <- PathUrls
    BareUpgrade = TRUE
    MaxRequests <- MCMaxRequests
    Null = Null
SPECIFICATION Spec
INVARIANT TypeOK
PROPERTY PendingClearedAfterDispatch
\* A connection ends after its requests, an error, a disconnect or a crash.
CHECK_DEADLOCK FALSE
