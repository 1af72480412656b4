\* Browser-shaped requests (Connection: Upgrade always with an Upgrade header), one of them with a header line
\* before the three that matter, and HTTP_MAX_HEADERS = 4; a URL may be a plain path or only "?".
CONSTANTS
    HeaderSeqs <- PaddedHeaderSeqs
    MaxHeaders <- MCMaxHeaders
    ConnHeaders <- MCConnHeaders
    BodyLens <- CrashBodyLens
    AllocMax <- MCAllocMax
    Urls <- CrashUrls
    BareUpgrade = FALSE
    MaxRequests <- MCMaxRequests
    Null = Null
SPECIFICATION Spec
INVARIANT NoCrash
CHECK_DEADLOCK FALSE
