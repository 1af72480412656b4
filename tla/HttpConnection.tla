---------------------------- MODULE HttpConnection ----------------------------
(***************************************************************************)
(* The HTTP side of one client connection (src/server/src/server_http.c): *)
(* client->state, the bitmask of CLIENT_STATE_UPGRADE_PENDING (1),        *)
(* CLIENT_STATE_WEBSOCKET (2) and CLIENT_STATE_KEEP_ALIVE (4) (0 is        *)
(* CLIENT_STATE_SHORT_LIVE), the request buffered in client->recv.http    *)
(* while its body is incomplete, and the upgrade handshake.               *)
(* A connection's reads are handled by one worker at a time (EPOLLONESHOT) *)
(* so its steps are sequential; each read is one step.                    *)
(* A request is abstracted to what parse_http and server_handle_http act  *)
(* on: the method or start line, the names of its header lines in order, *)
(* the tokens of its Connection header, the value of its Upgrade header,  *)
(* its Content-Length, the body bytes that came with the head, and the   *)
(* URL token as a sequence of characters.  Header values, query          *)
(* parameters (only ever logged) and the Sec-WebSocket-Key computation   *)
(* are left out.  The read handler that calls                *)
(* server_http_parse and appends later body bytes is not in the source    *)
(* tree; it is taken from spec 4.6.                                       *)
(***************************************************************************)
EXTENDS Integers, Sequences, SequencesExt, Bitwise

CONSTANTS
    HeaderSeqs,     \* sequences of header-line names a request may carry
    MaxHeaders,     \* HTTP_MAX_HEADERS
    ConnHeaders,    \* token sequences a Connection header may carry (<<>>: none)
    BodyLens,       \* Content-Length values and body byte counts
    AllocMax,       \* the largest body calloc can allocate (larger: NULL)
    Urls,           \* URL tokens of a start line (<<>>: the line has none)
    BareUpgrade,    \* whether a request may say Connection: Upgrade without Upgrade
    MaxRequests,    \* bound on requests read
    Null

UPGRADE_PENDING == 1
WEBSOCKET == 2
KEEP_ALIVE == 4
SHORT_LIVE == 0

\* "RESP" is a start line beginning with HTTP/ (a response); "BAD" is a
\* head with no start-line token, for which parse_http returns NULL.
Kinds == {"GET", "POST", "PUT", "RESP", "BAD"}

\* The value of the Upgrade header, "none" when absent.
UpgradeVals == {"none", "websocket", "h2c"}

\* Header lines parse_http acts on; "Other" stands for any other name.
HeaderNames == {"Connection", "Upgrade", "Content-Length", "Other"}

Request == [kind : Kinds, url : Urls, hdrs : HeaderSeqs, conn : ConnHeaders,
            upgrade : UpgradeVals, len : BodyLens, got : BodyLens]

\* The requests a client may send: a field is set exactly when its header
\* line is present, and unless BareUpgrade a Connection header naming
\* Upgrade comes with an Upgrade header, as browsers send it.
Requests ==
    {r \in Request :
        /\ Contains(r.hdrs, "Connection") <=> r.conn # <<>>
        /\ Contains(r.hdrs, "Upgrade") <=> r.upgrade # "none"
        /\ ~Contains(r.hdrs, "Content-Length") => r.len = 0
        /\ BareUpgrade \/ (Contains(r.conn, "Upgrade") => r.upgrade # "none")}

VARIABLES
    state,      \* client->state
    buffered,   \* client->recv.http: a request waiting for body bytes, or Null
    handshake,  \* whether a 101 Switching Protocols has been sent
    open,       \* whether the connection is still served
    crashed,    \* the server process died (NULL dereference)
    dispatched, \* the request server_handle_http ran on in this step, or Null
    reqs        \* requests read so far

vars == <<state, buffered, handshake, open, crashed, dispatched, reqs>>

Init ==
    /\ state = SHORT_LIVE
    /\ buffered = Null
    /\ handshake = FALSE
    /\ open = TRUE
    /\ crashed = FALSE
    /\ dispatched = Null
    /\ reqs = 0

(***************************************************************************)
(* strtok_r(s, delim, &saveptr) as glibc implements it: leading           *)
(* delimiters are skipped; if nothing is left the result is NULL and      *)
(* saveptr points at the terminating NUL, otherwise the token runs up to  *)
(* the next delimiter, which is overwritten, and saveptr points past it.  *)
(***************************************************************************)
RECURSIVE StrtokR(_, _)
StrtokR(str, delim) ==
    IF str = <<>> THEN [tok |-> Null, rest |-> <<>>]
    ELSE IF Head(str) \in delim THEN StrtokR(Tail(str), delim)
    ELSE LET n == SelectInSeq(str, LAMBDA ch : ch \in delim) IN
         IF n = 0 THEN [tok |-> str, rest |-> <<>>]
         ELSE [tok |-> SubSeq(str, 1, n - 1), rest |-> SubSeq(str, n + 1, Len(str))]

(***************************************************************************)
(* parse_url, called by parse_http on the start line's second token of a  *)
(* request: the path is the first strtok_r token of the URL split at "?",  *)
(* the rest is split at "&" into at most HTTP_MAX_PARAMS parameters,      *)
(* which are only logged, and the path is strncpy'd into http->req.url.   *)
(* For a URL made only of "?" the path is NULL and strncpy reads it.      *)
(* Returns the path, Null for that NULL.                                  *)
(***************************************************************************)
UrlPath(url) == StrtokR(url, {"?"}).tok

\* Whether parse_http reaches parse_url with a URL whose path is NULL.
DerefsNullPath(r) ==
    r.kind \in {"GET", "POST", "PUT"} /\ r.url # <<>> /\ UrlPath(r.url) = Null

(***************************************************************************)
(* The header loop of parse_http: each line is stored and counted, and    *)
(* when the count reaches HTTP_MAX_HEADERS it is set back to              *)
(* HTTP_MAX_HEADERS - 1 and the loop stops, so the line just stored is    *)
(* dropped with every line after it.  The kept lines are what             *)
(* handle_http_header runs on and what http_get_header searches.          *)
(***************************************************************************)
ParsedHeaders(h) == SubSeq(h, 1, Min({Len(h), MaxHeaders - 1}))

Kept(r, name) == Contains(ParsedHeaders(r.hdrs), name)

\* What the parsed request carries: the Connection tokens, the Upgrade
\* value http_get_header finds ("none" for NULL) and http->body_len.
ConnTokens(r) == IF Kept(r, "Connection") THEN r.conn ELSE <<>>
UpgradeOf(r) == IF Kept(r, "Upgrade") THEN r.upgrade ELSE "none"
BodyLen(r) == IF Kept(r, "Content-Length") THEN r.len ELSE 0

(***************************************************************************)
(* set_client_connection: the Connection header's tokens in order;        *)
(* "close" assigns SHORT_LIVE, clearing every bit set before it.          *)
(***************************************************************************)
\* Fault variant: the flags added instead of or'ed in.
ApplyTokenAdd(s, t) ==
    CASE t = "keep-alive" -> s + KEEP_ALIVE
      [] t = "close"      -> SHORT_LIVE
      [] t = "Upgrade"    -> s + UPGRADE_PENDING
      [] OTHER            -> s

ApplyToken(s, t) ==
    CASE t = "keep-alive" -> s | KEEP_ALIVE
      [] t = "close"      -> SHORT_LIVE
      [] t = "Upgrade"    -> s | UPGRADE_PENDING
      [] OTHER            -> s

RECURSIVE SetConnection(_, _)
SetConnection(s, toks) ==
    IF toks = <<>> THEN s ELSE SetConnection(ApplyToken(s, Head(toks)), Tail(toks))

\* handle_http_upgrade, called by parse_http when the pending bit is set
\* after the headers: it sets WEBSOCKET as soon as the request says
\* Upgrade: websocket, before any handshake is sent.
HandleHttpUpgrade(s, r) ==
    IF UpgradeOf(r) = "websocket" THEN s | WEBSOCKET ELSE s

\* The state after parse_http has run the header handlers on request r.
ParsedState(s, r) ==
    LET s1 == SetConnection(s, ConnTokens(r)) IN
    IF s1 & UPGRADE_PENDING # 0 THEN HandleHttpUpgrade(s1, r) ELSE s1

\* Whether parse_http dereferences the NULL that http_get_header returns for
\* a missing Upgrade header (handle_http_upgrade reads header->val).
DerefsNullUpgrade(s, r) ==
    SetConnection(s, ConnTokens(r)) & UPGRADE_PENDING # 0 /\ UpgradeOf(r) = "none"

\* Whether parse_http buffers the request: a declared body longer than the
\* bytes that came with the head.
Missing(r) == BodyLen(r) > r.got

\* Whether parse_http, buffering the body, copies the bytes it has into
\* what calloc(1, http->body_len) returned for a length it cannot
\* allocate: NULL, unchecked.  strtoull stores any digit string, and
\* "-1" as ULLONG_MAX, into body_len; the conversion errors are only logged.
DerefsNullBody(r) == Missing(r) /\ BodyLen(r) > AllocMax /\ r.got > 0

\* Whether parse_http dereferences NULL on request r read in state s.
ParseCrashes(s, r) == DerefsNullPath(r) \/ DerefsNullUpgrade(s, r) \/ DerefsNullBody(r)

\* Fault variant: the not-implemented upgrade branch returns after its
\* warning, as the missing-header branch does, skipping the toggle.
HandleHttpWarnReturn(s, r, sendOk) ==
    IF s & UPGRADE_PENDING # 0
    THEN CASE UpgradeOf(r) = "none" ->
                [st |-> s ^^ UPGRADE_PENDING, hs |-> FALSE, keep |-> TRUE]
           [] UpgradeOf(r) = "websocket" ->
                LET s1 == IF sendOk THEN s | WEBSOCKET ELSE s IN
                [st |-> s1 ^^ UPGRADE_PENDING, hs |-> sendOk, keep |-> TRUE]
           [] OTHER ->
                [st |-> s, hs |-> FALSE, keep |-> TRUE]
    ELSE [st |-> s, hs |-> FALSE, keep |-> r.kind \in {"GET", "POST"}]

(***************************************************************************)
(* server_handle_http on request r in state s: with the pending bit set,  *)
(* server_handle_client_upgrade (a missing Upgrade header only clears the *)
(* bit and returns; websocket sends the 101 and, if http_send succeeded,  *)
(* sets WEBSOCKET; anything else only warns; then the bit is toggled      *)
(* off); otherwise server_handle_http_req answers GET and POST (RECV_OK)  *)
(* and disconnects any other method, and a response is RECV_ERROR.        *)
(* Returns the new state, whether a 101 went out, and whether the        *)
(* connection is kept.                                                    *)
(***************************************************************************)
HandleHttp(s, r, sendOk) ==
    IF s & UPGRADE_PENDING # 0
    THEN CASE UpgradeOf(r) = "none" ->
                [st |-> s ^^ UPGRADE_PENDING, hs |-> FALSE, keep |-> TRUE]
           [] UpgradeOf(r) = "websocket" ->
                LET s1 == IF sendOk THEN s | WEBSOCKET ELSE s IN
                [st |-> s1 ^^ UPGRADE_PENDING, hs |-> sendOk, keep |-> TRUE]
           [] OTHER ->
                [st |-> s ^^ UPGRADE_PENDING, hs |-> FALSE, keep |-> TRUE]
    ELSE [st |-> s, hs |-> FALSE, keep |-> r.kind \in {"GET", "POST"}]

\* Dispatch of r: server_handle_http, then http_free.
Dispatch(s, r) ==
    \E sendOk \in BOOLEAN :
        LET out == HandleHttp(s, r, sendOk) IN
        /\ state' = out.st
        /\ handshake' = (handshake \/ out.hs)
        /\ open' = out.keep
        /\ dispatched' = r

(***************************************************************************)
(* A read of a new request, server_http_parse: parse_http (NULL for a     *)
(* head without a start-line token: RECV_ERROR and the client is          *)
(* deleted), the header handlers and the upgrade check, then either the   *)
(* request is buffered in client->recv.http or it is dispatched.          *)
(* Reads of a connection in websocket mode are frames, not HTTP.          *)
(***************************************************************************)
ReadRequest ==
    /\ open /\ ~crashed
    /\ buffered = Null
    /\ state & WEBSOCKET = 0
    /\ reqs < MaxRequests
    /\ reqs' = reqs + 1
    /\ \E r \in Requests :
        \/ /\ r.kind = "BAD"
           /\ open' = FALSE
           /\ dispatched' = Null
           /\ UNCHANGED <<state, buffered, handshake, crashed>>
        \/ /\ r.kind # "BAD"
           /\ ParseCrashes(state, r)
           /\ crashed' = TRUE
           /\ dispatched' = Null
           /\ UNCHANGED <<state, buffered, handshake, open>>
        \/ /\ r.kind # "BAD"
           /\ ~ParseCrashes(state, r)
           /\ Missing(r)
           /\ state' = ParsedState(state, r)
           /\ buffered' = r
           /\ dispatched' = Null
           /\ UNCHANGED <<handshake, open, crashed>>
        \/ /\ r.kind # "BAD"
           /\ ~ParseCrashes(state, r)
           /\ ~Missing(r)
           /\ Dispatch(ParsedState(state, r), r)
           /\ UNCHANGED <<buffered, crashed>>

\* More body bytes arrive for the buffered request (buf.total_recv grows);
\* once the whole declared body is there the request is dispatched.
ReadBody ==
    /\ open /\ ~crashed
    /\ buffered # Null
    /\ LET r == [buffered EXCEPT !.got = @ + 1] IN
       \/ /\ Missing(r)
          /\ buffered' = r
          /\ dispatched' = Null
          /\ UNCHANGED <<state, handshake, open>>
       \/ /\ ~Missing(r)
          /\ buffered' = Null
          /\ Dispatch(state, r)
    /\ UNCHANGED <<crashed, reqs>>

Next == ReadRequest \/ ReadBody

Spec == Init /\ [][Next]_vars
-----------------------------------------------------------------------------
TypeOK ==
    /\ state \in 0..7
    /\ buffered \in Request \cup {Null}
    /\ handshake \in BOOLEAN /\ open \in BOOLEAN /\ crashed \in BOOLEAN
    /\ dispatched \in Request \cup {Null}
    /\ reqs \in 0..MaxRequests

\* One request never takes the server down: parse_http, whatever headers a
\* client sends, returns or fails without dereferencing NULL.
NoCrash == ~crashed

\* Spec 4.6: every request server_handle_http runs on leaves the upgrade
\* pending bit clear, whether the upgrade succeeded, was refused or had no
\* Upgrade header, and also when the request waited for its body first.
PendingClearedAfterDispatch ==
    [][dispatched' # Null => state' & UPGRADE_PENDING = 0]_vars
=============================================================================
