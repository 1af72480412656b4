----------------------------- MODULE UploadToken -----------------------------
(***************************************************************************)
(* Upload tokens, their countdown timers and the shared one-shot reactor. *)
(*                                                                        *)
(* A WebSocket "edit_account" request with new_pfp mints a token, stores  *)
(* it in upload_token_ht and binds it to a one-shot timerfd registered as *)
(* an event (src/server/src/chat/user.c, server_timer.c).  Two paths may  *)
(* then dispose of the token, on different file descriptors and hence on  *)
(* different worker threads:                                              *)
(*   - the timer fires: se_timer_read -> timer_ut zeroes ut->timerfd and  *)
(*     deletes the token; the worker then tears the timer event down      *)
(*     (SE_CLOSE);                                                        *)
(*   - an HTTP POST presents the token: server_check_upload_token looks it *)
(*     up, the picture is stored (database round trips), and then the     *)
(*     timer event found under ut->timerfd is deleted, or the token is.   *)
(*     (src/server/src/chat/user_upload.c)                                *)
(*                                                                        *)
(* Token i owns timer i; memory of either is "unalloc", "live" or         *)
(* "freed".  Timer fds come from the kernel's lowest-free allocation.     *)
(* Client sockets are fixed connections outside the fd pool modelled.     *)
(* server_new_upload_token, server_del_upload_token and the reactor's     *)
(* server_get_event / server_del_event are not in the source tree; they   *)
(* are modelled from the spec (sections 3, 4.2, 4.3, 4.7).                *)
(***************************************************************************)
EXTENDS Integers, FiniteSets, FiniteSetsExt

CONSTANTS
    Workers,    \* event worker threads (conf.thread_pool)
    Clients,    \* HTTP connections that may POST an upload
    TokenIds,   \* values an upload token can take
    Fds,        \* file descriptor numbers available to timerfd_create
    Chunks,     \* msg_state.total: attachments a message token expects
    MaxTokens,  \* bound on tokens minted
    MaxPosts,   \* bound on POST requests sent
    Null

ASSUME Fds \subseteq Nat \ {0} /\ Chunks \in Nat \ {0}
ASSUME MaxTokens \in Nat /\ MaxPosts \in Nat

Objs == 1..MaxTokens

\* upload_token_t.type
Types == {"pfp", "attach"}

VARIABLES
    utTable,    \* upload_token_ht: token value -> token object
    ut,         \* token objects (see TokenRec)
    timer,      \* timer objects (timer i belongs to token i): memory state
    fdOwner,    \* kernel fd table: the timer whose timerfd has number f
    events,     \* event_ht + epoll state of each timer fd
    client,     \* each client connection's event and pending POST
    pc,         \* what each worker is doing, and the pointers it holds
    issued,     \* tokens sent to clients: value and type
    minted,     \* tokens minted so far
    posts       \* POST requests sent so far

vars == <<utTable, ut, timer, fdOwner, events, client, pc, issued, minted, posts>>

\* A token object: memory state, type, token value, timerfd and, for
\* UT_MSG_ATTACHMENT, msg_state.current (cur).  The history fields record
\* whether the POST path disposed of it (used), the Attach-Index values
\* stored (stored), the chunk saves that succeeded (saves) and the times the
\* message was inserted and broadcast (sent).
TokenRec == [mem : {"unalloc", "live", "freed"}, type : Types, token : TokenIds \cup {Null},
             timerfd : Fds \cup {0}, used : BOOLEAN, cur : Nat,
             stored : SUBSET (0..Chunks-1), saves : Nat, sent : Nat]

EvState == {"none", "armed", "ready", "busy"}

Idle == [at |-> "idle", obj |-> Null, fd |-> 0, c |-> Null, v |-> 0]

FreeFds == {f \in Fds : fdOwner[f] = Null}

\* The Attach-Index values a client may send with a token of type ty; the
\* index Chunks is one past the attachments array.
Indices(ty) == IF ty = "attach" THEN 0..Chunks ELSE {0}

Init ==
    /\ utTable = [t \in TokenIds |-> Null]
    /\ ut = [i \in Objs |-> [mem |-> "unalloc", type |-> "pfp", token |-> Null, timerfd |-> 0,
                             used |-> FALSE, cur |-> 0, stored |-> {}, saves |-> 0, sent |-> 0]]
    /\ timer = [i \in Objs |-> "unalloc"]
    /\ fdOwner = [f \in Fds |-> Null]
    /\ events = [f \in Fds |-> "none"]
    /\ client = [c \in Clients |-> [st |-> "idle", tok |-> Null, idx |-> 0]]
    /\ pc = [w \in Workers |-> Idle]
    /\ issued = {}
    /\ minted = 0
    /\ posts = 0

(***************************************************************************)
(* Minting.  The token is allocated with a fresh value and inserted in     *)
(* upload_token_ht; server_addtimer arms a TIMER_ONCE timer for it         *)
(* (timerfd_create takes the lowest free fd, timerfd_settime,              *)
(* server_new_event registers it), and timer->fd is stored in ut->timerfd. *)
(* When no fd is free timerfd_create fails and nothing is minted.          *)
(***************************************************************************)
MintToken(w, ty) ==
    /\ pc[w].at = "idle"
    /\ minted < MaxTokens
    /\ FreeFds # {}
    /\ \E t \in TokenIds :
        LET i == minted + 1
            f == Min(FreeFds)
        IN  /\ utTable[t] = Null
            /\ utTable' = [utTable EXCEPT ![t] = i]
            /\ ut' = [ut EXCEPT ![i] = [mem |-> "live", type |-> ty, token |-> t, timerfd |-> f,
                                        used |-> FALSE, cur |-> 0, stored |-> {}, saves |-> 0, sent |-> 0]]
            /\ timer' = [timer EXCEPT ![i] = "live"]
            /\ fdOwner' = [fdOwner EXCEPT ![f] = i]
            /\ events' = [events EXCEPT ![f] = "armed"]
            /\ issued' = issued \cup {[tok |-> t, type |-> ty]}
            /\ minted' = i
    /\ UNCHANGED <<client, pc, posts>>

\* server_user_edit_account with new_pfp, after the user row is updated.
NewUploadToken(w) == MintToken(w, "pfp")

\* server_new_upload_token_attach, for a group message with attachments.
NewAttachToken(w) == MintToken(w, "attach")

\* The countdown of an armed timerfd expires: the fd becomes readable.
Expire(f) ==
    /\ events[f] = "armed"
    /\ events' = [events EXCEPT ![f] = "ready"]
    /\ UNCHANGED <<utTable, ut, timer, fdOwner, client, pc, issued, minted, posts>>

\* A client POSTs an upload with a token value it was sent and, for a
\* message token, an Attach-Index.
ClientPost(c) ==
    /\ client[c].st = "idle"
    /\ posts < MaxPosts
    /\ \E r \in issued, x \in 0..Chunks :
        /\ x \in Indices(r.type)
        /\ client' = [client EXCEPT ![c] = [st |-> "ready", tok |-> r.tok, idx |-> x]]
    /\ posts' = posts + 1
    /\ UNCHANGED <<utTable, ut, timer, fdOwner, events, pc, issued, minted>>

(***************************************************************************)
(* Timer path.                                                            *)
(***************************************************************************)

\* epoll_wait hands the ready timer event to this worker only (EPOLLONESHOT);
\* the worker keeps ev->data, the timer.
TimerWait(w) ==
    /\ pc[w].at = "idle"
    /\ \E f \in Fds :
        /\ events[f] = "ready"
        /\ events' = [events EXCEPT ![f] = "busy"]
        /\ pc' = [pc EXCEPT ![w] = [Idle EXCEPT !.at = "timer", !.obj = fdOwner[f], !.fd = f]]
    /\ UNCHANGED <<utTable, ut, timer, fdOwner, client, issued, minted, posts>>

\* Fault variant: timer_ut without `ut->timerfd = 0`, so that
\* server_del_upload_token also deletes the event now being handled.
TimerReadKeepFd(w) ==
    LET i == pc[w].obj
        f == ut[i].timerfd
    IN  /\ pc[w].at = "timer"
        /\ timer[i] = "live" /\ ut[i].mem = "live"
        /\ utTable' = [utTable EXCEPT ![ut[i].token] = Null]
        /\ ut' = [ut EXCEPT ![i].mem = "freed"]
        /\ events' = [events EXCEPT ![f] = "none"]
        /\ fdOwner' = [fdOwner EXCEPT ![f] = Null]
        /\ timer' = [timer EXCEPT ![fdOwner[f]] = "freed"]
        /\ pc' = [pc EXCEPT ![w].at = "timer_close"]
        /\ UNCHANGED <<client, issued, minted, posts>>

\* se_timer_read -> timer_ut: read the expiry count, ut->timerfd = 0 so that
\* server_del_upload_token leaves the event alone, then delete the token:
\* server_ght_del(upload_token_ht, ut->token) and free(ut), which abandons
\* a message in progress.  Returns SE_CLOSE.
TimerRead(w) ==
    LET i == pc[w].obj IN
    /\ pc[w].at = "timer"
    /\ timer[i] = "live" /\ ut[i].mem = "live"
    /\ utTable' = [utTable EXCEPT ![ut[i].token] = Null]
    /\ ut' = [ut EXCEPT ![i].timerfd = 0, ![i].mem = "freed"]
    /\ pc' = [pc EXCEPT ![w].at = "timer_close"]
    /\ UNCHANGED <<timer, fdOwner, events, client, issued, minted, posts>>

\* Fault variant: the timer closed but its event left in event_ht.
TimerCloseKeepEvent(w) ==
    LET i == pc[w].obj
        f == pc[w].fd
    IN  /\ pc[w].at = "timer_close"
        /\ timer[i] = "live"
        /\ fdOwner' = [fdOwner EXCEPT ![f] = Null]
        /\ timer' = [timer EXCEPT ![i] = "freed"]
        /\ pc' = [pc EXCEPT ![w] = Idle]
        /\ UNCHANGED <<utTable, ut, events, client, issued, minted, posts>>

\* SE_CLOSE: the worker deletes the event; its close handler se_timer_close
\* runs server_close_timer: close(timer->fd), free(timer).
TimerClose(w) ==
    LET i == pc[w].obj
        f == pc[w].fd
    IN  /\ pc[w].at = "timer_close"
        /\ timer[i] = "live"
        /\ events' = [events EXCEPT ![f] = "none"]
        /\ fdOwner' = [fdOwner EXCEPT ![f] = Null]
        /\ timer' = [timer EXCEPT ![i] = "freed"]
        /\ pc' = [pc EXCEPT ![w] = Idle]
        /\ UNCHANGED <<utTable, ut, client, issued, minted, posts>>

(***************************************************************************)
(* Upload path.                                                           *)
(***************************************************************************)

\* Fault variant: server_handle_user_upload without the `ut == NULL` check.
UploadCheckNoNullCheck(w) ==
    /\ pc[w].at = "idle"
    /\ \E c \in Clients :
        /\ client[c].st = "ready"
        /\ client' = [client EXCEPT ![c].st = "busy"]
        /\ pc' = [pc EXCEPT ![w] = [Idle EXCEPT !.at = "upload", !.obj = utTable[client[c].tok], !.c = c]]
    /\ UNCHANGED <<utTable, ut, timer, fdOwner, events, issued, minted, posts>>

\* epoll_wait hands client c's request to this worker; it parses the POST
\* and server_handle_user_upload calls server_check_upload_token, which
\* looks the value up in upload_token_ht.  Unknown: 400 and the client's
\* event is re-armed.  Known: the worker keeps the token pointer.
UploadCheck(w) ==
    /\ pc[w].at = "idle"
    /\ \E c \in Clients :
        LET o == utTable[client[c].tok] IN
        /\ client[c].st = "ready"
        /\ \/ /\ o = Null
              /\ client' = [client EXCEPT ![c].st = "idle"]
              /\ UNCHANGED pc
           \/ /\ o # Null
              /\ client' = [client EXCEPT ![c].st = "busy"]
              /\ pc' = [pc EXCEPT ![w] = [Idle EXCEPT !.at = "upload", !.obj = o, !.c = c]]
    /\ UNCHANGED <<utTable, ut, timer, fdOwner, events, issued, minted, posts>>

\* The disposal both upload paths end with, u being the token objects as
\* the handler left them:
\*   se = server_get_event(server, ut->timerfd);
\*   if (se) server_del_event(ew, se); else server_del_upload_token(ew, ut);
\* server_del_event runs se_timer_close on the timer registered under that
\* fd, whichever token it belongs to; server_del_upload_token removes the
\* token from upload_token_ht and frees it.
Dispose(o, u) ==
    LET f == u[o].timerfd IN
    IF f \in Fds /\ events[f] # "none"
    THEN /\ events' = [events EXCEPT ![f] = "none"]
         /\ fdOwner' = [fdOwner EXCEPT ![f] = Null]
         /\ timer' = [timer EXCEPT ![fdOwner[f]] = "freed"]
         /\ ut' = [u EXCEPT ![o].used = TRUE]
         /\ UNCHANGED utTable
    ELSE /\ utTable' = [utTable EXCEPT ![u[o].token] = Null]
         /\ ut' = [u EXCEPT ![o].used = TRUE, ![o].mem = "freed"]
         /\ UNCHANGED <<events, fdOwner, timer>>

\* The worker is done with the request; the client's event is re-armed.
Done(w) ==
    /\ client' = [client EXCEPT ![pc[w].c].st = "idle"]
    /\ pc' = [pc EXCEPT ![w] = Idle]

\* UT_USER_PFP: server_handle_user_pfp_update stores the picture and
\* answers the client, then the token is disposed of.
UploadFinish(w) ==
    LET o == pc[w].obj IN
    /\ pc[w].at = "upload"
    /\ ut[o].mem = "live"
    /\ ut[o].type = "pfp"
    /\ Dispose(o, ut)
    /\ Done(w)
    /\ UNCHANGED <<issued, minted, posts>>

\* UT_MSG_ATTACHMENT, server_handle_msg_attach up to the increment.  An
\* index past the attachments array (json_object_array_get_idx returns
\* NULL; an index above total only warns first) and a failed
\* server_save_file_img end the request.  Otherwise the chunk's hash is
\* added to attachment x and `ut->msg_state.current++` loads the counter.
AttachSave(w) ==
    LET o == pc[w].obj
        x == client[pc[w].c].idx
    IN  /\ pc[w].at = "upload"
        /\ ut[o].mem = "live"
        /\ ut[o].type = "attach"
        /\ \/ /\ x >= Chunks
              /\ Done(w)
              /\ UNCHANGED ut
           \/ /\ x < Chunks
              /\ Done(w)
              /\ UNCHANGED ut
           \/ /\ x < Chunks
              /\ ut' = [ut EXCEPT ![o].stored = @ \cup {x}, ![o].saves = @ + 1]
              /\ pc' = [pc EXCEPT ![w].at = "attach_inc", ![w].v = ut[o].cur]
              /\ UNCHANGED client
        /\ UNCHANGED <<utTable, timer, fdOwner, events, issued, minted, posts>>

\* The message is finalised when the stored count reaches total:
\* db_async_insert_group_msg, whose executor do_insert_msg_after broadcasts
\* the message unless the insert failed, then disposes of the token.
Finalise(o, u) ==
    \E ok \in BOOLEAN :
        Dispose(o, [u EXCEPT ![o].sent = @ + (IF ok THEN 1 ELSE 0)])

AttachInc(w) ==
    LET o == pc[w].obj
        n == pc[w].v + 1
        u == [ut EXCEPT ![o].cur = n]
    IN  /\ pc[w].at = "attach_inc"
        /\ ut[o].mem = "live"
        /\ IF n >= Chunks
           THEN Finalise(o, u)
           ELSE /\ ut' = u
                /\ UNCHANGED <<utTable, timer, fdOwner, events>>
        /\ Done(w)
        /\ UNCHANGED <<issued, minted, posts>>

Next ==
    \/ \E w \in Workers :
        \/ NewUploadToken(w)
        \/ NewAttachToken(w)
        \/ TimerWait(w)
        \/ TimerRead(w)
        \/ TimerClose(w)
        \/ UploadCheck(w)
        \/ UploadFinish(w)
        \/ AttachSave(w)
        \/ AttachInc(w)
    \/ \E f \in Fds : Expire(f)
    \/ \E c \in Clients : ClientPost(c)

Spec == Init /\ [][Next]_vars

(***************************************************************************)
(* Every worker thread loops on epoll_wait and runs each handler to its   *)
(* end without blocking on another thread, so each step a worker can take *)
(* is eventually taken.  Minting, expiry and POSTs are the environment's  *)
(* and get no fairness.                                                   *)
(***************************************************************************)
Fairness ==
    \A w \in Workers :
        /\ WF_vars(TimerWait(w)) /\ WF_vars(TimerRead(w)) /\ WF_vars(TimerClose(w))
        /\ WF_vars(UploadCheck(w)) /\ WF_vars(UploadFinish(w))
        /\ WF_vars(AttachSave(w)) /\ WF_vars(AttachInc(w))

FairSpec == Spec /\ Fairness
-----------------------------------------------------------------------------
TypeOK ==
    /\ utTable \in [TokenIds -> Objs \cup {Null}]
    /\ \A i \in Objs : ut[i] \in TokenRec
    /\ timer \in [Objs -> {"unalloc", "live", "freed"}]
    /\ fdOwner \in [Fds -> Objs \cup {Null}]
    /\ events \in [Fds -> EvState]
    /\ client \in [Clients -> [st : {"idle", "ready", "busy"}, tok : TokenIds \cup {Null}, idx : 0..Chunks]]
    /\ \A w \in Workers :
        /\ pc[w].at \in {"idle", "timer", "timer_close", "upload", "attach_inc"}
        /\ pc[w].at # "idle" => pc[w].obj \in Objs
    /\ issued \subseteq [tok : TokenIds, type : Types]
    /\ minted \in 0..MaxTokens /\ posts \in 0..MaxPosts

\* No worker is about to dereference a token or timer that has been freed:
\* the timer handler uses its timer and token (timer->data.ut), the teardown
\* after SE_CLOSE uses the timer, and the upload paths use the token after
\* the picture or chunk has been stored.  A token is freed by whichever
\* path gets there first, a timer by the teardown or by an upload path.
NoDanglingUse ==
    \A w \in Workers :
        /\ pc[w].at \in {"timer", "timer_close"} => timer[pc[w].obj] = "live"
        /\ pc[w].at \in {"timer", "upload", "attach_inc"} => ut[pc[w].obj].mem = "live"

\* Spec 4.7: once the POST of a token has completed, the token is gone from
\* upload_token_ht, so it cannot authorize a second upload.
UploadConsumesToken ==
    \A i \in Objs : ut[i].used => utTable[ut[i].token] # i

\* A timer that has fired is eventually torn down: some worker takes the
\* ready timerfd from epoll, timer_ut runs, and after SE_CLOSE the event is
\* deleted and the fd closed; or an upload path deletes the event first.
TimerTornDown ==
    \A f \in Fds : events[f] = "ready" ~> events[f] = "none"

\* server_handle_msg_attach counts chunks in msg_state.current: once every
\* attachment of a live message token has been stored, each exactly once,
\* and no worker is between the load and the store of the counter, the
\* message has been finalised.  A lost increment leaves it unsent until
\* the timer abandons it.
CompleteMessageSent ==
    \A i \in Objs :
        (/\ ut[i].mem = "live" /\ ut[i].type = "attach"
         /\ ut[i].stored = 0..Chunks-1 /\ ut[i].saves = Chunks
         /\ \A w \in Workers : ~(pc[w].at = "attach_inc" /\ pc[w].obj = i))
            => ut[i].used

=============================================================================
