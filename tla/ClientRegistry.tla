---------------------------- MODULE ClientRegistry ----------------------------
(***************************************************************************)
(* Connected clients, the two tables that reference them, and presence    *)
(* broadcast (src/server/src/server_client.c, chat/rtusm.c, chat/user.c).  *)
(* A client_t is owned by the worker that holds its one-shot event; it is  *)
(* referenced from client_ht (by fd) and from user_ht (by user id).  The  *)
(* kernel hands out the lowest free descriptor, so a socket closed by one *)
(* worker's server_free_client can be the one the next accept returns.   *)
(*   server_free_client runs in steps that other workers can interleave   *)
(*   with: client_ht delete, SSL_free, user_ht delete with the dbuser free *)
(*   and the close and free of the client.                                *)
(*   rtusm_broadcast, run by the worker handling the broadcasting client, *)
(*   looks each connected user up in user_ht (the table lock is released  *)
(*   on return) and then writes to the client it got.                     *)
(* Each table operation is atomic (HashTable); the tables are functions   *)
(* or sets here.  Login, the websocket read handler and the close handler *)
(* are not in the source tree and are taken from spec 2 and 4.3.          *)
(* Session timers are left out: session code is not in the tree.          *)
(***************************************************************************)
EXTENDS FiniteSets

CONSTANTS
    Workers,    \* event worker threads
    Clients,    \* client_t allocations, each accepted at most once
    Users,      \* user ids clients log in as
    Fds,        \* socket descriptors the kernel may hand out
    Null

VARIABLES
    mem,        \* memory of each client_t: unalloc, live, freed
    ssl,        \* client->ssl: none, live, freed
    sock,       \* client->addr.sock of each client, Null before accept
    openFds,    \* descriptors currently open
    clientHt,   \* client_ht: fd -> client or Null
    userHt,     \* user_ht: user id -> client or Null
    dbuser,     \* client->dbuser->user_id, Null before login
    event,      \* the client's socket event: none, armed, busy
    pc          \* each worker's step, client, users left and lookup result

vars == <<mem, ssl, sock, openFds, clientHt, userHt, dbuser, event, pc>>

Idle == [at |-> "idle", c |-> Null, todo |-> {}, tgt |-> Null]

Init ==
    /\ mem = [c \in Clients |-> "unalloc"]
    /\ ssl = [c \in Clients |-> "none"]
    /\ sock = [c \in Clients |-> Null]
    /\ openFds = {}
    /\ clientHt = [f \in Fds |-> Null]
    /\ userHt = [u \in Users |-> Null]
    /\ dbuser = [c \in Clients |-> Null]
    /\ event = [c \in Clients |-> "none"]
    /\ pc = [w \in Workers |-> Idle]

(***************************************************************************)
(* server_accept_client: calloc, accept (a descriptor not open), the TLS *)
(* handshake (a failed handshake only sets client->err and returns 0),    *)
(* the client_ht insert under the socket, whose failure on a key still    *)
(* present is ignored, and server_new_event.  If the event cannot be      *)
(* created the worker goes on to server_free_client.                      *)
(***************************************************************************)
Accept(w) ==
    /\ pc[w].at = "idle"
    /\ \E c \in Clients, f \in Fds \ openFds, evOk \in BOOLEAN :
        /\ mem[c] = "unalloc"
        /\ mem' = [mem EXCEPT ![c] = "live"]
        /\ ssl' = [ssl EXCEPT ![c] = "live"]
        /\ sock' = [sock EXCEPT ![c] = f]
        /\ openFds' = openFds \cup {f}
        /\ clientHt' = IF clientHt[f] = Null THEN [clientHt EXCEPT ![f] = c] ELSE clientHt
        /\ event' = [event EXCEPT ![c] = IF evOk THEN "armed" ELSE "none"]
        /\ pc' = IF evOk THEN pc
                 ELSE [pc EXCEPT ![w] = [Idle EXCEPT !.at = "free_ht", !.c = c]]
    /\ UNCHANGED <<userHt, dbuser>>

\* epoll hands the client's ready socket to one worker (EPOLLONESHOT).
Dispatch(w) ==
    /\ pc[w].at = "idle"
    /\ \E c \in Clients :
        /\ event[c] = "armed"
        /\ event' = [event EXCEPT ![c] = "busy"]
        /\ pc' = [pc EXCEPT ![w] = [Idle EXCEPT !.at = "handle", !.c = c]]
    /\ UNCHANGED <<mem, ssl, sock, openFds, clientHt, userHt, dbuser>>

\* The login command: the client gets its dbuser and is inserted into
\* user_ht under the user id; server_ght_insert fails if the id is present.
Login(w) ==
    LET c == pc[w].c IN
    /\ pc[w].at = "handle"
    /\ dbuser[c] = Null
    /\ \E u \in Users :
        /\ dbuser' = [dbuser EXCEPT ![c] = u]
        /\ userHt' = IF userHt[u] = Null THEN [userHt EXCEPT ![u] = c] ELSE userHt
    /\ event' = [event EXCEPT ![c] = "armed"]
    /\ pc' = [pc EXCEPT ![w] = Idle]
    /\ UNCHANGED <<mem, ssl, sock, openFds, clientHt>>

\* Fault variant: the command run for a client that has not logged in.
UserInfoNoLogin(w) ==
    LET c == pc[w].c IN
    /\ pc[w].at = "handle"
    /\ \E peers \in SUBSET Users :
        pc' = [pc EXCEPT ![w] = [Idle EXCEPT !.at = "bcast", !.c = c, !.todo = peers]]
    /\ UNCHANGED <<mem, ssl, sock, openFds, clientHt, userHt, dbuser, event>>

(***************************************************************************)
(* server_client_user_info: answer the client itself, then                *)
(* server_rtusm_user_connect sets the status and calls rtusm_broadcast,   *)
(* which asks the database for the users connected to this one.  The     *)
(* function reads client->dbuser unchecked: chat commands reach it only   *)
(* for a logged-in client (spec 2).                                       *)
(***************************************************************************)
UserInfo(w) ==
    LET c == pc[w].c IN
    /\ pc[w].at = "handle"
    /\ dbuser[c] # Null
    /\ \E peers \in SUBSET Users :
        pc' = [pc EXCEPT ![w] = [Idle EXCEPT !.at = "bcast", !.c = c, !.todo = peers]]
    /\ UNCHANGED <<mem, ssl, sock, openFds, clientHt, userHt, dbuser, event>>

\* rtusm_broadcast, one iteration: server_get_client_user_id for the next
\* connected user; a NULL result is skipped.
BcastLookup(w) ==
    /\ pc[w].at = "bcast"
    /\ \E v \in pc[w].todo :
        pc' = [pc EXCEPT ![w].todo = @ \ {v},
                         ![w].tgt = userHt[v],
                         ![w].at = IF userHt[v] = Null THEN "bcast" ELSE "send"]
    /\ UNCHANGED <<mem, ssl, sock, openFds, clientHt, userHt, dbuser, event>>

\* ws_json_send on the client the lookup returned.
BcastSend(w) ==
    /\ pc[w].at = "send"
    /\ pc' = [pc EXCEPT ![w].at = "bcast", ![w].tgt = Null]
    /\ UNCHANGED <<mem, ssl, sock, openFds, clientHt, userHt, dbuser, event>>

\* The loop ends: json_object_put, free, and the handler returns SE_OK, so
\* the one-shot event is re-armed.
BcastDone(w) ==
    /\ pc[w].at = "bcast"
    /\ pc[w].todo = {}
    /\ event' = [event EXCEPT ![pc[w].c] = "armed"]
    /\ pc' = [pc EXCEPT ![w] = Idle]
    /\ UNCHANGED <<mem, ssl, sock, openFds, clientHt, userHt, dbuser>>

(***************************************************************************)
(* A profile-picture POST for user u (server_handle_user_pfp_update), on  *)
(* a worker serving the uploader's HTTP connection, which is not one of   *)
(* Clients: server_get_client_user_id returns u's websocket client, or    *)
(* NULL and the POST is answered 500 with nothing else done.             *)
(***************************************************************************)
PfpLookup(w) ==
    /\ pc[w].at = "idle"
    /\ \E u \in Users :
        pc' = IF userHt[u] = Null THEN pc
              ELSE [pc EXCEPT ![w] = [Idle EXCEPT !.at = "pfp_user", !.tgt = userHt[u]]]
    /\ UNCHANGED <<mem, ssl, sock, openFds, clientHt, userHt, dbuser, event>>

\* user = user_client->dbuser, then server_save_file_img, which blocks on
\* the worker's database connection; a failed save answers 500.
PfpUser(w) ==
    /\ pc[w].at = "pfp_user"
    /\ \E saved \in BOOLEAN :
        pc' = IF saved THEN [pc EXCEPT ![w].at = "pfp_update"]
              ELSE [pc EXCEPT ![w] = Idle]
    /\ UNCHANGED <<mem, ssl, sock, openFds, clientHt, userHt, dbuser, event>>

\* update_user_pfp reads user->user_id and its executor update_pfp_result
\* reads and writes user->pfp_hash; then the POST is answered.
PfpUpdate(w) ==
    /\ pc[w].at = "pfp_update"
    /\ pc' = [pc EXCEPT ![w] = Idle]
    /\ UNCHANGED <<mem, ssl, sock, openFds, clientHt, userHt, dbuser, event>>

\* The read handler returns SE_CLOSE (peer gone or protocol error):
\* server_del_event removes the event and its close handler calls
\* server_free_client.
Disconnect(w) ==
    /\ pc[w].at = "handle"
    /\ event' = [event EXCEPT ![pc[w].c] = "none"]
    /\ pc' = [pc EXCEPT ![w].at = "free_ht"]
    /\ UNCHANGED <<mem, ssl, sock, openFds, clientHt, userHt, dbuser>>

\* Fault variant: the client_ht delete dropped.
FreeHtKeep(w) ==
    /\ pc[w].at = "free_ht"
    /\ pc' = [pc EXCEPT ![w].at = "free_ssl"]
    /\ UNCHANGED <<mem, ssl, sock, openFds, clientHt, userHt, dbuser, event>>

\* server_free_client, first step: server_ght_del(client_ht, sock) removes
\* whatever entry the table holds under the client's descriptor.
FreeHt(w) ==
    /\ pc[w].at = "free_ht"
    /\ clientHt' = [clientHt EXCEPT ![sock[pc[w].c]] = Null]
    /\ pc' = [pc EXCEPT ![w].at = "free_ssl"]
    /\ UNCHANGED <<mem, ssl, sock, openFds, userHt, dbuser, event>>

\* Fault variant: returning after SSL_free.
FreeSslReturn(w) ==
    /\ pc[w].at = "free_ssl"
    /\ ssl' = [ssl EXCEPT ![pc[w].c] = "freed"]
    /\ pc' = [pc EXCEPT ![w] = Idle]
    /\ UNCHANGED <<mem, sock, openFds, clientHt, userHt, dbuser, event>>

\* SSL_shutdown (unless client->err) and SSL_free.
FreeSsl(w) ==
    /\ pc[w].at = "free_ssl"
    /\ ssl' = [ssl EXCEPT ![pc[w].c] = "freed"]
    /\ pc' = [pc EXCEPT ![w].at = "free_user"]
    /\ UNCHANGED <<mem, sock, openFds, clientHt, userHt, dbuser, event>>

(***************************************************************************)
(* The rest of server_free_client: the session timer (not modelled), free *)
(* the receive buffer; if logged in,                                       *)
(* server_ght_del(user_ht, user_id), which removes whichever client the   *)
(* table holds under that id, and free the dbuser; close the socket,      *)
(* destroy the TLS mutex and free the client.                             *)
(***************************************************************************)
FreeRest(w) ==
    LET c == pc[w].c
        u == dbuser[c]
    IN  /\ pc[w].at = "free_user"
        /\ userHt' = IF u = Null THEN userHt ELSE [userHt EXCEPT ![u] = Null]
        /\ mem' = [mem EXCEPT ![c] = "freed"]
        /\ dbuser' = [dbuser EXCEPT ![c] = Null]
        /\ openFds' = openFds \ {sock[c]}
        /\ pc' = [pc EXCEPT ![w] = Idle]
        /\ UNCHANGED <<ssl, sock, clientHt, event>>

Next ==
    \E w \in Workers :
        \/ Accept(w)
        \/ Dispatch(w)
        \/ Login(w)
        \/ UserInfo(w)
        \/ BcastLookup(w)
        \/ BcastSend(w)
        \/ BcastDone(w)
        \/ PfpLookup(w)
        \/ PfpUser(w)
        \/ PfpUpdate(w)
        \/ Disconnect(w)
        \/ FreeHt(w)
        \/ FreeSsl(w)
        \/ FreeRest(w)

Spec == Init /\ [][Next]_vars
-----------------------------------------------------------------------------
TypeOK ==
    /\ mem \in [Clients -> {"unalloc", "live", "freed"}]
    /\ ssl \in [Clients -> {"none", "live", "freed"}]
    /\ sock \in [Clients -> Fds \cup {Null}]
    /\ openFds \subseteq Fds
    /\ clientHt \in [Fds -> Clients \cup {Null}]
    /\ userHt \in [Users -> Clients \cup {Null}]
    /\ dbuser \in [Clients -> Users \cup {Null}]
    /\ event \in [Clients -> {"none", "armed", "busy"}]
    /\ \A w \in Workers :
        /\ pc[w].at \in {"idle", "handle", "bcast", "send",
                         "pfp_user", "pfp_update", "free_ht", "free_ssl", "free_user"}
        /\ pc[w].todo \subseteq Users
        /\ pc[w].at \in {"bcast", "send"} => dbuser[pc[w].c] \in Users

\* No worker uses a client it got from user_ht after that client was
\* freed: rtusm_broadcast's ws_json_send finds the client and its TLS
\* session alive, and the picture upload finds the client's dbuser alive
\* when it reads it (user_upload.c:132) and when update_pfp_result writes
\* pfp_hash after the save's database round trips.  Between the lookup and
\* the use the table lock is released, and server_free_client on the
\* client's own worker frees the SSL and then the dbuser and the client.
NoUseOfFreedClient ==
    \A w \in Workers :
        /\ pc[w].at \in {"send", "pfp_user", "pfp_update"} => mem[pc[w].tgt] = "live"
        /\ pc[w].at = "send" => ssl[pc[w].tgt] = "live"

\* user_ht only holds live clients logged in as the key's user, and a
\* client there has lost its TLS session only while a worker is in the
\* middle of freeing it: every server_free_client removes the entry its
\* own user id names before the client is freed.
UserHtSound ==
    \A u \in Users :
        LET c == userHt[u] IN
        c # Null =>
            /\ mem[c] = "live"
            /\ dbuser[c] = u
            /\ ssl[c] = "freed" => \E w \in Workers : pc[w].c = c /\ pc[w].at = "free_user"

\* Whether a worker is inside server_free_client of client c.
BeingFreed(c) == \E w \in Workers : pc[w].c = c /\ pc[w].at \in {"free_ht", "free_ssl", "free_user"}

\* client_ht maps each descriptor only to the live client whose socket it
\* is, and every live client not being freed is found under its socket,
\* also when a descriptor closed by server_free_client on one worker is
\* handed to a connection accepted on another: server_free_client deletes
\* the entry before it closes the socket, so the new client's insert never
\* meets the old entry and the old client's delete never removes the new.
ClientHtSound ==
    /\ \A f \in Fds :
        clientHt[f] # Null => /\ mem[clientHt[f]] = "live"
                              /\ sock[clientHt[f]] = f
    /\ \A c \in Clients :
        mem[c] = "live" /\ ~BeingFreed(c) => clientHt[sock[c]] = c
=============================================================================
