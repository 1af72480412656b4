# TLA+ models of the chitychat server

This directory has TLA+ models of the C server under `src/server/src/`. TLC checks them. Each module models one part of the server from its source. The MC_ modules and the `.cfg` files instantiate the modules with small constants. `PROJECT.json` records four things:
- which definition models which source lines;
- the runs and what each one is expected to show;
- the mutants that show each passing property can fail;
- the findings and the hazards.

## 1. The system

The server is one process. After start-up, N worker threads (`conf.thread_pool`) block in `epoll_wait` on one shared epoll instance. Every descriptor is registered with `EPOLLONESHOT`. So a ready descriptor goes to exactly one worker, and nobody else sees it until its handler re-arms it or deletes it. All shared state lives in five hash tables:
- `event_ht`;
- `client_ht`;
- `user_ht`;
- `session_ht`;
- `upload_token_ht`.

They are created by `server_init_ht` (server_init.c:438-462) with initial size 10. Every table operation takes the table's mutex. Objects that a lookup returns are used after that mutex is released.

| Part | Source | State | Operations |
|---|---|---|---|
| Concurrent map | server_ht.c | table of in-array buckets plus heap chains, `size`, `min_size`, `count`, `load` | `server_ght_insert`, `_get`, `_del`, `_clear`; internal resize at load 0.7 / 0.2 |
| Timers | server_timer.c | `server_timer_t` (fd, type, data), a one-shot `timerfd` registered as an event | `server_addtimer`, `se_timer_read` (→ `timer_ut`, `timer_client_session`), `se_timer_close`, `server_close_timer` |
| Upload tokens | chat/user.c, chat/user_upload.c | `upload_token_t` (token, type, user_id, timerfd, msg_state) in `upload_token_ht` | minted by `server_user_edit_account`; consumed by `server_handle_user_upload` (picture or message attachment) or by the timer |
| Event reactor, worker pool | not in the tree (spec §3, §4.3) | `event_ht`, epoll registrations | `server_new_event`, `server_get_event`, `server_del_event`, the worker loop |
| Async DB pipeline, file store | chat/user_file.c (executors); DB layer not in the tree | `userfile` rows with a reference count; files in `img_dir` | `server_save_file_img` / `do_save_file_img`, `server_delete_file` / `do_delete_file` |
| HTTP, connection state | server_http.c | `client->state` bits KEEP_ALIVE, SHORT_LIVE, UPGRADE_PENDING, WEBSOCKET; partial body buffering | `parse_http`, `set_client_connection`, `handle_http_upgrade`, `server_handle_client_upgrade`, `server_handle_http` |
| Client registry, presence | server_client.c, chat/rtusm.c, chat/user.c | `client_t` in `client_ht` (by fd) and `user_ht` (by user id); session timers | `server_accept_client`, `server_free_client`, `server_client_user_info`, `rtusm_broadcast` |
| Init, config, logging | server_init.c, server_log.c | start-up only | — |

How the parts interact:
- Every event is in `event_ht`, keyed by its fd.
- The timer of an upload token is an event. The token stores the timer's fd number in `ut->timerfd`.
- An HTTP POST finds its token in `upload_token_ht`. When the upload is done, it looks up the timer event by `ut->timerfd` and deletes it. If no event is found there, it deletes the token.
- The timer handler zeroes `ut->timerfd` and deletes the token. It then returns `SE_CLOSE`, and its worker deletes the event. The close handler closes the timer.
- A disconnect removes the client from `client_ht` and `user_ht`. It may also start a 30-minute session timer.
- Presence broadcasts look clients up in `user_ht` and write to their TLS sessions.

What makes the code hard to get right:
- The two ways an upload token dies run on different fds, so they can run on different workers at the same time.
- Pointers fetched from a table are used after the table lock is released.
- Fd numbers are reused by the kernel, lowest free first.
- Keys can be 0, and a zeroed bucket also has key 0.
- The table counter is an unsigned `size_t`.
- Database callbacks are chained two queries deep.
- A per-token counter is updated by POSTs that arrive on different connections.

## 2. Modules

### AbstractMap: what a table promises (spec §4.1)
- **Variables:** `map`, from key to data or `Null`, and `last`, the operation just performed with its return value.
- **`Insert(k, d)`** fails exactly when `d` is NULL or `k` is present.
- **`Get(k)`** returns the stored data.
- **`Delete(k)`** fails exactly when `k` is absent, and removes only `k`.

Because `last` is recorded, an implementation is held to its return values and not only to its contents.

### HashTable: `server_ght_t` (server_ht.c)
- **State:** `ht.table[i]` is the chain reachable from the in-array bucket of slot `i`, head first. `ht.size` and `ht.count` are the fields of the same name. `last` is as in AbstractMap.
- **One action per public operation:** `Insert`, `Get` and `Delete`. Each is atomic, because each runs under `ht->mutex`. Each action models the whole call: `ght_insert` with its two duplicate checks, `ght_inc`, `ght_check_load`, `ght_resize` and `ght_del_bucket` are helper operators.
- **What is kept exactly:**
  - An empty in-array bucket has key 0 (`HeadKey`).
  - Resize rehashes every old chain, slot by slot, with `ght_insert`.
  - `server_ght_del` unlinks everything after a deleted middle bucket (`DelBucket` with `j > 1`).
  - `count` is a `size_t`: `Dec(0)` is `SizeMax`.
  - Resize recounts: `ght_resize` sets `count` to 0 and lets each re-insert add one, and only warns when the result differs from `old_count` (line 112). `CountExact` states that `count` always equals the buckets reachable from the table.
- **Refinement:** `Contents` maps the reachable buckets to a key→data function. `Abstract == INSTANCE AbstractMap WITH map <- Contents` makes `AbstractMapSpec` checkable as a PROPERTY.

### UploadToken: upload tokens, their timers and the one-shot reactor
- **Token objects:** `ut[i]` holds:
  - the memory state (`unalloc`/`live`/`freed`);
  - the type (`pfp` or `attach`);
  - the token value and `timerfd`;
  - `cur`, which is `msg_state.current`;
  - history fields: `used` (the POST path disposed of it), `stored` (Attach-Index values whose hash was added), `saves` (chunk saves that succeeded) and `sent` (times the message was inserted and broadcast).
- **Timer objects:** `timer[i]` is the memory state of token `i`'s timer.
- **Kernel fd table:** `fdOwner`. `NewUploadToken` takes the lowest free fd, as `timerfd_create` does.
- **`events[f]`:** the state of fd `f` in `event_ht` and epoll:
  - `armed`: registered, not ready;
  - `ready`: the timer expired;
  - `busy`: handed to one worker;
  - `none`: deleted.
- **Other variables:**
  - `client[c]`: a connection with a pending POST;
  - `pc[w]`: where worker `w` is and the pointers it holds;
  - `issued`: the token values sent to clients.
- **Actions:**
  - `NewUploadToken`: edit_account with new_pfp.
  - `NewAttachToken`: the message variant.
  - Both call `MintToken`, which is `server_addtimer` plus the insert into `upload_token_ht`.
  - `Expire`: the timerfd fires.
  - `ClientPost`: a client sends an upload.
  - `TimerWait`: epoll hands the ready timer to one worker.
  - `TimerRead`: `se_timer_read` → `timer_ut`.
  - `TimerClose`: `SE_CLOSE` → `server_del_event` → `se_timer_close`.
  - `UploadCheck`: `server_check_upload_token`, with the 400 path when the token is unknown.
  - `UploadFinish`: the `UT_USER_PFP` branch of `server_handle_user_upload`.
  - `AttachSave`: `server_handle_msg_attach` up to the load of `msg_state.current`. This includes the out-of-range index and the failed save.
  - `AttachInc`: the store of `current + 1`, the test against total and, when it passes, `Finalise` (`db_async_insert_group_msg` → `do_insert_msg_after`).
- **Disposal:** `UploadFinish` and `do_insert_msg_after` end with the same disposal, `Dispose`. It looks up the event under `ut->timerfd`, then deletes that event, or else deletes the token.
- **The increment:** `++` is split into a load (end of `AttachSave`) and a store (`AttachInc`). That is the data race a second worker can fall into. The test uses the stored value, as the compiled code does.
- **Taken from the spec:** `server_new_upload_token(_attach)`, `server_del_upload_token`, `server_get_event`/`server_del_event` and the worker loop are not in the tree. They are modelled from spec §3, §4.3 and §4.7. PROJECT.json marks `TimerWait` and `NewAttachToken` as spec_modelled.

### FileStore: picture files, their reference counts and the user's picture
- **Variables:**
  - `refcnt[h]`: `userfile.ref_count` of content hash `h` (0: no row);
  - `disk[h]`: whether `img_dir` holds the file named `h`;
  - `pfp[u]`: `user->pfp_hash` of user `u`;
  - `pc[w]`: the step worker `w` is at in its upload, with the user and the new and old hashes it holds;
  - `uploads`: the number of saves started (bounded);
  - `attached[h]`: how many attachments of stored messages name hash `h`.
- **Callers:** `server_save_file_img` has two callers (`Savers`): the profile-picture POST of a user and an attachment chunk (`server_handle_msg_attach`). Both share the `userfile` row and `ref_count` of a hash, so a picture and an attachment with the same content hold one count between them.
- **Actions:** one per database statement, each together with the executor that consumes its result. A worker blocks on its own connection, so the statements of one upload are sequential, and those of different workers interleave.
  - `SaveInsert`: a picture POST (after `server_handle_user_pfp_update` found the user's client) or an attachment chunk calls `server_save_file_img`. If sending `insert_userfile` fails it returns false (500 for a picture, no hash for an attachment). Once the chain is sent it returns true, whatever the insert then does: a failed insert adds no reference, and the caller carries on (`pc[w].ins` records which).
  - `SaveFinish`: the refcount query, then `do_save_file_img`, which returns on a failed insert and otherwise writes the file only when it read 1 (user_file.c:152). The count is `ReadCount`: `data_size`, read without checking the query's status, so a failed query reads the 0 of the zeroed context. A picture goes on to the user update; an attachment records the hash in its JSON (user_upload.c:214), and the message names the file from then on.
  - `UpdateUser`: `update_user_pfp`, then `update_pfp_result`. It reads the old hash from `user->pfp_hash` (user_upload.c:71) and issues `delete_userfile` for it. When there is no old picture or the delete fails, the new hash is copied in at once.
  - `DeleteFinish`: the refcount query, then `do_delete_file`, which unlinks when the count it read, unchecked, is 0 or less (user_file.c:251-253). The new hash is then copied into `pfp_hash`.
- **Database errors:** a step fails either when it is sent (the `db_async_*` call returns false, and the caller sees it) or when it executes (`DB_ASYNC_ERROR` in `ctx->ret`, which only the executor sees, after the caller has gone on). The constant `Fails` names the kinds an instance allows: `submit` (a chain not sent), `insert`, `update`, `delete` and `query` (a refcount query). The code recovers from `submit`, `update` and `delete` by leaving a reference behind: a failed user update returns with the save's reference still counted, and a delete not sent or failed keeps the replaced picture's reference. Nothing is rolled back. A failed `insert` or `query` is read past: the caller keeps the hash, and the executor acts on a count of 0.
- **Not modelled of the failures:** a refcount query that is not sent after its insert or delete was sent. What the pipeline then does with the chain's executor is in the database layer, which is not in the tree.
- **History variable:** `stranded[h]` counts the references to `h` that such failures left in `ref_count` with no picture or attachment naming them. It is written only on those error paths and read only by `RefcountMatches`.
- **Taken from the spec:** the SQL statements themselves are outside the tree. Their effect on `ref_count` (spec §5) is the only thing modelled.

### ClientRegistry: clients, client_ht and user_ht, and presence broadcast
- **Variables:**
  - `mem[c]` and `ssl[c]`: whether the `client_t` and its `SSL` object are unallocated, live or freed;
  - `sock[c]` and `openFds`: the client's socket descriptor and the descriptors currently open;
  - `clientHt` and `userHt`: the two tables, as functions from descriptor and from user id to client or `Null`;
  - `dbuser[c]`: the user the client logged in as;
  - `event[c]`: the client's one-shot socket event (`none`, `armed`, `busy`);
  - `pc[w]`: the worker's step, the client it handles, the users its broadcast still has to look up, and the client the last lookup returned.
- **Actions:**
  - `Accept`: `server_accept_client` on a descriptor that is not open (the kernel may hand out one just closed), the `client_ht` insert under it, whose failure on a present key is ignored, and the path where `server_new_event` fails and the client is freed again.
  - `Dispatch`: epoll hands the socket to one worker.
  - `Login`: sets `dbuser` and inserts into `user_ht`; the insert fails when the id is present.
  - `UserInfo`: `server_client_user_info` → `server_rtusm_user_connect` → `rtusm_broadcast` over the users the database returns.
  - `BcastLookup`, `BcastSend` and `BcastDone`: one loop iteration's `server_get_client_user_id`, the `ws_json_send` on its result, and the end of the loop.
  - `PfpLookup`, `PfpUser` and `PfpUpdate`: a profile-picture POST on a worker serving the uploader's HTTP connection. `server_handle_user_pfp_update` gets the uploader's websocket client from `user_ht` (a miss answers 500). It reads `user_client->dbuser` and runs `server_save_file_img`, which may fail. Then `update_user_pfp` and its executor `update_pfp_result` use that `dbuser`. The database round trips between the lookup and the last use are where another worker can free the client.
  - `Disconnect`: the read handler returns `SE_CLOSE`, and the close handler calls `server_free_client`.
  - `FreeHt`, `FreeSsl` and `FreeRest`: `server_free_client` in three steps. These are the `client_ht` delete by descriptor, `SSL_free`, and then the `user_ht` delete, `close` of the socket and `free(client)`.
- **Taken from the spec:** login, the read handler and the close handler are not in the tree. `Dispatch`, `Login` and `Disconnect` are marked spec_modelled.
- **Left out:** the session timer that `server_free_client` starts (session code is not in the tree).

### HttpConnection: one connection's HTTP state (server_http.c)
- **Variables:**
  - `state`: `client->state`, the bitmask of UPGRADE_PENDING (1), WEBSOCKET (2) and KEEP_ALIVE (4), 0 being SHORT_LIVE; it starts at 0 because `server_accept_client` callocs the client;
  - `buffered`: the request parked in `client->recv.http` while its body is incomplete, or `Null`;
  - `handshake`: whether a 101 has been sent;
  - `open`: whether the connection is still served; `crashed`: whether the process died;
  - `dispatched`: the request `server_handle_http` ran on in the last step; `reqs`: requests read (bounded).
- **A request** is abstracted to what the code acts on: its kind (GET, POST, another method, a response start line, or a head with no start-line token), its URL token as a sequence of characters, the names of its header lines in order, the token list of its `Connection` header, its `Upgrade` header (absent, `websocket`, or another value), its `Content-Length` and the body bytes that came with the head.
- **Operators:**
  - `ParsedHeaders`: the header loop of `parse_http`. On reaching `HTTP_MAX_HEADERS` the count is set back by one and the loop stops, so at most `HTTP_MAX_HEADERS - 1` lines are kept. `Kept`, `ConnTokens`, `UpgradeOf` and `BodyLen` are what the kept lines give `handle_http_header` and `http_get_header`; a dropped `Content-Length` leaves `body_len` at 0.
  - `ApplyToken` and `SetConnection`: `set_client_connection`, token by token in order; `close` assigns 0 and so clears bits set before it.
  - `HandleHttpUpgrade`, `ParsedState`: the header handlers and the upgrade check at the end of `parse_http`. WEBSOCKET is set here, at parse time (line 89).
  - `StrtokR` and `UrlPath`: glibc's `strtok_r` (leading delimiters skipped, NULL when nothing is left) and `parse_url`, whose path is the first token of the URL split at `?`. `DerefsNullPath`: a URL made only of `?` gives a NULL path, which `strncpy` reads (line 167).
  - `DerefsNullUpgrade`: the pending bit is set and no `Upgrade` header exists, so `handle_http_upgrade` reads through NULL (line 87).
  - `DerefsNullBody`: the body is missing and `Content-Length` exceeds the constant `AllocMax`, the largest size `calloc` returns memory for; the NULL it returns is written by `memcpy` of the bytes already received (lines 288-293). `ParseCrashes` is any of the three.
  - `Missing`: the declared body is longer than what came with the head (lines 284-296).
  - `HandleHttp`: `server_handle_http`, with `server_handle_client_upgrade` and `server_upgrade_client_to_websocket`; the 101 `http_send` may fail, and then WEBSOCKET is not or'ed in again. Without the pending bit, GET and POST keep the connection and everything else ends it.
- **Actions:**
  - `ReadRequest`: `server_http_parse` on a new request. A head without a start-line token ends the connection (`RECV_ERROR`); a NULL dereference crashes the process; a partial body is buffered; otherwise the request is dispatched.
  - `ReadBody`: more body bytes for the buffered request; when the body is complete it is dispatched. The read handler that does this is not in the tree (spec §4.6) and is marked spec_modelled.
- **Left out:** header value tokenising, query parameters (`parse_url` stores them, but they are only ever logged), `Sec-WebSocket-Key`, the response builders and `http_send` itself (only its success or failure), and what the GET/POST handlers do.

## 3. Runs

| Run | Expect | What it shows |
|---|---|---|
| `ht_pass` | pass | On keys {1,2,3,5} from size 2 up to 16: `KeysUnique`, `ChainPlacement`, `LoadBounded` and `InsertPreservesEntries` hold for every sequence of operations, and `count` always equals the buckets in the table (`CountExact`), so the `old_count` warning of `ght_resize` never fires. The resize at both watermarks keeps every entry, each in the slot `server_ght_get` looks in. With two-bucket chains and no key 0, the table also refines AbstractMap, return values included (`AbstractMapSpec`). |
| `ht_refines` | violation | Insert 1, 9, 17 at size 8, then delete 9: `get(17)` returns NULL. `server_ght_del` sets `prev->next = NULL` (server_ht.c:262) and loses the rest of the chain. |
| `ut_single` | pass | With one worker thread (373 611 states, about a minute): no worker ever uses a freed token or timer (`NoDanglingUse`), whatever the order of mints, expiries and POSTs. A message whose chunks all arrived exactly once is finalised (`CompleteMessageSent`). Under the fairness below, every timer that fired is eventually deleted from the event table (`TimerTornDown`). |
| `ut_lost` | violation | Two workers handle the two chunks of one message. Both load `current = 0` and both store 1. Every attachment is stored, but the message is never finalised (user_upload.c:219). |
| `ut_race` | violation | Two workers: a timer fires and worker 1 dequeues it; a POST of that token reaches worker 2; worker 1 frees the token while worker 2 holds it. Both then free it. |
| `ut_leak` | violation | After a successful POST with the timer still pending, the token is still in `upload_token_ht` (`UploadConsumesToken`). `server_del_event` only closes the timer. From there the model also reaches three consequences that are not kept as separate runs: a replayed token, a later token's timer reusing the closed fd number (a second POST of the old token then cancels it), and a retried chunk that finalises a message a second time. |
| `fs_single` | pass | With one worker, where any chain may fail to be sent and any user update or delete may fail (`Fails <- HandledFails`), picture uploads and attachment chunks in any order keep every user's picture on disk (`PictureOnDisk`) and every file a stored attachment names on disk (`AttachmentOnDisk`), also when a user replaces a picture whose content an attachment shares: the delete reads the shared count and leaves the file. When no upload is in flight, each hash's `ref_count` equals the pictures and attachments naming it plus the references failed statements stranded (`RefcountMatches`): a failure never drops a reference still in use, and no file is on disk without a reference (`NoOrphanFile`). |
| `cr_pass` | pass | Three workers accept, serve and free four clients on two socket descriptors. `user_ht` only holds live clients of the key's user, and such a client loses its TLS session only while its own `server_free_client` is running (`UserHtSound`), also when two clients log in as one user. `client_ht` maps each descriptor to exactly the live client on it (`ClientHtSound`), also when a descriptor closed on one worker is handed to a connection accepted on the other: `server_free_client` deletes the entry before it closes the socket. |
| `cr_race` | violation | Two workers. c1 logs in as u1. A picture POST for u1 on w1 gets c1 from `user_ht`. c1 disconnects on w2, and `server_free_client` frees its `dbuser` and the client. w1 then reads `c1->dbuser` (user_upload.c:132) and would go on to write `pfp_hash` through it. The presence broadcast has the same pattern, and TLC reaches it too: `server_free_client` frees the SSL (server_client.c:69) before it removes the `user_ht` entry (line 89), so `ws_json_send` (rtusm.c:44) can run on a freed session. |
| `fs_missing` | violation | Two workers, and every kind of failure (`Fails <- AllFails`). A user's picture ends up missing from disk in three ways. (1) The insert fails after it was sent: `server_save_file_img` has already returned true, so `update_user_pfp` stores the hash, and no file is ever written (user_file.c:146, 193-203). (2) A refcount query fails: its `data_size` is read unchecked as 0, so a new file is not written, or a file other users still name is unlinked (lines 150, 251-253). Spec §4.5 says a link must never treat absent data as success. (3) Without failures (`Fails = {}`), two workers save the same new picture: both inserts run before either refcount query, so both read 2 and neither writes the file (line 152). TLC's shortest trace shows a failure; the race was checked with `Fails = {}`. |
| `hc_pass` | pass | Up to four requests on one connection, each with fewer header lines than the cap. `Connection` headers carry up to two of `keep-alive`, `close` and `Upgrade` in any order. The `Upgrade` header is absent, `websocket` or another value. A request that crashes the server ends the behaviour. Bodies arrive with the head or in later reads. Every request `server_handle_http` runs on leaves UPGRADE_PENDING clear (`PendingClearedAfterDispatch`), also when it waited for its body with the bit set. |
| `hc_crash` | violation | Clients here always send `Upgrade` with `Connection: Upgrade`, and `HTTP_MAX_HEADERS` is 4. The first request has one other line, then `Connection: Upgrade`, `Content-Length` and `Upgrade: websocket`. Only three lines are kept, so `http_get_header` returns NULL for `Upgrade`, and `handle_http_upgrade` reads `header->val` (server_http.c:87). The server process crashes. A request that omits `Upgrade` crashes it the same way, where spec §4.6 says the pending bit is cleared and the connection continues as plain HTTP. The run's requests allow two more causes of the same crash by one request: a URL made only of `?` leaves `parse_url`'s path NULL for `strncpy` (line 167), and a `Content-Length` larger than `calloc` can serve gives a NULL body that `memcpy` writes (lines 290-291). |

Every property of a passing run has a mutant in PROJECT.json: a plausible bug in one mapped definition that TLC shows breaks it. Examples:
- a resize into a realloc'ed array that keeps the old chains;
- hashing by the initial size;
- no load check after insert;
- a resize that moves only the in-array buckets;
- `timer_ut` without `ut->timerfd = 0`;
- the upload path without its NULL check;
- `do_delete_file` unlinking at `<= 1`, or only at `< 0`;
- the new hash copied into `pfp_hash` before the old one is read;
- `server_free_client` without the `client_ht` delete, or returning after `SSL_free`;
- `se_timer_close` not deleting the event, and the attachment path not re-arming the client when the message is complete;
- a resize that keeps `old_count` instead of recounting;
- the connection flags added instead of or'ed in, and the unimplemented-upgrade branch returning before the toggle of the pending bit.

### Bounds
- **HashTable:**
  - InitSize is 2 instead of 10. This makes four keys cross both watermarks: 2→4→8 and back.
  - Keys 1, 9 and 17 (`ht_refines`) collide at every size up to 8, which is the only way a three-bucket chain can exist under the 0.7 watermark.
  - Keys {1,2,3,5} (`ht_pass`) form two-bucket chains at sizes 2 and 4, which resizes split, but never three-bucket ones. The passing run therefore checks the contract away from the chain-delete bug that `ht_refines` shows.
  - MaxSize 16 is never reached by four keys. It only bounds the state space if larger key sets are used.
- **UploadToken:**
  - Three tokens, two fds and three POSTs. This is enough for a token to leak, its fd to be reused by a later token, and a replay to hit it.
  - A message expects two chunks, the fewest for an increment to be lost or an index to repeat.
  - Three POSTs allow both chunks plus one retry.
  - Two token values make a POST with an unknown or a reused value possible.
  - Symmetry over token values, clients and workers is sound for safety, because no action distinguishes them, and the violation runs use it. `ut_single` checks liveness and therefore runs without symmetry.
  - Deadlock checking is off in UploadToken runs. The environment is bounded: once the mints and POSTs are used up, the server idles in `epoll_wait`, which is its normal state.

- **FileStore:**
  - Two users and two hashes: enough for two users to share a picture, and for a user to replace one picture with another.
  - Eight saves: every user can change pictures several times and come back to an earlier hash, around two attachments, one of which can share a picture's content.
  - One worker in the passing run; two in the violation runs, which is where the interleavings of statements appear.
  - `fs_single` allows the failures the code recovers from (`submit`, `update`, `delete`), so each of those error paths is taken. It leaves out a failed insert or refcount query, which `fs_missing` shows the code does not recover from.
  - Deadlock checking is off: once the uploads are used up the server idles.

- **ClientRegistry:**
  - Four clients and two users in `cr_pass`, so two clients can log in as one user while others broadcast to them, and a descriptor can be reused twice.
  - Two descriptors: the third and fourth accepts must reuse a closed descriptor, possibly while another worker is inside `server_free_client`.
  - Each client allocation is used once, which bounds the run.
  - Three workers in `cr_pass`, so a teardown, a broadcast and an accept can all be in progress at once; two in `cr_race`, which is enough for `NoUseOfFreedClient` to fail. The passing run checks what holds with three: the soundness of both tables.
  - Deadlock checking is off: once every client is freed the server idles in `epoll_wait`.

- **HttpConnection:**
  - `Connection` headers: none, one token, or two different tokens in either order. Two tokens are enough for `close` to undo an earlier `keep-alive` or `Upgrade` and for the order to matter.
  - `HTTP_MAX_HEADERS` is not in the tree (its header is missing), so it is a constant, set to 4. `hc_pass` uses the `Connection`, `Content-Length` and `Upgrade` lines in every subset, in one order, so none is dropped. `hc_crash` also puts one other line first. Changing the order of kept lines changes nothing. Only which line the cap drops depends on order.
  - `Content-Length` and received bytes range over 0..2, so a body can arrive whole, in two reads, or in three. `AllocMax` is 2, so `calloc` never fails in `hc_pass`; `hc_crash` lets `Content-Length` reach 3, the smallest size it refuses.
  - Four requests: an upgrade attempt, a refused or failed handshake and keep-alive requests after it fit.
  - Every request carries the URL `/` (`PathUrls`). The URL only decides whether `parse_url` crashes, and each further URL multiplies `hc_pass`'s states (four URLs take it from two to twenty minutes). `hc_crash` adds the URL `?`, which crashes `parse_url`.
  - `BareUpgrade` is TRUE in `hc_pass`, so requests without `Upgrade` occur and crash the process there. The `HandleHttp` branch for a missing `Upgrade` header is never reached, because `parse_http` dereferences NULL before it. `hc_crash` sets it FALSE, so its `Upgrade` crash comes only from the cap.
  - Deadlock checking is off: the request bound ends every behaviour.

### Fairness
`ut_single` checks a liveness property under `FairSpec`, which adds weak fairness of every worker action (`TimerWait`, `TimerRead`, `TimerClose`, `UploadCheck`, `UploadFinish`, `AttachSave`, `AttachInc`) for every worker. The code justifies this. A worker loops on `epoll_wait`, and an armed ready event is returned to some waiting worker. Each handler step then runs to completion without waiting on another thread: the single-worker run has no lock contention, and the database calls return. The environment actions (`Expire`, mints, client POSTs) get no fairness. A client may never send, and a timer may never fire, so nothing is promised about them.

## 4. Not modelled, and why

- `server_ght_clear`/`server_ght_destroy` run only at shutdown, after the workers stop. `server_ght_hashstr` is not called by the source tree.
- Start-up (`server_init.c`: arguments, config file, sockets, TLS context, magic, database) and logging are single-threaded I/O. Spec §1 puts configuration loading and CLI parsing out of scope. Its numeric edges (the `-p` conversion into a u32 before the range check, the unchecked file port) are listed as hazards; a model would need a run of its own, and all twelve are in use.
- Request body ownership: `do_save_file_img` frees `http->body`, which is a heap copy only when the body was buffered. Modelling it needs the read handler that owns the receive buffer, which is not in the tree; the hazard is listed.
- HTTP header value tokenising, query parameters, JSON building and TLS I/O are string processing. Only their effect on connection state and on the upload paths is relevant. One exception is listed as a hazard: `parse_http` tokenises with `strtok` (server_http.c:201-252), whose position is one static shared by all workers. HttpConnection takes `parse_http` as one step of one connection, so it cannot show two workers continuing each other's tokenising.
- HTTP responses of the upload paths. UploadToken abstracts the handling of a POST to re-arming the client's event, which every path does. `server_handle_msg_attach` answers only its two 400 errors (user_upload.c:241-246): a stored chunk gets no response at all. A property saying every POST is answered would fail on that path and needs a violation run, and no run slot is left; the hazard is listed.
- The database is outside the tree. Its calls are modelled only by what their results make the executors in user_file.c and user_upload.c do.

## 5. Plan

Done:
- HashTable refined against AbstractMap;
- UploadToken for both token types, with liveness under weak fairness of the workers;
- FileStore for the picture chain and the attachment saves that share its counts;
- ClientRegistry for teardown against broadcast, and `client_ht` under descriptor reuse with three workers;
- HttpConnection for the connection state bits, the upgrade, the partial body, the URL path and the body allocation;
- FileStore with failures to send each chain and failures of each statement, split into those the code recovers from and those it reads past; HashTable's count across resizes.

Two observations are not kept as runs, for lack of slots; the hazards in PROJECT.json say how to reproduce them:
- key 0 (`Keys <- ZeroKeys`) breaks `AbstractMapSpec`;
- two workers with one user in FileStore break `RefcountMatches`.

Next, in order:
1. **WEBSOCKET before the handshake.** Spec §4.6 says the state flips to websocket mode with the 101. The code sets the bit while parsing (server_http.c:89), so a failed `http_send` leaves a websocket connection with no handshake. A property would state this once the spec's intent is settled.
2. **Composition.** UploadToken's `upload_token_ht` as an `INSTANCE` of HashTable, so that token value 0 and the chain-delete bug reach the upload paths.
3. **Sessions.** The session timer started by `server_free_client`, once the session code is in the tree.

The project uses the full budget of twelve runs. A new question needs a new run, so it must replace a run whose question it answers more deeply, or fold its property into an existing passing run.
