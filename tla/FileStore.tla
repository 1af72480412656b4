------------------------------ MODULE FileStore ------------------------------
(***************************************************************************)
(* Content-addressed picture files and their reference counts, as the     *)
(* profile-picture upload drives them (src/server/src/chat/user_upload.c,  *)
(* user_file.c).  A worker handling the POST of user u runs, blocking on   *)
(* its own database connection at each step:                              *)
(*   server_save_file_img:  insert_userfile (ref_count + 1), then the      *)
(*       refcount query; do_save_file_img writes the file iff it read 1;  *)
(*   update_user_pfp:       the user row update; its executor             *)
(*       update_pfp_result calls server_delete_file on the old hash:       *)
(*       delete_userfile (ref_count - 1), then the refcount query;         *)
(*       do_delete_file unlinks the file iff it read <= 0; then the new    *)
(*       hash is copied into user->pfp_hash.                               *)
(* A message attachment chunk (server_handle_msg_attach) runs the same    *)
(* server_save_file_img and, when it returns true, the attachment's JSON  *)
(* gets the hash: the stored message references the file from then on.   *)
(* Each database statement is atomic; statements of different workers     *)
(* interleave (one connection per worker, spec 4.4, 4.5).  A refcount      *)
(* query and the executor that uses its result are one step: no other     *)
(* worker's step can change what the executor does in between.            *)
(* A statement fails in one of two places: its submission (the db_async_* *)
(* call returns false, which the caller sees at once) or its execution    *)
(* (DB_ASYNC_ERROR in ctx->ret, which only the executor sees, after the   *)
(* caller has gone on).  Fails names the kinds of failure an instance     *)
(* allows.                                                                *)
(* The database statements themselves are not in the source tree; their   *)
(* effect on ref_count is taken from spec 5 (counted, deduplicated files).  *)
(***************************************************************************)
EXTENDS Integers, FiniteSets

CONSTANTS
    Workers,    \* event worker threads, each with its database connection
    Users,      \* users changing their profile picture
    Hashes,     \* content hashes of the pictures uploaded
    Fails,      \* the failures that may happen: a subset of FailureKinds
    MaxUploads, \* bound on picture uploads started
    Null

\* "submit": a chain is not sent; "insert", "update", "delete": that
\* statement ends in DB_ASYNC_ERROR; "query": a refcount query does.
FailureKinds == {"submit", "insert", "update", "delete", "query"}

ASSUME Fails \subseteq FailureKinds /\ MaxUploads \in Nat

VARIABLES
    refcnt,     \* userfile.ref_count per hash (0: no row)
    disk,       \* whether img_dir holds the file named by the hash
    pfp,        \* user->pfp_hash of each user's dbuser_t
    pc,         \* each worker's step and the hashes it holds
    uploads,    \* uploads started so far
    attached,   \* attachments of stored messages naming each hash
    stranded    \* history: references a failed statement left in ref_count

vars == <<refcnt, disk, pfp, pc, uploads, attached, stranded>>

\* A worker's upload: its step, what it saves for ("pfp" or "attach"),
\* the user, and the new and old hashes.
\* ins records whether the insert of the new hash took effect.
Idle == [at |-> "idle", for |-> Null, u |-> Null, new |-> Null, old |-> Null,
         ins |-> FALSE]

\* Outcomes of a step that can fail with kind k: success, or failure.
Outcome(k) == IF k \in Fails THEN BOOLEAN ELSE {TRUE}

\* refcount_ctx->data_size as the executor reads it, without looking at
\* the query's status: the count, or the 0 of the zeroed context when the
\* query failed.
ReadCount(q, h) == IF q THEN refcnt[h] ELSE 0

Init ==
    /\ refcnt = [h \in Hashes |-> 0]
    /\ disk = [h \in Hashes |-> FALSE]
    /\ pfp = [u \in Users |-> Null]
    /\ pc = [w \in Workers |-> Idle]
    /\ uploads = 0
    /\ attached = [h \in Hashes |-> 0]
    /\ stranded = [h \in Hashes |-> 0]

\* Who may start a save: the picture POST of a user, whose websocket client
\* server_handle_user_pfp_update found in user_ht, or an attachment chunk
\* (the upload token and Attach-Index checks are in UploadToken).
Savers == {[for |-> "pfp", u |-> u] : u \in Users} \cup {[for |-> "attach", u |-> Null]}

\* Fault variant: server_handle_user_pfp_update going on when the user has
\* no client in user_ht (the `goto respond` dropped).
SaveInsertNoUserCheck(w) ==
    /\ pc[w].at = "idle"
    /\ uploads < MaxUploads
    /\ \E u \in Users \cup {Null}, h \in Hashes :
        /\ refcnt' = [refcnt EXCEPT ![h] = @ + 1]
        /\ pc' = [pc EXCEPT ![w] = [Idle EXCEPT !.at = "inserted", !.for = "pfp", !.u = u,
                                               !.new = h, !.ins = TRUE]]
    /\ uploads' = uploads + 1
    /\ UNCHANGED <<disk, pfp, attached, stranded>>

(***************************************************************************)
(* server_save_file_img: the MIME check, then insert_userfile is sent.   *)
(* If sending fails, server_save_file_img returns false: the picture POST *)
(* ends with 500, the attachment chunk is not recorded.  Once sent, it     *)
(* returns true whatever the insert's execution does; a failed insert     *)
(* adds no reference.                                                      *)
(***************************************************************************)
SaveInsert(w) ==
    /\ pc[w].at = "idle"
    /\ uploads < MaxUploads
    /\ \E sv \in Savers, h \in Hashes, sent \in Outcome("submit"), ins \in Outcome("insert") :
        \/ /\ sent
           /\ refcnt' = IF ins THEN [refcnt EXCEPT ![h] = @ + 1] ELSE refcnt
           /\ pc' = [pc EXCEPT ![w] = [Idle EXCEPT !.at = "inserted", !.for = sv.for,
                                                  !.u = sv.u, !.new = h, !.ins = ins]]
        \/ /\ ~sent
           /\ UNCHANGED <<refcnt, pc>>
    /\ uploads' = uploads + 1
    /\ UNCHANGED <<disk, pfp, attached, stranded>>

(***************************************************************************)
(* The refcount query, then do_save_file_img: it returns on a failed     *)
(* insert, and otherwise writes the file iff the count it read is 1.      *)
(* The caller has already had true: the picture path goes on to           *)
(* update_user_pfp; the attachment path puts the hash into the            *)
(* attachment's JSON (and may finalise the message).                      *)
(***************************************************************************)
SaveFinish(w) ==
    LET h == pc[w].new IN
    /\ pc[w].at = "inserted"
    /\ \E q \in Outcome("query") :
        disk' = IF pc[w].ins /\ ReadCount(q, h) = 1 THEN [disk EXCEPT ![h] = TRUE] ELSE disk
    /\ IF pc[w].for = "pfp"
       THEN /\ pc' = [pc EXCEPT ![w].at = "saved"]
            /\ UNCHANGED attached
       ELSE /\ attached' = [attached EXCEPT ![h] = @ + 1]
            /\ pc' = [pc EXCEPT ![w] = Idle]
    /\ UNCHANGED <<refcnt, pfp, uploads, stranded>>

\* Fault variant: the new hash is copied into user->pfp_hash before the old
\* one is taken for deletion.
UpdateUserSwapped(w) ==
    LET u == pc[w].u
        old == pc[w].new
    IN  /\ pc[w].at = "saved"
        /\ \E upd \in Outcome("update"), del \in Outcome("delete") :
            \/ /\ ~upd
               /\ pc' = [pc EXCEPT ![w] = Idle]
               /\ stranded' = [stranded EXCEPT ![pc[w].new] = @ + 1]
               /\ UNCHANGED <<refcnt, pfp>>
            \/ /\ upd /\ ~del
               /\ pfp' = [pfp EXCEPT ![u] = pc[w].new]
               /\ pc' = [pc EXCEPT ![w] = Idle]
               /\ stranded' = [stranded EXCEPT ![old] = @ + 1]
               /\ UNCHANGED refcnt
            \/ /\ upd /\ del
               /\ refcnt' = [refcnt EXCEPT ![old] = @ - 1]
               /\ pfp' = [pfp EXCEPT ![u] = pc[w].new]
               /\ pc' = [pc EXCEPT ![w].at = "deleting", ![w].old = old]
               /\ UNCHANGED stranded
        /\ UNCHANGED <<disk, uploads, attached>>

(***************************************************************************)
(* update_user_pfp: the user row update.  If it is not sent the POST     *)
(* answers 500; if it fails, update_pfp_result returns at once.  Either   *)
(* way the reference the save added stays.  Otherwise the old hash is     *)
(* read from user->pfp_hash and server_delete_file sends delete_userfile; *)
(* a delete not sent (the result is ignored) or failed (do_delete_file    *)
(* returns first) unlinks nothing, and pfp_hash is updated.               *)
(* A user with no picture yet has an empty hash: its delete matches no    *)
(* row and its unlink fails.  The reference a failure leaves behind (the  *)
(* new one, or the old one that was not given back) is recorded in the   *)
(* history variable stranded.                                             *)
(***************************************************************************)
UpdateUser(w) ==
    LET u == pc[w].u
        old == pfp[u]
    IN  /\ pc[w].at = "saved"
        /\ \E upd \in Outcome("update"), del \in Outcome("delete") :
            \/ /\ ~upd
               /\ pc' = [pc EXCEPT ![w] = Idle]
               /\ stranded' = [stranded EXCEPT ![pc[w].new] = @ + 1]
               /\ UNCHANGED <<refcnt, pfp>>
            \/ /\ upd /\ (old = Null \/ ~del)
               /\ pfp' = [pfp EXCEPT ![u] = pc[w].new]
               /\ pc' = [pc EXCEPT ![w] = Idle]
               /\ stranded' = IF old = Null THEN stranded
                              ELSE [stranded EXCEPT ![old] = @ + 1]
               /\ UNCHANGED refcnt
            \/ /\ upd /\ old # Null /\ del
               /\ refcnt' = [refcnt EXCEPT ![old] = @ - 1]
               /\ pc' = [pc EXCEPT ![w].at = "deleting", ![w].old = old]
               /\ UNCHANGED <<pfp, stranded>>
        /\ UNCHANGED <<disk, uploads, attached>>

\* Fault variant: do_delete_file unlinking while one reference remains.
DeleteFinishOffByOne(w) ==
    LET h == pc[w].old IN
    /\ pc[w].at = "deleting"
    /\ \E q \in Outcome("query") :
        disk' = IF ReadCount(q, h) <= 1 THEN [disk EXCEPT ![h] = FALSE] ELSE disk
    /\ pfp' = [pfp EXCEPT ![pc[w].u] = pc[w].new]
    /\ pc' = [pc EXCEPT ![w] = Idle]
    /\ UNCHANGED <<refcnt, uploads, attached, stranded>>

\* Fault variant: do_delete_file unlinking only below zero references.
DeleteFinishStrict(w) ==
    LET h == pc[w].old IN
    /\ pc[w].at = "deleting"
    /\ \E q \in Outcome("query") :
        disk' = IF ReadCount(q, h) < 0 THEN [disk EXCEPT ![h] = FALSE] ELSE disk
    /\ pfp' = [pfp EXCEPT ![pc[w].u] = pc[w].new]
    /\ pc' = [pc EXCEPT ![w] = Idle]
    /\ UNCHANGED <<refcnt, uploads, attached, stranded>>

\* The refcount query, then do_delete_file: unlink iff the count it read,
\* unchecked, is 0 or less; back in update_pfp_result the new hash goes
\* into user->pfp_hash.
DeleteFinish(w) ==
    LET h == pc[w].old IN
    /\ pc[w].at = "deleting"
    /\ \E q \in Outcome("query") :
        disk' = IF ReadCount(q, h) <= 0 THEN [disk EXCEPT ![h] = FALSE] ELSE disk
    /\ pfp' = [pfp EXCEPT ![pc[w].u] = pc[w].new]
    /\ pc' = [pc EXCEPT ![w] = Idle]
    /\ UNCHANGED <<refcnt, uploads, attached, stranded>>

Next ==
    \E w \in Workers :
        \/ SaveInsert(w)
        \/ SaveFinish(w)
        \/ UpdateUser(w)
        \/ DeleteFinish(w)

Spec == Init /\ [][Next]_vars
-----------------------------------------------------------------------------
TypeOK ==
    /\ refcnt \in [Hashes -> Int]
    /\ disk \in [Hashes -> BOOLEAN]
    /\ pfp \in [Users -> Hashes \cup {Null}]
    /\ \A w \in Workers :
        /\ pc[w].at \in {"idle", "inserted", "saved", "deleting"}
        /\ pc[w].ins \in BOOLEAN
        /\ pc[w].at # "idle" => /\ pc[w].new \in Hashes
                                /\ pc[w].for = "pfp" => pc[w].u \in Users
        /\ pc[w].at \in {"saved", "deleting"} => pc[w].for = "pfp"
    /\ uploads \in 0..MaxUploads
    /\ attached \in [Hashes -> 0..MaxUploads]
    /\ stranded \in [Hashes -> 0..MaxUploads]

\* No upload is between two of its statements.
Quiescent == \A w \in Workers : pc[w].at = "idle"

\* A user's profile picture is always on disk: the file of every hash some
\* user->pfp_hash names exists, although saves and deletes of the same
\* content by other uploads decide the write and the unlink from counts
\* they read separately.
PictureOnDisk ==
    \A u \in Users : pfp[u] # Null => disk[pfp[u]]

\* A file a stored message's attachment names is on disk: the picture
\* path's delete of a replaced picture with the same content, reading the
\* shared ref_count, never unlinks it.
AttachmentOnDisk ==
    \A h \in Hashes : attached[h] > 0 => disk[h]

\* When no upload is in flight, each hash's ref_count is the number of
\* users whose picture it is, plus the attachments naming it, plus the
\* references failed database statements stranded: every save that was
\* kept added one reference, every picture replaced gave its reference
\* back, and a failure can only leave a reference behind, never take one
\* that is still in use.
RefcountMatches ==
    Quiescent =>
        \A h \in Hashes :
            refcnt[h] = Cardinality({u \in Users : pfp[u] = h}) + attached[h] + stranded[h]

\* When no upload is in flight, no file is on disk that no reference
\* keeps: do_delete_file unlinks the last one.
NoOrphanFile ==
    Quiescent => \A h \in Hashes : disk[h] => refcnt[h] > 0
=============================================================================
