----------------------------- MODULE MC_FileStore -----------------------------
(***************************************************************************)
(* Model-checking instance of FileStore.  Two users and two hashes let    *)
(* two uploads share content, a picture share its content with a message *)
(* attachment, and a shared picture be replaced and switched back to;     *)
(* eight saves let each user change picture three times around two        *)
(* attachments.                                                           *)
(***************************************************************************)
EXTENDS FileStore, TLC

MCMaxUploads == 8

\* The failures the code recovers from by leaving a reference behind: a
\* chain not sent, a failed user update, a failed delete.
HandledFails == {"submit", "update", "delete"}

\* Every failure, including those the executors read past: a failed
\* insert and a failed refcount query.
AllFails == FailureKinds
Sym == Permutations(Users) \cup Permutations(Hashes) \cup Permutations(Workers)
=============================================================================
