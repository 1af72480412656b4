--------------------------- MODULE MC_UploadToken ---------------------------
(***************************************************************************)
(* Model-checking instance of UploadToken.  Two token values and two      *)
(* timer fds are enough for a token to be minted again on a reused fd;    *)
(* three mints and three POSTs allow a mint, an upload, a second mint and *)
(* a replayed upload.  A message token expects two attachments, the     *)
(* fewest for a counter increment to be lost or an index to repeat.      *)
(***************************************************************************)
EXTENDS UploadToken, TLC

MCFds == {3, 4}
MCChunks == 2
MCMaxTokens == 3
MCMaxPosts == 3
Sym == Permutations(TokenIds) \cup Permutations(Clients) \cup Permutations(Workers)
=============================================================================
