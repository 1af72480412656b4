---------------------------- MODULE MC_HashTable ----------------------------
(***************************************************************************)
(* Model-checking instance of HashTable.                                  *)
(*   MCInitSize 2 (the code uses 10) makes a handful of keys cross both    *)
(*   watermarks: sizes 2, 4, 8 and back.                                  *)
(*   FdKeys are keys as the event, client and user tables see them (file  *)
(*   descriptors and user ids, never 0); 1, 9, 17 share a slot up to size *)
(*   8, so chains of three buckets form, and 2 lives elsewhere.           *)
(*   ShortChainKeys never put three keys in one slot at a size the load  *)
(*   allows (that needs keys 8 apart), but 1, 3 and 5 share slots at      *)
(*   sizes 2 and 4, so two-bucket chains form and are resized and split.  *)
(*   ZeroKeys add key 0, which upload-token ids (random u32) can take.    *)
(***************************************************************************)
EXTENDS HashTable

MCInitSize == 2
MCMaxSize == 16
MCSizeMax == 100000000   \* any value with 10 * v > 7 * MCMaxSize acts as SIZE_MAX
FdKeys == {1, 2, 9, 17}
ShortChainKeys == {1, 2, 3, 5}
ZeroKeys == {0, 1, 2}
=============================================================================
