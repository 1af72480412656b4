--------------------------- MODULE MC_ClientRegistry ---------------------------
(***************************************************************************)
(* Model-checking instance of ClientRegistry.  Three or four clients and *)
(* two users: two clients can log in as one user while a third is another *)
(* user's peer; two descriptors for more clients force the reuse of a     *)
(* closed one, with up to three workers so that an accept, a free and a  *)
(* broadcast can be in progress at once.  Clients, users, descriptors and *)
(* workers are interchangeable.                                           *)
(***************************************************************************)
EXTENDS ClientRegistry, TLC

Sym == Permutations(Clients) \cup Permutations(Users) \cup Permutations(Fds)
       \cup Permutations(Workers)
=============================================================================
