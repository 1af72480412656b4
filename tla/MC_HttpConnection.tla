-------------------------- MODULE MC_HttpConnection --------------------------
(***************************************************************************)
(* Model-checking instance of HttpConnection.  Connection headers of up   *)
(* to two tokens, so that close can follow or precede keep-alive and      *)
(* Upgrade; bodies of up to two bytes, so that a body can be split over   *)
(* two reads after the head; four requests on one connection.            *)
(* The Connection, Content-Length and Upgrade lines are taken in one      *)
(* order: handle_http_header's effects of the first two do not depend on  *)
(* each other, and the Upgrade line is only searched for, so with all of  *)
(* them kept their order changes nothing.  What order does change is      *)
(* which line the cap drops, and one leading other line with a cap of    *)
(* four pushes the last of three past it.                                 *)
(***************************************************************************)
EXTENDS HttpConnection

Tokens == {"keep-alive", "close", "Upgrade"}
MCConnHeaders == {<<>>} \cup {<<t>> : t \in Tokens}
                 \cup {p \in Tokens \X Tokens : p[1] # p[2]}
MCBodyLens == 0..2
MCAllocMax == 2

\* A Content-Length of 3 stands for one calloc cannot satisfy.
CrashBodyLens == 0..3
MCMaxRequests == 4
MCMaxHeaders == 4

\* The URL of every request is a plain path: the URL token only decides
\* whether parse_url survives, and a request that crashes ends the run.
PathUrls == {<<"/">>}

\* A plain path and a URL made only of "?", for which parse_url's path is NULL.
CrashUrls == {<<"/">>, <<"?">>}

Lines == <<"Connection", "Content-Length", "Upgrade">>
ShortHeaderSeqs == {SelectSeq(Lines, LAMBDA n : n \in S) : S \in SUBSET ToSet(Lines)}
PaddedHeaderSeqs == ShortHeaderSeqs \cup {<<"Other">> \o h : h \in ShortHeaderSeqs}
=============================================================================
