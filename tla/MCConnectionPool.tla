--------------------------- MODULE MCConnectionPool ---------------------------
(***************************************************************************)
(* A small instance of ConnectionPool: two connections, one thread, and    *)
(* more requests than either. read and rival are synchronous, ask and      *)
(* frame ask a provider.                                                   *)
(***************************************************************************)
EXTENDS ConnectionPool

CONSTANTS read, rival, ask, frame

MCRequest == {read, rival, ask, frame}
MCSync    == {read, rival}
MCWriter  == {rival, frame}
MCRival   == {rival}
=============================================================================
