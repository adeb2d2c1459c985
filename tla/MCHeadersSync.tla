--------------------------- MODULE MCHeadersSync ---------------------------
(***************************************************************************)
(* A small instance of HeadersSync: blocks come early, on time, or late    *)
(* enough to clamp a retarget; a dishonest peer's own headers are slow.    *)
(***************************************************************************)
EXTENDS HeadersSync

MCTimeSteps == {2, 9}
=============================================================================
