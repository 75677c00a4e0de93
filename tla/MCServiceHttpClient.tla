------------------------- MODULE MCServiceHttpClient -------------------------
(***************************************************************************)
(* Small instances of ServiceHttpClient: three coroutines share a client.  *)
(***************************************************************************)
EXTENDS ServiceHttpClient

MCSenders == {"a", "b", "c"}
=============================================================================
