--------------------------- MODULE MCResponseRun ---------------------------
(***************************************************************************)
(* Two drivers of one run: a request and a recovery thread, or two of the  *)
(* same kind.                                                              *)
(***************************************************************************)
EXTENDS ResponseRunProps

CONSTANTS d1, d2

TwoDrivers == {d1, d2}
OneDriver == {d1}
=============================================================================
