------------------------ MODULE MCExceptionHandlers ------------------------
(* The instances of ExceptionHandlers that TLC checks.                      *)
EXTENDS ExceptionHandlers
=============================================================================
