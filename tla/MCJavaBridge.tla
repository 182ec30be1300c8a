---------------------------- MODULE MCJavaBridge ----------------------------
(* The instances of JavaBridge that TLC checks.                             *)
EXTENDS JavaBridge
=============================================================================
