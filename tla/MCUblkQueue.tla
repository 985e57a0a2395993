---------------------------- MODULE MCUblkQueue ----------------------------
(* UblkQueue on small instances.                                           *)
EXTENDS UblkQueue
=============================================================================
