---------------------------- MODULE MCMessageImport ----------------------------
(* Instance of MessageImport for TLC.                                          *)
EXTENDS MessageImport
================================================================================
