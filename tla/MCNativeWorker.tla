---------------------------- MODULE MCNativeWorker ----------------------------
(***************************************************************************)
(* Instances of NativeWorker for TLC.  Junk is a model value, which TLC    *)
(* takes to be no natural number.                                          *)
(***************************************************************************)
EXTENDS NativeWorker
===============================================================================
