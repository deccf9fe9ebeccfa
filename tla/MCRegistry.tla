------------------------------ MODULE MCRegistry ------------------------------
(***************************************************************************)
(* Instances of Registry for TLC.                                          *)
(***************************************************************************)
EXTENDS Registry

CONSTANTS a, b, c, d, e

(* The default model a is named again in warm and skipped; b is listed     *)
(* twice, so that its second preload hits.                                 *)
MCPreload == <<a, a, b, b>>

(* One warm model only.                                                    *)
MCPreloadOne == <<a>>
===============================================================================
