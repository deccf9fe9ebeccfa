-------------------------------- MODULE MCVideo --------------------------------
(* Instances of Video for TLC. *)
EXTENDS Video
===============================================================================
