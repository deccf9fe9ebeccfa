------------------------------ MODULE MCAdmission -----------------------------
(***************************************************************************)
(* Instances of Admission for TLC.                                         *)
(***************************************************************************)
EXTENDS Admission, TLC

(* One permit, whatever the file says, and batches of one text.            *)
MCFlags == [max_inflight |-> 1]
MCFile  == [max_inflight |-> 2, max_batch_texts |-> 1]

(* The slots are interchangeable; for runs without a temporal property.    *)
SlotSymmetry == Permutations(Slot)
===============================================================================
