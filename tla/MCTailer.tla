------------------------------- MODULE MCTailer -------------------------------
(* Tailer with a few lines and enough faults for one to hit the recovery    *)
(* from another.                                                           *)
EXTENDS Tailer
================================================================================
