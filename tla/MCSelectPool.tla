---------------------------- MODULE MCSelectPool ----------------------------
(* Instances of SelectPool for TLC: three clients and two descriptors for    *)
(* them, so that a descriptor and a slot are given again.                    *)
EXTENDS SelectPool
=============================================================================
