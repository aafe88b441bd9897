----------------------------- MODULE MCCacheLab -----------------------------
(* The programs of the cache lab, which driver.py runs one after the other:   *)
(* a behaviour is one run of the simulator or of a transpose kernel.          *)
EXTENDS CacheSim, Transpose

VARIABLE program

\* One-set-bit caches of one and two lines, one with two set bits and one with
\* three lines; addresses on both sides of 0.
MCSettings == {<<1, 1, 1>>, <<1, 2, 1>>, <<2, 2, 0>>, <<1, 3, 0>>}
MCAddresses == {-6, -2, 0, 1, 4, 6, 8}
MCShapes == {<<1, 1>>, <<32, 32>>, <<64, 64>>, <<61, 67>>}

MCInit ==
  /\ CsimInit /\ TransInit
  /\ \/ program = "csim" /\ <<M, N>> = <<1, 1>> /\ kernel = "trans"
     \/ program = "test-trans" /\ args = <<1, 1, 1>>

MCNext ==
  \/ program = "csim" /\ CsimNext /\ UNCHANGED <<program, transVars>>
  \/ program = "test-trans" /\ TransNext /\ UNCHANGED <<program, simVars>>

MCSpec == MCInit /\ [][MCNext]_<<program, simVars, transVars>>
=============================================================================
