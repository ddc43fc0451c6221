-------------------------------- MODULE MCGate --------------------------------
(* Gate on a machine with one or two CPUs and two cgroups.                      *)
EXTENDS Gate, TLC

CONSTANTS cpu0, cpu1, ssh, other

MCOneCPU == {cpu0}
MCTwoCPU == {cpu0, cpu1}
MCCgroup == {ssh, other}

\* Nothing tells two CPUs apart.
MCSymmetry == Permutations(MCTwoCPU)
=============================================================================
