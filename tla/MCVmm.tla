-------------------------------- MODULE MCVmm ---------------------------------
(***************************************************************************)
(* Instances of Vmm: two of the four list registers, so that three of the  *)
(* four interrupts guest_start registers fill the queue, one unregistered  *)
(* SGI (2), and a queue with no room to spare.                             *)
(***************************************************************************)
EXTENDS Vmm

MCRegistered == {0, 1, 27, 79}
MCIrqs == MCRegistered \cup {2}
AllAssumptions ==
  {"distributor_first", "pending_flags_alone", "quiescent_reset", "own_interrupts"}
BusyReset == AllAssumptions \ {"quiescent_reset"}
===============================================================================
