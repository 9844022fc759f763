----------------------------- MODULE IrqLifecycle -----------------------------
(***************************************************************************)
(* What the virtual GIC promises for the interrupts of real devices, after *)
(* the states b, c, d and g in the head comment of vgic_v2.c (lines 16-36):*)
(* no list registers, no queue and no order of delivery.                   *)
(***************************************************************************)
EXTENDS Naturals

CONSTANTS Physical, Ppis

VARIABLES
  enabled,   \* by the guest
  pending,   \* in the guest: injected and not yet acknowledged by it
  masked     \* by seL4, from the delivery of an interrupt until its ack

vars == <<enabled, pending, masked>>

Init == enabled = {} /\ pending = {} /\ masked = {}

(* c) PIRQ: seL4 disables the interrupt and tells the monitor.             *)
Delivered(i) ==
  /\ i \notin masked
  /\ masked' = masked \cup {i}
  /\ UNCHANGED <<enabled, pending>>

(* c -> d: the monitor hears of an interrupt that the guest has enabled,   *)
(* or the guest asks for it itself.                                        *)
Injected(i) ==
  /\ i \in enabled
  /\ pending' = pending \cup {i}
  /\ UNCHANGED <<enabled, masked>>

(* c -> b for a disabled one: nothing, but a PPI is acknowledged at once.  *)
Dropped(i) ==
  /\ i \in Ppis \ enabled
  /\ masked' = masked \ {i}
  /\ UNCHANGED <<enabled, pending>>

(* b -> c: what is not pending is acknowledged.                            *)
Enabled(S) ==
  /\ enabled' = enabled \cup S
  /\ masked' = masked \ (S \ pending)
  /\ UNCHANGED pending

(* g) What is resident is still delivered.                                 *)
Disabled(S) ==
  /\ enabled' = enabled \ S
  /\ UNCHANGED <<pending, masked>>

(* d -> c: the guest acknowledges, and so does the monitor with seL4.      *)
Acknowledged(i) ==
  /\ i \in pending
  /\ pending' = pending \ {i}
  /\ masked' = masked \ {i}
  /\ UNCHANGED enabled

(* A guest that starts again has nothing enabled and nothing pending.      *)
Restarted ==
  /\ pending = {}
  /\ enabled' = {}
  /\ UNCHANGED <<pending, masked>>

Next ==
  \/ \E i \in Physical : Delivered(i) \/ Injected(i) \/ Dropped(i) \/ Acknowledged(i)
  \/ \E S \in SUBSET Physical : Enabled(S) \/ Disabled(S)
  \/ Restarted

Spec == Init /\ [][Next]_vars
===============================================================================
