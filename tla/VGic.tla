--------------------------------- MODULE VGic ---------------------------------
(***************************************************************************)
(* The virtual GICv2 of the virtual machine monitor: the distributor, the  *)
(* shadow of the list registers and the overflow queue, as operators from  *)
(* a state record to a state record (src/vmm/src/vgic/).                   *)
(*                                                                         *)
(* A bit of a distributor register is membership in a set, a virq_handle   *)
(* its number; a handle's ack function is told by the number (Physical).   *)
(***************************************************************************)
EXTENDS Integers, Sequences, FiniteSets

CONSTANTS
  Irqs,         \* interrupts whose distributor bits the guest writes
  Registered,   \* those with a handle: guest_start registers 0, 1, 27 and 79
  NumListRegs,  \* NUM_LIST_REGS, 4 in the code
  QueueLen      \* MAX_IRQ_QUEUE_LEN, 64 in the code; one slot stays empty

ASSUME VGicAssumption ==
  /\ Irqs \subseteq Nat
  /\ Registered \subseteq Irqs
  /\ IsFiniteSet(Registered)
  /\ NumListRegs \in Nat \ {0}
  /\ QueueLen \in Nat
  /\ Cardinality(Registered) < QueueLen

NUM_SGI_VIRQS == 16
NUM_VCPU_LOCAL_VIRQS == 32
VIRQ_INVALID == -1

Sgis == {i \in Irqs : i < NUM_SGI_VIRQS}
Physical == {i \in Registered : i >= NUM_SGI_VIRQS}
Ppis == {i \in Physical : i < NUM_VCPU_LOCAL_VIRQS}
Spis == Physical \ Ppis

ListRegs == 0..NumListRegs - 1
Slots == [ListRegs -> Registered \cup {VIRQ_INVALID}]

(* hw is what the kernel wrote to the list registers of the vCPU for the   *)
(* monitor; lr its shadow.                                                 *)
VGics == [ctlr : BOOLEAN, enabled : SUBSET Irqs, pending : SUBSET Irqs,
          lr : Slots, hw : Slots, queue : Seq(Registered)]

EmptySlots == [k \in ListRegs |-> VIRQ_INVALID]

(* Mutant: the SGIs start disabled. *)
VGicResetAllOff(slots) ==
  [ctlr |-> FALSE, enabled |-> {}, pending |-> {},
   lr |-> EmptySlots, hw |-> slots, queue |-> <<>>]

(* vgic_init with vgic_dist_reset. The list registers are not its to clear.*)
VGicReset(slots) ==
  [ctlr |-> FALSE, enabled |-> Sgis, pending |-> {},
   lr |-> EmptySlots, hw |-> slots, queue |-> <<>>]

FreeListRegs(g) == {k \in ListRegs : g.lr[k] = VIRQ_INVALID}
FindEmptyListReg(g) == CHOOSE k \in FreeListRegs(g) : \A j \in FreeListRegs(g) : k <= j

QueueFull(g) == Len(g.queue) + 1 = QueueLen
Enqueue(g, i) == [g EXCEPT !.queue = Append(@, i)]

(* Mutant: the shadow is not updated. *)
LoadHardwareOnly(g, k) ==
  [g EXCEPT !.hw[k] = Head(g.queue), !.queue = Tail(@)]

(* The head of the queue into list register k: dequeue and load.           *)
LoadListReg(g, k) ==
  [g EXCEPT !.lr[k] = Head(g.queue), !.hw[k] = Head(g.queue), !.queue = Tail(@)]

DistEnable(g, on) == [g EXCEPT !.ctlr = on]

(* Mutant: an interrupt without a handle is injected. *)
InjectableUnregistered(g, i) == g.ctlr /\ i \in g.enabled

(* vgic_dist_set_pending_irq returns FALSE, the interrupt is dropped, when *)
(* it cannot be injected; one already pending is not injected again.       *)
Injectable(g, i) == i \in Registered /\ g.ctlr /\ i \in g.enabled
Overflows(g, i) == Injectable(g, i) /\ i \notin g.pending /\ QueueFull(g)

SetPendingLast(g, i) ==
  LET h == Enqueue([g EXCEPT !.pending = @ \cup {i}], i)
  IN  IF FreeListRegs(g) = {} THEN h ELSE LoadListReg(h, FindEmptyListReg(g))

(* Mutant: an interrupt that is pending is injected again. *)
SetPendingTwice(g, i) == IF Injectable(g, i) THEN SetPendingLast(g, i) ELSE g

SetPending(g, i) ==
  IF Injectable(g, i) /\ i \notin g.pending THEN SetPendingLast(g, i) ELSE g

ClearPending(g, S) == [g EXCEPT !.pending = @ \ S]

(* Mutants: enabling acknowledges nothing, or what is still pending too. *)
AckedByEnableNothing(g, S) == {}
AckedByEnableAll(g, S) == S \cap Registered

(* Enabling acknowledges, in the kernel, what is not pending in the guest. *)
EnableIrqs(g, S) == [g EXCEPT !.enabled = @ \cup S]
AckedByEnable(g, S) == {i \in S \cap Registered : i \notin g.pending}

(* SGIs cannot be disabled.                                                *)
DisableIrqs(g, S) == [g EXCEPT !.enabled = @ \ {i \in S : i >= NUM_SGI_VIRQS}]

(* handle_vgic_maintenance: the guest is done with list register k.        *)
Retire(g, k) == [g EXCEPT !.lr[k] = VIRQ_INVALID, !.pending = @ \ {g.lr[k]}]
Maintenance(g, k) ==
  LET h == Retire(g, k)
  IN  IF h.queue = <<>> THEN h ELSE LoadListReg(h, k)

-------------------------------------------------------------------------------
(* What an interrupt is held by: a list register or a place in the queue.  *)
Loaded(g) == {g.lr[k] : k \in ListRegs} \ {VIRQ_INVALID}
Queued(g) == {g.queue[n] : n \in 1..Len(g.queue)}

HeldExactlyOnce(g) ==
  /\ g.pending = Loaded(g) \cup Queued(g)
  /\ Loaded(g) \cap Queued(g) = {}
  /\ \A j, k \in ListRegs : g.lr[j] = g.lr[k] /\ g.lr[j] # VIRQ_INVALID => j = k
  /\ \A m, n \in 1..Len(g.queue) : g.queue[m] = g.queue[n] => m = n
===============================================================================
