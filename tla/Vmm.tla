--------------------------------- MODULE Vmm ---------------------------------
(***************************************************************************)
(* The virtual machine monitor (src/vmm/src/): a Microkit protection       *)
(* domain that receives the notifications of device interrupts and the     *)
(* faults of one guest, and keeps the guest's interrupt controller.        *)
(*                                                                         *)
(* seL4 and the guest are the environment. A guest action ends in a fault, *)
(* which blocks the guest until the monitor replies; notifications may be  *)
(* handled in between. The program counter and the general registers are   *)
(* left out, and with them the values a register read returns.             *)
(***************************************************************************)
EXTENDS VGic

CONSTANT Assumptions   \* what the guest is trusted to do, see below

VARIABLES
  vgic,       \* the global vgic and dist, and the list registers they mirror
  masked,     \* physical interrupts that seL4 holds back until their ack
  notified,   \* SPIs whose notification the monitor has not handled yet
  fault,      \* the fault the guest is blocked on, or NoFault
  guest,      \* "running", "stopped" by the monitor, or "dead": not replied to
  vmm         \* "up", or "halted" by a failed assertion

vars == <<vgic, masked, notified, fault, guest, vmm>>

(* The operations of a fault: a VGIC maintenance, a virtual PPI, a write   *)
(* to a distributor register, and the calls that reach no list register.   *)
DistWrites == {"CTLR_on", "CTLR_off", "ISENABLER", "ICENABLER", "ISPENDR",
               "ICPENDR", "SGIR", "unimplemented", "emulated"}
Calls ==
  {"dist_read", "wordle", "wordle_last", "VM_other",
   "PSCI_SYSTEM_RESET", "PSCI_SYSTEM_OFF", "PSCI_answered", "PSCI_other",
   "SMC_other", "WFx", "VCPU_other", "SYSCALL_known", "SYSCALL_other",
   "UserException", "unknown_label"}
Fault(op, S, k) == [op |-> op, irqs |-> S, idx |-> k]
NoFault == Fault("none", {}, 0)
Faults == [op : {"none", "VGICMaintenance", "VPPIEvent"} \cup DistWrites \cup Calls,
           irqs : SUBSET Irqs, idx : ListRegs]

-------------------------------------------------------------------------------
(* Assumptions on the guest. Each names a guard of a guest action.         *)
Trusted(name, guard) == name \in Assumptions => guard

(* A guest enables the distributor before it enables a device interrupt,   *)
(* and disables it after the last.                                         *)
DistributorFirst(op, S) ==
  Trusted("distributor_first",
          /\ op = "CTLR_off" => vgic.enabled \cap Physical = {}
          /\ op = "ISENABLER" /\ S \cap Physical # {} => vgic.ctlr)

(* The head comment of vgic_v2.c (lines 38-40): the guest leaves pending   *)
(* flags alone. A disabled interrupt that is not pending cannot suffer.    *)
PendingFlagsAlone(op, S) ==
  Trusted("pending_flags_alone",
          op = "ICPENDR" => S \cap (vgic.enabled \cup vgic.pending) = {})

(* A guest resets itself with its interrupts shut down.                    *)
QuiescentReset(op) ==
  Trusted("quiescent_reset",
          op = "PSCI_SYSTEM_RESET" =>
            vgic.enabled \cap Physical = {} /\ vgic.hw = EmptySlots)

(* A guest raises SGIs and SPIs that exist, and writes no register that    *)
(* the monitor leaves unimplemented.                                       *)
OwnInterrupts(op, S) ==
  Trusted("own_interrupts",
          /\ op = "SGIR" => vgic.ctlr /\ S \subseteq Registered
          /\ op = "ISPENDR" => \A i \in S : i < NUM_VCPU_LOCAL_VIRQS \/ i \in Registered
          /\ op # "unimplemented")

-------------------------------------------------------------------------------
(* The environment.                                                        *)
Runs == guest = "running" /\ fault = NoFault

Raise(op, S, k) ==
  /\ Runs
  /\ fault' = Fault(op, S, k)
  /\ UNCHANGED <<notified, guest, vmm>>

(* A device interrupt: seL4 masks it and signals the monitor's channel.    *)
DeviceIrq(i) ==
  /\ i \notin masked
  /\ masked' = masked \cup {i}
  /\ notified' = notified \cup {i}
  /\ UNCHANGED <<vgic, fault, guest, vmm>>

(* The timer of the vCPU fires while the guest runs: seL4 masks it and     *)
(* sends its fault handler a VPPI event.                                   *)
VppiEvent(i) ==
  /\ i \notin masked
  /\ masked' = masked \cup {i}
  /\ Raise("VPPIEvent", {i}, 0)
  /\ UNCHANGED vgic

(* The guest has dealt with the interrupt in list register k.              *)
GuestEoi(k) ==
  /\ vgic.hw[k] # VIRQ_INVALID
  /\ vgic' = [vgic EXCEPT !.hw[k] = VIRQ_INVALID]
  /\ Raise("VGICMaintenance", {}, k)
  /\ UNCHANGED masked

(* A write to the distributor: a set of bits where one is cleared, enabled *)
(* or disabled; a single interrupt where one is raised.                    *)
GuestWrites(op, S) ==
  /\ op \in {"ISPENDR", "SGIR"} => Cardinality(S) = 1
  /\ op = "SGIR" => S \subseteq Sgis
  /\ op \notin {"ISENABLER", "ICENABLER", "ICPENDR", "ISPENDR", "SGIR"} => S = {}
  /\ DistributorFirst(op, S) /\ PendingFlagsAlone(op, S) /\ OwnInterrupts(op, S)
  /\ Raise(op, S, 0)
  /\ UNCHANGED <<vgic, masked>>

(* Any other fault; the assembly of the wordle client among them.          *)
GuestCalls(op) ==
  /\ QuiescentReset(op)
  /\ Raise(op, {}, 0)
  /\ UNCHANGED <<vgic, masked>>

-------------------------------------------------------------------------------
(* The monitor: one handler at a time, to its end. A failed assertion      *)
(* stops it for good.                                                      *)
Ack(S) == masked' = masked \ S
NoAck == UNCHANGED masked

Halt == vmm' = "halted" /\ UNCHANGED <<vgic, masked, fault, guest>>

(* The reply to the fault, which lets the guest go on.                     *)
Reply == fault' = NoFault /\ UNCHANGED <<guest, vmm>>
ReplyTo(status) == fault' = NoFault /\ guest' = status /\ UNCHANGED vmm

(* notified: a dropped interrupt is left masked, for its enabling to ack.  *)
Notified(i) ==
  /\ vmm = "up"
  /\ i \in notified
  /\ notified' = notified \ {i}
  /\ IF Overflows(vgic, i)
     THEN Halt
     ELSE vgic' = SetPending(vgic, i) /\ NoAck /\ UNCHANGED <<fault, guest, vmm>>

(* Mutant: the guest's acknowledgement is not passed on to seL4. *)
HandleMaintenanceNoAck ==
  /\ fault.op = "VGICMaintenance"
  /\ vgic' = Maintenance(vgic, fault.idx) /\ NoAck /\ Reply

HandleMaintenance ==
  LET k == fault.idx IN
  /\ fault.op = "VGICMaintenance"
  /\ IF vgic.lr[k] = VIRQ_INVALID
     THEN Halt
     ELSE vgic' = Maintenance(vgic, k) /\ Ack({vgic.lr[k]}) /\ Reply

(* A PPI the guest does not take is acknowledged at once.                  *)
HandleVppi ==
  /\ fault.op = "VPPIEvent"
  /\ \E i \in fault.irqs :
       IF Overflows(vgic, i)
       THEN Halt
       ELSE /\ vgic' = SetPending(vgic, i)
            /\ IF Injectable(vgic, i) THEN NoAck ELSE Ack({i})
            /\ Reply

HandleCtlr ==
  /\ fault.op \in {"CTLR_on", "CTLR_off"}
  /\ vgic' = DistEnable(vgic, fault.op = "CTLR_on")
  /\ NoAck /\ Reply

HandleEnable ==
  /\ fault.op = "ISENABLER"
  /\ vgic' = EnableIrqs(vgic, fault.irqs)
  /\ Ack(AckedByEnable(vgic, fault.irqs)) /\ Reply

HandleDisable ==
  /\ fault.op = "ICENABLER"
  /\ vgic' = DisableIrqs(vgic, fault.irqs)
  /\ NoAck /\ Reply

HandleClearPending ==
  /\ fault.op = "ICPENDR"
  /\ vgic' = ClearPending(vgic, fault.irqs)
  /\ NoAck /\ Reply

(* An SPI without a handle is a null pointer. Only SGIR asserts that the   *)
(* interrupt was not dropped.                                              *)
HandleSetPending ==
  /\ fault.op \in {"ISPENDR", "SGIR"}
  /\ \E i \in fault.irqs :
       IF \/ Overflows(vgic, i)
          \/ i >= NUM_VCPU_LOCAL_VIRQS /\ i \notin Registered
          \/ fault.op = "SGIR" /\ ~Injectable(vgic, i)
       THEN Halt
       ELSE vgic' = SetPending(vgic, i) /\ NoAck /\ Reply

(* guest_restart reinitialises everything the monitor keeps; what seL4     *)
(* keeps for the vCPU, list registers and masks, it does not reach.        *)
HandleReset ==
  /\ fault.op = "PSCI_SYSTEM_RESET"
  /\ vgic' = VGicReset(vgic.hw)
  /\ NoAck /\ Reply

(* Registers that are merely stored, or ignored; two groups of them end in *)
(* an assertion.                                                           *)
HandleOtherWrite ==
  /\ fault.op \in {"emulated", "unimplemented"}
  /\ UNCHANGED vgic /\ NoAck
  /\ IF fault.op = "unimplemented"
     THEN vmm' = "halted" /\ UNCHANGED <<fault, guest>>
     ELSE Reply

(* The rest leaves the interrupt controller alone. What the monitor does   *)
(* not understand gets no reply, and the guest never runs again.           *)
Call(op, Outcome) == fault.op = op /\ Outcome /\ UNCHANGED vgic /\ NoAck

HandleDistRead == Call("dist_read", Reply)

(* The last letter of a wordle guess stops the vCPU.                       *)
HandleVmFault ==
  \/ Call("wordle", Reply)
  \/ Call("wordle_last", ReplyTo("stopped"))
  \/ Call("VM_other", ReplyTo("dead"))

HandlePsci ==
  \/ Call("PSCI_answered", Reply)
  \/ Call("PSCI_SYSTEM_OFF", ReplyTo("stopped"))
  \/ Call("PSCI_other", ReplyTo("dead"))

HandleVcpuFault ==
  \/ HandlePsci
  \/ Call("SMC_other", ReplyTo("dead"))
  \/ Call("WFx", Reply)
  \/ Call("VCPU_other", ReplyTo("dead"))

HandleUnknownSyscall ==
  \/ Call("SYSCALL_known", Reply)
  \/ Call("SYSCALL_other", ReplyTo("dead"))

(* A user exception is reported and answered: the guest meets it again.    *)
HandleUserException == Call("UserException", Reply)

HandleUnknownLabel == Call("unknown_label", ReplyTo("dead"))

HandleFault ==
  /\ vmm = "up"
  /\ UNCHANGED notified
  /\ \/ HandleMaintenance \/ HandleVppi
     \/ HandleCtlr \/ HandleEnable \/ HandleDisable
     \/ HandleClearPending \/ HandleSetPending
     \/ HandleOtherWrite \/ HandleDistRead \/ HandleVmFault
     \/ HandleReset \/ HandleVcpuFault
     \/ HandleUnknownSyscall \/ HandleUserException \/ HandleUnknownLabel

-------------------------------------------------------------------------------
(* init, with guest_start: no list register was ever loaded.               *)
Init ==
  /\ vgic = VGicReset(EmptySlots)
  /\ masked = {} /\ notified = {}
  /\ fault = NoFault /\ guest = "running" /\ vmm = "up"

Next ==
  \/ \E i \in Spis : DeviceIrq(i) \/ Notified(i)
  \/ \E i \in Ppis : VppiEvent(i)
  \/ \E k \in ListRegs : GuestEoi(k)
  \/ \E op \in DistWrites, S \in SUBSET Irqs : GuestWrites(op, S)
  \/ \E op \in Calls : GuestCalls(op)
  \/ HandleFault

Spec == Init /\ [][Next]_vars

(* The monitor handles what it is told of. The guest acknowledges what a   *)
(* list register gives it, whatever else it does in between: a guest that  *)
(* never does is never interrupted again.                                  *)
Fairness ==
  /\ \A i \in Spis : WF_vars(Notified(i))
  /\ WF_vars(HandleFault)
  /\ \A k \in ListRegs : SF_vars(GuestEoi(k))

FairSpec == Spec /\ Fairness

-------------------------------------------------------------------------------
(* Every variable has its type.                                            *)
VmmTypeOK ==
  /\ vgic \in VGics
  /\ masked \subseteq Physical
  /\ notified \subseteq Spis
  /\ fault \in Faults
  /\ guest \in {"running", "stopped", "dead"}
  /\ vmm \in {"up", "halted"}

(* An interrupt is pending exactly while it is held, in one list register  *)
(* or at one place of the overflow queue and never twice, which is why the *)
(* queue cannot overflow (virq.h:160-215, vdist.h:207-234).                *)
HeldOnce == HeldExactlyOnce(vgic)

(* No interrupt waits in the queue while a list register is free: only a   *)
(* maintenance takes from the queue, and with no list register in use      *)
(* there would never be one (vdist.h:217-225, vgic.c:47-62).               *)
QueueOnlyBehindFullListRegs == vgic.queue # <<>> => FreeListRegs(vgic) = {}

(* The shadow tells what the list registers hold, but for the one whose    *)
(* maintenance the guest is blocked on; that one still names the interrupt *)
(* to acknowledge (virq.h:78, vgic.c:39-46).                               *)
ShadowMatchesHardware ==
  \A k \in ListRegs :
    IF fault.op = "VGICMaintenance" /\ fault.idx = k
    THEN vgic.hw[k] = VIRQ_INVALID /\ vgic.lr[k] # VIRQ_INVALID
    ELSE vgic.hw[k] = vgic.lr[k]

(* An interrupt that seL4 holds back is on its way to the guest or held    *)
(* for it, or it is disabled and enabling will acknowledge it: none is     *)
(* masked for ever (vgic_v2.c:16-36, vdist.h:149, vmm.c:71-78).            *)
OnItsWay(i) == i \in notified \/ (fault.op = "VPPIEvent" /\ i \in fault.irqs)
NoInterruptLost ==
  \A i \in masked : i \in vgic.pending \/ OnItsWay(i) \/ i \notin vgic.enabled

(* No assertion of the monitor fails, whatever the guest and the devices   *)
(* do within the assumptions (vgic.c:40, vdist.h:211, 585, 604, virq.h).   *)
AssertionsHold == vmm = "up"

(* The interrupts of devices live as the head comment of vgic_v2.c says    *)
(* (lines 16-36), whatever list registers, queue and order are used.       *)
Lifecycle == INSTANCE IrqLifecycle
  WITH enabled <- vgic.enabled \cap Physical, pending <- vgic.pending \cap Physical
ImplementsIrqLifecycle == Lifecycle!Spec

(* A masked interrupt that the guest wants is unmasked again: its turn     *)
(* comes behind whatever is queued, and its acknowledgement reaches seL4   *)
(* (vgic_v2.c:30-32, vgic.c:46).                                           *)
Unmasked(i) == i \notin masked \/ i \notin vgic.enabled \/ guest # "running"
InterruptsReturn == \A i \in Physical : []<>Unmasked(i)

(* A maintenance finds the list register it is about in the shadow, as the *)
(* assertion at vgic.c:40 has it.                                          *)
MaintenanceFindsItsSlot ==
  fault.op = "VGICMaintenance" => vgic.lr[fault.idx] # VIRQ_INVALID
===============================================================================
