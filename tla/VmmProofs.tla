------------------------------- MODULE VmmProofs -------------------------------
(***************************************************************************)
(* Theorems about the virtual machine monitor, for every set of            *)
(* interrupts, any number of list registers and any queue with room for    *)
(* the registered ones.                                                    *)
(***************************************************************************)
EXTENDS Vmm, VGicProofs

TypeInv == VmmTypeOK /\ QueueOnlyBehindFullListRegs

LEMMA FaultType ==
  ASSUME NEW op \in {"VPPIEvent", "VGICMaintenance", "none"} \cup DistWrites \cup Calls,
         NEW S \in SUBSET Irqs, NEW k \in ListRegs
  PROVE  Fault(op, S, k) \in Faults
BY DEF Fault, Faults

LEMMA ZeroIsListReg == 0 \in ListRegs /\ NoFault \in Faults
<1>1. 0 \in ListRegs
  BY VGicAssumption DEF ListRegs
<1>2. NoFault \in Faults
  BY <1>1, FaultType DEF NoFault
<1> QED BY <1>1, <1>2

LEMMA TypeInvInit == Init => TypeInv
<1> SUFFICES ASSUME Init PROVE TypeInv
  OBVIOUS
<1>1. EmptySlots \in Slots
  BY DEF EmptySlots, Slots
<1>2. vgic \in VGics /\ QueueBehind(vgic)
  BY <1>1, ResetEffect DEF Init, Consistent
<1> QED BY <1>2, ZeroIsListReg
        DEF Init, TypeInv, VmmTypeOK, QueueOnlyBehindFullListRegs, QueueBehind

(* The handlers, one by one: what becomes of the controller.               *)
LEMMA HandlersType ==
  ASSUME TypeInv, HandleFault
  PROVE  /\ vgic' \in VGics /\ QueueBehind(vgic') /\ masked' \in SUBSET Physical
         /\ fault' \in {fault, NoFault} /\ guest' \in {guest, "stopped", "dead"}
         /\ vmm' \in {vmm, "halted"} /\ notified' = notified
<1> USE DEF Halt, Reply, ReplyTo, Ack, NoAck
<1>0. /\ vgic \in VGics /\ QueueBehind(vgic) /\ masked \in SUBSET Physical
      /\ fault.idx \in ListRegs /\ fault.irqs \in SUBSET Irqs /\ notified' = notified
  BY DEF TypeInv, VmmTypeOK, QueueOnlyBehindFullListRegs, QueueBehind, Faults, HandleFault
<1>1. CASE HandleMaintenance
  <2>1. CASE vgic' = Maintenance(vgic, fault.idx)
    BY <1>0, <1>1, <2>1, MaintenanceEffect, MaintenanceQueueBehind DEF HandleMaintenance
  <2>2. CASE vgic' = vgic
    BY <1>0, <1>1, <2>2 DEF HandleMaintenance
  <2> QED BY <1>1, <2>1, <2>2 DEF HandleMaintenance
<1>2. CASE HandleVppi
  <2>1. PICK i \in fault.irqs :
          IF Overflows(vgic, i)
          THEN Halt
          ELSE /\ vgic' = SetPending(vgic, i)
               /\ IF Injectable(vgic, i) THEN NoAck ELSE Ack({i})
               /\ Reply
    BY <1>2 DEF HandleVppi
  <2>2. SetPending(vgic, i) \in VGics /\ QueueBehind(SetPending(vgic, i))
    BY <1>0, SetPendingEffect
  <2> QED BY <1>0, <2>1, <2>2
<1>3. CASE HandleCtlr
  <2>1. vgic' = [vgic EXCEPT !.ctlr = (fault.op = "CTLR_on")]
    BY <1>3 DEF HandleCtlr, DistEnable
  <2>2. vgic' \in VGics /\ QueueBehind(vgic')
    BY <1>0, <2>1 DEF VGics, QueueBehind, FreeListRegs
  <2> QED BY <1>0, <1>3, <2>2 DEF HandleCtlr
<1>4. CASE HandleEnable
  <2>1. vgic' = [vgic EXCEPT !.enabled = @ \cup fault.irqs]
    BY <1>4 DEF HandleEnable, EnableIrqs
  <2>2. vgic' \in VGics /\ QueueBehind(vgic')
    BY <1>0, <2>1 DEF VGics, QueueBehind, FreeListRegs
  <2> QED BY <1>0, <1>4, <2>2 DEF HandleEnable
<1>5. CASE HandleDisable
  <2>1. vgic' = [vgic EXCEPT !.enabled = @ \ {i \in fault.irqs : i >= NUM_SGI_VIRQS}]
    BY <1>5 DEF HandleDisable, DisableIrqs
  <2>2. vgic' \in VGics /\ QueueBehind(vgic')
    BY <1>0, <2>1 DEF VGics, QueueBehind, FreeListRegs
  <2> QED BY <1>0, <1>5, <2>2 DEF HandleDisable
<1>6. CASE HandleClearPending
  <2>1. vgic' = [vgic EXCEPT !.pending = @ \ fault.irqs]
    BY <1>6 DEF HandleClearPending, ClearPending
  <2>2. vgic' \in VGics /\ QueueBehind(vgic')
    BY <1>0, <2>1 DEF VGics, QueueBehind, FreeListRegs
  <2> QED BY <1>0, <1>6, <2>2 DEF HandleClearPending
<1>7. CASE HandleSetPending
  <2>1. PICK i \in fault.irqs :
          Halt \/ (vgic' = SetPending(vgic, i) /\ NoAck /\ Reply)
    BY <1>7 DEF HandleSetPending
  <2>2. SetPending(vgic, i) \in VGics /\ QueueBehind(SetPending(vgic, i))
    BY <1>0, SetPendingEffect
  <2> QED BY <1>0, <2>1, <2>2
<1>8. CASE HandleReset
  <2>1. vgic.hw \in Slots
    BY <1>0 DEF VGics
  <2>2. vgic' \in VGics /\ QueueBehind(vgic')
    BY <1>8, <2>1, ResetEffect DEF HandleReset, Consistent
  <2> QED BY <1>0, <1>8, <2>2 DEF HandleReset
<1>9. CASE \/ HandleOtherWrite \/ HandleDistRead \/ HandleVmFault \/ HandleVcpuFault
           \/ HandleUnknownSyscall \/ HandleUserException \/ HandleUnknownLabel
  BY <1>0, <1>9 DEF HandleOtherWrite, HandleDistRead, HandleVmFault, HandleVcpuFault, HandlePsci,
     HandleUnknownSyscall, HandleUserException, HandleUnknownLabel, Call
<1> QED BY <1>1, <1>2, <1>3, <1>4, <1>5, <1>6, <1>7, <1>8, <1>9 DEF HandleFault

LEMMA TypeInvStep == TypeInv /\ [Next]_vars => TypeInv'
<1> SUFFICES ASSUME TypeInv, [Next]_vars PROVE TypeInv'
  OBVIOUS
<1> USE DEF TypeInv, VmmTypeOK, QueueOnlyBehindFullListRegs
<1>1. CASE UNCHANGED vars
  BY <1>1 DEF vars, FreeListRegs
<1>2. ASSUME NEW i \in Spis, DeviceIrq(i) PROVE TypeInv'
  <2>1. i \in Physical
    BY <1>2 DEF Spis
  <2> QED BY <1>2, <2>1 DEF DeviceIrq, FreeListRegs
<1>3. ASSUME NEW i \in Spis, Notified(i) PROVE TypeInv'
  <2>1. SetPending(vgic, i) \in VGics /\ QueueBehind(SetPending(vgic, i))
    BY SetPendingEffect DEF QueueBehind
  <2> QED BY <1>3, <2>1 DEF Notified, Halt, NoAck, QueueBehind
<1>4. ASSUME NEW i \in Ppis, VppiEvent(i) PROVE TypeInv'
  <2>1. i \in Physical /\ i \in Irqs
    BY <1>4, VGicAssumption DEF Ppis, Physical
  <2>2. Fault("VPPIEvent", {i}, 0) \in Faults
    BY <2>1, FaultType, ZeroIsListReg
  <2> QED BY <1>4, <2>1, <2>2 DEF VppiEvent, Raise, FreeListRegs
<1>5. ASSUME NEW k \in ListRegs, GuestEoi(k) PROVE TypeInv'
  <2>1. Fault("VGICMaintenance", {}, k) \in Faults
    BY FaultType
  <2>2. vgic' = [vgic EXCEPT !.hw = [@ EXCEPT ![k] = VIRQ_INVALID]]
    BY <1>5 DEF GuestEoi
  <2>3. vgic' \in VGics /\ vgic'.lr = vgic.lr /\ vgic'.queue = vgic.queue
    BY <2>2 DEF VGics, Slots
  <2> QED BY <1>5, <2>1, <2>3 DEF GuestEoi, Raise, FreeListRegs
<1>6. ASSUME NEW op \in DistWrites, NEW S \in SUBSET Irqs, GuestWrites(op, S) PROVE TypeInv'
  <2>1. Fault(op, S, 0) \in Faults
    BY FaultType, ZeroIsListReg
  <2> QED BY <1>6, <2>1 DEF GuestWrites, Raise, FreeListRegs
<1>7. ASSUME NEW op \in Calls, GuestCalls(op) PROVE TypeInv'
  <2>1. Fault(op, {}, 0) \in Faults
    BY FaultType, ZeroIsListReg
  <2> QED BY <1>7, <2>1 DEF GuestCalls, Raise, FreeListRegs
<1>8. CASE HandleFault
  BY <1>8, HandlersType, ZeroIsListReg DEF QueueBehind
<1> QED BY <1>1, <1>2, <1>3, <1>4, <1>5, <1>6, <1>7, <1>8 DEF Next

(* Whatever the guest does, every variable keeps its type.                 *)
THEOREM VmmTypeCorrect == Spec => []VmmTypeOK
<1>1. TypeInv => VmmTypeOK
  BY DEF TypeInv
<1> QED BY <1>1, TypeInvInit, TypeInvStep, PTL DEF Spec

(* Whatever the guest does, no interrupt waits in the overflow queue       *)
(* behind a free list register (vdist.h:217-225, vgic.c:47-62).            *)
THEOREM VmmQueuesBehindFullListRegs == Spec => []QueueOnlyBehindFullListRegs
<1>1. TypeInv => QueueOnlyBehindFullListRegs
  BY DEF TypeInv
<1> QED BY <1>1, TypeInvInit, TypeInvStep, PTL DEF Spec

-------------------------------------------------------------------------------
(* What the trusted guest adds. The faults it is blocked on are the ones   *)
(* its assumptions let it raise, and stay so until they are handled.       *)
AllTrusted ==
  {"distributor_first", "pending_flags_alone", "quiescent_reset", "own_interrupts"}

DistributorOn == vgic.ctlr \/ vgic.enabled \cap Physical = {}

TrustedFault ==
  /\ fault.op = "VPPIEvent" => \E i \in Ppis : fault.irqs = {i}
  /\ fault.op = "CTLR_off" => vgic.enabled \cap Physical = {}
  /\ fault.op = "ISENABLER" => vgic.ctlr \/ fault.irqs \cap Physical = {}
  /\ fault.op = "ICPENDR" => fault.irqs \cap (vgic.enabled \cup vgic.pending) = {}
  /\ fault.op = "SGIR" => vgic.ctlr /\ fault.irqs \subseteq Registered /\ fault.irqs \subseteq Sgis
  /\ fault.op = "ISPENDR" => \A i \in fault.irqs : i < NUM_VCPU_LOCAL_VIRQS \/ i \in Registered
  /\ fault.op = "PSCI_SYSTEM_RESET" =>
       vgic.enabled \cap Physical = {} /\ vgic.hw = EmptySlots
  /\ fault.op # "unimplemented"

IInv ==
  /\ TypeInv
  /\ HeldOnce
  /\ ShadowMatchesHardware
  /\ NoInterruptLost
  /\ AssertionsHold
  /\ DistributorOn
  /\ Sgis \subseteq vgic.enabled
  /\ TrustedFault

LEMMA SgisAreVirtual == Sgis \cap Physical = {} /\ Physical \subseteq Irqs
<1>1. ASSUME NEW i \in Sgis, i \in Physical PROVE FALSE
  <2>1. i \in Nat /\ i < 16 /\ i >= 16
    BY <1>1, VGicAssumption DEF Sgis, Physical, NUM_SGI_VIRQS
  <2> QED BY <2>1
<1> QED BY <1>1, VGicAssumption DEF Physical

LEMMA IInvInit == Init => IInv
<1> SUFFICES ASSUME Init PROVE IInv
  OBVIOUS
<1>1. EmptySlots \in Slots
  BY DEF EmptySlots, Slots
<1>2. /\ Consistent(vgic) /\ vgic.pending = {} /\ vgic.enabled = Sgis
      /\ vgic.lr = EmptySlots /\ vgic.hw = EmptySlots
  BY <1>1, ResetEffect DEF Init
<1>3. Sgis \cap Physical = {}
  BY SgisAreVirtual
<1>4. fault.op = "none" /\ masked = {} /\ vmm = "up"
  BY DEF Init, NoFault, Fault
<1>5. DistributorOn /\ TrustedFault /\ ShadowMatchesHardware /\ NoInterruptLost
  BY <1>2, <1>3, <1>4 DEF DistributorOn, TrustedFault, ShadowMatchesHardware, NoInterruptLost
<1> QED BY <1>2, <1>4, <1>5, TypeInvInit DEF IInv, Consistent, HeldOnce, AssertionsHold

(* The interrupts of a consistent controller, and what an injection leaves *)
(* of the trusted faults.                                                  *)
LEMMA IInvFacts ==
  ASSUME IInv
  PROVE  /\ vgic \in VGics /\ Consistent(vgic) /\ QueueBehind(vgic)
         /\ masked \in SUBSET Physical /\ notified \in SUBSET Spis
         /\ fault.idx \in ListRegs /\ fault.irqs \in SUBSET Irqs
BY DEF IInv, TypeInv, VmmTypeOK, QueueOnlyBehindFullListRegs, QueueBehind, Consistent,
       HeldOnce, Faults

(* No injection overflows the queue.                                       *)
LEMMA NeverOverflows ==
  ASSUME IInv, NEW i
  PROVE  ~Overflows(vgic, i)
<1>1. vgic \in VGics /\ HeldExactlyOnce(vgic)
  BY DEF IInv, TypeInv, VmmTypeOK, HeldOnce
<1>2. i \in Registered /\ i \notin vgic.pending => Len(vgic.queue) + 1 # QueueLen
  BY <1>1, RoomInQueue, LenProperties, VGicAssumption DEF VGics
<1> QED BY <1>2 DEF Overflows, Injectable, QueueFull

(* An injection keeps the controller consistent and the shadow true.       *)
LEMMA InjectionKeeps ==
  ASSUME IInv, NEW i
  PROVE  LET h == SetPending(vgic, i)
         IN  /\ HeldExactlyOnce(h)
             /\ \A k \in ListRegs :
                  \/ h.lr[k] = vgic.lr[k] /\ h.hw[k] = vgic.hw[k]
                  \/ /\ vgic.lr[k] = VIRQ_INVALID
                     /\ h.lr[k] = h.hw[k] /\ h.lr[k] # VIRQ_INVALID
             /\ h.ctlr = vgic.ctlr /\ h.enabled = vgic.enabled
             /\ h.pending = IF Injectable(vgic, i) THEN vgic.pending \cup {i} ELSE vgic.pending
             /\ ~Injectable(vgic, i) => h = vgic
<1>1. vgic \in VGics /\ QueueBehind(vgic) /\ Consistent(vgic)
  BY IInvFacts
<1>2. Consistent(SetPending(vgic, i))
  BY <1>1, SetPendingLastConsistent DEF SetPending, Injectable
<1> QED BY <1>1, <1>2, SetPendingEffect DEF Consistent

LEMMA NotifiedKeeps ==
  ASSUME IInv, NEW i \in Spis, Notified(i)
  PROVE  IInv'
<1> DEFINE h == SetPending(vgic, i)
<1>0. TypeInv'
  <2>1. [Next]_vars /\ TypeInv
    BY DEF Next, IInv
  <2> QED BY <2>1, TypeInvStep
<1>1. /\ vgic' = h /\ notified' = notified \ {i}
      /\ masked' = masked /\ fault' = fault /\ vmm' = vmm
  BY NeverOverflows DEF Notified, NoAck
<1>2. /\ HeldExactlyOnce(h) /\ h.ctlr = vgic.ctlr /\ h.enabled = vgic.enabled
      /\ h.pending = IF Injectable(vgic, i) THEN vgic.pending \cup {i} ELSE vgic.pending
      /\ ~Injectable(vgic, i) => h = vgic
      /\ \A k \in ListRegs :
           \/ h.lr[k] = vgic.lr[k] /\ h.hw[k] = vgic.hw[k]
           \/ /\ vgic.lr[k] = VIRQ_INVALID
              /\ h.lr[k] = h.hw[k] /\ h.lr[k] # VIRQ_INVALID
  BY InjectionKeeps
<1> HIDE DEF h
<1>3. i \in Physical
  BY DEF Spis
<1>4. Injectable(vgic, i) <=> i \in vgic.enabled
  BY <1>3 DEF IInv, DistributorOn, Injectable, Physical
<1>5. ShadowMatchesHardware'
  BY <1>1, <1>2, IInvFacts DEF IInv, ShadowMatchesHardware
<1>6. NoInterruptLost'
  BY <1>1, <1>2, <1>4 DEF IInv, NoInterruptLost, OnItsWay
<1>7. TrustedFault'
  <2>1. fault.op = "PSCI_SYSTEM_RESET" => h = vgic
    BY <1>2, <1>3, <1>4 DEF IInv, TrustedFault
  <2>2. fault.op = "ICPENDR" => fault.irqs \cap (h.enabled \cup h.pending) = {}
    BY <1>2, <1>4 DEF IInv, TrustedFault
  <2> QED BY <1>1, <1>2, <2>1, <2>2 DEF IInv, TrustedFault
<1> QED BY <1>0, <1>1, <1>2, <1>5, <1>6, <1>7
        DEF IInv, HeldOnce, AssertionsHold, DistributorOn

(* What devices and a trusted guest do.                                    *)
LEMMA EnvironmentKeeps ==
  ASSUME AllTrusted \subseteq Assumptions, IInv,
         \/ \E i \in Spis : DeviceIrq(i)
         \/ \E i \in Ppis : VppiEvent(i)
         \/ \E k \in ListRegs : GuestEoi(k)
         \/ \E op \in DistWrites, S \in SUBSET Irqs : GuestWrites(op, S)
         \/ \E op \in Calls : GuestCalls(op)
  PROVE  IInv'
<1>0. TypeInv'
  <2>1. [Next]_vars /\ TypeInv
    BY DEF Next, IInv
  <2> QED BY <2>1, TypeInvStep
<1> USE DEF IInv, HeldOnce, AssertionsHold
<1>1. ASSUME NEW i \in Spis, DeviceIrq(i) PROVE IInv'
  BY <1>0, <1>1 DEF DeviceIrq, ShadowMatchesHardware, NoInterruptLost, OnItsWay,
     DistributorOn, TrustedFault
<1>2. ASSUME NEW i \in Ppis, VppiEvent(i) PROVE IInv'
  <2>1. /\ vgic' = vgic /\ notified' = notified /\ vmm' = vmm /\ masked' = masked \cup {i}
        /\ fault.op = "none" /\ fault'.op = "VPPIEvent" /\ fault'.irqs = {i}
    BY <1>2 DEF VppiEvent, Raise, Runs, NoFault, Fault
  <2> QED BY <1>0, <2>1 DEF ShadowMatchesHardware, NoInterruptLost, OnItsWay, DistributorOn,
          TrustedFault
<1>3. ASSUME NEW k \in ListRegs, GuestEoi(k) PROVE IInv'
  <2>1. /\ notified' = notified /\ vmm' = vmm /\ masked' = masked /\ fault.op = "none"
        /\ fault'.op = "VGICMaintenance" /\ fault'.idx = k
        /\ vgic.hw[k] # VIRQ_INVALID
        /\ vgic' = [vgic EXCEPT !.hw = [@ EXCEPT ![k] = VIRQ_INVALID]]
    BY <1>3 DEF GuestEoi, Raise, Runs, NoFault, Fault
  <2>2. /\ vgic'.hw = [vgic.hw EXCEPT ![k] = VIRQ_INVALID]
        /\ vgic'.lr = vgic.lr /\ vgic'.queue = vgic.queue /\ vgic'.pending = vgic.pending
        /\ vgic'.enabled = vgic.enabled /\ vgic'.ctlr = vgic.ctlr
        /\ vgic.hw \in Slots
    BY <2>1, IInvFacts DEF VGics
  <2>3. HeldExactlyOnce(vgic')
    BY <2>2 DEF HeldExactlyOnce, Loaded, Queued
  <2>4. ShadowMatchesHardware'
    BY <2>1, <2>2 DEF ShadowMatchesHardware, Slots
  <2> QED BY <1>0, <2>1, <2>2, <2>3, <2>4 DEF NoInterruptLost, OnItsWay, DistributorOn,
          TrustedFault
<1>4. ASSUME NEW op \in DistWrites, NEW S \in SUBSET Irqs, GuestWrites(op, S) PROVE IInv'
  <2>1. /\ UNCHANGED <<vgic, masked, notified, vmm>> /\ fault.op = "none"
        /\ fault'.op = op /\ fault'.irqs = S
        /\ op # "VGICMaintenance" /\ op # "VPPIEvent" /\ op # "PSCI_SYSTEM_RESET"
    BY <1>4 DEF GuestWrites, Raise, Runs, NoFault, Fault, DistWrites
  <2>2. /\ op = "CTLR_off" => vgic.enabled \cap Physical = {}
        /\ op = "ISENABLER" => vgic.ctlr \/ S \cap Physical = {}
        /\ op = "ICPENDR" => S \cap (vgic.enabled \cup vgic.pending) = {}
        /\ op = "SGIR" => vgic.ctlr /\ S \subseteq Registered /\ S \subseteq Sgis
        /\ op = "ISPENDR" => \A i \in S : i < NUM_VCPU_LOCAL_VIRQS \/ i \in Registered
        /\ op # "unimplemented"
    BY <1>4 DEF GuestWrites, AllTrusted, DistributorFirst, PendingFlagsAlone, OwnInterrupts, Trusted
  <2>3. TrustedFault'
    BY <2>1, <2>2 DEF TrustedFault
  <2> QED BY <1>0, <2>1, <2>3 DEF ShadowMatchesHardware, NoInterruptLost, OnItsWay, DistributorOn
<1>5. ASSUME NEW op \in Calls, GuestCalls(op) PROVE IInv'
  <2>1. /\ UNCHANGED <<vgic, masked, notified, vmm>> /\ fault.op = "none"
        /\ fault'.op = op /\ fault'.irqs = {}
        /\ op \notin DistWrites \cup {"VGICMaintenance", "VPPIEvent"}
    BY <1>5 DEF GuestCalls, Raise, Runs, NoFault, Fault, Calls, DistWrites
  <2>2. op = "PSCI_SYSTEM_RESET" => vgic.enabled \cap Physical = {} /\ vgic.hw = EmptySlots
    BY <1>5 DEF GuestCalls, AllTrusted, QuiescentReset, Trusted
  <2>3. TrustedFault'
    BY <2>1, <2>2 DEF TrustedFault, DistWrites
  <2> QED BY <1>0, <2>1, <2>3 DEF ShadowMatchesHardware, NoInterruptLost, OnItsWay, DistributorOn
<1> QED BY <1>1, <1>2, <1>3, <1>4, <1>5

(* A fault that has been handled leaves nothing to keep about it.          *)
LEMMA AfterReply ==
  ASSUME IInv, TypeInv', fault' = NoFault, vmm' = vmm, notified' = notified,
         HeldExactlyOnce(vgic'),
         \A k \in ListRegs : vgic'.hw[k] = vgic'.lr[k],
         \A i \in masked' : i \in vgic'.pending \/ i \in notified \/ i \notin vgic'.enabled,
         vgic'.ctlr \/ vgic'.enabled \cap Physical = {},
         Sgis \subseteq vgic'.enabled
  PROVE  IInv'
BY DEF IInv, HeldOnce, AssertionsHold, ShadowMatchesHardware, NoInterruptLost, OnItsWay,
       DistributorOn, TrustedFault, NoFault, Fault

LEMMA HandleMaintenanceKeeps ==
  ASSUME IInv, TypeInv', HandleMaintenance, notified' = notified
  PROVE  IInv'
<1> DEFINE k == fault.idx
           h == Maintenance(vgic, k)
<1>1. /\ vgic \in VGics /\ Consistent(vgic) /\ k \in ListRegs /\ masked \in SUBSET Physical
      /\ vgic.lr \in Slots /\ vgic.hw \in Slots
  BY IInvFacts DEF VGics
<1>2. /\ vgic.lr[k] # VIRQ_INVALID
      /\ \A j \in ListRegs \ {k} : vgic.hw[j] = vgic.lr[j]
      /\ vgic.hw[k] = VIRQ_INVALID
  BY <1>1 DEF HandleMaintenance, IInv, ShadowMatchesHardware
<1>3. /\ vgic' = h /\ masked' = masked \ {vgic.lr[k]} /\ fault' = NoFault /\ vmm' = vmm
  BY <1>2 DEF HandleMaintenance, Ack, Reply
<1>4. HeldExactlyOnce(h)
  BY <1>1, <1>2, MaintenanceConsistent DEF Consistent
<1>5. /\ h.ctlr = vgic.ctlr /\ h.enabled = vgic.enabled
      /\ h.pending = vgic.pending \ {vgic.lr[k]}
  BY <1>1, MaintenanceEffect
<1>6. \A j \in ListRegs : h.hw[j] = h.lr[j]
  <2>1. CASE vgic.queue = <<>>
    <3>1. h.lr = [vgic.lr EXCEPT ![k] = VIRQ_INVALID] /\ h.hw = vgic.hw
      BY <1>1, <2>1, MaintenanceEffect
    <3> HIDE DEF h, k
    <3> QED BY <1>1, <1>2, <3>1 DEF Slots
  <2>2. CASE vgic.queue # <<>>
    <3>1. /\ h.lr = [vgic.lr EXCEPT ![k] = Head(vgic.queue)]
          /\ h.hw = [vgic.hw EXCEPT ![k] = Head(vgic.queue)]
      BY <1>1, <2>2, MaintenanceEffect
    <3> HIDE DEF h, k
    <3> QED BY <1>1, <1>2, <3>1 DEF Slots
  <2> QED BY <2>1, <2>2
<1>7. fault.op # "VPPIEvent"
  BY DEF HandleMaintenance
<1> HIDE DEF h, k
<1>8. \A i \in masked' : i \in h.pending \/ i \in notified \/ i \notin h.enabled
  BY <1>3, <1>5, <1>7 DEF IInv, NoInterruptLost, OnItsWay
<1> QED BY <1>3, <1>4, <1>5, <1>6, <1>8, AfterReply DEF IInv, DistributorOn

LEMMA HandleVppiKeeps ==
  ASSUME IInv, TypeInv', HandleVppi, notified' = notified
  PROVE  IInv'
<1>1. PICK i \in Ppis : fault.irqs = {i}
  BY DEF HandleVppi, IInv, TrustedFault
<1> DEFINE h == SetPending(vgic, i)
<1>2. /\ vgic' = h /\ fault' = NoFault /\ vmm' = vmm
      /\ masked' = IF Injectable(vgic, i) THEN masked ELSE masked \ {i}
  BY <1>1, NeverOverflows DEF HandleVppi, NoAck, Ack, Reply
<1>3. /\ HeldExactlyOnce(h) /\ h.ctlr = vgic.ctlr /\ h.enabled = vgic.enabled
      /\ h.pending = IF Injectable(vgic, i) THEN vgic.pending \cup {i} ELSE vgic.pending
      /\ \A k \in ListRegs :
           \/ h.lr[k] = vgic.lr[k] /\ h.hw[k] = vgic.hw[k]
           \/ h.lr[k] = h.hw[k]
  BY InjectionKeeps
<1> HIDE DEF h
<1>4. \A k \in ListRegs : h.hw[k] = h.lr[k]
  BY <1>3 DEF HandleVppi, IInv, ShadowMatchesHardware
<1>5. \A j \in masked' : j \in h.pending \/ j \in notified \/ j \notin h.enabled
  BY <1>1, <1>2, <1>3 DEF IInv, NoInterruptLost, OnItsWay
<1> QED BY <1>2, <1>3, <1>4, <1>5, AfterReply DEF IInv, DistributorOn

LEMMA HandleSetPendingKeeps ==
  ASSUME IInv, TypeInv', HandleSetPending, notified' = notified
  PROVE  IInv'
<1>1. PICK i \in fault.irqs :
        IF \/ Overflows(vgic, i)
           \/ i >= NUM_VCPU_LOCAL_VIRQS /\ i \notin Registered
           \/ fault.op = "SGIR" /\ ~Injectable(vgic, i)
        THEN Halt
        ELSE vgic' = SetPending(vgic, i) /\ NoAck /\ Reply
  BY DEF HandleSetPending
<1> DEFINE h == SetPending(vgic, i)
<1>2. ~(i >= NUM_VCPU_LOCAL_VIRQS /\ i \notin Registered)
  <2>1. i \in Nat
    BY IInvFacts, VGicAssumption
  <2>2. i < NUM_VCPU_LOCAL_VIRQS \/ i \in Registered
    BY DEF HandleSetPending, IInv, TrustedFault
  <2> QED BY <2>1, <2>2 DEF NUM_VCPU_LOCAL_VIRQS
<1>3. fault.op = "SGIR" => Injectable(vgic, i)
  BY DEF IInv, TrustedFault, Injectable
<1>4. /\ vgic' = h /\ fault' = NoFault /\ vmm' = vmm /\ masked' = masked
  BY <1>1, <1>2, <1>3, NeverOverflows DEF NoAck, Reply
<1>5. /\ HeldExactlyOnce(h) /\ h.ctlr = vgic.ctlr /\ h.enabled = vgic.enabled
      /\ h.pending = IF Injectable(vgic, i) THEN vgic.pending \cup {i} ELSE vgic.pending
      /\ \A k \in ListRegs :
           \/ h.lr[k] = vgic.lr[k] /\ h.hw[k] = vgic.hw[k]
           \/ h.lr[k] = h.hw[k]
  BY InjectionKeeps
<1> HIDE DEF h
<1>6. \A k \in ListRegs : h.hw[k] = h.lr[k]
  BY <1>5 DEF HandleSetPending, IInv, ShadowMatchesHardware
<1>7. \A j \in masked' : j \in h.pending \/ j \in notified \/ j \notin h.enabled
  BY <1>4, <1>5 DEF HandleSetPending, IInv, NoInterruptLost, OnItsWay
<1> QED BY <1>4, <1>5, <1>6, <1>7, AfterReply DEF IInv, DistributorOn

(* The writes that set or clear bits.                                      *)
LEMMA RegisterWritesKeep ==
  ASSUME IInv, TypeInv', notified' = notified,
         HandleCtlr \/ HandleEnable \/ HandleDisable \/ HandleClearPending
  PROVE  IInv'
<1>1. /\ vgic'.lr = vgic.lr /\ vgic'.hw = vgic.hw /\ vgic'.queue = vgic.queue
      /\ vgic'.ctlr = IF HandleCtlr THEN fault.op = "CTLR_on" ELSE vgic.ctlr
      /\ vgic'.enabled = IF HandleEnable THEN vgic.enabled \cup fault.irqs
                         ELSE IF HandleDisable
                              THEN vgic.enabled \ {i \in fault.irqs : i >= NUM_SGI_VIRQS}
                              ELSE vgic.enabled
      /\ vgic'.pending = IF HandleClearPending THEN vgic.pending \ fault.irqs ELSE vgic.pending
  BY IInvFacts DEF HandleCtlr, HandleEnable, HandleDisable, HandleClearPending, DistEnable,
     EnableIrqs, DisableIrqs, ClearPending, VGics
<1>2. /\ fault' = NoFault /\ vmm' = vmm
      /\ masked' = IF HandleEnable THEN masked \ AckedByEnable(vgic, fault.irqs) ELSE masked
      /\ fault.op \in {"CTLR_on", "CTLR_off", "ISENABLER", "ICENABLER", "ICPENDR"}
  BY DEF HandleCtlr, HandleEnable, HandleDisable, HandleClearPending, Reply, Ack, NoAck
<1>3. vgic'.pending = vgic.pending
  BY <1>1 DEF HandleClearPending, IInv, TrustedFault
<1>4. HeldExactlyOnce(vgic')
  <2>1. vgic'.lr = vgic.lr /\ vgic'.queue = vgic.queue
    BY <1>1
  <2>2. Loaded(vgic') = Loaded(vgic) /\ Queued(vgic') = Queued(vgic)
    BY <2>1 DEF Loaded, Queued
  <2>3. HeldExactlyOnce(vgic)
    BY DEF IInv, HeldOnce
  <2> QED BY <1>3, <2>1, <2>2, <2>3 DEF HeldExactlyOnce
<1>5. \A k \in ListRegs : vgic'.hw[k] = vgic'.lr[k]
  BY <1>1, <1>2 DEF IInv, ShadowMatchesHardware
<1>6. \A i \in masked : i \in vgic.pending \/ i \in notified \/ i \notin vgic.enabled
  BY <1>2 DEF IInv, NoInterruptLost, OnItsWay
<1>7. \A i \in masked' : i \in vgic'.pending \/ i \in notified \/ i \notin vgic'.enabled
  <2>1. masked \subseteq Registered
    BY IInvFacts DEF Physical
  <2> QED BY <1>1, <1>2, <1>3, <1>6, <2>1 DEF AckedByEnable
<1>8. vgic'.ctlr \/ vgic'.enabled \cap Physical = {}
  <2>1. HandleCtlr => fault.op \in {"CTLR_on", "CTLR_off"}
    BY DEF HandleCtlr
  <2>2. HandleEnable => fault.op = "ISENABLER"
    BY DEF HandleEnable
  <2> QED BY <1>1, <2>1, <2>2 DEF IInv, DistributorOn, TrustedFault
<1>9. Sgis \subseteq vgic'.enabled
  <2>1. \A i \in Sgis : ~(i >= NUM_SGI_VIRQS)
    BY VGicAssumption DEF Sgis, NUM_SGI_VIRQS
  <2> QED BY <1>1, <2>1 DEF IInv
<1> QED BY <1>2, <1>4, <1>5, <1>7, <1>8, <1>9, AfterReply

(* A quiescent guest has nothing held, so a reset forgets nothing.         *)
LEMMA NothingHeldAtReset ==
  ASSUME IInv, fault.op = "PSCI_SYSTEM_RESET"
  PROVE  vgic.hw = EmptySlots /\ vgic.pending = {} /\ vgic.enabled \cap Physical = {}
<1>1. vgic.hw = EmptySlots /\ vgic.enabled \cap Physical = {}
  BY DEF IInv, TrustedFault
<1>2. \A k \in ListRegs : vgic.lr[k] = VIRQ_INVALID
  BY <1>1 DEF IInv, ShadowMatchesHardware, EmptySlots
<1>3. 0 \in FreeListRegs(vgic)
  BY <1>2, ZeroIsListReg DEF FreeListRegs
<1>4. vgic.queue = <<>>
  BY <1>3, IInvFacts DEF QueueBehind
<1>5. Loaded(vgic) = {} /\ Queued(vgic) = {}
  BY <1>2, <1>4 DEF Loaded, Queued
<1> QED BY <1>1, <1>5 DEF IInv, HeldOnce, HeldExactlyOnce

LEMMA HandleResetKeeps ==
  ASSUME IInv, TypeInv', HandleReset, notified' = notified
  PROVE  IInv'
<1>1. /\ vgic' = VGicReset(vgic.hw) /\ fault' = NoFault /\ vmm' = vmm /\ masked' = masked
      /\ vgic.hw = EmptySlots /\ vgic.hw \in Slots
  BY NothingHeldAtReset, IInvFacts DEF HandleReset, NoAck, Reply, VGics
<1>2. /\ HeldExactlyOnce(vgic') /\ vgic'.enabled = Sgis
      /\ vgic'.lr = EmptySlots /\ vgic'.hw = EmptySlots
  BY <1>1, ResetEffect DEF Consistent
<1>3. \A i \in masked' : i \notin vgic'.enabled
  BY <1>1, <1>2, SgisAreVirtual, IInvFacts
<1> QED BY <1>1, <1>2, <1>3, SgisAreVirtual, AfterReply

LEMMA CallsKeep ==
  ASSUME IInv, TypeInv', notified' = notified,
         \/ HandleOtherWrite \/ HandleDistRead \/ HandleVmFault \/ HandleVcpuFault
         \/ HandleUnknownSyscall \/ HandleUserException \/ HandleUnknownLabel
  PROVE  IInv'
<1>1. /\ UNCHANGED <<vgic, masked, vmm>> /\ fault' = NoFault
      /\ fault.op # "VPPIEvent" /\ fault.op # "VGICMaintenance"
  BY DEF IInv, TrustedFault, HandleOtherWrite, HandleDistRead, HandleVmFault, HandleVcpuFault,
     HandlePsci, HandleUnknownSyscall, HandleUserException, HandleUnknownLabel, Call,
     Reply, ReplyTo, NoAck
<1>2. \A k \in ListRegs : vgic.hw[k] = vgic.lr[k]
  BY <1>1 DEF IInv, ShadowMatchesHardware
<1>3. \A i \in masked : i \in vgic.pending \/ i \in notified \/ i \notin vgic.enabled
  BY <1>1 DEF IInv, NoInterruptLost, OnItsWay
<1> QED BY <1>1, <1>2, <1>3, AfterReply DEF IInv, HeldOnce, DistributorOn

LEMMA IInvStep ==
  ASSUME AllTrusted \subseteq Assumptions, IInv, [Next]_vars
  PROVE  IInv'
<1>0. TypeInv'
  BY TypeInvStep DEF IInv
<1>1. CASE UNCHANGED vars
  BY <1>0, <1>1 DEF vars, IInv, HeldOnce, ShadowMatchesHardware, NoInterruptLost, OnItsWay,
     AssertionsHold, DistributorOn, TrustedFault
<1>2. CASE \E i \in Spis : Notified(i)
  BY <1>2, NotifiedKeeps
<1>3. CASE HandleFault
  <2>1. notified' = notified
    BY <1>3 DEF HandleFault
  <2> QED BY <1>0, <1>3, <2>1, HandleMaintenanceKeeps, HandleVppiKeeps, HandleSetPendingKeeps,
          RegisterWritesKeep, HandleResetKeeps, CallsKeep DEF HandleFault
<1>4. CASE \/ \E i \in Spis : DeviceIrq(i)
           \/ \E i \in Ppis : VppiEvent(i)
           \/ \E k \in ListRegs : GuestEoi(k)
           \/ \E op \in DistWrites, S \in SUBSET Irqs : GuestWrites(op, S)
           \/ \E op \in Calls : GuestCalls(op)
  BY <1>4, EnvironmentKeeps
<1> QED BY <1>1, <1>2, <1>3, <1>4 DEF Next

(* What a guest that keeps the four assumptions guarantees together.       *)
LEMMA TrustedInvariant ==
  ASSUME AllTrusted \subseteq Assumptions
  PROVE  Spec => []IInv
<1>1. IInv /\ [Next]_vars => IInv'
  BY IInvStep
<1> QED BY <1>1, IInvInit, PTL DEF Spec

(* With such a guest the controller holds each pending interrupt once, in a *)
(* list register or in the queue, and no other (virq.h:160-215).           *)
THEOREM VmmHoldsOnce ==
  ASSUME AllTrusted \subseteq Assumptions
  PROVE  Spec => []HeldOnce
<1>1. IInv => HeldOnce
  BY DEF IInv
<1> QED BY <1>1, TrustedInvariant, PTL

(* With such a guest the monitor's shadow of the list registers is what    *)
(* the hardware holds, maintenance outstanding apart (virq.h:78).          *)
THEOREM VmmShadowIsTrue ==
  ASSUME AllTrusted \subseteq Assumptions
  PROVE  Spec => []ShadowMatchesHardware
<1>1. IInv => ShadowMatchesHardware
  BY DEF IInv
<1> QED BY <1>1, TrustedInvariant, PTL

(* With such a guest no device interrupt is lost behind its mask: one not  *)
(* acknowledged is on its way to the guest (vgic_v2.c:16-36).              *)
THEOREM VmmLosesNoInterrupt ==
  ASSUME AllTrusted \subseteq Assumptions
  PROVE  Spec => []NoInterruptLost
<1>1. IInv => NoInterruptLost
  BY DEF IInv
<1> QED BY <1>1, TrustedInvariant, PTL

(* With such a guest no assertion of the monitor fails (vgic.c:40,         *)
(* vdist.h:211, 585, 604, virq.h).                                         *)
THEOREM VmmAssertionsHold ==
  ASSUME AllTrusted \subseteq Assumptions
  PROVE  Spec => []AssertionsHold
<1>1. IInv => AssertionsHold
  BY DEF IInv
<1> QED BY <1>1, TrustedInvariant, PTL

-------------------------------------------------------------------------------
(* The refinement: each step of the monitor, its devices and its guest is  *)
(* a step of the lifecycle of device interrupts, or leaves it alone.       *)
LifecycleStep == [Lifecycle!Next]_(Lifecycle!vars)

LEMMA LifecycleStutters ==
  ASSUME masked' = masked,
         vgic'.enabled \cap Physical = vgic.enabled \cap Physical,
         vgic'.pending \cap Physical = vgic.pending \cap Physical
  PROVE  LifecycleStep
BY DEF LifecycleStep, Lifecycle!vars

(* An injection is the guest's only if the interrupt is a device's.        *)
LEMMA InjectionMaps ==
  ASSUME IInv, NEW i, vgic' = SetPending(vgic, i), masked' = masked
  PROVE  LifecycleStep
<1>1. /\ vgic'.enabled = vgic.enabled
      /\ vgic'.pending = IF Injectable(vgic, i) THEN vgic.pending \cup {i} ELSE vgic.pending
  BY InjectionKeeps
<1>2. CASE Injectable(vgic, i) /\ i \in Physical
  <2>1. Lifecycle!Injected(i)
    BY <1>1, <1>2 DEF Lifecycle!Injected, Injectable
  <2> QED BY <1>2, <2>1 DEF LifecycleStep, Lifecycle!Next
<1>3. CASE ~(Injectable(vgic, i) /\ i \in Physical)
  <2>1. vgic'.pending \cap Physical = vgic.pending \cap Physical
    BY <1>1, <1>3
  <2> QED BY <1>1, <2>1, LifecycleStutters
<1> QED BY <1>2, <1>3

LEMMA MaintenanceMaps ==
  ASSUME IInv, HandleMaintenance
  PROVE  LifecycleStep
<1> DEFINE k == fault.idx
           i == vgic.lr[k]
<1>1. vgic \in VGics /\ k \in ListRegs /\ masked \in SUBSET Physical /\ Consistent(vgic)
  BY IInvFacts
<1>2. i # VIRQ_INVALID
  BY <1>1 DEF HandleMaintenance, IInv, ShadowMatchesHardware
<1>3. vgic' = Maintenance(vgic, k) /\ masked' = masked \ {i}
  BY <1>2 DEF HandleMaintenance, Ack
<1>4. vgic'.enabled = vgic.enabled /\ vgic'.pending = vgic.pending \ {i}
  BY <1>1, <1>3, MaintenanceEffect
<1>5. i \in vgic.pending
  BY <1>1, <1>2 DEF Consistent, HeldExactlyOnce, Loaded
<1> HIDE DEF i, k
<1>6. CASE i \in Physical
  <2>1. Lifecycle!Acknowledged(i)
    BY <1>3, <1>4, <1>5, <1>6 DEF Lifecycle!Acknowledged
  <2> QED BY <1>6, <2>1 DEF LifecycleStep, Lifecycle!Next
<1>7. CASE i \notin Physical
  <2>1. masked' = masked
    BY <1>1, <1>3, <1>7
  <2>2. vgic'.pending \cap Physical = vgic.pending \cap Physical
    BY <1>4, <1>7
  <2> QED BY <1>4, <2>1, <2>2, LifecycleStutters
<1> QED BY <1>6, <1>7

LEMMA VppiMaps ==
  ASSUME IInv, HandleVppi
  PROVE  LifecycleStep
<1>1. PICK i \in Ppis : fault.irqs = {i}
  BY DEF HandleVppi, IInv, TrustedFault
<1>2. /\ vgic' = SetPending(vgic, i)
      /\ masked' = IF Injectable(vgic, i) THEN masked ELSE masked \ {i}
  BY <1>1, NeverOverflows DEF HandleVppi, NoAck, Ack
<1>3. CASE Injectable(vgic, i)
  BY <1>2, <1>3, InjectionMaps
<1>4. CASE ~Injectable(vgic, i)
  <2>1. vgic' = vgic
    BY <1>2, <1>4, InjectionKeeps
  <2>2. i \in Physical /\ i \in Registered
    BY DEF Ppis, Physical
  <2>3. i \notin vgic.enabled
    BY <1>4, <2>2 DEF Injectable, IInv, DistributorOn
  <2>4. Lifecycle!Dropped(i)
    BY <1>2, <1>4, <2>1, <2>3 DEF Lifecycle!Dropped
  <2> QED BY <2>2, <2>4 DEF LifecycleStep, Lifecycle!Next
<1> QED BY <1>3, <1>4

LEMMA EnableMaps ==
  ASSUME IInv, HandleEnable
  PROVE  LifecycleStep
<1> DEFINE S == fault.irqs \cap Physical
<1>1. /\ vgic'.enabled = vgic.enabled \cup fault.irqs /\ vgic'.pending = vgic.pending
      /\ masked' = masked \ AckedByEnable(vgic, fault.irqs)
  BY IInvFacts DEF HandleEnable, EnableIrqs, Ack, VGics
<1>2. masked' = masked \ (S \ (vgic.pending \cap Physical))
  BY <1>1, IInvFacts DEF AckedByEnable, Physical
<1>3. Lifecycle!Enabled(S)
  BY <1>1, <1>2 DEF Lifecycle!Enabled
<1>4. S \in SUBSET Physical
  OBVIOUS
<1> QED BY <1>3, <1>4 DEF LifecycleStep, Lifecycle!Next

LEMMA DisableMaps ==
  ASSUME IInv, HandleDisable
  PROVE  LifecycleStep
<1> DEFINE S == fault.irqs \cap Physical
<1>1. /\ vgic'.enabled = vgic.enabled \ {i \in fault.irqs : i >= NUM_SGI_VIRQS}
      /\ vgic'.pending = vgic.pending /\ masked' = masked
  BY IInvFacts DEF HandleDisable, DisableIrqs, NoAck, VGics
<1>2. vgic'.enabled \cap Physical = (vgic.enabled \cap Physical) \ S
  BY <1>1 DEF Physical
<1>3. Lifecycle!Disabled(S)
  BY <1>1, <1>2 DEF Lifecycle!Disabled
<1>4. S \in SUBSET Physical
  OBVIOUS
<1> QED BY <1>3, <1>4 DEF LifecycleStep, Lifecycle!Next

LEMMA ResetMaps ==
  ASSUME IInv, HandleReset
  PROVE  LifecycleStep
<1>1. /\ vgic' = VGicReset(vgic.hw) /\ masked' = masked /\ vgic.hw \in Slots
      /\ vgic.pending = {} /\ vgic.hw = EmptySlots
  BY NothingHeldAtReset, IInvFacts DEF HandleReset, NoAck, VGics
<1>2. vgic'.enabled = Sgis /\ vgic'.pending = {}
  BY <1>1, ResetEffect
<1>3. Lifecycle!Restarted
  BY <1>1, <1>2, SgisAreVirtual DEF Lifecycle!Restarted
<1> QED BY <1>3 DEF LifecycleStep, Lifecycle!Next

LEMMA HandlersMap ==
  ASSUME IInv, HandleFault
  PROVE  LifecycleStep
<1>1. CASE HandleMaintenance
  BY <1>1, MaintenanceMaps
<1>2. CASE HandleVppi
  BY <1>2, VppiMaps
<1>3. CASE HandleCtlr
  <2>1. masked' = masked /\ vgic'.enabled = vgic.enabled /\ vgic'.pending = vgic.pending
    BY <1>3, IInvFacts DEF HandleCtlr, DistEnable, NoAck, VGics
  <2> QED BY <2>1, LifecycleStutters
<1>4. CASE HandleEnable
  BY <1>4, EnableMaps
<1>5. CASE HandleDisable
  BY <1>5, DisableMaps
<1>6. CASE HandleClearPending
  <2>1. masked' = masked /\ vgic'.enabled = vgic.enabled
        /\ vgic'.pending = vgic.pending \ fault.irqs
    BY <1>6, IInvFacts DEF HandleClearPending, ClearPending, NoAck, VGics
  <2>2. vgic'.pending = vgic.pending
    BY <1>6, <2>1 DEF HandleClearPending, IInv, TrustedFault
  <2> QED BY <2>1, <2>2, LifecycleStutters
<1>7. CASE HandleSetPending
  <2>1. PICK i \in fault.irqs : Halt \/ (vgic' = SetPending(vgic, i) /\ NoAck)
    BY <1>7 DEF HandleSetPending
  <2> QED BY <2>1, InjectionMaps, LifecycleStutters DEF Halt, NoAck
<1>8. CASE HandleReset
  BY <1>8, ResetMaps
<1>9. CASE \/ HandleOtherWrite \/ HandleDistRead \/ HandleVmFault \/ HandleVcpuFault
           \/ HandleUnknownSyscall \/ HandleUserException \/ HandleUnknownLabel
  <2>1. UNCHANGED <<vgic, masked>>
    BY <1>9 DEF HandleOtherWrite, HandleDistRead, HandleVmFault, HandleVcpuFault, HandlePsci,
       HandleUnknownSyscall, HandleUserException, HandleUnknownLabel, Call, NoAck
  <2> QED BY <2>1, LifecycleStutters
<1> QED BY <1>1, <1>2, <1>3, <1>4, <1>5, <1>6, <1>7, <1>8, <1>9 DEF HandleFault

LEMMA EnvironmentMaps ==
  ASSUME IInv,
         \/ \E i \in Spis : DeviceIrq(i)
         \/ \E i \in Ppis : VppiEvent(i)
         \/ \E k \in ListRegs : GuestEoi(k)
         \/ \E op \in DistWrites, S \in SUBSET Irqs : GuestWrites(op, S)
         \/ \E op \in Calls : GuestCalls(op)
  PROVE  LifecycleStep
<1>1. ASSUME NEW i \in Physical, vgic' = vgic, i \notin masked, masked' = masked \cup {i}
      PROVE  LifecycleStep
  <2>1. Lifecycle!Delivered(i)
    BY <1>1 DEF Lifecycle!Delivered
  <2> QED BY <2>1 DEF LifecycleStep, Lifecycle!Next
<1>2. Spis \subseteq Physical /\ Ppis \subseteq Physical
  BY DEF Spis, Ppis
<1>3. CASE (\E i \in Spis : DeviceIrq(i)) \/ (\E i \in Ppis : VppiEvent(i))
  BY <1>1, <1>2, <1>3 DEF DeviceIrq, VppiEvent
<1>4. CASE \E k \in ListRegs : GuestEoi(k)
  <2>1. masked' = masked /\ vgic'.enabled = vgic.enabled /\ vgic'.pending = vgic.pending
    BY <1>4, IInvFacts DEF GuestEoi, VGics
  <2> QED BY <2>1, LifecycleStutters
<1>5. CASE \/ \E op \in DistWrites, S \in SUBSET Irqs : GuestWrites(op, S)
           \/ \E op \in Calls : GuestCalls(op)
  <2>1. UNCHANGED <<vgic, masked>>
    BY <1>5 DEF GuestWrites, GuestCalls
  <2> QED BY <2>1, LifecycleStutters
<1> QED BY <1>3, <1>4, <1>5

LEMMA NextMaps == IInv /\ [Next]_vars => LifecycleStep
<1> SUFFICES ASSUME IInv, [Next]_vars PROVE LifecycleStep
  OBVIOUS
<1>1. CASE UNCHANGED vars
  BY <1>1, LifecycleStutters DEF vars
<1>2. ASSUME NEW i \in Spis, Notified(i) PROVE LifecycleStep
  <2>1. vgic' = SetPending(vgic, i) /\ masked' = masked
    BY <1>2, NeverOverflows DEF Notified, NoAck
  <2> QED BY <2>1, InjectionMaps
<1> QED BY <1>1, <1>2, HandlersMap, EnvironmentMaps DEF Next

(* With such a guest the monitor implements the lifecycle of vgic_v2.c     *)
(* (lines 16-36), for any number of list registers and interrupts.         *)
THEOREM VmmImplementsIrqLifecycle ==
  ASSUME AllTrusted \subseteq Assumptions
  PROVE  Spec => ImplementsIrqLifecycle
<1>1. Init => Lifecycle!Init
  <2> SUFFICES ASSUME Init PROVE Lifecycle!Init
    OBVIOUS
  <2>1. EmptySlots \in Slots
    BY DEF EmptySlots, Slots
  <2>2. vgic.pending = {} /\ vgic.enabled = Sgis /\ masked = {}
    BY <2>1, ResetEffect DEF Init
  <2> QED BY <2>2, SgisAreVirtual DEF Lifecycle!Init
<1>2. IInv /\ [Next]_vars => IInv'
  BY IInvStep
<1>3. IInv /\ [Next]_vars => [Lifecycle!Next]_(Lifecycle!vars)
  BY NextMaps DEF LifecycleStep
<1> QED BY <1>1, <1>2, <1>3, IInvInit, PTL DEF Spec, ImplementsIrqLifecycle, Lifecycle!Spec
===============================================================================
