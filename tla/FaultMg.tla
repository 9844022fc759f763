-------------------------------- MODULE FaultMg --------------------------------
(***************************************************************************)
(* The fault manager, the protection domain of src/domains/faultmg.c.      *)
(*                                                                         *)
(* It is told of faults by lightctl (a bare notification, the runtime      *)
(* guard rejected an action) and by commandin (a transport message in the  *)
(* shared input buffer), runs the fault-mode library on them and publishes *)
(* the outcome: field by field into the shared state, then the mode alone  *)
(* into its own page, then a notification to gpio and one to the scheduler.*)
(*                                                                         *)
(* commandin has a higher priority: its writes to the input buffer fall    *)
(* between any two steps of a handler, so the three loads that copy the    *)
(* message out (the build uses -mstrict-align) are steps of their own.     *)
(* The rest of a handler up to the publication works on private data and   *)
(* is one step.  commandin, lightctl and the two readers of the published  *)
(* state are the environment.                                              *)
(***************************************************************************)
EXTENDS Microkit, LightContract, Sequences

CONSTANTS
  Messages,      (* transport messages commandin may write                *)
  LightctlCodes, (* bytes microkit_mr_get(0) may yield after a signal     *)
  MaxErrors      (* no new fault is raised beyond this many: a bound      *)

ASSUME MessagesAssumption ==
  /\ Messages \subseteq Message
  /\ \A m \in Messages : CheckTransportMessage(m, m.type) = "OK"
ASSUME LightctlCodesAssumption == LightctlCodes \subseteq Byte
ASSUME MaxErrorsAssumption == MaxErrors \in Nat

VARIABLES
  fault_state,       (* g_fault_state                                      *)
  total_error_count,
  message,           (* the handler's copy of the input buffer             *)
  publish_at,        (* index in PublishSteps of the step due, 0 if none   *)
  shmem_fault,       (* the fault fields of light_shmem_t                  *)
  fault_mode_shared, (* the mode in its own page                           *)
  input_buffer,      (* the message slot commandin writes                  *)
  seen               (* the mode the scheduler and gpio last read          *)

vars == <<thread, fault_state, total_error_count, message, publish_at,
          shmem_fault, fault_mode_shared, input_buffer, seen>>

(* What publish_fault_state writes, by field of light_shmem_t.  The window *)
(* length it also writes is a constant.                                    *)
View ==
  [fault_mode                |-> fault_state.mode,
   fault_lifecycle           |-> fault_state.lifecycle,
   fault_recovery_ticks      |-> fault_state.recovery_ticks,
   fault_recovery_elapsed_ms |-> fault_state.recovery_elapsed_ms,
   active_fault_mask         |-> fault_state.active_fault_mask,
   last_fault_code           |-> fault_state.last_fault_code,
   total_fault_count         |-> total_error_count]

(* Mutants of publish_fault_state: the mask is stored before the mode it   *)
(* calls for; gpio is told before its page is written.                     *)
PublishStepsMaskFirst ==
  <<"active_fault_mask", "fault_lifecycle", "fault_recovery_ticks",
    "fault_recovery_elapsed_ms", "fault_mode", "last_fault_code",
    "total_fault_count", "fault_mode_shared", "notify_gpio", "notify_scheduler">>

PublishStepsEarlyNotify ==
  <<"fault_mode", "fault_lifecycle", "fault_recovery_ticks",
    "fault_recovery_elapsed_ms", "active_fault_mask", "last_fault_code",
    "total_fault_count", "notify_gpio", "fault_mode_shared", "notify_scheduler">>

(* publish_fault_state, in program order. *)
PublishSteps ==
  <<"fault_mode", "fault_lifecycle", "fault_recovery_ticks",
    "fault_recovery_elapsed_ms", "active_fault_mask", "last_fault_code",
    "total_fault_count", "fault_mode_shared", "notify_gpio", "notify_scheduler">>

FieldCount == 7

EmptyMessage == [type |-> "INVALID", len |-> 0, payload |-> 0]

(* init(): the state is reset and its publication begins.  The pages are   *)
(* zero, and the PDs of a higher priority wait already.                    *)
Init ==
  /\ fault_state = FaultStateReset
  /\ total_error_count = 0
  /\ message = EmptyMessage
  /\ publish_at = 1
  /\ shmem_fault = View
  /\ fault_mode_shared = NORMAL
  /\ input_buffer = EmptyMessage
  /\ seen = [scheduler |-> NORMAL, gpio |-> NORMAL]
  /\ thread = [p \in PDs |-> IF p = "faultmg" THEN [Blocked EXCEPT !.pc = "publish"]
                                              ELSE Blocked]

-------------------------------------------------------------------------------
(* Handlers. *)

EventLoop ==
  /\ Wait("faultmg")
  /\ UNCHANGED <<fault_state, total_error_count, message, publish_at,
                 shmem_fault, fault_mode_shared, input_buffer, seen>>

(* handle_fault_event, up to its call of publish_fault_state. *)
HandleFaultEvent(code) ==
  /\ total_error_count' = total_error_count + 1
  /\ fault_state' = RecordError(fault_state, code)
  /\ publish_at' = 1

(* notified() on the channel from lightctl: the code is whatever the first *)
(* message register holds, a signal does not set it.                       *)
NotifiedByLightctl(code) ==
  /\ Called("faultmg", FAULTMG_FROM_LIGHTCTL)
  /\ HandleFaultEvent(code)
  /\ thread' = Enter("faultmg", FAULTMG_FROM_LIGHTCTL, "publish")
  /\ UNCHANGED <<message, shmem_fault, fault_mode_shared, input_buffer, seen>>

(* notified() on the channel from commandin: the copy of the message.      *)
ReadType ==
  /\ Called("faultmg", FAULTMG_FROM_COMMANDIN)
  /\ message' = [EmptyMessage EXCEPT !.type = input_buffer.type]
  /\ thread' = Enter("faultmg", FAULTMG_FROM_COMMANDIN, "read_len")
  /\ UNCHANGED <<fault_state, total_error_count, publish_at, shmem_fault,
                 fault_mode_shared, input_buffer, seen>>

At(label) == Runs("faultmg") /\ thread["faultmg"].pc = label

ReadLen ==
  /\ At("read_len")
  /\ message' = [message EXCEPT !.len = input_buffer.len]
  /\ thread' = Goto("faultmg", "read_payload")
  /\ UNCHANGED <<fault_state, total_error_count, publish_at, shmem_fault,
                 fault_mode_shared, input_buffer, seen>>

ReadPayload ==
  /\ At("read_payload")
  /\ message' = [message EXCEPT !.payload = input_buffer.payload]
  /\ thread' = Goto("faultmg", "switch")
  /\ UNCHANGED <<fault_state, total_error_count, publish_at, shmem_fault,
                 fault_mode_shared, input_buffer, seen>>

Accepted(type) ==
  /\ At("switch")
  /\ CheckTransportMessage(message, type) = "OK"

InjectFault ==
  /\ Accepted("FAULT_INJECT")
  /\ HandleFaultEvent(message.payload)
  /\ thread' = Goto("faultmg", "publish")
  /\ UNCHANGED <<message, shmem_fault, fault_mode_shared, input_buffer, seen>>

(* handle_fault_clear: one command either clears the active faults or, in  *)
(* recovery, counts as the next observation of the window.                 *)
AfterClear(state) ==
  IF state.active_fault_mask = {} /\ state.lifecycle = "RECOVERING"
  THEN ObserveRecovery(state)
  ELSE ClearActive(state)

(* Mutant: an observation of the recovery window returns unpublished. *)
ClearFaultQuietly ==
  /\ Accepted("FAULT_CLEAR")
  /\ message.payload = FAULT_CLEAR_ALL
  /\ fault_state' = AfterClear(fault_state)
  /\ IF fault_state.lifecycle = "RECOVERING"
     THEN publish_at' = publish_at /\ thread' = Goto("faultmg", "ready")
     ELSE publish_at' = 1 /\ thread' = Goto("faultmg", "publish")
  /\ UNCHANGED <<total_error_count, message, shmem_fault, fault_mode_shared,
                 input_buffer, seen>>

ClearFault ==
  /\ Accepted("FAULT_CLEAR")
  /\ message.payload = FAULT_CLEAR_ALL
  /\ fault_state' = AfterClear(fault_state)
  /\ publish_at' = 1
  /\ thread' = Goto("faultmg", "publish")
  /\ UNCHANGED <<total_error_count, message, shmem_fault, fault_mode_shared,
                 input_buffer, seen>>

(* Another type, a failed contract check or an unknown clear scope: the    *)
(* message is logged and dropped, nothing is published.                    *)
Reject ==
  /\ At("switch")
  /\ CheckTransportMessage(message, "FAULT_INJECT") # "OK"
  /\ \/ CheckTransportMessage(message, "FAULT_CLEAR") # "OK"
     \/ message.payload # FAULT_CLEAR_ALL
  /\ thread' = Goto("faultmg", "ready")
  /\ UNCHANGED <<fault_state, total_error_count, message, publish_at,
                 shmem_fault, fault_mode_shared, input_buffer, seen>>
-------------------------------------------------------------------------------
(* publish_fault_state, one store or notification at a time. *)

PublishField ==
  /\ At("publish")
  /\ publish_at \in 1 .. FieldCount
  /\ shmem_fault' = [shmem_fault EXCEPT ![PublishSteps[publish_at]] =
                       View[PublishSteps[publish_at]]]
  /\ publish_at' = publish_at + 1
  /\ UNCHANGED <<thread, fault_state, total_error_count, message,
                 fault_mode_shared, input_buffer, seen>>

StoreFaultMode ==
  /\ At("publish")
  /\ PublishSteps[publish_at] = "fault_mode_shared"
  /\ fault_mode_shared' = TransportEncode(fault_state.mode)
  /\ publish_at' = publish_at + 1
  /\ UNCHANGED <<thread, fault_state, total_error_count, message, shmem_fault,
                 input_buffer, seen>>

(* Mutant: the signal is forgotten. *)
NotifyGpioForgotten ==
  /\ At("publish")
  /\ PublishSteps[publish_at] = "notify_gpio"
  /\ publish_at' = publish_at + 1
  /\ UNCHANGED <<thread, fault_state, total_error_count, message, shmem_fault,
                 fault_mode_shared, input_buffer, seen>>

NotifyGpio ==
  /\ At("publish")
  /\ PublishSteps[publish_at] = "notify_gpio"
  /\ thread' = Signal(thread, "gpio", GPIO_FROM_FAULTMG)
  /\ publish_at' = publish_at + 1
  /\ UNCHANGED <<fault_state, total_error_count, message, shmem_fault,
                 fault_mode_shared, input_buffer, seen>>

NotifyScheduler ==
  /\ At("publish")
  /\ PublishSteps[publish_at] = "notify_scheduler"
  /\ thread' = Signal(Goto("faultmg", "ready"), "scheduler", SCHEDULER_FROM_FAULTMG)
  /\ publish_at' = 0
  /\ UNCHANGED <<fault_state, total_error_count, message, shmem_fault,
                 fault_mode_shared, input_buffer, seen>>
-------------------------------------------------------------------------------
(* The environment. *)

(* commandin writes a message over the last one and, if its route is the   *)
(* fault manager, signals it (dispatch_transport_message).                 *)
RoutedHere(m) == m.type \in {"FAULT_INJECT", "FAULT_CLEAR"}

CommandinSends(m) ==
  /\ Runs("commandin")
  /\ total_error_count < MaxErrors \/ m.type = "FAULT_CLEAR"
  /\ input_buffer' = m
  /\ thread' = IF RoutedHere(m)
               THEN Signal(thread, "faultmg", FAULTMG_FROM_COMMANDIN)
               ELSE thread
  /\ UNCHANGED <<fault_state, total_error_count, message, publish_at,
                 shmem_fault, fault_mode_shared, seen>>

(* lightctl runs only while the fault manager waits. *)
LightctlReports ==
  /\ Runs("lightctl")
  /\ total_error_count < MaxErrors
  /\ thread' = Signal(thread, "faultmg", FAULTMG_FROM_LIGHTCTL)
  /\ UNCHANGED <<fault_state, total_error_count, message, publish_at,
                 shmem_fault, fault_mode_shared, input_buffer, seen>>

(* The scheduler reads the shared state, gpio the mode's own page; both    *)
(* run to completion when signalled, for nothing below them can preempt.   *)
ReaderRuns(p, mode) ==
  /\ Runs(p)
  /\ thread[p].pc = "ready"
  /\ seen' = [seen EXCEPT ![p] = mode]
  /\ thread' = [thread EXCEPT ![p] = Blocked]
  /\ UNCHANGED <<fault_state, total_error_count, message, publish_at,
                 shmem_fault, fault_mode_shared, input_buffer>>

SchedulerReads == ReaderRuns("scheduler", shmem_fault["fault_mode"])
GpioReads == ReaderRuns("gpio", TransportDecode(fault_mode_shared))

Publish == PublishField \/ StoreFaultMode \/ NotifyGpio \/ NotifyScheduler

Handler ==
  \/ EventLoop
  \/ \E code \in LightctlCodes : NotifiedByLightctl(code)
  \/ ReadType \/ ReadLen \/ ReadPayload
  \/ InjectFault \/ ClearFault \/ Reject
  \/ Publish

Readers == SchedulerReads \/ GpioReads

Next ==
  \/ Handler
  \/ Readers
  \/ \E m \in Messages : CommandinSends(m)
  \/ LightctlReports

(* A ready PD is run by the kernel once those above it wait: each PD is    *)
(* weakly fair.  Nothing is assumed of the operator or of lightctl.        *)
Fairness == WF_vars(Handler) /\ WF_vars(Readers)

Spec == Init /\ [][Next]_vars /\ Fairness
-------------------------------------------------------------------------------
(* Types. *)

PublishedView ==
  [fault_mode                : FaultModes,
   fault_lifecycle           : Lifecycles,
   fault_recovery_ticks      : 0 .. RECOVERY_WINDOW_TICKS - 1,
   fault_recovery_elapsed_ms : Nat,
   active_fault_mask         : SUBSET KnownCodes,
   last_fault_code           : Byte,
   total_fault_count         : Nat]

Labels == {"blocked", "ready", "read_len", "read_payload", "switch", "publish"}

(* The type invariant: every variable of the fault manager holds a value   *)
(* of its C type, the handler is at a label of its code and a publication  *)
(* step is due exactly while it is in publish_fault_state (faultmg.c:32).  *)
TypeOK ==
  /\ thread \in [PDs -> ThreadRecord(Labels)]
  /\ fault_state \in FaultState
  /\ total_error_count \in Nat
  /\ message \in Message
  /\ publish_at \in 0 .. Len(PublishSteps)
  /\ publish_at # 0 <=> thread["faultmg"].pc = "publish"
  /\ shmem_fault \in PublishedView
  /\ fault_mode_shared \in FaultModes
  /\ input_buffer \in Message
  /\ seen \in [{"scheduler", "gpio"} -> FaultModes]

-------------------------------------------------------------------------------
(* Safety. *)

(* The lifecycle tells the truth about the rest of the state               *)
(* (light_fault_mode.c:167-276): STABLE means NORMAL with nothing active,  *)
(* RECOVERING means nothing active but a mode still to step down from, and *)
(* the mask marks exactly the codes counted since the last clear.          *)
LifecycleConsistent == Consistent(fault_state)

(* No interleaving of faults, clears and recovery leaves the mode below    *)
(* what the faults recorded since the last clear call for                  *)
(* (REQ-FAULT-001..003, light_fault_mode.c:49-66).                         *)
SeverityCoversActiveFaults == SeverityCovered(fault_state)

(* Recovery progress exists only in recovery, agrees with its tick count,  *)
(* and the synthetic clock of observe_recovery (light_fault_mode.c:215)    *)
(* never leaves the first three windows, far below 2^32 ms.                *)
RecoveryWindowBounded == WindowBounded(fault_state)

(* The faults counted since the last clear are among those the published   *)
(* total counts, and the run of mode conflicts among the mode conflicts:   *)
(* none of these 32-bit counters wraps, lowering the severity, before      *)
(* 2^32 faults, and a run never outlives the conflicts a clear has         *)
(* forgotten (light_fault_mode.c:97-131, 192-213, faultmg.c:116).          *)
CountersWithinTotal ==
  LET active == fault_state.active_counters
  IN  /\ active.by_code[SPEED_LIMIT] + active.by_code[MODE_CONFLICT]
           + active.by_code[INVALID_CMD] + active.by_code[HW_STATE_ERR]
           <= total_error_count
      /\ active.consecutive <= active.by_code[MODE_CONFLICT]

(* No snapshot shows an active fault with mode NORMAL (REQ-FAULT-001),     *)
(* also when commandin's status query takes it half way through a          *)
(* publication and gets new fields and old ones: the mode is stored before *)
(* the mask when it rises, and falls only when a publication before has    *)
(* stored an empty mask (faultmg.c:32-42, commandin.c:461).                *)
SnapshotNeverUnderstates ==
  shmem_fault["active_fault_mask"] # {} => shmem_fault["fault_mode"] >= WARN

(* During a publication the fields already passed are current; outside one *)
(* all of them are, and the mode's own page too (faultmg.c:32-47): no      *)
(* early return of a handler forgets to publish what it changed.           *)
PublicationComplete ==
  /\ \A i \in 1 .. FieldCount :
       (publish_at = 0 \/ i < publish_at) =>
         shmem_fault[PublishSteps[i]] = View[PublishSteps[i]]
  /\ publish_at \notin 1 .. FieldCount + 1 => fault_mode_shared = fault_state.mode

(* Once the fault manager and its readers wait, scheduler and gpio act on  *)
(* its mode: no signal is sent before the value it announces and none is   *)
(* lost (faultmg.c:44-46, scheduler.c:68, gpio.c:178).                     *)
ReadersCurrent ==
  thread["faultmg"].pc = "blocked" =>
    \A p \in {"scheduler", "gpio"} :
      thread[p].pc = "blocked" => seen[p] = fault_state.mode

(* The part of ReadersCurrent that holds while a handler runs: a reader    *)
(* that has been signalled and has run holds the published mode            *)
(* (faultmg.c:45-46).                                                      *)
ReadersFollowPublication ==
  /\ (publish_at \notin 1 .. 9 /\ thread["gpio"].pc = "blocked") =>
       seen["gpio"] = fault_state.mode
  /\ (publish_at = 0 /\ thread["scheduler"].pc = "blocked") =>
       seen["scheduler"] = fault_state.mode

(* Without a new fault the mode falls only in recovery, by one level, and  *)
(* at the end of a window that had made progress: no clear, however it     *)
(* interleaves, skips a level (REQ-RECOVERY-001, light_fault_mode.c:233).  *)
RecoveryDropsOneLevel ==
  [][(fault_state'.mode < fault_state.mode /\ total_error_count' = total_error_count) =>
       /\ fault_state.lifecycle = "RECOVERING"
       /\ fault_state.recovery_ticks = RECOVERY_WINDOW_TICKS - 1
       /\ fault_state'.mode = fault_state.mode - 1]_vars

(* A fault during recovery interrupts it and does not lower the severity   *)
(* (REQ-RECOVERY-003, light_fault_mode.c:167-190).                         *)
FaultInterruptsRecovery ==
  [][(fault_state.lifecycle = "RECOVERING" /\ total_error_count' # total_error_count) =>
       /\ fault_state'.mode >= fault_state.mode
       /\ fault_state'.lifecycle = "ACTIVE"
       /\ fault_state'.recovery_elapsed_ms = 0]_vars

-------------------------------------------------------------------------------
(* Refinement. *)

Lifecycle == INSTANCE FaultLifecycle WITH
  mode      <- fault_state.mode,
  lifecycle <- fault_state.lifecycle,
  marked    <- fault_state.active_fault_mask # {},
  progress  <- fault_state.recovery_ticks

(* The fault manager, with its torn copies, lost and repeated messages,    *)
(* implements the documented fault lifecycle as FaultLifecycle states it   *)
(* (safety_case.md recovery rules, faultmg.c:111-200).                     *)
ImplementsLifecycle == Lifecycle!Spec

-------------------------------------------------------------------------------
(* Liveness. *)

(* Whatever commandin interleaves, a publication ends and both readers act *)
(* on the published mode (faultmg.c:32-47).                                *)
PublicationReachesReaders ==
  thread["faultmg"].pc = "publish" ~>
    /\ publish_at = 0
    /\ \A p \in {"scheduler", "gpio"} : seen[p] = fault_state.mode

(* ACTIVE comes with a marker a clear can remove.  A fault code the        *)
(* library does not know makes the lifecycle ACTIVE and sets none          *)
(* (light_fault_mode.c:175,181).                                           *)
ActiveIsMarked ==
  fault_state.lifecycle = "ACTIVE" => fault_state.active_fault_mask # {}

(* If clears go on being accepted, faults end and the last of them did not *)
(* leave the system ACTIVE without a marker for good, it returns to NORMAL *)
(* and STABLE and stays there (safety_case.md recovery rules 2-7,          *)
(* faultmg.c:150-200).                                                     *)
RecoveryCompletes ==
  ([]<><<ClearFault>>_vars /\ []<>ActiveIsMarked) =>
    <>[](fault_state.mode = NORMAL /\ fault_state.lifecycle = "STABLE")

-------------------------------------------------------------------------------
(* What the documents say and the code does not keep. *)

(* docs/safety_case.md:45,60-65: ACTIVE means that markers exist, a clear  *)
(* removes them and recovery follows until the mode is NORMAL.  An unknown *)
(* code recorded in recovery leaves ACTIVE, no marker and the mode that    *)
(* was held; clear_active and observe_recovery then both return at once,   *)
(* and no number of clears brings NORMAL back                              *)
(* (light_fault_mode.c:181-187,196,237).                                   *)
ClearsReachNormal ==
  []<><<ClearFault>>_vars => <>[](fault_state.mode = NORMAL)
===============================================================================
