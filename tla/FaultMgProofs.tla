----------------------------- MODULE FaultMgProofs -----------------------------
(***************************************************************************)
(* Theorems about the fault manager, for every set of messages, every set  *)
(* of codes lightctl's signal may carry and every bound on the errors.     *)
(***************************************************************************)
EXTENDS FaultMg, LightFaultModeProofs

(* The domains and channels of the fault manager, and the labels of the    *)
(* event loop.                                                             *)
LEMMA PDNames ==
  /\ "faultmg" \in PDs /\ "scheduler" \in PDs /\ "gpio" \in PDs /\ "commandin" \in PDs
  /\ FAULTMG_FROM_LIGHTCTL \in Channels /\ FAULTMG_FROM_COMMANDIN \in Channels
  /\ GPIO_FROM_FAULTMG \in Channels /\ SCHEDULER_FROM_FAULTMG \in Channels
  /\ "blocked" \in Labels /\ "ready" \in Labels
BY DEF PDs, Channels, FAULTMG_FROM_LIGHTCTL, FAULTMG_FROM_COMMANDIN,
       GPIO_FROM_FAULTMG, SCHEDULER_FROM_FAULTMG, Labels

(* The threads of code with these labels.                                  *)
Threads(labels) == [PDs -> ThreadRecord(labels)]

(* What a thread record of any code is: the facts below hold for every set *)
(* of labels with the two of the event loop.                               *)
LEMMA WokenThread ==
  ASSUME NEW labels, "ready" \in labels, NEW channels \in SUBSET Channels
  PROVE  /\ Woken(channels) \in ThreadRecord(labels)
         /\ Woken(channels).pc = "ready"
         /\ Woken(channels).todo = channels /\ Woken(channels).badge = {}
BY DEF Woken, ThreadRecord

LEMMA BlockedThread ==
  ASSUME NEW labels, "blocked" \in labels
  PROVE  /\ Blocked \in ThreadRecord(labels)
         /\ Blocked.pc = "blocked" /\ Blocked.todo = {} /\ Blocked.badge = {}
BY DEF Blocked, ThreadRecord

(* A signal touches the thread it is sent to alone: it wakes one that      *)
(* waits and is kept for one that does not.                                *)
LEMMA SignalledThread ==
  ASSUME NEW labels, "ready" \in labels, NEW r \in ThreadRecord(labels),
         NEW ch \in Channels
  PROVE  /\ Signalled(r, ch) \in ThreadRecord(labels)
         /\ r.pc = "blocked" => /\ Signalled(r, ch).pc = "ready"
                                /\ Signalled(r, ch).todo = {ch}
                                /\ Signalled(r, ch).badge = {}
         /\ r.pc # "blocked" => /\ Signalled(r, ch).pc = r.pc
                                /\ Signalled(r, ch).todo = r.todo
                                /\ Signalled(r, ch).badge = r.badge \cup {ch}
<1>1. CASE r.pc = "blocked"
  <2>1. Signalled(r, ch) = Woken({ch})
    BY <1>1 DEF Signalled
  <2> QED BY <1>1, <2>1, WokenThread
<1>2. CASE r.pc # "blocked"
  <2>1. Signalled(r, ch) = [r EXCEPT !.badge = r.badge \cup {ch}]
    BY <1>2 DEF Signalled
  <2>2. [r EXCEPT !.badge = r.badge \cup {ch}] \in ThreadRecord(labels)
    BY DEF ThreadRecord
  <2>3. /\ [r EXCEPT !.badge = r.badge \cup {ch}].pc = r.pc
        /\ [r EXCEPT !.badge = r.badge \cup {ch}].todo = r.todo
        /\ [r EXCEPT !.badge = r.badge \cup {ch}].badge = r.badge \cup {ch}
    BY DEF ThreadRecord
  <2> QED BY <1>2, <2>1, <2>2, <2>3
<1> QED BY <1>1, <1>2

LEMMA SignalThread ==
  ASSUME NEW labels, "ready" \in labels, NEW threads \in Threads(labels),
         NEW p \in PDs, NEW ch \in Channels
  PROVE  /\ Signal(threads, p, ch) \in Threads(labels)
         /\ \A q \in PDs : q # p => Signal(threads, p, ch)[q] = threads[q]
         /\ Signal(threads, p, ch)[p] = Signalled(threads[p], ch)
         /\ Signal(threads, p, ch)[p].pc # "blocked"
         /\ threads[p].pc = "blocked" => Signal(threads, p, ch)[p].pc = "ready"
         /\ threads[p].pc # "blocked" => Signal(threads, p, ch)[p].pc = threads[p].pc
<1> DEFINE woken == Signalled(threads[p], ch)
<1>1. threads[p] \in ThreadRecord(labels)
  BY DEF Threads
<1>2. /\ woken \in ThreadRecord(labels)
      /\ threads[p].pc = "blocked" => woken.pc = "ready"
      /\ threads[p].pc # "blocked" => woken.pc = threads[p].pc
  BY <1>1, SignalledThread
<1>3. Signal(threads, p, ch) = [threads EXCEPT ![p] = woken]
  BY DEF Signal
<1> HIDE DEF woken
<1> QED BY <1>2, <1>3 DEF Threads, woken

(* The two ways a handler moves on.                                        *)
LEMMA GotoThread ==
  ASSUME NEW labels, NEW p \in PDs, NEW label \in labels, thread \in Threads(labels)
  PROVE  /\ Goto(p, label) \in Threads(labels)
         /\ \A q \in PDs : q # p => Goto(p, label)[q] = thread[q]
         /\ Goto(p, label)[p].pc = label
         /\ Goto(p, label)[p].todo = thread[p].todo
         /\ Goto(p, label)[p].badge = thread[p].badge
<1> DEFINE after == [thread[p] EXCEPT !.pc = label]
<1>1. thread[p] \in ThreadRecord(labels)
  BY DEF Threads
<1>2. /\ after \in ThreadRecord(labels) /\ after.pc = label
      /\ after.todo = thread[p].todo /\ after.badge = thread[p].badge
  BY <1>1 DEF ThreadRecord
<1>3. Goto(p, label) = [thread EXCEPT ![p] = after]
  BY DEF Goto
<1> HIDE DEF after
<1> QED BY <1>2, <1>3 DEF Threads

LEMMA EnterThread ==
  ASSUME NEW labels, NEW p \in PDs, NEW label \in labels, NEW ch, thread \in Threads(labels)
  PROVE  /\ Enter(p, ch, label) \in Threads(labels)
         /\ \A q \in PDs : q # p => Enter(p, ch, label)[q] = thread[q]
         /\ Enter(p, ch, label)[p].pc = label
         /\ Enter(p, ch, label)[p].badge = thread[p].badge
         /\ \A c : c \in Enter(p, ch, label)[p].todo <=> c \in thread[p].todo /\ c # ch
<1> DEFINE after == [[thread[p] EXCEPT !.todo = @ \ {ch}] EXCEPT !.pc = label]
<1>1. thread[p] \in ThreadRecord(labels)
  BY DEF Threads
<1>2. /\ after \in ThreadRecord(labels) /\ after.pc = label
      /\ after.todo = thread[p].todo \ {ch} /\ after.badge = thread[p].badge
  BY <1>1 DEF ThreadRecord
<1>3. Enter(p, ch, label) = [thread EXCEPT ![p] = after]
  BY DEF Enter
<1> HIDE DEF after
<1> QED BY <1>2, <1>3 DEF Threads

LEMMA WaitThread ==
  ASSUME NEW labels, "blocked" \in labels, "ready" \in labels, NEW p \in PDs,
         thread \in Threads(labels), Wait(p)
  PROVE  /\ thread' \in Threads(labels)
         /\ \A q \in PDs : q # p => thread'[q] = thread[q]
         /\ thread'[p].pc \in {"blocked", "ready"}
         /\ thread'[p].pc = "blocked" <=> thread[p].badge = {}
         /\ thread'[p].todo = thread[p].badge
         /\ thread'[p].badge = {}
<1> DEFINE after == IF thread[p].badge = {} THEN Blocked ELSE Woken(thread[p].badge)
<1>1. thread[p].badge \in SUBSET Channels
  BY DEF Threads, ThreadRecord
<1>2. /\ after \in ThreadRecord(labels)
      /\ after.pc \in {"blocked", "ready"}
      /\ after.pc = "blocked" <=> thread[p].badge = {}
      /\ after.todo = thread[p].badge /\ after.badge = {}
  BY <1>1, WokenThread, BlockedThread
<1>3. thread' = [thread EXCEPT ![p] = after]
  BY DEF Wait
<1> HIDE DEF after
<1> QED BY <1>2, <1>3 DEF Threads
-------------------------------------------------------------------------------
(* How a step of the system may change the fault state, whatever the       *)
(* interleaving: not at all, by recording one error, or by one clear.      *)
FaultStateStep ==
  \/ UNCHANGED <<fault_state, total_error_count>>
  \/ /\ \E code \in Byte : fault_state' = RecordError(fault_state, code)
     /\ total_error_count' = total_error_count + 1
  \/ /\ fault_state' = AfterClear(fault_state)
     /\ UNCHANGED total_error_count

LEMMA HandlerFaultState ==
  ASSUME message \in Message, Handler
  PROVE  FaultStateStep
<1>1. CASE EventLoop
  BY <1>1 DEF EventLoop, FaultStateStep
<1>2. ASSUME NEW code \in LightctlCodes, NotifiedByLightctl(code)
      PROVE  FaultStateStep
  BY <1>2, LightctlCodesAssumption DEF NotifiedByLightctl, HandleFaultEvent, FaultStateStep
<1>3. CASE ReadType \/ ReadLen \/ ReadPayload \/ Reject
  BY <1>3 DEF ReadType, ReadLen, ReadPayload, Reject, FaultStateStep
<1>4. CASE InjectFault
  <2>1. message.payload \in Byte
    BY DEF Message
  <2> QED BY <1>4, <2>1 DEF InjectFault, HandleFaultEvent, FaultStateStep
<1>5. CASE ClearFault
  BY <1>5 DEF ClearFault, FaultStateStep
<1>6. CASE Publish
  BY <1>6 DEF Publish, PublishField, StoreFaultMode, NotifyGpio, NotifyScheduler,
              FaultStateStep
<1> QED BY <1>1, <1>2, <1>3, <1>4, <1>5, <1>6 DEF Handler

LEMMA FaultStateSteps ==
  ASSUME message \in Message, [Next]_vars
  PROVE  FaultStateStep
<1>1. CASE Handler
  BY <1>1, HandlerFaultState
<1>2. CASE Readers
  BY <1>2 DEF Readers, SchedulerReads, GpioReads, ReaderRuns, FaultStateStep
<1>3. ASSUME NEW m \in Messages, CommandinSends(m)
      PROVE  FaultStateStep
  BY <1>3 DEF CommandinSends, FaultStateStep
<1>4. CASE LightctlReports
  BY <1>4 DEF LightctlReports, FaultStateStep
<1>5. CASE UNCHANGED vars
  BY <1>5 DEF vars, FaultStateStep
<1> QED BY <1>1, <1>2, <1>3, <1>4, <1>5 DEF Next

(* One clear command on a well-formed state.                               *)
LEMMA AfterClearWellFormed ==
  ASSUME NEW state, WellFormed(state)
  PROVE  WellFormed(AfterClear(state))
BY ClearActiveWellFormed, ObserveRecoveryWellFormed DEF AfterClear

LEMMA WellFormedStep ==
  ASSUME WellFormed(fault_state), FaultStateStep
  PROVE  WellFormed(fault_state')
<1>1. CASE UNCHANGED <<fault_state, total_error_count>>
  BY <1>1
<1>2. ASSUME NEW code \in Byte, fault_state' = RecordError(fault_state, code)
      PROVE  WellFormed(fault_state')
  BY <1>2, RecordErrorWellFormed
<1>3. CASE fault_state' = AfterClear(fault_state)
  BY <1>3, AfterClearWellFormed
<1> QED BY <1>1, <1>2, <1>3 DEF FaultStateStep
-------------------------------------------------------------------------------
(* The publication in program order, and the fields it writes.             *)
FieldNames == {"fault_mode", "fault_lifecycle", "fault_recovery_ticks",
               "fault_recovery_elapsed_ms", "active_fault_mask",
               "last_fault_code", "total_fault_count"}

LEMMA ProgramOrder ==
  /\ Len(PublishSteps) = 10
  /\ PublishSteps[1] = "fault_mode" /\ PublishSteps[2] = "fault_lifecycle"
  /\ PublishSteps[3] = "fault_recovery_ticks"
  /\ PublishSteps[4] = "fault_recovery_elapsed_ms"
  /\ PublishSteps[5] = "active_fault_mask" /\ PublishSteps[6] = "last_fault_code"
  /\ PublishSteps[7] = "total_fault_count"
  /\ PublishSteps[8] = "fault_mode_shared"
  /\ PublishSteps[9] = "notify_gpio" /\ PublishSteps[10] = "notify_scheduler"
  /\ FieldCount = 7
BY DEF PublishSteps, FieldCount

(* The step due determines the index, and the other way round.             *)
LEMMA StepDue ==
  ASSUME NEW i \in 0 .. Len(PublishSteps), i # 0
  PROVE  /\ i \in 1 .. 10
         /\ i \in 1 .. FieldCount <=> PublishSteps[i] \in FieldNames
         /\ PublishSteps[i] = "fault_mode_shared" <=> i = 8
         /\ PublishSteps[i] = "notify_gpio" <=> i = 9
         /\ PublishSteps[i] = "notify_scheduler" <=> i = 10
<1>1. i \in 1 .. 10
  BY ProgramOrder
<1>2. i \in {1, 2, 3, 4, 5, 6, 7, 8, 9, 10}
  BY <1>1
<1> QED BY <1>1, <1>2, ProgramOrder DEF FieldNames

LEMMA ViewType ==
  ASSUME fault_state \in FaultState, total_error_count \in Nat
  PROVE  View \in PublishedView
BY DEF View, PublishedView, FaultState

LEMMA PublishFieldType ==
  ASSUME NEW page \in PublishedView, NEW view \in PublishedView, NEW f \in FieldNames
  PROVE  [page EXCEPT ![f] = view[f]] \in PublishedView
BY DEF FieldNames, PublishedView
-------------------------------------------------------------------------------
(* The fault manager's own control: its thread and the publication step.   *)
StepDueOK ==
  /\ publish_at \in 0 .. Len(PublishSteps)
  /\ publish_at # 0 <=> thread["faultmg"].pc = "publish"

ControlOK == thread \in Threads(Labels) /\ StepDueOK

DataOK ==
  /\ fault_state \in FaultState
  /\ total_error_count \in Nat
  /\ message \in Message
  /\ shmem_fault \in PublishedView
  /\ fault_mode_shared \in FaultModes
  /\ input_buffer \in Message
  /\ seen \in [{"scheduler", "gpio"} -> FaultModes]

LEMMA TypeParts == TypeOK <=> ControlOK /\ DataOK
BY DEF TypeOK, ControlOK, StepDueOK, DataOK, Threads

(* A signal to the fault manager leaves a handler where it is.             *)
LEMMA SignalledFaultmg ==
  ASSUME thread \in Threads(Labels), NEW ch \in Channels
  PROVE  LET after == Signal(thread, "faultmg", ch)
         IN  /\ after \in Threads(Labels)
             /\ thread["faultmg"].pc = "blocked" => after["faultmg"].pc = "ready"
             /\ thread["faultmg"].pc # "blocked" => after["faultmg"].pc = thread["faultmg"].pc
BY SignalThread, PDNames

LEMMA ControlStep ==
  ASSUME ControlOK, [Next]_vars
  PROVE  ControlOK'
<1> USE PDNames DEF ControlOK, StepDueOK
<1>1. CASE EventLoop
  <2>1. thread["faultmg"].pc = "ready" /\ Wait("faultmg")
    BY <1>1 DEF EventLoop, Wait
  <2>2. thread' \in Threads(Labels) /\ thread'["faultmg"].pc # "publish"
    BY <2>1, WaitThread
  <2> QED BY <1>1, <2>1, <2>2 DEF EventLoop
<1>2. ASSUME NEW code \in LightctlCodes, NotifiedByLightctl(code)
      PROVE  ControlOK'
  <2>1. /\ thread' = Enter("faultmg", FAULTMG_FROM_LIGHTCTL, "publish")
        /\ publish_at' = 1
    BY <1>2 DEF NotifiedByLightctl, HandleFaultEvent
  <2>2. thread' \in Threads(Labels) /\ thread'["faultmg"].pc = "publish"
    BY <2>1, EnterThread DEF Labels
  <2> QED BY <2>1, <2>2, ProgramOrder
<1>3. CASE ReadType
  <2>1. /\ thread' = Enter("faultmg", FAULTMG_FROM_COMMANDIN, "read_len")
        /\ publish_at' = publish_at
        /\ thread["faultmg"].pc = "ready"
    BY <1>3 DEF ReadType, Called
  <2>2. thread' \in Threads(Labels) /\ thread'["faultmg"].pc = "read_len"
    <3>1. "read_len" \in Labels
      BY DEF Labels
    <3>2. Enter("faultmg", FAULTMG_FROM_COMMANDIN, "read_len") \in Threads(Labels)
      BY <3>1, EnterThread
    <3>3. Enter("faultmg", FAULTMG_FROM_COMMANDIN, "read_len")["faultmg"].pc = "read_len"
      BY <3>1, EnterThread
    <3> QED BY <2>1, <3>2, <3>3
  <2> QED BY <2>1, <2>2
<1>4. ASSUME NEW label \in Labels \ {"publish"}, thread' = Goto("faultmg", label),
             thread["faultmg"].pc # "publish", UNCHANGED publish_at
      PROVE  ControlOK'
  <2>1. thread' \in Threads(Labels) /\ thread'["faultmg"].pc = label
    BY <1>4, GotoThread
  <2> QED BY <1>4, <2>1
<1>5. CASE ReadLen \/ ReadPayload \/ Reject
  <2>1. thread["faultmg"].pc # "publish" /\ UNCHANGED publish_at
    BY <1>5 DEF ReadLen, ReadPayload, Reject, At
  <2>2. \E label \in Labels \ {"publish"} : thread' = Goto("faultmg", label)
    BY <1>5 DEF ReadLen, ReadPayload, Reject, Labels
  <2> QED BY <1>4, <2>1, <2>2
<1>6. CASE InjectFault \/ ClearFault
  <2>1. thread' = Goto("faultmg", "publish") /\ publish_at' = 1
    BY <1>6 DEF InjectFault, ClearFault, HandleFaultEvent
  <2>2. thread' \in Threads(Labels) /\ thread'["faultmg"].pc = "publish"
    BY <2>1, GotoThread DEF Labels
  <2> QED BY <2>1, <2>2, ProgramOrder
<1>7. CASE PublishField \/ StoreFaultMode
  <2>1. /\ UNCHANGED thread
        /\ thread["faultmg"].pc = "publish"
        /\ publish_at' = publish_at + 1
    BY <1>7 DEF PublishField, StoreFaultMode, At
  <2>2. publish_at \in 1 .. 8
    BY <1>7, <2>1, StepDue, ProgramOrder DEF PublishField, StoreFaultMode
  <2> QED BY <2>1, <2>2, ProgramOrder
<1>8. CASE NotifyGpio
  <2>1. /\ thread' = Signal(thread, "gpio", GPIO_FROM_FAULTMG)
        /\ thread["faultmg"].pc = "publish"
        /\ publish_at = 9
        /\ publish_at' = 10
    BY <1>8, StepDue, ProgramOrder DEF NotifyGpio, At
  <2>2. thread' \in Threads(Labels) /\ thread'["faultmg"] = thread["faultmg"]
    <3>1. /\ Signal(thread, "gpio", GPIO_FROM_FAULTMG) \in Threads(Labels)
          /\ \A q \in PDs : q # "gpio" =>
               Signal(thread, "gpio", GPIO_FROM_FAULTMG)[q] = thread[q]
      BY SignalThread
    <3> QED BY <2>1, <3>1
  <2> QED BY <2>1, <2>2, ProgramOrder
<1>9. CASE NotifyScheduler
  <2> DEFINE gone == Goto("faultmg", "ready")
  <2>1. thread' = Signal(gone, "scheduler", SCHEDULER_FROM_FAULTMG) /\ publish_at' = 0
    BY <1>9 DEF NotifyScheduler
  <2>2. gone \in Threads(Labels) /\ gone["faultmg"].pc = "ready"
    BY GotoThread DEF Labels
  <2> HIDE DEF gone
  <2>3. thread' \in Threads(Labels) /\ thread'["faultmg"] = gone["faultmg"]
    <3>1. /\ Signal(gone, "scheduler", SCHEDULER_FROM_FAULTMG)
               \in Threads(Labels)
          /\ \A q \in PDs : q # "scheduler" =>
               Signal(gone, "scheduler", SCHEDULER_FROM_FAULTMG)[q] = gone[q]
      BY <2>2, SignalThread
    <3> QED BY <2>1, <3>1
  <2> QED BY <2>1, <2>2, <2>3, ProgramOrder
<1>10. CASE Readers
  <2>1. PICK p \in {"scheduler", "gpio"} : thread' = [thread EXCEPT ![p] = Blocked]
    BY <1>10 DEF Readers, SchedulerReads, GpioReads, ReaderRuns
  <2>2. /\ thread' \in Threads(Labels)
        /\ thread'["faultmg"] = thread["faultmg"]
    BY <2>1, BlockedThread DEF Threads
  <2>3. UNCHANGED publish_at
    BY <1>10 DEF Readers, SchedulerReads, GpioReads, ReaderRuns
  <2> QED BY <2>2, <2>3
<1>11. ASSUME NEW ch \in Channels, UNCHANGED publish_at,
              thread' = Signal(thread, "faultmg", ch)
       PROVE  ControlOK'
  <2>1. /\ thread' \in Threads(Labels)
        /\ thread["faultmg"].pc = "blocked" => thread'["faultmg"].pc = "ready"
        /\ thread["faultmg"].pc # "blocked" => thread'["faultmg"].pc = thread["faultmg"].pc
    BY <1>11, SignalledFaultmg
  <2> QED BY <1>11, <2>1
<1>12. ASSUME NEW m \in Messages, CommandinSends(m)
       PROVE  ControlOK'
  BY <1>11, <1>12 DEF CommandinSends
<1>13. CASE LightctlReports
  BY <1>11, <1>13 DEF LightctlReports
<1>14. CASE UNCHANGED vars
  BY <1>14 DEF vars
<1> QED BY <1>1, <1>2, <1>3, <1>5, <1>6, <1>7, <1>8, <1>9, <1>10, <1>12, <1>13, <1>14
        DEF Next, Handler, Publish
-------------------------------------------------------------------------------
(* No handler takes a variable out of its type, and no step does.          *)
LEMMA HandlerKeepsTypes ==
  ASSUME StepDueOK, DataOK, WellFormed(fault_state), Handler
  PROVE  DataOK' /\ WellFormed(fault_state)'
<1> USE DEF DataOK
<1>1. WellFormed(fault_state)' /\ fault_state' \in FaultState /\ total_error_count' \in Nat
  <2>1. FaultStateStep
    BY HandlerFaultState
  <2>2. WellFormed(fault_state)' /\ fault_state' \in FaultState
    BY <2>1, WellFormedStep DEF WellFormed
  <2> QED BY <2>1, <2>2 DEF FaultStateStep
<1> SUFFICES DataOK'
  BY <1>1
<1>2. ASSUME UNCHANGED <<message, shmem_fault, fault_mode_shared, input_buffer, seen>>
      PROVE  DataOK'
  BY <1>1, <1>2
<1>3. CASE EventLoop
  BY <1>2, <1>3 DEF EventLoop
<1>4. ASSUME NEW code \in LightctlCodes, NotifiedByLightctl(code)
      PROVE  DataOK'
  BY <1>2, <1>4 DEF NotifiedByLightctl
<1>5. ASSUME UNCHANGED <<shmem_fault, fault_mode_shared, input_buffer, seen>>,
             message' \in Message
      PROVE  DataOK'
  BY <1>1, <1>5
<1>6. CASE ReadType \/ ReadLen \/ ReadPayload
  <2>1. message' \in Message
    BY <1>6 DEF ReadType, ReadLen, ReadPayload, Message, EmptyMessage, Byte, MsgTypes
  <2> QED BY <1>5, <1>6, <2>1 DEF ReadType, ReadLen, ReadPayload
<1>7. CASE InjectFault \/ ClearFault \/ Reject
  BY <1>2, <1>7 DEF InjectFault, ClearFault, Reject
<1>8. CASE PublishField
  <2>1. publish_at \in 1 .. FieldCount
    BY <1>8 DEF PublishField
  <2>2. PublishSteps[publish_at] \in FieldNames
    BY <2>1, StepDue, ProgramOrder DEF StepDueOK
  <2>3. shmem_fault' \in PublishedView
    BY <1>8, <2>2, ViewType, PublishFieldType DEF PublishField
  <2> QED BY <1>1, <1>8, <2>3 DEF PublishField
<1>9. CASE StoreFaultMode
  BY <1>1, <1>9, TransportKeepsMode DEF StoreFaultMode, FaultState
<1>10. CASE NotifyGpio \/ NotifyScheduler
  BY <1>2, <1>10 DEF NotifyGpio, NotifyScheduler
<1> QED BY <1>3, <1>4, <1>6, <1>7, <1>8, <1>9, <1>10 DEF Handler, Publish

LEMMA DataStep ==
  ASSUME StepDueOK, DataOK, WellFormed(fault_state), [Next]_vars
  PROVE  DataOK' /\ WellFormed(fault_state)'
<1> USE DEF DataOK
<1>1. CASE Handler
  BY <1>1, HandlerKeepsTypes
<1>2. ASSUME UNCHANGED <<fault_state, total_error_count, message, shmem_fault, fault_mode_shared>>,
             input_buffer' \in Message, seen' \in [{"scheduler", "gpio"} -> FaultModes]
      PROVE  DataOK' /\ WellFormed(fault_state)'
  BY <1>2
<1>3. CASE Readers
  <2>1. seen' \in [{"scheduler", "gpio"} -> FaultModes]
    BY <1>3, TransportKeepsMode
       DEF Readers, SchedulerReads, GpioReads, ReaderRuns, PublishedView
  <2> QED BY <1>2, <1>3, <2>1 DEF Readers, SchedulerReads, GpioReads, ReaderRuns
<1>4. ASSUME NEW m \in Messages, CommandinSends(m)
      PROVE  DataOK' /\ WellFormed(fault_state)'
  BY <1>2, <1>4, MessagesAssumption DEF CommandinSends
<1>5. CASE LightctlReports
  BY <1>2, <1>5 DEF LightctlReports
<1>6. CASE UNCHANGED vars
  BY <1>2, <1>6 DEF vars
<1> QED BY <1>1, <1>3, <1>4, <1>5, <1>6 DEF Next
-------------------------------------------------------------------------------
(* The inductive invariant of the state the handlers work on.              *)
Sound == ControlOK /\ DataOK /\ WellFormed(fault_state)

LEMMA SoundInit == Init => Sound
<1> SUFFICES ASSUME Init PROVE Sound
  OBVIOUS
<1> USE DEF Init
<1>1. WellFormed(fault_state)
  BY ResetWellFormed
<1>2. ControlOK
  <2>1. Blocked \in ThreadRecord(Labels)
    BY BlockedThread, PDNames
  <2> DEFINE first == [Blocked EXCEPT !.pc = "publish"]
  <2>2. first \in ThreadRecord(Labels) /\ first.pc = "publish"
    BY <2>1 DEF ThreadRecord, Labels
  <2>3. thread = [p \in PDs |-> IF p = "faultmg" THEN first ELSE Blocked]
    OBVIOUS
  <2> HIDE DEF first, Init
  <2>4. thread \in Threads(Labels) /\ thread["faultmg"].pc = "publish"
    BY <2>1, <2>2, <2>3, PDNames DEF Threads
  <2> QED BY <2>4, ProgramOrder DEF ControlOK, StepDueOK, Init
<1>3. DataOK
  <2>1. EmptyMessage \in Message
    BY DEF EmptyMessage, Message, MsgTypes, Byte
  <2>2. fault_state \in FaultState
    BY <1>1 DEF WellFormed
  <2>3. View \in PublishedView
    BY <2>2, ViewType
  <2> QED BY <2>1, <2>2, <2>3, Codes DEF DataOK
<1> QED BY <1>1, <1>2, <1>3 DEF Sound

LEMMA SoundStep == Sound /\ [Next]_vars => Sound'
<1> SUFFICES ASSUME Sound, [Next]_vars PROVE Sound'
  OBVIOUS
<1>1. ControlOK'
  BY ControlStep DEF Sound
<1>2. DataOK' /\ WellFormed(fault_state)'
  BY DataStep DEF Sound, ControlOK
<1> QED BY <1>1, <1>2 DEF Sound

THEOREM Soundness == Spec => []Sound
BY SoundInit, SoundStep, PTL DEF Spec

(* Every variable keeps its type, and a publication step is due exactly    *)
(* while the handler is inside publish_fault_state (faultmg.c:32-47).      *)
THEOREM TypeCorrect == Spec => []TypeOK
<1>1. Sound => TypeOK
  BY TypeParts DEF Sound
<1> QED BY <1>1, Soundness, PTL

(* STABLE, ACTIVE and RECOVERING tell the truth about mode, mask and       *)
(* counters in every reachable state (light_fault_mode.c:167-276).         *)
THEOREM LifecycleIsConsistent == Spec => []LifecycleConsistent
<1>1. Sound => LifecycleConsistent
  BY DEF Sound, WellFormed, LifecycleConsistent
<1> QED BY <1>1, Soundness, PTL

(* The mode never falls below what the faults recorded since the last      *)
(* clear call for (light_fault_mode.c:49-66).                              *)
THEOREM SeverityIsCovered == Spec => []SeverityCoversActiveFaults
<1>1. Sound => SeverityCoversActiveFaults
  BY DEF Sound, WellFormed, SeverityCoversActiveFaults
<1> QED BY <1>1, Soundness, PTL

(* The synthetic recovery clock stays within its first three windows       *)
(* (light_fault_mode.c:215-276).                                           *)
THEOREM RecoveryWindowIsBounded == Spec => []RecoveryWindowBounded
<1>1. Sound => RecoveryWindowBounded
  BY DEF Sound, WellFormed, RecoveryWindowBounded
<1> QED BY <1>1, Soundness, PTL
-------------------------------------------------------------------------------
(* What one clear does to a well-formed state: it removes the markers,     *)
(* reports progress of the window or steps down, or does nothing.          *)
Cleared(state, next) ==
  /\ state.active_fault_mask # {}
  /\ next.mode = state.mode
  /\ next.lifecycle = "RECOVERING"
  /\ next.active_fault_mask = {}
  /\ next.recovery_ticks = 0

Ticked(state, next) ==
  /\ state.lifecycle = "RECOVERING"
  /\ state.active_fault_mask = {} /\ next.active_fault_mask = {}
  /\ state.recovery_ticks = 0
  /\ next.mode = state.mode
  /\ next.lifecycle = "RECOVERING"
  /\ next.recovery_ticks = 1

SteppedDown(state, next) ==
  /\ state.lifecycle = "RECOVERING"
  /\ state.active_fault_mask = {} /\ next.active_fault_mask = {}
  /\ state.recovery_ticks = 1
  /\ next.mode = state.mode - 1
  /\ next.lifecycle = IF state.mode - 1 = NORMAL THEN "STABLE" ELSE "RECOVERING"
  /\ next.recovery_ticks = 0

LEMMA AfterClearCases ==
  ASSUME NEW state, WellFormed(state)
  PROVE  \/ AfterClear(state) = state
         \/ Cleared(state, AfterClear(state))
         \/ Ticked(state, AfterClear(state))
         \/ SteppedDown(state, AfterClear(state))
<1> DEFINE next == AfterClear(state)
<1>1. CASE state.active_fault_mask = {} /\ state.lifecycle = "RECOVERING"
  <2>1. next = ObserveRecovery(state)
    BY <1>1 DEF AfterClear
  <2>2. CASE state.recovery_ticks = 0
    <3>1. Ticked(state, next)
      <4> HIDE DEF next
      <4> QED BY <1>1, <2>1, <2>2, ObserveRecoveryWellFormed DEF Ticked
    <3> QED BY <3>1
  <2>3. CASE state.recovery_ticks # 0
    <3>1. SteppedDown(state, next)
      <4> HIDE DEF next
      <4> QED BY <1>1, <2>1, <2>3, ObserveRecoveryWellFormed DEF SteppedDown
    <3> QED BY <3>1
  <2> QED BY <2>2, <2>3
<1>2. CASE ~(state.active_fault_mask = {} /\ state.lifecycle = "RECOVERING")
  <2>1. next = ClearActive(state)
    BY <1>2 DEF AfterClear
  <2>2. CASE state.active_fault_mask = {}
    BY <2>1, <2>2, ClearActiveWellFormed
  <2>3. CASE state.active_fault_mask # {}
    <3>1. Cleared(state, next)
      <4> HIDE DEF next
      <4> QED BY <2>1, <2>3, ClearActiveWellFormed DEF Cleared
    <3> QED BY <3>1
  <2> QED BY <2>2, <2>3
<1> QED BY <1>1, <1>2

(* The counters a state may have when so many faults have been reported.   *)
CountedWithin(state, total) ==
  LET active == state.active_counters
  IN  /\ active.by_code[SPEED_LIMIT] + active.by_code[MODE_CONFLICT]
           + active.by_code[INVALID_CMD] + active.by_code[HW_STATE_ERR]
           <= total
      /\ active.consecutive <= active.by_code[MODE_CONFLICT]

(* A code is counted at most once, and a conflict is counted with its run. *)
LEMMA RecordErrorCounts ==
  ASSUME NEW state, state \in FaultState, NEW code \in Byte, NEW total \in Nat,
         CountedWithin(state, total)
  PROVE  CountedWithin(RecordError(state, code), total + 1)
<1> DEFINE active == state.active_counters
           next   == RecordError(state, code).active_counters
<1>1. active.by_code \in [1 .. 4 -> Nat] /\ active.consecutive \in Nat
  <2>1. active \in Counters /\ KnownCodes = 1 .. 4
    BY Codes DEF FaultState
  <2> HIDE DEF active
  <2> QED BY <2>1 DEF Counters
<1>2. /\ next.by_code = [k \in 1 .. 4 |-> active.by_code[k] + (IF k = code THEN 1 ELSE 0)]
      /\ next.consecutive = IF code = 2 THEN active.consecutive + 1 ELSE 0
  <2>1. next = ApplyErrorToCounters(active, code) /\ KnownCodes = 1 .. 4
    BY Codes DEF RecordError
  <2> HIDE DEF active, next
  <2> QED BY <2>1, Codes DEF ApplyErrorToCounters
<1>3. /\ active.by_code[1] + active.by_code[2] + active.by_code[3] + active.by_code[4] <= total
      /\ active.consecutive <= active.by_code[2]
  BY Codes DEF CountedWithin
<1>4. /\ next.by_code[1] + next.by_code[2] + next.by_code[3] + next.by_code[4] <= total + 1
      /\ next.consecutive <= next.by_code[2]
  <2> HIDE DEF active, next
  <2> QED BY <1>1, <1>2, <1>3 DEF Byte
<1> QED BY <1>4, Codes DEF CountedWithin

LEMMA ResetCounts ==
  ASSUME NEW state, state.active_counters = CountersReset, NEW total \in Nat
  PROVE  CountedWithin(state, total)
BY Codes DEF CountedWithin, CountersReset

(* A clear leaves the state alone or leaves nothing counted.               *)
LEMMA AfterClearCounts ==
  ASSUME NEW state, WellFormed(state), NEW total \in Nat, CountedWithin(state, total)
  PROVE  CountedWithin(AfterClear(state), total)
<1> DEFINE next == AfterClear(state)
<1>1. WellFormed(next)
  BY AfterClearWellFormed
<1>2. CASE next = state
  BY <1>2
<1>3. CASE next # state
  <2>1. next.lifecycle \in {"STABLE", "RECOVERING"}
    BY <1>3, AfterClearCases DEF Cleared, Ticked, SteppedDown
  <2>2. next.active_counters = CountersReset
    <3> HIDE DEF next
    <3> QED BY <1>1, <2>1 DEF WellFormed, Consistent, NothingActive
  <2> QED BY <2>2, ResetCounts
<1> QED BY <1>2, <1>3

LEMMA StepCounts ==
  ASSUME WellFormed(fault_state), fault_state \in FaultState, total_error_count \in Nat,
         CountedWithin(fault_state, total_error_count), FaultStateStep
  PROVE  CountedWithin(fault_state', total_error_count')
BY RecordErrorCounts, AfterClearCounts DEF FaultStateStep

(* No counter of the active faults exceeds the published total, and no run *)
(* of conflicts outlives the conflicts a clear has forgotten: the 32-bit   *)
(* counters cannot wrap before 2^32 faults (light_fault_mode.c:97-131).    *)
THEOREM CountersStayWithinTotal == Spec => []CountersWithinTotal
<1> DEFINE Inv == Sound /\ CountersWithinTotal
<1>1. Init => Inv
  <2> SUFFICES ASSUME Init PROVE Inv
    OBVIOUS
  <2>1. fault_state.active_counters = CountersReset /\ total_error_count \in Nat
    BY DEF Init, FaultStateReset
  <2>2. CountedWithin(fault_state, total_error_count)
    BY <2>1, ResetCounts
  <2> QED BY <2>2, SoundInit DEF CountedWithin, CountersWithinTotal
<1>2. Inv /\ [Next]_vars => Inv'
  <2> SUFFICES ASSUME Inv, [Next]_vars PROVE Inv'
    OBVIOUS
  <2>1. Sound'
    BY SoundStep
  <2>2. /\ CountedWithin(fault_state, total_error_count)
        /\ WellFormed(fault_state)
        /\ fault_state \in FaultState
        /\ total_error_count \in Nat
    BY DEF Sound, DataOK, CountedWithin, CountersWithinTotal
  <2>3. FaultStateStep
    BY FaultStateSteps DEF Sound, DataOK
  <2>4. CountedWithin(fault_state', total_error_count')
    BY <2>2, <2>3, StepCounts
  <2> QED BY <2>1, <2>4 DEF CountedWithin, CountersWithinTotal
<1>3. Inv => CountersWithinTotal
  OBVIOUS
<1> HIDE DEF Inv
<1> QED BY <1>1, <1>2, <1>3, PTL DEF Spec

(* What a step of the fault state may do to the mode and the lifecycle.    *)
LowersByOneLevel ==
  (fault_state'.mode < fault_state.mode /\ total_error_count' = total_error_count) =>
     /\ fault_state.lifecycle = "RECOVERING"
     /\ fault_state.recovery_ticks = RECOVERY_WINDOW_TICKS - 1
     /\ fault_state'.mode = fault_state.mode - 1

InterruptsRecovery ==
  (fault_state.lifecycle = "RECOVERING" /\ total_error_count' # total_error_count) =>
     /\ fault_state'.mode >= fault_state.mode
     /\ fault_state'.lifecycle = "ACTIVE"
     /\ fault_state'.recovery_elapsed_ms = 0

LEMMA StepLowersByOneLevel ==
  ASSUME WellFormed(fault_state), total_error_count \in Nat, FaultStateStep
  PROVE  LowersByOneLevel
<1> SUFFICES ASSUME fault_state'.mode < fault_state.mode,
                    total_error_count' = total_error_count
             PROVE  /\ fault_state.lifecycle = "RECOVERING"
                    /\ fault_state.recovery_ticks = 1
                    /\ fault_state'.mode = fault_state.mode - 1
  BY Codes DEF LowersByOneLevel
<1>1. fault_state.mode \in Int /\ total_error_count \in Int
  BY Codes DEF WellFormed, FaultState
<1>2. fault_state' = fault_state \/ fault_state' = AfterClear(fault_state)
  BY <1>1 DEF FaultStateStep
<1>3. fault_state' = AfterClear(fault_state) /\ fault_state' # fault_state
  BY <1>1, <1>2
<1>4. \/ Cleared(fault_state, fault_state')
      \/ Ticked(fault_state, fault_state')
      \/ SteppedDown(fault_state, fault_state')
  BY <1>3, AfterClearCases
<1> QED BY <1>1, <1>4 DEF Cleared, Ticked, SteppedDown

LEMMA StepInterruptsRecovery ==
  ASSUME WellFormed(fault_state), FaultStateStep
  PROVE  InterruptsRecovery
<1> SUFFICES ASSUME fault_state.lifecycle = "RECOVERING",
                    total_error_count' # total_error_count
             PROVE  /\ fault_state'.mode >= fault_state.mode
                    /\ fault_state'.lifecycle = "ACTIVE"
                    /\ fault_state'.recovery_elapsed_ms = 0
  BY DEF InterruptsRecovery
<1>1. \E code \in Byte : fault_state' = RecordError(fault_state, code)
  BY DEF FaultStateStep
<1> QED BY <1>1, RecordErrorWellFormed

(* No clear skips a level and none lowers the mode outside a satisfied     *)
(* recovery window (REQ-RECOVERY-001, light_fault_mode.c:233-276).         *)
THEOREM RecoveryDropsOneLevelAtMost == Spec => RecoveryDropsOneLevel
<1>1. Sound /\ [Next]_vars => [LowersByOneLevel]_vars
  BY FaultStateSteps, StepLowersByOneLevel DEF Sound, DataOK
<1>2. Spec => [][LowersByOneLevel]_vars
  BY <1>1, Soundness, PTL DEF Spec
<1> QED BY <1>2 DEF RecoveryDropsOneLevel, LowersByOneLevel

(* A fault that arrives during recovery ends it without lowering the mode  *)
(* (REQ-RECOVERY-003, light_fault_mode.c:167-190).                         *)
THEOREM FaultInterrupts == Spec => FaultInterruptsRecovery
<1>1. Sound /\ [Next]_vars => [InterruptsRecovery]_vars
  BY FaultStateSteps, StepInterruptsRecovery DEF Sound, DataOK
<1>2. Spec => [][InterruptsRecovery]_vars
  BY <1>1, Soundness, PTL DEF Spec
<1> QED BY <1>2 DEF FaultInterruptsRecovery, InterruptsRecovery
-------------------------------------------------------------------------------
(* The fault manager refines the documented lifecycle: an error is a       *)
(* recognised or an unrecognised fault, a clear is a clear, a tick or a    *)
(* step down, and all its other steps stutter.                             *)
LEMMA RecordErrorRefines ==
  ASSUME WellFormed(fault_state), NEW code \in Byte,
         fault_state' = RecordError(fault_state, code)
  PROVE  Lifecycle!Next
<1>1. /\ WellFormed(fault_state')
      /\ fault_state'.lifecycle = "ACTIVE"
      /\ fault_state'.recovery_ticks = 0
      /\ fault_state.lifecycle = "RECOVERING" => fault_state'.mode >= fault_state.mode
      /\ fault_state'.active_fault_mask = fault_state.active_fault_mask \cup MaskForError(code)
  BY RecordErrorWellFormed
<1>2. Lifecycle!Fault(fault_state'.mode)
  BY <1>1 DEF Lifecycle!Fault
<1>3. /\ fault_state'.mode \in 0 .. 3
      /\ fault_state'.active_fault_mask # {} => fault_state'.mode \in 1 .. 3
  BY <1>1, Codes DEF WellFormed, FaultState, SeverityCovered
<1>4. CASE fault_state'.active_fault_mask # {} /\ code \in KnownCodes
  <2>1. Lifecycle!RecognisedFault
    BY <1>2, <1>3, <1>4 DEF Lifecycle!RecognisedFault
  <2> QED BY <2>1 DEF Lifecycle!Next
<1>5. CASE code \notin KnownCodes
  <2>1. fault_state'.active_fault_mask = fault_state.active_fault_mask
    BY <1>1, <1>5 DEF MaskForError
  <2>2. Lifecycle!UnrecognisedFault
    BY <1>2, <1>3, <2>1 DEF Lifecycle!UnrecognisedFault
  <2> QED BY <2>2 DEF Lifecycle!Next
<1>6. code \in KnownCodes => fault_state'.active_fault_mask # {}
  BY <1>1 DEF MaskForError
<1> QED BY <1>4, <1>5, <1>6

LEMMA AfterClearRefines ==
  ASSUME WellFormed(fault_state), fault_state' = AfterClear(fault_state)
  PROVE  [Lifecycle!Next]_(Lifecycle!avars)
<1>1. CASE fault_state' = fault_state
  BY <1>1 DEF Lifecycle!avars
<1>2. CASE Cleared(fault_state, fault_state')
  BY <1>2 DEF Cleared, Lifecycle!Clear, Lifecycle!Next
<1>3. CASE Ticked(fault_state, fault_state')
  BY <1>3 DEF Ticked, Lifecycle!Tick, Lifecycle!Next
<1>4. CASE SteppedDown(fault_state, fault_state')
  BY <1>4, Codes DEF SteppedDown, Lifecycle!StepDown, Lifecycle!Next
<1> QED BY <1>1, <1>2, <1>3, <1>4, AfterClearCases

LEMMA StepRefines ==
  ASSUME WellFormed(fault_state), FaultStateStep
  PROVE  [Lifecycle!Next]_(Lifecycle!avars)
<1>1. CASE UNCHANGED <<fault_state, total_error_count>>
  BY <1>1 DEF Lifecycle!avars
<1>2. ASSUME NEW code \in Byte, fault_state' = RecordError(fault_state, code)
      PROVE  [Lifecycle!Next]_(Lifecycle!avars)
  BY <1>2, RecordErrorRefines
<1>3. CASE fault_state' = AfterClear(fault_state)
  BY <1>3, AfterClearRefines
<1> QED BY <1>1, <1>2, <1>3 DEF FaultStateStep

(* Every behaviour of the fault manager is one of the fault lifecycle of   *)
(* docs/safety_case.md (faultmg.c:111-200).                                *)
THEOREM RefinesLifecycle == Spec => ImplementsLifecycle
<1>1. Init => Lifecycle!Init
  BY Codes DEF Init, FaultStateReset, Lifecycle!Init
<1>2. Sound /\ [Next]_vars => [Lifecycle!Next]_(Lifecycle!avars)
  BY FaultStateSteps, StepRefines DEF Sound, DataOK
<1> QED BY <1>1, <1>2, Soundness, PTL DEF Spec, ImplementsLifecycle, Lifecycle!Spec
-------------------------------------------------------------------------------
(* What publish_fault_state has still to do is all that is out of date.    *)
LEMMA PublishOneField ==
  ASSUME NEW page \in PublishedView, NEW f \in FieldNames, NEW g \in FieldNames, NEW v
  PROVE  /\ [page EXCEPT ![f] = v][f] = v
         /\ g # f => [page EXCEPT ![f] = v][g] = page[g]
BY DEF FieldNames, PublishedView

LEMMA FieldAt ==
  ASSUME NEW i \in 1 .. FieldCount
  PROVE  PublishSteps[i] \in FieldNames /\ i \in 1 .. 7
<1>1. i \in 0 .. Len(PublishSteps) /\ i # 0 /\ i \in 1 .. 7
  BY ProgramOrder
<1> QED BY <1>1, StepDue

Working == <<fault_state, total_error_count, shmem_fault, fault_mode_shared>>

LEMMA PublicationInit == Init => PublicationComplete
<1> SUFFICES ASSUME Init PROVE PublicationComplete
  OBVIOUS
<1>1. publish_at = 1 /\ shmem_fault = View
  BY DEF Init
<1> QED BY <1>1, ProgramOrder DEF PublicationComplete

LEMMA HandlerPublishes ==
  ASSUME StepDueOK, DataOK, PublicationComplete, Handler
  PROVE  PublicationComplete'
<1>1. ASSUME UNCHANGED <<Working, publish_at>> PROVE PublicationComplete'
  BY <1>1 DEF Working, PublicationComplete, View
<1>2. ASSUME publish_at' = 1 PROVE PublicationComplete'
  BY <1>2, ProgramOrder DEF PublicationComplete
<1>3. CASE EventLoop \/ ReadType \/ ReadLen \/ ReadPayload \/ Reject
  BY <1>1, <1>3 DEF EventLoop, ReadType, ReadLen, ReadPayload, Reject, Working
<1>4. ASSUME NEW code \in LightctlCodes, NotifiedByLightctl(code)
      PROVE  PublicationComplete'
  BY <1>2, <1>4 DEF NotifiedByLightctl, HandleFaultEvent
<1>5. CASE InjectFault \/ ClearFault
  BY <1>2, <1>5 DEF InjectFault, ClearFault, HandleFaultEvent
<1>6. CASE PublishField
  <2> DEFINE due == PublishSteps[publish_at]
  <2>1. /\ publish_at \in 1 .. 7
        /\ publish_at' = publish_at + 1
        /\ shmem_fault' = [shmem_fault EXCEPT ![due] = View[due]]
        /\ View' = View
        /\ due \in FieldNames
    BY <1>6, FieldAt, ProgramOrder DEF PublishField, View
  <2>2. shmem_fault \in PublishedView
    BY DEF DataOK
  <2>3. ASSUME NEW i \in 1 .. FieldCount, i < publish_at'
        PROVE  shmem_fault'[PublishSteps[i]] = View[PublishSteps[i]]
    <3>1. PublishSteps[i] \in FieldNames /\ i \in 1 .. 7
      BY FieldAt
    <3>2. CASE i = publish_at
      BY <2>1, <2>2, <3>2, PublishOneField
    <3>3. CASE i # publish_at
      <4>1. i < publish_at
        BY <2>1, <2>3, <3>1, <3>3
      <4>2. shmem_fault[PublishSteps[i]] = View[PublishSteps[i]]
        BY <4>1 DEF PublicationComplete
      <4> HIDE DEF due
      <4>3. CASE PublishSteps[i] = due
        BY <2>1, <2>2, <4>3, PublishOneField
      <4>4. CASE PublishSteps[i] # due
        BY <2>1, <2>2, <3>1, <4>2, <4>4, PublishOneField
      <4> QED BY <4>3, <4>4
    <3> QED BY <3>2, <3>3
  <2>4. publish_at' # 0 /\ publish_at' \in 1 .. FieldCount + 1
    BY <2>1, ProgramOrder
  <2> HIDE DEF due
  <2> QED BY <2>1, <2>3, <2>4 DEF PublicationComplete
<1>7. ASSUME publish_at \in 8 .. 10, publish_at' \in {0, 9, 10},
             UNCHANGED <<fault_state, total_error_count, shmem_fault>>,
             fault_mode_shared' = fault_state.mode
      PROVE  PublicationComplete'
  <2>1. \A i \in 1 .. FieldCount : shmem_fault[PublishSteps[i]] = View[PublishSteps[i]]
    BY <1>7, ProgramOrder DEF PublicationComplete
  <2>2. View' = View
    BY <1>7 DEF View
  <2> QED BY <1>7, <2>1, <2>2, ProgramOrder DEF PublicationComplete
<1>8. publish_at \in 0 .. Len(PublishSteps) /\ (publish_at # 0 <=> thread["faultmg"].pc = "publish")
  BY DEF StepDueOK
<1>9. CASE StoreFaultMode
  <2>1. publish_at = 8
    BY <1>8, <1>9, StepDue DEF StoreFaultMode, At
  <2>2. TransportEncode(fault_state.mode) = fault_state.mode
    BY TransportKeepsMode DEF DataOK, FaultState
  <2> QED BY <1>7, <1>9, <2>1, <2>2 DEF StoreFaultMode
<1>10. CASE NotifyGpio \/ NotifyScheduler
  <2>1. publish_at \in {9, 10}
    BY <1>8, <1>10, StepDue DEF NotifyGpio, NotifyScheduler, At
  <2>2. fault_mode_shared = fault_state.mode
    BY <2>1, ProgramOrder DEF PublicationComplete
  <2> QED BY <1>7, <1>10, <2>1, <2>2, StepDue, <1>8 DEF NotifyGpio, NotifyScheduler
<1> QED BY <1>3, <1>4, <1>5, <1>6, <1>9, <1>10 DEF Handler, Publish

LEMMA PublicationStep ==
  ASSUME StepDueOK, DataOK, PublicationComplete, [Next]_vars
  PROVE  PublicationComplete'
<1>1. ASSUME UNCHANGED <<Working, publish_at>> PROVE PublicationComplete'
  BY <1>1 DEF Working, PublicationComplete, View
<1>2. CASE Handler
  BY <1>2, HandlerPublishes
<1>3. CASE Readers
  BY <1>1, <1>3 DEF Readers, SchedulerReads, GpioReads, ReaderRuns, Working
<1>4. ASSUME NEW m \in Messages, CommandinSends(m)
      PROVE  PublicationComplete'
  BY <1>1, <1>4 DEF CommandinSends, Working
<1>5. CASE LightctlReports
  BY <1>1, <1>5 DEF LightctlReports, Working
<1>6. CASE UNCHANGED vars
  BY <1>1, <1>6 DEF vars, Working
<1> QED BY <1>2, <1>3, <1>4, <1>5, <1>6 DEF Next

(* Outside publish_fault_state the shared state is the fault manager's,    *)
(* and inside it every field already stored is (faultmg.c:32-47).          *)
THEOREM PublicationIsComplete == Spec => []PublicationComplete
<1>1. Sound /\ PublicationComplete /\ [Next]_vars => PublicationComplete'
  BY PublicationStep DEF Sound, ControlOK
<1> QED BY <1>1, PublicationInit, Soundness, PTL DEF Spec
-------------------------------------------------------------------------------
(* With the first store of a publication due, a mask still shown from      *)
(* before belongs to a state whose mode is no lower than WARN: a fault     *)
(* adds to the markers and a clear keeps the mode.                         *)
ModeDueCovers ==
  publish_at = 1 /\ shmem_fault["active_fault_mask"] # {} => fault_state.mode >= WARN

SnapshotInv == SnapshotNeverUnderstates /\ ModeDueCovers

(* A handler that begins to publish: what is shown is still the old state. *)
LEMMA BeginCovers ==
  ASSUME WellFormed(fault_state), FaultStateStep, PublicationComplete, publish_at = 0,
         shmem_fault["active_fault_mask"] # {}
  PROVE  fault_state'.mode >= WARN
<1>1. fault_state.active_fault_mask # {}
  <2>1. shmem_fault[PublishSteps[5]] = View[PublishSteps[5]]
    BY ProgramOrder DEF PublicationComplete
  <2> QED BY <2>1, ProgramOrder DEF View
<1>2. fault_state.mode >= WARN
  BY <1>1 DEF WellFormed, SeverityCovered
<1>3. CASE UNCHANGED <<fault_state, total_error_count>>
  BY <1>2, <1>3
<1>4. ASSUME NEW code \in Byte, fault_state' = RecordError(fault_state, code)
      PROVE  fault_state'.mode >= WARN
  <2>1. WellFormed(fault_state') /\ fault_state'.active_fault_mask # {}
    BY <1>1, <1>4, RecordErrorWellFormed
  <2> QED BY <2>1 DEF WellFormed, SeverityCovered
<1>5. CASE fault_state' = AfterClear(fault_state)
  BY <1>1, <1>2, <1>5, AfterClearCases DEF Cleared, Ticked, SteppedDown
<1> QED BY <1>3, <1>4, <1>5 DEF FaultStateStep

(* The stores: the mode covers the mask shown before, and is stored when   *)
(* the mask is.                                                            *)
LEMMA StoreCovers ==
  ASSUME DataOK, WellFormed(fault_state), PublicationComplete, SnapshotInv, PublishField
  PROVE  SnapshotInv'
<1> DEFINE due == PublishSteps[publish_at]
<1>1. /\ publish_at \in 1 .. 7 /\ publish_at' = publish_at + 1
      /\ shmem_fault' = [shmem_fault EXCEPT ![due] = View[due]]
      /\ due \in FieldNames
  BY FieldAt, ProgramOrder DEF PublishField
<1>2. shmem_fault \in PublishedView
  BY DEF DataOK
<1>3. ModeDueCovers'
  BY <1>1 DEF ModeDueCovers
<1>4. publish_at \in {1, 2, 3, 4, 5, 6, 7}
  BY <1>1
<1>5. CASE publish_at = 1
  <2>1. due = "fault_mode" /\ View["fault_mode"] = fault_state.mode
    BY <1>5, ProgramOrder DEF View
  <2>2. /\ shmem_fault'["fault_mode"] = fault_state.mode
        /\ shmem_fault'["active_fault_mask"] = shmem_fault["active_fault_mask"]
    BY <1>1, <1>2, <2>1, PublishOneField DEF FieldNames
  <2> QED BY <1>3, <1>5, <2>2 DEF SnapshotInv, ModeDueCovers, SnapshotNeverUnderstates
<1>6. CASE publish_at = 5
  <2>1. due = "active_fault_mask" /\ View["active_fault_mask"] = fault_state.active_fault_mask
    BY <1>6, ProgramOrder DEF View
  <2>2. shmem_fault[PublishSteps[1]] = View[PublishSteps[1]]
    BY <1>6, ProgramOrder DEF PublicationComplete
  <2>3. shmem_fault["fault_mode"] = fault_state.mode
    BY <2>2, ProgramOrder DEF View
  <2>4. /\ shmem_fault'["fault_mode"] = fault_state.mode
        /\ shmem_fault'["active_fault_mask"] = fault_state.active_fault_mask
    BY <1>1, <1>2, <2>1, <2>3, PublishOneField DEF FieldNames
  <2> QED BY <1>3, <2>4 DEF SnapshotInv, SnapshotNeverUnderstates, WellFormed, SeverityCovered
<1>7. CASE publish_at \in {2, 3, 4, 6, 7}
  <2>1. due # "fault_mode" /\ due # "active_fault_mask"
    BY <1>7, ProgramOrder
  <2> HIDE DEF due
  <2>2. /\ shmem_fault'["fault_mode"] = shmem_fault["fault_mode"]
        /\ shmem_fault'["active_fault_mask"] = shmem_fault["active_fault_mask"]
    BY <1>1, <1>2, <2>1, PublishOneField DEF FieldNames
  <2> QED BY <1>3, <2>2 DEF SnapshotInv, SnapshotNeverUnderstates
<1> QED BY <1>4, <1>5, <1>6, <1>7

LEMMA SnapshotStep ==
  ASSUME Sound, PublicationComplete, SnapshotInv, [Next]_vars
  PROVE  SnapshotInv'
<1>1. CASE PublishField
  BY <1>1, StoreCovers DEF Sound
<1>2. CASE ~PublishField
  <2>1. UNCHANGED shmem_fault
    BY <1>2 DEF Next, Handler, Publish, EventLoop, NotifiedByLightctl, HandleFaultEvent,
                ReadType, ReadLen, ReadPayload, InjectFault, ClearFault, Reject,
                StoreFaultMode, NotifyGpio, NotifyScheduler, Readers, SchedulerReads,
                GpioReads, ReaderRuns, CommandinSends, LightctlReports, vars
  <2>2. SnapshotNeverUnderstates'
    BY <2>1 DEF SnapshotInv, SnapshotNeverUnderstates
  <2>3. ASSUME NEW code \in LightctlCodes, NotifiedByLightctl(code)
        PROVE  publish_at = 0
    <3>1. thread["faultmg"].pc = "ready"
      BY <2>3 DEF NotifiedByLightctl, Called
    <3> QED BY <3>1 DEF Sound, ControlOK, StepDueOK
  <2>4. CASE InjectFault \/ ClearFault
    <3>1. thread["faultmg"].pc = "switch"
      BY <2>4 DEF InjectFault, ClearFault, Accepted, At
    <3>2. publish_at = 0
      BY <3>1 DEF Sound, ControlOK, StepDueOK
    <3> QED BY <2>1, <2>2, <3>2, BeginCovers, FaultStateSteps
            DEF Sound, DataOK, SnapshotInv, ModeDueCovers
  <2>5. ASSUME NEW code \in LightctlCodes, NotifiedByLightctl(code)
        PROVE  SnapshotInv'
    BY <2>1, <2>2, <2>3, <2>5, BeginCovers, FaultStateSteps
       DEF Sound, DataOK, SnapshotInv, ModeDueCovers
  <2>6. CASE StoreFaultMode \/ NotifyGpio \/ NotifyScheduler
    <3>1. publish_at' # 1
      BY <2>6, StepDue DEF StoreFaultMode, NotifyGpio, NotifyScheduler, At, Sound,
                           ControlOK, StepDueOK
    <3> QED BY <2>2, <3>1 DEF SnapshotInv, ModeDueCovers
  <2>7. ASSUME UNCHANGED <<fault_state, publish_at>> PROVE SnapshotInv'
    BY <2>1, <2>2, <2>7 DEF SnapshotInv, ModeDueCovers
  <2>8. CASE EventLoop \/ ReadType \/ ReadLen \/ ReadPayload \/ Reject \/ UNCHANGED vars
    BY <2>7, <2>8 DEF EventLoop, ReadType, ReadLen, ReadPayload, Reject, vars
  <2>9. CASE Readers \/ LightctlReports \/ \E m \in Messages : CommandinSends(m)
    BY <2>7, <2>9 DEF Readers, SchedulerReads, GpioReads, ReaderRuns, LightctlReports,
                      CommandinSends
  <2> QED BY <1>2, <2>4, <2>5, <2>6, <2>8, <2>9 DEF Next, Handler, Publish
<1> QED BY <1>1, <1>2

(* No snapshot of the shared state, half published ones included, shows an *)
(* active fault with mode NORMAL (faultmg.c:32-42).                        *)
THEOREM SnapshotsNeverUnderstate == Spec => []SnapshotNeverUnderstates
<1>1. Init => SnapshotInv
  BY DEF Init, View, FaultStateReset, SnapshotInv, SnapshotNeverUnderstates, ModeDueCovers
<1>2. Sound /\ PublicationComplete /\ SnapshotInv /\ [Next]_vars => SnapshotInv'
  BY SnapshotStep
<1>3. SnapshotInv => SnapshotNeverUnderstates
  BY DEF SnapshotInv
<1> QED BY <1>1, <1>2, <1>3, Soundness, PublicationIsComplete, PTL DEF Spec
-------------------------------------------------------------------------------
(* A step that leaves the two readers and what they follow alone.          *)
LEMMA ReadersUndisturbed ==
  ASSUME ReadersFollowPublication,
         UNCHANGED <<fault_state, seen>>,
         thread'["gpio"].pc = "blocked" => thread["gpio"].pc = "blocked",
         thread'["scheduler"].pc = "blocked" => thread["scheduler"].pc = "blocked",
         publish_at' \notin 1 .. 9 /\ thread'["gpio"].pc = "blocked"
           => publish_at \notin 1 .. 9,
         publish_at' = 0 /\ thread'["scheduler"].pc = "blocked" => publish_at = 0
  PROVE  ReadersFollowPublication'
BY DEF ReadersFollowPublication

LEMMA ReadersInit == Init => ReadersFollowPublication
BY DEF Init, ReadersFollowPublication

LEMMA ReadersStep ==
  ASSUME Sound, PublicationComplete, ReadersFollowPublication, [Next]_vars
  PROVE  ReadersFollowPublication'
<1>1. /\ thread \in Threads(Labels)
      /\ publish_at \in 0 .. Len(PublishSteps)
      /\ publish_at # 0 <=> thread["faultmg"].pc = "publish"
      /\ seen \in [{"scheduler", "gpio"} -> FaultModes]
  BY DEF Sound, ControlOK, StepDueOK, DataOK
<1>2. ASSUME UNCHANGED <<fault_state, seen, publish_at>>,
             thread'["gpio"] = thread["gpio"], thread'["scheduler"] = thread["scheduler"]
      PROVE  ReadersFollowPublication'
  BY <1>2, ReadersUndisturbed
<1>3. ASSUME publish_at' = 1 PROVE ReadersFollowPublication'
  BY <1>3 DEF ReadersFollowPublication
<1>4. CASE EventLoop
  <2>1. thread'["gpio"] = thread["gpio"] /\ thread'["scheduler"] = thread["scheduler"]
    BY <1>1, <1>4, PDNames, WaitThread DEF EventLoop
  <2> QED BY <1>2, <1>4, <2>1 DEF EventLoop
<1>5. ASSUME NEW code \in LightctlCodes, NotifiedByLightctl(code)
      PROVE  ReadersFollowPublication'
  BY <1>3, <1>5 DEF NotifiedByLightctl, HandleFaultEvent
<1>6. CASE InjectFault \/ ClearFault
  BY <1>3, <1>6 DEF InjectFault, ClearFault, HandleFaultEvent
<1>7. CASE ReadType
  <2>1. thread' = Enter("faultmg", FAULTMG_FROM_COMMANDIN, "read_len")
    BY <1>7 DEF ReadType
  <2>2. "read_len" \in Labels
    BY DEF Labels
  <2>3. \A q \in PDs : q # "faultmg" => thread'[q] = thread[q]
    BY <1>1, <2>1, <2>2, PDNames, EnterThread
  <2>4. thread'["gpio"] = thread["gpio"] /\ thread'["scheduler"] = thread["scheduler"]
    BY <2>3, PDNames
  <2> QED BY <1>2, <1>7, <2>4 DEF ReadType
<1>8. CASE ReadLen \/ ReadPayload \/ Reject
  <2>1. PICK label \in Labels : thread' = Goto("faultmg", label)
    BY <1>8 DEF ReadLen, ReadPayload, Reject, Labels
  <2>2. thread'["gpio"] = thread["gpio"] /\ thread'["scheduler"] = thread["scheduler"]
    BY <1>1, <2>1, PDNames, GotoThread
  <2> QED BY <1>2, <1>8, <2>2 DEF ReadLen, ReadPayload, Reject
<1>9. CASE PublishField \/ StoreFaultMode
  <2>1. /\ UNCHANGED <<thread, fault_state, seen>>
        /\ publish_at' = publish_at + 1
    BY <1>9 DEF PublishField, StoreFaultMode
  <2>2. publish_at \in 1 .. 8
    BY <1>1, <1>9, StepDue, ProgramOrder DEF PublishField, StoreFaultMode, At
  <2>3. publish_at' \in 1 .. 9
    BY <2>1, <2>2
  <2> QED BY <2>3 DEF ReadersFollowPublication
<1>10. CASE NotifyGpio
  <2>1. /\ thread' = Signal(thread, "gpio", GPIO_FROM_FAULTMG)
        /\ publish_at = 9
        /\ publish_at' = 10
    BY <1>1, <1>10, StepDue, ProgramOrder DEF NotifyGpio, At
  <2>2. thread'["gpio"].pc # "blocked"
    BY <1>1, <2>1, SignalThread, PDNames
  <2> QED BY <2>1, <2>2 DEF ReadersFollowPublication
<1>11. CASE NotifyScheduler
  <2> DEFINE gone == Goto("faultmg", "ready")
  <2>1. /\ thread' = Signal(gone, "scheduler", SCHEDULER_FROM_FAULTMG)
        /\ publish_at = 10
        /\ UNCHANGED <<fault_state, seen>>
    BY <1>1, <1>11, StepDue, ProgramOrder DEF NotifyScheduler, At
  <2>2. gone \in Threads(Labels) /\ gone["gpio"] = thread["gpio"]
    BY <1>1, PDNames, GotoThread DEF Labels
  <2> HIDE DEF gone
  <2>3. /\ \A q \in PDs : q # "scheduler" =>
             Signal(gone, "scheduler", SCHEDULER_FROM_FAULTMG)[q] = gone[q]
        /\ Signal(gone, "scheduler", SCHEDULER_FROM_FAULTMG)["scheduler"].pc # "blocked"
    BY <2>2, SignalThread, PDNames
  <2>4. thread'["gpio"] = thread["gpio"] /\ thread'["scheduler"].pc # "blocked"
    BY <2>1, <2>2, <2>3, PDNames
  <2> QED BY <2>1, <2>4 DEF ReadersFollowPublication
<1>12. CASE SchedulerReads
  <2>1. /\ thread' = [thread EXCEPT !["scheduler"] = Blocked]
        /\ seen' = [seen EXCEPT !["scheduler"] = shmem_fault["fault_mode"]]
        /\ UNCHANGED <<fault_state, publish_at>>
    BY <1>12 DEF SchedulerReads, ReaderRuns
  <2>2. thread'["gpio"] = thread["gpio"] /\ seen'["gpio"] = seen["gpio"]
    BY <1>1, <2>1
  <2>3. publish_at = 0 => seen'["scheduler"] = fault_state.mode
    <3>1. publish_at = 0 => shmem_fault[PublishSteps[1]] = View[PublishSteps[1]]
      BY ProgramOrder DEF PublicationComplete
    <3>2. View["fault_mode"] = fault_state.mode
      BY DEF View
    <3> QED BY <1>1, <2>1, <3>1, <3>2, ProgramOrder
  <2> QED BY <2>1, <2>2, <2>3 DEF ReadersFollowPublication
<1>13. CASE GpioReads
  <2>1. /\ thread' = [thread EXCEPT !["gpio"] = Blocked]
        /\ seen' = [seen EXCEPT !["gpio"] = fault_mode_shared]
        /\ UNCHANGED <<fault_state, publish_at>>
    <3>1. TransportDecode(fault_mode_shared) = fault_mode_shared
      BY TransportKeepsMode DEF Sound, DataOK
    <3> QED BY <1>13, <3>1 DEF GpioReads, ReaderRuns
  <2>2. /\ thread'["scheduler"] = thread["scheduler"]
        /\ seen'["scheduler"] = seen["scheduler"]
    BY <1>1, <2>1
  <2>3. publish_at \notin 1 .. 9 => seen'["gpio"] = fault_state.mode
    BY <1>1, <2>1, ProgramOrder DEF PublicationComplete
  <2> QED BY <2>1, <2>2, <2>3 DEF ReadersFollowPublication
<1>14. ASSUME NEW ch \in Channels, thread' = Signal(thread, "faultmg", ch),
              UNCHANGED <<fault_state, seen, publish_at>>
       PROVE  ReadersFollowPublication'
  <2>1. \A q \in PDs : q # "faultmg" => Signal(thread, "faultmg", ch)[q] = thread[q]
    BY <1>1, PDNames, SignalThread
  <2>2. thread'["gpio"] = thread["gpio"] /\ thread'["scheduler"] = thread["scheduler"]
    BY <1>14, <2>1, PDNames
  <2> QED BY <1>2, <1>14, <2>2
<1>15. ASSUME NEW m \in Messages, CommandinSends(m)
       PROVE  ReadersFollowPublication'
  <2>1. CASE RoutedHere(m)
    BY <1>14, <1>15, <2>1, PDNames DEF CommandinSends
  <2>2. CASE ~RoutedHere(m)
    BY <1>2, <1>15, <2>2 DEF CommandinSends
  <2> QED BY <2>1, <2>2
<1>16. CASE LightctlReports
  BY <1>14, <1>16, PDNames DEF LightctlReports
<1>17. CASE UNCHANGED vars
  BY <1>2, <1>17 DEF vars
<1> QED BY <1>4, <1>5, <1>6, <1>7, <1>8, <1>9, <1>10, <1>11, <1>12, <1>13, <1>15, <1>16, <1>17
        DEF Next, Handler, Publish, Readers

(* Whenever the fault manager and its readers wait, scheduler and gpio     *)
(* hold its mode: no wake-up is lost and none comes before the store it    *)
(* announces (faultmg.c:44-46, scheduler.c:68, gpio.c:178).                *)
THEOREM ReadersAreCurrent == Spec => []ReadersCurrent
<1>1. Spec => []ReadersFollowPublication
  BY ReadersInit, ReadersStep, Soundness, PublicationIsComplete, PTL DEF Spec
<1>2. Sound /\ ReadersFollowPublication => ReadersCurrent
  BY DEF Sound, ControlOK, StepDueOK, ReadersFollowPublication, ReadersCurrent
<1> QED BY <1>1, <1>2, Soundness, PTL
===============================================================================
