------------------------------- MODULE LightSystem -------------------------------
(***************************************************************************)
(* The six protection domains together: commandin, scheduler,              *)
(* vehicle_state, faultmg, lightctl and gpio (src/domains), around the     *)
(* shared state, the input buffer and the fault mode's own page.           *)
(*                                                                         *)
(* The fault manager is FaultMg with its environment replaced by the real  *)
(* domains.  A handler is split where a domain of a higher priority can    *)
(* run in between and the two share data: scheduler and gpio run to        *)
(* completion; commandin writes and signals at once, for the two above it  *)
(* wait; vehicle_state and lightctl are preempted anywhere.  A shared page *)
(* is read by byte-wise or halfword loads (-mstrict-align), one step each. *)
(*                                                                         *)
(* allow_flags is written with the target output, from the same value, and *)
(* only printed: it is left out.                                           *)
(***************************************************************************)
EXTENDS FaultMg, LightControl

CONSTANTS
  Inputs,      (* what the console may enter: a message of Messages and    *)
               (* the value of a vehicle-state update (0 for another type) *)
  StackValues, (* what the value half of any other message may hold: its   *)
               (* maker does not initialise it                             *)
  MaxCommands, (* the console enters at most this many commands: a bound   *)
  MaxRaces     (* at most this many of them while a domain is at work, a   *)
               (* bound: 0 is a console that waits for the result          *)

ASSUME InputsAssumption == Inputs \subseteq [message : Messages, value : Word]
ASSUME StackValuesAssumption == StackValues \subseteq Word
ASSUME MaxCommandsAssumption == MaxCommands \in Nat
ASSUME MaxRacesAssumption == MaxRaces \in Nat

VARIABLES
  operator_request, vehicle_state, target_output, vehicle_speed,
                    (* members of light_shmem_t                            *)
  buffer_value,     (* the value half of the payload in the input buffer   *)
  request,          (* vehicle_state's copy of the input buffer            *)
  target,           (* lightctl's copy of target_output                    *)
  copied,           (* how many of its members are copied                  *)
  plan,             (* plan actions still due                              *)
  execution,        (* g_execution_state                                   *)
  mode_cache,       (* g_fault_mode_cache                                  *)
  pins,             (* gpio's output register                              *)
  commands, races   (* commands entered, and entered early, for the bounds *)

shared   == <<operator_request, vehicle_state, target_output, vehicle_speed>>
console  == <<buffer_value, commands, races>>
lightctl == <<target, copied, plan, execution, mode_cache>>
fault    == <<fault_state, total_error_count, message, publish_at, shmem_fault,
              fault_mode_shared>>
svars == <<vars, shared, console, request, lightctl, pins>>

GpioActions == <<"turn_left", "turn_right", "brake", "low_beam", "high_beam", "position">>

(* The channel of a GPIO action, LIGHT_CH_GPIO_*: 20 .. 31, and back.      *)
ActionOf(channel) ==
  [lamp |-> GpioActions[(channel - 20) \div 2 + 1], on |-> channel % 2 = 0]
ActionChannel(action) == CHOOSE c \in 20 .. 31 : ActionOf(c) = action

(* The lamps as light_target_output_t lays its members out, and as the     *)
(* high half of a command byte numbers them; the low half is on or off.    *)
LampOrder == <<"low_beam", "high_beam", "turn_left", "turn_right", "position", "brake">>
IsCommand(byte) == byte \div 16 < Len(LampOrder) /\ byte % 16 \in {0, 1}
CommandOf(byte) == [lamp |-> LampOrder[byte \div 16 + 1], on |-> byte % 16 = 1]

EmptyRequest == [type |-> "INVALID", len |-> 0, payload |-> 0, value |-> 0]

(* The field a vehicle-state request numbers.                              *)
FieldName(number) ==
  LET names == <<"speed_kph", "ignition_on", "brake_pedal", "gear",
                 "ambient_light", "hazard", "drive_mode">>
  IN  IF number \in 1 .. Len(names) THEN names[number] ELSE "unknown"

(* After the init() of scheduler, gpio, commandin and vehicle_state, which *)
(* left lightctl a notification; that of faultmg is at its publication.    *)
SystemInit ==
  /\ fault_state = FaultStateReset
  /\ total_error_count = 0
  /\ message = EmptyMessage
  /\ publish_at = 1
  /\ shmem_fault = View
  /\ fault_mode_shared = NORMAL
  /\ input_buffer = EmptyMessage
  /\ seen = [scheduler |-> NORMAL, gpio |-> NORMAL]
  /\ thread = [p \in PDs |->
                 CASE p = "faultmg"  -> [Blocked EXCEPT !.pc = "publish"]
                   [] p = "lightctl" -> [Blocked EXCEPT !.pc = "ready",
                                           !.badge = {LIGHTCTL_FROM_SCHEDULER}]
                   [] OTHER          -> Blocked]
  /\ operator_request = OperatorRequestInit
  /\ vehicle_state = VehicleDefault
  /\ target_output = ComputeTarget(operator_request, vehicle_state, NORMAL)
  /\ vehicle_speed = vehicle_state.speed_kph
  /\ buffer_value = 0
  /\ request = EmptyRequest
  /\ target = {} /\ copied = 0 /\ plan = <<>>
  /\ execution = ExecutionInit
  /\ mode_cache = NORMAL
  /\ pins = {}
  /\ commands = 0 /\ races = 0

AtRest == \A p \in PDs : thread[p].pc = "blocked"

Loop(p) ==
  /\ Wait(p)
  /\ UNCHANGED <<fault, input_buffer, seen, shared, console, request, lightctl, pins>>
-------------------------------------------------------------------------------
(* commandin: dispatch_transport_message of the message just parsed. *)

(* Mutant: a clear takes the route of a light command. *)
RouteClearAside(threads, m) ==
  CASE m.type \in {"LIGHT_CMD", "FAULT_CLEAR"} ->
         Signal(threads, "scheduler", SCHEDULER_FROM_COMMANDIN)
    [] m.type = "VEHICLE_STATE_UPDATE" ->
         Signal(threads, "vehicle_state", VEHICLE_STATE_FROM_COMMANDIN)
    [] RoutedHere(m) ->
         Signal(threads, "faultmg", FAULTMG_FROM_COMMANDIN)
    [] OTHER ->
         threads

Route(threads, m) ==
  CASE m.type = "LIGHT_CMD" ->
         Signal(threads, "scheduler", SCHEDULER_FROM_COMMANDIN)
    [] m.type = "VEHICLE_STATE_UPDATE" ->
         Signal(threads, "vehicle_state", VEHICLE_STATE_FROM_COMMANDIN)
    [] RoutedHere(m) ->
         Signal(threads, "faultmg", FAULTMG_FROM_COMMANDIN)
    [] OTHER ->
         threads

Dispatch(m, value) ==
  /\ Runs("commandin")
  /\ commands < MaxCommands
  /\ total_error_count < MaxErrors \/ m.type = "FAULT_CLEAR"
  /\ AtRest \/ races < MaxRaces
  /\ input_buffer' = m
  /\ IF m.type = "VEHICLE_STATE_UPDATE"
     THEN buffer_value' = value
     ELSE buffer_value' \in StackValues
  /\ thread' = Route(thread, m)
  /\ commands' = commands + 1
  /\ races' = IF AtRest THEN races ELSE races + 1
  /\ UNCHANGED <<fault, seen, shared, request, lightctl, pins>>
-------------------------------------------------------------------------------
(* scheduler: each handler is one step. *)

(* Mutant: the speed the guard reads is not refreshed. *)
RecomputeStaleSpeed(next_request, threads) ==
  /\ operator_request' = next_request
  /\ target_output' = ComputeTarget(next_request, vehicle_state, shmem_fault["fault_mode"])
  /\ thread' = Signal(threads, "lightctl", LIGHTCTL_FROM_SCHEDULER)
  /\ UNCHANGED <<vehicle_speed, vehicle_state>>

(* recompute_target_output, from the request and the fault state as they   *)
(* are in shared memory, and the notification of lightctl.                 *)
Recompute(next_request, threads) ==
  /\ operator_request' = next_request
  /\ target_output' = ComputeTarget(next_request, vehicle_state, shmem_fault["fault_mode"])
  /\ vehicle_speed' = vehicle_state.speed_kph
  /\ thread' = Signal(threads, "lightctl", LIGHTCTL_FROM_SCHEDULER)
  /\ UNCHANGED vehicle_state

SchedulerCommand ==
  LET done == Enter("scheduler", SCHEDULER_FROM_COMMANDIN, "ready")
  IN  /\ Called("scheduler", SCHEDULER_FROM_COMMANDIN)
      /\ IF /\ CheckTransportMessage(input_buffer, "LIGHT_CMD") = "OK"
            /\ IsCommand(input_buffer.payload)
         THEN Recompute(ApplyOperatorCommand(operator_request,
                                             CommandOf(input_buffer.payload)), done)
         ELSE thread' = done /\ UNCHANGED shared
      /\ UNCHANGED <<fault, input_buffer, seen, console, request, lightctl, pins>>

SchedulerFaultMode ==
  /\ Called("scheduler", SCHEDULER_FROM_FAULTMG)
  /\ seen' = [seen EXCEPT !["scheduler"] = shmem_fault["fault_mode"]]
  /\ Recompute(operator_request, Enter("scheduler", SCHEDULER_FROM_FAULTMG, "ready"))
  /\ UNCHANGED <<fault, input_buffer, console, request, lightctl, pins>>

SchedulerVehicleState ==
  /\ Called("scheduler", SCHEDULER_FROM_VEHICLE_STATE)
  /\ Recompute(operator_request, Enter("scheduler", SCHEDULER_FROM_VEHICLE_STATE, "ready"))
  /\ UNCHANGED <<fault, input_buffer, seen, console, request, lightctl, pins>>

Scheduler == SchedulerCommand \/ SchedulerFaultMode \/ SchedulerVehicleState
             \/ Loop("scheduler")
-------------------------------------------------------------------------------
(* gpio: each handler is one step. *)

GpioFaultMode ==
  /\ Called("gpio", GPIO_FROM_FAULTMG)
  /\ seen' = [seen EXCEPT !["gpio"] = TransportDecode(fault_mode_shared)]
  /\ thread' = Enter("gpio", GPIO_FROM_FAULTMG, "ready")
  /\ UNCHANGED <<fault, input_buffer, shared, console, request, lightctl, pins>>

GpioAction(channel) ==
  /\ Called("gpio", channel)
  /\ LET action == ActionOf(channel)
     IN  pins' = IF action.on THEN pins \cup {action.lamp} ELSE pins \ {action.lamp}
  /\ thread' = Enter("gpio", channel, "ready")
  /\ UNCHANGED <<fault, input_buffer, seen, shared, console, request, lightctl>>

Gpio == GpioFaultMode \/ (\E c \in 20 .. 31 : GpioAction(c)) \/ Loop("gpio")
-------------------------------------------------------------------------------
(* vehicle_state: the copy of the message, the store of the new state and  *)
(* the notification are steps of their own.                                *)

VehicleAt(label) == Runs("vehicle_state") /\ thread["vehicle_state"].pc = label

VehicleKeeps == UNCHANGED <<fault, input_buffer, seen, operator_request, target_output,
                            vehicle_speed, console, lightctl, pins>>

VehicleReadType ==
  /\ Called("vehicle_state", VEHICLE_STATE_FROM_COMMANDIN)
  /\ request' = [EmptyRequest EXCEPT !.type = input_buffer.type]
  /\ thread' = Enter("vehicle_state", VEHICLE_STATE_FROM_COMMANDIN, "read_len")
  /\ UNCHANGED vehicle_state /\ VehicleKeeps

VehicleReadLen ==
  /\ VehicleAt("read_len")
  /\ request' = [request EXCEPT !.len = input_buffer.len]
  /\ thread' = Goto("vehicle_state", "read_field")
  /\ UNCHANGED vehicle_state /\ VehicleKeeps

(* Mutant: a copy of the length of the messages without a value. *)
VehicleReadFieldOnly ==
  /\ VehicleAt("read_field")
  /\ request' = [request EXCEPT !.payload = input_buffer.payload]
  /\ thread' = Goto("vehicle_state", "apply")
  /\ UNCHANGED vehicle_state /\ VehicleKeeps

VehicleReadField ==
  /\ VehicleAt("read_field")
  /\ request' = [request EXCEPT !.payload = input_buffer.payload]
  /\ thread' = Goto("vehicle_state", "read_value")
  /\ UNCHANGED vehicle_state /\ VehicleKeeps

VehicleReadValue ==
  /\ VehicleAt("read_value")
  /\ request' = [request EXCEPT !.value = buffer_value]
  /\ thread' = Goto("vehicle_state", "apply")
  /\ UNCHANGED vehicle_state /\ VehicleKeeps

(* A rejected request, or one that changes nothing, ends the handler.      *)
VehicleApply ==
  LET field    == FieldName(request.payload)
      accepted == /\ CheckTransportMessage(request, "VEHICLE_STATE_UPDATE") = "OK"
                  /\ RequestIsValid(field, request.value)
      next     == IF accepted THEN ApplyRequest(vehicle_state, field, request.value)
                  ELSE vehicle_state
  IN  /\ VehicleAt("apply")
      /\ vehicle_state' = next
      /\ thread' = Goto("vehicle_state", IF next = vehicle_state THEN "ready" ELSE "notify")
      /\ UNCHANGED request /\ VehicleKeeps

VehicleNotify ==
  /\ VehicleAt("notify")
  /\ thread' = Signal(Goto("vehicle_state", "ready"), "scheduler",
                      SCHEDULER_FROM_VEHICLE_STATE)
  /\ UNCHANGED <<vehicle_state, request>> /\ VehicleKeeps

Vehicle == VehicleReadType \/ VehicleReadLen \/ VehicleReadField \/ VehicleReadValue
           \/ VehicleApply \/ VehicleNotify \/ Loop("vehicle_state")
-------------------------------------------------------------------------------
(* lightctl: sync_outputs. *)

LightctlAt(label) == Runs("lightctl") /\ thread["lightctl"].pc = label

LightctlKeeps == UNCHANGED <<fault, input_buffer, seen, shared, console, request, pins>>

LightctlNotified ==
  /\ Called("lightctl", LIGHTCTL_FROM_SCHEDULER)
  /\ target' = {} /\ copied' = 0
  /\ thread' = Enter("lightctl", LIGHTCTL_FROM_SCHEDULER, "copy")
  /\ UNCHANGED <<plan, execution, mode_cache>> /\ LightctlKeeps

(* Mutant: the last member, the brake, is not copied. *)
CopyMemberShort ==
  /\ LightctlAt("copy")
  /\ target' = target \cup ({LampOrder[copied + 1]} \cap target_output)
  /\ copied' = copied + 1
  /\ thread' = Goto("lightctl", IF copied' = Len(LampOrder) - 1 THEN "build" ELSE "copy")
  /\ UNCHANGED <<plan, execution, mode_cache>> /\ LightctlKeeps

CopyMember ==
  /\ LightctlAt("copy")
  /\ target' = target \cup ({LampOrder[copied + 1]} \cap target_output)
  /\ copied' = copied + 1
  /\ thread' = Goto("lightctl", IF copied' = Len(LampOrder) THEN "build" ELSE "copy")
  /\ UNCHANGED <<plan, execution, mode_cache>> /\ LightctlKeeps

BuildPlan ==
  /\ LightctlAt("build")
  /\ mode_cache' = shmem_fault["fault_mode"]
  /\ plan' = PlanActions(execution, target)
  /\ thread' = Goto("lightctl", IF plan' = <<>> THEN "ready" ELSE "guard")
  /\ target' = {} /\ copied' = 0
  /\ UNCHANGED execution /\ LightctlKeeps

(* guard_allows_action, up to the notification of faultmg.                 *)
GuardAction ==
  /\ LightctlAt("guard")
  /\ thread' = Goto("lightctl",
                    IF GuardError(Head(plan), execution, mode_cache, vehicle_speed) = 0
                    THEN "trigger" ELSE "report")
  /\ UNCHANGED lightctl /\ LightctlKeeps

NextAction == IF Len(plan) = 1 THEN "ready" ELSE "guard"

(* Mutant: the execution state follows an action that was denied. *)
ReportFaultAndTransition ==
  /\ LightctlAt("report")
  /\ total_error_count < MaxErrors
  /\ plan' = Tail(plan)
  /\ execution' = ApplyTransition(execution, Head(plan))
  /\ thread' = Signal(Goto("lightctl", NextAction), "faultmg", FAULTMG_FROM_LIGHTCTL)
  /\ UNCHANGED <<target, copied, mode_cache>> /\ LightctlKeeps

ReportFault ==
  /\ LightctlAt("report")
  /\ total_error_count < MaxErrors
  /\ plan' = Tail(plan)
  /\ thread' = Signal(Goto("lightctl", NextAction), "faultmg", FAULTMG_FROM_LIGHTCTL)
  /\ UNCHANGED <<target, copied, execution, mode_cache>> /\ LightctlKeeps

TriggerGpio ==
  /\ LightctlAt("trigger")
  /\ plan' = Tail(plan)
  /\ execution' = ApplyTransition(execution, Head(plan))
  /\ thread' = Signal(Goto("lightctl", NextAction), "gpio", ActionChannel(Head(plan)))
  /\ UNCHANGED <<target, copied, mode_cache>> /\ LightctlKeeps

Lightctl == LightctlNotified \/ CopyMember \/ BuildPlan \/ GuardAction \/ ReportFault
            \/ TriggerGpio \/ Loop("lightctl")
-------------------------------------------------------------------------------
Faultmg == Handler /\ UNCHANGED <<shared, console, request, lightctl, pins>>

SystemNext ==
  \/ \E i \in Inputs : Dispatch(i.message, i.value)
  \/ Scheduler \/ Gpio \/ Vehicle \/ Faultmg \/ Lightctl

SystemFairness ==
  /\ WF_svars(Scheduler) /\ WF_svars(Gpio) /\ WF_svars(Vehicle)
  /\ WF_svars(Faultmg) /\ WF_svars(Lightctl)

SystemSpec == SystemInit /\ [][SystemNext]_svars /\ SystemFairness
-------------------------------------------------------------------------------
(* Types. *)

SystemLabels == Labels \cup {"read_field", "read_value", "apply", "notify",
                             "copy", "build", "guard", "report", "trigger"}

(* The type invariant.  The vehicle state stays in its ranges whatever     *)
(* mixture of messages a request is copied from, for it is checked after   *)
(* the copy (vehicle_state.c:57-95); a plan has at most the six actions    *)
(* its array of eight holds (light_execution_plan.c:20).                   *)
SystemTypeOK ==
  /\ thread \in [PDs -> ThreadRecord(SystemLabels)]
  /\ fault_state \in FaultState
  /\ message \in Message /\ input_buffer \in Message
  /\ request.value \in Word /\ buffer_value \in Word
  /\ operator_request \subseteq Lamps
  /\ \A f \in VehicleFields : vehicle_state[f] \in 0 .. MaxValue[f]
  /\ target_output \subseteq Lamps /\ target \subseteq Lamps
  /\ vehicle_speed \in 0 .. MaxValue.speed_kph
  /\ copied \in 0 .. Len(LampOrder)
  /\ Len(plan) <= 6 /\ \A i \in DOMAIN plan : plan[i] \in Actions
  /\ execution \in ExecutionState
  /\ mode_cache \in FaultModes
  /\ pins \subseteq Lamps
-------------------------------------------------------------------------------
(* Safety. *)

(* The two beams are never lit together, nor the two turn lamps, in any    *)
(* moment of a plan, with any target, torn ones included                   *)
(* (light_execution_plan.c:38-87, lightctl.c:131-180).  REQ-LIGHT-003 asks *)
(* this of the turn requests unless an emergency requests both; the plan   *)
(* makes no exception, as HazardLightsBothTurns reports.                   *)
LampsExclusive == ~(Beams \subseteq pins) /\ ~(Turns \subseteq pins)

(* What lightctl believes to be lit is what gpio has lit: no action is     *)
(* lost, repeated or reordered between them (lightctl.c:125-180,           *)
(* gpio.c:178-260).                                                        *)
ExecutionMatchesPins ==
  thread["gpio"].pc = "blocked" => pins = Lit(execution)

(* With every domain waiting, the target answers the latest request,       *)
(* vehicle state and fault mode: no update's notification was lost         *)
(* (REQ-LIGHT-004, scheduler.c:159-201, vehicle_state.c:97-121).           *)
TargetCurrentAtRest ==
  AtRest =>
    /\ target_output = ComputeTarget(operator_request, vehicle_state, fault_state.mode)
    /\ vehicle_speed = vehicle_state.speed_kph

(* With every domain waiting the pins show the target, whatever plans were *)
(* built from stale or torn copies and whatever actions were denied on the *)
(* way: a denial is published as a fault, and that brings a new plan       *)
(* (REQ-LIGHT-001, lightctl.c:100-113, 182-221, scheduler.c:185-201).      *)
PinsShowTargetAtRest ==
  AtRest => pins = Lit(Wanted(target_output))

(* The output profiles of DEGRADED and SAFE_MODE reach the pins            *)
(* (safety_case.md:37-38, light_output_policy.c:25-42): the whole chain    *)
(* from the fault manager to gpio.                                         *)
SafePinsAtRest ==
  AtRest =>
    /\ fault_state.mode >= DEGRADED => pins \cap Beams = {"low_beam"}
    /\ fault_state.mode = SAFE_MODE => "position" \in pins /\ pins \cap Turns = {}

(* Policy and guard agree: when nothing is entered while the domains work  *)
(* and no emergency is on, the guard never rejects what the scheduler      *)
(* asked for (light_control_logic.c:28-57, light_runtime_guard.c:15-56).   *)
GuardAgreesWithPolicy ==
  (MaxRaces = 0 /\ ~HazardActive(vehicle_state)) => thread["lightctl"].pc # "report"

(* No light command is lost: from its notification until the scheduler has *)
(* read the slot, nothing is entered and nothing written there, not even   *)
(* another light command, so what it reads is the very message.  The one   *)
(* slot serves three receivers, and only the scheduler's priority above    *)
(* commandin's keeps this promise; vehicle_state and faultmg are below it  *)
(* and may find another's message (light.system:33-84,                     *)
(* commandin.c:422-461).                                                   *)
CommandDue == SCHEDULER_FROM_COMMANDIN \in thread["scheduler"].todo \cup thread["scheduler"].badge

SchedulerReadsItsCommand ==
  /\ [](CommandDue => input_buffer.type = "LIGHT_CMD")
  /\ [][CommandDue => UNCHANGED <<input_buffer, commands>>]_svars

(* A command entered while every domain waits has taken effect when they   *)
(* wait again, through slot, copy, checks and handler: the member of the   *)
(* request or the field of the vehicle state is as the command says        *)
(* (REQ-LIGHT-001, scheduler.c:159-183, vehicle_state.c:57-121).           *)
LastCommandTakesEffect ==
  (MaxRaces = 0 /\ AtRest) =>
    LET cmd   == CommandOf(input_buffer.payload)
        field == FieldName(input_buffer.payload)
    IN  /\ input_buffer.type = "LIGHT_CMD" /\ IsCommand(input_buffer.payload)
             => (cmd.lamp \in operator_request <=> cmd.on)
        /\ input_buffer.type = "VEHICLE_STATE_UPDATE" /\ RequestIsValid(field, buffer_value)
             => vehicle_state[field] = buffer_value
-------------------------------------------------------------------------------
(* The environment of FaultMg. *)

(* Its two readers wait as soon as they have read, and lightctl and        *)
(* vehicle_state are not seen at all.                                      *)
ReaderThread(p, channel) ==
  IF channel \in thread[p].todo THEN Woken({channel}) ELSE Blocked

FaultMgView == INSTANCE FaultMg WITH
  thread <- [p \in PDs |->
               CASE p = "faultmg"   -> thread[p]
                 [] p = "scheduler" -> ReaderThread(p, SCHEDULER_FROM_FAULTMG)
                 [] p = "gpio"      -> ReaderThread(p, GPIO_FROM_FAULTMG)
                 [] OTHER           -> Blocked]

(* Every step of the system is one the fault manager's model allows: what  *)
(* is proved of FaultMg holds of the system (faultmg.c:202-285).           *)
ImplementsFaultMg == FaultMgView!Init /\ [][FaultMgView!Next]_(FaultMgView!vars)
-------------------------------------------------------------------------------
(* What the documents say and the code does not keep. *)

(* docs/requirements.md:21, REQ-VEH-003: an emergency drives both turn     *)
(* outputs unless clamped by SAFE_MODE.  The plan lights one lamp of the   *)
(* pair (light_execution_plan.c:37-48).                                    *)
HazardLightsBothTurns ==
  (AtRest /\ HazardActive(vehicle_state) /\ vehicle_state.ignition_on = 1
     /\ fault_state.mode # SAFE_MODE)
  => Turns \subseteq pins

(* docs/safety_case.md:38: in SAFE_MODE high beam and turn outputs are off.*)
(* A plan begun before the mode was published goes on with the mode cached *)
(* at its start and lights them (lightctl.c:63-74,187).                    *)
NothingRiskyLitInSafeMode ==
  [][(publish_at = 0 /\ fault_state.mode = SAFE_MODE)
       => (pins' \ pins) \cap (Turns \cup {"high_beam"}) = {}]_svars
-------------------------------------------------------------------------------
(* Liveness. *)

(* Once the console is quiet and no emergency is on, every domain comes to *)
(* wait for good: notifications do not chase each other round the loop     *)
(* scheduler, lightctl, faultmg (lightctl.c:100-113, faultmg.c:44-46).     *)
ComesToRest ==
  []<>(AtRest \/ HazardActive(vehicle_state))
===============================================================================
