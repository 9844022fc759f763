--------------------------- MODULE LightOutputProofs ---------------------------
(***************************************************************************)
(* What the lamps show: how the pins follow the plan, the target its       *)
(* inputs, the work of lightctl the target, and the console's commands     *)
(* take effect, each by an invariant relative to the six domains' own.     *)
(***************************************************************************)
EXTENDS LightSystemProofs

-------------------------------------------------------------------------------
(* The pins: gpio has no action due and has lit what lightctl believes, or *)
(* one action is due that will make it so.                                 *)
ActionDue ==
  \E action \in Actions, before \in ExecutionState :
    /\ thread["gpio"].todo = {ActionChannel(action)}
    /\ pins = Lit(before)
    /\ Perform(pins, action) = Lit(execution)

GpioOK ==
  \/ thread["gpio"].todo \subseteq {8} /\ pins = Lit(execution)
  \/ ActionDue

LEMMA GpioKept ==
  ASSUME GpioOK, UNCHANGED <<pins, execution>>, thread'["gpio"] = thread["gpio"]
  PROVE  GpioOK'
BY DEF GpioOK, ActionDue

LEMMA GpioAtRest ==
  ASSUME ThreadsOK(thread), GpioOK, Waits("gpio")
  PROVE  thread["gpio"].todo = {} /\ pins = Lit(execution)
BY SystemNames DEF GpioOK, ActionDue, ThreadsOK, Waits

LEMMA GpioStep == Core /\ GpioOK /\ [SystemNext]_svars => GpioOK'
<1> SUFFICES ASSUME Core, GpioOK, [SystemNext]_svars PROVE GpioOK'
  OBVIOUS
<1>1. ThreadsOK(thread) /\ StepDueOK /\ LightctlOK
  BY DEF Core, FaultOK
<1>2. ASSUME NEW i \in Inputs, Dispatch(i.message, i.value) PROVE GpioOK'
  BY <1>1, <1>2, DispatchSteps, GpioKept DEF Dispatch, Keeps, lightctl
<1>3. CASE Scheduler
  BY <1>1, <1>3, SchedulerSteps, GpioKept DEF Keeps, lightctl
<1>4. CASE Gpio
  <2>1. UNCHANGED execution
    BY <1>1, <1>4, GpioSteps DEF lightctl
  <2>2. CASE /\ UNCHANGED pins
             /\ \A x : x \in thread'["gpio"].todo => x \in thread["gpio"].todo
             /\ \A x \in 20 .. 31 : x \in thread["gpio"].todo => x \in thread'["gpio"].todo
    <3>1. CASE thread["gpio"].todo \subseteq {8} /\ pins = Lit(execution)
      BY <2>1, <2>2, <3>1 DEF GpioOK
    <3>2. CASE ActionDue
      <4>1. PICK action \in Actions, before \in ExecutionState :
              /\ thread["gpio"].todo = {ActionChannel(action)}
              /\ pins = Lit(before)
              /\ Perform(pins, action) = Lit(execution)
        BY <3>2 DEF ActionDue
      <4>2. ActionChannel(action) \in 20 .. 31
        BY ActionChannels
      <4>3. thread'["gpio"].todo = {ActionChannel(action)}
        BY <2>2, <4>1, <4>2
      <4> QED BY <2>1, <2>2, <4>1, <4>3 DEF GpioOK, ActionDue
    <3> QED BY <3>1, <3>2 DEF GpioOK
  <2>3. ASSUME NEW c \in 20 .. 31, GpioPerforms(c) PROVE GpioOK'
    <3>1. PICK action \in Actions, before \in ExecutionState :
            /\ thread["gpio"].todo = {ActionChannel(action)}
            /\ pins = Lit(before)
            /\ Perform(pins, action) = Lit(execution)
      BY <2>3 DEF GpioPerforms, GpioOK, ActionDue
    <3>2. c = ActionChannel(action)
      BY <2>3, <3>1 DEF GpioPerforms
    <3>3. ActionOf(c) = action
      BY <3>2, ActionChannels
    <3>4. pins' = Lit(execution')
      BY <2>1, <2>3, <3>1, <3>3 DEF GpioPerforms
    <3>5. thread'["gpio"].todo \subseteq {8}
      BY <2>3, <3>1, <3>2 DEF GpioPerforms
    <3> QED BY <3>4, <3>5 DEF GpioOK
  <2> QED BY <1>1, <1>4, <2>2, <2>3, GpioSteps
<1>5. CASE Vehicle
  BY <1>1, <1>5, VehicleSteps, GpioKept DEF Keeps, VehicleKeeps, lightctl
<1>6. CASE Faultmg
  <2>1. /\ UNCHANGED <<pins, execution>> /\ Waits("gpio")
        /\ thread'["gpio"] = thread["gpio"] \/ IsWoken(thread', "gpio", 8)
    BY <1>1, <1>6, FaultmgSteps DEF Faultmg, lightctl
  <2>2. CASE thread'["gpio"] = thread["gpio"]
    BY <2>1, <2>2, GpioKept
  <2>3. CASE IsWoken(thread', "gpio", 8)
    BY <1>1, <2>1, <2>3, GpioAtRest DEF GpioOK, IsWoken
  <2> QED BY <2>1, <2>2, <2>3
<1>7. CASE Lightctl
  <2>1. UNCHANGED pins /\ Waits("gpio")
    BY <1>7, LightctlWaits DEF LightctlKeeps
  <2>2. CASE ~TriggerGpio
    BY <1>7, <2>1, <2>2, LightctlOthers, GpioKept
  <2>3. CASE TriggerGpio
    <3>1. /\ execution' = ApplyTransition(execution, Head(plan))
          /\ IsWoken(thread', "gpio", ActionChannel(Head(plan)))
          /\ plan # <<>>
      BY <1>1, <1>7, <2>3, LightctlOthers DEF TriggerGpio, LightctlAt, LightctlOK, InPlan
    <3>2. /\ Head(plan) \in Actions
          /\ Perform(Lit(execution), Head(plan)) = Lit(execution')
      BY <1>1, <3>1, PlanDue
    <3>3. pins' = Lit(execution) /\ execution \in ExecutionState
      BY <1>1, <2>1, GpioAtRest DEF LightctlOK
    <3>4. thread'["gpio"].todo = {ActionChannel(Head(plan))}
      BY <3>1 DEF IsWoken
    <3>5. Perform(pins', Head(plan)) = Lit(execution')
      BY <3>2, <3>3
    <3>6. ActionDue'
      BY <3>2, <3>3, <3>4, <3>5 DEF ActionDue
    <3> QED BY <3>6 DEF GpioOK
  <2> QED BY <2>2, <2>3
<1>8. CASE UNCHANGED svars
  BY <1>8, GpioKept DEF svars, vars, lightctl
<1> QED BY <1>2, <1>3, <1>4, <1>5, <1>6, <1>7, <1>8 DEF SystemNext

(* gpio has lit what lightctl believes or has the one action due that will *)
(* make it so: lightctl never signals it a second one before.              *)
THEOREM GpioInvariant == SystemSpec => []GpioOK
<1>1. SystemInit => GpioOK
  <2> SUFFICES ASSUME SystemInit PROVE GpioOK
    OBVIOUS
  <2>1. thread["gpio"].todo = {}
    BY InitialThreads, SystemNames DEF ThreadsOK, Waits
  <2>2. pins = {} /\ Lit(execution) = {}
    BY DEF SystemInit, Lit, ExecutionInit, Lamps
  <2> QED BY <2>1, <2>2 DEF GpioOK
<1> QED BY <1>1, GpioStep, CoreInvariant, PTL DEF SystemSpec

LEMMA PinsAreLit ==
  ASSUME Core, GpioOK
  PROVE  \E e \in ExecutionState : pins = Lit(e)
BY DEF GpioOK, ActionDue, Core, LightctlOK

(* No moment of a plan lights two lamps of a group, whatever the target    *)
(* and whatever is denied on the way.                                      *)
THEOREM LampsAreExclusive == SystemSpec => []LampsExclusive
<1>1. Core /\ GpioOK => LampsExclusive
  BY PinsAreLit, LitExclusive DEF LampsExclusive
<1> QED BY <1>1, CoreInvariant, GpioInvariant, PTL

(* No action is lost, repeated or reordered on its way to the pins.        *)
THEOREM ExecutionIsOnThePins == SystemSpec => []ExecutionMatchesPins
<1>1. Core /\ GpioOK => ExecutionMatchesPins
  BY GpioAtRest DEF ExecutionMatchesPins, Waits, Core
<1> QED BY <1>1, CoreInvariant, GpioInvariant, PTL

(* Every variable of the six domains keeps its C type, and a plan its      *)
(* array.                                                                  *)
THEOREM SystemTypeCorrect == SystemSpec => []SystemTypeOK
<1>1. Core /\ GpioOK => SystemTypeOK
  <2> SUFFICES ASSUME Core, GpioOK PROVE SystemTypeOK
    OBVIOUS
  <2>1. thread \in [PDs -> ThreadRecord(SystemLabels)]
    BY DEF Core, ThreadsOK, Threads
  <2>2. /\ fault_state \in FaultState /\ message \in Message /\ input_buffer \in Message
    BY DEF Core, FaultOK, DataOK
  <2>3. /\ request.value \in Word /\ buffer_value \in Word /\ operator_request \subseteq Lamps
        /\ target_output \subseteq Lamps
    BY DEF Core, InputsOK, Request
  <2>4. \A f \in VehicleFields : vehicle_state[f] \in 0 .. MaxValue[f]
    BY DEF Core, InputsOK, VehicleState, VehicleFields, MaxValue
  <2>5. vehicle_speed \in 0 .. MaxValue.speed_kph
    BY DEF Core, InputsOK, MaxValue
  <2>6. /\ target \subseteq Lamps /\ copied \in 0 .. Len(LampOrder)
        /\ execution \in ExecutionState /\ mode_cache \in FaultModes
    BY DEF Core, LightctlOK, LampOrder
  <2>7. Len(plan) <= 6 /\ \A i \in DOMAIN plan : plan[i] \in Actions
    BY PlanDue DEF Core
  <2>8. pins \subseteq Lamps
    BY PinsAreLit, LitExclusive
  <2> QED BY <2>1, <2>2, <2>3, <2>4, <2>5, <2>6, <2>7, <2>8 DEF SystemTypeOK
<1> QED BY <1>1, CoreInvariant, GpioInvariant, PTL

-------------------------------------------------------------------------------
(* The target is what its inputs call for, or the scheduler has been told, *)
(* or will be, to compute it again.                                        *)
RecomputeOwed ==
  \/ thread["vehicle_state"].pc = "notify"
  \/ publish_at # 0
  \/ Owes(thread, "scheduler", 13) \/ Owes(thread, "scheduler", 15)

TargetIsCurrent ==
  /\ target_output = ComputeTarget(operator_request, vehicle_state, shmem_fault["fault_mode"])
  /\ vehicle_speed = vehicle_state.speed_kph

TargetOK == RecomputeOwed \/ TargetIsCurrent

LEMMA TargetKept ==
  ASSUME TargetOK, UNCHANGED <<shared, shmem_fault, publish_at>>,
         thread["vehicle_state"].pc = "notify" => thread'["vehicle_state"].pc = "notify",
         \A c \in {13, 15} : Owes(thread, "scheduler", c) => Owes(thread', "scheduler", c)
  PROVE  TargetOK'
BY DEF TargetOK, RecomputeOwed, TargetIsCurrent, shared

LEMMA TargetStep == Core /\ TargetOK /\ [SystemNext]_svars => TargetOK'
<1> SUFFICES ASSUME Core, TargetOK, [SystemNext]_svars PROVE TargetOK'
  OBVIOUS
<1>1. ThreadsOK(thread) /\ StepDueOK
  BY DEF Core, FaultOK
<1>2. "scheduler" \in PDs /\ "vehicle_state" \in PDs
  BY SystemNames
<1>3. ASSUME NEW i \in Inputs, Dispatch(i.message, i.value) PROVE TargetOK'
  <2>1. /\ Waits("scheduler") /\ UNCHANGED <<shared, fault>>
        /\ \/ thread'["vehicle_state"] = thread["vehicle_state"]
           \/ Told(thread', "vehicle_state", 18)
    BY <1>1, <1>3, DispatchSteps DEF Dispatch
  <2>2. \A c \in {13, 15} : ~Owes(thread, "scheduler", c)
    BY <1>1, <1>2, <2>1, WaitsForNothing
  <2>3. thread["vehicle_state"].pc = "notify" => thread'["vehicle_state"].pc = "notify"
    BY <2>1, FarThread
  <2>4. UNCHANGED <<shared, shmem_fault, publish_at>>
    BY <2>1 DEF fault
  <2> QED BY <2>2, <2>3, <2>4, TargetKept
<1>4. CASE Scheduler
  <2>1. /\ ThreadsOK(thread') /\ UNCHANGED <<fault, vehicle_state>>
        /\ thread'["vehicle_state"] = thread["vehicle_state"]
        /\ \/ Recomputes
           \/ /\ UNCHANGED shared
              /\ \A c \in {13, 15} :
                   c \in thread["scheduler"].todo => c \in thread'["scheduler"].todo
    BY <1>1, <1>4, SchedulerSteps DEF Keeps
  <2>2. CASE Recomputes
    BY <2>1, <2>2 DEF TargetOK, TargetIsCurrent, Recomputes, fault
  <2>3. CASE /\ UNCHANGED shared
             /\ \A c \in {13, 15} :
                  c \in thread["scheduler"].todo => c \in thread'["scheduler"].todo
    <3>1. UNCHANGED <<shared, shmem_fault, publish_at>>
      BY <2>1, <2>3 DEF fault
    <3>2. \A c \in {13, 15} : Owes(thread, "scheduler", c) => Owes(thread', "scheduler", c)
      BY <1>1, <2>3 DEF Owes, ThreadsOK
    <3> QED BY <2>1, <3>1, <3>2, TargetKept
  <2> QED BY <2>1, <2>2, <2>3
<1>5. CASE Gpio
  <2>1. /\ UNCHANGED <<shared, shmem_fault, publish_at>>
        /\ thread'["vehicle_state"] = thread["vehicle_state"]
        /\ thread'["scheduler"] = thread["scheduler"]
    BY <1>1, <1>5, GpioSteps, SystemNames DEF Keeps, Others, fault
  <2> QED BY <2>1, TargetKept DEF Owes
<1>6. CASE Vehicle
  <2>1. /\ VehicleKeeps
        /\ \/ /\ thread'["scheduler"] = thread["scheduler"]
              /\ thread["vehicle_state"].pc # "notify"
              /\ vehicle_state' # vehicle_state => thread'["vehicle_state"].pc = "notify"
           \/ UNCHANGED vehicle_state /\ IsWoken(thread', "scheduler", 15)
    BY <1>1, <1>6, VehicleSteps
  <2>2. CASE IsWoken(thread', "scheduler", 15) \/ thread'["vehicle_state"].pc = "notify"
    BY <2>2 DEF TargetOK, RecomputeOwed, Owes, IsWoken
  <2>3. CASE /\ thread'["scheduler"] = thread["scheduler"]
             /\ thread["vehicle_state"].pc # "notify" /\ UNCHANGED vehicle_state
    <3>1. UNCHANGED <<shared, shmem_fault, publish_at>>
      BY <2>1, <2>3 DEF VehicleKeeps, shared, fault
    <3> QED BY <2>3, <3>1, TargetKept DEF Owes
  <2> QED BY <2>1, <2>2, <2>3
<1>7. CASE Faultmg
  <2>1. /\ UNCHANGED shared /\ thread'["vehicle_state"] = thread["vehicle_state"]
        /\ Announces \/ Publishes \/ WorksAlone
    BY <1>1, <1>7, FaultmgSteps DEF Faultmg, Keeps
  <2>2. CASE Announces
    BY <2>2 DEF Announces, TargetOK, RecomputeOwed, IsWoken, Owes
  <2>3. CASE Publishes
    BY <2>3 DEF Publishes, TargetOK, RecomputeOwed
  <2>4. CASE WorksAlone
    BY <2>1, <2>4, TargetKept DEF WorksAlone, Owes
  <2> QED BY <2>1, <2>2, <2>3, <2>4
<1>8. CASE Lightctl
  <2>1. /\ UNCHANGED <<shared, shmem_fault, publish_at>>
        /\ thread'["vehicle_state"] = thread["vehicle_state"]
        /\ thread'["scheduler"] = thread["scheduler"]
    BY <1>8, LightctlOthers, LightctlWaits DEF Keeps, LightctlKeeps, fault
  <2> QED BY <2>1, TargetKept DEF Owes
<1>9. CASE UNCHANGED svars
  BY <1>9, TargetKept DEF svars, vars
<1> QED BY <1>3, <1>4, <1>5, <1>6, <1>7, <1>8, <1>9 DEF SystemNext

(* A target that is not what its inputs call for is always owed another    *)
(* computation.                                                            *)
THEOREM TargetInvariant == SystemSpec => []TargetOK
<1>1. SystemInit => TargetOK
  BY DEF SystemInit, TargetOK, RecomputeOwed
<1> QED BY <1>1, TargetStep, CoreInvariant, PTL DEF SystemSpec

(* The fault manager's pages, when it waits.                               *)
LEMMA FaultmgAtRest ==
  ASSUME FaultOK, Waits("faultmg")
  PROVE  publish_at = 0 /\ shmem_fault["fault_mode"] = fault_state.mode
<1>1. publish_at = 0
  BY DEF FaultOK, StepDueOK, Waits
<1>2. 1 \in 1 .. FieldCount /\ PublishSteps[1] = "fault_mode"
  BY ProgramOrder
<1>3. shmem_fault["fault_mode"] = View["fault_mode"]
  BY <1>1, <1>2 DEF FaultOK, PublicationComplete
<1> QED BY <1>1, <1>3 DEF View

LEMMA TargetAtRest ==
  ASSUME Core, TargetOK, Waits("scheduler"), Waits("vehicle_state"), Waits("faultmg")
  PROVE  TargetIsCurrent
<1>1. ThreadsOK(thread) /\ "scheduler" \in PDs
  BY SystemNames DEF Core
<1>2. ~Owes(thread, "scheduler", 13) /\ ~Owes(thread, "scheduler", 15)
  BY <1>1, WaitsForNothing
<1>3. publish_at = 0
  BY FaultmgAtRest DEF Core
<1> QED BY <1>2, <1>3 DEF TargetOK, RecomputeOwed, Waits

(* No update's notification is lost: at rest the target is that of the     *)
(* latest request, vehicle state and fault mode.                           *)
THEOREM TargetIsCurrentAtRest == SystemSpec => []TargetCurrentAtRest
<1>1. Core /\ TargetOK => TargetCurrentAtRest
  <2> SUFFICES ASSUME Core, TargetOK, AtRest
               PROVE  /\ target_output =
                           ComputeTarget(operator_request, vehicle_state, fault_state.mode)
                      /\ vehicle_speed = vehicle_state.speed_kph
    BY DEF TargetCurrentAtRest
  <2>1. Waits("scheduler") /\ Waits("vehicle_state") /\ Waits("faultmg")
    BY SystemNames DEF AtRest, Waits
  <2>2. shmem_fault["fault_mode"] = fault_state.mode
    BY <2>1, FaultmgAtRest DEF Core
  <2> QED BY <2>1, <2>2, TargetAtRest DEF TargetIsCurrent
<1> QED BY <1>1, CoreInvariant, TargetInvariant, PTL

-------------------------------------------------------------------------------
(* What lightctl has copied and planned is the target as it is now, or it  *)
(* has been told, or will be, to begin again.                              *)
DenialOwed ==
  Owes(thread, "faultmg", 5) \/ publish_at # 0 \/ Owes(thread, "scheduler", 13)

CopyIsCurrent ==
  \A lamp \in Lamps :
    lamp \in target <=>
      lamp \in target_output /\ \E i \in 1 .. copied : LampOrder[i] = lamp

WorkIsCurrent ==
  /\ thread["lightctl"].pc = "copy" => CopyIsCurrent
  /\ thread["lightctl"].pc = "build" => target = target_output
  /\ thread["lightctl"].pc \notin {"copy", "build"} =>
       plan = PlanTo(execution, Wanted(target_output))

SettledOK == Owes(thread, "lightctl", 10) \/ DenialOwed \/ WorkIsCurrent

LEMMA SettledKept ==
  ASSUME SettledOK, UNCHANGED <<lightctl, target_output, publish_at>>,
         thread'["lightctl"] = thread["lightctl"],
         Owes(thread, "faultmg", 5) => Owes(thread', "faultmg", 5),
         Owes(thread, "scheduler", 13) => Owes(thread', "scheduler", 13)
  PROVE  SettledOK'
<1>1. UNCHANGED <<target, copied, plan, execution>>
  BY DEF lightctl
<1>2. WorkIsCurrent => WorkIsCurrent'
  BY <1>1 DEF WorkIsCurrent, CopyIsCurrent
<1> QED BY <1>2 DEF SettledOK, DenialOwed, Owes

(* Copied to its last member, the copy is the target.                      *)
LEMMA CopySteps ==
  ASSUME LightctlOK, target_output \in SUBSET Lamps, CopyMember, CopyIsCurrent
  PROVE  /\ CopyIsCurrent'
         /\ copied' = 6 => target' = target_output'
<1>1. /\ target' = target \cup ({LampOrder[copied + 1]} \cap target_output)
      /\ copied' = copied + 1 /\ UNCHANGED target_output
      /\ thread["lightctl"].pc = "copy"
  BY DEF CopyMember, LightctlAt, LightctlKeeps, shared
<1>2. copied \in 0 .. 5
  BY <1>1 DEF LightctlOK
<1>3. \A i : i \in 1 .. copied' <=> i \in 1 .. copied \/ i = copied + 1
  BY <1>1, <1>2
<1>4. CopyIsCurrent'
  <2> SUFFICES ASSUME NEW lamp \in Lamps
               PROVE  lamp \in target' <=>
                        lamp \in target_output /\ \E i \in 1 .. copied' : LampOrder[i] = lamp
    BY <1>1 DEF CopyIsCurrent
  <2>1. lamp \in target <=>
          lamp \in target_output /\ \E i \in 1 .. copied : LampOrder[i] = lamp
    BY DEF CopyIsCurrent
  <2>2. lamp \in target' <=>
          lamp \in target \/ (lamp = LampOrder[copied + 1] /\ lamp \in target_output)
    BY <1>1
  <2> QED BY <1>3, <2>1, <2>2
<1>5. ASSUME copied' = 6 PROVE target' = target_output'
  <2>1. \A lamp \in Lamps : \E i \in 1 .. 6 : LampOrder[i] = lamp
    BY DEF Lamps, LampOrder
  <2>2. \A lamp \in Lamps : lamp \in target' <=> lamp \in target_output
    BY <1>1, <1>4, <1>5, <2>1 DEF CopyIsCurrent
  <2>3. target \subseteq Lamps
    BY DEF LightctlOK
  <2>4. target' \subseteq Lamps
    BY <1>1, <2>3
  <2> QED BY <1>1, <2>2, <2>4
<1> QED BY <1>4, <1>5

(* A plan for the target goes on being one, action by action.              *)
LEMMA PlanGoesOn ==
  ASSUME execution \in ExecutionState, TriggerGpio, plan # <<>>,
         plan = PlanTo(execution, Wanted(target_output))
  PROVE  plan' = PlanTo(execution', Wanted(target_output'))
<1>1. /\ plan' = Tail(plan) /\ execution' = ApplyTransition(execution, Head(plan))
      /\ UNCHANGED target_output
  BY DEF TriggerGpio, LightctlKeeps, shared
<1> DEFINE wanted == Wanted(target_output)
<1>2. wanted \in ExecutionState /\ PlanTo(execution, wanted) # <<>>
  BY WantedType
<1>3. Wanted(target_output') = wanted
  BY <1>1
<1> HIDE DEF wanted
<1>4. Tail(PlanTo(execution, wanted)) =
        PlanTo(ApplyTransition(execution, Head(PlanTo(execution, wanted))), wanted)
  BY <1>2, NextOfPlan
<1>5. plan = PlanTo(execution, wanted)
  BY DEF wanted
<1> QED BY <1>1, <1>3, <1>4, <1>5

LEMMA LightctlWorks ==
  ASSUME Core, Lightctl, ~ReportFault, WorkIsCurrent \/ LightctlNotified
  PROVE  WorkIsCurrent'
<1>1. ThreadsOK(thread) /\ LightctlOK
  BY DEF Core
<1>2. /\ plan # <<>> => Head(plan) \in Actions
      /\ thread["lightctl"].pc \in {"guard", "trigger", "report"} => plan # <<>>
  BY <1>1, PlanDue DEF LightctlOK, InPlan
<1>3. UNCHANGED target_output
  BY LightctlWaits DEF LightctlKeeps, shared
<1>4. CASE LightctlNotified
  <2>1. thread'["lightctl"].pc = "copy"
    BY <1>1, <1>2, <1>4, LightctlSteps DEF Handles
  <2>2. target' = {} /\ copied' = 0
    BY <1>4 DEF LightctlNotified
  <2> QED BY <2>1, <2>2 DEF WorkIsCurrent, CopyIsCurrent
<1>5. CASE CopyMember
  <2>1. thread'["lightctl"].pc = IF copied' = 6 THEN "build" ELSE "copy"
    BY <1>1, <1>2, <1>5, LightctlSteps DEF LightctlMoves, Moves
  <2>2. WorkIsCurrent /\ thread["lightctl"].pc = "copy"
    BY <1>5 DEF CopyMember, LightctlAt, LightctlNotified, Called
  <2>3. CopyIsCurrent' /\ (copied' = 6 => target' = target_output')
    BY <1>1, <1>5, <2>2, CopySteps DEF WorkIsCurrent, Core, InputsOK
  <2> QED BY <2>1, <2>3 DEF WorkIsCurrent
<1>6. CASE BuildPlan
  <2>1. thread'["lightctl"].pc \in {"ready", "guard"}
    BY <1>1, <1>2, <1>6, LightctlSteps DEF LightctlMoves, Moves
  <2>2. WorkIsCurrent /\ thread["lightctl"].pc = "build"
    BY <1>6 DEF BuildPlan, LightctlAt, LightctlNotified, Called
  <2>3. plan' = PlanActions(execution, target_output) /\ UNCHANGED execution
    BY <1>6, <2>2 DEF BuildPlan, WorkIsCurrent
  <2>4. plan' = PlanTo(execution', Wanted(target_output'))
    BY <1>3, <2>3, PlanIsPlanTo
  <2> QED BY <2>1, <2>4 DEF WorkIsCurrent
<1>7. ASSUME UNCHANGED <<plan, execution>>,
             thread["lightctl"].pc \notin {"copy", "build"},
             thread'["lightctl"].pc \notin {"copy", "build"}, WorkIsCurrent
      PROVE  WorkIsCurrent'
  BY <1>3, <1>7 DEF WorkIsCurrent
<1>8. CASE GuardAction
  <2>1. thread'["lightctl"].pc \in {"trigger", "report"}
    BY <1>1, <1>2, <1>8, LightctlSteps DEF LightctlMoves, Moves
  <2>2. /\ UNCHANGED <<plan, execution>> /\ thread["lightctl"].pc = "guard"
        /\ WorkIsCurrent
    BY <1>8 DEF GuardAction, LightctlAt, lightctl, LightctlNotified, Called
  <2> QED BY <1>7, <2>1, <2>2
<1>9. CASE TriggerGpio
  <2>1. thread'["lightctl"].pc \in {"ready", "guard"}
    BY <1>1, <1>2, <1>9, LightctlSteps DEF LightctlWakes, Moves, NextAction
  <2>2. WorkIsCurrent /\ thread["lightctl"].pc = "trigger" /\ plan # <<>>
    BY <1>2, <1>9 DEF TriggerGpio, LightctlAt, LightctlNotified, Called
  <2>3. plan' = PlanTo(execution', Wanted(target_output'))
    BY <1>1, <1>9, <2>2, PlanGoesOn DEF LightctlOK, WorkIsCurrent
  <2> QED BY <2>1, <2>3 DEF WorkIsCurrent
<1>10. CASE Loop("lightctl")
  <2>1. IsWaiting(thread', "lightctl")
    BY <1>1, <1>2, <1>10, LightctlSteps
  <2>2. UNCHANGED <<plan, execution>>
    BY <1>10 DEF Loop, lightctl
  <2>3. WorkIsCurrent
    BY <2>1, <1>10 DEF IsWaiting, LightctlNotified, Called
  <2> QED BY <1>7, <2>1, <2>2, <2>3 DEF IsWaiting
<1> QED BY <1>4, <1>5, <1>6, <1>8, <1>9, <1>10 DEF Lightctl

(* A notification lightctl has not taken up stays.                         *)
LEMMA LightctlStaysTold ==
  ASSUME Core, Lightctl, Owes(thread, "lightctl", 10), ~LightctlNotified
  PROVE  Owes(thread', "lightctl", 10)
<1>1. ThreadsOK(thread) /\ LightctlOK
  BY DEF Core
<1>2. /\ plan # <<>> => Head(plan) \in Actions
      /\ thread["lightctl"].pc = "trigger" => plan # <<>>
  BY <1>1, PlanDue DEF LightctlOK, InPlan
<1>3. \/ \E label : Moves(thread', "lightctl", label)
      \/ IsWaiting(thread', "lightctl")
  BY <1>1, <1>2, LightctlSteps DEF Lightctl, LightctlMoves, LightctlWakes
<1> QED BY <1>3 DEF Moves, IsWaiting, Owes

LEMMA SettledStep == Core /\ SettledOK /\ [SystemNext]_svars => SettledOK'
<1> SUFFICES ASSUME Core, SettledOK, [SystemNext]_svars PROVE SettledOK'
  OBVIOUS
<1>1. ThreadsOK(thread) /\ StepDueOK /\ FaultOK
  BY DEF Core, FaultOK
<1>2. "scheduler" \in PDs /\ "faultmg" \in PDs
  BY SystemNames
<1>3. ASSUME NEW i \in Inputs, Dispatch(i.message, i.value) PROVE SettledOK'
  <2>1. /\ Waits("scheduler") /\ UNCHANGED <<shared, fault, lightctl>>
        /\ thread'["lightctl"] = thread["lightctl"]
        /\ thread'["faultmg"] = thread["faultmg"] \/ Told(thread', "faultmg", 12)
    BY <1>1, <1>3, DispatchSteps DEF Dispatch, Keeps
  <2>2. ~Owes(thread, "scheduler", 13)
    BY <1>1, <1>2, <2>1, WaitsForNothing
  <2>3. Owes(thread, "faultmg", 5) => Owes(thread', "faultmg", 5)
    BY <1>1, <1>2, <2>1, WaitsForNothing DEF Owes, Told, Waits
  <2>4. UNCHANGED <<lightctl, target_output, publish_at>>
    BY <2>1 DEF shared, fault
  <2> QED BY <2>1, <2>2, <2>3, <2>4, SettledKept
<1>4. CASE Scheduler
  <2>1. /\ ThreadsOK(thread') /\ UNCHANGED <<fault, lightctl>>
        /\ thread'["faultmg"] = thread["faultmg"]
        /\ \/ Recomputes
           \/ /\ UNCHANGED shared /\ thread'["lightctl"] = thread["lightctl"]
              /\ \A c \in {13, 15} :
                   c \in thread["scheduler"].todo => c \in thread'["scheduler"].todo
    BY <1>1, <1>4, SchedulerSteps DEF Keeps
  <2>2. CASE Recomputes
    BY <2>2 DEF Recomputes, Told, IsWoken, Owes, SettledOK
  <2>3. CASE /\ UNCHANGED shared /\ thread'["lightctl"] = thread["lightctl"]
             /\ \A c \in {13, 15} :
                  c \in thread["scheduler"].todo => c \in thread'["scheduler"].todo
    <3>1. UNCHANGED <<lightctl, target_output, publish_at>>
      BY <2>1, <2>3 DEF shared, fault
    <3>2. Owes(thread, "scheduler", 13) => Owes(thread', "scheduler", 13)
      BY <1>1, <2>3 DEF Owes, ThreadsOK
    <3> QED BY <2>1, <2>3, <3>1, <3>2, SettledKept DEF Owes
  <2> QED BY <2>1, <2>2, <2>3
<1>5. CASE Gpio
  <2>1. /\ UNCHANGED <<lightctl, target_output, publish_at>>
        /\ thread'["lightctl"] = thread["lightctl"] /\ thread'["faultmg"] = thread["faultmg"]
        /\ thread'["scheduler"] = thread["scheduler"]
    BY <1>1, <1>5, GpioSteps, SystemNames DEF Keeps, Others, fault, shared
  <2> QED BY <2>1, SettledKept DEF Owes
<1>6. CASE Vehicle
  <2>1. /\ VehicleKeeps /\ Waits("scheduler")
        /\ thread'["lightctl"] = thread["lightctl"] /\ thread'["faultmg"] = thread["faultmg"]
    BY <1>1, <1>6, VehicleSteps DEF Keeps
  <2>2. ~Owes(thread, "scheduler", 13)
    BY <1>1, <1>2, <2>1, WaitsForNothing
  <2>3. UNCHANGED <<lightctl, target_output, publish_at>>
    BY <2>1 DEF VehicleKeeps, fault
  <2> QED BY <2>1, <2>2, <2>3, SettledKept DEF Owes
<1>7. CASE Faultmg
  <2>1. /\ UNCHANGED <<shared, lightctl>> /\ thread'["lightctl"] = thread["lightctl"]
        /\ Announces \/ Publishes \/ WorksAlone
    BY <1>1, <1>7, FaultmgSteps DEF Faultmg, Keeps
  <2>2. CASE Announces
    BY <2>2 DEF Announces, SettledOK, DenialOwed, IsWoken, Owes
  <2>3. CASE Publishes
    BY <2>3 DEF Publishes, SettledOK, DenialOwed
  <2>4. CASE WorksAlone
    <3>1. /\ UNCHANGED <<lightctl, target_output, publish_at>>
          /\ thread'["scheduler"] = thread["scheduler"]
          /\ Owes(thread, "faultmg", 5) => Owes(thread', "faultmg", 5)
      BY <2>1, <2>4 DEF WorksAlone, shared
    <3>2. Owes(thread, "scheduler", 13) => Owes(thread', "scheduler", 13)
      BY <3>1 DEF Owes
    <3> QED BY <2>1, <3>1, <3>2, SettledKept
  <2> QED BY <2>1, <2>2, <2>3, <2>4
<1>8. CASE Lightctl
  <2>1. CASE ReportFault
    BY <1>8, <2>1, LightctlOthers DEF SettledOK, DenialOwed, IsWoken, Owes
  <2>2. CASE ~ReportFault
    <3>1. Waits("faultmg") /\ Waits("scheduler")
      BY <1>8, LightctlWaits
    <3>2. ~DenialOwed
      BY <1>1, <1>2, <3>1, WaitsForNothing, FaultmgAtRest DEF DenialOwed
    <3>3. CASE Owes(thread, "lightctl", 10) /\ ~LightctlNotified
      BY <1>8, <3>3, LightctlStaysTold DEF SettledOK
    <3>4. CASE WorkIsCurrent \/ LightctlNotified
      BY <1>8, <2>2, <3>4, LightctlWorks DEF SettledOK
    <3> QED BY <3>2, <3>3, <3>4 DEF SettledOK
  <2> QED BY <2>1, <2>2
<1>9. CASE UNCHANGED svars
  BY <1>9, SettledKept DEF svars, vars, shared
<1> QED BY <1>3, <1>4, <1>5, <1>6, <1>7, <1>8, <1>9 DEF SystemNext

(* Work lightctl does on a stale target or mode is always owed a repeat.   *)
THEOREM SettledInvariant == SystemSpec => []SettledOK
<1>1. SystemInit => SettledOK
  BY InitialThreads DEF SettledOK
<1> QED BY <1>1, SettledStep, CoreInvariant, PTL DEF SystemSpec

(* Stale and torn copies and denied actions notwithstanding, the pins show *)
(* the target at rest.                                                     *)
LEMMA PinsAtRest ==
  ASSUME Core, GpioOK, SettledOK, AtRest
  PROVE  pins = Lit(Wanted(target_output))
<1>1. /\ Waits("scheduler") /\ Waits("faultmg") /\ Waits("gpio") /\ Waits("lightctl")
      /\ "scheduler" \in PDs /\ "faultmg" \in PDs /\ "lightctl" \in PDs
  BY SystemNames DEF AtRest, Waits
<1>2. WorkIsCurrent
  BY <1>1, WaitsForNothing, FaultmgAtRest DEF SettledOK, DenialOwed, Core
<1>3. plan = PlanTo(execution, Wanted(target_output)) /\ plan = <<>>
  BY <1>1, <1>2 DEF WorkIsCurrent, Core, LightctlOK, InPlan, Waits
<1>4. execution \in ExecutionState /\ Wanted(target_output) \in ExecutionState
  BY WantedType DEF Core, LightctlOK
<1>5. execution = Wanted(target_output)
  <2> DEFINE wanted == Wanted(target_output)
  <2>1. PlanTo(execution, wanted) = <<>> /\ wanted \in ExecutionState
    BY <1>3, <1>4
  <2> HIDE DEF wanted
  <2>2. execution = wanted
    BY <1>4, <2>1, PlanSteps
  <2> QED BY <2>2 DEF wanted
<1> QED BY <1>1, <1>5, GpioAtRest DEF Core

(* Every lamp of the target, a turn lamp aside while both are asked for,   *)
(* is lit at rest and no other is, whatever was torn, stale or denied.     *)
THEOREM PinsShowTheTarget == SystemSpec => []PinsShowTargetAtRest
<1>1. Core /\ GpioOK /\ SettledOK => PinsShowTargetAtRest
  BY PinsAtRest DEF PinsShowTargetAtRest
<1> QED BY <1>1, CoreInvariant, GpioInvariant, SettledInvariant, PTL

(* The output profiles of the two severe modes reach the pins.             *)
THEOREM SevereModesReachThePins == SystemSpec => []SafePinsAtRest
<1>1. Core /\ GpioOK /\ TargetOK /\ SettledOK => SafePinsAtRest
  <2> SUFFICES ASSUME Core, GpioOK, TargetOK, SettledOK, AtRest PROVE SafePinsAtRest
    BY DEF SafePinsAtRest
  <2>1. Waits("scheduler") /\ Waits("vehicle_state") /\ Waits("faultmg")
    BY SystemNames DEF AtRest, Waits
  <2>2. shmem_fault["fault_mode"] = fault_state.mode
    BY <2>1, FaultmgAtRest DEF Core
  <2> DEFINE requested == RequestedTarget(operator_request, vehicle_state)
  <2>3. target_output = OutputPolicy(requested, fault_state.mode)
    BY <2>1, <2>2, TargetAtRest DEF TargetIsCurrent, ComputeTarget
  <2>4. requested \in SUBSET Lamps
    <3>1. operator_request \in SUBSET Lamps
      BY DEF Core, InputsOK
    <3> QED BY <3>1, RequestedType
  <2> HIDE DEF requested
  <2>5. pins = Lit(Wanted(OutputPolicy(requested, fault_state.mode)))
    BY <2>3, PinsAtRest
  <2>6. fault_state.mode >= DEGRADED => fault_state.mode \in {DEGRADED, SAFE_MODE}
    BY DEF Core, FaultOK, DataOK, FaultState, FaultModes, NORMAL, DEGRADED, SAFE_MODE
  <2>7. SAFE_MODE >= DEGRADED
    BY DEF DEGRADED, SAFE_MODE
  <2> QED BY <2>4, <2>5, <2>6, <2>7, PolicyLights DEF SafePinsAtRest
<1> QED BY <1>1, CoreInvariant, GpioInvariant, TargetInvariant, SettledInvariant, PTL

-------------------------------------------------------------------------------
(* A console that waits for the result (MaxRaces = 0): sync_outputs runs   *)
(* with nothing above it at work, on copies that are all current, until a  *)
(* denial that only an emergency can bring.                                *)
InSync == thread["lightctl"].pc \in {"copy", "build", "guard", "trigger", "report"}

AgreesOK ==
  /\ Waits("scheduler") /\ Waits("faultmg")
  /\ thread["lightctl"].pc # "report"
  /\ WorkIsCurrent
  /\ InPlan => mode_cache = shmem_fault["fault_mode"]

PacedOK ==
  (MaxRaces = 0 /\ InSync) =>
    /\ Waits("vehicle_state")
    /\ ~HazardActive(vehicle_state) => AgreesOK

RacesOK == races \in Nat

LEMMA PacedDispatch ==
  ASSUME RacesOK, MaxRaces = 0, NEW m, NEW value, Dispatch(m, value)
  PROVE  AtRest
BY DEF Dispatch, RacesOK

LEMMA RacesInvariant == SystemSpec => []RacesOK
<1>1. SystemInit => RacesOK
  BY DEF SystemInit, RacesOK
<1>2. RacesOK /\ [SystemNext]_svars => RacesOK'
  BY DEF RacesOK, SystemNext, svars, Dispatch, Scheduler, SchedulerCommand, SchedulerFaultMode,
         SchedulerVehicleState, Gpio, GpioFaultMode, GpioAction, Vehicle, VehicleReadType,
         VehicleReadLen, VehicleReadField, VehicleReadValue, VehicleApply, VehicleNotify,
         VehicleKeeps, Faultmg, Lightctl, LightctlNotified, CopyMember, BuildPlan,
         GuardAction, ReportFault, TriggerGpio, LightctlKeeps, Loop, console
<1> QED BY <1>1, <1>2, PTL DEF SystemSpec

(* The guard, of the action a current plan begins with.                    *)
LEMMA GuardPasses ==
  ASSUME Core, TargetIsCurrent, ~HazardActive(vehicle_state), plan # <<>>,
         plan = PlanTo(execution, Wanted(target_output)),
         mode_cache = shmem_fault["fault_mode"]
  PROVE  GuardError(Head(plan), execution, mode_cache, vehicle_speed) = 0
<1> DEFINE wanted == Wanted(target_output)
<1>1. /\ execution \in ExecutionState /\ mode_cache \in FaultModes
      /\ operator_request \in SUBSET Lamps /\ vehicle_state \in VehicleState
      /\ vehicle_speed \in 0 .. 180
  BY DEF Core, LightctlOK, InputsOK
<1>2. wanted \in ExecutionState /\ PlanTo(execution, wanted) # <<>>
  BY WantedType
<1>3. /\ target_output = ComputeTarget(operator_request, vehicle_state, mode_cache)
      /\ vehicle_speed = vehicle_state.speed_kph
  BY DEF TargetIsCurrent
<1>4. plan = PlanTo(execution, wanted)
  OBVIOUS
<1>5. wanted = Wanted(ComputeTarget(operator_request, vehicle_state, mode_cache))
  BY <1>3
<1> HIDE DEF wanted
<1>6. CASE Head(plan).on
  <2>1. /\ Head(plan) = On(Head(plan).lamp) /\ Head(plan).lamp \in Lit(wanted)
        /\ Head(plan).lamp \in Turns => execution.brake = wanted.brake
    BY <1>1, <1>2, <1>4, <1>6, NextOfPlan
  <2>a. PICK lamp : lamp = Head(plan).lamp
    OBVIOUS
  <2>2. /\ lamp \in Lit(Wanted(ComputeTarget(operator_request, vehicle_state, mode_cache)))
        /\ lamp \in Turns =>
             execution.brake =
               Wanted(ComputeTarget(operator_request, vehicle_state, mode_cache)).brake
    BY <1>5, <2>1, <2>a
  <2>3. ~HazardActive(vehicle_state)
    OBVIOUS
  <2>4. GuardError(On(lamp), execution, mode_cache, vehicle_state.speed_kph) = 0
    BY ONLY <1>1, <2>2, <2>3, GuardAcceptsPolicy
  <2> QED BY <1>3, <2>1, <2>4, <2>a
<1>7. CASE ~Head(plan).on
  <2>1. Head(plan) = Off(Head(plan).lamp) /\ Head(plan).lamp \in Lit(execution)
    BY <1>1, <1>2, <1>4, <1>7, NextOfPlan
  <2>2. vehicle_speed \in Word
    BY <1>1, WordFacts
  <2>3. GuardError(Off(Head(plan).lamp), execution, mode_cache, vehicle_speed) = 0
    BY <1>1, <2>1, <2>2, GuardAcceptsOff
  <2> QED BY <2>1, <2>3
<1> QED BY <1>6, <1>7

LEMMA PacedKept ==
  ASSUME PacedOK, UNCHANGED <<lightctl, target_output, vehicle_state, shmem_fault>>,
         thread'["lightctl"] = thread["lightctl"],
         thread'["vehicle_state"] = thread["vehicle_state"],
         thread'["scheduler"] = thread["scheduler"],
         thread'["faultmg"] = thread["faultmg"]
  PROVE  PacedOK'
<1>1. UNCHANGED <<target, copied, plan, execution, mode_cache>>
  BY DEF lightctl
<1> QED BY <1>1 DEF PacedOK, AgreesOK, WorkIsCurrent, CopyIsCurrent, InSync, InPlan, Waits,
                    HazardActive

(* A thread that is not inside sync_outputs, and is not taken into it.     *)
LEMMA OutOfSync ==
  ASSUME MaxRaces = 0 => ~InSync,
         thread'["lightctl"] = thread["lightctl"] \/ Told(thread', "lightctl", 10)
  PROVE  PacedOK'
BY FarThread DEF PacedOK, InSync

LEMMA LightctlAgrees ==
  ASSUME Core, TargetOK, PacedOK, Lightctl, MaxRaces = 0, InSync',
         ~HazardActive(vehicle_state)
  PROVE  AgreesOK'
<1>1. ThreadsOK(thread) /\ LightctlOK
  BY DEF Core
<1>2. /\ plan # <<>> => Head(plan) \in Actions
      /\ thread["lightctl"].pc \in {"guard", "trigger", "report"} => plan # <<>>
  BY <1>1, PlanDue DEF LightctlOK, InPlan
<1>3. /\ Waits("scheduler") /\ Waits("faultmg") /\ Waits("vehicle_state")
      /\ UNCHANGED shmem_fault
  BY LightctlWaits DEF LightctlKeeps, fault
<1>4. LightctlNotified \/ InSync
  <2>1. CASE Loop("lightctl")
    <3>1. IsWaiting(thread', "lightctl")
      BY <1>1, <1>2, <2>1, LightctlSteps
    <3> QED BY <3>1 DEF IsWaiting, InSync
  <2> QED BY <2>1 DEF Lightctl, CopyMember, BuildPlan, GuardAction, ReportFault, TriggerGpio,
                      LightctlAt, InSync
<1>5. AgreesOK \/ LightctlNotified
  BY <1>4 DEF PacedOK
<1>6. ~ReportFault
  BY <1>5 DEF AgreesOK, ReportFault, LightctlAt, LightctlNotified, Called
<1>7. WorkIsCurrent'
  BY <1>5, <1>6, LightctlWorks DEF AgreesOK
<1>8. Waits("scheduler")' /\ Waits("faultmg")'
  BY <1>3, <1>6, LightctlOthers DEF Waits, Keeps
<1>9. TargetIsCurrent
  BY <1>3, TargetAtRest
<1>10. CASE LightctlNotified
  <2>1. thread'["lightctl"].pc = "copy"
    BY <1>1, <1>2, <1>10, LightctlSteps DEF Handles
  <2> QED BY <1>7, <1>8, <2>1 DEF AgreesOK, InPlan
<1>11. CASE CopyMember
  <2>1. thread'["lightctl"].pc \in {"copy", "build"}
    BY <1>1, <1>2, <1>11, LightctlSteps DEF LightctlMoves, Moves
  <2> QED BY <1>7, <1>8, <2>1 DEF AgreesOK, InPlan
<1>12. CASE BuildPlan
  <2>1. thread'["lightctl"].pc \in {"ready", "guard"}
    BY <1>1, <1>2, <1>12, LightctlSteps DEF LightctlMoves, Moves
  <2>2. mode_cache' = shmem_fault'["fault_mode"]
    BY <1>3, <1>12 DEF BuildPlan
  <2> QED BY <1>7, <1>8, <2>1, <2>2 DEF AgreesOK, InPlan
<1>13. CASE GuardAction
  <2>1. UNCHANGED mode_cache /\ thread["lightctl"].pc = "guard" /\ plan # <<>>
    BY <1>2, <1>13 DEF GuardAction, LightctlAt, lightctl
  <2>2. /\ plan = PlanTo(execution, Wanted(target_output))
        /\ mode_cache = shmem_fault["fault_mode"]
    BY <1>5, <2>1 DEF AgreesOK, WorkIsCurrent, InPlan, LightctlNotified, Called
  <2>3. GuardError(Head(plan), execution, mode_cache, vehicle_speed) = 0
    BY <1>9, <2>1, <2>2, GuardPasses
  <2> HIDE DEF GuardError
  <2>4. thread'["lightctl"].pc = "trigger"
    BY <1>1, <1>2, <1>13, <2>3, LightctlSteps DEF LightctlMoves, Moves
  <2>5. mode_cache' = shmem_fault'["fault_mode"]
    BY <1>3, <2>1, <2>2
  <2> QED BY <1>7, <1>8, <2>4, <2>5 DEF AgreesOK
<1>14. CASE TriggerGpio
  <2>1. UNCHANGED mode_cache /\ thread["lightctl"].pc = "trigger"
    BY <1>14 DEF TriggerGpio, LightctlAt
  <2>2. mode_cache = shmem_fault["fault_mode"]
    BY <1>5, <2>1 DEF AgreesOK, InPlan, LightctlNotified, Called
  <2>3. thread'["lightctl"].pc \in {"ready", "guard"}
    BY <1>1, <1>2, <1>14, LightctlSteps DEF LightctlWakes, Moves, NextAction
  <2> QED BY <1>3, <1>7, <1>8, <2>1, <2>2, <2>3 DEF AgreesOK
<1>15. CASE Loop("lightctl")
  BY <1>1, <1>2, <1>15, LightctlSteps DEF IsWaiting, InSync
<1> QED BY <1>6, <1>10, <1>11, <1>12, <1>13, <1>14, <1>15 DEF Lightctl

LEMMA PacedStep == Core /\ TargetOK /\ RacesOK /\ PacedOK /\ [SystemNext]_svars => PacedOK'
<1> SUFFICES ASSUME Core, TargetOK, RacesOK, PacedOK, [SystemNext]_svars PROVE PacedOK'
  OBVIOUS
<1>1. ThreadsOK(thread) /\ StepDueOK /\ "lightctl" \in PDs
  BY SystemNames DEF Core, FaultOK
<1>2. ASSUME NEW i \in Inputs, Dispatch(i.message, i.value) PROVE PacedOK'
  <2>1. thread'["lightctl"] = thread["lightctl"]
    BY <1>1, <1>2, DispatchSteps DEF Keeps
  <2>2. MaxRaces = 0 => ~InSync
    BY <1>1, <1>2, PacedDispatch DEF AtRest, InSync
  <2> QED BY <2>1, <2>2, OutOfSync
<1>3. CASE Scheduler
  <2>1. /\ Keeps(thread', {"gpio", "commandin", "vehicle_state", "faultmg"})
        /\ UNCHANGED <<vehicle_state, lightctl>>
        /\ thread'["lightctl"] = thread["lightctl"] \/ Told(thread', "lightctl", 10)
    BY <1>1, <1>3, SchedulerSteps DEF Recomputes
  <2>2. ~Waits("scheduler")
    BY <1>3 DEF Scheduler, SchedulerCommand, SchedulerFaultMode, SchedulerVehicleState, Loop,
                Wait, Called, Waits
  <2>3. thread'["lightctl"].pc \in {"copy", "build", "guard", "trigger", "report"} =>
          thread["lightctl"].pc \in {"copy", "build", "guard", "trigger", "report"}
    BY <2>1, FarThread
  <2> QED BY <2>1, <2>2, <2>3 DEF PacedOK, AgreesOK, InSync, Keeps, Waits, HazardActive
<1>4. CASE Gpio
  <2>1. /\ UNCHANGED <<lightctl, target_output, vehicle_state, shmem_fault>>
        /\ thread'["lightctl"] = thread["lightctl"]
        /\ thread'["vehicle_state"] = thread["vehicle_state"]
        /\ thread'["scheduler"] = thread["scheduler"]
        /\ thread'["faultmg"] = thread["faultmg"]
    BY <1>1, <1>4, GpioSteps, SystemNames DEF Keeps, Others, fault, shared
  <2> QED BY <2>1, PacedKept
<1>5. CASE Vehicle
  <2>1. ~Waits("vehicle_state") /\ thread'["lightctl"] = thread["lightctl"]
    BY <1>1, <1>5, VehicleSteps DEF Keeps
  <2> QED BY <2>1, OutOfSync DEF PacedOK
<1>6. CASE Faultmg
  <2>1. /\ ~Waits("faultmg") /\ UNCHANGED <<shared, lightctl>>
        /\ Keeps(thread', {"commandin", "vehicle_state", "lightctl"})
    BY <1>1, <1>6, FaultmgSteps DEF Faultmg
  <2>2. UNCHANGED vehicle_state
    BY <2>1 DEF shared
  <2> QED BY <2>1, <2>2 DEF PacedOK, AgreesOK, InSync, Keeps, Waits, HazardActive
<1>7. CASE Lightctl
  <2>1. /\ Waits("vehicle_state") /\ UNCHANGED vehicle_state
        /\ thread'["vehicle_state"] = thread["vehicle_state"]
    BY <1>7, LightctlWaits, LightctlOthers DEF LightctlKeeps, shared, Keeps
  <2>2. ASSUME MaxRaces = 0, InSync', ~HazardActive(vehicle_state')
        PROVE  AgreesOK'
    BY <1>7, <2>1, <2>2, LightctlAgrees DEF HazardActive
  <2> QED BY <2>1, <2>2 DEF PacedOK, Waits
<1>8. CASE UNCHANGED svars
  BY <1>8, PacedKept DEF svars, vars, shared
<1> QED BY <1>2, <1>3, <1>4, <1>5, <1>6, <1>7, <1>8 DEF SystemNext

(* With a console that waits for the result and no emergency on, the guard *)
(* rejects nothing the scheduler asked for.                                *)
THEOREM GuardNeverDisagrees == SystemSpec => []GuardAgreesWithPolicy
<1>1. SystemInit => PacedOK
  BY InitialThreads DEF PacedOK, InSync
<1>2. PacedOK => GuardAgreesWithPolicy
  BY DEF PacedOK, AgreesOK, InSync, GuardAgreesWithPolicy
<1> QED BY <1>1, <1>2, PacedStep, CoreInvariant, TargetInvariant, RacesInvariant, PTL
        DEF SystemSpec

-------------------------------------------------------------------------------
(* The message in the slot is one that commandin's parser lets through.    *)
BufferOK == input_buffer.type # "INVALID" =>
              CheckTransportMessage(input_buffer, input_buffer.type) = "OK"

(* A light command has been applied, or the scheduler's call for it is due.*)
CommandApplied ==
  LET cmd == CommandOf(input_buffer.payload)
  IN  (input_buffer.type = "LIGHT_CMD" /\ IsCommand(input_buffer.payload)) =>
        Owes(thread, "scheduler", 4) \/ (cmd.lamp \in operator_request <=> cmd.on)

LEMMA BufferStep == BufferOK /\ [SystemNext]_svars => BufferOK'
<1> SUFFICES ASSUME BufferOK, [SystemNext]_svars PROVE BufferOK'
  OBVIOUS
<1>1. ASSUME NEW i \in Inputs, Dispatch(i.message, i.value) PROVE BufferOK'
  <2>1. input_buffer' = i.message /\ i.message \in Messages
    BY <1>1, InputsAssumption DEF Dispatch
  <2> QED BY <2>1, MessagesAssumption DEF BufferOK
<1>2. CASE UNCHANGED input_buffer
  BY <1>2 DEF BufferOK
<1>3. Scheduler \/ Gpio \/ Vehicle \/ Faultmg \/ Lightctl \/ UNCHANGED svars
        => UNCHANGED input_buffer
  <2>1. Scheduler => UNCHANGED input_buffer
    BY DEF Scheduler, SchedulerCommand, SchedulerFaultMode, SchedulerVehicleState, Loop
  <2>2. Gpio => UNCHANGED input_buffer
    BY DEF Gpio, GpioFaultMode, GpioAction, Loop
  <2>3. Vehicle => UNCHANGED input_buffer
    BY DEF Vehicle, VehicleReadType, VehicleReadLen, VehicleReadField, VehicleReadValue,
           VehicleApply, VehicleNotify, VehicleKeeps, Loop
  <2>4. Faultmg => UNCHANGED input_buffer
    BY DEF Faultmg, Handler, EventLoop, NotifiedByLightctl, ReadType, ReadLen, ReadPayload,
           InjectFault, ClearFault, Reject, Publish, PublishField, StoreFaultMode, NotifyGpio,
           NotifyScheduler
  <2>5. Lightctl => UNCHANGED input_buffer
    BY LightctlWaits DEF LightctlKeeps
  <2> QED BY <2>1, <2>2, <2>3, <2>4, <2>5 DEF svars, vars
<1> QED BY <1>1, <1>2, <1>3 DEF SystemNext

LEMMA BufferInvariant == SystemSpec => []BufferOK
<1>1. SystemInit => BufferOK
  BY DEF SystemInit, BufferOK, EmptyMessage
<1> QED BY <1>1, BufferStep, PTL DEF SystemSpec

(* A command applied is in the request, whatever it displaces there.       *)
LEMMA CommandTakesHold ==
  ASSUME NEW req \in SUBSET Lamps, NEW cmd \in Commands
  PROVE  cmd.lamp \in ApplyOperatorCommand(req, cmd) <=> cmd.on
BY DEF ApplyOperatorCommand, Commands, Lamps, Turns, Beams

(* The scheduler applies a command when it is called for one, and at no    *)
(* other time.                                                             *)
LEMMA SchedulerAndCommands ==
  ASSUME Core, BufferOK, Scheduler
  PROVE  \/ /\ UNCHANGED operator_request
            /\ Owes(thread, "scheduler", 4) => Owes(thread', "scheduler", 4)
         \/ /\ input_buffer.type = "LIGHT_CMD" /\ IsCommand(input_buffer.payload) =>
                 operator_request' = ApplyOperatorCommand(operator_request,
                                                          CommandOf(input_buffer.payload))
<1>1. ThreadsOK(thread)
  BY DEF Core
<1>2. "ready" \in SystemLabels /\ "ready" # "blocked" /\ "scheduler" \in PDs /\ "scheduler" # "commandin"
  BY SystemNames, SystemLabelNames
<1>3. CASE SchedulerCommand
  BY <1>3 DEF SchedulerCommand, Recompute, BufferOK
<1>4. ASSUME NEW c, c # 4, Recompute(operator_request, Enter("scheduler", c, "ready"))
      PROVE  /\ UNCHANGED operator_request
             /\ Owes(thread, "scheduler", 4) => Owes(thread', "scheduler", 4)
  <2>1. /\ UNCHANGED operator_request
        /\ thread' = Signal(Enter("scheduler", c, "ready"), "lightctl", 10)
    BY <1>4, SystemNames DEF Recompute
  <2>2. Handles(thread', "scheduler", c, "ready")
    <3> DEFINE s == Signal(Enter("scheduler", c, "ready"), "lightctl", 10)
    <3>1. Handles(s, "scheduler", c, "ready")
      BY <1>1, EnteredAndTold, SystemNames
    <3> QED BY <2>1, <3>1
  <2> QED BY <1>4, <2>1, <2>2 DEF Handles, Owes
<1>5. CASE SchedulerFaultMode \/ SchedulerVehicleState
  <2>1. \/ Recompute(operator_request, Enter("scheduler", 13, "ready"))
        \/ Recompute(operator_request, Enter("scheduler", 15, "ready"))
    BY <1>5, SystemNames DEF SchedulerFaultMode, SchedulerVehicleState
  <2> QED BY <1>4, <2>1
<1>6. CASE Loop("scheduler")
  <2>1. IsWaiting(thread', "scheduler") /\ UNCHANGED operator_request
    BY <1>1, <1>2, <1>6, LoopStep DEF shared
  <2> QED BY <2>1 DEF IsWaiting, Owes
<1> QED BY <1>3, <1>5, <1>6 DEF Scheduler

LEMMA CommandAppliedStep ==
  Core /\ BufferOK /\ CommandApplied /\ [SystemNext]_svars => CommandApplied'
<1> SUFFICES ASSUME Core, BufferOK, CommandApplied, [SystemNext]_svars PROVE CommandApplied'
  OBVIOUS
<1>1. /\ ThreadsOK(thread) /\ StepDueOK /\ "scheduler" \in PDs
  BY SystemNames DEF Core, FaultOK
<1>2. ASSUME UNCHANGED <<input_buffer, operator_request>>,
             Owes(thread, "scheduler", 4) => Owes(thread', "scheduler", 4)
      PROVE  CommandApplied'
  BY <1>2 DEF CommandApplied
<1>3. ASSUME UNCHANGED <<input_buffer, shared>>,
             \/ thread'["scheduler"] = thread["scheduler"]
             \/ Waits("scheduler")
      PROVE  CommandApplied'
  <2>1. Owes(thread, "scheduler", 4) => Owes(thread', "scheduler", 4)
    BY <1>1, <1>3, WaitsForNothing DEF Owes
  <2> QED BY <1>2, <1>3, <2>1 DEF shared
<1>4. ASSUME NEW i \in Inputs, Dispatch(i.message, i.value) PROVE CommandApplied'
  <2>1. /\ i.message.type = "LIGHT_CMD" => IsWoken(thread', "scheduler", 4)
        /\ input_buffer' = i.message
    BY <1>1, <1>4, DispatchSteps DEF Dispatch
  <2> QED BY <2>1 DEF CommandApplied, IsWoken, Owes
<1>5. CASE Scheduler
  <2>1. UNCHANGED input_buffer /\ operator_request \in SUBSET Lamps /\ input_buffer.payload \in Byte
    BY <1>1, <1>5, SchedulerSteps DEF Core, InputsOK, FaultOK, DataOK, Message
  <2>2. CASE /\ UNCHANGED operator_request
             /\ Owes(thread, "scheduler", 4) => Owes(thread', "scheduler", 4)
    BY <1>2, <2>1, <2>2
  <2>3. CASE input_buffer.type = "LIGHT_CMD" /\ IsCommand(input_buffer.payload) =>
               operator_request' = ApplyOperatorCommand(operator_request,
                                                        CommandOf(input_buffer.payload))
    <3> DEFINE cmd == CommandOf(input_buffer.payload)
    <3>1. IsCommand(input_buffer.payload) =>
            (cmd.lamp \in ApplyOperatorCommand(operator_request, cmd) <=> cmd.on)
      BY <2>1, CommandType, CommandTakesHold
    <3> HIDE DEF cmd
    <3>2. (input_buffer.type = "LIGHT_CMD" /\ IsCommand(input_buffer.payload)) =>
            (cmd.lamp \in operator_request' <=> cmd.on)
      BY <2>3, <3>1 DEF cmd
    <3> QED BY <2>1, <3>2 DEF CommandApplied, cmd
  <2> QED BY <1>5, <2>2, <2>3, SchedulerAndCommands
<1>6. CASE Gpio
  BY <1>1, <1>3, <1>6, GpioSteps, SystemNames DEF Keeps, Others
<1>7. CASE Vehicle
  <2>1. VehicleKeeps /\ Waits("scheduler")
    BY <1>1, <1>7, VehicleSteps
  <2>2. ~Owes(thread, "scheduler", 4)
    BY <1>1, <2>1, WaitsForNothing
  <2> QED BY <1>2, <2>1, <2>2 DEF VehicleKeeps
<1>8. CASE Faultmg
  <2>1. Handler /\ UNCHANGED shared
    BY <1>8 DEF Faultmg
  <2>2. UNCHANGED input_buffer /\ Waits("scheduler")
    BY <1>1, <2>1, FaultmgSteps
  <2> QED BY <1>3, <2>1, <2>2
<1>9. CASE Lightctl
  BY <1>3, <1>9, LightctlOthers, LightctlWaits DEF Keeps, LightctlKeeps
<1>10. CASE UNCHANGED svars
  BY <1>3, <1>10 DEF svars, vars
<1> QED BY <1>4, <1>5, <1>6, <1>7, <1>8, <1>9, <1>10 DEF SystemNext

-------------------------------------------------------------------------------
(* vehicle_state, when nobody writes the slot while it copies: what it has *)
(* copied is what the slot holds, and what it is done with is applied.     *)
Copying(label) == label \in {"read_len", "read_field", "read_value", "apply"}

CopyMatchesSlot ==
  LET label == thread["vehicle_state"].pc
  IN  /\ Copying(label) => request.type = input_buffer.type
      /\ label \in {"read_field", "read_value", "apply"} => request.len = input_buffer.len
      /\ label \in {"read_value", "apply"} => request.payload = input_buffer.payload
      /\ label = "apply" => request.value = buffer_value

Updated ==
  LET field == FieldName(input_buffer.payload)
  IN  /\ input_buffer.type = "VEHICLE_STATE_UPDATE"
      /\ RequestIsValid(field, buffer_value)
      => vehicle_state[field] = buffer_value

UpdateDue == Owes(thread, "vehicle_state", 18) \/ Copying(thread["vehicle_state"].pc)

UpdateOK == MaxRaces = 0 => CopyMatchesSlot /\ (UpdateDue \/ Updated)

LEMMA UpdateKept ==
  ASSUME UpdateOK, thread'["vehicle_state"] = thread["vehicle_state"],
         UNCHANGED <<input_buffer, buffer_value, request, vehicle_state>>
  PROVE  UpdateOK'
BY DEF UpdateOK, CopyMatchesSlot, Updated, UpdateDue, Owes

(* What each step of vehicle_state does to its own thread.                 *)
LEMMA VehicleMoves ==
  ASSUME ThreadsOK(thread), Vehicle
  PROVE  /\ VehicleReadType => Handles(thread', "vehicle_state", 18, "read_len")
         /\ VehicleReadLen => Moves(thread', "vehicle_state", "read_field")
         /\ VehicleReadField => Moves(thread', "vehicle_state", "read_value")
         /\ VehicleReadValue => Moves(thread', "vehicle_state", "apply")
         /\ VehicleApply => \E label \in {"ready", "notify"} :
                              Moves(thread', "vehicle_state", label)
         /\ VehicleNotify => Moves(thread', "vehicle_state", "ready")
         /\ Loop("vehicle_state") => IsWaiting(thread', "vehicle_state")
<1>0. "vehicle_state" \in PDs /\ "vehicle_state" # "commandin"
  BY SystemNames
<1>1. ASSUME NEW label \in SystemLabels, label # "blocked", thread' = Goto("vehicle_state", label)
      PROVE  Moves(thread', "vehicle_state", label)
  BY <1>1, GoneTo
<1>2. VehicleReadType => Handles(thread', "vehicle_state", 18, "read_len")
  <2> SUFFICES ASSUME VehicleReadType PROVE Handles(thread', "vehicle_state", 18, "read_len")
    OBVIOUS
  <2>1. thread' = Enter("vehicle_state", 18, "read_len")
    BY SystemNames DEF VehicleReadType
  <2>2. "read_len" \in SystemLabels /\ "read_len" # "blocked"
    BY SystemLabelNames
  <2> QED BY <1>0, <2>1, <2>2, Entered
<1>3. VehicleReadLen => Moves(thread', "vehicle_state", "read_field")
  BY <1>1, SystemLabelNames DEF VehicleReadLen
<1>4. VehicleReadField => Moves(thread', "vehicle_state", "read_value")
  BY <1>1, SystemLabelNames DEF VehicleReadField
<1>5. VehicleReadValue => Moves(thread', "vehicle_state", "apply")
  BY <1>1, SystemLabelNames DEF VehicleReadValue
<1>6. VehicleApply => \E label \in {"ready", "notify"} : Moves(thread', "vehicle_state", label)
  <2> SUFFICES ASSUME VehicleApply
               PROVE  \E label \in {"ready", "notify"} : Moves(thread', "vehicle_state", label)
    OBVIOUS
  <2>1. PICK label \in {"ready", "notify"} : thread' = Goto("vehicle_state", label)
    BY DEF VehicleApply
  <2>2. label \in SystemLabels /\ label # "blocked"
    BY <2>1, SystemLabelNames
  <2> QED BY <1>1, <2>1, <2>2
<1>7. VehicleNotify => Moves(thread', "vehicle_state", "ready")
  <2> SUFFICES ASSUME VehicleNotify PROVE Moves(thread', "vehicle_state", "ready")
    OBVIOUS
  <2>1. thread' = Signal(Goto("vehicle_state", "ready"), "scheduler", 15)
    BY SystemNames DEF VehicleNotify
  <2>2. /\ "ready" \in SystemLabels /\ "ready" # "blocked" /\ 15 \in Channels
        /\ "vehicle_state" \in {"vehicle_state", "faultmg", "lightctl"}
        /\ "scheduler" \in {"scheduler", "gpio", "faultmg"} /\ "scheduler" # "vehicle_state"
    BY SystemNames, SystemLabelNames
  <2>3. Waits("scheduler")
    BY VehicleSteps
  <2> DEFINE s == Signal(Goto("vehicle_state", "ready"), "scheduler", 15)
  <2>4. Moves(s, "vehicle_state", "ready")
    BY <2>2, <2>3, GoneAndWoken
  <2> QED BY <2>1, <2>4
<1>8. Loop("vehicle_state") => IsWaiting(thread', "vehicle_state")
  BY <1>0, LoopStep
<1> QED BY <1>2, <1>3, <1>4, <1>5, <1>6, <1>7, <1>8

LEMMA VehicleUpdates ==
  ASSUME Core, BufferOK, UpdateOK, Vehicle
  PROVE  UpdateOK'
<1> SUFFICES ASSUME MaxRaces = 0 PROVE (CopyMatchesSlot /\ (UpdateDue \/ Updated))'
  BY DEF UpdateOK
<1>1. ThreadsOK(thread)
  BY DEF Core
<1>2. UNCHANGED <<input_buffer, buffer_value>>
  <2>1. VehicleKeeps
    BY <1>1, VehicleSteps
  <2> QED BY <2>1 DEF VehicleKeeps, console
<1>3. CopyMatchesSlot /\ (UpdateDue \/ Updated)
  BY DEF UpdateOK
<1>4. request \in Request /\ vehicle_state \in VehicleState
  BY DEF Core, InputsOK
<1>5. CASE VehicleReadType
  <2>1. request' = [EmptyRequest EXCEPT !.type = input_buffer.type]
    BY <1>5 DEF VehicleReadType
  <2>2. request'.type = input_buffer.type
    BY <2>1 DEF EmptyRequest
  <2>3. thread'["vehicle_state"].pc = "read_len"
    BY <1>1, <1>5, VehicleMoves DEF Handles
  <2> QED BY <1>2, <2>2, <2>3 DEF CopyMatchesSlot, UpdateDue, Copying
<1>6. CASE VehicleReadLen
  <2>1. request' = [request EXCEPT !.len = input_buffer.len] /\ thread["vehicle_state"].pc = "read_len"
    BY <1>6 DEF VehicleReadLen, VehicleAt
  <2>2. request'.type = request.type /\ request'.len = input_buffer.len
    BY <1>4, <2>1 DEF Request
  <2>3. thread'["vehicle_state"].pc = "read_field"
    BY <1>1, <1>6, VehicleMoves DEF Moves
  <2> QED BY <1>2, <1>3, <2>1, <2>2, <2>3 DEF CopyMatchesSlot, UpdateDue, Copying
<1>7. CASE VehicleReadField
  <2>1. /\ request' = [request EXCEPT !.payload = input_buffer.payload]
        /\ thread["vehicle_state"].pc = "read_field"
    BY <1>7 DEF VehicleReadField, VehicleAt
  <2>2. /\ request'.type = request.type /\ request'.len = request.len
        /\ request'.payload = input_buffer.payload
    BY <1>4, <2>1 DEF Request
  <2>3. thread'["vehicle_state"].pc = "read_value"
    BY <1>1, <1>7, VehicleMoves DEF Moves
  <2> QED BY <1>2, <1>3, <2>1, <2>2, <2>3 DEF CopyMatchesSlot, UpdateDue, Copying
<1>8. CASE VehicleReadValue
  <2>1. /\ request' = [request EXCEPT !.value = buffer_value]
        /\ thread["vehicle_state"].pc = "read_value"
    BY <1>8 DEF VehicleReadValue, VehicleAt
  <2>2. /\ request'.type = request.type /\ request'.len = request.len
        /\ request'.payload = request.payload /\ request'.value = buffer_value
    BY <1>4, <2>1 DEF Request
  <2>3. thread'["vehicle_state"].pc = "apply"
    BY <1>1, <1>8, VehicleMoves DEF Moves
  <2> QED BY <1>2, <1>3, <2>1, <2>2, <2>3 DEF CopyMatchesSlot, UpdateDue, Copying
<1>9. CASE VehicleApply
  <2> DEFINE field == FieldName(input_buffer.payload)
  <2>1. thread["vehicle_state"].pc = "apply"
    BY <1>9 DEF VehicleApply, VehicleAt
  <2>2. /\ request.type = input_buffer.type /\ request.len = input_buffer.len
        /\ request.payload = input_buffer.payload /\ request.value = buffer_value
    BY <1>3, <2>1 DEF CopyMatchesSlot, Copying
  <2>3. ~Copying(thread'["vehicle_state"].pc)
    BY <1>1, <1>9, VehicleMoves DEF Moves, Copying
  <2>4. /\ input_buffer.type = "VEHICLE_STATE_UPDATE" /\ RequestIsValid(field, buffer_value)
        => vehicle_state' = ApplyRequest(vehicle_state, field, buffer_value)
    <3> SUFFICES ASSUME input_buffer.type = "VEHICLE_STATE_UPDATE",
                        RequestIsValid(field, buffer_value)
                 PROVE  vehicle_state' = ApplyRequest(vehicle_state, field, buffer_value)
      OBVIOUS
    <3>1. CheckTransportMessage(request, "VEHICLE_STATE_UPDATE") = "OK"
      BY <2>2 DEF BufferOK, CheckTransportMessage
    <3> HIDE DEF field
    <3>2. FieldName(request.payload) = field
      BY <2>2 DEF field
    <3> QED BY <1>9, <2>2, <3>1, <3>2 DEF VehicleApply
  <2>5. buffer_value \in Word
    BY DEF Core, InputsOK
  <2> HIDE DEF field
  <2>6. input_buffer.type = "VEHICLE_STATE_UPDATE" /\ RequestIsValid(field, buffer_value)
          => vehicle_state'[field] = buffer_value
    BY <1>4, <2>4, <2>5, AppliedInRange
  <2>7. Updated'
    BY <1>2, <2>6 DEF Updated, field
  <2>8. CopyMatchesSlot'
    BY <2>3 DEF CopyMatchesSlot, Copying
  <2> QED BY <2>7, <2>8
<1>10. ASSUME UNCHANGED <<request, vehicle_state>>, ~Copying(thread["vehicle_state"].pc),
              ~Copying(thread'["vehicle_state"].pc),
              Owes(thread, "vehicle_state", 18) => Owes(thread', "vehicle_state", 18)
       PROVE  (CopyMatchesSlot /\ (UpdateDue \/ Updated))'
  <2>1. CopyMatchesSlot'
    BY <1>10 DEF CopyMatchesSlot, Copying
  <2> QED BY <1>2, <1>3, <1>10, <2>1 DEF UpdateDue, Updated
<1>11. CASE VehicleNotify
  <2>1. UNCHANGED <<request, vehicle_state>> /\ thread["vehicle_state"].pc = "notify"
    BY <1>11 DEF VehicleNotify, VehicleAt
  <2>2. Moves(thread', "vehicle_state", "ready")
    BY <1>1, <1>11, VehicleMoves
  <2> QED BY <1>10, <2>1, <2>2 DEF Moves, Owes, Copying
<1>12. CASE Loop("vehicle_state")
  <2>1. UNCHANGED <<request, vehicle_state>>
    BY <1>12 DEF Loop, shared
  <2>2. IsWaiting(thread', "vehicle_state")
    BY <1>1, <1>12, VehicleMoves
  <2> QED BY <1>10, <2>1, <2>2 DEF IsWaiting, Owes, Copying
<1> QED BY <1>5, <1>6, <1>7, <1>8, <1>9, <1>11, <1>12 DEF Vehicle

LEMMA UpdateStep == Core /\ RacesOK /\ BufferOK /\ UpdateOK /\ [SystemNext]_svars => UpdateOK'
<1> SUFFICES ASSUME Core, RacesOK, BufferOK, UpdateOK, [SystemNext]_svars PROVE UpdateOK'
  OBVIOUS
<1>1. ThreadsOK(thread) /\ StepDueOK
  BY DEF Core, FaultOK
<1>2. ASSUME NEW i \in Inputs, Dispatch(i.message, i.value) PROVE UpdateOK'
  <2>1. /\ IF i.message.type = "VEHICLE_STATE_UPDATE" THEN Told(thread', "vehicle_state", 18)
           ELSE thread'["vehicle_state"] = thread["vehicle_state"]
        /\ input_buffer' = i.message
    BY <1>1, <1>2, DispatchSteps DEF Dispatch
  <2>2. MaxRaces = 0 => thread["vehicle_state"].pc = "blocked"
    BY <1>2, PacedDispatch, SystemNames DEF AtRest
  <2>3. MaxRaces = 0 /\ i.message.type = "VEHICLE_STATE_UPDATE" =>
          IsWoken(thread', "vehicle_state", 18)
    BY <2>1, <2>2 DEF Told
  <2>4. MaxRaces = 0 => thread'["vehicle_state"].pc \in {"blocked", "ready"}
    BY <2>1, <2>2, <2>3 DEF IsWoken
  <2>5. MaxRaces = 0 => CopyMatchesSlot'
    BY <2>4 DEF CopyMatchesSlot, Copying
  <2>6. MaxRaces = 0 => (UpdateDue \/ Updated)'
    BY <2>1, <2>3 DEF UpdateDue, Updated, IsWoken, Owes
  <2> QED BY <2>5, <2>6 DEF UpdateOK
<1>3. CASE Scheduler
  <2>1. /\ UNCHANGED <<input_buffer, console, request, vehicle_state>>
        /\ thread'["vehicle_state"] = thread["vehicle_state"]
    BY <1>1, <1>3, SchedulerSteps DEF Keeps
  <2> QED BY <2>1, UpdateKept DEF console
<1>4. CASE Gpio
  <2>1. /\ UNCHANGED <<input_buffer, console, request, shared>>
        /\ thread'["vehicle_state"] = thread["vehicle_state"]
    BY <1>1, <1>4, GpioSteps, SystemNames DEF Keeps, Others
  <2> QED BY <2>1, UpdateKept DEF console, shared
<1>5. CASE Vehicle
  BY <1>5, VehicleUpdates
<1>6. CASE Faultmg
  <2>1. Handler /\ UNCHANGED <<shared, console, request>>
    BY <1>6 DEF Faultmg
  <2>2. UNCHANGED input_buffer /\ thread'["vehicle_state"] = thread["vehicle_state"]
    BY <1>1, <2>1, FaultmgSteps DEF Keeps
  <2> QED BY <2>1, <2>2, UpdateKept DEF console, shared
<1>7. CASE Lightctl
  <2>1. /\ thread'["vehicle_state"] = thread["vehicle_state"]
        /\ UNCHANGED <<input_buffer, console, request, shared>>
    BY <1>7, LightctlOthers, LightctlWaits DEF Keeps, LightctlKeeps
  <2> QED BY <2>1, UpdateKept DEF console, shared
<1>8. CASE UNCHANGED svars
  BY <1>8, UpdateKept DEF svars, vars, console, shared
<1> QED BY <1>2, <1>3, <1>4, <1>5, <1>6, <1>7, <1>8 DEF SystemNext

(* A command entered while every domain waits has taken effect when they   *)
(* wait again: nothing on its way through slot, copy, checks and handler   *)
(* loses or alters it.                                                     *)
THEOREM CommandsTakeEffect == SystemSpec => []LastCommandTakesEffect
<1>1. SystemInit => CommandApplied /\ UpdateOK
  <2> SUFFICES ASSUME SystemInit PROVE CommandApplied /\ UpdateOK
    OBVIOUS
  <2>1. input_buffer.type = "INVALID" /\ Waits("vehicle_state")
    BY InitialThreads DEF SystemInit, EmptyMessage
  <2> QED BY <2>1 DEF CommandApplied, UpdateOK, CopyMatchesSlot, Updated, Waits, Copying
<1>2. Core /\ CommandApplied /\ UpdateOK => LastCommandTakesEffect
  <2> SUFFICES ASSUME Core, CommandApplied, UpdateOK, MaxRaces = 0, AtRest
               PROVE  LastCommandTakesEffect
    BY DEF LastCommandTakesEffect
  <2>1. ThreadsOK(thread) /\ "scheduler" \in PDs /\ "vehicle_state" \in PDs
    BY SystemNames DEF Core
  <2>2. Waits("scheduler") /\ Waits("vehicle_state")
    BY <2>1 DEF AtRest, Waits
  <2>3. ~Owes(thread, "scheduler", 4) /\ ~UpdateDue
    BY <2>1, <2>2, WaitsForNothing DEF UpdateDue, Waits, Copying
  <2> QED BY <2>3 DEF LastCommandTakesEffect, CommandApplied, UpdateOK, Updated
<1> QED BY <1>1, <1>2, CommandAppliedStep, UpdateStep, CoreInvariant, RacesInvariant,
           BufferInvariant, PTL DEF SystemSpec
===============================================================================
