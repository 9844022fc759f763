------------------------------ MODULE LightControl ------------------------------
(***************************************************************************)
(* The decision libraries between an operator command and the GPIO pins:   *)
(* control logic, output policy, vehicle state, execution plan and runtime *)
(* guard (src/core/light_control_logic.c, light_output_policy.c,           *)
(* light_vehicle_state.c, light_execution_plan.c, light_runtime_guard.c).  *)
(*                                                                         *)
(* A record of six 0/1 members (operator request, target output, pins, the *)
(* allow flags) is the set of the lamps whose member is 1.  Reasons and    *)
(* log data are left out.                                                  *)
(***************************************************************************)
EXTENDS LightFaultMode, Sequences

Lamps == {"brake", "turn_left", "turn_right", "low_beam", "high_beam", "position"}
Turns == {"turn_left", "turn_right"}
Beams == {"low_beam", "high_beam"}

UINT16_MAX == 65535
Word == 0 .. UINT16_MAX

(* The members of light_vehicle_state_t, by the field a request names, and *)
(* the largest value of each.                                              *)
VehicleFields == {"speed_kph", "ignition_on", "brake_pedal", "gear",
                  "ambient_light", "hazard", "drive_mode"}
MaxValue ==
  [speed_kph |-> 180, ignition_on |-> 1, brake_pedal |-> 1, gear |-> 3,
   ambient_light |-> 2, hazard |-> 1, drive_mode |-> 3]

PARK    == 0
REVERSE == 1
DRIVE   == 3
DAY     == 0
CITY      == 0
HIGHWAY   == 1
PARKING   == 2
EMERGENCY == 3

VehicleState ==
  [speed_kph : 0 .. 180, ignition_on : 0 .. 1, brake_pedal : 0 .. 1, gear : 0 .. 3,
   ambient_light : 0 .. 2, hazard : 0 .. 1, drive_mode : 0 .. 3]

VehicleDefault ==
  [speed_kph |-> 10, ignition_on |-> 1, brake_pedal |-> 0, gear |-> DRIVE,
   ambient_light |-> DAY, hazard |-> 0, drive_mode |-> CITY]

(* Mutant: any value of a known field is accepted. *)
RequestIsAnything(field, value) == field \in VehicleFields

(* light_vehicle_state_apply_request accepts a known field and a value in  *)
(* its range.                                                              *)
RequestIsValid(field, value) ==
  field \in VehicleFields /\ value <= MaxValue[field]

ApplyRequest(state, field, value) == [state EXCEPT ![field] = value]
-------------------------------------------------------------------------------
(* Operator commands. *)

Commands == [lamp : Lamps, on : BOOLEAN]

OperatorRequestInit == {"position"}

ApplyOperatorCommand(request, cmd) ==
  CASE cmd.on /\ cmd.lamp \in Turns        -> (request \ Turns) \cup {cmd.lamp}
    [] cmd.on /\ cmd.lamp \notin Turns     -> request \cup {cmd.lamp}
    [] ~cmd.on /\ cmd.lamp = "low_beam"    -> request \ Beams
    [] ~cmd.on /\ cmd.lamp # "low_beam"    -> request \ {cmd.lamp}
-------------------------------------------------------------------------------
(* The target output. *)

BrakeActive(request, v) == "brake" \in request \/ v.brake_pedal # 0
DarkEnvironment(v) == v.ambient_light # DAY
HazardActive(v)    == v.hazard # 0 \/ v.drive_mode = EMERGENCY
ParkingContext(v)  == v.gear = PARK \/ v.drive_mode = PARKING
ReverseContext(v)  == v.gear = REVERSE
HighBeamMinSpeed(v) == IF v.drive_mode = HIGHWAY THEN 30 ELSE 10

(* Mutant: the brake does not silence the turn request. *)
RequestedTurnWhileBraking(request, v) ==
  IF HazardActive(v) THEN Turns
  ELSE IF v.speed_kph <= 120 /\ ~(Turns \subseteq request)
  THEN request \cap Turns
  ELSE {}

RequestedTurn(request, v) ==
  IF HazardActive(v) THEN Turns
  ELSE IF ~BrakeActive(request, v) /\ v.speed_kph <= 120 /\ ~(Turns \subseteq request)
  THEN request \cap Turns
  ELSE {}

HighBeamAllowed(request, v) ==
  /\ Beams \subseteq request
  /\ ~BrakeActive(request, v)
  /\ ~ParkingContext(v)
  /\ ~ReverseContext(v)
  /\ v.speed_kph >= HighBeamMinSpeed(v)

RequestedBeam(request, v) ==
  IF HighBeamAllowed(request, v) THEN {"high_beam"}
  ELSE IF "low_beam" \in request \/ DarkEnvironment(v) \/ ReverseContext(v)
  THEN {"low_beam"}
  ELSE {}

RequestedTarget(request, v) ==
  (IF BrakeActive(request, v) THEN {"brake"} ELSE {})
  \cup (IF "position" \in request \/ DarkEnvironment(v) \/ ParkingContext(v)
        THEN {"position"} ELSE {})
  \cup (IF v.ignition_on = 0 THEN {}
        ELSE RequestedTurn(request, v) \cup RequestedBeam(request, v))

(* light_output_policy_apply: each mode's matrix of rules, then the        *)
(* minimum illumination DEGRADED and SAFE_MODE force.                      *)
MinimumIllumination(target) ==
  IF target \cap Beams = {} THEN target \cup {"low_beam"} ELSE target

(* Mutant: the SAFE_MODE matrix lets the turn outputs through. *)
OutputPolicyKeepsTurns(target, mode) ==
  CASE mode = DEGRADED  -> MinimumIllumination(target \ {"high_beam"})
    [] mode = SAFE_MODE -> MinimumIllumination(
                             (target \ {"high_beam"}) \cup {"low_beam", "position"})
    [] OTHER            -> target

OutputPolicy(target, mode) ==
  CASE mode = DEGRADED  -> MinimumIllumination(target \ {"high_beam"})
    [] mode = SAFE_MODE -> MinimumIllumination(
                             (target \ (Turns \cup {"high_beam"}))
                               \cup {"low_beam", "position"})
    [] OTHER            -> target

ComputeTarget(request, v, mode) == OutputPolicy(RequestedTarget(request, v), mode)
-------------------------------------------------------------------------------
(* The execution plan. *)

Actions == [lamp : Lamps, on : BOOLEAN]
On(lamp)  == [lamp |-> lamp, on |-> TRUE]
Off(lamp) == [lamp |-> lamp, on |-> FALSE]

(* light_execution_state_t: the lamp lit of each group, "off" if none.     *)
ExecutionState ==
  [turn : Turns \cup {"off"}, beam : Beams \cup {"off"},
   brake : {"brake", "off"}, position : {"position", "off"}]

ExecutionInit == [turn |-> "off", beam |-> "off", brake |-> "off", position |-> "off"]

(* What a target asks of each group: left before right, low before high.   *)
FirstOf(target, first, second) ==
  IF first \in target THEN first ELSE IF second \in target THEN second ELSE "off"

Wanted(target) ==
  [turn     |-> FirstOf(target, "turn_left", "turn_right"),
   beam     |-> FirstOf(target, "low_beam", "high_beam"),
   brake    |-> FirstOf(target, "brake", "brake"),
   position |-> FirstOf(target, "position", "position")]

(* Mutant: the new lamp of a group is lit before the old one goes out. *)
SwitchOnFirst(current, wanted) ==
  IF current = wanted THEN <<>>
  ELSE (IF wanted = "off" THEN <<>> ELSE <<On(wanted)>>)
       \o (IF current = "off" THEN <<>> ELSE <<Off(current)>>)

(* The actions that take a group from one lamp to another.                 *)
Switch(current, wanted) ==
  IF current = wanted THEN <<>>
  ELSE (IF current = "off" THEN <<>> ELSE <<Off(current)>>)
       \o (IF wanted = "off" THEN <<>> ELSE <<On(wanted)>>)

PlanActions(current, target) ==
  LET wanted == Wanted(target)
  IN  Switch(current.brake, wanted.brake)
      \o Switch(current.turn, wanted.turn)
      \o Switch(current.beam, wanted.beam)
      \o Switch(current.position, wanted.position)

(* The group a lamp belongs to.                                            *)
Group(lamp) ==
  CASE lamp \in Turns -> "turn"
    [] lamp \in Beams -> "beam"
    [] OTHER          -> lamp

(* apply_execution_state_transition: an OFF of a lamp that is not the lit  *)
(* one of its group changes nothing.                                       *)
ApplyTransition(state, action) ==
  LET group == Group(action.lamp)
  IN  IF action.on THEN [state EXCEPT ![group] = action.lamp]
      ELSE IF state[group] = action.lamp THEN [state EXCEPT ![group] = "off"]
      ELSE state

(* The lamps an execution state has lit.                                   *)
Lit(state) == {state.turn, state.beam, state.brake, state.position} \cap Lamps
-------------------------------------------------------------------------------
(* The runtime guard, as the fault code it denies an action with, or 0.    *)

GuardError(action, state, mode, speed) ==
  LET lights(lamps) == action.on /\ action.lamp \in lamps
  IN  CASE mode = SAFE_MODE /\ lights(Turns \cup {"high_beam"}) -> HW_STATE_ERR
        [] mode = DEGRADED /\ lights({"high_beam"})             -> MODE_CONFLICT
        [] lights(Turns) /\ speed > 120                         -> SPEED_LIMIT
        [] lights({"high_beam"}) /\ speed < 10                  -> SPEED_LIMIT
        [] action = Off("low_beam") /\ state.beam = "high_beam" -> MODE_CONFLICT
        [] lights(Turns) /\ state.brake = "brake"               -> MODE_CONFLICT
        [] OTHER                                                -> 0
===============================================================================
