------------------------------ MODULE MCLightSystem ------------------------------
(***************************************************************************)
(* Instances of LightSystem for TLC.                                       *)
(***************************************************************************)
EXTENDS LightSystem

Input(type, payload, value) ==
  [message |-> [type |-> type, len |-> ExpectedLen(type), payload |-> payload],
   value |-> value]

LightCmd(byte)   == Input("LIGHT_CMD", byte, 0)
SetField(f, val) == Input("VEHICLE_STATE_UPDATE", f, val)
Inject(code)     == Input("FAULT_INJECT", code, 0)
ClearAll         == Input("FAULT_CLEAR", FAULT_CLEAR_ALL, 0)

LowOff  == LightCmd(0)
LowOn   == LightCmd(1)
HighOn  == LightCmd(17)
LeftOn  == LightCmd(33)
RightOn == LightCmd(49)
BrakeOn == LightCmd(81)

(* One of everything whose interleavings matter: a beam and a turn, the    *)
(* brake and the speed that forbid them, a speed out of range, a gear that *)
(* forces low beam and the fault that clamps both.                         *)
MCInputs == {LowOff, LowOn, HighOn, LeftOn, RightOn, BrakeOn,
             SetField(1, 130), SetField(1, 200), SetField(4, REVERSE),
             Inject(HW_STATE_ERR), ClearAll}
MCMessages == {i.message : i \in MCInputs}

MCRacing == MCInputs \ {LowOff, RightOn}
MCRacingMessages == {i.message : i \in MCRacing}

(* An emergency alone.                                                     *)
MCEmergency == {SetField(7, EMERGENCY)}
MCEmergencyMessages == {i.message : i \in MCEmergency}

(* A high beam and the fault that forbids it.                              *)
MCHighBeam == {LowOn, HighOn, Inject(HW_STATE_ERR)}
MCHighBeamMessages == {i.message : i \in MCHighBeam}
================================================================================
