------------------------------- MODULE MCFaultMg -------------------------------
(***************************************************************************)
(* Instances of FaultMg for TLC.                                           *)
(***************************************************************************)
EXTENDS FaultMg

LightCmd(byte) == [type |-> "LIGHT_CMD", len |-> 1, payload |-> byte]
VehicleUpdate(field) == [type |-> "VEHICLE_STATE_UPDATE", len |-> 4, payload |-> field]
Inject(code) == [type |-> "FAULT_INJECT", len |-> 1, payload |-> code]
Clear == [type |-> "FAULT_CLEAR", len |-> 1, payload |-> FAULT_CLEAR_ALL]

(* What commandin writes: the two injections its parser knows, a clear, a  *)
(* light command whose byte is no fault code and a vehicle update.         *)
MCMessages == {Inject(MODE_CONFLICT), Inject(HW_STATE_ERR), Clear,
               LightCmd(17), VehicleUpdate(1)}

(* After lightctl's signal the register holds nothing, or the conflict the *)
(* guard had in mind.  Other codes come from torn copies: 1, 17.           *)
MCLightctlCodes == {0, MODE_CONFLICT}
===============================================================================
