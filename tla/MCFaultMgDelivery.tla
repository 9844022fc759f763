--------------------------- MODULE MCFaultMgDelivery ---------------------------
(***************************************************************************)
(* Instances of FaultMgDelivery for TLC.                                   *)
(***************************************************************************)
EXTENDS FaultMgDelivery

Message1(type, payload) ==
  [type |-> type, len |-> ExpectedLen(type), payload |-> payload]

MCMessages == {Message1("FAULT_INJECT", MODE_CONFLICT),
               Message1("FAULT_INJECT", HW_STATE_ERR),
               Message1("FAULT_CLEAR", FAULT_CLEAR_ALL),
               Message1("LIGHT_CMD", 17),
               Message1("VEHICLE_STATE_UPDATE", 4)}
================================================================================
