----------------------------- MODULE LightContract -----------------------------
(***************************************************************************)
(* Transport messages (include/light_transport.h) and the check of         *)
(* src/core/light_contract.c that the domains make before they act on one. *)
(*                                                                         *)
(* A message is a record of its type, its declared length and the first    *)
(* byte of its payload union; version (always 1) and flags (always 0) are  *)
(* constants and left out.                                                 *)
(***************************************************************************)
EXTENDS LightFaultMode

MsgTypes == {"INVALID", "LIGHT_CMD", "VEHICLE_STATE_UPDATE",
             "FAULT_INJECT", "QUERY", "FAULT_CLEAR"}

FAULT_CLEAR_ALL == 1

(* expected_transport_len: the size of the payload member of each type. *)
ExpectedLen(type) ==
  CASE type = "VEHICLE_STATE_UPDATE" -> 4
    [] type = "INVALID"              -> 0
    [] OTHER                         -> 1

Message == [type : MsgTypes, len : Byte, payload : Byte]

(* light_contract_check_transport_message, as its status name. *)
CheckTransportMessage(message, type) ==
  CASE message.type # type               -> "TRANSPORT_TYPE"
    [] \/ ExpectedLen(type) = 0
       \/ message.len # ExpectedLen(type) -> "TRANSPORT_LENGTH"
    [] OTHER                              -> "OK"
===============================================================================
