---------------------------- MODULE FaultMgDelivery ----------------------------
(***************************************************************************)
(* What the fault manager makes of the commands typed at the console.      *)
(*                                                                         *)
(* commandin writes one message slot and signals; the fault manager reads  *)
(* the slot when its notified() call runs.  This module counts, beside     *)
(* FaultMg, the injections commandin sent (src/domains/commandin.c:        *)
(* 421-459, faultmg.c:232-269).                                            *)
(***************************************************************************)
EXTENDS FaultMg

VARIABLE injected (* injected[c]: messages sent that inject code c *)

DInit == Init /\ injected = [c \in KnownCodes |-> 0]

DSend(m) ==
  /\ CommandinSends(m)
  /\ injected' = IF m.type = "FAULT_INJECT"
                 THEN [injected EXCEPT ![m.payload] = @ + 1]
                 ELSE injected
  /\ \A c \in KnownCodes : injected'[c] <= MaxErrors

DOther == (Handler \/ Readers) /\ UNCHANGED injected

DNext == (\E m \in Messages : DSend(m)) \/ DOther

DSpec == DInit /\ [][DNext]_<<vars, injected>>

(* docs/safety_case.md:22: HW_STATE_ERR leads to SAFE_MODE after two.  One *)
(* is enough when a later message has it read twice; and none is needed    *)
(* when a copy torn by a later message takes the number of a vehicle field *)
(* for a fault code (faultmg.c:233-251).                                   *)
SafeModeAfterTwo ==
  fault_state.mode = SAFE_MODE => injected[HW_STATE_ERR] >= 2
===============================================================================
