---------------------------- MODULE FaultLifecycle ----------------------------
(***************************************************************************)
(* What the fault manager promises to the rest of the system: the fault    *)
(* lifecycle of docs/safety_case.md, without counters, clocks, messages or *)
(* publication.  Rule numbers are those of its "Recovery rules".           *)
(*                                                                         *)
(* Two things are said differently from the document, because the code     *)
(* does differently: a fault outside recovery may set any severity the     *)
(* active markers allow, lower ones included, and an unrecognised fault    *)
(* makes the lifecycle ACTIVE without leaving a marker.                    *)
(***************************************************************************)
EXTENDS Integers

VARIABLES
  mode,      (* severity, 0 (NORMAL) .. 3 (SAFE_MODE)                      *)
  lifecycle,
  marked,    (* an active fault marker exists                              *)
  progress   (* ticks of the recovery window observed                      *)

avars == <<mode, lifecycle, marked, progress>>

Init == mode = 0 /\ lifecycle = "STABLE" /\ ~marked /\ progress = 0

(* Rules 1 and 6: a fault makes the lifecycle ACTIVE, and in recovery it   *)
(* does not lower the severity.                                            *)
Fault(newMode) ==
  /\ lifecycle = "RECOVERING" => newMode >= mode
  /\ mode' = newMode
  /\ lifecycle' = "ACTIVE"
  /\ progress' = 0

RecognisedFault ==
  /\ \E newMode \in 1 .. 3 : Fault(newMode)
  /\ marked' = TRUE

UnrecognisedFault ==
  /\ \E newMode \in 0 .. 3 : Fault(newMode) /\ (marked => newMode >= 1)
  /\ UNCHANGED marked

(* Rules 2 and 3: a clear removes the markers, severity stays.             *)
Clear ==
  /\ marked
  /\ marked' = FALSE
  /\ lifecycle' = "RECOVERING"
  /\ progress' = 0
  /\ UNCHANGED mode

(* Rule 4: the window progresses.                                          *)
Tick ==
  /\ lifecycle = "RECOVERING"
  /\ progress = 0
  /\ progress' = 1
  /\ UNCHANGED <<mode, lifecycle, marked>>

(* Rules 5 and 7: a satisfied window steps down one level.                 *)
StepDown ==
  /\ lifecycle = "RECOVERING"
  /\ progress = 1
  /\ progress' = 0
  /\ mode' = mode - 1
  /\ lifecycle' = IF mode' = 0 THEN "STABLE" ELSE "RECOVERING"
  /\ UNCHANGED marked

Next == RecognisedFault \/ UnrecognisedFault \/ Clear \/ Tick \/ StepDown

Spec == Init /\ [][Next]_avars
===============================================================================
