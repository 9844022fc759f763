---------------------------- MODULE LightFaultMode ----------------------------
(***************************************************************************)
(* The fault-mode library of the light controller                          *)
(* (src/core/light_fault_mode.c): pure operators on a fault-state          *)
(* record, light_fault_state_t.  The library classifies recorded errors    *)
(* into four severity modes and walks back down to NORMAL, one mode per    *)
(* recovery window, once the active faults have been cleared.              *)
(*                                                                         *)
(* Two members of the C record are abstracted.  The cumulative `counters'  *)
(* are written and never read by the program (classification uses          *)
(* active_counters, the published total is faultmg's own counter); the     *)
(* fault_decision_t results only feed log lines.  The active-fault mask is *)
(* the set of the codes whose bits are set.                                *)
(***************************************************************************)
EXTENDS Integers

(* Modes are ordered by severity, as the enum and its comparison are. *)
NORMAL    == 0
WARN      == 1
DEGRADED  == 2
SAFE_MODE == 3
FaultModes == NORMAL .. SAFE_MODE

Lifecycles == {"STABLE", "ACTIVE", "RECOVERING"}

(* Error codes are bytes; the library classifies four of them. *)
SPEED_LIMIT   == 1
MODE_CONFLICT == 2
INVALID_CMD   == 3
HW_STATE_ERR  == 4
KnownCodes == SPEED_LIMIT .. HW_STATE_ERR
Byte == 0 .. 255

RECOVERY_WINDOW_TICKS == 2
RECOVERY_WINDOW_MS    == 2000

(***************************************************************************)
(* active_counters: how often each known code was recorded since the last  *)
(* clear, and the length of the current run of mode conflicts.             *)
(***************************************************************************)
CountersReset == [by_code |-> [k \in KnownCodes |-> 0], consecutive |-> 0]

ApplyErrorToCounters(counters, code) ==
  [by_code     |-> [k \in KnownCodes |->
                      counters.by_code[k] + (IF k = code THEN 1 ELSE 0)],
   consecutive |-> IF code = MODE_CONFLICT THEN counters.consecutive + 1 ELSE 0]

(* Mutant: SAFE_MODE one hardware error late. *)
DeriveModeLate(counters) ==
  IF counters.by_code[HW_STATE_ERR] > 2 THEN SAFE_MODE
  ELSE IF counters.consecutive >= 3 THEN DEGRADED
  ELSE IF \E k \in KnownCodes : counters.by_code[k] > 0 THEN WARN
  ELSE NORMAL

DeriveMode(counters) ==
  IF counters.by_code[HW_STATE_ERR] >= 2 THEN SAFE_MODE
  ELSE IF counters.consecutive >= 3 THEN DEGRADED
  ELSE IF \E k \in KnownCodes : counters.by_code[k] > 0 THEN WARN
  ELSE NORMAL

(* Mutant: recovery ends at once. *)
StepDownToNormal(mode) == NORMAL

StepDown(mode) == IF mode = NORMAL THEN NORMAL ELSE mode - 1

(* Mutant: no default case, every code is shifted into the mask. *)
MaskForAnyError(code) == {code}

MaskForError(code) == {code} \cap KnownCodes

(***************************************************************************)
(* light_fault_state_reset.                                                *)
(***************************************************************************)
FaultStateReset ==
  [mode                     |-> NORMAL,
   active_counters          |-> CountersReset,
   lifecycle                |-> "STABLE",
   active_fault_mask        |-> {},
   recovery_ticks           |-> 0,
   recovery_window_start_ms |-> 0,
   recovery_elapsed_ms      |-> 0,
   last_fault_code          |-> 0]

(* Mutants of light_fault_mode_record_error: the recovery window survives  *)
(* the fault; the severity held in recovery is forgotten.                  *)
RecordErrorKeepsWindow(state, code) ==
  LET active  == ApplyErrorToCounters(state.active_counters, code)
      derived == DeriveMode(active)
      held    == state.lifecycle = "RECOVERING" /\ state.mode > derived
  IN  [state EXCEPT !.mode = IF held THEN @ ELSE derived,
                    !.active_counters = active,
                    !.lifecycle = "ACTIVE",
                    !.active_fault_mask = @ \cup MaskForError(code),
                    !.last_fault_code = code]

RecordErrorForgetsSeverity(state, code) ==
  LET active == ApplyErrorToCounters(state.active_counters, code)
  IN  [FaultStateReset EXCEPT !.mode = DeriveMode(active),
                              !.active_counters = active,
                              !.lifecycle = "ACTIVE",
                              !.active_fault_mask = state.active_fault_mask
                                                      \cup MaskForError(code),
                              !.last_fault_code = code]

(***************************************************************************)
(* light_fault_mode_record_error: an interrupted recovery keeps the more   *)
(* severe of the old mode and the mode the active counters derive.         *)
(***************************************************************************)
RecordError(state, code) ==
  LET active  == ApplyErrorToCounters(state.active_counters, code)
      derived == DeriveMode(active)
      held    == state.lifecycle = "RECOVERING" /\ state.mode > derived
  IN  [mode                     |-> IF held THEN state.mode ELSE derived,
       active_counters          |-> active,
       lifecycle                |-> "ACTIVE",
       active_fault_mask        |-> state.active_fault_mask \cup MaskForError(code),
       recovery_ticks           |-> 0,
       recovery_window_start_ms |-> 0,
       recovery_elapsed_ms      |-> 0,
       last_fault_code          |-> code]

(* Mutants of light_fault_mode_clear_active: the counters survive the      *)
(* clear; the lifecycle skips RECOVERING.                                  *)
ClearActiveKeepsCounters(state) ==
  IF state.active_fault_mask = {}
  THEN state
  ELSE [state EXCEPT !.active_fault_mask        = {},
                     !.recovery_ticks           = 0,
                     !.recovery_window_start_ms = 0,
                     !.recovery_elapsed_ms      = 0,
                     !.lifecycle = IF state.mode = NORMAL THEN "STABLE"
                                                          ELSE "RECOVERING"]

ClearActiveToStable(state) ==
  IF state.active_fault_mask = {}
  THEN state
  ELSE [FaultStateReset EXCEPT !.mode = state.mode,
                               !.last_fault_code = state.last_fault_code]

(* Mutant: a clear forgets the counts and leaves the run of conflicts.     *)
ClearActiveKeepsRun(state) ==
  IF state.active_fault_mask = {}
  THEN state
  ELSE [state EXCEPT !.active_counters.by_code  = CountersReset.by_code,
                     !.active_fault_mask        = {},
                     !.recovery_ticks           = 0,
                     !.recovery_window_start_ms = 0,
                     !.recovery_elapsed_ms      = 0,
                     !.lifecycle = IF state.mode = NORMAL THEN "STABLE"
                                                          ELSE "RECOVERING"]

(***************************************************************************)
(* light_fault_mode_clear_active: without an active marker it is a no-op.  *)
(***************************************************************************)
ClearActive(state) ==
  IF state.active_fault_mask = {}
  THEN state
  ELSE [state EXCEPT !.active_counters          = CountersReset,
                     !.active_fault_mask        = {},
                     !.recovery_ticks           = 0,
                     !.recovery_window_start_ms = 0,
                     !.recovery_elapsed_ms      = 0,
                     !.lifecycle = IF state.mode = NORMAL THEN "STABLE"
                                                          ELSE "RECOVERING"]

(***************************************************************************)
(* light_fault_mode_observe_recovery_at: the first observation opens the   *)
(* window, a later one reports progress, and the one that finds the window *)
(* elapsed steps the mode down and opens the next window.                  *)
(***************************************************************************)
NonZero(ms) == IF ms = 0 THEN 1 ELSE ms

TickProgress(elapsed) ==
  LET ticks == (elapsed * RECOVERY_WINDOW_TICKS) \div RECOVERY_WINDOW_MS
  IN  IF ticks >= RECOVERY_WINDOW_TICKS THEN RECOVERY_WINDOW_TICKS - 1 ELSE ticks

CloseWindow(state, now_ms) ==
  LET mode == StepDown(state.mode)
  IN  [state EXCEPT !.recovery_ticks           = 0,
                    !.recovery_elapsed_ms      = 0,
                    !.recovery_window_start_ms = IF mode = NORMAL THEN 0
                                                 ELSE NonZero(now_ms),
                    !.mode      = mode,
                    !.lifecycle = IF mode = NORMAL THEN "STABLE" ELSE @]

(* Mutant: the window has to be exceeded. *)
ObserveRecoveryAtLate(state, now_ms) ==
  LET start   == state.recovery_window_start_ms
      elapsed == IF now_ms <= start THEN 0 ELSE now_ms - start
  IN  IF state.lifecycle # "RECOVERING" \/ state.active_fault_mask # {}
      THEN state
      ELSE IF start = 0
      THEN [state EXCEPT !.recovery_window_start_ms = NonZero(now_ms)]
      ELSE IF elapsed <= RECOVERY_WINDOW_MS
      THEN [state EXCEPT !.recovery_elapsed_ms = elapsed,
                         !.recovery_ticks = TickProgress(elapsed)]
      ELSE CloseWindow(state, now_ms)

ObserveRecoveryAt(state, now_ms) ==
  LET start   == state.recovery_window_start_ms
      elapsed == IF now_ms <= start THEN 0 ELSE now_ms - start
  IN  IF state.lifecycle # "RECOVERING" \/ state.active_fault_mask # {}
      THEN state
      ELSE IF start = 0
      THEN [state EXCEPT !.recovery_window_start_ms = NonZero(now_ms),
                         !.recovery_elapsed_ms = 0,
                         !.recovery_ticks = 0]
      ELSE IF elapsed < RECOVERY_WINDOW_MS
      THEN [state EXCEPT !.recovery_elapsed_ms = elapsed,
                         !.recovery_ticks = TickProgress(elapsed)]
      ELSE CloseWindow(state, now_ms)

(***************************************************************************)
(* light_fault_mode_observe_recovery: each call stands for one tick of the *)
(* window; the time it passes on is computed from the ticks seen so far,   *)
(* not read from a clock.                                                  *)
(***************************************************************************)
SyntheticNow(state) ==
  state.recovery_window_start_ms
    + (IF state.recovery_ticks + 1 >= RECOVERY_WINDOW_TICKS
       THEN RECOVERY_WINDOW_MS
       ELSE (state.recovery_ticks + 1)
              * (RECOVERY_WINDOW_MS \div RECOVERY_WINDOW_TICKS))

OpenWindow(state) == [state EXCEPT !.recovery_window_start_ms = NonZero(@)]

ObserveRecovery(state) ==
  ObserveRecoveryAt(OpenWindow(state), SyntheticNow(OpenWindow(state)))
(***************************************************************************)
(* light_fault_mode_transport_encode and _decode: the mode as a byte of    *)
(* its own page, and back.                                                 *)
(***************************************************************************)
TransportEncode(mode) == IF mode \in FaultModes THEN mode ELSE NORMAL
TransportDecode(raw)  == IF raw \in FaultModes THEN raw ELSE NORMAL
-------------------------------------------------------------------------------
(* The values a fault state takes, and what holds of every one the library *)
(* builds.                                                                 *)

Counters == [by_code : [KnownCodes -> Nat], consecutive : Nat]

FaultState ==
  [mode                     : FaultModes,
   active_counters          : Counters,
   lifecycle                : Lifecycles,
   active_fault_mask        : SUBSET KnownCodes,
   recovery_ticks           : 0 .. RECOVERY_WINDOW_TICKS - 1,
   recovery_window_start_ms : Nat,
   recovery_elapsed_ms      : Nat,
   last_fault_code          : Byte]

NothingActive(state) ==
  /\ state.active_fault_mask = {}
  /\ state.active_counters = CountersReset

Consistent(state) ==
  /\ state.lifecycle = "STABLE" => state.mode = NORMAL /\ NothingActive(state)
  /\ state.lifecycle = "RECOVERING" => state.mode # NORMAL /\ NothingActive(state)
  /\ state.active_fault_mask =
       {k \in KnownCodes : state.active_counters.by_code[k] > 0}

SeverityCovered(state) ==
  LET active == state.active_counters
  IN  /\ active.by_code[HW_STATE_ERR] >= 2 => state.mode = SAFE_MODE
      /\ active.consecutive >= 3 => state.mode >= DEGRADED
      /\ state.active_fault_mask # {} => state.mode >= WARN

WindowBounded(state) ==
  /\ state.lifecycle # "RECOVERING" =>
       /\ state.recovery_ticks = 0
       /\ state.recovery_elapsed_ms = 0
       /\ state.recovery_window_start_ms = 0
  /\ state.recovery_elapsed_ms =
       state.recovery_ticks * (RECOVERY_WINDOW_MS \div RECOVERY_WINDOW_TICKS)
  /\ state.recovery_window_start_ms = 0 => state.recovery_ticks = 0
  /\ state.recovery_window_start_ms + RECOVERY_WINDOW_MS * state.mode
       <= 1 + RECOVERY_WINDOW_MS * SAFE_MODE
===============================================================================
