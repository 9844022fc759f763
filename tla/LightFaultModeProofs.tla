-------------------------- MODULE LightFaultModeProofs --------------------------
(***************************************************************************)
(* Lemmas about the fault-mode library: what each of its operations        *)
(* preserves of a well-formed fault state.                                 *)
(***************************************************************************)
EXTENDS LightFaultMode, TLAPS

(* A well-formed fault state.                                              *)
WellFormed(state) ==
  /\ state \in FaultState
  /\ Consistent(state)
  /\ SeverityCovered(state)
  /\ WindowBounded(state)

(* The constants of the library are what the C macros say.                 *)
LEMMA Codes ==
  /\ FaultModes = {0, 1, 2, 3}
  /\ KnownCodes = {1, 2, 3, 4}
  /\ SPEED_LIMIT = 1 /\ MODE_CONFLICT = 2 /\ INVALID_CMD = 3 /\ HW_STATE_ERR = 4
  /\ NORMAL = 0 /\ WARN = 1 /\ DEGRADED = 2 /\ SAFE_MODE = 3
  /\ RECOVERY_WINDOW_TICKS = 2
  /\ RECOVERY_WINDOW_MS = 2000
  /\ RECOVERY_WINDOW_MS \div RECOVERY_WINDOW_TICKS = 1000
BY DEF FaultModes, KnownCodes, SPEED_LIMIT, MODE_CONFLICT, INVALID_CMD, HW_STATE_ERR,
       NORMAL, WARN, DEGRADED, SAFE_MODE, RECOVERY_WINDOW_TICKS, RECOVERY_WINDOW_MS

(* light_fault_state_reset yields a well-formed state.                     *)
LEMMA ResetWellFormed == WellFormed(FaultStateReset)
<1>1. FaultStateReset \in FaultState
  BY Codes DEF FaultStateReset, FaultState, Counters, CountersReset, Lifecycles, Byte
<1>2. Consistent(FaultStateReset)
  BY Codes DEF FaultStateReset, Consistent, NothingActive, CountersReset
<1>3. SeverityCovered(FaultStateReset)
  BY Codes DEF FaultStateReset, SeverityCovered, CountersReset
<1>4. WindowBounded(FaultStateReset)
  BY Codes DEF FaultStateReset, WindowBounded
<1> QED BY <1>1, <1>2, <1>3, <1>4 DEF WellFormed

(* Counting an error keeps the counters natural numbers, and raises the    *)
(* count of that code alone.                                               *)
LEMMA ApplyErrorCounters ==
  ASSUME NEW counters \in Counters, NEW code \in Byte
  PROVE  /\ ApplyErrorToCounters(counters, code) \in Counters
         /\ \A k \in KnownCodes :
              ApplyErrorToCounters(counters, code).by_code[k] > 0
                <=> (counters.by_code[k] > 0 \/ k = code)
<1>1. ApplyErrorToCounters(counters, code) \in Counters
  BY Codes DEF ApplyErrorToCounters, Counters, Byte
<1>2. \A k \in KnownCodes :
        ApplyErrorToCounters(counters, code).by_code[k] > 0
          <=> (counters.by_code[k] > 0 \/ k = code)
  BY Codes DEF ApplyErrorToCounters, Counters
<1> QED BY <1>1, <1>2

(* derive_mode classifies: it returns a mode that covers the counters.     *)
LEMMA DeriveModeCovers ==
  ASSUME NEW counters \in Counters
  PROVE  /\ DeriveMode(counters) \in FaultModes
         /\ counters.by_code[HW_STATE_ERR] >= 2 => DeriveMode(counters) = SAFE_MODE
         /\ counters.consecutive >= 3 => DeriveMode(counters) >= DEGRADED
         /\ (\E k \in KnownCodes : counters.by_code[k] > 0) => DeriveMode(counters) >= WARN
BY Codes DEF DeriveMode, Counters

(* light_fault_mode_record_error keeps a state well formed, does not lower *)
(* the mode of a recovery it interrupts, and leaves at least WARN whenever *)
(* a marker is set afterwards.                                             *)
LEMMA RecordErrorWellFormed ==
  ASSUME NEW state, WellFormed(state), NEW code \in Byte
  PROVE  /\ WellFormed(RecordError(state, code))
         /\ RecordError(state, code).lifecycle = "ACTIVE"
         /\ RecordError(state, code).recovery_ticks = 0
         /\ RecordError(state, code).recovery_elapsed_ms = 0
         /\ state.lifecycle = "RECOVERING" => RecordError(state, code).mode >= state.mode
         /\ RecordError(state, code).active_fault_mask
              = state.active_fault_mask \cup MaskForError(code)
<1> DEFINE active == ApplyErrorToCounters(state.active_counters, code)
           next   == RecordError(state, code)
<1>1. state \in FaultState /\ state.active_counters \in Counters
  BY DEF WellFormed, FaultState
<1>2. active \in Counters
  BY <1>1, ApplyErrorCounters
<1>3. DeriveMode(active) \in FaultModes
  BY <1>2, DeriveModeCovers
<1>4. /\ next.mode = IF state.lifecycle = "RECOVERING" /\ state.mode > DeriveMode(active)
                     THEN state.mode ELSE DeriveMode(active)
      /\ next.active_counters = active
      /\ next.lifecycle = "ACTIVE"
      /\ next.active_fault_mask = state.active_fault_mask \cup MaskForError(code)
      /\ next.recovery_ticks = 0
      /\ next.recovery_window_start_ms = 0
      /\ next.recovery_elapsed_ms = 0
      /\ next.last_fault_code = code
  BY DEF RecordError
<1>5. next.mode \in FaultModes /\ next.mode >= DeriveMode(active)
  BY <1>1, <1>3, <1>4, Codes DEF FaultState
<1>6. next \in FaultState
  <2>1. MaskForError(code) \in SUBSET KnownCodes
    BY DEF MaskForError
  <2>2. next.active_fault_mask \in SUBSET KnownCodes
    BY <1>1, <1>4, <2>1 DEF FaultState
  <2> QED BY <1>2, <1>4, <1>5, <2>2, Codes DEF RecordError, FaultState, Lifecycles
<1>7. Consistent(next)
  <2>1. state.active_fault_mask = {k \in KnownCodes : state.active_counters.by_code[k] > 0}
    BY DEF WellFormed, Consistent
  <2>2. \A k \in KnownCodes : active.by_code[k] > 0
                                <=> (state.active_counters.by_code[k] > 0 \/ k = code)
    BY <1>1, ApplyErrorCounters
  <2>3. next.active_fault_mask = {k \in KnownCodes : active.by_code[k] > 0}
    BY <1>4, <2>1, <2>2 DEF MaskForError
  <2> QED BY <1>4, <2>3 DEF Consistent
<1>8. SeverityCovered(next)
  <2>1. /\ active.by_code[HW_STATE_ERR] >= 2 => DeriveMode(active) = SAFE_MODE
        /\ active.consecutive >= 3 => DeriveMode(active) >= DEGRADED
        /\ (\E k \in KnownCodes : active.by_code[k] > 0) => DeriveMode(active) >= WARN
    BY <1>2, DeriveModeCovers
  <2>2. next.active_fault_mask # {} => \E k \in KnownCodes : active.by_code[k] > 0
    BY <1>4, <1>7 DEF Consistent
  <2> QED BY <1>3, <1>4, <1>5, <2>1, <2>2, Codes DEF SeverityCovered
<1>9. WindowBounded(next)
  BY <1>4, <1>5, Codes DEF WindowBounded
<1>10. state.lifecycle = "RECOVERING" => next.mode >= state.mode
  BY <1>1, <1>3, <1>4, Codes DEF FaultState
<1> QED BY <1>4, <1>6, <1>7, <1>8, <1>9, <1>10 DEF WellFormed

(* light_fault_mode_clear_active keeps a state well formed and its mode.   *)
(* With a marker set it starts a recovery: the branch back to STABLE       *)
(* (light_fault_mode.c:206) is never taken, a marker means at least WARN.  *)
LEMMA ClearActiveWellFormed ==
  ASSUME NEW state, WellFormed(state)
  PROVE  /\ WellFormed(ClearActive(state))
         /\ ClearActive(state).mode = state.mode
         /\ state.active_fault_mask # {} =>
              /\ ClearActive(state).lifecycle = "RECOVERING"
              /\ ClearActive(state).active_fault_mask = {}
              /\ ClearActive(state).recovery_ticks = 0
         /\ state.active_fault_mask = {} => ClearActive(state) = state
<1>1. CASE state.active_fault_mask = {}
  BY <1>1 DEF ClearActive
<1>2. CASE state.active_fault_mask # {}
  <2> DEFINE next == ClearActive(state)
  <2>1. state \in FaultState
    BY DEF WellFormed
  <2>2. state.mode >= WARN /\ state.mode # NORMAL
    BY <1>2, Codes DEF WellFormed, SeverityCovered
  <2>3. next = [state EXCEPT !.active_counters          = CountersReset,
                             !.active_fault_mask        = {},
                             !.recovery_ticks           = 0,
                             !.recovery_window_start_ms = 0,
                             !.recovery_elapsed_ms      = 0,
                             !.lifecycle                = "RECOVERING"]
    BY <1>2, <2>2 DEF ClearActive
  <2>4. /\ next.mode = state.mode
        /\ next.active_counters = CountersReset
        /\ next.active_fault_mask = {}
        /\ next.recovery_ticks = 0
        /\ next.recovery_window_start_ms = 0
        /\ next.recovery_elapsed_ms = 0
        /\ next.lifecycle = "RECOVERING"
    BY <2>1, <2>3 DEF FaultState
  <2>5. next \in FaultState
    <3>1. CountersReset \in Counters
      BY DEF CountersReset, Counters
    <3>2. next = [mode                     |-> state.mode,
                  active_counters          |-> CountersReset,
                  lifecycle                |-> "RECOVERING",
                  active_fault_mask        |-> {},
                  recovery_ticks           |-> 0,
                  recovery_window_start_ms |-> 0,
                  recovery_elapsed_ms      |-> 0,
                  last_fault_code          |-> state.last_fault_code]
      BY <2>1, <2>3 DEF FaultState
    <3> QED BY <2>1, <3>1, <3>2, Codes DEF FaultState, Lifecycles
  <2>6. Consistent(next)
    BY <2>2, <2>4, Codes DEF Consistent, NothingActive, CountersReset
  <2>7. SeverityCovered(next)
    BY <2>4, Codes DEF SeverityCovered, CountersReset
  <2>8. WindowBounded(next)
    BY <2>1, <2>4, Codes DEF WindowBounded, FaultState
  <2> QED BY <1>2, <2>4, <2>5, <2>6, <2>7, <2>8 DEF WellFormed
<1> QED BY <1>1, <1>2

(* light_fault_mode_observe_recovery_at inside an open window ...          *)
LEMMA ObserveAtInside ==
  ASSUME NEW state, NEW now_ms \in Nat, NEW elapsed,
         state.lifecycle = "RECOVERING",
         state.active_fault_mask = {},
         state.recovery_window_start_ms \in Nat \ {0},
         now_ms > state.recovery_window_start_ms,
         elapsed = now_ms - state.recovery_window_start_ms,
         elapsed < RECOVERY_WINDOW_MS
  PROVE  ObserveRecoveryAt(state, now_ms) =
           [state EXCEPT !.recovery_elapsed_ms = elapsed,
                         !.recovery_ticks = TickProgress(elapsed)]
<1>1. ~(now_ms <= state.recovery_window_start_ms)
  OBVIOUS
<1>2. state.recovery_window_start_ms # 0
  OBVIOUS
<1> QED BY <1>1, <1>2, Zenon DEF ObserveRecoveryAt

(* ... and past its end.                                                   *)
LEMMA ObserveAtEnd ==
  ASSUME NEW state, NEW now_ms \in Nat,
         state.lifecycle = "RECOVERING",
         state.active_fault_mask = {},
         state.recovery_window_start_ms \in Nat \ {0},
         now_ms > state.recovery_window_start_ms,
         ~(now_ms - state.recovery_window_start_ms < RECOVERY_WINDOW_MS)
  PROVE  ObserveRecoveryAt(state, now_ms) = CloseWindow(state, now_ms)
<1>1. ~(now_ms <= state.recovery_window_start_ms)
  OBVIOUS
<1>2. state.recovery_window_start_ms # 0
  OBVIOUS
<1> QED BY <1>1, <1>2, Zenon DEF ObserveRecoveryAt

(* One tick of the window, in ms.                                          *)
HalfWindow == RECOVERY_WINDOW_MS \div RECOVERY_WINDOW_TICKS

(* A state in recovery, member by member, once its window is open.         *)
LEMMA OpenWindowMembers ==
  ASSUME NEW state \in FaultState, state.lifecycle = "RECOVERING", NothingActive(state)
  PROVE  OpenWindow(state) =
           [mode                     |-> state.mode,
            active_counters          |-> CountersReset,
            lifecycle                |-> "RECOVERING",
            active_fault_mask        |-> {},
            recovery_ticks           |-> state.recovery_ticks,
            recovery_window_start_ms |-> NonZero(state.recovery_window_start_ms),
            recovery_elapsed_ms      |-> state.recovery_elapsed_ms,
            last_fault_code          |-> state.last_fault_code]
<1>1. \A start : [state EXCEPT !.recovery_window_start_ms = start] =
           [mode                     |-> state.mode,
            active_counters          |-> CountersReset,
            lifecycle                |-> "RECOVERING",
            active_fault_mask        |-> {},
            recovery_ticks           |-> state.recovery_ticks,
            recovery_window_start_ms |-> start,
            recovery_elapsed_ms      |-> state.recovery_elapsed_ms,
            last_fault_code          |-> state.last_fault_code]
  BY DEF FaultState, NothingActive
<1> QED BY <1>1, Zenon DEF OpenWindow

(* What recovery in a well-formed state works on: the window starts within *)
(* the first 6001 ms less the steps still to go.                           *)
LEMMA OpenWindowFacts ==
  ASSUME NEW state, WellFormed(state), state.lifecycle = "RECOVERING"
  PROVE  /\ state \in FaultState
         /\ NothingActive(state)
         /\ state.mode \in FaultModes \ {NORMAL}
         /\ state.recovery_ticks \in {0, 1}
         /\ NonZero(state.recovery_window_start_ms) \in Nat \ {0}
         /\ NonZero(state.recovery_window_start_ms) + 2000 * state.mode <= 6001
<1>1. /\ state \in FaultState
      /\ state.mode \in FaultModes
      /\ state.recovery_ticks \in {0, 1}
      /\ state.recovery_window_start_ms \in Nat
  BY Codes DEF WellFormed, FaultState
<1>2. state.recovery_window_start_ms + 2000 * state.mode <= 6001
  BY Codes DEF WellFormed, WindowBounded
<1>3. state.mode # NORMAL /\ NothingActive(state)
  BY DEF WellFormed, Consistent
<1>4. /\ NonZero(state.recovery_window_start_ms) \in Nat \ {0}
      /\ NonZero(state.recovery_window_start_ms) + 2000 * state.mode <= 6001
  BY <1>1, <1>2, Codes DEF NonZero
<1> QED BY <1>1, <1>3, <1>4

(* The first observation of a window passes on its half-way time ...       *)
LEMMA FirstObservation ==
  ASSUME NEW state, WellFormed(state), state.lifecycle = "RECOVERING",
         state.recovery_ticks = 0
  PROVE  ObserveRecovery(state) = [OpenWindow(state) EXCEPT !.recovery_elapsed_ms = HalfWindow,
                                                            !.recovery_ticks = 1]
<1> DEFINE start == NonZero(state.recovery_window_start_ms)
<1>1. /\ OpenWindow(state).recovery_window_start_ms = start
      /\ OpenWindow(state).recovery_ticks = 0
      /\ OpenWindow(state).lifecycle = "RECOVERING"
      /\ OpenWindow(state).active_fault_mask = {}
      /\ start \in Nat \ {0}
  BY OpenWindowFacts, OpenWindowMembers
<1>2. SyntheticNow(OpenWindow(state)) = start + HalfWindow
  <2> HIDE DEF start
  <2> QED BY <1>1, Codes DEF SyntheticNow, HalfWindow
<1>3. /\ start + HalfWindow \in Nat
      /\ start + HalfWindow > start
      /\ HalfWindow = (start + HalfWindow) - start
      /\ HalfWindow < RECOVERY_WINDOW_MS
  <2> HIDE DEF start
  <2> QED BY <1>1, Codes DEF HalfWindow
<1>4. TickProgress(HalfWindow) = 1
  BY Codes DEF TickProgress, HalfWindow
<1>5. ObserveRecoveryAt(OpenWindow(state), start + HalfWindow) =
        [OpenWindow(state) EXCEPT !.recovery_elapsed_ms = HalfWindow,
                                  !.recovery_ticks = TickProgress(HalfWindow)]
  <2> HIDE DEF start
  <2> QED BY <1>1, <1>3, ObserveAtInside, Zenon
<1> HIDE DEF start
<1> QED BY <1>2, <1>4, <1>5, Zenon DEF ObserveRecovery

(* ... and the second one its end.                                         *)
LEMMA SecondObservation ==
  ASSUME NEW state, WellFormed(state), state.lifecycle = "RECOVERING",
         state.recovery_ticks # 0
  PROVE  ObserveRecovery(state) =
           CloseWindow(OpenWindow(state),
                       NonZero(state.recovery_window_start_ms) + RECOVERY_WINDOW_MS)
<1> DEFINE start == NonZero(state.recovery_window_start_ms)
<1>1. /\ OpenWindow(state).recovery_window_start_ms = start
      /\ OpenWindow(state).recovery_ticks = 1
      /\ OpenWindow(state).lifecycle = "RECOVERING"
      /\ OpenWindow(state).active_fault_mask = {}
      /\ start \in Nat \ {0}
  BY OpenWindowFacts, OpenWindowMembers
<1>2. SyntheticNow(OpenWindow(state)) = start + RECOVERY_WINDOW_MS
  <2> HIDE DEF start
  <2> QED BY <1>1, Codes DEF SyntheticNow
<1>3. /\ start + RECOVERY_WINDOW_MS \in Nat
      /\ start + RECOVERY_WINDOW_MS > start
      /\ ~((start + RECOVERY_WINDOW_MS) - start < RECOVERY_WINDOW_MS)
  <2> HIDE DEF start
  <2> QED BY <1>1, Codes
<1>4. ObserveRecoveryAt(OpenWindow(state), start + RECOVERY_WINDOW_MS) =
        CloseWindow(OpenWindow(state), start + RECOVERY_WINDOW_MS)
  <2> HIDE DEF start
  <2> QED BY <1>1, <1>3, ObserveAtEnd, Zenon
<1>5. ObserveRecovery(state) = CloseWindow(OpenWindow(state), start + RECOVERY_WINDOW_MS)
  <2> HIDE DEF start
  <2> QED BY <1>2, <1>4, Zenon DEF ObserveRecovery
<1> QED BY <1>5

(* The two updates of a fault state an observation makes, member by member. *)
ProgressMade(r, e, t) == [r EXCEPT !.recovery_elapsed_ms = e, !.recovery_ticks = t]

LEMMA ProgressUpdate ==
  ASSUME NEW r \in FaultState, NEW e \in Nat,
         NEW t \in 0 .. RECOVERY_WINDOW_TICKS - 1
  PROVE  /\ ProgressMade(r, e, t) \in FaultState
         /\ ProgressMade(r, e, t).mode = r.mode
         /\ ProgressMade(r, e, t).active_counters = r.active_counters
         /\ ProgressMade(r, e, t).lifecycle = r.lifecycle
         /\ ProgressMade(r, e, t).active_fault_mask = r.active_fault_mask
         /\ ProgressMade(r, e, t).recovery_ticks = t
         /\ ProgressMade(r, e, t).recovery_window_start_ms = r.recovery_window_start_ms
         /\ ProgressMade(r, e, t).recovery_elapsed_ms = e
BY DEF FaultState, ProgressMade

WindowClosed(r, m, l, w) ==
  [r EXCEPT !.recovery_ticks           = 0,
            !.recovery_elapsed_ms      = 0,
            !.recovery_window_start_ms = w,
            !.mode                     = m,
            !.lifecycle                = l]

LEMMA WindowUpdate ==
  ASSUME NEW r \in FaultState, NEW m \in FaultModes, NEW l \in Lifecycles,
         NEW w \in Nat
  PROVE  /\ WindowClosed(r, m, l, w) \in FaultState
         /\ WindowClosed(r, m, l, w).mode = m
         /\ WindowClosed(r, m, l, w).active_counters = r.active_counters
         /\ WindowClosed(r, m, l, w).lifecycle = l
         /\ WindowClosed(r, m, l, w).active_fault_mask = r.active_fault_mask
         /\ WindowClosed(r, m, l, w).recovery_ticks = 0
         /\ WindowClosed(r, m, l, w).recovery_window_start_ms = w
         /\ WindowClosed(r, m, l, w).recovery_elapsed_ms = 0
<1>1. 0 \in 0 .. RECOVERY_WINDOW_TICKS - 1
  BY Codes
<1> QED BY <1>1 DEF FaultState, WindowClosed

(* light_fault_mode_observe_recovery keeps a state well formed; in         *)
(* recovery it either reports progress or steps one level down.            *)
LEMMA ObserveRecoveryWellFormed ==
  ASSUME NEW state, WellFormed(state), state.lifecycle = "RECOVERING"
  PROVE  /\ WellFormed(ObserveRecovery(state))
         /\ ObserveRecovery(state).active_fault_mask = {}
         /\ state.recovery_ticks = 0 =>
              /\ ObserveRecovery(state).mode = state.mode
              /\ ObserveRecovery(state).lifecycle = "RECOVERING"
              /\ ObserveRecovery(state).recovery_ticks = 1
         /\ state.recovery_ticks # 0 =>
              /\ state.recovery_ticks = 1
              /\ ObserveRecovery(state).mode = state.mode - 1
              /\ ObserveRecovery(state).lifecycle =
                   IF state.mode - 1 = NORMAL THEN "STABLE" ELSE "RECOVERING"
              /\ ObserveRecovery(state).recovery_ticks = 0
<1> DEFINE start == NonZero(state.recovery_window_start_ms)
           next  == ObserveRecovery(state)
<1>1. /\ state \in FaultState
      /\ NothingActive(state)
      /\ state.mode \in FaultModes \ {NORMAL}
      /\ state.recovery_ticks \in {0, 1}
      /\ start \in Nat \ {0}
      /\ start + 2000 * state.mode <= 6001
  BY OpenWindowFacts
<1>2. CountersReset \in Counters
  BY DEF CountersReset, Counters
<1> DEFINE open == OpenWindow(state)
<1>3. /\ open \in FaultState
      /\ open.mode = state.mode
      /\ open.active_counters = CountersReset
      /\ open.lifecycle = "RECOVERING"
      /\ open.active_fault_mask = {}
      /\ open.recovery_window_start_ms = start
  <2>1. open = [mode                     |-> state.mode,
                active_counters          |-> CountersReset,
                lifecycle                |-> "RECOVERING",
                active_fault_mask        |-> {},
                recovery_ticks           |-> state.recovery_ticks,
                recovery_window_start_ms |-> start,
                recovery_elapsed_ms      |-> state.recovery_elapsed_ms,
                last_fault_code          |-> state.last_fault_code]
    BY <1>1, OpenWindowMembers
  <2> HIDE DEF open, start
  <2> QED BY <1>1, <1>2, <2>1, Codes DEF FaultState, Lifecycles
<1>4. CASE state.recovery_ticks = 0
  <2>1. HalfWindow = 1000
    BY Codes DEF HalfWindow
  <2>2. /\ next \in FaultState
        /\ next.mode = state.mode
        /\ next.active_counters = CountersReset
        /\ next.lifecycle = "RECOVERING"
        /\ next.active_fault_mask = {}
        /\ next.recovery_ticks = 1
        /\ next.recovery_window_start_ms = start
        /\ next.recovery_elapsed_ms = 1000
    <3>1. next = ProgressMade(open, HalfWindow, 1)
      BY <1>4, FirstObservation, Zenon DEF ProgressMade
    <3>2. 1 \in 0 .. RECOVERY_WINDOW_TICKS - 1
      BY Codes
    <3> HIDE DEF start, next, open
    <3> QED BY <1>3, <2>1, <3>1, <3>2, ProgressUpdate
  <2> HIDE DEF start, next
  <2>3. Consistent(next) /\ SeverityCovered(next)
    BY <1>1, <2>2, Codes DEF Consistent, NothingActive, SeverityCovered, CountersReset
  <2>4. WindowBounded(next)
    BY <1>1, <2>2, Codes DEF WindowBounded
  <2>5. WellFormed(next)
    BY <2>2, <2>3, <2>4 DEF WellFormed
  <2> QED BY <1>4, <2>2, <2>5 DEF next
<1>5. CASE state.recovery_ticks # 0
  <2> DEFINE mode      == StepDown(state.mode)
             lifecycle == IF mode = NORMAL THEN "STABLE" ELSE "RECOVERING"
             later     == IF mode = NORMAL THEN 0 ELSE NonZero(start + RECOVERY_WINDOW_MS)
  <2>1. mode = state.mode - 1 /\ mode \in FaultModes
    BY <1>1, Codes DEF StepDown
  <2>2. lifecycle \in Lifecycles
    BY DEF Lifecycles
  <2>3. later = IF mode = NORMAL THEN 0 ELSE start + 2000
    <3> HIDE DEF start, mode
    <3> QED BY <1>1, Codes DEF NonZero
  <2>4. later \in Nat
    <3> HIDE DEF later, start, mode
    <3> QED BY <1>1, <2>3
  <2>5. /\ next \in FaultState
        /\ next.mode = mode
        /\ next.active_counters = CountersReset
        /\ next.lifecycle = lifecycle
        /\ next.active_fault_mask = {}
        /\ next.recovery_ticks = 0
        /\ next.recovery_window_start_ms = later
        /\ next.recovery_elapsed_ms = 0
    <3>1. next = CloseWindow(open, start + RECOVERY_WINDOW_MS)
      BY <1>5, SecondObservation
    <3>2. CloseWindow(open, start + RECOVERY_WINDOW_MS) =
            WindowClosed(open, mode, lifecycle, later)
      <4> HIDE DEF start, open
      <4> QED BY <1>3, Zenon DEF CloseWindow, WindowClosed
    <3> HIDE DEF start, next, later, mode, lifecycle, open
    <3> QED BY <1>3, <2>1, <2>2, <2>4, <3>1, <3>2, WindowUpdate
  <2>6. lifecycle = IF state.mode - 1 = NORMAL THEN "STABLE" ELSE "RECOVERING"
    BY <2>1
  <2>7. lifecycle = IF mode = NORMAL THEN "STABLE" ELSE "RECOVERING"
    OBVIOUS
  <2> HIDE DEF start, next, later, mode, lifecycle
  <2>8. Consistent(next) /\ SeverityCovered(next)
    BY <1>1, <2>1, <2>5, <2>7, Codes
       DEF Consistent, NothingActive, SeverityCovered, CountersReset
  <2>9. WindowBounded(next)
    BY <1>1, <2>1, <2>3, <2>5, <2>7, Codes DEF WindowBounded
  <2>10. WellFormed(next)
    BY <2>5, <2>8, <2>9 DEF WellFormed
  <2> QED BY <1>1, <1>5, <2>1, <2>5, <2>6, <2>10 DEF next
<1> QED BY <1>4, <1>5

(* The mode a reader loads from the page is the mode stored there          *)
(* (light_fault_mode.c:343-373).                                           *)
LEMMA TransportKeepsMode ==
  ASSUME NEW mode \in FaultModes
  PROVE  TransportEncode(mode) = mode /\ TransportDecode(mode) = mode
BY DEF TransportEncode, TransportDecode
===============================================================================
