--------------------------- MODULE LightSystemProofs ---------------------------
(***************************************************************************)
(* The six domains together, for every set of inputs and every bound on    *)
(* commands, races and errors: their inductive invariant, the light        *)
(* commands, and the implementation of the fault manager's model.          *)
(***************************************************************************)
EXTENDS LightSystem, FaultMgProofs, LightControlProofs

-------------------------------------------------------------------------------
(* The threads. *)

LEMMA SystemNames ==
  /\ "scheduler" \in PDs /\ "gpio" \in PDs /\ "commandin" \in PDs
  /\ "vehicle_state" \in PDs /\ "faultmg" \in PDs /\ "lightctl" \in PDs
  /\ \A p \in PDs : p \in {"scheduler", "gpio", "commandin", "vehicle_state", "faultmg", "lightctl"}
  /\ SCHEDULER_FROM_COMMANDIN = 4 /\ FAULTMG_FROM_LIGHTCTL = 5 /\ GPIO_FROM_FAULTMG = 8
  /\ LIGHTCTL_FROM_SCHEDULER = 10 /\ FAULTMG_FROM_COMMANDIN = 12
  /\ SCHEDULER_FROM_FAULTMG = 13 /\ SCHEDULER_FROM_VEHICLE_STATE = 15
  /\ VEHICLE_STATE_FROM_COMMANDIN = 18
  /\ \A c \in 0 .. 63 : c \in Channels
BY DEF PDs, SCHEDULER_FROM_COMMANDIN, FAULTMG_FROM_LIGHTCTL, GPIO_FROM_FAULTMG,
       LIGHTCTL_FROM_SCHEDULER, FAULTMG_FROM_COMMANDIN, SCHEDULER_FROM_FAULTMG,
       SCHEDULER_FROM_VEHICLE_STATE, VEHICLE_STATE_FROM_COMMANDIN, Channels

LEMMA SystemLabelNames ==
  /\ \A label \in {"blocked", "ready", "read_len", "read_payload", "switch", "publish",
                   "read_field", "read_value", "apply", "notify",
                   "copy", "build", "guard", "report", "trigger"} : label \in SystemLabels
  /\ Labels \subseteq SystemLabels
BY DEF SystemLabels, Labels

(* A thread that waits owes no call, commandin always waits, scheduler and *)
(* gpio are never between two steps of a handler, and nobody signals them  *)
(* while they are at work.                                                 *)
ThreadsOK(t) ==
  /\ t \in Threads(SystemLabels)
  /\ \A p \in PDs : t[p].pc = "blocked" => t[p].todo = {} /\ t[p].badge = {}
  /\ t["commandin"].pc = "blocked"
  /\ \A p \in {"scheduler", "gpio"} : t[p].pc \in {"blocked", "ready"} /\ t[p].badge = {}

(* The domains of higher priority than the running one wait.               *)
Waits(p) == thread[p].pc = "blocked"

LEMMA AboveWait ==
  ASSUME NEW p \in PDs, Runs(p)
  PROVE  /\ p = "gpio" => Waits("scheduler")
         /\ p = "commandin" => Waits("scheduler") /\ Waits("gpio")
         /\ p = "vehicle_state" => Waits("scheduler") /\ Waits("gpio")
         /\ p = "faultmg" => Waits("scheduler") /\ Waits("gpio") /\ Waits("vehicle_state")
         /\ p = "lightctl" => /\ Waits("scheduler") /\ Waits("gpio")
                              /\ Waits("vehicle_state") /\ Waits("faultmg")
BY DEF Runs, PDs, Priority, Waits

(* What a step does to the thread of p: it moves on, takes up a call, is   *)
(* woken by a signal, or is signalled whatever it does.                    *)
Moves(t, p, label) ==
  t[p].pc = label /\ t[p].todo = thread[p].todo /\ t[p].badge = thread[p].badge

Handles(t, p, channel, label) ==
  /\ t[p].pc = label /\ t[p].badge = thread[p].badge
  /\ \A c : c \in t[p].todo <=> c \in thread[p].todo /\ c # channel

IsWoken(t, p, channel) ==
  t[p].pc = "ready" /\ t[p].todo = {channel} /\ t[p].badge = {}

Told(t, p, channel) ==
  /\ thread[p].pc = "blocked" => IsWoken(t, p, channel)
  /\ thread[p].pc # "blocked" =>
       /\ t[p].pc = thread[p].pc /\ t[p].todo = thread[p].todo
       /\ \A c : c \in t[p].badge <=> c \in thread[p].badge \/ c = channel

Keeps(t, ps) == \A q \in ps : t[q] = thread[q]

Others(ps) == PDs \ ps

(* One thread replaced.                                                    *)
LEMMA ThreadsStay ==
  ASSUME ThreadsOK(thread), NEW t \in Threads(SystemLabels), NEW p \in PDs,
         Keeps(t, Others({p})), t[p].pc # "blocked", p # "commandin",
         p \in {"scheduler", "gpio"} => t[p].pc = "ready" /\ t[p].badge = {}
  PROVE  ThreadsOK(t)
BY SystemNames DEF ThreadsOK, Keeps, Others

LEMMA WordFacts ==
  /\ \A word \in Word : word \in Nat
  /\ \A small \in 0 .. 180 : small \in Word
<1>1. UINT16_MAX \in Nat /\ 180 <= UINT16_MAX
  BY DEF UINT16_MAX
<1> QED BY <1>1 DEF Word

(* p goes to a point of its code.                                          *)
LEMMA GoneTo ==
  ASSUME ThreadsOK(thread), NEW p \in {"vehicle_state", "faultmg", "lightctl"},
         NEW label \in SystemLabels, label # "blocked"
  PROVE  LET t == Goto(p, label)
         IN  ThreadsOK(t) /\ Moves(t, p, label) /\ Keeps(t, Others({p}))
<1> DEFINE t == Goto(p, label)
<1>1. p \in PDs /\ thread \in Threads(SystemLabels)
  BY SystemNames DEF ThreadsOK
<1>2. /\ t \in Threads(SystemLabels) /\ t[p].pc = label
      /\ t[p].todo = thread[p].todo /\ t[p].badge = thread[p].badge
  <2> DEFINE after == [thread[p] EXCEPT !.pc = label]
  <2>1. thread[p] \in ThreadRecord(SystemLabels)
    BY <1>1 DEF Threads
  <2>2. /\ after \in ThreadRecord(SystemLabels) /\ after.pc = label
        /\ after.todo = thread[p].todo /\ after.badge = thread[p].badge
    BY <2>1 DEF ThreadRecord
  <2>3. t = [thread EXCEPT ![p] = after]
    BY DEF Goto
  <2> HIDE DEF after, t
  <2> QED BY <1>1, <2>2, <2>3 DEF Threads
<1>3. \A q \in PDs : q # p => t[q] = thread[q]
  BY <1>1 DEF Threads, Goto
<1> HIDE DEF t
<1>4. Moves(t, p, label) /\ Keeps(t, Others({p}))
  BY <1>2, <1>3 DEF Moves, Keeps, Others
<1>5. ThreadsOK(t)
  BY <1>1, <1>2, <1>4, ThreadsStay
<1> QED BY <1>4, <1>5 DEF t

(* p takes up the call for a channel.                                      *)
LEMMA Entered ==
  ASSUME ThreadsOK(thread), NEW p \in PDs, p # "commandin", NEW c,
         NEW label \in SystemLabels, label # "blocked",
         p \in {"scheduler", "gpio"} => label = "ready"
  PROVE  LET t == Enter(p, c, label)
         IN  ThreadsOK(t) /\ Handles(t, p, c, label) /\ Keeps(t, Others({p}))
<1> DEFINE t == Enter(p, c, label)
<1>1. thread \in Threads(SystemLabels)
  BY DEF ThreadsOK
<1>2. /\ t \in Threads(SystemLabels) /\ t[p].pc = label
      /\ t[p].todo = thread[p].todo \ {c} /\ t[p].badge = thread[p].badge
  <2> DEFINE after == [[thread[p] EXCEPT !.todo = @ \ {c}] EXCEPT !.pc = label]
  <2>1. thread[p] \in ThreadRecord(SystemLabels)
    BY <1>1 DEF Threads
  <2>2. /\ after \in ThreadRecord(SystemLabels) /\ after.pc = label
        /\ after.todo = thread[p].todo \ {c} /\ after.badge = thread[p].badge
    BY <2>1 DEF ThreadRecord
  <2>3. t = [thread EXCEPT ![p] = after]
    BY DEF Enter
  <2> HIDE DEF after, t
  <2> QED BY <1>1, <2>2, <2>3 DEF Threads
<1>3. \A x : x \in t[p].todo <=> x \in thread[p].todo /\ x # c
  BY <1>2
<1>4. \A q \in PDs : q # p => t[q] = thread[q]
  BY <1>1 DEF Threads, Enter
<1> HIDE DEF t
<1>5. Handles(t, p, c, label) /\ Keeps(t, Others({p}))
  BY <1>2, <1>3, <1>4 DEF Handles, Keeps, Others
<1>6. p \in {"scheduler", "gpio"} => t[p].pc = "ready" /\ t[p].badge = {}
  BY <1>2 DEF ThreadsOK
<1>7. ThreadsOK(t)
  BY <1>2, <1>5, <1>6, ThreadsStay
<1> QED BY <1>5, <1>7 DEF t

(* q is signalled, after another thread has moved or not.                  *)
LEMMA SignalSent ==
  ASSUME NEW t, ThreadsOK(t), NEW q \in PDs, q # "commandin", NEW c \in Channels,
         q \in {"scheduler", "gpio"} => t[q].pc = "blocked"
  PROVE  LET s == Signal(t, q, c)
         IN  /\ ThreadsOK(s)
             /\ \A p \in PDs \ {q} : s[p] = t[p]
             /\ t[q].pc = "blocked" => IsWoken(s, q, c)
             /\ t[q].pc # "blocked" =>
                  /\ s[q].pc = t[q].pc /\ s[q].todo = t[q].todo
                  /\ \A x : x \in s[q].badge <=> x \in t[q].badge \/ x = c
<1> DEFINE s == Signal(t, q, c)
<1>1. t \in Threads(SystemLabels) /\ t[q] \in ThreadRecord(SystemLabels)
  BY DEF ThreadsOK, Threads
<1>2. "ready" \in SystemLabels
  BY SystemLabelNames
<1>3. /\ s \in Threads(SystemLabels) /\ s[q].pc # "blocked"
      /\ \A p \in PDs : p # q => s[p] = t[p]
      /\ s[q] = Signalled(t[q], c)
  BY <1>1, <1>2, SignalThread
<1>4. t[q].pc = "blocked" =>
        /\ Signalled(t[q], c).pc = "ready"
        /\ Signalled(t[q], c).todo = {c} /\ Signalled(t[q], c).badge = {}
  BY <1>1, <1>2, SignalledThread
<1>5. t[q].pc # "blocked" =>
        /\ Signalled(t[q], c).pc = t[q].pc /\ Signalled(t[q], c).todo = t[q].todo
        /\ Signalled(t[q], c).badge = t[q].badge \cup {c}
  BY <1>1, <1>2, SignalledThread
<1> HIDE DEF s
<1>6. t[q].pc = "blocked" => IsWoken(s, q, c)
  BY <1>3, <1>4 DEF IsWoken
<1>7. ThreadsOK(s)
  BY <1>3, <1>6, SystemNames DEF ThreadsOK, IsWoken
<1> QED BY <1>3, <1>5, <1>6, <1>7 DEF s

LEMMA SignalTold ==
  ASSUME ThreadsOK(thread), NEW q \in PDs, q # "commandin", NEW c \in Channels,
         q \in {"scheduler", "gpio"} => Waits(q)
  PROVE  LET s == Signal(thread, q, c)
         IN  ThreadsOK(s) /\ Told(s, q, c) /\ Keeps(s, Others({q}))
<1> DEFINE s == Signal(thread, q, c)
<1>1. ThreadsOK(s)
  BY SignalSent DEF Waits
<1>2. \A p \in PDs \ {q} : s[p] = thread[p]
  BY SignalSent DEF Waits
<1>3. /\ thread[q].pc = "blocked" => IsWoken(s, q, c)
      /\ thread[q].pc # "blocked" =>
           /\ s[q].pc = thread[q].pc /\ s[q].todo = thread[q].todo
           /\ \A x : x \in s[q].badge <=> x \in thread[q].badge \/ x = c
  BY SignalSent DEF Waits
<1> HIDE DEF s
<1> QED BY <1>1, <1>2, <1>3 DEF Told, Keeps, Others, s

(* p moves on and wakes a domain that waits.                               *)
LEMMA GoneAndWoken ==
  ASSUME ThreadsOK(thread), NEW p \in {"vehicle_state", "faultmg", "lightctl"},
         NEW label \in SystemLabels, label # "blocked",
         NEW q \in {"scheduler", "gpio", "faultmg"}, q # p, Waits(q), NEW c \in Channels
  PROVE  LET s == Signal(Goto(p, label), q, c)
         IN  ThreadsOK(s) /\ Moves(s, p, label) /\ IsWoken(s, q, c) /\ Keeps(s, Others({p, q}))
<1> DEFINE t == Goto(p, label)
<1>1. ThreadsOK(t) /\ Moves(t, p, label) /\ Keeps(t, Others({p}))
  BY GoneTo
<1>2. q \in PDs /\ p \in PDs
  BY SystemNames
<1> HIDE DEF t
<1>3. t[q].pc = "blocked"
  BY <1>1, <1>2 DEF Waits, Keeps, Others
<1> DEFINE s == Signal(t, q, c)
<1>4. ThreadsOK(s) /\ IsWoken(s, q, c)
  BY <1>1, <1>2, <1>3, SignalSent
<1>5. \A x \in PDs \ {q} : s[x] = t[x]
  BY <1>1, <1>2, <1>3, SignalSent
<1> HIDE DEF s
<1>6. Moves(s, p, label) /\ Keeps(s, Others({p, q}))
  BY <1>1, <1>2, <1>5 DEF Moves, Keeps, Others
<1> QED BY <1>4, <1>6 DEF s, t

(* p has handled its call and tells another.                               *)
LEMMA EnteredAndTold ==
  ASSUME ThreadsOK(thread), NEW ch, NEW c \in Channels
  PROVE  LET s == Signal(Enter("scheduler", ch, "ready"), "lightctl", c)
         IN  /\ ThreadsOK(s) /\ Handles(s, "scheduler", ch, "ready") /\ Told(s, "lightctl", c)
             /\ Keeps(s, Others({"scheduler", "lightctl"}))
<1> DEFINE t == Enter("scheduler", ch, "ready")
<1>0. "scheduler" \in PDs /\ "lightctl" \in PDs /\ "ready" \in SystemLabels
  BY SystemNames, SystemLabelNames
<1>1. ThreadsOK(t) /\ Handles(t, "scheduler", ch, "ready") /\ Keeps(t, Others({"scheduler"}))
  BY <1>0, Entered
<1> HIDE DEF t
<1>2. t["lightctl"] = thread["lightctl"]
  BY <1>0, <1>1 DEF Keeps, Others
<1> DEFINE s == Signal(t, "lightctl", c)
<1>3. ThreadsOK(s) /\ (t["lightctl"].pc = "blocked" => IsWoken(s, "lightctl", c))
  BY <1>0, <1>1, SignalSent
<1>4. t["lightctl"].pc # "blocked" =>
        /\ s["lightctl"].pc = t["lightctl"].pc /\ s["lightctl"].todo = t["lightctl"].todo
        /\ \A x : x \in s["lightctl"].badge <=> x \in t["lightctl"].badge \/ x = c
  BY <1>0, <1>1, SignalSent
<1>5. \A x \in PDs \ {"lightctl"} : s[x] = t[x]
  BY <1>0, <1>1, SignalSent
<1> HIDE DEF s
<1>6. Handles(s, "scheduler", ch, "ready") /\ Keeps(s, Others({"scheduler", "lightctl"}))
  BY <1>0, <1>1, <1>5 DEF Handles, Keeps, Others
<1>7. Told(s, "lightctl", c)
  BY <1>2, <1>3, <1>4 DEF Told
<1> QED BY <1>3, <1>6, <1>7 DEF s, t

(* p waits again, or goes on with what was signalled meanwhile.            *)
IsWaiting(t, p) ==
  /\ t[p].pc = "blocked" \/ t[p].pc = "ready"
  /\ t[p].pc = "blocked" <=> thread[p].badge = {}
  /\ t[p].todo = thread[p].badge /\ t[p].badge = {}
  /\ thread[p].pc = "ready" /\ thread[p].todo = {}

LEMMA Waited ==
  ASSUME ThreadsOK(thread), NEW p \in PDs, Wait(p)
  PROVE  ThreadsOK(thread') /\ IsWaiting(thread', p) /\ Keeps(thread', Others({p}))
<1>1. thread \in Threads(SystemLabels) /\ "blocked" \in SystemLabels /\ "ready" \in SystemLabels
  BY SystemLabelNames DEF ThreadsOK
<1>2. thread' \in Threads(SystemLabels) /\ \A q \in PDs : q # p => thread'[q] = thread[q]
  BY <1>1, WaitThread
<1>3. /\ thread'[p].pc \in {"blocked", "ready"}
      /\ thread'[p].pc = "blocked" <=> thread[p].badge = {}
      /\ thread'[p].todo = thread[p].badge
      /\ thread'[p].badge = {}
  BY <1>1, WaitThread
<1>4. thread[p].pc = "ready" /\ thread[p].todo = {}
  BY DEF Wait
<1>5. ThreadsOK(thread')
  BY <1>2, <1>3, <1>4, SystemNames DEF ThreadsOK
<1> QED BY <1>2, <1>3, <1>4, <1>5 DEF IsWaiting, Keeps, Others

-------------------------------------------------------------------------------
(* What a step of each domain does to the threads, and to what the others  *)
(* keep. *)

LEMMA LoopStep ==
  ASSUME ThreadsOK(thread), NEW p \in PDs, Loop(p)
  PROVE  /\ ThreadsOK(thread') /\ IsWaiting(thread', p) /\ Keeps(thread', Others({p}))
         /\ UNCHANGED <<fault, input_buffer, seen, shared, console, request, lightctl, pins>>
BY Waited DEF Loop

(* commandin: one receiver at most is signalled, whatever it does.         *)
LEMMA DispatchSteps ==
  ASSUME ThreadsOK(thread), NEW m, NEW value, Dispatch(m, value)
  PROVE  /\ ThreadsOK(thread')
         /\ Waits("scheduler") /\ Waits("gpio")
         /\ Keeps(thread', {"gpio", "commandin", "lightctl"})
         /\ IF m.type = "LIGHT_CMD" THEN IsWoken(thread', "scheduler", 4)
            ELSE thread'["scheduler"] = thread["scheduler"]
         /\ IF m.type = "VEHICLE_STATE_UPDATE" THEN Told(thread', "vehicle_state", 18)
            ELSE thread'["vehicle_state"] = thread["vehicle_state"]
         /\ IF RoutedHere(m) THEN Told(thread', "faultmg", 12)
            ELSE thread'["faultmg"] = thread["faultmg"]
<1>1. Waits("scheduler") /\ Waits("gpio")
  BY AboveWait, SystemNames DEF Dispatch
<1>2. /\ thread' = Route(thread, m)
      /\ m.type = "LIGHT_CMD" => ~RoutedHere(m)
      /\ m.type = "VEHICLE_STATE_UPDATE" => ~RoutedHere(m)
  BY DEF Dispatch, RoutedHere
<1>3. CASE m.type = "LIGHT_CMD"
  <2>1. thread' = Signal(thread, "scheduler", 4)
    BY <1>2, <1>3, SystemNames DEF Route
  <2> DEFINE s == Signal(thread, "scheduler", 4)
  <2>a. "scheduler" \in PDs /\ 4 \in Channels /\ Waits("scheduler")
    BY <1>1, SystemNames
  <2>b. ThreadsOK(s) /\ Told(s, "scheduler", 4) /\ Keeps(s, Others({"scheduler"}))
    BY <2>a, SignalTold
  <2>2. ThreadsOK(thread') /\ Told(thread', "scheduler", 4) /\ Keeps(thread', Others({"scheduler"}))
    BY <2>1, <2>b
  <2> QED BY <1>1, <1>2, <1>3, <2>2, SystemNames DEF Told, Keeps, Others, Waits
<1>4. CASE m.type = "VEHICLE_STATE_UPDATE"
  <2>0. m.type # "LIGHT_CMD"
    BY <1>4
  <2>1. thread' = Signal(thread, "vehicle_state", 18)
    BY <1>2, <1>4, <2>0, SystemNames DEF Route
  <2>2. "vehicle_state" \in PDs /\ 18 \in Channels
    BY SystemNames
  <2> DEFINE s == Signal(thread, "vehicle_state", 18)
  <2>3. /\ ThreadsOK(s) /\ Told(s, "vehicle_state", 18)
        /\ Keeps(s, Others({"vehicle_state"}))
    BY <1>1, <2>2, SignalTold
  <2>4. /\ ThreadsOK(thread') /\ Told(thread', "vehicle_state", 18)
        /\ Keeps(thread', Others({"vehicle_state"}))
    BY <2>1, <2>3
  <2> HIDE DEF s
  <2> QED BY <1>1, <1>2, <1>4, <2>0, <2>4, SystemNames DEF Keeps, Others
<1>5. CASE RoutedHere(m)
  <2>0. m.type # "LIGHT_CMD" /\ m.type # "VEHICLE_STATE_UPDATE"
    BY <1>2, <1>5
  <2>1. thread' = Signal(thread, "faultmg", 12)
    BY <1>2, <1>5, <2>0, SystemNames DEF Route
  <2>2. ThreadsOK(thread') /\ Told(thread', "faultmg", 12) /\ Keeps(thread', Others({"faultmg"}))
    BY <2>1, SignalTold, SystemNames
  <2> QED BY <1>1, <1>2, <1>5, <2>2, SystemNames DEF Keeps, Others
<1>6. CASE m.type # "LIGHT_CMD" /\ m.type # "VEHICLE_STATE_UPDATE" /\ ~RoutedHere(m)
  <2>1. thread' = thread
    BY <1>2, <1>6 DEF Route
  <2> QED BY <1>1, <1>6, <2>1 DEF Keeps
<1> QED BY <1>3, <1>4, <1>5, <1>6

(* scheduler: a handler computes the target from shared memory as it is    *)
(* and tells lightctl, or a command is dropped.                            *)
Recomputes ==
  /\ target_output' = ComputeTarget(operator_request', vehicle_state, shmem_fault["fault_mode"])
  /\ vehicle_speed' = vehicle_state.speed_kph
  /\ Told(thread', "lightctl", 10)

LEMMA CalledWith ==
  ASSUME NEW p, NEW channel, Called(p, channel)
  PROVE  Runs(p) /\ thread[p].pc = "ready" /\ channel \in thread[p].todo
BY DEF Called

LEMMA SchedulerSteps ==
  ASSUME ThreadsOK(thread), Scheduler
  PROVE  /\ ThreadsOK(thread')
         /\ Keeps(thread', {"gpio", "commandin", "vehicle_state", "faultmg"})
         /\ UNCHANGED <<fault, input_buffer, console, request, lightctl, pins, vehicle_state>>
         /\ \/ seen' = seen /\ (13 \in thread["scheduler"].todo => 13 \in thread'["scheduler"].todo)
            \/ seen' = [seen EXCEPT !["scheduler"] = shmem_fault["fault_mode"]]
         /\ \A c : c \in thread'["scheduler"].todo => c \in thread["scheduler"].todo
         /\ \/ Recomputes
            \/ /\ UNCHANGED shared /\ thread'["lightctl"] = thread["lightctl"]
               /\ \A c \in {13, 15} :
                    c \in thread["scheduler"].todo => c \in thread'["scheduler"].todo
<1> DEFINE done(c) == Enter("scheduler", c, "ready")
<1>0. "ready" \in SystemLabels /\ "ready" # "blocked"
  BY SystemLabelNames
<1>1. ASSUME NEW c, thread' = Signal(done(c), "lightctl", 10)
      PROVE  /\ ThreadsOK(thread') /\ Handles(thread', "scheduler", c, "ready")
             /\ Told(thread', "lightctl", 10)
             /\ Keeps(thread', Others({"scheduler", "lightctl"}))
  BY <1>1, EnteredAndTold, SystemNames
<1>2. ASSUME NEW c, thread' = done(c)
      PROVE  /\ ThreadsOK(thread') /\ Handles(thread', "scheduler", c, "ready")
             /\ Keeps(thread', Others({"scheduler"}))
  BY <1>0, <1>2, Entered, SystemNames
<1> HIDE DEF done
<1>3. ASSUME NEW c, NEW next, Recompute(next, done(c)),
             UNCHANGED <<fault, input_buffer, console, request, lightctl, pins>>
      PROVE  /\ ThreadsOK(thread')
             /\ Keeps(thread', {"gpio", "commandin", "vehicle_state", "faultmg"})
             /\ UNCHANGED vehicle_state
             /\ \A x : x \in thread'["scheduler"].todo <=> x \in thread["scheduler"].todo /\ x # c
             /\ Recomputes
  <2>1. /\ operator_request' = next
        /\ target_output' = ComputeTarget(next, vehicle_state, shmem_fault["fault_mode"])
        /\ vehicle_speed' = vehicle_state.speed_kph
        /\ thread' = Signal(done(c), "lightctl", 10)
        /\ UNCHANGED vehicle_state
    BY <1>3, SystemNames DEF Recompute
  <2>2. /\ ThreadsOK(thread') /\ Handles(thread', "scheduler", c, "ready")
        /\ Told(thread', "lightctl", 10)
        /\ Keeps(thread', Others({"scheduler", "lightctl"}))
    BY <1>1, <2>1
  <2>3. Keeps(thread', {"gpio", "commandin", "vehicle_state", "faultmg"})
    BY <2>2, SystemNames DEF Keeps, Others
  <2> QED BY <2>1, <2>2, <2>3 DEF Recomputes, Handles
<1>4. CASE SchedulerCommand
  <2>1. UNCHANGED <<fault, input_buffer, seen, console, request, lightctl, pins>>
    BY <1>4 DEF SchedulerCommand
  <2>2. \/ \E next : Recompute(next, done(4))
        \/ thread' = done(4) /\ UNCHANGED shared
    BY <1>4, SystemNames DEF SchedulerCommand, done
  <2>3. ASSUME thread' = done(4), UNCHANGED shared
        PROVE  /\ ThreadsOK(thread')
               /\ Keeps(thread', {"gpio", "commandin", "vehicle_state", "faultmg"})
               /\ thread'["lightctl"] = thread["lightctl"]
               /\ \A x : x \in thread'["scheduler"].todo => x \in thread["scheduler"].todo
               /\ \A c \in {13, 15} :
                    c \in thread["scheduler"].todo => c \in thread'["scheduler"].todo
    <3>1. /\ ThreadsOK(thread') /\ Handles(thread', "scheduler", 4, "ready")
          /\ Keeps(thread', Others({"scheduler"}))
      BY <1>2, <2>3
    <3> QED BY <3>1, SystemNames DEF Handles, Keeps, Others
  <2>4. ASSUME NEW next, Recompute(next, done(4))
        PROVE  /\ ThreadsOK(thread')
               /\ Keeps(thread', {"gpio", "commandin", "vehicle_state", "faultmg"})
               /\ UNCHANGED vehicle_state
               /\ \A x : x \in thread'["scheduler"].todo <=>
                           x \in thread["scheduler"].todo /\ x # 4
               /\ Recomputes
    BY <1>3, <2>1, <2>4
  <2> QED BY <2>1, <2>2, <2>3, <2>4 DEF shared
<1>5. CASE SchedulerFaultMode
  <2>1. /\ UNCHANGED <<fault, input_buffer, console, request, lightctl, pins>>
        /\ seen' = [seen EXCEPT !["scheduler"] = shmem_fault["fault_mode"]]
        /\ Recompute(operator_request, done(13))
    BY <1>5, SystemNames DEF SchedulerFaultMode, done
  <2> QED BY <1>3, <2>1
<1>6. CASE SchedulerVehicleState
  <2>1. /\ UNCHANGED <<fault, input_buffer, seen, console, request, lightctl, pins>>
        /\ Recompute(operator_request, done(15))
    BY <1>6, SystemNames DEF SchedulerVehicleState, done
  <2> QED BY <1>3, <2>1
<1>7. CASE Loop("scheduler")
  <2>1. /\ ThreadsOK(thread') /\ IsWaiting(thread', "scheduler")
        /\ Keeps(thread', Others({"scheduler"}))
        /\ UNCHANGED <<fault, input_buffer, seen, shared, console, request, lightctl, pins>>
    BY <1>7, LoopStep, SystemNames
  <2>2. thread["scheduler"].todo = {} /\ thread'["scheduler"].todo = {}
    BY <2>1 DEF IsWaiting, ThreadsOK
  <2> QED BY <2>1, <2>2, SystemNames DEF Keeps, Others, shared
<1> QED BY <1>4, <1>5, <1>6, <1>7 DEF Scheduler

(* gpio: a notification of the mode touches no pin, an action performs the *)
(* one its channel stands for.                                             *)
GpioPerforms(c) ==
  /\ c \in thread["gpio"].todo
  /\ \A x : x \in thread'["gpio"].todo <=> x \in thread["gpio"].todo /\ x # c
  /\ pins' = Perform(pins, ActionOf(c))

LEMMA GpioSteps ==
  ASSUME ThreadsOK(thread), Gpio
  PROVE  /\ ThreadsOK(thread') /\ Keeps(thread', Others({"gpio"}))
         /\ UNCHANGED <<fault, input_buffer, shared, console, request, lightctl>>
         /\ \/ seen' = seen /\ (8 \in thread["gpio"].todo => 8 \in thread'["gpio"].todo)
            \/ seen' = [seen EXCEPT !["gpio"] = TransportDecode(fault_mode_shared)]
         /\ \/ /\ UNCHANGED pins
               /\ \A x : x \in thread'["gpio"].todo => x \in thread["gpio"].todo
               /\ \A x \in 20 .. 31 : x \in thread["gpio"].todo => x \in thread'["gpio"].todo
            \/ \E c \in 20 .. 31 : GpioPerforms(c)
<1>0. "ready" \in SystemLabels /\ "ready" # "blocked" /\ "gpio" \in PDs /\ "gpio" # "commandin"
  BY SystemNames, SystemLabelNames
<1>1. ASSUME NEW c, thread' = Enter("gpio", c, "ready")
      PROVE  /\ ThreadsOK(thread') /\ Handles(thread', "gpio", c, "ready")
             /\ Keeps(thread', Others({"gpio"}))
  BY <1>0, <1>1, Entered
<1>2. CASE GpioFaultMode
  <2>1. /\ UNCHANGED <<fault, input_buffer, shared, console, request, lightctl, pins>>
        /\ seen' = [seen EXCEPT !["gpio"] = TransportDecode(fault_mode_shared)]
        /\ thread' = Enter("gpio", 8, "ready")
    BY <1>2, SystemNames DEF GpioFaultMode
  <2>2. /\ ThreadsOK(thread') /\ Handles(thread', "gpio", 8, "ready")
        /\ Keeps(thread', Others({"gpio"}))
    BY <1>1, <2>1
  <2> QED BY <2>1, <2>2 DEF Handles
<1>3. ASSUME NEW c \in 20 .. 31, GpioAction(c)
      PROVE  /\ ThreadsOK(thread') /\ Keeps(thread', Others({"gpio"}))
             /\ UNCHANGED <<fault, input_buffer, seen, shared, console, request, lightctl>>
             /\ GpioPerforms(c)
             /\ 8 \in thread["gpio"].todo => 8 \in thread'["gpio"].todo
  <2>1. /\ UNCHANGED <<fault, input_buffer, seen, shared, console, request, lightctl>>
        /\ pins' = Perform(pins, ActionOf(c))
        /\ thread' = Enter("gpio", c, "ready")
        /\ c \in thread["gpio"].todo
    BY <1>3 DEF GpioAction, Called, Perform
  <2>2. /\ ThreadsOK(thread') /\ Handles(thread', "gpio", c, "ready")
        /\ Keeps(thread', Others({"gpio"}))
    BY <1>1, <2>1
  <2> QED BY <2>1, <2>2 DEF Handles, GpioPerforms
<1>4. CASE Loop("gpio")
  <2>1. /\ ThreadsOK(thread') /\ IsWaiting(thread', "gpio")
        /\ Keeps(thread', Others({"gpio"}))
        /\ UNCHANGED <<fault, input_buffer, seen, shared, console, request, lightctl, pins>>
    BY <1>0, <1>4, LoopStep
  <2>2. thread["gpio"].todo = {} /\ thread'["gpio"].todo = {}
    BY <2>1 DEF IsWaiting, ThreadsOK
  <2> QED BY <2>1, <2>2
<1> QED BY <1>2, <1>3, <1>4 DEF Gpio

(* vehicle_state: the state it stores is notified before the handler ends. *)
LEMMA VehicleSteps ==
  ASSUME ThreadsOK(thread), Vehicle
  PROVE  /\ ThreadsOK(thread')
         /\ Keeps(thread', {"gpio", "commandin", "faultmg", "lightctl"})
         /\ VehicleKeeps
         /\ Waits("scheduler") /\ Waits("gpio") /\ ~Waits("vehicle_state")
         /\ \/ /\ thread'["scheduler"] = thread["scheduler"]
               /\ thread["vehicle_state"].pc # "notify"
               /\ vehicle_state' # vehicle_state => thread'["vehicle_state"].pc = "notify"
            \/ UNCHANGED vehicle_state /\ IsWoken(thread', "scheduler", 15)
<1>0. "vehicle_state" \in PDs /\ "vehicle_state" # "commandin"
  BY SystemNames
<1>1. Runs("vehicle_state") /\ thread["vehicle_state"].pc # "blocked"
  BY DEF Vehicle, VehicleReadType, VehicleReadLen, VehicleReadField, VehicleReadValue,
         VehicleApply, VehicleNotify, VehicleAt, Called, Loop, Wait
<1>2. Waits("scheduler") /\ Waits("gpio") /\ ~Waits("vehicle_state")
  BY <1>0, <1>1, AboveWait DEF Waits
<1>3. VehicleKeeps
  BY DEF Vehicle, VehicleReadType, VehicleReadLen, VehicleReadField, VehicleReadValue,
         VehicleApply, VehicleNotify, VehicleKeeps, Loop, shared
<1>4. ASSUME NEW label \in SystemLabels, label # "blocked", thread' = Goto("vehicle_state", label)
      PROVE  /\ ThreadsOK(thread') /\ Moves(thread', "vehicle_state", label)
             /\ Keeps(thread', Others({"vehicle_state"}))
  BY <1>4, GoneTo
<1>5. ASSUME Keeps(thread', Others({"vehicle_state"}))
      PROVE  /\ Keeps(thread', {"gpio", "commandin", "faultmg", "lightctl"})
             /\ thread'["scheduler"] = thread["scheduler"]
  BY <1>5, SystemNames DEF Keeps, Others
<1>6. CASE VehicleReadType
  <2>1. /\ thread' = Enter("vehicle_state", 18, "read_len") /\ UNCHANGED vehicle_state
        /\ thread["vehicle_state"].pc = "ready"
    BY <1>6, SystemNames DEF VehicleReadType, Called
  <2>2. "read_len" \in SystemLabels /\ "read_len" # "blocked"
    BY SystemLabelNames
  <2>3. ThreadsOK(thread') /\ Keeps(thread', Others({"vehicle_state"}))
    BY <1>0, <2>1, <2>2, Entered
  <2> QED BY <1>2, <1>3, <1>5, <2>1, <2>3
<1>7. CASE VehicleReadLen \/ VehicleReadField \/ VehicleReadValue
  <2>1. UNCHANGED vehicle_state /\ thread["vehicle_state"].pc # "notify"
    BY <1>7 DEF VehicleReadLen, VehicleReadField, VehicleReadValue, VehicleAt
  <2>2. \E label \in {"read_field", "read_value", "apply"} :
          thread' = Goto("vehicle_state", label)
    BY <1>7 DEF VehicleReadLen, VehicleReadField, VehicleReadValue
  <2>3. ThreadsOK(thread') /\ Keeps(thread', Others({"vehicle_state"}))
    BY <1>4, <2>2, SystemLabelNames
  <2> QED BY <1>2, <1>3, <1>5, <2>1, <2>3
<1>8. CASE VehicleApply
  <2>1. PICK label \in {"ready", "notify"} :
          /\ thread' = Goto("vehicle_state", label)
          /\ label = "ready" => vehicle_state' = vehicle_state
    BY <1>8 DEF VehicleApply
  <2>2. thread["vehicle_state"].pc # "notify"
    BY <1>8 DEF VehicleApply, VehicleAt
  <2>3. label \in SystemLabels /\ label # "blocked"
    BY <2>1, SystemLabelNames
  <2>4. /\ ThreadsOK(thread') /\ Moves(thread', "vehicle_state", label)
        /\ Keeps(thread', Others({"vehicle_state"}))
    BY <1>4, <2>1, <2>3
  <2> QED BY <1>2, <1>3, <1>5, <2>1, <2>2, <2>4 DEF Moves
<1>9. CASE VehicleNotify
  <2>1. /\ thread' = Signal(Goto("vehicle_state", "ready"), "scheduler", 15)
        /\ UNCHANGED vehicle_state
    BY <1>9, SystemNames DEF VehicleNotify
  <2>2. /\ "ready" \in SystemLabels /\ "ready" # "blocked" /\ 15 \in Channels
        /\ "vehicle_state" \in {"vehicle_state", "faultmg", "lightctl"}
        /\ "scheduler" \in {"scheduler", "gpio", "faultmg"} /\ "scheduler" # "vehicle_state"
    BY SystemNames, SystemLabelNames
  <2> DEFINE s == Signal(Goto("vehicle_state", "ready"), "scheduler", 15)
  <2>3. ThreadsOK(s) /\ IsWoken(s, "scheduler", 15) /\ Keeps(s, Others({"vehicle_state", "scheduler"}))
    BY <1>2, <2>2, GoneAndWoken
  <2>4. /\ ThreadsOK(thread') /\ IsWoken(thread', "scheduler", 15)
        /\ Keeps(thread', Others({"vehicle_state", "scheduler"}))
    BY <2>1, <2>3
  <2>5. Keeps(thread', {"gpio", "commandin", "faultmg", "lightctl"})
    BY <2>4, SystemNames DEF Keeps, Others
  <2> QED BY <1>2, <1>3, <2>1, <2>4, <2>5
<1>10. CASE Loop("vehicle_state")
  <2>1. /\ ThreadsOK(thread') /\ IsWaiting(thread', "vehicle_state")
        /\ Keeps(thread', Others({"vehicle_state"}))
        /\ UNCHANGED <<fault, input_buffer, seen, shared, console, request, lightctl, pins>>
    BY <1>0, <1>10, LoopStep
  <2>2. UNCHANGED vehicle_state /\ thread["vehicle_state"].pc # "notify"
    BY <2>1 DEF shared, IsWaiting
  <2> QED BY <1>2, <1>3, <1>5, <2>1, <2>2
<1> QED BY <1>6, <1>7, <1>8, <1>9, <1>10 DEF Vehicle

Owes(t, p, c) == c \in t[p].todo \/ c \in t[p].badge

(* faultmg: a step works on its own, publishes or announces; a denial      *)
(* lightctl signalled stays pending until it is published.                 *)
Announces ==
  /\ publish_at # 0 /\ publish_at' = 0
  /\ UNCHANGED shmem_fault
  /\ IsWoken(thread', "scheduler", 13)

Publishes ==
  /\ publish_at' # 0
  /\ thread'["scheduler"] = thread["scheduler"]

WorksAlone ==
  /\ publish_at = 0 /\ publish_at' = 0
  /\ UNCHANGED <<fault_state, shmem_fault>>
  /\ thread'["scheduler"] = thread["scheduler"]
  /\ Owes(thread, "faultmg", 5) => Owes(thread', "faultmg", 5)

LEMMA FaultmgSteps ==
  ASSUME ThreadsOK(thread), StepDueOK, Handler
  PROVE  /\ ThreadsOK(thread') /\ StepDueOK'
         /\ Keeps(thread', {"commandin", "vehicle_state", "lightctl"})
         /\ UNCHANGED <<input_buffer, seen>>
         /\ Waits("scheduler") /\ Waits("gpio") /\ Waits("vehicle_state") /\ ~Waits("faultmg")
         /\ thread'["gpio"] = thread["gpio"] \/ IsWoken(thread', "gpio", 8)
         /\ Announces \/ Publishes \/ WorksAlone
<1>0. /\ "faultmg" \in PDs /\ "faultmg" # "commandin"
      /\ "faultmg" \in {"vehicle_state", "faultmg", "lightctl"}
  BY SystemNames
<1>1. Runs("faultmg") /\ thread["faultmg"].pc # "blocked"
  BY DEF Handler, EventLoop, NotifiedByLightctl, ReadType, ReadLen, ReadPayload, InjectFault,
         ClearFault, Reject, Publish, PublishField, StoreFaultMode, NotifyGpio,
         NotifyScheduler, Accepted, At, Called, Wait
<1>2. Waits("scheduler") /\ Waits("gpio") /\ Waits("vehicle_state") /\ ~Waits("faultmg")
  BY <1>0, <1>1, AboveWait DEF Waits
<1>3. UNCHANGED <<input_buffer, seen>>
  BY DEF Handler, EventLoop, NotifiedByLightctl, ReadType, ReadLen, ReadPayload, InjectFault,
         ClearFault, Reject, Publish, PublishField, StoreFaultMode, NotifyGpio,
         NotifyScheduler
<1>4. ASSUME NEW label \in SystemLabels, label # "blocked", thread' = Goto("faultmg", label)
      PROVE  /\ ThreadsOK(thread') /\ Moves(thread', "faultmg", label)
             /\ Keeps(thread', Others({"faultmg"}))
  BY <1>0, <1>4, GoneTo
<1>5. ASSUME Keeps(thread', Others({"faultmg"}))
      PROVE  /\ Keeps(thread', {"commandin", "vehicle_state", "lightctl"})
             /\ thread'["scheduler"] = thread["scheduler"]
             /\ thread'["gpio"] = thread["gpio"]
  BY <1>5, SystemNames DEF Keeps, Others
<1>6. /\ publish_at \in 0 .. 10
      /\ publish_at # 0 <=> thread["faultmg"].pc = "publish"
      /\ Len(PublishSteps) = 10 /\ FieldCount = 7
  BY ProgramOrder DEF StepDueOK
<1>7. ASSUME ThreadsOK(thread'), Keeps(thread', Others({"faultmg"})),
             publish_at' \in 1 .. 10, thread'["faultmg"].pc = "publish"
      PROVE  /\ Keeps(thread', {"commandin", "vehicle_state", "lightctl"})
             /\ StepDueOK' /\ Publishes /\ thread'["gpio"] = thread["gpio"]
  BY <1>5, <1>6, <1>7 DEF StepDueOK, Publishes
<1>8. ASSUME ThreadsOK(thread'), Keeps(thread', Others({"faultmg"})),
             thread["faultmg"].pc # "publish", thread'["faultmg"].pc # "publish",
             UNCHANGED <<fault_state, publish_at, shmem_fault>>,
             Owes(thread, "faultmg", 5) => Owes(thread', "faultmg", 5)
      PROVE  /\ Keeps(thread', {"commandin", "vehicle_state", "lightctl"})
             /\ StepDueOK' /\ WorksAlone /\ thread'["gpio"] = thread["gpio"]
  BY <1>5, <1>6, <1>8 DEF StepDueOK, WorksAlone
<1>9. CASE EventLoop
  <2>1. Wait("faultmg") /\ UNCHANGED <<fault_state, publish_at, shmem_fault>>
    BY <1>9 DEF EventLoop
  <2>2. /\ ThreadsOK(thread') /\ IsWaiting(thread', "faultmg")
        /\ Keeps(thread', Others({"faultmg"}))
    BY <1>0, <2>1, Waited
  <2>3. /\ thread["faultmg"].pc # "publish" /\ thread'["faultmg"].pc # "publish"
        /\ Owes(thread, "faultmg", 5) => Owes(thread', "faultmg", 5)
    BY <2>2 DEF IsWaiting, Owes
  <2> QED BY <1>2, <1>3, <1>8, <2>1, <2>2, <2>3
<1>10. ASSUME NEW code \in LightctlCodes, NotifiedByLightctl(code)
       PROVE  /\ ThreadsOK(thread') /\ StepDueOK' /\ Publishes
              /\ Keeps(thread', {"commandin", "vehicle_state", "lightctl"})
              /\ thread'["gpio"] = thread["gpio"]
  <2>1. thread' = Enter("faultmg", 5, "publish") /\ publish_at' = 1
    BY <1>10, SystemNames DEF NotifiedByLightctl, HandleFaultEvent
  <2>2. "publish" \in SystemLabels /\ "publish" # "blocked"
    BY SystemLabelNames
  <2>3. /\ ThreadsOK(thread') /\ Handles(thread', "faultmg", 5, "publish")
        /\ Keeps(thread', Others({"faultmg"}))
    BY <1>0, <2>1, <2>2, Entered
  <2> QED BY <1>7, <2>1, <2>3 DEF Handles
<1>11. CASE ReadType
  <2>1. /\ thread' = Enter("faultmg", 12, "read_len")
        /\ UNCHANGED <<fault_state, publish_at, shmem_fault>>
        /\ thread["faultmg"].pc = "ready"
    BY <1>11, SystemNames DEF ReadType, Called
  <2>2. "read_len" \in SystemLabels /\ "read_len" # "blocked"
    BY SystemLabelNames
  <2>3. /\ ThreadsOK(thread') /\ Handles(thread', "faultmg", 12, "read_len")
        /\ Keeps(thread', Others({"faultmg"}))
    BY <1>0, <2>1, <2>2, Entered
  <2>4. /\ thread'["faultmg"].pc # "publish"
        /\ Owes(thread, "faultmg", 5) => Owes(thread', "faultmg", 5)
    BY <2>3 DEF Handles, Owes
  <2> QED BY <1>2, <1>3, <1>8, <2>1, <2>3, <2>4
<1>12. CASE ReadLen \/ ReadPayload \/ Reject
  <2>1. /\ UNCHANGED <<fault_state, publish_at, shmem_fault>>
        /\ thread["faultmg"].pc # "publish"
    BY <1>12 DEF ReadLen, ReadPayload, Reject, At
  <2>2. PICK label \in {"read_payload", "switch", "ready"} : thread' = Goto("faultmg", label)
    BY <1>12 DEF ReadLen, ReadPayload, Reject
  <2>3. label \in SystemLabels /\ label # "blocked" /\ label # "publish"
    BY <2>2, SystemLabelNames
  <2>4. /\ ThreadsOK(thread') /\ Moves(thread', "faultmg", label)
        /\ Keeps(thread', Others({"faultmg"}))
    BY <1>4, <2>2, <2>3
  <2>5. /\ thread'["faultmg"].pc # "publish"
        /\ Owes(thread, "faultmg", 5) => Owes(thread', "faultmg", 5)
    BY <2>3, <2>4 DEF Moves, Owes
  <2> QED BY <1>2, <1>3, <1>8, <2>1, <2>4, <2>5
<1>13. CASE InjectFault \/ ClearFault
  <2>1. thread' = Goto("faultmg", "publish") /\ publish_at' = 1
    BY <1>13 DEF InjectFault, ClearFault, HandleFaultEvent
  <2>2. /\ ThreadsOK(thread') /\ Moves(thread', "faultmg", "publish")
        /\ Keeps(thread', Others({"faultmg"}))
    BY <1>4, <2>1, SystemLabelNames
  <2> QED BY <1>2, <1>3, <1>7, <2>1, <2>2 DEF Moves
<1>14. CASE PublishField \/ StoreFaultMode
  <2>1. /\ thread' = thread /\ thread["faultmg"].pc = "publish"
        /\ publish_at' = publish_at + 1
    BY <1>14 DEF PublishField, StoreFaultMode, At
  <2>2. publish_at \in 1 .. 8
    BY <1>6, <1>14, <2>1, StepDue DEF PublishField, StoreFaultMode
  <2>3. Keeps(thread', Others({"faultmg"}))
    BY <2>1 DEF Keeps
  <2> QED BY <1>2, <1>3, <1>7, <2>1, <2>2, <2>3
<1>15. CASE NotifyGpio
  <2>1. /\ thread' = Signal(thread, "gpio", 8) /\ thread["faultmg"].pc = "publish"
        /\ publish_at' = publish_at + 1 /\ publish_at = 9
    BY <1>6, <1>15, StepDue, SystemNames DEF NotifyGpio, At
  <2>2. "gpio" \in PDs /\ "gpio" # "commandin" /\ 8 \in Channels
    BY SystemNames
  <2>3. ThreadsOK(thread') /\ Told(thread', "gpio", 8) /\ Keeps(thread', Others({"gpio"}))
    BY <1>2, <2>1, <2>2, SignalTold
  <2>4. IsWoken(thread', "gpio", 8)
    BY <1>2, <2>3 DEF Told, Waits
  <2>5. /\ Keeps(thread', {"commandin", "vehicle_state", "lightctl"})
        /\ thread'["faultmg"] = thread["faultmg"]
        /\ thread'["scheduler"] = thread["scheduler"]
    BY <2>3, SystemNames DEF Keeps, Others
  <2>6. StepDueOK' /\ Publishes
    BY <1>6, <2>1, <2>5 DEF StepDueOK, Publishes
  <2> QED BY <1>2, <1>3, <2>3, <2>4, <2>5, <2>6
<1>16. CASE NotifyScheduler
  <2>1. /\ thread' = Signal(Goto("faultmg", "ready"), "scheduler", 13)
        /\ publish_at' = 0 /\ UNCHANGED shmem_fault /\ thread["faultmg"].pc = "publish"
    BY <1>16, SystemNames DEF NotifyScheduler, At
  <2>2. /\ "ready" \in SystemLabels /\ "ready" # "blocked" /\ 13 \in Channels
        /\ "scheduler" \in {"scheduler", "gpio", "faultmg"} /\ "scheduler" # "faultmg"
    BY SystemNames, SystemLabelNames
  <2> DEFINE s == Signal(Goto("faultmg", "ready"), "scheduler", 13)
  <2>3. /\ ThreadsOK(s) /\ Moves(s, "faultmg", "ready") /\ IsWoken(s, "scheduler", 13)
        /\ Keeps(s, Others({"faultmg", "scheduler"}))
    BY <1>0, <1>2, <2>2, GoneAndWoken
  <2>4. /\ ThreadsOK(thread') /\ Moves(thread', "faultmg", "ready")
        /\ IsWoken(thread', "scheduler", 13) /\ Keeps(thread', Others({"faultmg", "scheduler"}))
    BY <2>1, <2>3
  <2>5. /\ Keeps(thread', {"commandin", "vehicle_state", "lightctl"})
        /\ thread'["gpio"] = thread["gpio"]
    BY <2>4, SystemNames DEF Keeps, Others
  <2>6. StepDueOK' /\ Announces
    BY <1>6, <2>1, <2>4 DEF StepDueOK, Announces, Moves
  <2> QED BY <1>2, <1>3, <2>4, <2>5, <2>6
<1> QED BY <1>2, <1>3, <1>9, <1>10, <1>11, <1>12, <1>13, <1>14, <1>15, <1>16
        DEF Handler, Publish

(* Every action has a channel of its own.                                  *)
LEMMA ActionChannels ==
  ASSUME NEW action \in Actions
  PROVE  /\ ActionChannel(action) \in 20 .. 31
         /\ ActionOf(ActionChannel(action)) = action
<1>1. \E c \in 20 .. 31 : ActionOf(c) = action
  <2>1. action = [lamp |-> action.lamp, on |-> action.on]
    BY DEF Actions
  <2>2. ASSUME NEW i \in 1 .. 6, NEW b \in BOOLEAN,
               action.lamp = GpioActions[i], action.on = b
        PROVE  \E c \in 20 .. 31 : ActionOf(c) = action
    <3> DEFINE c == 20 + 2 * (i - 1) + (IF b THEN 0 ELSE 1)
    <3>1. c \in 20 .. 31 /\ (c - 20) \div 2 + 1 = i /\ (c % 2 = 0 <=> b)
      OBVIOUS
    <3> HIDE DEF c
    <3>2. ActionOf(c) = [lamp |-> GpioActions[i], on |-> b]
      BY <3>1 DEF ActionOf
    <3> QED BY <2>1, <2>2, <3>1, <3>2
  <2>3. action.lamp \in Lamps /\ action.on \in BOOLEAN
    BY DEF Actions
  <2>4. \E i \in 1 .. 6 : action.lamp = GpioActions[i]
    BY <2>3 DEF Lamps, GpioActions
  <2> QED BY <2>2, <2>3, <2>4
<1> QED BY <1>1 DEF ActionChannel

(* lightctl moves alone, or denies an action or performs it and wakes the  *)
(* one that has to know.                                                   *)
LightctlMoves(label) ==
  Moves(thread', "lightctl", label) /\ Keeps(thread', Others({"lightctl"}))

LightctlWakes(p, c) ==
  /\ Moves(thread', "lightctl", NextAction)
  /\ IsWoken(thread', p, c)
  /\ Keeps(thread', Others({"lightctl", p}))

LEMMA LightctlWaits ==
  ASSUME Lightctl
  PROVE  /\ Waits("scheduler") /\ Waits("gpio") /\ Waits("vehicle_state") /\ Waits("faultmg")
         /\ ~Waits("lightctl")
         /\ LightctlKeeps
<1>1. Runs("lightctl") /\ thread["lightctl"].pc # "blocked"
  BY DEF Lightctl, LightctlNotified, CopyMember, BuildPlan, GuardAction, ReportFault,
         TriggerGpio, LightctlAt, Called, Loop, Wait
<1>2. LightctlKeeps
  BY DEF Lightctl, LightctlNotified, CopyMember, BuildPlan, GuardAction, ReportFault,
         TriggerGpio, LightctlKeeps, Loop
<1> QED BY <1>1, <1>2, AboveWait, SystemNames DEF Waits

LEMMA LightctlGoes ==
  ASSUME ThreadsOK(thread), Waits("faultmg"), Waits("gpio"),
         NEW label \in {"ready", "copy", "build", "guard", "trigger", "report"}
  PROVE  /\ thread' = Goto("lightctl", label) => ThreadsOK(thread') /\ LightctlMoves(label)
         /\ \A p \in {"faultmg", "gpio"}, c \in Channels :
              thread' = Signal(Goto("lightctl", label), p, c) =>
                /\ ThreadsOK(thread') /\ Moves(thread', "lightctl", label)
                /\ IsWoken(thread', p, c) /\ Keeps(thread', Others({"lightctl", p}))
<1>1. /\ label \in SystemLabels /\ label # "blocked"
      /\ "lightctl" \in {"vehicle_state", "faultmg", "lightctl"}
  BY SystemLabelNames
<1>2. ASSUME thread' = Goto("lightctl", label)
      PROVE  ThreadsOK(thread') /\ LightctlMoves(label)
  BY <1>1, <1>2, GoneTo DEF LightctlMoves
<1>3. ASSUME NEW p \in {"faultmg", "gpio"}, NEW c \in Channels,
             thread' = Signal(Goto("lightctl", label), p, c)
      PROVE  /\ ThreadsOK(thread') /\ Moves(thread', "lightctl", label)
             /\ IsWoken(thread', p, c) /\ Keeps(thread', Others({"lightctl", p}))
  <2>1. p \in {"scheduler", "gpio", "faultmg"} /\ p # "lightctl" /\ Waits(p)
    BY <1>3
  <2> DEFINE s == Signal(Goto("lightctl", label), p, c)
  <2>2. /\ ThreadsOK(s) /\ Moves(s, "lightctl", label)
        /\ IsWoken(s, p, c) /\ Keeps(s, Others({"lightctl", p}))
    BY <1>1, <2>1, GoneAndWoken
  <2> HIDE DEF s
  <2>3. thread' = s
    BY <1>3 DEF s
  <2> QED BY <2>2, <2>3
<1> QED BY <1>2, <1>3

LEMMA LightctlSteps ==
  ASSUME ThreadsOK(thread), Lightctl, plan # <<>> => Head(plan) \in Actions,
         thread["lightctl"].pc = "trigger" => plan # <<>>
  PROVE  /\ ThreadsOK(thread')
         /\ LightctlNotified =>
              Handles(thread', "lightctl", 10, "copy") /\ Keeps(thread', Others({"lightctl"}))
         /\ CopyMember => LightctlMoves(IF copied' = 6 THEN "build" ELSE "copy")
         /\ BuildPlan => LightctlMoves(IF plan' = <<>> THEN "ready" ELSE "guard")
         /\ GuardAction =>
              LightctlMoves(IF GuardError(Head(plan), execution, mode_cache, vehicle_speed) = 0
                            THEN "trigger" ELSE "report")
         /\ ReportFault => LightctlWakes("faultmg", 5)
         /\ TriggerGpio => LightctlWakes("gpio", ActionChannel(Head(plan)))
         /\ Loop("lightctl") =>
              IsWaiting(thread', "lightctl") /\ Keeps(thread', Others({"lightctl"}))
<1>0. Waits("scheduler") /\ Waits("gpio") /\ Waits("vehicle_state") /\ Waits("faultmg")
  BY LightctlWaits
<1>1. ASSUME LightctlNotified
      PROVE  /\ ThreadsOK(thread') /\ Handles(thread', "lightctl", 10, "copy")
             /\ Keeps(thread', Others({"lightctl"}))
  <2>1. thread' = Enter("lightctl", 10, "copy")
    BY <1>1, SystemNames DEF LightctlNotified
  <2>2. "lightctl" \in PDs /\ "copy" \in SystemLabels
    BY SystemNames, SystemLabelNames
  <2> QED BY <2>1, <2>2, Entered
<1>2. ASSUME CopyMember
      PROVE  ThreadsOK(thread') /\ LightctlMoves(IF copied' = 6 THEN "build" ELSE "copy")
  <2>1. thread' = Goto("lightctl", IF copied' = 6 THEN "build" ELSE "copy")
    BY <1>2 DEF CopyMember, LampOrder
  <2> QED BY <1>0, <2>1, LightctlGoes
<1>3. ASSUME BuildPlan
      PROVE  ThreadsOK(thread') /\ LightctlMoves(IF plan' = <<>> THEN "ready" ELSE "guard")
  <2>1. thread' = Goto("lightctl", IF plan' = <<>> THEN "ready" ELSE "guard")
    BY <1>3 DEF BuildPlan
  <2> QED BY <1>0, <2>1, LightctlGoes
<1>4. ASSUME GuardAction
      PROVE  /\ ThreadsOK(thread')
             /\ LightctlMoves(IF GuardError(Head(plan), execution, mode_cache, vehicle_speed) = 0
                              THEN "trigger" ELSE "report")
  <2>1. thread' = Goto("lightctl", IF GuardError(Head(plan), execution, mode_cache, vehicle_speed) = 0
                                   THEN "trigger" ELSE "report")
    BY <1>4 DEF GuardAction
  <2> HIDE DEF GuardError
  <2> QED BY <1>0, <2>1, LightctlGoes
<1>5. ASSUME ReportFault
      PROVE  ThreadsOK(thread') /\ LightctlWakes("faultmg", 5)
  <2>1. thread' = Signal(Goto("lightctl", NextAction), "faultmg", 5)
    BY <1>5, SystemNames DEF ReportFault
  <2>2. NextAction \in {"ready", "guard"} /\ 5 \in Channels
    BY SystemNames DEF NextAction
  <2> QED BY <1>0, <2>1, <2>2, LightctlGoes DEF LightctlWakes
<1>6. ASSUME TriggerGpio
      PROVE  ThreadsOK(thread') /\ LightctlWakes("gpio", ActionChannel(Head(plan)))
  <2>1. thread' = Signal(Goto("lightctl", NextAction), "gpio", ActionChannel(Head(plan)))
    BY <1>6 DEF TriggerGpio
  <2>2. Head(plan) \in Actions
    BY <1>6 DEF TriggerGpio, LightctlAt
  <2>3. ActionChannel(Head(plan)) \in Channels
    <3>1. ActionChannel(Head(plan)) \in 20 .. 31
      BY <2>2, ActionChannels
    <3> QED BY <3>1 DEF Channels
  <2>4. NextAction \in {"ready", "guard"}
    BY DEF NextAction
  <2> HIDE DEF NextAction
  <2> QED BY <1>0, <2>1, <2>3, <2>4, LightctlGoes DEF LightctlWakes
<1>7. ASSUME Loop("lightctl")
      PROVE  /\ ThreadsOK(thread') /\ IsWaiting(thread', "lightctl")
             /\ Keeps(thread', Others({"lightctl"}))
  <2>1. "lightctl" \in PDs
    BY SystemNames
  <2> QED BY <1>7, <2>1, LoopStep
<1> QED BY <1>1, <1>2, <1>3, <1>4, <1>5, <1>6, <1>7 DEF Lightctl

-------------------------------------------------------------------------------
(* The inductive invariant: the threads, ...                               *)
(* ... what the fault manager keeps and publishes, ...                     *)
FaultOK == StepDueOK /\ DataOK /\ WellFormed(fault_state) /\ PublicationComplete

(* ... what the console and the scheduler keep, ...                        *)
Request == [type : MsgTypes, len : Byte, payload : Byte, value : Word]

InputsOK ==
  /\ buffer_value \in Word /\ request \in Request
  /\ operator_request \in SUBSET Lamps /\ vehicle_state \in VehicleState
  /\ target_output \in SUBSET Lamps /\ vehicle_speed \in 0 .. 180

(* ... and lightctl: what is due of a plan is a plan itself, for some      *)
(* state, and it is the guard's turn, gpio's or the fault manager's while  *)
(* it is not done; only a lamp to be lit is ever denied.                   *)
InPlan == thread["lightctl"].pc \in {"guard", "trigger", "report"}

IsPlan == \E wanted \in ExecutionState : plan = PlanTo(execution, wanted)

LightctlOK ==
  /\ target \in SUBSET Lamps /\ copied \in 0 .. 6
  /\ thread["lightctl"].pc = "copy" => copied < 6
  /\ mode_cache \in FaultModes /\ execution \in ExecutionState
  /\ IsPlan
  /\ InPlan <=> plan # <<>>
  /\ thread["lightctl"].pc = "report" => Head(plan).on

Core == ThreadsOK(thread) /\ FaultOK /\ InputsOK /\ LightctlOK

(* What is left of a plan.                                                 *)
LEMMA PlanDue ==
  ASSUME LightctlOK
  PROVE  /\ plan \in Seq(Actions)
         /\ Len(plan) <= 6
         /\ plan # <<>> =>
              /\ Head(plan) \in Actions
              /\ ApplyTransition(execution, Head(plan)) \in ExecutionState
              /\ \E w \in ExecutionState :
                   Tail(plan) = PlanTo(ApplyTransition(execution, Head(plan)), w)
              /\ Head(plan).on => \E w \in ExecutionState : Tail(plan) = PlanTo(execution, w)
              /\ ~Head(plan).on => /\ Head(plan) = Off(Head(plan).lamp)
                                   /\ Head(plan).lamp \in Lit(execution)
              /\ Perform(Lit(execution), Head(plan)) =
                   Lit(ApplyTransition(execution, Head(plan)))
              /\ Tail(plan) \in Seq(Actions)
              /\ Len(plan) = 1 <=> Tail(plan) = <<>>
<1>1. PICK wanted \in ExecutionState : plan = PlanTo(execution, wanted)
  BY DEF LightctlOK, IsPlan
<1>2. execution \in ExecutionState
  BY DEF LightctlOK
<1>3. plan \in Seq(Actions) /\ Len(plan) <= 6
  BY <1>1, <1>2, PlanSteps, PlanLength
<1>4. ASSUME plan # <<>>
      PROVE  /\ Head(plan) \in Actions
             /\ ApplyTransition(execution, Head(plan)) \in ExecutionState
             /\ Tail(plan) = PlanTo(ApplyTransition(execution, Head(plan)), wanted)
             /\ Head(plan).on => \E w \in ExecutionState : Tail(plan) = PlanTo(execution, w)
             /\ ~Head(plan).on => /\ Head(plan) = Off(Head(plan).lamp)
                                  /\ Head(plan).lamp \in Lit(execution)
             /\ Perform(Lit(execution), Head(plan)) =
                  Lit(ApplyTransition(execution, Head(plan)))
  <2>1. PlanTo(execution, wanted) # <<>>
    BY <1>1, <1>4
  <2> QED BY <1>1, <1>2, <2>1, NextOfPlan
<1>5. plan # <<>> => Tail(plan) \in Seq(Actions) /\ (Len(plan) = 1 <=> Tail(plan) = <<>>)
  BY <1>3, LastAction, HeadTailProperties
<1> QED BY <1>3, <1>4, <1>5

(* A step that leaves lightctl's own state, and its place in it, alone.    *)
LEMMA LightctlKept ==
  ASSUME LightctlOK, UNCHANGED lightctl,
         \/ thread'["lightctl"].pc = thread["lightctl"].pc
         \/ thread["lightctl"].pc = "blocked" /\ thread'["lightctl"].pc = "ready"
  PROVE  LightctlOK'
BY DEF LightctlOK, IsPlan, InPlan, lightctl

LEMMA LightctlStep ==
  ASSUME Core, Lightctl
  PROVE  ThreadsOK(thread') /\ LightctlOK'
<1>1. ThreadsOK(thread) /\ LightctlOK
  BY DEF Core
<1>2. /\ plan # <<>> => Head(plan) \in Actions
      /\ thread["lightctl"].pc \in {"guard", "trigger", "report"} => plan # <<>>
  BY <1>1, PlanDue DEF LightctlOK, InPlan
<1>3. ThreadsOK(thread')
  BY <1>1, <1>2, LightctlSteps
<1>4. CASE LightctlNotified
  <2>1. Handles(thread', "lightctl", 10, "copy")
    BY <1>1, <1>2, <1>4, LightctlSteps
  <2>2. /\ target' = {} /\ copied' = 0 /\ UNCHANGED <<plan, execution, mode_cache>>
        /\ thread["lightctl"].pc = "ready"
    BY <1>4 DEF LightctlNotified, Called
  <2>3. LightctlOK'
    BY <1>1, <2>1, <2>2 DEF LightctlOK, IsPlan, InPlan, Handles
  <2> QED BY <1>3, <2>3
<1>5. CASE CopyMember
  <2>1. LightctlMoves(IF copied' = 6 THEN "build" ELSE "copy")
    BY <1>1, <1>2, <1>5, LightctlSteps
  <2>2. /\ target' = target \cup ({LampOrder[copied + 1]} \cap target_output)
        /\ copied' = copied + 1 /\ UNCHANGED <<plan, execution, mode_cache>>
        /\ thread["lightctl"].pc = "copy"
    BY <1>5 DEF CopyMember, LightctlAt
  <2>3. target' \in SUBSET Lamps
    BY <1>1, <2>2 DEF LightctlOK, Core, InputsOK
  <2>4. LightctlOK'
    BY <1>1, <2>1, <2>2, <2>3 DEF LightctlOK, IsPlan, InPlan, LightctlMoves, Moves
  <2> QED BY <1>3, <2>4
<1>6. CASE BuildPlan
  <2>1. LightctlMoves(IF plan' = <<>> THEN "ready" ELSE "guard")
    BY <1>1, <1>2, <1>6, LightctlSteps
  <2>2. /\ target' = {} /\ copied' = 0 /\ plan' = PlanActions(execution, target)
        /\ mode_cache' = shmem_fault["fault_mode"] /\ UNCHANGED execution
    BY <1>6 DEF BuildPlan
  <2>3. plan' = PlanTo(execution, Wanted(target)) /\ Wanted(target) \in ExecutionState
    BY <2>2, PlanIsPlanTo, WantedType
  <2>4. mode_cache' \in FaultModes
    BY <2>2 DEF Core, FaultOK, DataOK, PublishedView
  <2>5. IsPlan'
    BY <2>2, <2>3 DEF IsPlan
  <2>6. LightctlOK'
    BY <1>1, <2>1, <2>2, <2>4, <2>5 DEF LightctlOK, InPlan, LightctlMoves, Moves
  <2> QED BY <1>3, <2>6
<1>7. CASE GuardAction
  <2> DEFINE denied == GuardError(Head(plan), execution, mode_cache, vehicle_speed)
  <2>1. LightctlMoves(IF denied = 0 THEN "trigger" ELSE "report")
    BY <1>1, <1>2, <1>7, LightctlSteps
  <2>2. UNCHANGED lightctl /\ plan # <<>>
    BY <1>2, <1>7 DEF GuardAction, LightctlAt
  <2>3. ~Head(plan).on => denied = 0
    <3>1. vehicle_speed \in Word
      <4>1. vehicle_speed \in 0 .. 180
        BY DEF Core, InputsOK
      <4> QED BY <4>1, WordFacts
    <3>2. mode_cache \in FaultModes /\ execution \in ExecutionState
      BY <1>1 DEF LightctlOK
    <3> QED BY <1>1, <2>2, <3>1, <3>2, PlanDue, GuardAcceptsOff
  <2> HIDE DEF denied
  <2>4. LightctlOK'
    BY <1>1, <2>1, <2>2, <2>3 DEF LightctlOK, IsPlan, InPlan, LightctlMoves, Moves, lightctl
  <2> QED BY <1>3, <2>4
<1>8. CASE ReportFault
  <2>1. LightctlWakes("faultmg", 5)
    BY <1>1, <1>2, <1>8, LightctlSteps
  <2>2. /\ plan' = Tail(plan) /\ UNCHANGED <<target, copied, execution, mode_cache>>
        /\ thread["lightctl"].pc = "report"
    BY <1>8 DEF ReportFault, LightctlAt
  <2>3. plan # <<>> /\ Head(plan).on
    BY <1>1, <1>2, <2>2 DEF LightctlOK
  <2>4. IsPlan' /\ (Len(plan) = 1 <=> plan' = <<>>)
    BY <1>1, <2>2, <2>3, PlanDue DEF IsPlan
  <2>5. thread'["lightctl"].pc = IF plan' = <<>> THEN "ready" ELSE "guard"
    BY <2>1, <2>4 DEF LightctlWakes, Moves, NextAction
  <2>6. LightctlOK'
    BY <1>1, <2>2, <2>4, <2>5 DEF LightctlOK, InPlan
  <2> QED BY <1>3, <2>6
<1>9. CASE TriggerGpio
  <2>1. LightctlWakes("gpio", ActionChannel(Head(plan)))
    BY <1>1, <1>2, <1>9, LightctlSteps
  <2>2. /\ plan' = Tail(plan) /\ UNCHANGED <<target, copied, mode_cache>>
        /\ execution' = ApplyTransition(execution, Head(plan))
        /\ thread["lightctl"].pc = "trigger"
    BY <1>9 DEF TriggerGpio, LightctlAt
  <2>3. plan # <<>>
    BY <1>2, <2>2
  <2>4. /\ execution' \in ExecutionState /\ IsPlan'
        /\ Len(plan) = 1 <=> plan' = <<>>
    BY <1>1, <2>2, <2>3, PlanDue DEF IsPlan
  <2>5. thread'["lightctl"].pc = IF plan' = <<>> THEN "ready" ELSE "guard"
    BY <2>1, <2>4 DEF LightctlWakes, Moves, NextAction
  <2>6. LightctlOK'
    BY <1>1, <2>2, <2>4, <2>5 DEF LightctlOK, InPlan
  <2> QED BY <1>3, <2>6
<1>10. CASE Loop("lightctl")
  <2>1. IsWaiting(thread', "lightctl")
    BY <1>1, <1>2, <1>10, LightctlSteps
  <2>2. UNCHANGED lightctl
    BY <1>10 DEF Loop
  <2>3. LightctlOK'
    BY <1>1, <2>1, <2>2 DEF LightctlOK, IsPlan, InPlan, IsWaiting, lightctl
  <2> QED BY <1>3, <2>3
<1> QED BY <1>4, <1>5, <1>6, <1>7, <1>8, <1>9, <1>10 DEF Lightctl

-------------------------------------------------------------------------------
(* The steps of the other domains keep it. *)

LEMMA FaultKept ==
  ASSUME FaultOK, UNCHANGED fault, input_buffer' \in Message,
         seen' \in [{"scheduler", "gpio"} -> FaultModes],
         thread'["faultmg"].pc = "publish" <=> thread["faultmg"].pc = "publish"
  PROVE  FaultOK'
<1>1. UNCHANGED <<fault_state, total_error_count, message, publish_at, shmem_fault,
                  fault_mode_shared>>
  BY DEF fault
<1>2. StepDueOK' /\ PublicationComplete'
  BY <1>1 DEF FaultOK, StepDueOK, PublicationComplete, View
<1>3. DataOK' /\ WellFormed(fault_state)'
  BY <1>1 DEF FaultOK, DataOK
<1> QED BY <1>2, <1>3 DEF FaultOK

(* A thread that is kept, told or woken is not moved inside a handler.     *)
LEMMA FarThread ==
  ASSUME NEW p, NEW c, thread'[p] = thread[p] \/ Told(thread', p, c)
  PROVE  \/ thread'[p].pc = thread[p].pc
         \/ thread[p].pc = "blocked" /\ thread'[p].pc = "ready"
BY DEF Told, IsWoken

(* A light command, as commandin encodes it.                               *)
LEMMA CommandType ==
  ASSUME NEW byte \in Byte, IsCommand(byte)
  PROVE  CommandOf(byte) \in Commands
<1>1. byte \div 16 + 1 \in 1 .. 6
  BY DEF IsCommand, Byte, LampOrder
<1>2. \A i \in 1 .. 6 : LampOrder[i] \in Lamps
  BY DEF LampOrder, Lamps
<1> QED BY <1>1, <1>2 DEF CommandOf, Commands

LEMMA RecomputeTypes ==
  ASSUME InputsOK, NEW next \in SUBSET Lamps, NEW threads, Recompute(next, threads)
  PROVE  /\ operator_request' \in SUBSET Lamps /\ target_output' \in SUBSET Lamps
         /\ vehicle_speed' \in 0 .. 180 /\ UNCHANGED vehicle_state
<1>1. /\ operator_request' = next /\ vehicle_speed' = vehicle_state.speed_kph
      /\ target_output' = ComputeTarget(next, vehicle_state, shmem_fault["fault_mode"])
      /\ UNCHANGED vehicle_state
  BY DEF Recompute
<1>2. vehicle_speed' \in 0 .. 180
  BY <1>1 DEF InputsOK, VehicleState
<1> QED BY <1>1, <1>2, ComputeTargetType

LEMMA SchedulerKeepsInputs ==
  ASSUME InputsOK, input_buffer \in Message, Scheduler
  PROVE  InputsOK'
<1>1. UNCHANGED <<buffer_value, request>>
  BY DEF Scheduler, SchedulerCommand, SchedulerFaultMode, SchedulerVehicleState, Loop, console
<1>2. UNCHANGED shared \/ \E next \in SUBSET Lamps : \E t : Recompute(next, t)
  <2>1. CASE SchedulerCommand
    <3>1. \/ UNCHANGED shared
          \/ /\ IsCommand(input_buffer.payload)
             /\ Recompute(ApplyOperatorCommand(operator_request,
                                               CommandOf(input_buffer.payload)),
                          Enter("scheduler", SCHEDULER_FROM_COMMANDIN, "ready"))
      BY <2>1 DEF SchedulerCommand
    <3>2. input_buffer.payload \in Byte /\ operator_request \in SUBSET Lamps
      BY DEF Message, InputsOK
    <3>3. IsCommand(input_buffer.payload) =>
            ApplyOperatorCommand(operator_request, CommandOf(input_buffer.payload)) \in SUBSET Lamps
      BY <3>2, CommandType, OperatorCommandType
    <3> QED BY <3>1, <3>3
  <2>2. CASE SchedulerFaultMode \/ SchedulerVehicleState
    <3>1. operator_request \in SUBSET Lamps
      BY DEF InputsOK
    <3> QED BY <2>2, <3>1 DEF SchedulerFaultMode, SchedulerVehicleState
  <2>3. CASE Loop("scheduler")
    BY <2>3 DEF Loop
  <2> QED BY <2>1, <2>2, <2>3 DEF Scheduler
<1>3. CASE UNCHANGED shared
  BY <1>1, <1>3 DEF InputsOK, shared
<1>4. ASSUME NEW next \in SUBSET Lamps, NEW t, Recompute(next, t)
      PROVE  InputsOK'
  <2>1. /\ operator_request' \in SUBSET Lamps /\ target_output' \in SUBSET Lamps
        /\ vehicle_speed' \in 0 .. 180 /\ UNCHANGED vehicle_state
    BY <1>4, RecomputeTypes
  <2> QED BY <1>1, <2>1 DEF InputsOK
<1> QED BY <1>2, <1>3, <1>4

(* Whatever mixture of messages a request is copied from, the checked      *)
(* field gets a value in its range.                                        *)
LEMMA AppliedInRange ==
  ASSUME NEW v \in VehicleState, NEW field, NEW value \in Word, RequestIsValid(field, value)
  PROVE  /\ ApplyRequest(v, field, value) \in VehicleState
         /\ ApplyRequest(v, field, value)[field] = value
<1>1. /\ field \in VehicleFields /\ value <= MaxValue[field] /\ value \in Nat
      /\ ApplyRequest(v, field, value) = [v EXCEPT ![field] = value]
  BY WordFacts DEF RequestIsValid, ApplyRequest
<1>2. ASSUME NEW f \in VehicleFields, NEW x \in Nat, x <= MaxValue[f]
      PROVE  [v EXCEPT ![f] = x] \in VehicleState /\ [v EXCEPT ![f] = x][f] = x
  <2> USE DEF VehicleState, MaxValue
  <2>1. CASE f = "speed_kph"
    BY <1>2, <2>1
  <2>2. CASE f \in {"ignition_on", "brake_pedal", "hazard"}
    BY <1>2, <2>2
  <2>3. CASE f \in {"gear", "drive_mode"}
    BY <1>2, <2>3
  <2>4. CASE f = "ambient_light"
    BY <1>2, <2>4
  <2> QED BY <2>1, <2>2, <2>3, <2>4 DEF VehicleFields
<1> QED BY <1>1, <1>2

LEMMA VehicleKeepsInputs ==
  ASSUME InputsOK, input_buffer \in Message, Vehicle
  PROVE  InputsOK'
<1>1. VehicleKeeps
  BY DEF Vehicle, VehicleReadType, VehicleReadLen, VehicleReadField, VehicleReadValue,
         VehicleApply, VehicleNotify, VehicleKeeps, Loop, shared
<1>2. UNCHANGED <<operator_request, target_output, vehicle_speed, buffer_value>>
  BY <1>1 DEF VehicleKeeps, console
<1>3. request' \in Request
  <2>1. \/ request' = request
        \/ request' = [EmptyRequest EXCEPT !.type = input_buffer.type]
        \/ request' = [request EXCEPT !.len = input_buffer.len]
        \/ request' = [request EXCEPT !.payload = input_buffer.payload]
        \/ request' = [request EXCEPT !.value = buffer_value]
    BY DEF Vehicle, VehicleReadType, VehicleReadLen, VehicleReadField, VehicleReadValue,
           VehicleApply, VehicleNotify, VehicleKeeps, Loop
  <2>2. request \in Request /\ buffer_value \in Word
    BY DEF InputsOK
  <2>3. /\ input_buffer.type \in MsgTypes /\ input_buffer.len \in Byte
        /\ input_buffer.payload \in Byte
    BY DEF Message
  <2>4. EmptyRequest \in Request
    BY WordFacts DEF EmptyRequest, Request, MsgTypes, Byte
  <2>5. ASSUME NEW r \in Request
        PROVE  /\ [r EXCEPT !.type = input_buffer.type] \in Request
               /\ [r EXCEPT !.len = input_buffer.len] \in Request
               /\ [r EXCEPT !.payload = input_buffer.payload] \in Request
               /\ [r EXCEPT !.value = buffer_value] \in Request
    BY <2>2, <2>3 DEF Request
  <2> QED BY <2>1, <2>2, <2>4, <2>5
<1>4. vehicle_state' \in VehicleState
  <2>1. CASE UNCHANGED vehicle_state
    BY <2>1 DEF InputsOK
  <2>2. CASE VehicleApply
    <3> DEFINE field == FieldName(request.payload)
    <3>1. \/ vehicle_state' = vehicle_state
          \/ /\ RequestIsValid(field, request.value)
             /\ vehicle_state' = ApplyRequest(vehicle_state, field, request.value)
      BY <2>2 DEF VehicleApply
    <3>2. vehicle_state \in VehicleState /\ request.value \in Word
      BY DEF InputsOK, Request
    <3> HIDE DEF field
    <3> QED BY <3>1, <3>2, AppliedInRange
  <2> QED BY <2>1, <2>2 DEF Vehicle, VehicleReadType, VehicleReadLen, VehicleReadField,
                            VehicleReadValue, VehicleNotify, Loop, shared
<1> QED BY <1>2, <1>3, <1>4 DEF InputsOK

LEMMA InitialThreads ==
  ASSUME SystemInit
  PROVE  /\ ThreadsOK(thread)
         /\ thread["faultmg"].pc = "publish"
         /\ thread["lightctl"].pc = "ready" /\ Owes(thread, "lightctl", 10)
         /\ Waits("scheduler") /\ Waits("gpio") /\ Waits("vehicle_state")
<1> DEFINE first == [pc |-> "publish", todo |-> {}, badge |-> {}]
           told  == [pc |-> "ready", todo |-> {}, badge |-> {10}]
           due(p) == IF p = "faultmg" THEN first ELSE IF p = "lightctl" THEN told ELSE Blocked
<1>1. thread = [p \in PDs |-> due(p)]
  <2>1. [Blocked EXCEPT !.pc = "publish"] = first
    BY DEF Blocked
  <2>2. [Blocked EXCEPT !.pc = "ready", !.badge = {LIGHTCTL_FROM_SCHEDULER}] = told
    <3>1. [Blocked EXCEPT !.pc = "ready"] = [pc |-> "ready", todo |-> {}, badge |-> {}]
      BY DEF Blocked
    <3>2. [[pc |-> "ready", todo |-> {}, badge |-> {}] EXCEPT !.badge = {10}] = told
      OBVIOUS
    <3> HIDE DEF told
    <3> QED BY <3>1, <3>2, SystemNames
  <2>3. thread = [p \in PDs |->
                   CASE p = "faultmg"  -> [Blocked EXCEPT !.pc = "publish"]
                     [] p = "lightctl" -> [Blocked EXCEPT !.pc = "ready",
                                             !.badge = {LIGHTCTL_FROM_SCHEDULER}]
                     [] OTHER          -> Blocked]
    BY DEF SystemInit
  <2> HIDE DEF first, told
  <2> QED BY <2>1, <2>2, <2>3
<1>2. /\ first \in ThreadRecord(SystemLabels) /\ told \in ThreadRecord(SystemLabels)
      /\ Blocked \in ThreadRecord(SystemLabels)
      /\ first.pc = "publish" /\ told.pc = "ready" /\ told.badge = {10}
      /\ Blocked.pc = "blocked" /\ Blocked.todo = {} /\ Blocked.badge = {}
  BY SystemLabelNames, SystemNames DEF Blocked, ThreadRecord
<1> HIDE DEF first, told
<1>3. thread \in Threads(SystemLabels)
  BY <1>1, <1>2 DEF Threads
<1>4. /\ thread["faultmg"] = first /\ thread["lightctl"] = told
      /\ thread["scheduler"] = Blocked /\ thread["gpio"] = Blocked
      /\ thread["vehicle_state"] = Blocked /\ thread["commandin"] = Blocked
  BY <1>1, SystemNames
<1>5. ThreadsOK(thread)
  BY <1>2, <1>3, <1>4, SystemNames DEF ThreadsOK
<1> QED BY <1>2, <1>4, <1>5 DEF Owes, Waits

LEMMA CoreInit == SystemInit => Core
<1> SUFFICES ASSUME SystemInit PROVE Core
  OBVIOUS
<1>1. FaultOK
  <2>1. /\ fault_state = FaultStateReset /\ total_error_count = 0 /\ message = EmptyMessage
        /\ publish_at = 1 /\ shmem_fault = View /\ fault_mode_shared = NORMAL
        /\ input_buffer = EmptyMessage /\ seen = [scheduler |-> NORMAL, gpio |-> NORMAL]
    BY DEF SystemInit
  <2>2. WellFormed(fault_state) /\ fault_state \in FaultState
    BY <2>1, ResetWellFormed DEF WellFormed
  <2>3. EmptyMessage \in Message
    BY DEF EmptyMessage, Message, MsgTypes, Byte
  <2>4. View \in PublishedView
    BY <2>1, <2>2, ViewType
  <2>5. DataOK
    BY <2>1, <2>2, <2>3, <2>4, Codes DEF DataOK
  <2>6. StepDueOK /\ PublicationComplete
    BY <2>1, ProgramOrder, InitialThreads DEF StepDueOK, PublicationComplete
  <2> QED BY <2>2, <2>5, <2>6 DEF FaultOK
<1>2. InputsOK
  <2>1. /\ operator_request = {"position"} /\ vehicle_state = VehicleDefault
        /\ target_output = ComputeTarget(operator_request, vehicle_state, NORMAL)
        /\ vehicle_speed = vehicle_state.speed_kph
        /\ buffer_value = 0 /\ request = EmptyRequest
    BY DEF SystemInit, OperatorRequestInit
  <2>2. request \in Request
    BY <2>1, WordFacts DEF EmptyRequest, Request, MsgTypes, Byte
  <2>3. vehicle_state \in VehicleState
    BY <2>1 DEF VehicleDefault, VehicleState, DRIVE, DAY, CITY
  <2>4. vehicle_speed \in 0 .. 180
    BY <2>1, <2>3 DEF VehicleState
  <2>5. operator_request \in SUBSET Lamps
    BY <2>1 DEF Lamps
  <2>6. target_output \in SUBSET Lamps
    BY <2>1, <2>5, ComputeTargetType
  <2>7. buffer_value \in Word
    BY <2>1, WordFacts
  <2> QED BY <2>2, <2>3, <2>4, <2>5, <2>6, <2>7 DEF InputsOK
<1>3. LightctlOK
  <2>1. /\ target = {} /\ copied = 0 /\ plan = <<>> /\ execution = ExecutionInit
        /\ mode_cache = NORMAL
    BY DEF SystemInit
  <2>2. execution \in ExecutionState
    BY <2>1 DEF ExecutionInit, ExecutionState
  <2>3. IsPlan
    BY <2>1, <2>2, PlanSteps DEF IsPlan
  <2> QED BY <2>1, <2>2, <2>3, InitialThreads, Codes DEF LightctlOK, InPlan
<1> QED BY <1>1, <1>2, <1>3, InitialThreads DEF Core

LEMMA DispatchKeepsCore ==
  ASSUME Core, NEW i \in Inputs, Dispatch(i.message, i.value)
  PROVE  Core'
<1>1. ThreadsOK(thread) /\ FaultOK /\ InputsOK /\ LightctlOK
  BY DEF Core
<1>2. /\ input_buffer' = i.message
      /\ buffer_value' = i.value \/ buffer_value' \in StackValues
      /\ UNCHANGED <<fault, seen, shared, request, lightctl, pins>>
  BY DEF Dispatch
<1>3. /\ ThreadsOK(thread') /\ thread'["lightctl"] = thread["lightctl"]
      /\ thread'["faultmg"] = thread["faultmg"] \/ Told(thread', "faultmg", 12)
  BY <1>1, DispatchSteps DEF Keeps
<1>4. i.message \in Message /\ i.value \in Word /\ StackValues \subseteq Word
  BY InputsAssumption, MessagesAssumption, StackValuesAssumption
<1>5. FaultOK'
  <2>1. seen' \in [{"scheduler", "gpio"} -> FaultModes] /\ UNCHANGED fault
    BY <1>1, <1>2 DEF FaultOK, DataOK
  <2>2. thread'["faultmg"].pc = "publish" <=> thread["faultmg"].pc = "publish"
    BY <1>3, FarThread
  <2> QED BY <1>1, <1>2, <1>4, <2>1, <2>2, FaultKept
<1>6. InputsOK'
  BY <1>1, <1>2, <1>4 DEF InputsOK, shared
<1>7. LightctlOK'
  BY <1>1, <1>2, <1>3, LightctlKept
<1> QED BY <1>3, <1>5, <1>6, <1>7 DEF Core

LEMMA CoreStep == Core /\ [SystemNext]_svars => Core'
<1> SUFFICES ASSUME Core, [SystemNext]_svars PROVE Core'
  OBVIOUS
<1>1. ThreadsOK(thread) /\ FaultOK /\ InputsOK /\ LightctlOK
  BY DEF Core
<1>2. /\ DataOK /\ StepDueOK /\ WellFormed(fault_state) /\ PublicationComplete
      /\ input_buffer \in Message /\ seen \in [{"scheduler", "gpio"} -> FaultModes]
      /\ shmem_fault["fault_mode"] \in FaultModes
      /\ TransportDecode(fault_mode_shared) \in FaultModes
  BY <1>1, TransportKeepsMode DEF FaultOK, DataOK, PublishedView
<1>3. ASSUME NEW i \in Inputs, Dispatch(i.message, i.value) PROVE Core'
  BY <1>3, DispatchKeepsCore
<1>4. CASE Scheduler
  <2>1. /\ ThreadsOK(thread')
        /\ Keeps(thread', {"gpio", "commandin", "vehicle_state", "faultmg"})
        /\ UNCHANGED <<fault, input_buffer, lightctl>>
        /\ seen' = seen \/ seen' = [seen EXCEPT !["scheduler"] = shmem_fault["fault_mode"]]
        /\ thread'["lightctl"] = thread["lightctl"] \/ Told(thread', "lightctl", 10)
    BY <1>1, <1>4, SchedulerSteps DEF Recomputes
  <2>2. seen' \in [{"scheduler", "gpio"} -> FaultModes]
    BY <1>2, <2>1
  <2>3. thread'["faultmg"] = thread["faultmg"]
    BY <2>1 DEF Keeps
  <2>4. FaultOK'
    BY <1>1, <1>2, <2>1, <2>2, <2>3, FaultKept
  <2>5. LightctlOK'
    BY <1>1, <2>1, FarThread, LightctlKept
  <2> QED BY <1>1, <1>2, <1>4, <2>1, <2>4, <2>5, SchedulerKeepsInputs DEF Core
<1>5. CASE Gpio
  <2>1. /\ ThreadsOK(thread') /\ Keeps(thread', Others({"gpio"}))
        /\ UNCHANGED <<fault, input_buffer, shared, console, request, lightctl>>
        /\ seen' = seen \/ seen' = [seen EXCEPT !["gpio"] = TransportDecode(fault_mode_shared)]
    BY <1>1, <1>5, GpioSteps
  <2>2. seen' \in [{"scheduler", "gpio"} -> FaultModes]
    BY <1>2, <2>1
  <2>3. thread'["faultmg"] = thread["faultmg"] /\ thread'["lightctl"] = thread["lightctl"]
    BY <2>1, SystemNames DEF Keeps, Others
  <2>4. FaultOK'
    BY <1>1, <1>2, <2>1, <2>2, <2>3, FaultKept
  <2>5. LightctlOK'
    BY <1>1, <2>1, <2>3, LightctlKept
  <2>6. InputsOK'
    BY <1>1, <2>1 DEF InputsOK, shared, console
  <2> QED BY <2>1, <2>4, <2>5, <2>6 DEF Core
<1>6. CASE Vehicle
  <2>1. /\ ThreadsOK(thread') /\ Keeps(thread', {"gpio", "commandin", "faultmg", "lightctl"})
        /\ VehicleKeeps
    BY <1>1, <1>6, VehicleSteps
  <2>2. UNCHANGED <<fault, input_buffer, seen, lightctl>>
    BY <2>1 DEF VehicleKeeps
  <2>3. thread'["faultmg"] = thread["faultmg"] /\ thread'["lightctl"] = thread["lightctl"]
    BY <2>1 DEF Keeps
  <2>4. FaultOK'
    BY <1>1, <1>2, <2>2, <2>3, FaultKept
  <2>5. LightctlOK'
    BY <1>1, <2>2, <2>3, LightctlKept
  <2> QED BY <1>1, <1>2, <1>6, <2>1, <2>4, <2>5, VehicleKeepsInputs DEF Core
<1>7. CASE Faultmg
  <2>1. Handler /\ UNCHANGED <<shared, console, request, lightctl, pins>>
    BY <1>7 DEF Faultmg
  <2>2. /\ ThreadsOK(thread') /\ StepDueOK'
        /\ Keeps(thread', {"commandin", "vehicle_state", "lightctl"})
    BY <1>1, <1>2, <2>1, FaultmgSteps
  <2>3. FaultOK'
    BY <1>2, <2>1, <2>2, HandlerKeepsTypes, HandlerPublishes DEF FaultOK
  <2>4. InputsOK'
    BY <1>1, <2>1 DEF InputsOK, shared, console
  <2>5. LightctlOK'
    BY <1>1, <2>1, <2>2, LightctlKept DEF Keeps
  <2> QED BY <2>2, <2>3, <2>4, <2>5 DEF Core
<1>8. CASE Lightctl
  <2>1. ThreadsOK(thread') /\ LightctlOK'
    BY <1>8, LightctlStep
  <2>2. UNCHANGED <<fault, input_buffer, seen, shared, console, request>>
    BY <1>8, LightctlWaits DEF LightctlKeeps
  <2>3. InputsOK'
    BY <1>1, <2>2 DEF InputsOK, shared, console
  <2>4. thread["faultmg"].pc # "publish" /\ thread'["faultmg"].pc # "publish"
    <3>1. Waits("faultmg")
      BY <1>8, LightctlWaits
    <3>2. thread'["faultmg"] = thread["faultmg"] \/ IsWoken(thread', "faultmg", 5)
      <4>1. plan # <<>> => Head(plan) \in Actions
        BY <1>1, PlanDue
      <4>2. thread["lightctl"].pc = "trigger" => plan # <<>>
        BY <1>1 DEF LightctlOK, InPlan
      <4>3. \/ Keeps(thread', Others({"lightctl"}))
            \/ IsWoken(thread', "faultmg", 5)
            \/ Keeps(thread', Others({"lightctl", "gpio"}))
        BY <1>1, <1>8, <4>1, <4>2, LightctlSteps DEF Lightctl, LightctlMoves, LightctlWakes
      <4> QED BY <4>3, SystemNames DEF Keeps, Others
    <3> QED BY <3>1, <3>2 DEF Waits, IsWoken
  <2>5. FaultOK'
    BY <1>1, <1>2, <2>2, <2>4, FaultKept
  <2> QED BY <2>1, <2>3, <2>5 DEF Core
<1>9. CASE UNCHANGED svars
  <2>1. UNCHANGED <<thread, fault, input_buffer, seen, shared, console, request, lightctl>>
    BY <1>9 DEF svars, vars, fault
  <2>2. FaultOK'
    BY <1>1, <1>2, <2>1, FaultKept
  <2>3. InputsOK'
    BY <1>1, <2>1 DEF InputsOK, shared, console
  <2>4. LightctlOK'
    BY <1>1, <2>1, LightctlKept
  <2> QED BY <1>1, <2>1, <2>2, <2>3, <2>4 DEF Core
<1> QED BY <1>3, <1>4, <1>5, <1>6, <1>7, <1>8, <1>9 DEF SystemNext

(* What every reachable state of the six domains satisfies: the threads,   *)
(* the published record and the plan are ones the code can be in.          *)
THEOREM CoreInvariant == SystemSpec => []Core
BY CoreInit, CoreStep, PTL DEF SystemSpec

(* In the system of all six domains too the fault record never contradicts *)
(* itself, covers its active faults and is published in full.              *)
THEOREM SystemKeepsFaultRecord ==
  SystemSpec => [](/\ LifecycleConsistent /\ SeverityCoversActiveFaults
                   /\ RecoveryWindowBounded /\ PublicationComplete)
<1>1. Core => /\ LifecycleConsistent /\ SeverityCoversActiveFaults
              /\ RecoveryWindowBounded /\ PublicationComplete
  BY DEF Core, FaultOK, WellFormed, LifecycleConsistent, SeverityCoversActiveFaults,
         RecoveryWindowBounded
<1> QED BY <1>1, CoreInvariant, PTL

(* Among the six domains only the fault manager changes the fault state.   *)
LEMMA SystemFaultStateSteps ==
  ASSUME Core, [SystemNext]_svars
  PROVE  FaultStateStep
<1>1. CASE Faultmg
  BY <1>1, HandlerFaultState DEF Core, FaultOK, DataOK, Faultmg
<1>2. CASE UNCHANGED <<fault_state, total_error_count>>
  BY <1>2 DEF FaultStateStep
<1>3. ASSUME NEW i \in Inputs, Dispatch(i.message, i.value)
      PROVE  UNCHANGED <<fault_state, total_error_count>>
  BY <1>3 DEF Dispatch, fault
<1>4. Scheduler => UNCHANGED <<fault_state, total_error_count>>
  BY DEF Scheduler, SchedulerCommand, SchedulerFaultMode, SchedulerVehicleState, Loop, fault
<1>5. Gpio => UNCHANGED <<fault_state, total_error_count>>
  BY DEF Gpio, GpioFaultMode, GpioAction, Loop, fault
<1>6. Vehicle => UNCHANGED <<fault_state, total_error_count>>
  BY DEF Vehicle, VehicleReadType, VehicleReadLen, VehicleReadField, VehicleReadValue,
         VehicleApply, VehicleNotify, VehicleKeeps, Loop, fault
<1>7. Lightctl => UNCHANGED <<fault_state, total_error_count>>
  BY DEF Lightctl, LightctlNotified, CopyMember, BuildPlan, GuardAction, ReportFault,
         TriggerGpio, LightctlKeeps, Loop, fault
<1>8. UNCHANGED svars => UNCHANGED <<fault_state, total_error_count>>
  BY DEF svars, vars
<1> QED BY <1>1, <1>2, <1>3, <1>4, <1>5, <1>6, <1>7, <1>8 DEF SystemNext

(* Nor do its counters run ahead of the published total: none wraps before *)
(* 2^32 faults (light_fault_mode.c:97-131).                                *)
THEOREM SystemCountsWithinTotal == SystemSpec => []CountersWithinTotal
<1>1. SystemInit => CountersWithinTotal
  <2> SUFFICES ASSUME SystemInit PROVE CountersWithinTotal
    OBVIOUS
  <2>1. fault_state.active_counters = CountersReset /\ total_error_count \in Nat
    BY DEF SystemInit, FaultStateReset
  <2> QED BY <2>1, ResetCounts DEF CountedWithin, CountersWithinTotal
<1>2. Core /\ CountersWithinTotal /\ [SystemNext]_svars => CountersWithinTotal'
  <2> SUFFICES ASSUME Core, CountersWithinTotal, [SystemNext]_svars
               PROVE  CountersWithinTotal'
    OBVIOUS
  <2>1. /\ CountedWithin(fault_state, total_error_count)
        /\ WellFormed(fault_state) /\ fault_state \in FaultState
        /\ total_error_count \in Nat
    BY DEF Core, FaultOK, DataOK, WellFormed, CountedWithin, CountersWithinTotal
  <2>2. CountedWithin(fault_state', total_error_count')
    BY <2>1, SystemFaultStateSteps, StepCounts
  <2> QED BY <2>2 DEF CountedWithin, CountersWithinTotal
<1> QED BY <1>1, <1>2, CoreInvariant, PTL DEF SystemSpec

(* In the system too no clear skips a level, whatever the other domains do *)
(* meanwhile (REQ-RECOVERY-001, light_fault_mode.c:233-276).               *)
THEOREM SystemRecoversByLevels == SystemSpec => RecoveryDropsOneLevel
<1>1. Core /\ [SystemNext]_svars => [LowersByOneLevel]_vars
  BY SystemFaultStateSteps, StepLowersByOneLevel DEF Core, FaultOK, DataOK
<1>2. SystemSpec => [][LowersByOneLevel]_vars
  BY <1>1, CoreInvariant, PTL DEF SystemSpec
<1> QED BY <1>2 DEF RecoveryDropsOneLevel, LowersByOneLevel

(* A fault in recovery, one lightctl reports among them, interrupts it     *)
(* (REQ-RECOVERY-003, light_fault_mode.c:167-190).                         *)
THEOREM SystemFaultInterrupts == SystemSpec => FaultInterruptsRecovery
<1>1. Core /\ [SystemNext]_svars => [InterruptsRecovery]_vars
  BY SystemFaultStateSteps, StepInterruptsRecovery DEF Core, FaultOK
<1>2. SystemSpec => [][InterruptsRecovery]_vars
  BY <1>1, CoreInvariant, PTL DEF SystemSpec
<1> QED BY <1>2 DEF FaultInterruptsRecovery, InterruptsRecovery

(* The six domains follow the fault lifecycle of docs/safety_case.md       *)
(* (faultmg.c:111-200).                                                    *)
THEOREM SystemRefinesLifecycle == SystemSpec => ImplementsLifecycle
<1>1. SystemInit => Lifecycle!Init
  BY Codes DEF SystemInit, Init, FaultStateReset, Lifecycle!Init
<1>2. Core /\ [SystemNext]_svars => [Lifecycle!Next]_(Lifecycle!avars)
  BY SystemFaultStateSteps, StepRefines DEF Core, FaultOK
<1> QED BY <1>1, <1>2, CoreInvariant, PTL DEF SystemSpec, ImplementsLifecycle, Lifecycle!Spec

(* Nothing is owed to a domain that waits.                                 *)
LEMMA WaitsForNothing ==
  ASSUME ThreadsOK(thread), NEW p \in PDs, Waits(p), NEW c
  PROVE  ~Owes(thread, p, c)
BY DEF ThreadsOK, Waits, Owes

(* lightctl: which of the others a step of it wakes.                       *)
LEMMA LightctlOthers ==
  ASSUME Core, Lightctl
  PROVE  /\ Keeps(thread', {"scheduler", "commandin", "vehicle_state"})
         /\ IF ReportFault THEN IsWoken(thread', "faultmg", 5)
            ELSE thread'["faultmg"] = thread["faultmg"]
         /\ IF TriggerGpio THEN IsWoken(thread', "gpio", ActionChannel(Head(plan)))
            ELSE thread'["gpio"] = thread["gpio"]
         /\ ~TriggerGpio => UNCHANGED execution
<1>1. ThreadsOK(thread) /\ LightctlOK
  BY DEF Core
<1>2. /\ plan # <<>> => Head(plan) \in Actions
      /\ thread["lightctl"].pc = "trigger" => plan # <<>>
  BY <1>1, PlanDue DEF LightctlOK, InPlan
<1>3. /\ ReportFault => LightctlWakes("faultmg", 5) /\ thread["lightctl"].pc = "report"
      /\ TriggerGpio => /\ LightctlWakes("gpio", ActionChannel(Head(plan)))
                        /\ thread["lightctl"].pc = "trigger"
  BY <1>1, <1>2, LightctlSteps DEF ReportFault, TriggerGpio, LightctlAt
<1>4. ~ReportFault /\ ~TriggerGpio => Keeps(thread', Others({"lightctl"}))
  BY <1>1, <1>2, LightctlSteps DEF Lightctl, LightctlMoves
<1>5. ~TriggerGpio => UNCHANGED execution
  BY DEF Lightctl, LightctlNotified, CopyMember, BuildPlan, GuardAction, ReportFault, Loop,
         lightctl
<1>6. CASE ReportFault
  BY <1>3, <1>5, <1>6, SystemNames DEF LightctlWakes, Keeps, Others
<1>7. CASE TriggerGpio
  BY <1>3, <1>5, <1>7, SystemNames DEF LightctlWakes, Keeps, Others
<1>8. CASE ~ReportFault /\ ~TriggerGpio
  BY <1>4, <1>5, <1>8, SystemNames DEF Keeps, Others
<1> QED BY <1>6, <1>7, <1>8
-------------------------------------------------------------------------------
(* Commands. *)

CommandInSlot == CommandDue => input_buffer.type = "LIGHT_CMD"

LEMMA CommandStep == Core /\ CommandInSlot /\ [SystemNext]_svars => CommandInSlot'
<1> SUFFICES ASSUME Core, CommandInSlot, [SystemNext]_svars
             PROVE  CommandInSlot'
  OBVIOUS
<1>1. /\ ThreadsOK(thread) /\ StepDueOK
      /\ Owes(thread, "scheduler", 4) => input_buffer.type = "LIGHT_CMD"
  BY SystemNames DEF Core, FaultOK, CommandInSlot, CommandDue, Owes
<1> SUFFICES Owes(thread', "scheduler", 4) => input_buffer'.type = "LIGHT_CMD"
  BY SystemNames DEF CommandInSlot, CommandDue, Owes
<1>2. ASSUME UNCHANGED input_buffer,
             Owes(thread', "scheduler", 4) => Owes(thread, "scheduler", 4)
      PROVE  Owes(thread', "scheduler", 4) => input_buffer'.type = "LIGHT_CMD"
  BY <1>1, <1>2
<1>3. ASSUME UNCHANGED input_buffer, thread'["scheduler"] = thread["scheduler"]
      PROVE  Owes(thread', "scheduler", 4) => input_buffer'.type = "LIGHT_CMD"
  BY <1>2, <1>3 DEF Owes
<1>4. ASSUME NEW c, c # 4, UNCHANGED input_buffer, IsWoken(thread', "scheduler", c)
      PROVE  Owes(thread', "scheduler", 4) => input_buffer'.type = "LIGHT_CMD"
  BY <1>4 DEF Owes, IsWoken
<1>5. ASSUME NEW i \in Inputs, Dispatch(i.message, i.value)
      PROVE  Owes(thread', "scheduler", 4) => input_buffer'.type = "LIGHT_CMD"
  <2>1. /\ i.message.type # "LIGHT_CMD" => thread'["scheduler"] = thread["scheduler"]
        /\ Waits("scheduler") /\ input_buffer' = i.message
    BY <1>1, <1>5, DispatchSteps DEF Dispatch
  <2>2. ~Owes(thread, "scheduler", 4)
    BY <1>1, <2>1, SystemNames DEF ThreadsOK, Waits, Owes
  <2> QED BY <2>1, <2>2 DEF Owes
<1>6. CASE Scheduler
  <2>1. /\ UNCHANGED input_buffer /\ ThreadsOK(thread')
        /\ \A c : c \in thread'["scheduler"].todo => c \in thread["scheduler"].todo
    BY <1>1, <1>6, SchedulerSteps
  <2> QED BY <1>2, <2>1, SystemNames DEF Owes, ThreadsOK
<1>7. CASE Gpio
  BY <1>1, <1>3, <1>7, GpioSteps, SystemNames DEF Keeps, Others
<1>8. CASE Vehicle
  BY <1>1, <1>3, <1>4, <1>8, VehicleSteps DEF VehicleKeeps
<1>9. CASE Faultmg
  BY <1>1, <1>3, <1>4, <1>9, FaultmgSteps DEF Faultmg, Announces, Publishes, WorksAlone
<1>10. CASE Lightctl
  BY <1>3, <1>10, LightctlOthers, LightctlWaits DEF Keeps, LightctlKeeps
<1>11. CASE UNCHANGED svars
  BY <1>3, <1>11 DEF svars, vars
<1> QED BY <1>5, <1>6, <1>7, <1>8, <1>9, <1>10, <1>11 DEF SystemNext

(* The scheduler that has a command to read waits for nothing, so          *)
(* commandin, below it, does not run; and no other domain writes the slot. *)
LEMMA SlotLeftAlone ==
  ASSUME ThreadsOK(thread), CommandDue, [SystemNext]_svars
  PROVE  UNCHANGED <<input_buffer, commands>>
<1>1. ASSUME NEW i \in Inputs, Dispatch(i.message, i.value) PROVE FALSE
  <2>1. Waits("scheduler")
    BY <1>1, DispatchSteps
  <2> QED BY <2>1, SystemNames DEF ThreadsOK, Waits, CommandDue
<1>2. CASE Scheduler
  BY <1>2 DEF Scheduler, SchedulerCommand, SchedulerFaultMode, SchedulerVehicleState, Loop, console
<1>3. CASE Gpio
  BY <1>3 DEF Gpio, GpioFaultMode, GpioAction, Loop, console
<1>4. CASE Vehicle
  BY <1>4 DEF Vehicle, VehicleReadType, VehicleReadLen, VehicleReadField, VehicleReadValue,
              VehicleApply, VehicleNotify, VehicleKeeps, Loop, console
<1>5. CASE Faultmg
  BY <1>5 DEF Faultmg, Handler, Publish, EventLoop, NotifiedByLightctl, ReadType, ReadLen,
              ReadPayload, InjectFault, ClearFault, Reject, PublishField, StoreFaultMode,
              NotifyGpio, NotifyScheduler, console
<1>6. CASE Lightctl
  BY <1>6 DEF Lightctl, LightctlNotified, CopyMember, BuildPlan, GuardAction, ReportFault,
              TriggerGpio, LightctlKeeps, Loop, console
<1>7. CASE UNCHANGED svars
  BY <1>7 DEF svars, vars, console
<1> QED BY <1>1, <1>2, <1>3, <1>4, <1>5, <1>6, <1>7 DEF SystemNext

(* From the notification of a light command until the scheduler has read   *)
(* the slot, nothing is entered and nothing written there, whatever races  *)
(* the console tries: what it reads is the very message                    *)
(* (commandin.c:422-461, light.system:33-84).                              *)
THEOREM CommandsReachScheduler == SystemSpec => SchedulerReadsItsCommand
<1>1. SystemInit => CommandInSlot
  BY InitialThreads, SystemNames DEF CommandInSlot, CommandDue, ThreadsOK, Waits
<1>2. Core /\ [SystemNext]_svars => [CommandDue => UNCHANGED <<input_buffer, commands>>]_svars
  BY SlotLeftAlone DEF Core
<1>3. SystemSpec => [](CommandDue => input_buffer.type = "LIGHT_CMD")
  BY <1>1, CommandStep, CoreInvariant, PTL DEF SystemSpec, CommandInSlot
<1>4. SystemSpec => [][CommandDue => UNCHANGED <<input_buffer, commands>>]_svars
  BY <1>2, CoreInvariant, PTL DEF SystemSpec
<1> QED BY <1>3, <1>4 DEF SchedulerReadsItsCommand

-------------------------------------------------------------------------------
(* The readers of the mode.  A reader that has not read the mode is owed   *)
(* its channel, or the publication has yet to signal it.                   *)
ReadersOwed ==
  /\ publish_at \notin 1 .. 9 => Owes(thread, "gpio", 8) \/ seen["gpio"] = fault_state.mode
  /\ publish_at = 0 => Owes(thread, "scheduler", 13) \/ seen["scheduler"] = fault_state.mode

LEMMA ReadersOwedKept ==
  ASSUME ReadersOwed, UNCHANGED <<fault_state, seen, publish_at>>,
         Owes(thread, "gpio", 8) => Owes(thread', "gpio", 8),
         Owes(thread, "scheduler", 13) => Owes(thread', "scheduler", 13)
  PROVE  ReadersOwed'
BY DEF ReadersOwed

LEMMA FaultmgTellsReaders ==
  ASSUME Core, Handler
  PROVE  \/ publish_at' \in 1 .. 9
         \/ publish_at' = 10 /\ IsWoken(thread', "gpio", 8)
         \/ publish_at = 10 /\ publish_at' = 0 /\ UNCHANGED fault_state
         \/ publish_at = 0 /\ publish_at' = 0 /\ UNCHANGED fault_state
<1>1. /\ ThreadsOK(thread) /\ Waits("gpio")
      /\ publish_at \in 0 .. Len(PublishSteps)
      /\ publish_at # 0 <=> thread["faultmg"].pc = "publish"
  BY FaultmgSteps DEF Core, FaultOK, StepDueOK
<1>2. CASE EventLoop \/ ReadType \/ ReadLen \/ ReadPayload \/ Reject
  <2>1. /\ thread["faultmg"].pc # "publish" /\ UNCHANGED <<publish_at, fault_state>>
    BY <1>2 DEF EventLoop, Wait, ReadType, ReadLen, ReadPayload, Reject, At, Called
  <2> QED BY <1>1, <2>1
<1>3. ASSUME NEW code \in LightctlCodes, NotifiedByLightctl(code) PROVE publish_at' = 1
  BY <1>3 DEF NotifiedByLightctl, HandleFaultEvent
<1>4. CASE InjectFault \/ ClearFault
  <2>1. /\ thread["faultmg"].pc # "publish"
        /\ publish_at' = 1 \/ UNCHANGED <<publish_at, fault_state>>
    BY <1>4 DEF InjectFault, ClearFault, HandleFaultEvent, Accepted, At
  <2> QED BY <1>1, <2>1
<1>5. CASE PublishField \/ StoreFaultMode
  <2>1. publish_at \in 1 .. 8 /\ publish_at' = publish_at + 1
    BY <1>1, <1>5, StepDue, ProgramOrder DEF PublishField, StoreFaultMode, At
  <2> QED BY <2>1
<1>6. CASE NotifyGpio
  <2>1. thread' = Signal(thread, "gpio", 8) /\ publish_at = 9 /\ publish_at' = 10
    BY <1>1, <1>6, StepDue, ProgramOrder, SystemNames DEF NotifyGpio, At
  <2>2. "gpio" \in PDs /\ 8 \in Channels /\ "gpio" # "commandin"
    BY SystemNames
  <2>3. Told(Signal(thread, "gpio", 8), "gpio", 8)
    BY <1>1, <2>2, SignalTold
  <2> QED BY <1>1, <2>1, <2>3 DEF Told, Waits
<1>7. CASE NotifyScheduler
  <2>1. publish_at = 10 /\ publish_at' = 0 /\ UNCHANGED fault_state
    BY <1>1, <1>7, StepDue, ProgramOrder DEF NotifyScheduler, At
  <2> QED BY <2>1
<1> QED BY <1>2, <1>3, <1>4, <1>5, <1>6, <1>7 DEF Handler, Publish

LEMMA ReadersOwedStep == Core /\ ReadersOwed /\ [SystemNext]_svars => ReadersOwed'
<1> SUFFICES ASSUME Core, ReadersOwed, [SystemNext]_svars PROVE ReadersOwed'
  OBVIOUS
<1>1. /\ ThreadsOK(thread) /\ StepDueOK /\ PublicationComplete
      /\ seen \in [{"scheduler", "gpio"} -> FaultModes] /\ fault_mode_shared \in FaultModes
  BY DEF Core, FaultOK, DataOK
<1>2. ASSUME NEW i \in Inputs, Dispatch(i.message, i.value) PROVE ReadersOwed'
  <2>1. /\ Waits("scheduler") /\ thread'["gpio"] = thread["gpio"]
        /\ UNCHANGED <<fault_state, seen, publish_at>>
    BY <1>1, <1>2, DispatchSteps DEF Dispatch, Keeps, fault
  <2>2. ~Owes(thread, "scheduler", 13)
    BY <1>1, <2>1, WaitsForNothing, SystemNames
  <2> QED BY <2>1, <2>2, ReadersOwedKept DEF Owes
<1>3. CASE Scheduler
  <2>1. /\ UNCHANGED <<fault_state, publish_at>> /\ thread'["gpio"] = thread["gpio"]
        /\ \/ seen' = seen /\ (13 \in thread["scheduler"].todo => 13 \in thread'["scheduler"].todo)
           \/ seen' = [seen EXCEPT !["scheduler"] = shmem_fault["fault_mode"]]
    BY <1>1, <1>3, SchedulerSteps DEF Keeps, fault
  <2>2. thread["scheduler"].badge = {}
    BY <1>1 DEF ThreadsOK
  <2>3. CASE seen' = seen /\ (13 \in thread["scheduler"].todo => 13 \in thread'["scheduler"].todo)
    BY <2>1, <2>2, <2>3, ReadersOwedKept DEF Owes
  <2>4. CASE seen' = [seen EXCEPT !["scheduler"] = shmem_fault["fault_mode"]]
    <3>1. publish_at = 0 => shmem_fault[PublishSteps[1]] = View[PublishSteps[1]]
      BY <1>1, ProgramOrder DEF PublicationComplete
    <3>2. publish_at = 0 => shmem_fault["fault_mode"] = fault_state.mode
      BY <3>1, ProgramOrder DEF View
    <3> QED BY <1>1, <2>1, <2>4, <3>2 DEF ReadersOwed, Owes
  <2> QED BY <2>1, <2>3, <2>4
<1>4. CASE Gpio
  <2>1. /\ UNCHANGED <<fault_state, publish_at>> /\ thread'["scheduler"] = thread["scheduler"]
        /\ \/ seen' = seen /\ (8 \in thread["gpio"].todo => 8 \in thread'["gpio"].todo)
           \/ seen' = [seen EXCEPT !["gpio"] = TransportDecode(fault_mode_shared)]
    BY <1>1, <1>4, GpioSteps, SystemNames DEF Keeps, Others, fault
  <2>2. thread["gpio"].badge = {}
    BY <1>1 DEF ThreadsOK
  <2>3. CASE seen' = seen /\ (8 \in thread["gpio"].todo => 8 \in thread'["gpio"].todo)
    BY <2>1, <2>2, <2>3, ReadersOwedKept DEF Owes
  <2>4. CASE seen' = [seen EXCEPT !["gpio"] = TransportDecode(fault_mode_shared)]
    <3>1. TransportDecode(fault_mode_shared) = fault_mode_shared
      BY <1>1, TransportKeepsMode
    <3>2. publish_at \notin 1 .. 9 => fault_mode_shared = fault_state.mode
      BY <1>1, ProgramOrder DEF PublicationComplete
    <3> QED BY <1>1, <2>1, <2>4, <3>1, <3>2 DEF ReadersOwed, Owes
  <2> QED BY <2>1, <2>3, <2>4
<1>5. CASE Vehicle
  <2>1. /\ UNCHANGED <<fault_state, seen, publish_at>> /\ thread'["gpio"] = thread["gpio"]
        /\ Waits("scheduler")
    BY <1>1, <1>5, VehicleSteps DEF Keeps, VehicleKeeps, fault
  <2>2. ~Owes(thread, "scheduler", 13)
    BY <1>1, <2>1, WaitsForNothing, SystemNames
  <2> QED BY <2>1, <2>2, ReadersOwedKept DEF Owes
<1>6. CASE Faultmg
  <2>1. /\ UNCHANGED seen
        /\ thread'["gpio"] = thread["gpio"] \/ IsWoken(thread', "gpio", 8)
        /\ Announces \/ Publishes \/ WorksAlone
    BY <1>1, <1>6, FaultmgSteps DEF Faultmg
  <2>2. Owes(thread, "gpio", 8) => Owes(thread', "gpio", 8)
    BY <2>1 DEF Owes, IsWoken
  <2>3. CASE publish_at' \in 1 .. 9
    BY <2>3 DEF ReadersOwed
  <2>4. CASE publish_at' = 10 /\ IsWoken(thread', "gpio", 8)
    BY <2>4 DEF ReadersOwed, Owes, IsWoken
  <2>5. CASE publish_at = 10 /\ publish_at' = 0 /\ UNCHANGED fault_state
    <3>1. IsWoken(thread', "scheduler", 13)
      BY <2>1, <2>5 DEF Announces, Publishes, WorksAlone
    <3> QED BY <2>1, <2>2, <2>5, <3>1 DEF ReadersOwed, Owes, IsWoken
  <2>6. CASE publish_at = 0 /\ publish_at' = 0 /\ UNCHANGED fault_state
    <3>1. thread'["scheduler"] = thread["scheduler"]
      BY <2>1, <2>6 DEF Announces, Publishes, WorksAlone
    <3> QED BY <2>1, <2>2, <2>6, <3>1, ReadersOwedKept DEF Owes
  <2> QED BY <1>6, <2>3, <2>4, <2>5, <2>6, FaultmgTellsReaders DEF Faultmg
<1>7. CASE Lightctl
  <2>1. /\ thread'["scheduler"] = thread["scheduler"]
        /\ IF TriggerGpio THEN IsWoken(thread', "gpio", ActionChannel(Head(plan)))
           ELSE thread'["gpio"] = thread["gpio"]
        /\ Waits("gpio") /\ UNCHANGED <<fault_state, seen, publish_at>>
    BY <1>7, LightctlOthers, LightctlWaits DEF Keeps, LightctlKeeps, fault
  <2>2. ~Owes(thread, "gpio", 8)
    BY <1>1, <2>1, WaitsForNothing, SystemNames
  <2> QED BY <2>1, <2>2, ReadersOwedKept DEF Owes
<1>8. CASE UNCHANGED svars
  BY <1>8, ReadersOwedKept DEF svars, vars
<1> QED BY <1>2, <1>3, <1>4, <1>5, <1>6, <1>7, <1>8 DEF SystemNext

(* Whenever the fault manager waits, the real scheduler and gpio, if they  *)
(* wait too, have read its mode (scheduler.c:68, gpio.c:178).              *)
THEOREM SystemReadersAreCurrent == SystemSpec => []ReadersCurrent
<1>1. SystemInit => ReadersOwed
  BY DEF SystemInit, ReadersOwed
<1>2. Core /\ ReadersOwed => ReadersCurrent
  <2> SUFFICES ASSUME Core, ReadersOwed, thread["faultmg"].pc = "blocked",
                      NEW p \in {"scheduler", "gpio"}, Waits(p)
               PROVE  seen[p] = fault_state.mode
    BY DEF ReadersCurrent, Waits
  <2>1. ThreadsOK(thread) /\ publish_at = 0
    BY DEF Core, FaultOK, StepDueOK
  <2>2. p \in PDs
    BY SystemNames
  <2>3. ~Owes(thread, p, 8) /\ ~Owes(thread, p, 13)
    BY <2>1, <2>2, WaitsForNothing
  <2> QED BY <2>1, <2>3 DEF ReadersOwed
<1> QED BY <1>1, <1>2, ReadersOwedStep, CoreInvariant, PTL DEF SystemSpec
-------------------------------------------------------------------------------
(* The fault manager's model, as the system sees it: an operator of the    *)
(* instance that reads no thread is the operator itself.                   *)
LEMMA SameData ==
  /\ FaultMgView!PublishSteps = PublishSteps /\ FaultMgView!FieldCount = FieldCount
  /\ FaultMgView!View = View /\ FaultMgView!EmptyMessage = EmptyMessage
  /\ FaultMgView!FaultStateReset = FaultStateReset /\ FaultMgView!NORMAL = NORMAL
  /\ FaultMgView!FAULT_CLEAR_ALL = FAULT_CLEAR_ALL
  /\ \A s, code : FaultMgView!RecordError(s, code) = RecordError(s, code)
  /\ \A s : FaultMgView!AfterClear(s) = AfterClear(s)
  /\ \A m, type : FaultMgView!CheckTransportMessage(m, type) = CheckTransportMessage(m, type)
  /\ \A m : FaultMgView!RoutedHere(m) <=> RoutedHere(m)
  /\ \A mode : /\ FaultMgView!TransportEncode(mode) = TransportEncode(mode)
               /\ FaultMgView!TransportDecode(mode) = TransportDecode(mode)
<1> USE DEF FaultMgView!NORMAL, NORMAL, FaultMgView!WARN, WARN, FaultMgView!DEGRADED, DEGRADED,
            FaultMgView!SAFE_MODE, SAFE_MODE, FaultMgView!FaultModes, FaultModes,
            FaultMgView!SPEED_LIMIT, SPEED_LIMIT, FaultMgView!MODE_CONFLICT, MODE_CONFLICT,
            FaultMgView!INVALID_CMD, INVALID_CMD, FaultMgView!HW_STATE_ERR, HW_STATE_ERR,
            FaultMgView!KnownCodes, KnownCodes,
            FaultMgView!RECOVERY_WINDOW_TICKS, RECOVERY_WINDOW_TICKS,
            FaultMgView!RECOVERY_WINDOW_MS, RECOVERY_WINDOW_MS
<1>1. /\ FaultMgView!PublishSteps = PublishSteps /\ FaultMgView!FieldCount = FieldCount
      /\ FaultMgView!View = View /\ FaultMgView!EmptyMessage = EmptyMessage
      /\ FaultMgView!FAULT_CLEAR_ALL = FAULT_CLEAR_ALL
  BY DEF FaultMgView!PublishSteps, PublishSteps, FaultMgView!FieldCount, FieldCount,
         FaultMgView!View, View, FaultMgView!EmptyMessage, EmptyMessage,
         FaultMgView!FAULT_CLEAR_ALL, FAULT_CLEAR_ALL
<1>2. FaultMgView!CountersReset = CountersReset
  BY DEF FaultMgView!CountersReset, CountersReset
<1>3. FaultMgView!FaultStateReset = FaultStateReset
  BY <1>2 DEF FaultMgView!FaultStateReset, FaultStateReset
<1>4. ASSUME NEW s, NEW code
      PROVE  FaultMgView!RecordError(s, code) = RecordError(s, code)
  <2>1. ASSUME NEW c PROVE FaultMgView!ApplyErrorToCounters(c, code) = ApplyErrorToCounters(c, code)
    BY DEF FaultMgView!ApplyErrorToCounters, ApplyErrorToCounters
  <2>2. ASSUME NEW c PROVE FaultMgView!DeriveMode(c) = DeriveMode(c)
    BY DEF FaultMgView!DeriveMode, DeriveMode
  <2>3. FaultMgView!MaskForError(code) = MaskForError(code)
    BY DEF FaultMgView!MaskForError, MaskForError
  <2> QED BY <2>1, <2>2, <2>3 DEF FaultMgView!RecordError, RecordError
<1>5. ASSUME NEW s PROVE FaultMgView!ClearActive(s) = ClearActive(s)
  BY <1>2 DEF FaultMgView!ClearActive, ClearActive
<1>6. ASSUME NEW s PROVE FaultMgView!ObserveRecovery(s) = ObserveRecovery(s)
  <2>1. ASSUME NEW ms PROVE FaultMgView!NonZero(ms) = NonZero(ms)
    BY DEF FaultMgView!NonZero, NonZero
  <2>2. ASSUME NEW ms PROVE FaultMgView!TickProgress(ms) = TickProgress(ms)
    BY DEF FaultMgView!TickProgress, TickProgress
  <2>3. ASSUME NEW t, NEW ms PROVE FaultMgView!CloseWindow(t, ms) = CloseWindow(t, ms)
    <3>1. FaultMgView!StepDown(t.mode) = StepDown(t.mode)
      BY DEF FaultMgView!StepDown, StepDown
    <3> QED BY <2>1, <3>1 DEF FaultMgView!CloseWindow, CloseWindow
  <2>4. ASSUME NEW t, NEW ms PROVE FaultMgView!ObserveRecoveryAt(t, ms) = ObserveRecoveryAt(t, ms)
    <3> DEFINE elapsed == IF ms <= t.recovery_window_start_ms THEN 0
                          ELSE ms - t.recovery_window_start_ms
               opened(x) == [t EXCEPT !.recovery_window_start_ms = x,
                                      !.recovery_elapsed_ms = 0, !.recovery_ticks = 0]
               waited(x) == [t EXCEPT !.recovery_elapsed_ms = elapsed, !.recovery_ticks = x]
    <3>1. /\ FaultMgView!NonZero(ms) = NonZero(ms)
          /\ FaultMgView!TickProgress(elapsed) = TickProgress(elapsed)
          /\ FaultMgView!CloseWindow(t, ms) = CloseWindow(t, ms)
      BY <2>1, <2>2, <2>3
    <3> HIDE DEF opened, waited
    <3>2. FaultMgView!ObserveRecoveryAt(t, ms) =
            IF t.lifecycle # "RECOVERING" \/ t.active_fault_mask # {} THEN t
            ELSE IF t.recovery_window_start_ms = 0 THEN opened(FaultMgView!NonZero(ms))
            ELSE IF elapsed < 2000 THEN waited(FaultMgView!TickProgress(elapsed))
            ELSE FaultMgView!CloseWindow(t, ms)
      BY DEF FaultMgView!ObserveRecoveryAt, opened, waited
    <3>3. ObserveRecoveryAt(t, ms) =
            IF t.lifecycle # "RECOVERING" \/ t.active_fault_mask # {} THEN t
            ELSE IF t.recovery_window_start_ms = 0 THEN opened(NonZero(ms))
            ELSE IF elapsed < 2000 THEN waited(TickProgress(elapsed))
            ELSE CloseWindow(t, ms)
      BY DEF ObserveRecoveryAt, opened, waited
    <3> QED BY <3>1, <3>2, <3>3
  <2>5. ASSUME NEW t PROVE FaultMgView!SyntheticNow(t) = SyntheticNow(t)
    BY DEF FaultMgView!SyntheticNow, SyntheticNow
  <2>6. FaultMgView!OpenWindow(s) = OpenWindow(s)
    BY <2>1 DEF FaultMgView!OpenWindow, OpenWindow
  <2> QED BY <2>4, <2>5, <2>6 DEF FaultMgView!ObserveRecovery, ObserveRecovery
<1>7. ASSUME NEW s PROVE FaultMgView!AfterClear(s) = AfterClear(s)
  BY <1>5, <1>6 DEF FaultMgView!AfterClear, AfterClear
<1>8. ASSUME NEW m, NEW type
      PROVE  FaultMgView!CheckTransportMessage(m, type) = CheckTransportMessage(m, type)
  <2>1. FaultMgView!ExpectedLen(type) = ExpectedLen(type)
    BY DEF FaultMgView!ExpectedLen, ExpectedLen
  <2> QED BY <2>1 DEF FaultMgView!CheckTransportMessage, CheckTransportMessage
<1>9. \A m : FaultMgView!RoutedHere(m) <=> RoutedHere(m)
  BY DEF FaultMgView!RoutedHere, RoutedHere
<1>10. \A mode : /\ FaultMgView!TransportEncode(mode) = TransportEncode(mode)
                 /\ FaultMgView!TransportDecode(mode) = TransportDecode(mode)
  BY DEF FaultMgView!TransportEncode, TransportEncode, FaultMgView!TransportDecode,
         TransportDecode
<1> QED BY <1>1, <1>3, <1>4, <1>7, <1>8, <1>9, <1>10

(* Its threads: the fault manager's own, the two readers while their call  *)
(* for a publication is due, and nobody else.                              *)
ThreadView ==
  [p \in PDs |->
     CASE p = "faultmg"   -> thread[p]
       [] p = "scheduler" -> ReaderThread(p, SCHEDULER_FROM_FAULTMG)
       [] p = "gpio"      -> ReaderThread(p, GPIO_FROM_FAULTMG)
       [] OTHER           -> Blocked]

LEMMA SameThreads ==
  /\ \A p : FaultMgView!Runs(p) <=>
              \A q \in PDs : Priority(q) > Priority(p) => ThreadView[q].pc = "blocked"
  /\ \A p, label : FaultMgView!Goto(p, label) = [ThreadView EXCEPT ![p].pc = label]
  /\ \A p, c, label : FaultMgView!Enter(p, c, label) =
                        [ThreadView EXCEPT ![p].todo = @ \ {c}, ![p].pc = label]
  /\ \A t, p, c : FaultMgView!Signal(t, p, c) = Signal(t, p, c)
  /\ \A p, c : FaultMgView!Called(p, c) <=>
                 /\ FaultMgView!Runs(p) /\ ThreadView[p].pc = "ready"
                 /\ c \in ThreadView[p].todo
                 /\ \A other \in ThreadView[p].todo : c <= other
  /\ \A p : FaultMgView!Wait(p) <=>
              /\ FaultMgView!Runs(p) /\ ThreadView[p].pc = "ready" /\ ThreadView[p].todo = {}
              /\ ThreadView' = [ThreadView EXCEPT ![p] =
                                  IF @.badge = {} THEN Blocked ELSE Woken(@.badge)]
  /\ FaultMgView!Blocked = Blocked
  /\ FaultMgView!SCHEDULER_FROM_FAULTMG = 13 /\ FaultMgView!GPIO_FROM_FAULTMG = 8
  /\ FaultMgView!FAULTMG_FROM_LIGHTCTL = 5 /\ FaultMgView!FAULTMG_FROM_COMMANDIN = 12
<1>1. FaultMgView!PDs = PDs /\ FaultMgView!Blocked = Blocked
  BY DEF FaultMgView!PDs, PDs, FaultMgView!Blocked, Blocked
<1>2. ASSUME NEW c PROVE FaultMgView!Woken(c) = Woken(c)
  BY DEF FaultMgView!Woken, Woken
<1>3. ASSUME NEW p PROVE FaultMgView!Priority(p) = Priority(p)
  BY DEF FaultMgView!Priority, Priority
<1>4. ASSUME NEW r, NEW c PROVE FaultMgView!Signalled(r, c) = Signalled(r, c)
  BY <1>2 DEF FaultMgView!Signalled, Signalled
<1>5. \A t, p, c : FaultMgView!Signal(t, p, c) = Signal(t, p, c)
  BY <1>4 DEF FaultMgView!Signal, Signal
<1>6. \A p : FaultMgView!Runs(p) <=>
               \A q \in PDs : Priority(q) > Priority(p) => ThreadView[q].pc = "blocked"
  BY <1>1, <1>3 DEF FaultMgView!Runs, ThreadView
<1>7. \A p, label : FaultMgView!Goto(p, label) = [ThreadView EXCEPT ![p].pc = label]
  BY DEF FaultMgView!Goto, ThreadView
<1>8. \A p, c, label : FaultMgView!Enter(p, c, label) =
                         [ThreadView EXCEPT ![p].todo = @ \ {c}, ![p].pc = label]
  BY DEF FaultMgView!Enter, ThreadView
<1>9. \A p, c : FaultMgView!Called(p, c) <=>
                  /\ FaultMgView!Runs(p) /\ ThreadView[p].pc = "ready"
                  /\ c \in ThreadView[p].todo
                  /\ \A other \in ThreadView[p].todo : c <= other
  BY DEF FaultMgView!Called, ThreadView
<1>10. \A p : FaultMgView!Wait(p) <=>
                /\ FaultMgView!Runs(p) /\ ThreadView[p].pc = "ready" /\ ThreadView[p].todo = {}
                /\ ThreadView' = [ThreadView EXCEPT ![p] =
                                    IF @.badge = {} THEN Blocked ELSE Woken(@.badge)]
  BY <1>1, <1>2 DEF FaultMgView!Wait, ThreadView
<1>11. /\ FaultMgView!SCHEDULER_FROM_FAULTMG = 13 /\ FaultMgView!GPIO_FROM_FAULTMG = 8
       /\ FaultMgView!FAULTMG_FROM_LIGHTCTL = 5 /\ FaultMgView!FAULTMG_FROM_COMMANDIN = 12
  BY DEF FaultMgView!SCHEDULER_FROM_FAULTMG, FaultMgView!GPIO_FROM_FAULTMG,
         FaultMgView!FAULTMG_FROM_LIGHTCTL, FaultMgView!FAULTMG_FROM_COMMANDIN
<1> QED BY <1>1, <1>5, <1>6, <1>7, <1>8, <1>9, <1>10, <1>11

ReaderView(p, c) == IF c \in thread[p].todo THEN Woken({c}) ELSE Blocked

ViewShape ==
  /\ ThreadView = [p \in PDs |-> ThreadView[p]]
  /\ ThreadView["faultmg"] = thread["faultmg"]
  /\ ThreadView["scheduler"] = ReaderView("scheduler", 13)
  /\ ThreadView["gpio"] = ReaderView("gpio", 8)
  /\ \A p \in {"commandin", "vehicle_state", "lightctl"} : ThreadView[p] = Blocked

LEMMA ViewThreads == ViewShape
<1>1. ThreadView = [p \in PDs |-> ThreadView[p]]
  BY DEF ThreadView
<1>2. ThreadView["faultmg"] = thread["faultmg"]
  BY SystemNames DEF ThreadView
<1>3. ThreadView["scheduler"] = ReaderThread("scheduler", 13)
  BY SystemNames DEF ThreadView
<1>4. ThreadView["gpio"] = ReaderThread("gpio", 8)
  BY SystemNames DEF ThreadView
<1>5. \A p \in {"commandin", "vehicle_state", "lightctl"} : ThreadView[p] = Blocked
  BY SystemNames DEF ThreadView
<1> QED BY <1>1, <1>2, <1>3, <1>4, <1>5 DEF ReaderThread, ReaderView, ViewShape

(* The next view, thread by thread.                                        *)
LEMMA NextView ==
  ASSUME NEW t, t = [p \in PDs |-> t[p]],
         t["faultmg"] = thread'["faultmg"],
         t["scheduler"] = ReaderView("scheduler", 13)',
         t["gpio"] = ReaderView("gpio", 8)',
         \A p \in {"commandin", "vehicle_state", "lightctl"} : t[p] = Blocked
  PROVE  ThreadView' = t
<1>0. ViewShape'
  BY ViewThreads, PTL
<1>1. /\ ThreadView' = [p \in PDs |-> ThreadView'[p]]
      /\ ThreadView'["faultmg"] = thread'["faultmg"]
      /\ ThreadView'["scheduler"] = ReaderView("scheduler", 13)'
      /\ ThreadView'["gpio"] = ReaderView("gpio", 8)'
      /\ \A p \in {"commandin", "vehicle_state", "lightctl"} : ThreadView'[p] = Blocked
  BY <1>0 DEF ViewShape
<1> HIDE DEF ReaderView, ThreadView
<1>2. \A p \in PDs : ThreadView'[p] = t[p]
  BY <1>1, SystemNames
<1> QED BY <1>1, <1>2

(* A reader that waits is seen waiting, and stays so while no call for a   *)
(* publication is added.                                                   *)
LEMMA ReaderWaits ==
  ASSUME ThreadsOK(thread), NEW p \in PDs, NEW c, Waits(p)
  PROVE  ReaderView(p, c) = Blocked
BY WaitsForNothing DEF ReaderView, Owes

LEMMA ViewRuns ==
  ASSUME ThreadsOK(thread), NEW p \in PDs, Runs(p)
  PROVE  FaultMgView!Runs(p)
<1>1. ASSUME NEW q \in PDs, Priority(q) > Priority(p)
      PROVE  ThreadView[q].pc = "blocked"
  <2>1. Waits(q)
    BY <1>1 DEF Runs, Waits
  <2>2. Blocked.pc = "blocked"
    BY DEF Blocked
  <2>3. ThreadView[q] = thread[q] \/ ThreadView[q] = Blocked
    BY <2>1, ViewThreads, ReaderWaits, SystemNames DEF ViewShape
  <2> QED BY <2>1, <2>2, <2>3 DEF Waits
<1> QED BY <1>1, SameThreads

LEMMA SameView ==
  ASSUME thread'["faultmg"] = thread["faultmg"],
         13 \in thread'["scheduler"].todo <=> 13 \in thread["scheduler"].todo,
         8 \in thread'["gpio"].todo <=> 8 \in thread["gpio"].todo
  PROVE  ThreadView' = ThreadView
<1>1. ReaderView("scheduler", 13)' = ReaderView("scheduler", 13)
  BY DEF ReaderView
<1>2. ReaderView("gpio", 8)' = ReaderView("gpio", 8)
  BY DEF ReaderView
<1> QED BY <1>1, <1>2, ViewThreads, NextView DEF ViewShape

(* The fault manager alone moves.                                          *)
LEMMA FaultmgView ==
  ASSUME Keeps(thread', {"scheduler", "gpio"}),
         NEW r, thread'["faultmg"] = r
  PROVE  ThreadView' = [ThreadView EXCEPT !["faultmg"] = r]
<1> DEFINE t == [ThreadView EXCEPT !["faultmg"] = r]
<1>1. /\ ReaderView("scheduler", 13)' = ReaderView("scheduler", 13)
      /\ ReaderView("gpio", 8)' = ReaderView("gpio", 8)
  BY DEF ReaderView, Keeps
<1>2. /\ t = [p \in PDs |-> t[p]]
      /\ t["faultmg"] = r /\ t["scheduler"] = ThreadView["scheduler"]
      /\ t["gpio"] = ThreadView["gpio"]
      /\ \A p \in {"commandin", "vehicle_state", "lightctl"} : t[p] = ThreadView[p]
  BY ViewThreads, SystemNames DEF ViewShape
<1> HIDE DEF t
<1>3. ThreadView' = t
  BY <1>1, <1>2, ViewThreads, NextView DEF ViewShape
<1> QED BY <1>3 DEF t

LEMMA GotoView ==
  ASSUME ThreadsOK(thread), NEW label, thread' = Goto("faultmg", label)
  PROVE  ThreadView' = FaultMgView!Goto("faultmg", label)
<1>1. thread = [p \in PDs |-> thread[p]]
  BY DEF ThreadsOK, Threads
<1>2. /\ thread'["faultmg"] = [thread["faultmg"] EXCEPT !.pc = label]
      /\ Keeps(thread', {"scheduler", "gpio"})
  BY <1>1, SystemNames DEF Goto, Keeps
<1>3. ThreadView' = [ThreadView EXCEPT !["faultmg"] = [thread["faultmg"] EXCEPT !.pc = label]]
  BY <1>2, FaultmgView
<1>4. ThreadView' = [ThreadView EXCEPT !["faultmg"].pc = label]
  BY <1>3, ViewThreads DEF ViewShape
<1> QED BY <1>4, SameThreads

LEMMA EnterView ==
  ASSUME ThreadsOK(thread), NEW c, NEW label, thread' = Enter("faultmg", c, label)
  PROVE  ThreadView' = FaultMgView!Enter("faultmg", c, label)
<1> DEFINE r == [[thread["faultmg"] EXCEPT !.todo = @ \ {c}] EXCEPT !.pc = label]
<1>1. thread = [p \in PDs |-> thread[p]]
  BY DEF ThreadsOK, Threads
<1>2. thread'["faultmg"] = r /\ Keeps(thread', {"scheduler", "gpio"})
  BY <1>1, SystemNames DEF Enter, Keeps
<1>3. [ThreadView EXCEPT !["faultmg"].todo = @ \ {c}, !["faultmg"].pc = label] =
        [ThreadView EXCEPT !["faultmg"] = r]
  BY ViewThreads, SystemNames DEF ViewShape
<1> HIDE DEF r
<1>4. ThreadView' = [ThreadView EXCEPT !["faultmg"] = r]
  BY <1>2, FaultmgView
<1> QED BY <1>3, <1>4, SameThreads

LEMMA WaitView ==
  ASSUME ThreadsOK(thread), Wait("faultmg")
  PROVE  FaultMgView!Wait("faultmg")
<1> DEFINE r == IF thread["faultmg"].badge = {} THEN Blocked ELSE Woken(thread["faultmg"].badge)
<1>1. thread = [p \in PDs |-> thread[p]] /\ "faultmg" \in PDs
  BY SystemNames DEF ThreadsOK, Threads
<1>2. thread'["faultmg"] = r /\ Keeps(thread', {"scheduler", "gpio"})
  BY <1>1, SystemNames DEF Wait, Keeps
<1>3. [ThreadView EXCEPT !["faultmg"] = IF @.badge = {} THEN Blocked ELSE Woken(@.badge)] =
        [ThreadView EXCEPT !["faultmg"] = r]
  BY ViewThreads DEF ViewShape
<1> HIDE DEF r
<1>4. ThreadView' = [ThreadView EXCEPT !["faultmg"] = r]
  BY <1>2, FaultmgView
<1>5. Runs("faultmg") /\ thread["faultmg"].pc = "ready" /\ thread["faultmg"].todo = {}
  BY DEF Wait
<1>6. FaultMgView!Runs("faultmg")
  BY <1>1, <1>5, ViewRuns
<1> QED BY <1>3, <1>4, <1>5, <1>6, SameThreads, ViewThreads DEF ViewShape

LEMMA CalledView ==
  ASSUME ThreadsOK(thread), NEW c, Called("faultmg", c)
  PROVE  FaultMgView!Called("faultmg", c)
<1>1. FaultMgView!Runs("faultmg")
  BY ViewRuns, SystemNames DEF Called
<1> QED BY <1>1, ViewThreads, SameThreads DEF Called, ViewShape

(* The fault manager signals one of its readers, which wait.               *)
LEMMA SignalledView ==
  ASSUME NEW q \in {"scheduler", "gpio"}, NEW c, c = IF q = "gpio" THEN 8 ELSE 13,
         Keeps(thread', {"scheduler", "gpio"} \ {q}), IsWoken(thread', q, c),
         NEW r, thread'["faultmg"] = r,
         ReaderView(q, c) = Blocked
  PROVE  ThreadView' = Signal([ThreadView EXCEPT !["faultmg"] = r], q, c)
<1> DEFINE s == [ThreadView EXCEPT !["faultmg"] = r]
           t == Signal(s, q, c)
<1>1. /\ s = [p \in PDs |-> s[p]] /\ s["faultmg"] = r
      /\ \A p \in PDs : p # "faultmg" => s[p] = ThreadView[p]
  BY ViewThreads, SystemNames DEF ViewShape
<1>2. s[q] = Blocked
  BY <1>1, ViewThreads, SystemNames DEF ViewShape
<1> HIDE DEF s
<1>3. Signalled(s[q], c) = Woken({c})
  BY <1>2 DEF Signalled, Blocked
<1>4. t = [s EXCEPT ![q] = Woken({c})]
  BY <1>3 DEF Signal
<1>5. /\ t = [p \in PDs |-> t[p]] /\ t[q] = Woken({c})
      /\ \A p \in PDs : p # q => t[p] = s[p]
  BY <1>1, <1>4, SystemNames
<1> HIDE DEF t
<1>6. /\ ReaderView(q, c)' = Woken({c})
      /\ q = "gpio" => ReaderView("scheduler", 13)' = ReaderView("scheduler", 13)
      /\ q = "scheduler" => ReaderView("gpio", 8)' = ReaderView("gpio", 8)
  BY DEF ReaderView, IsWoken, Keeps
<1>7. /\ t["faultmg"] = thread'["faultmg"]
      /\ t["scheduler"] = ReaderView("scheduler", 13)'
      /\ t["gpio"] = ReaderView("gpio", 8)'
      /\ \A p \in {"commandin", "vehicle_state", "lightctl"} : t[p] = Blocked
  <2>1. CASE q = "gpio"
    BY <1>1, <1>5, <1>6, <2>1, ViewThreads, SystemNames DEF ViewShape
  <2>2. CASE q = "scheduler"
    BY <1>1, <1>5, <1>6, <2>2, ViewThreads, SystemNames DEF ViewShape
  <2> QED BY <2>1, <2>2
<1>8. ThreadView' = t
  BY <1>5, <1>7, NextView
<1> QED BY <1>8 DEF t, s

(* Somebody signals the fault manager.                                     *)
LEMMA ToldView ==
  ASSUME ThreadsOK(thread), NEW c,
         13 \in thread'["scheduler"].todo <=> 13 \in thread["scheduler"].todo,
         8 \in thread'["gpio"].todo <=> 8 \in thread["gpio"].todo,
         thread'["faultmg"] = Signalled(thread["faultmg"], c)
  PROVE  ThreadView' = FaultMgView!Signal(ThreadView, "faultmg", c)
<1> DEFINE r == Signalled(thread["faultmg"], c)
           t == [ThreadView EXCEPT !["faultmg"] = r]
<1>1. Signal(ThreadView, "faultmg", c) = t
  BY ViewThreads DEF Signal, ViewShape
<1>2. /\ ReaderView("scheduler", 13)' = ReaderView("scheduler", 13)
      /\ ReaderView("gpio", 8)' = ReaderView("gpio", 8)
  BY DEF ReaderView
<1> HIDE DEF r
<1>3. /\ t = [p \in PDs |-> t[p]]
      /\ t["faultmg"] = r /\ t["scheduler"] = ThreadView["scheduler"]
      /\ t["gpio"] = ThreadView["gpio"]
      /\ \A p \in {"commandin", "vehicle_state", "lightctl"} : t[p] = ThreadView[p]
  BY ViewThreads, SystemNames DEF ViewShape
<1> HIDE DEF t
<1>4. ThreadView' = t
  BY <1>2, <1>3, ViewThreads, NextView DEF r, ViewShape
<1> QED BY <1>1, <1>4, SameThreads

(* A reader reads: it has no call due any more.                            *)
LEMMA ReadView ==
  ASSUME NEW p \in {"scheduler", "gpio"},
         Keeps(thread', {"scheduler", "gpio", "faultmg"} \ {p}),
         ReaderView(p, IF p = "gpio" THEN 8 ELSE 13)' = Blocked
  PROVE  ThreadView' = [ThreadView EXCEPT ![p] = Blocked]
<1> DEFINE t == [ThreadView EXCEPT ![p] = Blocked]
<1>1. /\ p = "gpio" => ReaderView("scheduler", 13)' = ReaderView("scheduler", 13)
      /\ p = "scheduler" => ReaderView("gpio", 8)' = ReaderView("gpio", 8)
      /\ thread'["faultmg"] = thread["faultmg"]
  BY DEF ReaderView, Keeps
<1>2. /\ t = [q \in PDs |-> t[q]] /\ t[p] = Blocked
      /\ \A q \in PDs : q # p => t[q] = ThreadView[q]
  BY ViewThreads, SystemNames DEF ViewShape
<1> HIDE DEF t
<1>3. ThreadView' = t
  <2>1. CASE p = "gpio"
    BY <1>1, <1>2, <2>1, ViewThreads, SystemNames, NextView DEF ViewShape
  <2>2. CASE p = "scheduler"
    BY <1>1, <1>2, <2>2, ViewThreads, SystemNames, NextView DEF ViewShape
  <2> QED BY <2>1, <2>2
<1> QED BY <1>3 DEF t

LEMMA AtView ==
  ASSUME ThreadsOK(thread), NEW label, At(label)
  PROVE  FaultMgView!At(label)
<1>1. FaultMgView!At(label) <=> FaultMgView!Runs("faultmg") /\ ThreadView["faultmg"].pc = label
  BY DEF FaultMgView!At, ThreadView
<1>2. FaultMgView!Runs("faultmg")
  BY ViewRuns, SystemNames DEF At
<1> QED BY <1>1, <1>2, ViewThreads DEF ViewShape, At

LEMMA AcceptedView ==
  ASSUME ThreadsOK(thread), NEW type, Accepted(type)
  PROVE  FaultMgView!Accepted(type)
BY AtView, SameData DEF Accepted, FaultMgView!Accepted

LEMMA HandlesEventView ==
  ASSUME NEW code, HandleFaultEvent(code)
  PROVE  FaultMgView!HandleFaultEvent(code)
BY SameData DEF HandleFaultEvent, FaultMgView!HandleFaultEvent

(* Each step of the fault manager is the same step of its model.           *)
LEMMA HandlerView ==
  ASSUME ThreadsOK(thread), StepDueOK, Handler
  PROVE  FaultMgView!Handler
<1>0. /\ FaultMgView!FAULTMG_FROM_LIGHTCTL = FAULTMG_FROM_LIGHTCTL
      /\ FaultMgView!FAULTMG_FROM_COMMANDIN = FAULTMG_FROM_COMMANDIN
      /\ FaultMgView!GPIO_FROM_FAULTMG = GPIO_FROM_FAULTMG /\ GPIO_FROM_FAULTMG = 8
      /\ FaultMgView!SCHEDULER_FROM_FAULTMG = SCHEDULER_FROM_FAULTMG
      /\ SCHEDULER_FROM_FAULTMG = 13
  BY SameThreads, SystemNames
<1>1. CASE EventLoop
  <2>1. FaultMgView!Wait("faultmg")
    BY <1>1, WaitView DEF EventLoop
  <2>2. FaultMgView!EventLoop
    BY <1>1, <2>1 DEF EventLoop, FaultMgView!EventLoop
  <2> QED BY <2>2 DEF FaultMgView!Handler
<1>2. ASSUME NEW code \in LightctlCodes, NotifiedByLightctl(code)
      PROVE  FaultMgView!Handler
  <2>1. FaultMgView!Called("faultmg", FAULTMG_FROM_LIGHTCTL)
    BY <1>2, CalledView DEF NotifiedByLightctl
  <2>2. ThreadView' = FaultMgView!Enter("faultmg", FAULTMG_FROM_LIGHTCTL, "publish")
    BY <1>2, EnterView DEF NotifiedByLightctl
  <2>3. FaultMgView!HandleFaultEvent(code)
    BY <1>2, HandlesEventView DEF NotifiedByLightctl
  <2>4. FaultMgView!NotifiedByLightctl(code)
    BY <1>0, <1>2, <2>1, <2>2, <2>3
       DEF NotifiedByLightctl, FaultMgView!NotifiedByLightctl, ThreadView
  <2> QED BY <2>4 DEF FaultMgView!Handler
<1>3. CASE ReadType
  <2>1. FaultMgView!Called("faultmg", FAULTMG_FROM_COMMANDIN)
    BY <1>3, CalledView DEF ReadType
  <2>2. ThreadView' = FaultMgView!Enter("faultmg", FAULTMG_FROM_COMMANDIN, "read_len")
    BY <1>3, EnterView DEF ReadType
  <2>3. FaultMgView!ReadType
    BY <1>0, <1>3, <2>1, <2>2, SameData DEF ReadType, FaultMgView!ReadType, ThreadView
  <2> QED BY <2>3 DEF FaultMgView!Handler
<1>4. CASE ReadLen
  <2>1. FaultMgView!At("read_len")
    BY <1>4, AtView DEF ReadLen
  <2>2. ThreadView' = FaultMgView!Goto("faultmg", "read_payload")
    BY <1>4, GotoView DEF ReadLen
  <2>3. FaultMgView!ReadLen
    BY <1>4, <2>1, <2>2 DEF ReadLen, FaultMgView!ReadLen, ThreadView
  <2> QED BY <2>3 DEF FaultMgView!Handler
<1>5. CASE ReadPayload
  <2>1. FaultMgView!At("read_payload")
    BY <1>5, AtView DEF ReadPayload
  <2>2. ThreadView' = FaultMgView!Goto("faultmg", "switch")
    BY <1>5, GotoView DEF ReadPayload
  <2>3. FaultMgView!ReadPayload
    BY <1>5, <2>1, <2>2 DEF ReadPayload, FaultMgView!ReadPayload, ThreadView
  <2> QED BY <2>3 DEF FaultMgView!Handler
<1>6. CASE InjectFault
  <2>1. FaultMgView!Accepted("FAULT_INJECT")
    BY <1>6, AcceptedView DEF InjectFault
  <2>2. ThreadView' = FaultMgView!Goto("faultmg", "publish")
    BY <1>6, GotoView DEF InjectFault
  <2>3. FaultMgView!HandleFaultEvent(message.payload)
    BY <1>6, HandlesEventView DEF InjectFault
  <2>4. FaultMgView!InjectFault
    BY <1>6, <2>1, <2>2, <2>3 DEF InjectFault, FaultMgView!InjectFault, ThreadView
  <2> QED BY <2>4 DEF FaultMgView!Handler
<1>7. CASE ClearFault
  <2>1. FaultMgView!Accepted("FAULT_CLEAR")
    BY <1>7, AcceptedView DEF ClearFault
  <2>2. ThreadView' = FaultMgView!Goto("faultmg", "publish")
    BY <1>7, GotoView DEF ClearFault
  <2>3. FaultMgView!ClearFault
    BY <1>7, <2>1, <2>2, SameData DEF ClearFault, FaultMgView!ClearFault, ThreadView
  <2> QED BY <2>3 DEF FaultMgView!Handler
<1>8. CASE Reject
  <2>1. FaultMgView!At("switch")
    BY <1>8, AtView DEF Reject
  <2>2. ThreadView' = FaultMgView!Goto("faultmg", "ready")
    BY <1>8, GotoView DEF Reject
  <2>3. FaultMgView!Reject
    BY <1>8, <2>1, <2>2, SameData DEF Reject, FaultMgView!Reject, ThreadView
  <2> QED BY <2>3 DEF FaultMgView!Handler
<1>9. ASSUME Publish
      PROVE  FaultMgView!At("publish")
  BY <1>9, AtView DEF Publish, PublishField, StoreFaultMode, NotifyGpio, NotifyScheduler
<1>10. ASSUME thread' = thread PROVE ThreadView' = ThreadView
  BY <1>10, SameView
<1>11. CASE PublishField
  <2>1. FaultMgView!PublishField
    BY <1>9, <1>10, <1>11, SameData
       DEF Publish, PublishField, FaultMgView!PublishField, ThreadView
  <2> QED BY <2>1 DEF FaultMgView!Handler, FaultMgView!Publish
<1>12. CASE StoreFaultMode
  <2>1. FaultMgView!StoreFaultMode
    BY <1>9, <1>10, <1>12, SameData
       DEF Publish, StoreFaultMode, FaultMgView!StoreFaultMode, ThreadView
  <2> QED BY <2>1 DEF FaultMgView!Handler, FaultMgView!Publish
<1>13. ASSUME Publish
       PROVE  /\ Waits("scheduler") /\ Waits("gpio")
              /\ ReaderView("scheduler", 13) = Blocked /\ ReaderView("gpio", 8) = Blocked
              /\ "ready" \in SystemLabels /\ "ready" # "blocked"
  <2>1. Runs("faultmg")
    BY <1>13 DEF Publish, PublishField, StoreFaultMode, NotifyGpio, NotifyScheduler, At
  <2>2. Waits("scheduler") /\ Waits("gpio")
    BY <2>1, AboveWait, SystemNames
  <2> QED BY <2>2, ReaderWaits, SystemNames, SystemLabelNames
<1>14. CASE NotifyGpio
  <2>1. thread' = Signal(thread, "gpio", 8) /\ Waits("gpio") /\ ReaderView("gpio", 8) = Blocked
    BY <1>0, <1>13, <1>14 DEF NotifyGpio, Publish
  <2>2. "gpio" \in PDs /\ "gpio" # "commandin" /\ 8 \in Channels
    BY SystemNames
  <2>3. Told(thread', "gpio", 8) /\ Keeps(thread', Others({"gpio"}))
    BY <2>1, <2>2, SignalTold
  <2>4. /\ IsWoken(thread', "gpio", 8) /\ Keeps(thread', {"scheduler", "gpio"} \ {"gpio"})
        /\ thread'["faultmg"] = thread["faultmg"]
    BY <2>1, <2>3, SystemNames DEF Told, Keeps, Others, Waits
  <2>5. ThreadView' = Signal([ThreadView EXCEPT !["faultmg"] = thread["faultmg"]], "gpio", 8)
    BY <2>1, <2>4, SignalledView
  <2>6. ThreadView' = Signal(ThreadView, "gpio", 8)
    <3>1. [ThreadView EXCEPT !["faultmg"] = thread["faultmg"]] = ThreadView
      BY ViewThreads, SystemNames DEF ViewShape
    <3> QED BY <2>5, <3>1
  <2>7. ThreadView' = FaultMgView!Signal(ThreadView, "gpio", 8)
    BY <2>6, SameThreads
  <2>8. FaultMgView!NotifyGpio
    BY <1>0, <1>9, <1>14, <2>7, SameData
       DEF Publish, NotifyGpio, FaultMgView!NotifyGpio, ThreadView
  <2> QED BY <2>8 DEF FaultMgView!Handler, FaultMgView!Publish
<1>15. CASE NotifyScheduler
  <2> DEFINE r == [thread["faultmg"] EXCEPT !.pc = "ready"]
             s == Signal(Goto("faultmg", "ready"), "scheduler", 13)
  <2>1. thread' = s /\ Waits("scheduler") /\ ReaderView("scheduler", 13) = Blocked
    BY <1>0, <1>13, <1>15 DEF NotifyScheduler, Publish
  <2>2. /\ "scheduler" \in {"scheduler", "gpio", "faultmg"} /\ "scheduler" # "faultmg"
        /\ "faultmg" \in {"vehicle_state", "faultmg", "lightctl"} /\ 13 \in Channels
        /\ "ready" \in SystemLabels /\ "ready" # "blocked"
    BY SystemNames, SystemLabelNames
  <2>3. IsWoken(s, "scheduler", 13) /\ Keeps(s, Others({"faultmg", "scheduler"}))
    BY <2>1, <2>2, GoneAndWoken
  <2>4. s["faultmg"] = r
    BY SystemNames DEF Signal, Goto, ThreadsOK, Threads
  <2> HIDE DEF s, r
  <2>5. /\ IsWoken(thread', "scheduler", 13) /\ thread'["faultmg"] = r
        /\ Keeps(thread', {"scheduler", "gpio"} \ {"scheduler"})
    BY <2>1, <2>3, <2>4, SystemNames DEF Keeps, Others
  <2>6. ThreadView' = Signal([ThreadView EXCEPT !["faultmg"] = r], "scheduler", 13)
    BY <2>1, <2>5, SignalledView
  <2>7. FaultMgView!Goto("faultmg", "ready") = [ThreadView EXCEPT !["faultmg"] = r]
    <3>1. [ThreadView EXCEPT !["faultmg"].pc = "ready"] = [ThreadView EXCEPT !["faultmg"] = r]
      BY ViewThreads DEF ViewShape, r
    <3> QED BY <3>1, SameThreads
  <2>8. ThreadView' = FaultMgView!Signal(FaultMgView!Goto("faultmg", "ready"), "scheduler", 13)
    BY <2>6, <2>7, SameThreads
  <2>9. FaultMgView!NotifyScheduler
    BY <1>0, <1>9, <1>15, <2>8, SameData
       DEF Publish, NotifyScheduler, FaultMgView!NotifyScheduler, ThreadView
  <2> QED BY <2>9 DEF FaultMgView!Handler, FaultMgView!Publish
<1> QED BY <1>1, <1>2, <1>3, <1>4, <1>5, <1>6, <1>7, <1>8, <1>11, <1>12, <1>14, <1>15
        DEF Handler, Publish

LEMMA SchedulerHandles ==
  ASSUME ThreadsOK(thread)
  PROVE  /\ SchedulerCommand => Handles(thread', "scheduler", 4, "ready")
         /\ SchedulerFaultMode => Handles(thread', "scheduler", 13, "ready")
         /\ SchedulerVehicleState => Handles(thread', "scheduler", 15, "ready")
<1> DEFINE done(c) == Enter("scheduler", c, "ready")
<1>0. /\ "ready" \in SystemLabels /\ "ready" # "blocked" /\ "scheduler" \in PDs
      /\ "scheduler" # "commandin"
  BY SystemNames, SystemLabelNames
<1>1. ASSUME NEW c, thread' = Signal(done(c), "lightctl", 10)
      PROVE  Handles(thread', "scheduler", c, "ready")
  BY <1>1, EnteredAndTold, SystemNames
<1>2. ASSUME NEW c, thread' = done(c)
      PROVE  Handles(thread', "scheduler", c, "ready")
  BY <1>0, <1>2, Entered
<1> HIDE DEF done
<1>3. SchedulerCommand => thread' = done(4) \/ thread' = Signal(done(4), "lightctl", 10)
  BY SystemNames DEF SchedulerCommand, Recompute, done
<1>4. /\ SchedulerFaultMode => thread' = Signal(done(13), "lightctl", 10)
      /\ SchedulerVehicleState => thread' = Signal(done(15), "lightctl", 10)
  BY SystemNames DEF SchedulerFaultMode, SchedulerVehicleState, Recompute, done
<1> QED BY <1>1, <1>2, <1>3, <1>4

(* A step that the fault manager's model does not see.                     *)
LEMMA UnseenStep ==
  ASSUME UNCHANGED <<fault, input_buffer, seen>>, ThreadView' = ThreadView
  PROVE  UNCHANGED FaultMgView!vars
BY DEF FaultMgView!vars, ThreadView, fault

(* A reader takes up the call for a publication.                           *)
TakesUp(p, c) ==
  /\ Called(p, c) /\ Handles(thread', p, c, "ready")
  /\ Keeps(thread', {"scheduler", "gpio", "faultmg"} \ {p})

LEMMA TakesUpInView ==
  ASSUME ThreadsOK(thread), NEW p \in {"scheduler", "gpio"},
         TakesUp(p, IF p = "gpio" THEN 8 ELSE 13)
  PROVE  /\ FaultMgView!Runs(p) /\ ThreadView[p].pc = "ready"
         /\ ThreadView' = [ThreadView EXCEPT ![p] = Blocked]
<1> DEFINE c == IF p = "gpio" THEN 8 ELSE 13
<1>1. FaultMgView!Runs(p)
  BY ViewRuns, SystemNames DEF TakesUp, Called
<1>2. ThreadView[p].pc = "ready"
  <2>1. ReaderView(p, c) = Woken({c})
    BY DEF ReaderView, TakesUp, Called
  <2> QED BY <2>1, ViewThreads DEF ViewShape, Woken
<1>3. ReaderView(p, c)' = Blocked
  BY DEF ReaderView, TakesUp, Handles
<1>4. ThreadView' = [ThreadView EXCEPT ![p] = Blocked]
  BY <1>3, ReadView DEF TakesUp
<1> QED BY <1>1, <1>2, <1>4

LEMMA SchedulerView ==
  ASSUME Core, Scheduler
  PROVE  FaultMgView!Readers \/ UNCHANGED FaultMgView!vars
<1>1. ThreadsOK(thread) /\ "scheduler" \in PDs
  BY SystemNames DEF Core
<1>2. /\ thread'["gpio"] = thread["gpio"] /\ thread'["faultmg"] = thread["faultmg"]
      /\ UNCHANGED <<fault, input_buffer>>
  BY <1>1, SchedulerSteps DEF Keeps
<1>3. CASE SchedulerFaultMode
  <2>1. /\ Called("scheduler", 13)
        /\ seen' = [seen EXCEPT !["scheduler"] = shmem_fault["fault_mode"]]
    BY <1>3, SystemNames DEF SchedulerFaultMode
  <2>2. Handles(thread', "scheduler", 13, "ready")
    BY <1>1, <1>3, SchedulerHandles
  <2>3. Keeps(thread', {"scheduler", "gpio", "faultmg"} \ {"scheduler"})
    BY <1>2 DEF Keeps
  <2>4. TakesUp("scheduler", IF "scheduler" = "gpio" THEN 8 ELSE 13)
    BY <2>1, <2>2, <2>3 DEF TakesUp
  <2>5. /\ FaultMgView!Runs("scheduler") /\ ThreadView["scheduler"].pc = "ready"
        /\ ThreadView' = [ThreadView EXCEPT !["scheduler"] = Blocked]
    BY <1>1, <2>4, TakesUpInView
  <2>6. FaultMgView!SchedulerReads
    BY <1>2, <2>1, <2>5, SameThreads
       DEF FaultMgView!SchedulerReads, FaultMgView!ReaderRuns, ThreadView, fault
  <2> QED BY <2>6 DEF FaultMgView!Readers
<1>4. CASE SchedulerCommand \/ SchedulerVehicleState
  <2>1. UNCHANGED seen
    BY <1>4 DEF SchedulerCommand, SchedulerVehicleState
  <2>2. 13 \in thread'["scheduler"].todo <=> 13 \in thread["scheduler"].todo
    BY <1>1, <1>4, SchedulerHandles DEF Handles
  <2>3. ThreadView' = ThreadView
    BY <1>2, <2>2, SameView
  <2> QED BY <1>2, <2>1, <2>3, UnseenStep
<1>5. CASE Loop("scheduler")
  <2>1. IsWaiting(thread', "scheduler") /\ UNCHANGED seen
    BY <1>1, <1>5, LoopStep
  <2>2. 13 \in thread'["scheduler"].todo <=> 13 \in thread["scheduler"].todo
    BY <1>1, <2>1 DEF IsWaiting, ThreadsOK
  <2>3. ThreadView' = ThreadView
    BY <1>2, <2>2, SameView
  <2> QED BY <1>2, <2>1, <2>3, UnseenStep
<1> QED BY <1>3, <1>4, <1>5 DEF Scheduler

LEMMA GpioView ==
  ASSUME Core, Gpio
  PROVE  FaultMgView!Readers \/ UNCHANGED FaultMgView!vars
<1>1. ThreadsOK(thread) /\ "gpio" \in PDs /\ "gpio" # "commandin"
  BY SystemNames DEF Core
<1>2. /\ thread'["scheduler"] = thread["scheduler"] /\ thread'["faultmg"] = thread["faultmg"]
      /\ UNCHANGED <<fault, input_buffer>>
  BY <1>1, GpioSteps, SystemNames DEF Keeps, Others
<1>3. ASSUME NEW c, thread' = Enter("gpio", c, "ready")
      PROVE  Handles(thread', "gpio", c, "ready")
  BY <1>1, <1>3, Entered, SystemLabelNames
<1>4. CASE GpioFaultMode
  <2>1. /\ Called("gpio", 8) /\ thread' = Enter("gpio", 8, "ready")
        /\ seen' = [seen EXCEPT !["gpio"] = TransportDecode(fault_mode_shared)]
    BY <1>4, SystemNames DEF GpioFaultMode
  <2>2. Handles(thread', "gpio", 8, "ready")
    BY <1>3, <2>1
  <2>3. Keeps(thread', {"scheduler", "gpio", "faultmg"} \ {"gpio"})
    BY <1>2 DEF Keeps
  <2>4. TakesUp("gpio", IF "gpio" = "gpio" THEN 8 ELSE 13)
    BY <2>1, <2>2, <2>3 DEF TakesUp
  <2>5. /\ FaultMgView!Runs("gpio") /\ ThreadView["gpio"].pc = "ready"
        /\ ThreadView' = [ThreadView EXCEPT !["gpio"] = Blocked]
    BY <1>1, <2>4, TakesUpInView
  <2>6. FaultMgView!TransportDecode(fault_mode_shared) = TransportDecode(fault_mode_shared)
    BY SameData
  <2>7. FaultMgView!GpioReads
    BY <1>2, <2>1, <2>5, <2>6, SameThreads
       DEF FaultMgView!GpioReads, FaultMgView!ReaderRuns, ThreadView, fault
  <2> QED BY <2>7 DEF FaultMgView!Readers
<1>5. ASSUME NEW c \in 20 .. 31, GpioAction(c)
      PROVE  UNCHANGED FaultMgView!vars
  <2>1. UNCHANGED seen /\ Handles(thread', "gpio", c, "ready")
    BY <1>3, <1>5 DEF GpioAction
  <2>2. 8 \in thread'["gpio"].todo <=> 8 \in thread["gpio"].todo
    BY <2>1 DEF Handles
  <2>3. ThreadView' = ThreadView
    BY <1>2, <2>2, SameView
  <2> QED BY <1>2, <2>1, <2>3, UnseenStep
<1>6. CASE Loop("gpio")
  <2>1. IsWaiting(thread', "gpio") /\ UNCHANGED seen
    BY <1>1, <1>6, LoopStep
  <2>2. 8 \in thread'["gpio"].todo <=> 8 \in thread["gpio"].todo
    BY <1>1, <2>1 DEF IsWaiting, ThreadsOK
  <2>3. ThreadView' = ThreadView
    BY <1>2, <2>2, SameView
  <2> QED BY <1>2, <2>1, <2>3, UnseenStep
<1> QED BY <1>4, <1>5, <1>6 DEF Gpio

LEMMA VehicleView ==
  ASSUME Core, Vehicle
  PROVE  UNCHANGED FaultMgView!vars
<1>1. ThreadsOK(thread) /\ "scheduler" \in PDs
  BY SystemNames DEF Core
<1>2. /\ Keeps(thread', {"gpio", "faultmg"}) /\ VehicleKeeps /\ Waits("scheduler")
      /\ thread'["scheduler"] = thread["scheduler"] \/ IsWoken(thread', "scheduler", 15)
  BY <1>1, VehicleSteps DEF Keeps
<1>3. 13 \in thread'["scheduler"].todo <=> 13 \in thread["scheduler"].todo
  BY <1>1, <1>2, WaitsForNothing DEF IsWoken, Owes
<1>4. ThreadView' = ThreadView
  BY <1>2, <1>3, SameView DEF Keeps
<1> QED BY <1>2, <1>4, UnseenStep DEF VehicleKeeps

LEMMA LightctlView ==
  ASSUME Core, Lightctl
  PROVE  FaultMgView!LightctlReports \/ UNCHANGED FaultMgView!vars
<1>1. ThreadsOK(thread) /\ LightctlOK /\ "gpio" \in PDs /\ "faultmg" \in PDs /\ "lightctl" \in PDs
  BY SystemNames DEF Core
<1>2. /\ UNCHANGED <<fault, input_buffer, seen>> /\ Waits("gpio")
      /\ thread'["scheduler"] = thread["scheduler"]
  BY LightctlWaits, LightctlOthers DEF LightctlKeeps, Keeps
<1>3. 8 \in thread'["gpio"].todo <=> 8 \in thread["gpio"].todo
  <2>1. CASE TriggerGpio
    <3>1. plan # <<>>
      BY <1>1, <2>1 DEF LightctlOK, InPlan, TriggerGpio, LightctlAt
    <3>2. Head(plan) \in Actions
      BY <1>1, <3>1, PlanDue
    <3>3. ActionChannel(Head(plan)) \in 20 .. 31
      BY <3>2, ActionChannels
    <3>4. IsWoken(thread', "gpio", ActionChannel(Head(plan)))
      BY <2>1, LightctlOthers
    <3> DEFINE c == ActionChannel(Head(plan))
    <3> HIDE DEF c
    <3>5. c # 8 /\ IsWoken(thread', "gpio", c)
      BY <3>3, <3>4 DEF c
    <3> QED BY <1>1, <1>2, <3>5, WaitsForNothing DEF IsWoken, Owes
  <2>2. CASE ~TriggerGpio
    BY <2>2, LightctlOthers
  <2> QED BY <2>1, <2>2
<1>4. CASE ReportFault
  <2>1. /\ Runs("lightctl") /\ total_error_count < MaxErrors
        /\ thread' = Signal(Goto("lightctl", NextAction), "faultmg", 5)
    BY <1>4, SystemNames DEF ReportFault, LightctlAt
  <2>2. thread'["faultmg"] = Signalled(thread["faultmg"], 5)
    BY <1>1, <2>1, SystemNames DEF Signal, Goto, ThreadsOK, Threads
  <2>3. ThreadView' = FaultMgView!Signal(ThreadView, "faultmg", 5)
    BY <1>1, <1>2, <1>3, <2>2, ToldView
  <2>4. FaultMgView!Runs("lightctl")
    BY <1>1, <2>1, ViewRuns
  <2>5. FaultMgView!LightctlReports
    BY <1>2, <2>1, <2>3, <2>4, SameThreads DEF FaultMgView!LightctlReports, ThreadView, fault
  <2> QED BY <2>5
<1>5. CASE ~ReportFault
  <2>1. thread'["faultmg"] = thread["faultmg"]
    BY <1>5, LightctlOthers
  <2>2. ThreadView' = ThreadView
    BY <1>2, <1>3, <2>1, SameView
  <2> QED BY <1>2, <2>2, UnseenStep
<1> QED BY <1>4, <1>5

LEMMA DispatchView ==
  ASSUME Core, NEW i \in Inputs, Dispatch(i.message, i.value)
  PROVE  FaultMgView!CommandinSends(i.message)
<1> DEFINE m == i.message
<1>1. ThreadsOK(thread) /\ "scheduler" \in PDs /\ "faultmg" \in PDs /\ "commandin" \in PDs
  BY SystemNames DEF Core
<1>2. /\ Runs("commandin")
      /\ total_error_count < MaxErrors \/ m.type = "FAULT_CLEAR"
      /\ input_buffer' = m /\ thread' = Route(thread, m)
      /\ UNCHANGED <<fault, seen>>
  BY DEF Dispatch
<1>3. /\ Waits("scheduler") /\ thread'["gpio"] = thread["gpio"]
      /\ thread'["scheduler"] = thread["scheduler"] \/ IsWoken(thread', "scheduler", 4)
  BY <1>1, DispatchSteps DEF Keeps
<1>4. 13 \in thread'["scheduler"].todo <=> 13 \in thread["scheduler"].todo
  BY <1>1, <1>3, WaitsForNothing DEF IsWoken, Owes
<1>5. FaultMgView!Runs("commandin")
  BY <1>1, <1>2, ViewRuns
<1>6. CASE RoutedHere(m)
  <2>1. thread' = Signal(thread, "faultmg", 12)
    BY <1>2, <1>6, SystemNames DEF Route, RoutedHere
  <2>2. thread'["faultmg"] = Signalled(thread["faultmg"], 12)
    BY <1>1, <2>1 DEF Signal, ThreadsOK, Threads
  <2>3. ThreadView' = FaultMgView!Signal(ThreadView, "faultmg", 12)
    BY <1>1, <1>3, <1>4, <2>2, ToldView
  <2> QED BY <1>2, <1>5, <1>6, <2>3, SameThreads, SameData
          DEF FaultMgView!CommandinSends, ThreadView, fault
<1>7. CASE ~RoutedHere(m)
  <2>1. thread'["faultmg"] = thread["faultmg"]
    BY <1>1, <1>7, DispatchSteps
  <2>2. ThreadView' = ThreadView
    BY <1>3, <1>4, <2>1, SameView
  <2> QED BY <1>2, <1>5, <1>7, <2>2, SameData
          DEF FaultMgView!CommandinSends, ThreadView, fault
<1> QED BY <1>6, <1>7

LEMMA ViewInit == SystemInit => FaultMgView!Init
<1> SUFFICES ASSUME SystemInit PROVE FaultMgView!Init
  OBVIOUS
<1>1. /\ fault_state = FaultStateReset /\ total_error_count = 0 /\ message = EmptyMessage
      /\ publish_at = 1 /\ shmem_fault = View /\ fault_mode_shared = NORMAL
      /\ input_buffer = EmptyMessage /\ seen = [scheduler |-> NORMAL, gpio |-> NORMAL]
  BY DEF SystemInit
<1>2. thread["faultmg"] = [Blocked EXCEPT !.pc = "publish"]
  BY SystemNames DEF SystemInit
<1>3. ThreadsOK(thread) /\ Waits("scheduler") /\ Waits("gpio")
  BY InitialThreads
<1>4. ThreadView["scheduler"] = Blocked /\ ThreadView["gpio"] = Blocked
  BY <1>3, ReaderWaits, ViewThreads, SystemNames DEF ViewShape
<1>5. ThreadView = [p \in PDs |-> IF p = "faultmg" THEN [Blocked EXCEPT !.pc = "publish"]
                                                   ELSE Blocked]
  <2> DEFINE first == [Blocked EXCEPT !.pc = "publish"]
  <2>1. thread["faultmg"] = first
    BY <1>2
  <2> HIDE DEF first
  <2>2. \A p \in PDs : ThreadView[p] = IF p = "faultmg" THEN first ELSE Blocked
    BY <1>4, <2>1, ViewThreads, SystemNames DEF ViewShape
  <2>3. ThreadView = [p \in PDs |-> IF p = "faultmg" THEN first ELSE Blocked]
    BY <2>2, ViewThreads DEF ViewShape
  <2> QED BY <2>3 DEF first
<1>6. FaultMgView!PDs = PDs
  BY DEF FaultMgView!PDs, PDs
<1> QED BY <1>1, <1>5, <1>6, SameData, SameThreads DEF FaultMgView!Init, ThreadView

LEMMA ViewStep == Core /\ [SystemNext]_svars => [FaultMgView!Next]_(FaultMgView!vars)
<1> SUFFICES ASSUME Core, [SystemNext]_svars
             PROVE  FaultMgView!Next \/ UNCHANGED FaultMgView!vars
  OBVIOUS
<1>1. ASSUME NEW i \in Inputs, Dispatch(i.message, i.value) PROVE FaultMgView!Next
  BY <1>1, DispatchView, InputsAssumption DEF FaultMgView!Next
<1>2. CASE Scheduler
  BY <1>2, SchedulerView DEF FaultMgView!Next
<1>3. CASE Gpio
  BY <1>3, GpioView DEF FaultMgView!Next
<1>4. CASE Vehicle
  BY <1>4, VehicleView
<1>5. CASE Faultmg
  BY <1>5, HandlerView DEF Core, FaultOK, Faultmg, FaultMgView!Next
<1>6. CASE Lightctl
  BY <1>6, LightctlView DEF FaultMgView!Next
<1>7. CASE UNCHANGED svars
  <2>1. ThreadView' = ThreadView
    BY <1>7, SameView DEF svars, vars
  <2> QED BY <1>7, <2>1, UnseenStep DEF svars, vars, fault
<1> QED BY <1>1, <1>2, <1>3, <1>4, <1>5, <1>6, <1>7 DEF SystemNext

(* The six domains together do only what the model of the fault manager    *)
(* allows: what is proved of it, for an environment that may do more,      *)
(* holds of the system.                                                    *)
THEOREM SystemImplementsFaultMg == SystemSpec => ImplementsFaultMg
BY ViewInit, ViewStep, CoreInvariant, PTL DEF SystemSpec, ImplementsFaultMg
===============================================================================
