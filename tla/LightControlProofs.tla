--------------------------- MODULE LightControlProofs ---------------------------
(***************************************************************************)
(* What holds of the decision libraries for every request, vehicle state,  *)
(* fault mode and execution state.                                         *)
(***************************************************************************)
EXTENDS LightControl, SequenceTheorems, TLAPS

(* The lamps a plan lights come from the target.                           *)
LEMMA LitIsTargeted ==
  ASSUME NEW target \in SUBSET Lamps
  PROVE  Lit(Wanted(target)) \subseteq target
<1>1. \A first, second \in Lamps : FirstOf(target, first, second) \in target \cup {"off"}
  BY DEF FirstOf
<1>2. "off" \notin Lamps
  BY DEF Lamps
<1>3. {"brake", "turn_left", "turn_right", "low_beam", "high_beam", "position"} \subseteq Lamps
  BY DEF Lamps
<1>4. Lit(Wanted(target)) =
        {FirstOf(target, "turn_left", "turn_right"), FirstOf(target, "low_beam", "high_beam"),
         FirstOf(target, "brake", "brake"), FirstOf(target, "position", "position")} \cap Lamps
  BY DEF Lit, Wanted
<1>. QED
  BY <1>1, <1>2, <1>3, <1>4

(* A turn lamp is asked for, without an emergency, only below 121 km/h and *)
(* with the brake off; a high beam only from 10 km/h.                      *)
LEMMA RequestedLamps ==
  ASSUME NEW request \in SUBSET Lamps, NEW v \in VehicleState, ~HazardActive(v)
  PROVE  /\ RequestedTarget(request, v) \in SUBSET Lamps
         /\ \A lamp \in Turns \cap RequestedTarget(request, v) :
              v.speed_kph <= 120 /\ "brake" \notin RequestedTarget(request, v)
         /\ "high_beam" \in RequestedTarget(request, v) => v.speed_kph >= 10
<1>1. v.speed_kph \in Int
  BY DEF VehicleState
<1>2. /\ RequestedTurn(request, v) \subseteq Turns
      /\ RequestedTurn(request, v) # {} => ~BrakeActive(request, v) /\ v.speed_kph <= 120
  BY DEF RequestedTurn
<1>3. /\ RequestedBeam(request, v) \subseteq Beams
      /\ "high_beam" \in RequestedBeam(request, v) => v.speed_kph >= 10
  BY <1>1 DEF RequestedBeam, HighBeamAllowed, HighBeamMinSpeed, Beams
<1>4. /\ Turns \cap ({"brake", "position"} \cup Beams) = {}
      /\ "brake" \notin Turns \cup Beams
      /\ "high_beam" \notin Turns \cup {"brake", "position"}
      /\ Turns \cup Beams \cup {"brake", "position"} \subseteq Lamps
  BY DEF Turns, Beams, Lamps
<1>5. /\ RequestedTarget(request, v) \subseteq
           {"brake", "position"} \cup RequestedTurn(request, v) \cup RequestedBeam(request, v)
      /\ "brake" \in RequestedTarget(request, v) <=>
           BrakeActive(request, v)
              \/ (v.ignition_on # 0 /\ "brake" \in RequestedTurn(request, v)
                                                      \cup RequestedBeam(request, v))
  BY DEF RequestedTarget
<1>. QED
  BY <1>2, <1>3, <1>4, <1>5

(* What each mode's policy takes away and leaves.                          *)
LEMMA PolicyClamps ==
  ASSUME NEW target \in SUBSET Lamps, NEW mode \in FaultModes
  PROVE  /\ OutputPolicy(target, mode) \in SUBSET Lamps
         /\ "brake" \in OutputPolicy(target, mode) <=> "brake" \in target
         /\ OutputPolicy(target, mode) \cap Turns \subseteq target
         /\ "high_beam" \in OutputPolicy(target, mode) =>
              "high_beam" \in target /\ mode \notin {DEGRADED, SAFE_MODE}
         /\ mode = SAFE_MODE => OutputPolicy(target, mode) \cap Turns = {}
<1>1. SAFE_MODE # DEGRADED
  BY DEF SAFE_MODE, DEGRADED
<1>2. CASE mode = DEGRADED
  BY <1>1, <1>2 DEF OutputPolicy, MinimumIllumination, Turns, Beams, Lamps
<1>3. CASE mode = SAFE_MODE
  BY <1>1, <1>3 DEF OutputPolicy, MinimumIllumination, Turns, Beams, Lamps
<1>4. CASE mode # DEGRADED /\ mode # SAFE_MODE
  BY <1>4 DEF OutputPolicy, Turns, Lamps
<1>. QED
  BY <1>2, <1>3, <1>4

(* The runtime guard accepts every lamp the policy lets through, in every  *)
(* fault mode, as long as no emergency is on and the plan has switched the *)
(* brake first, which it does (light_control_logic.c:28-57,                *)
(* light_runtime_guard.c:15-56, light_execution_plan.c:27-48): a fault the *)
(* guard reports is never the operator's doing, only that of a stale copy. *)
THEOREM GuardAcceptsPolicy ==
  ASSUME NEW request \in SUBSET Lamps, NEW v \in VehicleState, ~HazardActive(v),
         NEW mode \in FaultModes, NEW state \in ExecutionState,
         NEW lamp \in Lit(Wanted(ComputeTarget(request, v, mode))),
         lamp \in Turns =>
           state.brake = Wanted(ComputeTarget(request, v, mode)).brake
  PROVE  GuardError(On(lamp), state, mode, v.speed_kph) = 0
<1>. DEFINE requested == RequestedTarget(request, v)
            output    == ComputeTarget(request, v, mode)
<1>1. requested \in SUBSET Lamps /\ output = OutputPolicy(requested, mode)
  BY RequestedLamps DEF ComputeTarget
<1>2. output \in SUBSET Lamps
  BY <1>1, PolicyClamps
<1>3. lamp \in output
  BY <1>2, LitIsTargeted
<1>4. lamp \in Turns =>
        v.speed_kph <= 120 /\ mode # SAFE_MODE /\ state.brake # "brake"
  <2>. SUFFICES ASSUME lamp \in Turns
                PROVE  v.speed_kph <= 120 /\ mode # SAFE_MODE /\ state.brake # "brake"
    OBVIOUS
  <2>1. lamp \in requested /\ mode # SAFE_MODE
    BY <1>1, <1>3, PolicyClamps
  <2>2. v.speed_kph <= 120 /\ "brake" \notin output
    BY <2>1, <1>1, RequestedLamps, PolicyClamps
  <2>3. Wanted(output).brake = "off"
    BY <2>2 DEF Wanted, FirstOf
  <2>. QED
    BY <2>1, <2>2, <2>3
<1>5. lamp = "high_beam" =>
        v.speed_kph >= 10 /\ mode # SAFE_MODE /\ mode # DEGRADED
  BY <1>1, <1>3, RequestedLamps, PolicyClamps
<1>6. v.speed_kph \in Int
  BY DEF VehicleState
<1>7. On(lamp).on /\ On(lamp).lamp = lamp /\ On(lamp) # Off("low_beam")
  BY DEF On, Off
<1>8. "high_beam" \notin Turns
  BY DEF Turns
<1>. QED
  BY <1>4, <1>5, <1>6, <1>7, <1>8 DEF GuardError

(* The guard never stands in the way of switching a lamp off: a plan       *)
(* switches off only the lamp that is lit (light_execution_plan.c:44-87,   *)
(* light_runtime_guard.c:45).                                              *)
THEOREM GuardAcceptsOff ==
  ASSUME NEW state \in ExecutionState, NEW mode \in FaultModes, NEW speed \in Word,
         NEW lamp \in Lit(state)
  PROVE  GuardError(Off(lamp), state, mode, speed) = 0
<1>1. ~Off(lamp).on /\ Off(lamp).lamp = lamp
  BY DEF Off
<1>2. lamp = "low_beam" => state.beam # "high_beam"
  BY DEF Lit, ExecutionState, Turns, Beams
<1>3. Off(lamp) = Off("low_beam") => lamp = "low_beam"
  BY DEF Off
<1>. QED
  BY <1>1, <1>2, <1>3 DEF GuardError
-------------------------------------------------------------------------------
(* The plan: sequences first. *)

(* An empty sequence adds nothing, and the head and tail of any other are  *)
(* those of what begins with it.                                           *)
LEMMA HeadOfConcat ==
  ASSUME NEW S, NEW s \in Seq(S), NEW t \in Seq(S)
  PROVE  /\ s \o t \in Seq(S)
         /\ s = <<>> => s \o t = t
         /\ s # <<>> => /\ s \o t # <<>>
                        /\ Head(s \o t) = Head(s)
                        /\ Tail(s \o t) = Tail(s) \o t
<1>1. s \o t \in Seq(S) /\ (s = <<>> => s \o t = t)
  BY ConcatProperties, ConcatEmptySeq
<1>2. ASSUME s # <<>>
      PROVE  s \o t # <<>> /\ Head(s \o t) = Head(s) /\ Tail(s \o t) = Tail(s) \o t
  <2>1. Len(s) \in Nat /\ Len(s) > 0 /\ Len(t) \in Nat
    BY <1>2, LenProperties, EmptySeq
  <2>2. /\ s \o t \in Seq(S) /\ Len(s \o t) = Len(s) + Len(t)
        /\ \A i \in 1 .. Len(s) + Len(t) :
             (s \o t)[i] = IF i <= Len(s) THEN s[i] ELSE t[i - Len(s)]
    BY ConcatProperties
  <2>3. s \o t # <<>> /\ Head(s \o t) = Head(s)
    BY <2>1, <2>2
  <2>4. /\ Tail(s) \in Seq(S) /\ Len(Tail(s)) = Len(s) - 1
        /\ \A i \in 1 .. Len(Tail(s)) : Tail(s)[i] = s[i + 1]
    BY <1>2, HeadTailProperties
  <2>5. /\ Tail(s \o t) \in Seq(S) /\ Len(Tail(s \o t)) = Len(s) + Len(t) - 1
        /\ \A i \in 1 .. Len(Tail(s \o t)) : Tail(s \o t)[i] = (s \o t)[i + 1]
    BY <2>1, <2>2, <2>3, HeadTailProperties
  <2>6. /\ Tail(s) \o t \in Seq(S) /\ Len(Tail(s) \o t) = Len(s) - 1 + Len(t)
        /\ \A i \in 1 .. Len(s) - 1 + Len(t) :
             (Tail(s) \o t)[i] = IF i <= Len(s) - 1 THEN Tail(s)[i] ELSE t[i - (Len(s) - 1)]
    BY <2>1, <2>4, ConcatProperties
  <2>7. \A i \in 1 .. Len(s) + Len(t) - 1 : Tail(s \o t)[i] = (Tail(s) \o t)[i]
    BY <2>1, <2>2, <2>4, <2>5, <2>6
  <2>8. Tail(s \o t) = Tail(s) \o t
    BY <2>1, <2>5, <2>6, <2>7, SeqEqual
  <2> QED BY <2>3, <2>8
<1> QED BY <1>1, <1>2

LEMMA TailOfConcat ==
  ASSUME NEW S, NEW s \in Seq(S), NEW t \in Seq(S), s # <<>>
  PROVE  Tail(s \o t) = Tail(s) \o t
BY HeadOfConcat

(* The plan from one execution state to another.                           *)
PlanTo(state, wanted) ==
  Switch(state.brake, wanted.brake)
  \o Switch(state.turn, wanted.turn)
  \o Switch(state.beam, wanted.beam)
  \o Switch(state.position, wanted.position)

LEMMA PlanIsPlanTo == \A state, target : PlanActions(state, target) = PlanTo(state, Wanted(target))
BY DEF PlanActions, PlanTo

Groups == {"brake", "turn", "beam", "position"}

(* The lamps of a group, and the group of a lamp.                          *)
LampsOf(group) ==
  CASE group = "turn" -> Turns [] group = "beam" -> Beams [] OTHER -> {group}

LEMMA GroupFacts ==
  /\ "off" \notin Lamps
  /\ \A group \in Groups : /\ LampsOf(group) \subseteq Lamps
                           /\ \A lamp \in LampsOf(group) : Group(lamp) = group
  /\ \A state \in ExecutionState, group \in Groups :
       state[group] \in LampsOf(group) \cup {"off"}
BY DEF Groups, LampsOf, Group, Turns, Beams, Lamps, ExecutionState

(* One group switched.                                                     *)
With(state, group, lamp) == [state EXCEPT ![group] = lamp]

LEMMA SetGroup ==
  ASSUME NEW state \in ExecutionState, NEW group \in Groups,
         NEW lamp \in LampsOf(group) \cup {"off"}
  PROVE  /\ With(state, group, lamp) \in ExecutionState
         /\ With(state, group, lamp)[group] = lamp
         /\ \A other \in Groups \ {group} : With(state, group, lamp)[other] = state[other]
BY DEF With, Groups, LampsOf, Turns, Beams, ExecutionState

(* A plan of one action.                                                   *)
OneAction(action) ==
  <<action>> \in Seq(Actions) /\ <<action>> # <<>> /\ Head(<<action>>) = action
    /\ Tail(<<action>>) = <<>>

LEMMA OneActionFacts == \A action \in Actions : OneAction(action)
<1> SUFFICES ASSUME NEW action \in Actions PROVE OneAction(action)
  OBVIOUS
<1> DEFINE one == <<action>>
<1>1. one \in Seq(Actions) /\ Len(one) = 1 /\ one[1] = action
  OBVIOUS
<1> HIDE DEF one
<1>2. one # <<>> /\ Head(one) = action
  <2>1. one # <<>>
    BY <1>1, EmptySeq
  <2>2. Head(one) = one[1]
    BY <1>1, <2>1
  <2> QED BY <1>1, <2>1, <2>2
<1>3. Len(Tail(one)) = 0 /\ Tail(one) \in Seq(Actions)
  BY <1>1, <1>2, HeadTailProperties
<1>4. Tail(one) = <<>>
  BY <1>3, EmptySeq
<1> QED BY <1>1, <1>2, <1>4 DEF OneAction, one

(* One action at most puts the old lamp out, and one lights the new one.   *)
LEMMA SwitchSteps ==
  ASSUME NEW current \in Lamps \cup {"off"}, NEW wanted \in Lamps \cup {"off"}
  PROVE  /\ Switch(current, wanted) \in Seq(Actions)
         /\ current = wanted => Switch(current, wanted) = <<>>
         /\ current # wanted => Switch(current, wanted) # <<>>
         /\ current # wanted /\ current # "off" =>
              /\ Head(Switch(current, wanted)) = Off(current)
              /\ Tail(Switch(current, wanted)) = Switch("off", wanted)
         /\ current # wanted /\ current = "off" =>
              /\ Head(Switch(current, wanted)) = On(wanted)
              /\ Tail(Switch(current, wanted)) = <<>>
<1>0. /\ current # "off" => Off(current) \in Actions
      /\ wanted # "off" => On(wanted) \in Actions
  BY DEF Off, On, Actions
<1>1. CASE current = wanted
  BY <1>1 DEF Switch
<1>2. ASSUME current # wanted
      PROVE  Switch(current, wanted) =
               (IF current = "off" THEN <<>> ELSE <<Off(current)>>)
               \o (IF wanted = "off" THEN <<>> ELSE <<On(wanted)>>)
  BY <1>2 DEF Switch
<1>3. /\ <<>> \in Seq(Actions)
      /\ current # "off" => OneAction(Off(current))
      /\ wanted # "off" => OneAction(On(wanted))
  BY <1>0, OneActionFacts
<1>4. CASE current # wanted /\ current = "off"
  <2>1. Switch(current, wanted) = <<On(wanted)>>
    BY <1>2, <1>3, <1>4, HeadOfConcat DEF OneAction
  <2> QED BY <1>3, <1>4, <2>1 DEF OneAction
<1>5. CASE current # wanted /\ current # "off"
  <2> DEFINE ons == IF wanted = "off" THEN <<>> ELSE <<On(wanted)>>
  <2>1. ons \in Seq(Actions) /\ <<>> \o ons = ons
    BY <1>3, HeadOfConcat DEF OneAction
  <2>2. Switch("off", wanted) = ons
    <3>1. CASE wanted = "off"
      BY <3>1 DEF Switch
    <3>2. CASE wanted # "off"
      BY <2>1, <3>2 DEF Switch
    <3> QED BY <3>1, <3>2
  <2>3. Switch(current, wanted) = <<Off(current)>> \o ons
    BY <1>2, <1>5
  <2> HIDE DEF ons
  <2>4. /\ Switch(current, wanted) \in Seq(Actions)
        /\ Switch(current, wanted) # <<>>
        /\ Head(Switch(current, wanted)) = Off(current)
        /\ Tail(Switch(current, wanted)) = ons
    BY <1>3, <1>5, <2>1, <2>3, HeadOfConcat DEF OneAction
  <2> QED BY <1>5, <2>2, <2>4
<1> QED BY <1>1, <1>4, <1>5


(* Four sequences in a row: the first that is not empty is shortened.      *)
Chain(a, b, c, d) == a \o b \o c \o d

LEMMA ChainType ==
  ASSUME NEW S, NEW a \in Seq(S), NEW b \in Seq(S), NEW c \in Seq(S), NEW d \in Seq(S)
  PROVE  Chain(a, b, c, d) \in Seq(S)
<1>1. a \o b \in Seq(S)
  BY HeadOfConcat
<1>2. (a \o b) \o c \in Seq(S)
  BY <1>1, HeadOfConcat
<1> QED BY <1>2, HeadOfConcat DEF Chain

LEMMA ChainFourth ==
  ASSUME NEW S, NEW d \in Seq(S)
  PROVE  Chain(<<>>, <<>>, <<>>, d) = d
<1>1. <<>> \o <<>> = <<>>
  BY EmptySeq, ConcatEmptySeq
<1>2. <<>> \o d = d
  BY ConcatEmptySeq
<1> QED BY <1>1, <1>2 DEF Chain

LEMMA ChainThird ==
  ASSUME NEW S, NEW c \in Seq(S), NEW d \in Seq(S), c # <<>>
  PROVE  LET chain == Chain(<<>>, <<>>, c, d)
         IN  chain # <<>> /\ Head(chain) = Head(c)
               /\ Tail(chain) = Chain(<<>>, <<>>, Tail(c), d)
<1>1. Tail(c) \in Seq(S)
  BY HeadTailProperties
<1>2. <<>> \o <<>> = <<>>
  BY EmptySeq, ConcatEmptySeq
<1>3. <<>> \o c = c
  BY ConcatEmptySeq
<1>4. <<>> \o Tail(c) = Tail(c)
  BY <1>1, ConcatEmptySeq
<1>5. c \o d # <<>> /\ Head(c \o d) = Head(c)
  BY HeadOfConcat
<1>6. Tail(c \o d) = Tail(c) \o d
  BY TailOfConcat
<1> QED BY <1>2, <1>3, <1>4, <1>5, <1>6 DEF Chain

LEMMA ChainSecond ==
  ASSUME NEW S, NEW b \in Seq(S), NEW c \in Seq(S), NEW d \in Seq(S), b # <<>>
  PROVE  LET chain == Chain(<<>>, b, c, d)
         IN  chain # <<>> /\ Head(chain) = Head(b) /\ Tail(chain) = Chain(<<>>, Tail(b), c, d)
<1>1. Tail(b) \in Seq(S)
  BY HeadTailProperties
<1>2. <<>> \o b = b
  BY ConcatEmptySeq
<1>3. <<>> \o Tail(b) = Tail(b)
  BY <1>1, ConcatEmptySeq
<1> DEFINE bc == b \o c
<1>4. bc \in Seq(S) /\ bc # <<>> /\ Head(bc) = Head(b)
  BY HeadOfConcat
<1>5. Tail(bc) = Tail(b) \o c
  BY TailOfConcat
<1> HIDE DEF bc
<1>6. bc \o d # <<>> /\ Head(bc \o d) = Head(bc)
  BY <1>4, HeadOfConcat
<1>7. Tail(bc \o d) = Tail(bc) \o d
  BY <1>4, TailOfConcat
<1> QED BY <1>2, <1>3, <1>4, <1>5, <1>6, <1>7 DEF Chain, bc

LEMMA ChainFirst ==
  ASSUME NEW S, NEW a \in Seq(S), NEW b \in Seq(S), NEW c \in Seq(S), NEW d \in Seq(S),
         a # <<>>
  PROVE  LET chain == Chain(a, b, c, d)
         IN  chain # <<>> /\ Head(chain) = Head(a) /\ Tail(chain) = Chain(Tail(a), b, c, d)
<1> DEFINE ab == a \o b
           abc == ab \o c
<1>1. ab \in Seq(S) /\ ab # <<>> /\ Head(ab) = Head(a)
  BY HeadOfConcat
<1>2. Tail(ab) = Tail(a) \o b
  BY TailOfConcat
<1> HIDE DEF ab
<1>3. abc \in Seq(S) /\ abc # <<>> /\ Head(abc) = Head(ab)
  BY <1>1, HeadOfConcat
<1>4. Tail(abc) = Tail(ab) \o c
  BY <1>1, TailOfConcat
<1> HIDE DEF abc
<1>5. abc \o d # <<>> /\ Head(abc \o d) = Head(abc)
  BY <1>3, HeadOfConcat
<1>6. Tail(abc \o d) = Tail(abc) \o d
  BY <1>3, TailOfConcat
<1> QED BY <1>1, <1>2, <1>3, <1>4, <1>5, <1>6 DEF Chain, ab, abc

(* The part of a plan for one group of lamps.                              *)
Part(group, state, wanted) == Switch(state[group], wanted[group])

PartOK(group, state, wanted) ==
  /\ Part(group, state, wanted) \in Seq(Actions)
  /\ state[group] = wanted[group] => Part(group, state, wanted) = <<>>
  /\ state[group] # wanted[group] => Part(group, state, wanted) # <<>>
  /\ state[group] # wanted[group] /\ state[group] # "off" =>
       /\ Head(Part(group, state, wanted)) = Off(state[group])
       /\ Tail(Part(group, state, wanted)) = Switch("off", wanted[group])
  /\ state[group] # wanted[group] /\ state[group] = "off" =>
       /\ Head(Part(group, state, wanted)) = On(wanted[group])
       /\ Tail(Part(group, state, wanted)) = <<>>

(* The next action of a plan changes one group, after the brake, and what  *)
(* is left is the plan from the state it leads to.  If it is not done, the *)
(* rest is a plan that leaves the group dark.                              *)
PlanStep(group, state, wanted) ==
  /\ state[group] # wanted[group]
  /\ group # "brake" => state["brake"] = wanted["brake"]
  /\ state[group] # "off" =>
       /\ Head(PlanTo(state, wanted)) = Off(state[group])
       /\ Tail(PlanTo(state, wanted)) = PlanTo(With(state, group, "off"), wanted)
  /\ state[group] = "off" =>
       /\ Head(PlanTo(state, wanted)) = On(wanted[group])
       /\ Tail(PlanTo(state, wanted)) = PlanTo(With(state, group, wanted[group]), wanted)
       /\ Tail(PlanTo(state, wanted)) = PlanTo(state, With(wanted, group, "off"))

LEMMA PlanParts ==
  ASSUME NEW state \in ExecutionState, NEW wanted \in ExecutionState
  PROVE  /\ \A group \in Groups : PartOK(group, state, wanted)
         /\ PlanTo(state, wanted) \in Seq(Actions)
         /\ (\A group \in Groups : state[group] = wanted[group]) => PlanTo(state, wanted) = <<>>
<1>1. \A group \in Groups :
        state[group] \in Lamps \cup {"off"} /\ wanted[group] \in Lamps \cup {"off"}
  BY GroupFacts
<1>2. \A group \in Groups : PartOK(group, state, wanted)
  BY <1>1, SwitchSteps DEF Part, PartOK
<1>3. \A group \in Groups : /\ Part(group, state, wanted) \in Seq(Actions)
                            /\ state[group] = wanted[group] => Part(group, state, wanted) = <<>>
  BY <1>2 DEF PartOK
<1> DEFINE a == Part("brake", state, wanted)
           b == Part("turn", state, wanted)
           c == Part("beam", state, wanted)
           d == Part("position", state, wanted)
<1>4. PlanTo(state, wanted) = Chain(a, b, c, d)
  BY DEF PlanTo, Chain, Part
<1>5. /\ a \in Seq(Actions) /\ b \in Seq(Actions) /\ c \in Seq(Actions) /\ d \in Seq(Actions)
      /\ (\A group \in Groups : state[group] = wanted[group]) =>
           a = <<>> /\ b = <<>> /\ c = <<>> /\ d = <<>>
  BY <1>3 DEF Groups
<1> HIDE DEF a, b, c, d
<1>6. Chain(a, b, c, d) \in Seq(Actions)
  BY <1>5, ChainType
<1>7. Chain(<<>>, <<>>, <<>>, <<>>) = <<>>
  BY EmptySeq, ChainFourth
<1> QED BY <1>2, <1>4, <1>5, <1>6, <1>7

(* Every group before this one is as it is wanted.                         *)
FirstToChange(group, state, wanted) ==
  /\ state[group] # wanted[group]
  /\ group # "brake" => state["brake"] = wanted["brake"]
  /\ group \in {"beam", "position"} => state["turn"] = wanted["turn"]
  /\ group = "position" => state["beam"] = wanted["beam"]

LEMMA PlanNext ==
  ASSUME NEW state \in ExecutionState, NEW wanted \in ExecutionState,
         NEW group \in Groups, FirstToChange(group, state, wanted)
  PROVE  /\ PlanTo(state, wanted) # <<>>
         /\ Head(PlanTo(state, wanted)) = Head(Part(group, state, wanted))
         /\ \A s, w :
              /\ \A other \in Groups \ {group} : Part(other, s, w) = Part(other, state, wanted)
              /\ Part(group, s, w) = Tail(Part(group, state, wanted))
              => Tail(PlanTo(state, wanted)) = PlanTo(s, w)
<1>1. \A g \in Groups : /\ Part(g, state, wanted) \in Seq(Actions)
                        /\ state[g] = wanted[g] => Part(g, state, wanted) = <<>>
                        /\ state[g] # wanted[g] => Part(g, state, wanted) # <<>>
  BY PlanParts DEF PartOK
<1> DEFINE a == Part("brake", state, wanted)
           b == Part("turn", state, wanted)
           c == Part("beam", state, wanted)
           d == Part("position", state, wanted)
<1>2. \A s, w : PlanTo(s, w) = Chain(Part("brake", s, w), Part("turn", s, w),
                                    Part("beam", s, w), Part("position", s, w))
  BY DEF PlanTo, Chain, Part
<1>3. PlanTo(state, wanted) = Chain(a, b, c, d)
  BY <1>2
<1>4. /\ a \in Seq(Actions) /\ b \in Seq(Actions) /\ c \in Seq(Actions) /\ d \in Seq(Actions)
      /\ "brake" \in Groups /\ "turn" \in Groups /\ "beam" \in Groups /\ "position" \in Groups
  BY <1>1 DEF Groups
<1>5. ASSUME NEW one, NEW rest, one # <<>>, Part(group, state, wanted) = one,
             Head(Chain(a, b, c, d)) = Head(one), Chain(a, b, c, d) # <<>>
      PROVE  PlanTo(state, wanted) # <<>>
             /\ Head(PlanTo(state, wanted)) = Head(Part(group, state, wanted))
  BY <1>3, <1>5
<1>6. CASE group = "brake"
  <2>0. a # <<>>
    BY <1>1, <1>4, <1>6 DEF FirstToChange
  <2>1. a = Part(group, state, wanted)
    BY <1>6
  <2>2. ASSUME NEW s, NEW w,
               \A other \in Groups \ {group} : Part(other, s, w) = Part(other, state, wanted),
               Part(group, s, w) = Tail(Part(group, state, wanted))
        PROVE  PlanTo(s, w) = Chain(Tail(a), b, c, d)
    BY <1>2, <1>4, <1>6, <2>2
  <2> HIDE DEF a, b, c, d
  <2>3. Chain(a, b, c, d) # <<>> /\ Head(Chain(a, b, c, d)) = Head(a)
    BY <1>4, <2>0, ChainFirst
  <2>4. Tail(Chain(a, b, c, d)) = Chain(Tail(a), b, c, d)
    BY <1>4, <2>0, ChainFirst
  <2> QED BY <1>3, <2>1, <2>2, <2>3, <2>4
<1>7. CASE group = "turn"
  <2>1. a = <<>> /\ b # <<>> /\ b = Part(group, state, wanted)
    BY <1>1, <1>4, <1>7 DEF FirstToChange
  <2>2. ASSUME NEW s, NEW w,
               \A other \in Groups \ {group} : Part(other, s, w) = Part(other, state, wanted),
               Part(group, s, w) = Tail(Part(group, state, wanted))
        PROVE  PlanTo(s, w) = Chain(a, Tail(b), c, d)
    BY <1>2, <1>4, <1>7, <2>2
  <2> HIDE DEF a, b, c, d
  <2>3. Chain(<<>>, b, c, d) # <<>> /\ Head(Chain(<<>>, b, c, d)) = Head(b)
    BY <1>4, <2>1, ChainSecond
  <2>4. Tail(Chain(<<>>, b, c, d)) = Chain(<<>>, Tail(b), c, d)
    BY <1>4, <2>1, ChainSecond
  <2> QED BY <1>3, <2>1, <2>2, <2>3, <2>4
<1>8. CASE group = "beam"
  <2>1. a = <<>> /\ b = <<>> /\ c # <<>> /\ c = Part(group, state, wanted)
    BY <1>1, <1>4, <1>8 DEF FirstToChange
  <2>2. ASSUME NEW s, NEW w,
               \A other \in Groups \ {group} : Part(other, s, w) = Part(other, state, wanted),
               Part(group, s, w) = Tail(Part(group, state, wanted))
        PROVE  PlanTo(s, w) = Chain(a, b, Tail(c), d)
    BY <1>2, <1>4, <1>8, <2>2
  <2> HIDE DEF a, b, c, d
  <2>3. /\ Chain(<<>>, <<>>, c, d) # <<>>
        /\ Head(Chain(<<>>, <<>>, c, d)) = Head(c)
    BY <1>4, <2>1, ChainThird
  <2>4. Tail(Chain(<<>>, <<>>, c, d)) = Chain(<<>>, <<>>, Tail(c), d)
    BY <1>4, <2>1, ChainThird
  <2> QED BY <1>3, <2>1, <2>2, <2>3, <2>4
<1>9. CASE group = "position"
  <2>1. a = <<>> /\ b = <<>> /\ c = <<>> /\ d # <<>> /\ d = Part(group, state, wanted)
    BY <1>1, <1>4, <1>9 DEF FirstToChange
  <2>2. ASSUME NEW s, NEW w,
               \A other \in Groups \ {group} : Part(other, s, w) = Part(other, state, wanted),
               Part(group, s, w) = Tail(Part(group, state, wanted))
        PROVE  PlanTo(s, w) = Chain(a, b, c, Tail(d))
    BY <1>2, <1>4, <1>9, <2>2
  <2> HIDE DEF a, b, c, d
  <2>3. Chain(<<>>, <<>>, <<>>, d) = d
    BY <1>4, ChainFourth
  <2>4. Chain(<<>>, <<>>, <<>>, Tail(d)) = Tail(d)
    <3>1. Tail(d) \in Seq(Actions)
      BY <1>4, <2>1, HeadTailProperties
    <3> QED BY <3>1, ChainFourth
  <2> QED BY <1>3, <2>1, <2>2, <2>3, <2>4
<1> QED BY <1>6, <1>7, <1>8, <1>9 DEF Groups

LEMMA PlanSteps ==
  ASSUME NEW state \in ExecutionState, NEW wanted \in ExecutionState
  PROVE  /\ PlanTo(state, wanted) \in Seq(Actions)
         /\ PlanTo(state, wanted) = <<>> <=> state = wanted
         /\ PlanTo(state, wanted) # <<>> =>
              \E group \in Groups : PlanStep(group, state, wanted)
<1>1. ASSUME NEW group \in Groups, FirstToChange(group, state, wanted)
      PROVE  PlanStep(group, state, wanted)
  <2> DEFINE s0 == With(state, group, "off")
             s1 == With(state, group, wanted[group])
             w0 == With(wanted, group, "off")
  <2>1. wanted[group] \in LampsOf(group) \cup {"off"} /\ "off" \in LampsOf(group) \cup {"off"}
    BY GroupFacts
  <2>2. /\ s0[group] = "off" /\ s1[group] = wanted[group] /\ w0[group] = "off"
        /\ \A other \in Groups \ {group} :
             s0[other] = state[other] /\ s1[other] = state[other] /\ w0[other] = wanted[other]
    <3>1. /\ s0[group] = "off"
          /\ \A other \in Groups \ {group} : s0[other] = state[other]
      BY <2>1, SetGroup
    <3>2. /\ s1[group] = wanted[group]
          /\ \A other \in Groups \ {group} : s1[other] = state[other]
      BY <2>1, SetGroup
    <3>3. /\ w0[group] = "off"
          /\ \A other \in Groups \ {group} : w0[other] = wanted[other]
      BY <2>1, SetGroup
    <3> HIDE DEF s0, s1, w0
    <3> QED BY <3>1, <3>2, <3>3
  <2> HIDE DEF s0, s1, w0
  <2>3. \A other \in Groups \ {group} :
          /\ Part(other, s0, wanted) = Part(other, state, wanted)
          /\ Part(other, s1, wanted) = Part(other, state, wanted)
          /\ Part(other, state, w0) = Part(other, state, wanted)
    BY <2>2 DEF Part
  <2>4. /\ Part(group, s1, wanted) = <<>>
        /\ state[group] = "off" => Part(group, state, w0) = <<>>
        /\ Part(group, s0, wanted) = Switch("off", wanted[group])
    BY <2>2 DEF Part, Switch
  <2>5. PartOK(group, state, wanted) /\ state[group] # wanted[group]
    BY <1>1, PlanParts DEF FirstToChange
  <2>6. /\ state[group] # "off" =>
             /\ Head(Part(group, state, wanted)) = Off(state[group])
             /\ Part(group, s0, wanted) = Tail(Part(group, state, wanted))
        /\ state[group] = "off" =>
             /\ Head(Part(group, state, wanted)) = On(wanted[group])
             /\ Tail(Part(group, state, wanted)) = <<>>
    BY <2>4, <2>5 DEF PartOK
  <2>7. Head(PlanTo(state, wanted)) = Head(Part(group, state, wanted))
    BY <1>1, PlanNext
  <2>8. \A s, w :
          /\ \A other \in Groups \ {group} : Part(other, s, w) = Part(other, state, wanted)
          /\ Part(group, s, w) = Tail(Part(group, state, wanted))
          => Tail(PlanTo(state, wanted)) = PlanTo(s, w)
    BY <1>1, PlanNext
  <2>9. state[group] # "off" => Tail(PlanTo(state, wanted)) = PlanTo(s0, wanted)
    BY <2>3, <2>6, <2>8
  <2>10. state[group] = "off" => Tail(PlanTo(state, wanted)) = PlanTo(s1, wanted)
    BY <2>3, <2>4, <2>6, <2>8
  <2>11. state[group] = "off" => Tail(PlanTo(state, wanted)) = PlanTo(state, w0)
    BY <2>3, <2>4, <2>6, <2>8
  <2> QED BY <1>1, <2>5, <2>6, <2>7, <2>9, <2>10, <2>11 DEF PlanStep, FirstToChange, s0, s1, w0
<1>2. ASSUME \E group \in Groups : state[group] # wanted[group]
      PROVE  \E group \in Groups : FirstToChange(group, state, wanted)
  BY <1>2 DEF Groups, FirstToChange
<1>3. (\A group \in Groups : state[group] = wanted[group]) <=> state = wanted
  BY DEF Groups, ExecutionState
<1>4. PlanTo(state, wanted) = <<>> <=> state = wanted
  BY <1>2, <1>3, PlanParts, PlanNext
<1> QED BY <1>1, <1>2, <1>3, <1>4, PlanParts

-------------------------------------------------------------------------------
(* A lamp is lit if it is the one of its group.                            *)
LEMMA LitLamps ==
  ASSUME NEW state \in ExecutionState
  PROVE  \A lamp : lamp \in Lit(state) <=> lamp \in Lamps /\ state[Group(lamp)] = lamp
<1> SUFFICES ASSUME NEW lamp
             PROVE  lamp \in Lit(state) <=> lamp \in Lamps /\ state[Group(lamp)] = lamp
  OBVIOUS
<1> USE DEF Lit, ExecutionState, Group, Turns, Beams
<1>1. CASE lamp \in Turns
  BY <1>1
<1>2. CASE lamp \in Beams
  BY <1>2
<1>3. CASE lamp \in {"brake", "position"}
  BY <1>3
<1> QED BY <1>1, <1>2, <1>3 DEF Lamps

(* One lamp of a group at most is lit.                                     *)
LEMMA LitExclusive ==
  ASSUME NEW state \in ExecutionState
  PROVE  /\ Lit(state) \subseteq Lamps
         /\ ~(Beams \subseteq Lit(state)) /\ ~(Turns \subseteq Lit(state))
<1>1. /\ Lit(state) \subseteq Lamps
      /\ \A lamp \in Lit(state) : state[Group(lamp)] = lamp
  BY LitLamps
<1>2. \A lamp \in Beams : Group(lamp) = "beam"
  BY DEF Group, Turns, Beams
<1>3. \A lamp \in Turns : Group(lamp) = "turn"
  BY DEF Group, Turns, Beams
<1> QED BY <1>1, <1>2, <1>3 DEF Beams, Turns

LEMMA GroupOfLamp ==
  \A lamp \in Lamps : Group(lamp) \in Groups /\ lamp \in LampsOf(Group(lamp))
BY DEF Group, Groups, LampsOf, Turns, Beams, Lamps

(* What the next action of a plan does to the execution state.             *)
LEMMA Transitions ==
  ASSUME NEW state \in ExecutionState, NEW group \in Groups
  PROVE  /\ \A lamp \in LampsOf(group) : ApplyTransition(state, On(lamp)) = With(state, group, lamp)
         /\ state[group] # "off" =>
              ApplyTransition(state, Off(state[group])) = With(state, group, "off")
<1>1. \A lamp \in LampsOf(group) : Group(lamp) = group
  BY GroupFacts
<1>2. state[group] # "off" => state[group] \in LampsOf(group)
  BY GroupFacts
<1>3. ASSUME NEW lamp \in LampsOf(group)
      PROVE  ApplyTransition(state, On(lamp)) = With(state, group, lamp)
  <2>1. Group(On(lamp).lamp) = group /\ On(lamp).on /\ On(lamp).lamp = lamp
    BY <1>1 DEF On
  <2> QED BY <2>1 DEF ApplyTransition, With
<1>4. ASSUME state[group] # "off"
      PROVE  ApplyTransition(state, Off(state[group])) = With(state, group, "off")
  <2>1. /\ Group(Off(state[group]).lamp) = group /\ ~Off(state[group]).on
        /\ Off(state[group]).lamp = state[group]
    BY <1>1, <1>2, <1>4 DEF Off
  <2> QED BY <2>1 DEF ApplyTransition, With
<1> QED BY <1>3, <1>4

(* The output register after an action.                                    *)
Perform(outputs, action) ==
  IF action.on THEN outputs \cup {action.lamp} ELSE outputs \ {action.lamp}

(* Switched on in a dark group or off where it is lit, a lamp changes the  *)
(* outputs as it changes the execution state.                              *)
LEMMA Performed ==
  ASSUME NEW state \in ExecutionState, NEW group \in Groups
  PROVE  /\ \A lamp \in LampsOf(group) :
              state[group] = "off" =>
                Perform(Lit(state), On(lamp)) = Lit(With(state, group, lamp))
         /\ state[group] # "off" =>
              Perform(Lit(state), Off(state[group])) = Lit(With(state, group, "off"))
<1>0. /\ "off" \notin Lamps
      /\ \A lamp \in LampsOf(group) : lamp \in Lamps /\ Group(lamp) = group
      /\ \A lamp \in Lamps : Group(lamp) \in Groups
      /\ state[group] \in LampsOf(group) \cup {"off"}
  BY GroupFacts, GroupOfLamp
<1>1. \A lamp : lamp \in Lit(state) <=> lamp \in Lamps /\ state[Group(lamp)] = lamp
  BY LitLamps
<1>2. ASSUME NEW lamp \in LampsOf(group), state[group] = "off"
      PROVE  Perform(Lit(state), On(lamp)) = Lit(With(state, group, lamp))
  <2>1. /\ With(state, group, lamp) \in ExecutionState
        /\ With(state, group, lamp)[group] = lamp
        /\ \A other \in Groups \ {group} : With(state, group, lamp)[other] = state[other]
    BY SetGroup
  <2>2. \A l : l \in Lit(With(state, group, lamp)) <=>
              l \in Lamps /\ With(state, group, lamp)[Group(l)] = l
    BY <2>1, LitLamps
  <2>3. \A l : l \in Lit(With(state, group, lamp)) <=> l \in Lit(state) \/ l = lamp
    BY <1>0, <1>1, <1>2, <2>1, <2>2
  <2>4. Perform(Lit(state), On(lamp)) = Lit(state) \cup {lamp}
    BY DEF Perform, On
  <2> QED BY <2>3, <2>4
<1>3. ASSUME state[group] # "off"
      PROVE  Perform(Lit(state), Off(state[group])) = Lit(With(state, group, "off"))
  <2>1. /\ With(state, group, "off") \in ExecutionState
        /\ With(state, group, "off")[group] = "off"
        /\ \A other \in Groups \ {group} : With(state, group, "off")[other] = state[other]
    BY SetGroup
  <2>2. \A l : l \in Lit(With(state, group, "off")) <=>
              l \in Lamps /\ With(state, group, "off")[Group(l)] = l
    BY <2>1, LitLamps
  <2>3. \A l : l \in Lit(With(state, group, "off")) <=> l \in Lit(state) /\ l # state[group]
    BY <1>0, <1>1, <1>3, <2>1, <2>2
  <2>4. Perform(Lit(state), Off(state[group])) = Lit(state) \ {state[group]}
    BY DEF Perform, Off
  <2> QED BY <2>3, <2>4
<1> QED BY <1>2, <1>3

(* The actions of a plan, done in order, lead to what is wanted; denied,   *)
(* an action leaves a plan for the same state.                             *)
LEMMA NextOfPlan ==
  ASSUME NEW state \in ExecutionState, NEW wanted \in ExecutionState,
         PlanTo(state, wanted) # <<>>
  PROVE  LET action == Head(PlanTo(state, wanted))
             after  == ApplyTransition(state, action)
         IN  /\ action \in Actions
             /\ after \in ExecutionState
             /\ Tail(PlanTo(state, wanted)) = PlanTo(after, wanted)
             /\ Perform(Lit(state), action) = Lit(after)
             /\ action.on =>
                  /\ \E w \in ExecutionState : Tail(PlanTo(state, wanted)) = PlanTo(state, w)
                  /\ action = On(action.lamp) /\ action.lamp \in Lit(wanted)
                  /\ action.lamp \in Turns => state.brake = wanted.brake
             /\ ~action.on => action = Off(action.lamp) /\ action.lamp \in Lit(state)
<1>1. PICK group \in Groups : PlanStep(group, state, wanted)
  BY PlanSteps
<1>2. /\ state[group] \in LampsOf(group) \cup {"off"}
      /\ wanted[group] \in LampsOf(group) \cup {"off"}
      /\ LampsOf(group) \subseteq Lamps
  BY GroupFacts
<1>5. ASSUME NEW s \in ExecutionState, s[group] \in LampsOf(group)
      PROVE  s[group] \in Lit(s)
  <2>1. Group(s[group]) = group
    BY <1>5, GroupFacts
  <2> QED BY <1>2, <1>5, <2>1, LitLamps
<1>3. CASE state[group] = "off"
  <2>1. /\ wanted[group] \in LampsOf(group)
        /\ Head(PlanTo(state, wanted)) = On(wanted[group])
        /\ Tail(PlanTo(state, wanted)) = PlanTo(With(state, group, wanted[group]), wanted)
        /\ Tail(PlanTo(state, wanted)) = PlanTo(state, With(wanted, group, "off"))
    BY <1>1, <1>2, <1>3 DEF PlanStep
  <2>2. ApplyTransition(state, On(wanted[group])) = With(state, group, wanted[group])
    BY <2>1, Transitions
  <2>3. Perform(Lit(state), On(wanted[group])) = Lit(With(state, group, wanted[group]))
    BY <1>3, <2>1, Performed
  <2>4. With(state, group, wanted[group]) \in ExecutionState
    BY <1>2, SetGroup
  <2>5. With(wanted, group, "off") \in ExecutionState
    BY <1>2, SetGroup
  <2>6. /\ On(wanted[group]) \in Actions
        /\ On(wanted[group]).on /\ On(wanted[group]).lamp = wanted[group]
    BY <1>2, <2>1 DEF On, Actions
  <2>7. wanted[group] \in Lit(wanted)
    BY <1>5, <2>1
  <2>8. wanted[group] \in Turns => state.brake = wanted.brake
    <3>1. wanted[group] \in Turns => group # "brake"
      BY <2>1, <1>1, GroupFacts DEF LampsOf, Turns, Beams, Lamps
    <3> QED BY <1>1, <3>1 DEF PlanStep
  <2> HIDE DEF Turns
  <2> QED BY <2>1, <2>2, <2>3, <2>4, <2>5, <2>6, <2>7, <2>8
<1>4. CASE state[group] # "off"
  <2>1. /\ state[group] \in LampsOf(group)
        /\ Head(PlanTo(state, wanted)) = Off(state[group])
        /\ Tail(PlanTo(state, wanted)) = PlanTo(With(state, group, "off"), wanted)
    BY <1>1, <1>2, <1>4 DEF PlanStep
  <2>2. ApplyTransition(state, Off(state[group])) = With(state, group, "off")
    BY <1>4, Transitions
  <2>3. Perform(Lit(state), Off(state[group])) = Lit(With(state, group, "off"))
    BY <1>4, Performed
  <2>4. With(state, group, "off") \in ExecutionState
    BY <1>2, SetGroup
  <2>5. /\ Off(state[group]) \in Actions /\ ~Off(state[group]).on
        /\ Off(state[group]).lamp = state[group]
    BY <1>2, <2>1 DEF Off, Actions
  <2>6. state[group] \in Lit(state)
    BY <1>5, <2>1
  <2> QED BY <2>1, <2>2, <2>3, <2>4, <2>5, <2>6
<1> QED BY <1>3, <1>4

LEMMA WantedType == \A targeted : Wanted(targeted) \in ExecutionState
BY DEF Wanted, FirstOf, ExecutionState, Turns, Beams

(* A plan never outgrows its array: at most six actions.                   *)
LEMMA SwitchLength ==
  ASSUME NEW current \in Lamps \cup {"off"}, NEW wanted \in Lamps \cup {"off"}
  PROVE  /\ Len(Switch(current, wanted)) <= 2
         /\ current = "off" \/ wanted = "off" \/ current = wanted => Len(Switch(current, wanted)) <= 1
<1>1. CASE current = wanted
  <2>1. Switch(current, wanted) = <<>>
    BY <1>1 DEF Switch
  <2> QED BY <2>1, EmptySeq
<1>2. ASSUME NEW c \in Lamps \cup {"off"}, NEW w \in Lamps \cup {"off"}, c # w, c = "off"
      PROVE  Len(Switch(c, w)) = 1
  <2>1. Switch(c, w) \in Seq(Actions) /\ Switch(c, w) # <<>> /\ Tail(Switch(c, w)) = <<>>
    BY <1>2, SwitchSteps
  <2>2. Len(Tail(Switch(c, w))) = Len(Switch(c, w)) - 1 /\ Len(Switch(c, w)) \in Nat
    BY <2>1, HeadTailProperties, LenProperties
  <2>3. Len(Tail(Switch(c, w))) = 0
    BY <2>1, EmptySeq
  <2> QED BY <2>2, <2>3
<1>3. CASE current # wanted /\ current # "off"
  <2>1. /\ Switch(current, wanted) \in Seq(Actions) /\ Switch(current, wanted) # <<>>
        /\ Tail(Switch(current, wanted)) = Switch("off", wanted)
    BY <1>3, SwitchSteps
  <2>2. /\ Len(Tail(Switch(current, wanted))) = Len(Switch(current, wanted)) - 1
        /\ Len(Switch(current, wanted)) \in Nat
    BY <2>1, HeadTailProperties, LenProperties
  <2>3. CASE wanted = "off"
    <3>1. Len(Switch("off", "off")) = 0
      BY EmptySeq DEF Switch
    <3> QED BY <2>1, <2>2, <2>3, <3>1
  <2>4. CASE wanted # "off"
    <3>1. Len(Switch("off", wanted)) = 1
      BY <1>2, <2>4
    <3> DEFINE all == Switch(current, wanted)
               rest == Switch("off", wanted)
    <3>a. Tail(all) = rest
      BY <2>1
    <3>b. Len(Tail(all)) = Len(all) - 1 /\ Len(all) \in Nat
      BY <2>2
    <3> HIDE DEF all, rest
    <3>c. Len(Tail(all)) = Len(rest)
      BY <3>a
    <3>d. Len(rest) = 1
      BY <3>1 DEF rest
    <3>2. Len(all) = 2
      BY <3>b, <3>c, <3>d
    <3> USE DEF all
    <3> QED BY <1>3, <2>4, <3>2
  <2> QED BY <2>3, <2>4
<1>4. CASE current # wanted /\ current = "off"
  <2>1. Len(Switch(current, wanted)) = 1
    BY <1>2, <1>4
  <2> QED BY <2>1
<1> QED BY <1>1, <1>3, <1>4

LEMMA PlanLength ==
  ASSUME NEW state \in ExecutionState, NEW wanted \in ExecutionState
  PROVE  Len(PlanTo(state, wanted)) <= 6
<1> DEFINE a == Switch(state.brake, wanted.brake)
           b == Switch(state.turn, wanted.turn)
           c == Switch(state.beam, wanted.beam)
           d == Switch(state.position, wanted.position)
           ab == a \o b
           abc == ab \o c
<1>1. /\ state.brake \in Lamps \cup {"off"} /\ wanted.brake \in Lamps \cup {"off"}
      /\ state.turn \in Lamps \cup {"off"} /\ wanted.turn \in Lamps \cup {"off"}
      /\ state.beam \in Lamps \cup {"off"} /\ wanted.beam \in Lamps \cup {"off"}
      /\ state.position \in Lamps \cup {"off"} /\ wanted.position \in Lamps \cup {"off"}
      /\ state.brake = "off" \/ wanted.brake = "off" \/ state.brake = wanted.brake
      /\ state.position = "off" \/ wanted.position = "off" \/ state.position = wanted.position
  BY DEF ExecutionState, Turns, Beams, Lamps
<1>2. a \in Seq(Actions) /\ Len(a) <= 1
  BY <1>1, SwitchSteps, SwitchLength
<1>3. b \in Seq(Actions) /\ Len(b) <= 2
  BY <1>1, SwitchSteps, SwitchLength
<1>4. c \in Seq(Actions) /\ Len(c) <= 2
  BY <1>1, SwitchSteps, SwitchLength
<1>5. d \in Seq(Actions) /\ Len(d) <= 1
  BY <1>1, SwitchSteps, SwitchLength
<1>6. PlanTo(state, wanted) = abc \o d
  BY DEF PlanTo
<1> HIDE DEF a, b, c, d
<1>7. ab \in Seq(Actions) /\ Len(ab) = Len(a) + Len(b)
  BY <1>2, <1>3, ConcatProperties
<1> HIDE DEF ab
<1>8. abc \in Seq(Actions) /\ Len(abc) = Len(ab) + Len(c)
  BY <1>4, <1>7, ConcatProperties
<1> HIDE DEF abc
<1>9. Len(abc \o d) = Len(abc) + Len(d)
  BY <1>5, <1>8, ConcatProperties
<1>10. Len(a) \in Nat /\ Len(b) \in Nat /\ Len(c) \in Nat /\ Len(d) \in Nat
  BY <1>2, <1>3, <1>4, <1>5, LenProperties
<1> QED BY <1>2, <1>3, <1>4, <1>5, <1>6, <1>7, <1>8, <1>9, <1>10

(* The last action of a plan, as the loop counts it.                       *)
LEMMA LastAction ==
  ASSUME NEW actions \in Seq(Actions), actions # <<>>
  PROVE  Len(actions) = 1 <=> Tail(actions) = <<>>
<1>1. /\ Tail(actions) \in Seq(Actions) /\ Len(Tail(actions)) = Len(actions) - 1
      /\ Len(actions) \in Nat
  BY HeadTailProperties, LenProperties
<1>2. Tail(actions) = <<>> <=> Len(Tail(actions)) = 0
  BY <1>1, EmptySeq
<1> QED BY <1>1, <1>2
-------------------------------------------------------------------------------
(* The target, in every vehicle state.                                     *)
LEMMA RequestedType ==
  ASSUME NEW requested \in SUBSET Lamps, NEW v
  PROVE  RequestedTarget(requested, v) \in SUBSET Lamps
<1>1. /\ Turns \subseteq Lamps /\ "brake" \in Lamps /\ "position" \in Lamps
  BY DEF Turns, Lamps
<1>2. RequestedTurn(requested, v) \subseteq Lamps
  BY <1>1 DEF RequestedTurn
<1>3. RequestedBeam(requested, v) \subseteq Lamps
  BY DEF RequestedBeam, Lamps
<1> QED BY <1>1, <1>2, <1>3 DEF RequestedTarget

LEMMA ComputeTargetType ==
  ASSUME NEW requested \in SUBSET Lamps, NEW v, NEW mode
  PROVE  ComputeTarget(requested, v, mode) \in SUBSET Lamps
<1>1. /\ Turns \subseteq Lamps /\ "position" \in Lamps /\ "low_beam" \in Lamps
  BY DEF Turns, Lamps
<1>2. \A targeted \in SUBSET Lamps : OutputPolicy(targeted, mode) \in SUBSET Lamps
  BY <1>1 DEF OutputPolicy, MinimumIllumination
<1> QED BY <1>2, RequestedType DEF ComputeTarget

LEMMA OperatorCommandType ==
  ASSUME NEW requested \in SUBSET Lamps, NEW cmd \in Commands
  PROVE  ApplyOperatorCommand(requested, cmd) \in SUBSET Lamps
BY DEF ApplyOperatorCommand, Commands

(* DEGRADED and SAFE_MODE light the low beam and no other, SAFE_MODE the   *)
(* position lamp too and no turn lamp.                                     *)
LEMMA PolicyLights ==
  ASSUME NEW targeted \in SUBSET Lamps, NEW mode \in {DEGRADED, SAFE_MODE}
  PROVE  LET lit == Lit(Wanted(OutputPolicy(targeted, mode)))
         IN  /\ lit \cap Beams = {"low_beam"}
             /\ mode = SAFE_MODE => "position" \in lit /\ lit \cap Turns = {}
<1> DEFINE output == OutputPolicy(targeted, mode)
           wanted == Wanted(output)
<1>1. SAFE_MODE # DEGRADED
  BY DEF SAFE_MODE, DEGRADED
<1>2. /\ "low_beam" \in output
      /\ mode = SAFE_MODE => "position" \in output /\ output \cap Turns = {}
  <2>1. CASE mode = DEGRADED
    BY <1>1, <2>1 DEF OutputPolicy, MinimumIllumination, Beams
  <2>2. CASE mode = SAFE_MODE
    BY <1>1, <2>2 DEF OutputPolicy, MinimumIllumination, Turns, Beams
  <2> QED BY <2>1, <2>2
<1>3. wanted \in ExecutionState
  BY WantedType
<1>4. /\ wanted.beam = "low_beam"
      /\ mode = SAFE_MODE => wanted.position = "position" /\ wanted.turn = "off"
  BY <1>2 DEF Wanted, FirstOf, Turns
<1> HIDE DEF wanted
<1>5. \A lamp : lamp \in Lit(wanted) <=> lamp \in Lamps /\ wanted[Group(lamp)] = lamp
  BY <1>3, LitLamps
<1>6. /\ \A lamp \in Beams : Group(lamp) = "beam"
      /\ \A lamp \in Turns : Group(lamp) = "turn"
      /\ Group("position") = "position"
  BY DEF Group, Turns, Beams
<1>7. Lit(wanted) \cap Beams = {"low_beam"}
  BY <1>4, <1>5, <1>6 DEF Beams, Lamps
<1>8. mode = SAFE_MODE => "position" \in Lit(wanted) /\ Lit(wanted) \cap Turns = {}
  BY <1>4, <1>5, <1>6 DEF Turns, Lamps
<1> QED BY <1>7, <1>8 DEF wanted
===============================================================================
