------------------------------ MODULE VGicProofs ------------------------------
(***************************************************************************)
(* Lemmas about the virtual GIC: what the injection of an interrupt and    *)
(* the maintenance of a list register do to the interrupts that are held,  *)
(* for any number of list registers and interrupts.                        *)
(***************************************************************************)
EXTENDS VGic, FiniteSetTheorems, SequenceTheorems, WellFoundedInduction, TLAPS

(* A non-empty set of naturals has a least element.                        *)
LEMMA LeastElement ==
  ASSUME NEW S \in SUBSET Nat, S # {}
  PROVE  \E k \in S : \A j \in S : k <= j
<1> DEFINE R == {p \in Nat \X Nat : p[1] < p[2]}
<1>1. IsWellFoundedOn(R, Nat)
  <2>1. R = OpToRel(<, Nat)
    BY DEF OpToRel
  <2> QED BY <2>1, NatLessThanWellFounded
<1>2. \A j, k \in Nat : j < k => <<j, k>> \in R
  OBVIOUS
<1>3. PICK k \in S : \A j \in S : ~(<<j, k>> \in R)
  <2> HIDE DEF R
  <2> QED BY <1>1, WFMin
<1>4. \A j \in S : k <= j
  <2> HIDE DEF R
  <2> SUFFICES ASSUME NEW j \in S PROVE k <= j
    OBVIOUS
  <2>1. j \in Nat /\ k \in Nat
    OBVIOUS
  <2>2. <<j, k>> \notin R
    BY <1>3
  <2>3. j < k => <<j, k>> \in R
    BY <1>2, <2>1
  <2> QED BY <2>1, <2>2, <2>3
<1> QED BY <1>4

(* vgic_find_empty_list_reg finds one where there is one.                  *)
LEMMA FindEmptyListRegFinds ==
  ASSUME NEW g, FreeListRegs(g) # {}
  PROVE  FindEmptyListReg(g) \in FreeListRegs(g)
<1>1. FreeListRegs(g) \in SUBSET Nat
  BY VGicAssumption DEF FreeListRegs, ListRegs
<1>2. \E k \in FreeListRegs(g) : \A j \in FreeListRegs(g) : k <= j
  BY <1>1, LeastElement
<1> QED BY <1>2 DEF FindEmptyListReg

(* The interrupts in the queue are distinct and registered, and the one to *)
(* be injected is not among them: there is room.                           *)
LEMMA RoomInQueue ==
  ASSUME NEW g \in VGics, HeldExactlyOnce(g), NEW i \in Registered, i \notin g.pending
  PROVE  Len(g.queue) + 1 < QueueLen
<1> DEFINE others == Registered \ {i}
           D == 1..Len(g.queue)
<1>1. g.queue \in Seq(Registered) /\ Len(g.queue) \in Nat
  BY LenProperties DEF VGics
<1>2. g.queue \in [D -> others]
  <2>1. g.queue \in [D -> Registered]
    BY <1>1, LenProperties
  <2>2. \A n \in D : g.queue[n] # i
    BY DEF HeldExactlyOnce, Queued
  <2> QED BY <2>1, <2>2
<1>3. IsFiniteSet(others) /\ Cardinality(others) = Cardinality(Registered) - 1
  BY FS_RemoveElement, VGicAssumption
<1>4. IsFiniteSet(D) /\ Cardinality(D) = Len(g.queue)
  <2>1. /\ IsFiniteSet(D)
        /\ Cardinality(D) = IF 1 > Len(g.queue) THEN 0 ELSE Len(g.queue) - 1 + 1
    BY <1>1, FS_Interval, 1 \in Int, Len(g.queue) \in Int
  <2> HIDE DEF D
  <2> QED BY <1>1, <2>1
<1>5. Cardinality(others) \in Nat
  BY <1>3, FS_CardinalityType
<1>6. ~(Cardinality(others) < Cardinality(D))
  <2> SUFFICES ASSUME Cardinality(others) < Cardinality(D) PROVE FALSE
    OBVIOUS
  <2>1. PICK m, n \in D : m # n /\ g.queue[m] = g.queue[n]
    <3> HIDE DEF others, D
    <3> QED BY <1>2, <1>3, <1>4, FS_PigeonHole
  <2> QED BY <2>1 DEF HeldExactlyOnce
<1>7. Cardinality(Registered) < QueueLen /\ QueueLen \in Nat /\ Cardinality(Registered) \in Nat
  BY VGicAssumption, FS_CardinalityType
<1> HIDE DEF D, others
<1> QED BY <1>1, <1>3, <1>4, <1>5, <1>6, <1>7

(* What holds of the interrupts between two steps of the monitor.          *)
QueueBehind(g) == g.queue # <<>> => FreeListRegs(g) = {}
Consistent(g) == HeldExactlyOnce(g) /\ QueueBehind(g)

(* With a list register free the queue is empty, and the interrupt goes    *)
(* straight through it into the register.                                  *)
LEMMA InjectedDirectly ==
  ASSUME NEW g \in VGics, NEW i \in Registered, g.queue = <<>>, FreeListRegs(g) # {}
  PROVE  LET k == FindEmptyListReg(g)
             h == SetPendingLast(g, i)
         IN  /\ k \in ListRegs /\ g.lr[k] = VIRQ_INVALID
             /\ h.ctlr = g.ctlr /\ h.enabled = g.enabled
             /\ h.pending = g.pending \cup {i} /\ h.queue = <<>>
             /\ h.lr = [g.lr EXCEPT ![k] = i] /\ h.hw = [g.hw EXCEPT ![k] = i]
             /\ h \in VGics
<1> DEFINE k == FindEmptyListReg(g)
           h == SetPendingLast(g, i)
           e == [g EXCEPT !.pending = @ \cup {i}, !.queue = Append(@, i)]
<1>1. k \in ListRegs /\ g.lr[k] = VIRQ_INVALID
  BY FindEmptyListRegFinds DEF FreeListRegs
<1>2. e = Enqueue([g EXCEPT !.pending = @ \cup {i}], i)
  BY DEF Enqueue, VGics
<1>3. FreeListRegs(e) = FreeListRegs(g) /\ FindEmptyListReg(e) = k
  BY DEF FreeListRegs, FindEmptyListReg, VGics
<1>4. h = LoadListReg(e, k)
  BY <1>2, <1>3 DEF SetPendingLast, Enqueue, FreeListRegs, FindEmptyListReg, VGics
<1>5. Head(e.queue) = i /\ Tail(e.queue) = <<>>
  BY HeadTailAppend DEF VGics
<1>6. h = [g EXCEPT !.pending = @ \cup {i}, !.lr = [@ EXCEPT ![k] = i],
                    !.hw = [@ EXCEPT ![k] = i], !.queue = <<>>]
  <2> HIDE DEF h, k
  <2> QED BY <1>4, <1>5 DEF LoadListReg, VGics
<1> HIDE DEF h, k, e
<1>7. h.pending \in SUBSET Irqs
  BY <1>6, VGicAssumption DEF VGics
<1>8. h.lr \in Slots /\ h.hw \in Slots
  BY <1>1, <1>6 DEF VGics, Slots
<1>9. h.queue \in Seq(Registered)
  BY <1>6, EmptySeq DEF VGics
<1>10. h \in VGics
  BY <1>6, <1>7, <1>8, <1>9 DEF VGics
<1> QED BY <1>1, <1>6, <1>10 DEF VGics, h, k

(* With none free it waits in the queue.                                   *)
LEMMA InjectedBehind ==
  ASSUME NEW g \in VGics, NEW i \in Registered, FreeListRegs(g) = {}
  PROVE  LET h == SetPendingLast(g, i)
         IN  /\ h = [g EXCEPT !.pending = @ \cup {i}, !.queue = Append(@, i)]
             /\ h \in VGics
<1> DEFINE h == SetPendingLast(g, i)
<1>1. h = Enqueue([g EXCEPT !.pending = @ \cup {i}], i)
  BY DEF SetPendingLast
<1>2. h = [g EXCEPT !.pending = @ \cup {i}, !.queue = Append(@, i)]
  BY <1>1 DEF Enqueue, VGics
<1>3. Append(g.queue, i) \in Seq(Registered)
  BY AppendProperties DEF VGics
<1> HIDE DEF h
<1>4. h \in VGics
  BY <1>2, <1>3, VGicAssumption DEF VGics
<1> QED BY <1>2, <1>4 DEF h

(* Injecting what is not pending keeps the interrupts consistent.          *)
LEMMA SetPendingLastConsistent ==
  ASSUME NEW g \in VGics, Consistent(g), NEW i \in Registered, i \notin g.pending
  PROVE  Consistent(SetPendingLast(g, i))
<1> DEFINE h == SetPendingLast(g, i)
           k == FindEmptyListReg(g)
<1> USE DEF VGics, Slots
<1>0. /\ i # VIRQ_INVALID
      /\ \A j \in ListRegs : g.lr[j] # i
      /\ \A n \in 1..Len(g.queue) : g.queue[n] # i
      /\ Len(g.queue) \in Nat
  <2>1. i # VIRQ_INVALID
    BY VGicAssumption DEF VIRQ_INVALID
  <2> QED BY <2>1, LenProperties DEF Consistent, HeldExactlyOnce, Loaded, Queued
<1>1. CASE FreeListRegs(g) # {}
  <2>1. g.queue = <<>>
    BY <1>1 DEF Consistent, QueueBehind
  <2>2. /\ k \in ListRegs /\ g.lr[k] = VIRQ_INVALID
        /\ h.pending = g.pending \cup {i} /\ h.queue = <<>>
        /\ h.lr = [g.lr EXCEPT ![k] = i]
    BY <1>1, <2>1, InjectedDirectly
  <2> HIDE DEF h, k
  <2>3. Queued(h) = {} /\ Queued(g) = {}
    BY <2>1, <2>2 DEF Queued
  <2>4. Loaded(h) = Loaded(g) \cup {i}
    <3>1. \A j \in ListRegs : h.lr[j] = IF j = k THEN i ELSE g.lr[j]
      BY <2>2
    <3> QED BY <1>0, <2>2, <3>1 DEF Loaded
  <2>5. h.pending = Loaded(h) \cup Queued(h)
    BY <2>2, <2>3, <2>4 DEF Consistent, HeldExactlyOnce
  <2>6. \A a, b \in ListRegs : h.lr[a] = h.lr[b] /\ h.lr[a] # VIRQ_INVALID => a = b
    BY <1>0, <2>2 DEF Consistent, HeldExactlyOnce
  <2> QED BY <2>2, <2>3, <2>5, <2>6 DEF Consistent, QueueBehind, HeldExactlyOnce, h
<1>2. CASE FreeListRegs(g) = {}
  <2>1. h = [g EXCEPT !.pending = @ \cup {i}, !.queue = Append(@, i)]
    BY <1>2, InjectedBehind
  <2> HIDE DEF h
  <2>2. /\ h.lr = g.lr /\ h.pending = g.pending \cup {i}
        /\ h.queue = Append(g.queue, i)
    BY <2>1
  <2>3. /\ Len(h.queue) = Len(g.queue) + 1
        /\ \A n \in 1..Len(h.queue) :
             h.queue[n] = IF n = Len(g.queue) + 1 THEN i ELSE g.queue[n]
    BY <1>0, <2>2, AppendProperties
  <2>4. Loaded(h) = Loaded(g) /\ FreeListRegs(h) = FreeListRegs(g)
    BY <2>2 DEF Loaded, FreeListRegs
  <2>5. Queued(h) = Queued(g) \cup {i}
    <3>1. ASSUME NEW n \in 1..Len(g.queue) PROVE g.queue[n] \in Queued(h)
      <4>1. n \in 1..Len(h.queue) /\ n # Len(g.queue) + 1
        BY <1>0, <2>3
      <4>2. h.queue[n] = g.queue[n]
        BY <2>3, <4>1
      <4> QED BY <4>1, <4>2 DEF Queued
    <3>2. i \in Queued(h)
      <4>1. Len(g.queue) + 1 \in 1..Len(h.queue)
        BY <1>0, <2>3
      <4>2. h.queue[Len(g.queue) + 1] = i
        BY <2>3, <4>1
      <4> QED BY <4>1, <4>2 DEF Queued
    <3>3. ASSUME NEW n \in 1..Len(h.queue) PROVE h.queue[n] \in Queued(g) \cup {i}
      <4>1. CASE n = Len(g.queue) + 1
        BY <2>3, <4>1
      <4>2. CASE n # Len(g.queue) + 1
        <5>1. n \in 1..Len(g.queue)
          BY <1>0, <2>3, <4>2
        <5>2. h.queue[n] = g.queue[n]
          BY <2>3, <4>2
        <5> QED BY <5>1, <5>2 DEF Queued
      <4> QED BY <4>1, <4>2
    <3>4. Queued(g) \subseteq Queued(h)
      BY <3>1 DEF Queued
    <3>5. Queued(h) \subseteq Queued(g) \cup {i}
      BY <3>3 DEF Queued
    <3> QED BY <3>2, <3>4, <3>5
  <2>6. /\ h.pending = Loaded(h) \cup Queued(h)
        /\ Loaded(h) \cap Queued(h) = {}
    BY <1>0, <2>2, <2>4, <2>5 DEF Consistent, HeldExactlyOnce, Loaded
  <2>7. \A m, n \in 1..Len(h.queue) : h.queue[m] = h.queue[n] => m = n
    BY <1>0, <2>3 DEF Consistent, HeldExactlyOnce
  <2> QED BY <1>2, <2>2, <2>4, <2>6, <2>7 DEF Consistent, QueueBehind, HeldExactlyOnce, h
<1> QED BY <1>1, <1>2

(* A maintenance takes the interrupt of its list register, and that alone, *)
(* out of what is pending; the head of the queue takes its place.          *)
LEMMA MaintenanceEffect ==
  ASSUME NEW g \in VGics, NEW k \in ListRegs
  PROVE  LET h == Maintenance(g, k)
         IN  /\ h.ctlr = g.ctlr /\ h.enabled = g.enabled
             /\ h.pending = g.pending \ {g.lr[k]}
             /\ g.queue = <<>> =>
                  /\ h.lr = [g.lr EXCEPT ![k] = VIRQ_INVALID]
                  /\ h.hw = g.hw /\ h.queue = <<>>
             /\ g.queue # <<>> =>
                  /\ h.lr = [g.lr EXCEPT ![k] = Head(g.queue)]
                  /\ h.hw = [g.hw EXCEPT ![k] = Head(g.queue)]
                  /\ h.queue = Tail(g.queue)
             /\ h \in VGics
<1> DEFINE h == Maintenance(g, k)
           r == [g EXCEPT !.lr[k] = VIRQ_INVALID, !.pending = @ \ {g.lr[k]}]
<1>1. Retire(g, k) = r
  BY DEF Retire
<1>2. CASE g.queue = <<>>
  <2>1. h = r
    BY <1>1, <1>2 DEF Maintenance, VGics
  <2>2. [g.lr EXCEPT ![k] = VIRQ_INVALID] \in Slots
    BY DEF VGics, Slots
  <2> QED BY <1>2, <2>1, <2>2 DEF VGics
<1>3. CASE g.queue # <<>>
  <2>1. h = LoadListReg(r, k)
    BY <1>1, <1>3 DEF Maintenance, VGics
  <2>2. Head(g.queue) \in Registered /\ Tail(g.queue) \in Seq(Registered)
    BY <1>3, HeadTailProperties DEF VGics
  <2>3. /\ r \in VGics /\ r.ctlr = g.ctlr /\ r.enabled = g.enabled
        /\ r.pending = g.pending \ {g.lr[k]} /\ r.queue = g.queue
        /\ r.lr = [g.lr EXCEPT ![k] = VIRQ_INVALID] /\ r.hw = g.hw
    BY DEF VGics, Slots
  <2> HIDE DEF r, h
  <2>4. /\ h.ctlr = r.ctlr /\ h.enabled = r.enabled /\ h.pending = r.pending
        /\ h.lr = [r.lr EXCEPT ![k] = Head(r.queue)]
        /\ h.hw = [r.hw EXCEPT ![k] = Head(r.queue)]
        /\ h.queue = Tail(r.queue)
        /\ h \in [ctlr : BOOLEAN, enabled : SUBSET Irqs, pending : SUBSET Irqs,
                   lr : {h.lr}, hw : {h.hw}, queue : {h.queue}]
    BY <2>1, <2>3 DEF LoadListReg, VGics, Slots
  <2>5. h.lr = [g.lr EXCEPT ![k] = Head(g.queue)] /\ h.hw = [g.hw EXCEPT ![k] = Head(g.queue)]
    BY <2>3, <2>4 DEF VGics, Slots
  <2>6. h.lr \in Slots /\ h.hw \in Slots
    BY <2>2, <2>5 DEF VGics, Slots
  <2>7. h.queue \in Seq(Registered)
    BY <2>2, <2>3, <2>4
  <2>8. h \in VGics
    BY <2>4, <2>6, <2>7 DEF VGics
  <2> QED BY <1>3, <2>3, <2>4, <2>5, <2>8 DEF h
<1> QED BY <1>2, <1>3

(* ... and keeps the interrupts consistent.                                *)
LEMMA MaintenanceConsistent ==
  ASSUME NEW g \in VGics, Consistent(g), NEW k \in ListRegs, g.lr[k] # VIRQ_INVALID
  PROVE  Consistent(Maintenance(g, k))
<1> DEFINE h == Maintenance(g, k)
           v == g.lr[k]
<1> USE DEF VGics, Slots
<1>0. /\ \A a, b \in ListRegs : g.lr[a] = g.lr[b] /\ g.lr[a] # VIRQ_INVALID => a = b
      /\ \A a \in ListRegs, n \in 1..Len(g.queue) :
           g.lr[a] # VIRQ_INVALID => g.lr[a] # g.queue[n]
      /\ \A m, n \in 1..Len(g.queue) : g.queue[m] = g.queue[n] => m = n
      /\ g.pending = Loaded(g) \cup Queued(g)
      /\ v \in Loaded(g) /\ v \notin Queued(g)
      /\ Len(g.queue) \in Nat
  <2>1. HeldExactlyOnce(g) /\ Len(g.queue) \in Nat
    BY LenProperties DEF Consistent
  <2>2. v \in Loaded(g)
    BY DEF Loaded
  <2>3. Loaded(g) \cap Queued(g) = {}
    BY <2>1 DEF HeldExactlyOnce
  <2>4. ASSUME NEW a \in ListRegs, NEW n \in 1..Len(g.queue), g.lr[a] # VIRQ_INVALID
        PROVE  g.lr[a] # g.queue[n]
    <3>1. g.lr[a] \in Loaded(g) /\ g.queue[n] \in Queued(g)
      BY <2>4 DEF Loaded, Queued
    <3> QED BY <2>3, <3>1
  <2> QED BY <2>1, <2>2, <2>3, <2>4 DEF HeldExactlyOnce
<1>1. CASE g.queue = <<>>
  <2>1. /\ h.pending = g.pending \ {v} /\ h.queue = <<>>
        /\ h.lr = [g.lr EXCEPT ![k] = VIRQ_INVALID]
    BY <1>1, MaintenanceEffect
  <2> HIDE DEF h
  <2>2. Queued(h) = {} /\ Queued(g) = {}
    BY <1>1, <2>1 DEF Queued
  <2>3. Loaded(h) = Loaded(g) \ {v}
    BY <1>0, <2>1 DEF Loaded
  <2>4. \A a, b \in ListRegs : h.lr[a] = h.lr[b] /\ h.lr[a] # VIRQ_INVALID => a = b
    BY <1>0, <2>1
  <2> QED BY <1>0, <2>1, <2>2, <2>3, <2>4 DEF Consistent, QueueBehind, HeldExactlyOnce, h
<1>2. CASE g.queue # <<>>
  <2> DEFINE q == Head(g.queue)
  <2>1. /\ h.pending = g.pending \ {v} /\ h.queue = Tail(g.queue)
        /\ h.lr = [g.lr EXCEPT ![k] = q]
    BY <1>2, MaintenanceEffect
  <2>2. Len(g.queue) # 0 /\ q = g.queue[1] /\ q \in Registered
    BY <1>2, EmptySeq, HeadTailProperties
  <2>3. /\ Len(h.queue) = Len(g.queue) - 1
        /\ \A n \in 1..Len(h.queue) : h.queue[n] = g.queue[n + 1]
    BY <1>2, <2>1, HeadTailProperties
  <2> HIDE DEF h, q
  <2>4. q # VIRQ_INVALID
    BY <2>2, VGicAssumption DEF VIRQ_INVALID
  <2>5. Queued(h) = Queued(g) \ {q}
    <3>1. ASSUME NEW x \in Queued(g), x # q PROVE x \in Queued(h)
      <4>1. PICK n \in 1..Len(g.queue) : x = g.queue[n]
        BY DEF Queued
      <4>2. n # 1
        BY <2>2, <3>1, <4>1
      <4>3. n - 1 \in 1..Len(h.queue) /\ h.queue[n - 1] = g.queue[n]
        BY <1>0, <2>3, <4>1, <4>2
      <4> QED BY <4>1, <4>3 DEF Queued
    <3>2. ASSUME NEW n \in 1..Len(h.queue) PROVE h.queue[n] \in Queued(g) /\ h.queue[n] # q
      <4>1. n + 1 \in 1..Len(g.queue) /\ 1 \in 1..Len(g.queue) /\ n + 1 # 1
        BY <1>0, <2>2, <2>3, <3>2
      <4>2. h.queue[n] = g.queue[n + 1]
        BY <2>3
      <4>3. g.queue[n + 1] # g.queue[1]
        BY <1>0, <4>1
      <4> QED BY <2>2, <4>1, <4>2, <4>3 DEF Queued
    <3> QED BY <3>1, <3>2 DEF Queued
  <2>6. Loaded(h) = (Loaded(g) \ {v}) \cup {q}
    <3>1. \A a \in ListRegs : h.lr[a] = IF a = k THEN q ELSE g.lr[a]
      BY <2>1
    <3> QED BY <1>0, <2>4, <3>1 DEF Loaded
  <2>7. q \in Queued(g) /\ q \notin Loaded(g)
    <3>1. 1 \in 1..Len(g.queue)
      BY <1>0, <2>2
    <3> QED BY <1>0, <2>2, <3>1 DEF Queued, Loaded
  <2>8. /\ h.pending = Loaded(h) \cup Queued(h)
        /\ Loaded(h) \cap Queued(h) = {}
    <3>1. Loaded(g) \cap Queued(g) = {}
      BY DEF Consistent, HeldExactlyOnce
    <3> QED BY <1>0, <2>1, <2>5, <2>6, <2>7, <3>1
  <2>9. \A a, b \in ListRegs : h.lr[a] = h.lr[b] /\ h.lr[a] # VIRQ_INVALID => a = b
    <3>1. \A a \in ListRegs : g.lr[a] # q
      BY <2>4, <2>7 DEF Loaded
    <3> QED BY <1>0, <2>1, <3>1
  <2>10. \A m, n \in 1..Len(h.queue) : h.queue[m] = h.queue[n] => m = n
    <3> SUFFICES ASSUME NEW m \in 1..Len(h.queue), NEW n \in 1..Len(h.queue),
                        h.queue[m] = h.queue[n]
                 PROVE  m = n
      OBVIOUS
    <3>1. m + 1 \in 1..Len(g.queue) /\ n + 1 \in 1..Len(g.queue)
      BY <1>0, <2>3
    <3>2. g.queue[m + 1] = g.queue[n + 1]
      BY <2>3
    <3> QED BY <1>0, <3>1, <3>2
  <2>11. FreeListRegs(h) = {}
    BY <1>2, <2>1, <2>4 DEF Consistent, QueueBehind, FreeListRegs
  <2> QED BY <2>8, <2>9, <2>10, <2>11 DEF Consistent, QueueBehind, HeldExactlyOnce, h
<1> QED BY <1>1, <1>2

(* What an injection changes, whether or not it takes place: the pending   *)
(* flag, and at most one list register that was free, in both copies.      *)
LEMMA SetPendingEffect ==
  ASSUME NEW g \in VGics, QueueBehind(g), NEW i
  PROVE  LET h == SetPending(g, i)
         IN  /\ h \in VGics /\ QueueBehind(h)
             /\ h.ctlr = g.ctlr /\ h.enabled = g.enabled
             /\ h.pending = IF Injectable(g, i) THEN g.pending \cup {i} ELSE g.pending
             /\ \A k \in ListRegs :
                  \/ h.lr[k] = g.lr[k] /\ h.hw[k] = g.hw[k]
                  \/ /\ g.lr[k] = VIRQ_INVALID
                     /\ h.lr[k] = h.hw[k] /\ h.lr[k] # VIRQ_INVALID
             /\ ~Injectable(g, i) => h = g
<1> DEFINE h == SetPending(g, i)
<1>1. CASE ~(Injectable(g, i) /\ i \notin g.pending)
  <2>1. h = g
    BY <1>1 DEF SetPending
  <2> HIDE DEF h
  <2> QED BY <1>1, <2>1 DEF VGics, h
<1>2. CASE Injectable(g, i) /\ i \notin g.pending
  <2>1. h = SetPendingLast(g, i) /\ i \in Registered /\ i # VIRQ_INVALID
    BY <1>2, VGicAssumption DEF SetPending, Injectable, VIRQ_INVALID
  <2>2. CASE FreeListRegs(g) # {}
    <3>1. g.queue = <<>>
      BY <2>2 DEF QueueBehind
    <3> DEFINE k == FindEmptyListReg(g)
    <3>2. /\ k \in ListRegs /\ g.lr[k] = VIRQ_INVALID
          /\ h.ctlr = g.ctlr /\ h.enabled = g.enabled
          /\ h.pending = g.pending \cup {i} /\ h.queue = <<>>
          /\ h.lr = [g.lr EXCEPT ![k] = i] /\ h.hw = [g.hw EXCEPT ![k] = i]
          /\ h \in VGics
      BY <2>1, <2>2, <3>1, InjectedDirectly
    <3> HIDE DEF h, k
    <3> QED BY <1>2, <2>1, <3>2 DEF VGics, Slots, QueueBehind, h
  <2>3. CASE FreeListRegs(g) = {}
    <3>1. /\ h = [g EXCEPT !.pending = @ \cup {i}, !.queue = Append(@, i)]
          /\ h \in VGics
      BY <2>1, <2>3, InjectedBehind
    <3> HIDE DEF h
    <3>2. /\ h.ctlr = g.ctlr /\ h.enabled = g.enabled /\ h.lr = g.lr /\ h.hw = g.hw
          /\ h.pending = g.pending \cup {i}
      BY <3>1 DEF VGics
    <3>3. FreeListRegs(h) = {}
      BY <2>3, <3>2 DEF FreeListRegs
    <3> QED BY <1>2, <3>1, <3>2, <3>3 DEF QueueBehind, h
  <2> QED BY <2>2, <2>3
<1> QED BY <1>1, <1>2

(* A maintenance leaves nothing in the queue behind a free list register.  *)
LEMMA MaintenanceQueueBehind ==
  ASSUME NEW g \in VGics, QueueBehind(g), NEW k \in ListRegs
  PROVE  QueueBehind(Maintenance(g, k))
<1> DEFINE h == Maintenance(g, k)
<1>1. CASE g.queue = <<>>
  BY <1>1, MaintenanceEffect DEF QueueBehind
<1>2. CASE g.queue # <<>>
  <2>1. h.lr = [g.lr EXCEPT ![k] = Head(g.queue)] /\ Head(g.queue) \in Registered
    BY <1>2, MaintenanceEffect, HeadTailProperties DEF VGics
  <2>2. Head(g.queue) # VIRQ_INVALID
    BY <2>1, VGicAssumption DEF VIRQ_INVALID
  <2> HIDE DEF h
  <2>3. FreeListRegs(h) = {}
    BY <1>2, <2>1, <2>2 DEF QueueBehind, FreeListRegs, VGics, Slots
  <2> QED BY <2>3 DEF QueueBehind, h
<1> QED BY <1>1, <1>2

(* A reset leaves an empty controller, with the list registers it found.   *)
LEMMA ResetEffect ==
  ASSUME NEW slots \in Slots
  PROVE  /\ VGicReset(slots) \in VGics
         /\ Consistent(VGicReset(slots))
         /\ VGicReset(slots).pending = {} /\ VGicReset(slots).enabled = Sgis
         /\ VGicReset(slots).lr = EmptySlots /\ VGicReset(slots).hw = slots
         /\ ~VGicReset(slots).ctlr
<1> DEFINE g == VGicReset(slots)
<1>1. /\ g.ctlr = FALSE /\ g.enabled = Sgis /\ g.pending = {} /\ g.lr = EmptySlots
      /\ g.hw = slots /\ g.queue = <<>>
  BY DEF VGicReset
<1>2. g \in VGics
  BY EmptySeq DEF VGicReset, VGics, Slots, EmptySlots, Sgis
<1> HIDE DEF g
<1>3. Loaded(g) = {} /\ Queued(g) = {}
  BY <1>1 DEF Loaded, Queued, EmptySlots
<1>4. \A k \in ListRegs : g.lr[k] = VIRQ_INVALID
  BY <1>1 DEF EmptySlots
<1>5. HeldExactlyOnce(g)
  BY <1>1, <1>3, <1>4 DEF HeldExactlyOnce
<1> QED BY <1>1, <1>2, <1>5 DEF Consistent, QueueBehind, g
===============================================================================
