------------------------ MODULE AutoStartTimer_proofs ------------------------
(***************************************************************************)
(* Proofs about AutoStartTimer for any timings, any length of a slot that  *)
(* is longer than the period of the loop with its lag, and any number of   *)
(* slots a day.                                                            *)
(***************************************************************************)
EXTENDS AutoStartTimer, SequenceTheorems, TLAPS

Types ==
  /\ timings \in Seq(Timings) /\ incoming \in Seq(Timings)
  /\ posting \in BOOLEAN /\ pass \in BOOLEAN /\ pos \in Nat \ {0} /\ visited \in BOOLEAN
  /\ dangling \in BOOLEAN
  /\ auto_start \in BOOLEAN /\ fault \in BOOLEAN /\ pump_running \in BOOLEAN
  /\ clockSet \in BOOLEAN /\ wday \in Days /\ slot \in 0 .. SlotsPerDay - 1
  /\ ticks \in 0 .. SlotTicks - 1 /\ loopAge \in 0 .. RUN_DELAY + MaxLag
  /\ served \subseteq 1 .. MAX_AUTOSTART /\ whole \in BOOLEAN

(* The stored timings and those still to be stored are a list that was     *)
(* posted.                                                                 *)
Bounded == Len(timings) + Len(incoming) <= MAX_AUTOSTART

(* The iterator is at a node of the list, or at one that was freed.        *)
Walks ==
  /\ pos <= MAX_AUTOSTART
  /\ dangling => pass
  /\ pass /\ ~dangling => pos <= Len(timings)

(* An undisturbed slot has a clock, no fault, and its list to itself.      *)
Undisturbed == whole => clockSet /\ ~fault /\ ~posting /\ ~dangling

Served(n) == Due(timings[n]) => n \in served

(* Once a walk has begun in an undisturbed slot, which it has when the     *)
(* loop ran later than the slot began, the timings it has passed are       *)
(* served.                                                                 *)
PassedAreServed ==
  whole /\ loopAge <= ticks =>
    \A n \in 1 .. Len(timings) : (pass => n < pos \/ (n = pos /\ visited)) => Served(n)

IInv == Types /\ Bounded /\ Walks /\ Undisturbed /\ PassedAreServed

LEMMA ListsAreSequences ==
  ASSUME NEW l \in Lists
  PROVE  l \in Seq(Timings) /\ Len(l) <= MAX_AUTOSTART
<1>1. PICK n \in 0 .. MAX_AUTOSTART : l \in [1 .. n -> Timings]
  BY DEF Lists
<1>2. n \in Nat
  BY TimerAssumption
<1>3. l \in Seq(Timings)
  BY <1>1, <1>2, SeqDef
<1>4. Len(l) = n
  BY <1>1, <1>2, <1>3, LenProperties
<1> QED BY <1>1, <1>3, <1>4, TimerAssumption

LEMMA NoTimings == Len(<<>>) = 0 /\ <<>> \in Seq(Timings)
BY EmptySeq

LEMMA InitIInv == Init => IInv
<1> SUFFICES ASSUME Init PROVE IInv
  OBVIOUS
<1>1. timings \in Seq(Timings) /\ Len(timings) <= MAX_AUTOSTART /\ Len(timings) \in Nat
  BY ListsAreSequences, LenProperties DEF Init
<1>2. Types
  <2>1. incoming \in Seq(Timings)
    BY NoTimings DEF Init
  <2>2. slot \in 0 .. SlotsPerDay - 1 /\ ticks \in 0 .. SlotTicks - 1
    BY TimerAssumption DEF Init
  <2>3. loopAge \in 0 .. RUN_DELAY + MaxLag /\ wday \in Days
    BY TimerAssumption DEF Init, Days
  <2>4. posting \in BOOLEAN /\ pass \in BOOLEAN /\ visited \in BOOLEAN /\ dangling \in BOOLEAN
    BY DEF Init
  <2>5. /\ auto_start \in BOOLEAN /\ fault \in BOOLEAN /\ pump_running \in BOOLEAN
        /\ clockSet \in BOOLEAN /\ served \subseteq 1 .. MAX_AUTOSTART /\ whole \in BOOLEAN
    BY DEF Init
  <2>6. pos \in Nat \ {0}
    BY DEF Init
  <2> QED BY <1>1, <2>1, <2>2, <2>3, <2>4, <2>5, <2>6 DEF Types
<1>3. Bounded /\ Walks /\ Undisturbed /\ PassedAreServed
  BY <1>1, NoTimings, TimerAssumption
     DEF Init, Bounded, Walks, Undisturbed, PassedAreServed
<1> QED BY <1>2, <1>3 DEF IInv

(* loop() begins a walk, unless its timings cannot work.                   *)
LEMMA BeginStep == IInv /\ Begin => IInv'
<1> SUFFICES ASSUME IInv, Begin PROVE IInv'
  OBVIOUS
<1>1. Len(timings) \in Nat /\ (timings # <<>> => Len(timings) \in Nat \ {0})
  BY EmptySeq, LenProperties DEF IInv, Types
<1>2. auto_start' = (clockSet /\ ~fault) /\ pass' = (auto_start' /\ timings # <<>>)
  BY DEF Begin
<1>3. Types'
  <2>1. auto_start' \in BOOLEAN /\ pass' \in BOOLEAN
    BY <1>2
  <2>2. loopAge' \in 0 .. RUN_DELAY + MaxLag /\ pos' \in Nat \ {0}
    BY TimerAssumption DEF Begin
  <2>3. visited' \in BOOLEAN
    BY DEF Begin
  <2> QED BY <2>1, <2>2, <2>3 DEF Begin, IInv, Types, list, clock
<1>4. Bounded' /\ Walks' /\ Undisturbed'
  BY <1>1, <1>2, TimerAssumption
     DEF Begin, IInv, Types, Bounded, Walks, Undisturbed, list, clock
<1>5. PassedAreServed'
  <2> SUFFICES ASSUME whole', NEW n \in 1 .. Len(timings'),
                      pass' => n < pos' \/ (n = pos' /\ visited')
               PROVE  FALSE
    BY DEF PassedAreServed
  <2>1. timings' = timings /\ pos' = 1 /\ ~visited' /\ whole
    BY DEF Begin, list
  <2>2. Len(timings) # 0
    BY <1>1, <2>1
  <2>3. timings # <<>>
    BY <2>2, NoTimings
  <2>4. pass'
    BY <1>2, <2>1, <2>3 DEF IInv, Undisturbed
  <2> QED BY <2>1, <2>4
<1> QED BY <1>3, <1>4, <1>5 DEF IInv

LEMMA VisitStep == IInv /\ Visit => IInv'
<1> SUFFICES ASSUME IInv, Visit PROVE IInv'
  OBVIOUS
<1>1. pump_running' \in BOOLEAN /\ served \subseteq served' /\ served' \subseteq served \cup {pos}
  BY DEF Visit, IInv, Types
<1>2. Due(timings[pos]) => pos \in served'
  BY DEF Visit
<1>5. served' \subseteq 1 .. MAX_AUTOSTART
  BY <1>1 DEF IInv, Types, Walks
<1>3. Types' /\ Bounded' /\ Walks' /\ Undisturbed'
  BY <1>1, <1>5 DEF Visit, IInv, Types, Bounded, Walks, Undisturbed, list, clock
<1>4. PassedAreServed'
  BY <1>1, <1>2 DEF Visit, IInv, Types, PassedAreServed, Served, Due, list, clock
<1> QED BY <1>3, <1>4 DEF IInv

LEMMA AdvanceStep == IInv /\ (Advance \/ VisitFreed) => IInv'
<1>1. ASSUME IInv, Advance PROVE IInv'
  <2>1. Len(timings) \in Nat /\ Len(incoming) \in Nat /\ pos \in Nat \ {0} /\ pos <= Len(timings)
    BY <1>1, LenProperties DEF Advance, IInv, Types, Walks
  <2>2. /\ pass /\ ~dangling /\ visited /\ ~visited'
        /\ UNCHANGED <<list, dangling, auto_start, fault, pump_running,
                       clock, loopAge, served, whole>>
    BY <1>1 DEF Advance
  <2>3. \/ pos < Len(timings) /\ pos' = pos + 1 /\ pass'
        \/ pos = Len(timings) /\ ~pass' /\ pos' = pos
    BY <1>1 DEF Advance
  <2>4. pos' \in Nat \ {0} /\ pos' <= Len(timings)
    BY <2>1, <2>3
  <2>5. pass' \in BOOLEAN /\ visited' \in BOOLEAN
    BY <1>1 DEF Advance, IInv, Types
  <2>6. Types' /\ Bounded' /\ Undisturbed'
    BY <1>1, <2>2, <2>4, <2>5 DEF IInv, Types, Bounded, Undisturbed, list, clock
  <2>7. Walks'
    BY <1>1, <2>1, <2>2, <2>4, TimerAssumption DEF IInv, Bounded, Walks, list
  <2>8. PassedAreServed'
    <3> SUFFICES ASSUME whole, loopAge <= ticks, NEW n \in 1 .. Len(timings),
                        pass' => n < pos'
                 PROVE  Served(n)
      BY <2>2 DEF PassedAreServed, Served, Due, list, clock
    <3>1. n < pos \/ (n = pos /\ visited)
      BY <2>1, <2>2, <2>3
    <3> QED BY <1>1, <2>2, <3>1 DEF IInv, PassedAreServed
  <2> QED BY <2>6, <2>7, <2>8 DEF IInv
<1>2. ASSUME IInv, VisitFreed PROVE IInv'
  BY <1>2 DEF VisitFreed, IInv, Types, Bounded, Walks, Undisturbed, PassedAreServed, list, clock
<1> QED BY <1>1, <1>2

LEMMA UpdateStep == IInv /\ AsyncTcp => IInv'
<1>1. ASSUME IInv, NEW l \in Lists, Clear(l) PROVE IInv'
  <2>1. l \in Seq(Timings) /\ Len(l) <= MAX_AUTOSTART /\ Len(l) \in Nat
    BY ListsAreSequences, LenProperties
  <2>2. timings' = <<>> /\ incoming' = l /\ posting' = TRUE /\ dangling' = pass /\ whole' = FALSE
    BY <1>1 DEF Clear
  <2>3. Len(timings') = 0 /\ timings' \in Seq(Timings)
    BY <2>2, NoTimings
  <2>4. Types'
    BY <1>1, <2>1, <2>2, <2>3 DEF Clear, IInv, Types, clock
  <2>5. Bounded'
    BY <2>1, <2>2, <2>3 DEF Bounded
  <2>6. Walks' /\ Undisturbed' /\ PassedAreServed'
    BY <1>1, <2>2 DEF Clear, IInv, Types, Walks, Undisturbed, PassedAreServed
  <2> QED BY <2>4, <2>5, <2>6 DEF IInv
<1>2. ASSUME IInv, PushBack PROVE IInv'
  <2>1. incoming \in Seq(Timings) /\ incoming # <<>> /\ timings \in Seq(Timings)
    BY <1>2 DEF PushBack, IInv, Types
  <2>2. /\ Head(incoming) \in Timings /\ Tail(incoming) \in Seq(Timings)
        /\ Len(Tail(incoming)) = Len(incoming) - 1 /\ Len(incoming) \in Nat
    BY <2>1, HeadTailProperties, LenProperties
  <2>3. timings' = Append(timings, Head(incoming)) /\ incoming' = Tail(incoming)
    BY <1>2 DEF PushBack
  <2>4. timings' \in Seq(Timings) /\ Len(timings') = Len(timings) + 1 /\ Len(timings) \in Nat
    BY <2>1, <2>2, <2>3, AppendProperties, LenProperties
  <2>5. Types'
    BY <1>2, <2>2, <2>3, <2>4 DEF PushBack, IInv, Types, walk, clock
  <2>6. Bounded'
    BY <1>2, <2>2, <2>3, <2>4 DEF IInv, Bounded
  <2>7. Walks'
    BY <1>2, <2>4 DEF PushBack, IInv, Types, Walks, walk
  <2>8. Undisturbed' /\ PassedAreServed'
    BY <1>2 DEF PushBack, Undisturbed, PassedAreServed
  <2> QED BY <2>5, <2>6, <2>7, <2>8 DEF IInv
<1>3. ASSUME IInv, Posted PROVE IInv'
  BY <1>3 DEF Posted, IInv, Types, Bounded, Walks, Undisturbed, PassedAreServed, walk, clock
<1> QED BY <1>1, <1>2, <1>3 DEF AsyncTcp

LEMMA WorldStep == IInv /\ (Fault \/ Others \/ SetClock) => IInv'
<1>1. ASSUME IInv, Fault PROVE IInv'
  BY <1>1 DEF Fault, IInv, Types, Bounded, Walks, Undisturbed, PassedAreServed, list, walk, clock
<1>2. ASSUME IInv, Others PROVE IInv'
  BY <1>2 DEF Others, IInv, Types, Bounded, Walks, Undisturbed, PassedAreServed, Served, Due,
              list, walk, clock
<1>3. ASSUME IInv, SetClock PROVE IInv'
  <2>1. ticks' \in 0 .. SlotTicks - 1
    BY <1>3, TimerAssumption DEF SetClock
  <2>2. Types'
    BY <1>3, <2>1 DEF SetClock, IInv, Types, list, walk
  <2>3. Bounded' /\ Walks' /\ Undisturbed' /\ PassedAreServed'
    BY <1>3 DEF SetClock, IInv, Bounded, Walks, Undisturbed, PassedAreServed, list, walk
  <2> QED BY <2>2, <2>3 DEF IInv
<1> QED BY <1>1, <1>2, <1>3

LEMMA TimeStep == IInv /\ (Tick \/ NextSlot) => IInv'
<1>1. ASSUME IInv, Tick PROVE IInv'
  <2>1. /\ ticks' = ticks + 1 /\ loopAge' = loopAge + 1
        /\ ticks' \in 0 .. SlotTicks - 1 /\ loopAge' \in 0 .. RUN_DELAY + MaxLag
        /\ loopAge' <= ticks' <=> loopAge <= ticks
    BY <1>1, TimerAssumption DEF Tick, MayTick, IInv, Types
  <2>2. UNCHANGED <<list, walk, auto_start, fault, pump_running, clockSet, wday, slot,
                    served, whole>>
    BY <1>1 DEF Tick
  <2>3. Types' /\ Bounded' /\ Walks' /\ Undisturbed'
    BY <1>1, <2>1, <2>2 DEF IInv, Types, Bounded, Walks, Undisturbed, list, walk
  <2>4. PassedAreServed'
    BY <1>1, <2>1, <2>2 DEF IInv, PassedAreServed, Served, Due, list, walk
  <2> QED BY <2>3, <2>4 DEF IInv
<1>2. ASSUME IInv, NextSlot PROVE IInv'
  <2>1. ~pass /\ ~pass' /\ ticks' = 0 /\ loopAge' = loopAge + 1
    BY <1>2 DEF NextSlot, MayTick, walk
  <2>2. loopAge' \in 0 .. RUN_DELAY + MaxLag /\ ~(loopAge' <= ticks') /\ ticks' \in 0 .. SlotTicks - 1
    BY <1>2, <2>1, TimerAssumption DEF NextSlot, MayTick, IInv, Types
  <2>3. slot' \in 0 .. SlotsPerDay - 1
    BY <1>2, TimerAssumption DEF NextSlot, IInv, Types
  <2>4. wday' \in Days
    BY <1>2 DEF NextSlot, IInv, Types, Days
  <2>5. UNCHANGED <<list, walk, auto_start, fault, pump_running, clockSet>>
        /\ served' = {} /\ whole' = (clockSet /\ ~fault /\ ~posting)
    BY <1>2 DEF NextSlot
  <2>6. served' \subseteq 1 .. MAX_AUTOSTART /\ whole' \in BOOLEAN
    BY <2>5
  <2>7. Types'
    BY <1>2, <2>2, <2>3, <2>4, <2>5, <2>6 DEF IInv, Types, list, walk
  <2>8. Bounded' /\ Walks' /\ Undisturbed'
    BY <1>2, <2>1, <2>5 DEF IInv, Bounded, Walks, Undisturbed, list, walk
  <2>9. PassedAreServed'
    BY <2>2 DEF PassedAreServed
  <2> QED BY <2>7, <2>8, <2>9 DEF IInv
<1> QED BY <1>1, <1>2

LEMMA Inductive == IInv /\ [Next]_vars => IInv'
<1> SUFFICES ASSUME IInv, [Next]_vars PROVE IInv'
  OBVIOUS
<1>1. CASE UNCHANGED vars
  BY <1>1 DEF IInv, Types, Bounded, Walks, Undisturbed, PassedAreServed, Served, Due,
              vars, list, walk, clock, hist
<1>2. CASE Services
  BY <1>2, BeginStep, VisitStep, AdvanceStep DEF Services
<1>3. CASE AsyncTcp
  BY <1>3, UpdateStep
<1>4. CASE Fault \/ Others \/ SetClock \/ Tick \/ NextSlot
  BY <1>4, WorldStep, TimeStep
<1> QED BY <1>1, <1>2, <1>3, <1>4 DEF Next

LEMMA Invariance == Spec => []IInv
BY InitIInv, Inductive, PTL DEF Spec

(* No list that is stored outgrows MAX_AUTOSTART (PumpAutoStart::update),  *)
(* and the iterator never leaves it.                                       *)
THEOREM TypeCorrect == Spec => []TypeOK
<1>1. IInv => TypeOK
  <2> SUFFICES ASSUME IInv PROVE TypeOK
    OBVIOUS
  <2>1. Len(timings) \in Nat /\ Len(incoming) \in Nat
    BY LenProperties DEF IInv, Types
  <2>2. Len(timings) <= MAX_AUTOSTART /\ pos \in 1 .. MAX_AUTOSTART
    BY <2>1, TimerAssumption DEF IInv, Types, Bounded, Walks
  <2> QED BY <2>2 DEF IInv, Types, TypeOK
<1> QED BY <1>1, Invariance, PTL

(* No due timing is missed in an undisturbed slot, however long the list,  *)
(* the slot and the lag of the other services                              *)
(* (PumpAutoSettingService::loop): a slot is longer than the loop's period,*)
(* so that a walk begins in it, and no walk is left half way.              *)
THEOREM NoTimingMissedHolds == Spec => NoTimingMissed
<1> DEFINE Missed == NextSlot /\ whole /\ \E n \in DOMAIN timings : Due(timings[n]) /\ n \notin served
<1>1. IInv /\ [Next]_vars => ~Missed
  <2> SUFFICES ASSUME IInv, Missed PROVE FALSE
    OBVIOUS
  <2>1. PICK n \in DOMAIN timings : Due(timings[n]) /\ n \notin served
    OBVIOUS
  <2>2. n \in 1 .. Len(timings)
    BY LenProperties DEF IInv, Types
  <2>3. ~pass /\ loopAge < RUN_DELAY + MaxLag /\ ticks + 1 = SlotTicks
    BY DEF NextSlot, MayTick
  <2>4. loopAge <= ticks
    BY <2>3, TimerAssumption DEF IInv, Types
  <2>5. Served(n)
    BY <2>2, <2>3, <2>4 DEF IInv, PassedAreServed
  <2> QED BY <2>1, <2>5 DEF Served
<1>2. ~Missed => (NextSlot /\ whole => \A n \in DOMAIN timings : Due(timings[n]) => n \in served)
  OBVIOUS
<1> HIDE DEF Missed
<1> QED BY <1>1, <1>2, Invariance, PTL DEF Spec, NoTimingMissed
=============================================================================
