--------------------------- MODULE AutoStartTimer ---------------------------
(***************************************************************************)
(* The auto-start timings: PumpAutoSettingService::loop on the Services    *)
(* task, PumpAutoStart::update on async_tcp, and the week buttons of the   *)
(* web page, which write the byte that loop() reads.                       *)
(*                                                                         *)
(* loop() walks the std::list of timings without the lock update() holds   *)
(* while it clears and refills it.  A timing is what the operator chose: a *)
(* slot (hour and minute), a set of week days and the switch; a clock slot *)
(* stands for one minute, and a day has SlotsPerDay of them.               *)
(***************************************************************************)
EXTENDS Integers, Sequences

CONSTANTS
  Timings,        \* the timings an operator may post
  MAX_AUTOSTART,  \* 5 in the code
  SlotsPerDay,
  SlotTicks,      \* length of a slot
  RUN_DELAY,      \* RUN_DELAY_AUTO_START
  MaxLag          \* what the other loops of Services may add to it

Days == 0 .. 6    \* tm_wday: 0 is Sunday

ASSUME TimerAssumption ==
  /\ MAX_AUTOSTART \in Nat \ {0} /\ SlotsPerDay \in Nat \ {0}
  /\ RUN_DELAY \in Nat \ {0} /\ MaxLag \in Nat
  /\ SlotTicks \in Nat /\ SlotTicks > RUN_DELAY + MaxLag
  /\ Timings \subseteq [slot : 0 .. SlotsPerDay - 1, days : SUBSET Days, on : BOOLEAN]

VARIABLES
  timings,       \* _state.timings
  incoming,      \* posted timings update() has not stored yet
  posting,       \* update() is running
  pass,          \* loop() is inside its for statement
  pos,           \* the node its iterator is at
  visited,       \* the body has run for that node
  dangling,      \* that node has been freed
  auto_start, fault, pump_running,
  clockSet,      \* the year is 2022 at least
  wday, slot, ticks,
  loopAge,       \* age of _last_millis
  served,        \* history: positions at which this slot saw start() called for
                 \* a due timing, or a pump already running
  whole          \* history: this slot is undisturbed since it began

clock == <<clockSet, wday, slot, ticks>>
list  == <<timings, incoming, posting>>
walk  == <<pass, pos, visited, dangling>>
hist  == <<served, whole>>
vars  == <<list, walk, auto_start, fault, pump_running, clock, loopAge, hist>>

(* update() refuses more than MAX_AUTOSTART timings before it touches any. *)
Lists == UNION {[1 .. n -> Timings] : n \in 0 .. MAX_AUTOSTART}

Init ==
  /\ timings \in Lists /\ incoming = <<>> /\ posting = FALSE
  /\ pass = FALSE /\ pos = 1 /\ visited = FALSE
  /\ dangling = FALSE
  /\ auto_start = TRUE /\ fault = FALSE /\ pump_running = FALSE
  /\ clockSet = FALSE /\ wday = 0 /\ slot = 0 /\ ticks = 0
  /\ loopAge = 0
  /\ served = {} /\ whole = FALSE

-----------------------------------------------------------------------------
(* weekAndState: the page toggles bit d for its d-th button, Sunday first, *)
(* and bit 7 for the switch; the loop tests 1 << 7 and 0x40 >> tm_wday, so *)
(* that a timing for Sunday is due on Saturday.                            *)
weekAndState(t) == t.days \cup (IF t.on THEN {7} ELSE {})

Due(t) == 7 \in weekAndState(t) /\ (6 - wday) \in weekAndState(t) /\ t.slot = slot

(* Mutants: the walk begun at the second timing, and auto_start left as it *)
(* was when the loop gives up.                                             *)
BeginSecond ==
  /\ ~pass /\ loopAge >= RUN_DELAY
  /\ loopAge' = 0
  /\ auto_start' = (clockSet /\ ~fault)
  /\ pass' = (auto_start' /\ Len(timings) >= 2)
  /\ pos' = 2 /\ visited' = FALSE
  /\ UNCHANGED <<list, dangling, fault, pump_running, clock, served, whole>>

BeginKeeping ==
  /\ ~pass /\ loopAge >= RUN_DELAY
  /\ loopAge' = 0
  /\ auto_start' = (auto_start \/ (clockSet /\ ~fault))
  /\ pass' = (clockSet /\ ~fault /\ timings # <<>>)
  /\ pos' = 1 /\ visited' = FALSE
  /\ UNCHANGED <<list, dangling, fault, pump_running, clock, served, whole>>

Begin ==
  /\ ~pass /\ loopAge >= RUN_DELAY
  /\ loopAge' = 0
  /\ auto_start' = (clockSet /\ ~fault)
  /\ pass' = (auto_start' /\ timings # <<>>)
  /\ pos' = 1 /\ visited' = FALSE
  /\ UNCHANGED <<list, dangling, fault, pump_running, clock, served, whole>>

(* The body of the for statement, then its iterator.  marked[], which the  *)
(* body writes and nobody reads, is left out.                              *)
(* start() may refuse: the pump's state after it is PumpStartStop's        *)
(* business.                                                               *)
Visit ==
  /\ pass /\ ~dangling /\ ~visited
  /\ visited' = TRUE
  /\ \/ ~pump_running /\ Due(timings[pos]) /\ pump_running' \in BOOLEAN
     \/ (pump_running \/ ~Due(timings[pos])) /\ UNCHANGED pump_running
  /\ served' = IF pump_running \/ Due(timings[pos]) THEN served \cup {pos} ELSE served
  /\ UNCHANGED <<list, pass, pos, dangling, auto_start, fault, clock, loopAge, whole>>

Advance ==
  /\ pass /\ ~dangling /\ visited
  /\ \/ pos < Len(timings) /\ pos' = pos + 1 /\ UNCHANGED pass
     \/ pos = Len(timings) /\ pass' = FALSE /\ UNCHANGED pos
  /\ visited' = FALSE
  /\ UNCHANGED <<list, dangling, auto_start, fault, pump_running,
                 clock, loopAge, served, whole>>

(* What a freed node says is anybody's guess: a due timing or not.  Its    *)
(* next pointer is taken to lead back to the end of the list at once.      *)
VisitFreed ==
  /\ pass /\ dangling
  /\ pump_running' \in {pump_running, TRUE}
  /\ pass' = FALSE /\ dangling' = FALSE /\ visited' = FALSE
  /\ UNCHANGED <<list, pos, auto_start, fault, clock, loopAge, served, whole>>

Services == Begin \/ Visit \/ Advance \/ VisitFreed

-----------------------------------------------------------------------------
(* PumpAutoStart::update, one list operation per step.                     *)
Clear(l) ==
  /\ ~posting /\ l \in Lists
  /\ posting' = TRUE /\ incoming' = l
  /\ timings' = <<>>
  /\ dangling' = pass
  /\ whole' = FALSE
  /\ UNCHANGED <<pass, pos, visited, auto_start, fault, pump_running, clock,
                 loopAge, served>>

PushBack ==
  /\ posting /\ incoming # <<>>
  /\ timings' = Append(timings, Head(incoming))
  /\ incoming' = Tail(incoming)
  /\ whole' = FALSE
  /\ UNCHANGED <<posting, walk, auto_start, fault, pump_running, clock, loopAge, served>>

Posted ==
  /\ posting /\ incoming = <<>>
  /\ posting' = FALSE
  /\ whole' = FALSE
  /\ UNCHANGED <<timings, incoming, walk, auto_start, fault, pump_running, clock,
                 loopAge, served>>

AsyncTcp == (\E l \in Lists : Clear(l)) \/ PushBack \/ Posted

-----------------------------------------------------------------------------
(* The world: faults come and go, the pump is stopped or started by others,*)
(* and the clock runs or is set, by NTP, by hand or by a time zone.        *)
Fault ==
  /\ fault' = ~fault
  /\ whole' = FALSE
  /\ UNCHANGED <<list, walk, auto_start, pump_running, clock, loopAge, served>>

Others ==
  /\ pump_running' = ~pump_running
  /\ UNCHANGED <<list, walk, auto_start, fault, clock, loopAge, served, whole>>

SetClock ==
  /\ ~pass
  /\ clockSet' = TRUE
  /\ wday' \in Days /\ slot' \in 0 .. SlotsPerDay - 1 /\ ticks' = 0
  /\ whole' = FALSE
  /\ UNCHANGED <<list, walk, auto_start, fault, pump_running, loopAge, served>>

(* Services comes back to this loop in time; a walk takes no time.         *)
MayTick == ~pass /\ loopAge < RUN_DELAY + MaxLag

Tick ==
  /\ MayTick /\ ticks + 1 < SlotTicks
  /\ ticks' = ticks + 1 /\ loopAge' = loopAge + 1
  /\ UNCHANGED <<list, walk, auto_start, fault, pump_running, clockSet, wday, slot,
                 served, whole>>

NextSlot ==
  /\ MayTick /\ ticks + 1 = SlotTicks
  /\ ticks' = 0 /\ loopAge' = loopAge + 1
  /\ slot' = (slot + 1) % SlotsPerDay
  /\ wday' = IF slot' = 0 THEN (wday + 1) % 7 ELSE wday
  /\ served' = {} /\ whole' = (clockSet /\ ~fault /\ ~posting)
  /\ UNCHANGED <<list, walk, auto_start, fault, pump_running, clockSet>>

Next ==
  \/ Services \/ AsyncTcp
  \/ Fault \/ Others \/ SetClock \/ Tick \/ NextSlot

Spec == Init /\ [][Next]_vars

FairSpec == Spec /\ WF_vars(Services) /\ WF_vars(Tick \/ NextSlot)

-----------------------------------------------------------------------------
(* Properties.                                                             *)

TypeOK ==
  /\ timings \in Seq(Timings) /\ Len(timings) <= MAX_AUTOSTART
  /\ incoming \in Seq(Timings) /\ posting \in BOOLEAN
  /\ pass \in BOOLEAN /\ pos \in 1 .. MAX_AUTOSTART /\ visited \in BOOLEAN
  /\ dangling \in BOOLEAN
  /\ auto_start \in BOOLEAN /\ fault \in BOOLEAN /\ pump_running \in BOOLEAN
  /\ clockSet \in BOOLEAN /\ wday \in Days /\ slot \in 0 .. SlotsPerDay - 1
  /\ ticks \in 0 .. SlotTicks - 1 /\ loopAge \in 0 .. RUN_DELAY + MaxLag
  /\ served \subseteq 1 .. MAX_AUTOSTART /\ whole \in BOOLEAN

(* No timing is missed: a slot that nobody disturbs does not end before,   *)
(* for each timing that was due in it, start() was called or the loop had  *)
(* come to it with the pump running.                                       *)
NoTimingMissed ==
  [][NextSlot /\ whole => \A n \in DOMAIN timings : Due(timings[n]) => n \in served]_vars

(* auto_start tells the page whether timings can work: a fault that lasts  *)
(* turns it off, and a set clock without faults turns it on.               *)
AutoStartTold ==
  /\ <>[]fault => <>[]~auto_start
  /\ <>[](clockSet /\ ~fault) => <>[]auto_start
=============================================================================
