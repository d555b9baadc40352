---------------------------- MODULE Network_proofs ----------------------------
(***************************************************************************)
(* Proofs about Network for any networks, any number of changed settings   *)
(* and of networks that come and go.                                       *)
(***************************************************************************)
EXTENDS Network, SequenceTheorems, TLAPS

EventNames == {"gotIP", "disconnected", "stop"}
ServicesPlaces == {"wifi", "attempt", "manageSTA", "config", "begin", "ap", "startAP", "stopAP"}
Places == ServicesPlaces \cup {"idle", "ntp", "sntp", "drop", "mark", "stop"}

Types ==
  /\ events \in Seq(EventNames) /\ connected \in BOOLEAN /\ enabled \in BOOLEAN
  /\ sta \in BOOLEAN /\ inReach \subseteq Networks
  /\ pc \in [Tasks -> Places] /\ pc["services"] \in ServicesPlaces
  /\ want \in [Tasks -> BOOLEAN]

(* Only Services turns the station on.                                     *)
StationOff ==
  /\ link # NoNet => sta
  /\ pc["services"] \in {"config", "begin"} => ~sta

(* The status when the first n of the events evs have been handled, status *)
(* c being that of before.                                                 *)
Off(c, evs, n) ==
  \/ ~c /\ \A k \in 1 .. n : evs[k] # "gotIP"
  \/ \E j \in 1 .. n : evs[j] = "disconnected" /\ \A k \in j .. n : evs[k] # "gotIP"

(* A station that is stopped or joins nothing has been disconnected, as    *)
(* the events tell: the event of the stop changes nothing.                 *)
StopsAreOff(c, evs) == \A n \in 1 .. Len(evs) : evs[n] = "stop" => Off(c, evs, n - 1)

OffBeforeStop == StopsAreOff(connected, events)
OffWithoutLink == link = NoNet => Off(connected, events, Len(events))

Due == "ntp" \in open \/ pc["event"] = "drop"
Running(t) == pc[t] \in {"ntp", "sntp"}

(* The client follows what is wanted unless a run of configureNTP is due.  *)
Follows ==
  ~raced /\ ~Due /\ (\A t \in Tasks : ~Running(t)) => (sntp <=> connected /\ enabled)

(* A run that is not overlapped acts on what is still so.                  *)
ReadIsCurrent ==
  \A t \in Tasks :
    ~raced /\ ~Due /\ pc[t] = "sntp" => (want[t] <=> connected /\ enabled)

IInv ==
  /\ Types /\ StationOff /\ OffBeforeStop /\ OffWithoutLink
  /\ Follows /\ ReadIsCurrent

-----------------------------------------------------------------------------
(* The status along the queue of events.                                   *)

LEMMA OffAppend ==
  ASSUME NEW c \in BOOLEAN, NEW s \in Seq(EventNames), NEW e \in EventNames,
         NEW n \in 0 .. Len(s), Off(c, s, n)
  PROVE  Off(c, Append(s, e), n)
<1>1. Len(s) \in Nat /\ \A k \in 1 .. Len(s) : Append(s, e)[k] = s[k]
  BY AppendProperties, LenProperties
<1> QED BY <1>1 DEF Off

LEMMA OffStays ==
  ASSUME NEW c \in BOOLEAN, NEW s \in Seq(EventNames), NEW e \in EventNames \ {"gotIP"},
         Off(c, s, Len(s)) \/ e = "disconnected"
  PROVE  Off(c, Append(s, e), Len(s) + 1)
<1>1. /\ Len(s) \in Nat /\ \A k \in 1 .. Len(s) : Append(s, e)[k] = s[k]
      /\ Append(s, e)[Len(s) + 1] = e
  BY AppendProperties, LenProperties
<1>2. CASE Off(c, s, Len(s))
  BY <1>1, <1>2 DEF Off
<1>3. CASE e = "disconnected"
  BY <1>1, <1>3 DEF Off
<1> QED BY <1>2, <1>3

(* Adding an event keeps OffBeforeStop, if a stop finds the status off.    *)
LEMMA StopAppend ==
  ASSUME NEW c \in BOOLEAN, NEW s \in Seq(EventNames), NEW e \in EventNames,
         StopsAreOff(c, s), e = "stop" => Off(c, s, Len(s))
  PROVE  StopsAreOff(c, Append(s, e))
<1> SUFFICES ASSUME NEW n \in 1 .. Len(Append(s, e)), Append(s, e)[n] = "stop"
             PROVE  Off(c, Append(s, e), n - 1)
  BY DEF StopsAreOff
<1>1. /\ Len(s) \in Nat /\ \A k \in 1 .. Len(s) : Append(s, e)[k] = s[k]
      /\ Append(s, e)[Len(s) + 1] = e /\ Len(Append(s, e)) = Len(s) + 1
  BY AppendProperties, LenProperties
<1>2. n - 1 \in 0 .. Len(s) /\ Off(c, s, n - 1)
  <2>1. CASE n = Len(s) + 1
    BY <1>1, <2>1
  <2>2. CASE n # Len(s) + 1
    BY <1>1, <2>2 DEF StopsAreOff
  <2> QED BY <2>1, <2>2
<1> QED BY <1>2, OffAppend

(* Handling the first event gives the status that the rest starts from.    *)
LEMMA OffTail ==
  ASSUME NEW c \in BOOLEAN, NEW s \in Seq(EventNames), s # <<>>,
         NEW n \in 1 .. Len(s), Off(c, s, n), NEW d \in BOOLEAN,
         d => s[1] = "gotIP" \/ (c /\ s[1] # "disconnected")
  PROVE  Off(d, Tail(s), n - 1)
<1>1. /\ Len(s) \in Nat /\ Tail(s) \in Seq(EventNames) /\ Len(Tail(s)) = Len(s) - 1
      /\ \A i \in 1 .. Len(Tail(s)) : Tail(s)[i] = s[i + 1]
  BY HeadTailProperties, LenProperties
<1>2. \A k \in 1 .. n - 1 : Tail(s)[k] = s[k + 1]
  BY <1>1
<1>3. CASE ~c /\ \A k \in 1 .. n : s[k] # "gotIP"
  <2>1. ~d
    BY <1>1, <1>3
  <2>2. \A k \in 1 .. n - 1 : Tail(s)[k] # "gotIP"
    BY <1>1, <1>2, <1>3
  <2> QED BY <2>1, <2>2 DEF Off
<1>4. CASE \E j \in 1 .. n : s[j] = "disconnected" /\ \A k \in j .. n : s[k] # "gotIP"
  <2>1. PICK j \in 1 .. n : s[j] = "disconnected" /\ \A k \in j .. n : s[k] # "gotIP"
    BY <1>4
  <2>2. CASE j = 1
    <3>1. ~d
      BY <2>1, <2>2
    <3>2. \A k \in 1 .. n - 1 : Tail(s)[k] # "gotIP"
      BY <1>1, <1>2, <2>1, <2>2
    <3> QED BY <3>1, <3>2 DEF Off
  <2>3. CASE j # 1
    <3>1. j - 1 \in 1 .. n - 1 /\ Tail(s)[j - 1] = "disconnected"
      BY <1>1, <1>2, <2>1, <2>3
    <3>2. \A k \in j - 1 .. n - 1 : Tail(s)[k] # "gotIP"
      BY <1>1, <1>2, <2>1, <2>3
    <3> QED BY <3>1, <3>2 DEF Off
  <2> QED BY <2>2, <2>3
<1> QED BY <1>3, <1>4 DEF Off

LEMMA StopsTail ==
  ASSUME NEW c \in BOOLEAN, NEW s \in Seq(EventNames), s # <<>>, StopsAreOff(c, s), NEW d \in BOOLEAN,
         d => s[1] = "gotIP" \/ (c /\ s[1] # "disconnected")
  PROVE  StopsAreOff(d, Tail(s))
<1> SUFFICES ASSUME NEW n \in 1 .. Len(Tail(s)), Tail(s)[n] = "stop"
             PROVE  Off(d, Tail(s), n - 1)
  BY DEF StopsAreOff
<1>1. /\ Len(s) \in Nat /\ Len(Tail(s)) = Len(s) - 1 /\ Tail(s)[n] = s[n + 1]
  BY HeadTailProperties, LenProperties
<1>2. n \in 1 .. Len(s) /\ n + 1 \in 1 .. Len(s) /\ (n + 1) - 1 = n
  BY <1>1
<1>3. Off(c, s, n)
  BY <1>1, <1>2 DEF StopsAreOff
<1> QED BY <1>2, <1>3, OffTail

-----------------------------------------------------------------------------
LEMMA InitIInv == Init => IInv
<1> SUFFICES ASSUME Init PROVE IInv
  OBVIOUS
<1>1. Len(<<>>) = 0
  BY EmptySeq
<1>2. events \in Seq(EventNames)
  BY EmptySeq DEF Init
<1>3. /\ pc \in [Tasks -> Places] /\ want \in [Tasks -> BOOLEAN]
      /\ pc["services"] = "wifi" /\ pc["async"] = "idle" /\ pc["event"] = "idle"
  <2>1. pc = [t \in Tasks |-> IF t = "services" THEN "wifi" ELSE "idle"]
    BY DEF Init
  <2>2. pc["services"] = "wifi" /\ pc["async"] = "idle" /\ pc["event"] = "idle"
    BY <2>1 DEF Tasks
  <2>3. \A t \in Tasks : (IF t = "services" THEN "wifi" ELSE "idle") \in Places
    BY DEF Places, ServicesPlaces
  <2> QED BY <2>1, <2>2, <2>3 DEF Init
<1>4. Types /\ StationOff
  BY <1>2, <1>3 DEF Init, Types, StationOff, ServicesPlaces
<1>5. OffBeforeStop /\ OffWithoutLink
  BY <1>1 DEF Init, OffBeforeStop, OffWithoutLink, StopsAreOff, Off
<1>6. Follows /\ ReadIsCurrent
  BY <1>3 DEF Init, Follows, ReadIsCurrent, Tasks
<1> QED BY <1>4, <1>5, <1>6 DEF IInv

(* A task that goes on changes no other one's place.                       *)
LEMMA Gone ==
  ASSUME Types, NEW task \in Tasks, NEW from, NEW to \in Places, Goto(task, from, to)
  PROVE  /\ pc' \in [Tasks -> Places] /\ pc[task] = from /\ pc'[task] = to
         /\ \A t \in Tasks \ {task} : pc'[t] = pc[t]
BY DEF Types, Goto

(* What has nothing to do with configureNTP leaves its part alone.         *)
LEMMA SameNtp ==
  ASSUME Follows, ReadIsCurrent, UNCHANGED <<connected, enabled, sntp, want, raced>>, Due => Due',
         \A t \in Tasks : Running(t) <=> Running(t)',
         \A t \in Tasks : pc'[t] = "sntp" => pc[t] = "sntp"
  PROVE  Follows' /\ ReadIsCurrent'
BY DEF Follows, ReadIsCurrent

(* Entering it makes all of its promises wait.                             *)
LEMMA EnterNtp ==
  ASSUME Types, NEW task \in Tasks, Enter(task), pc'[task] = "ntp",
         \A t \in Tasks \ {task} : pc'[t] = pc[t]
  PROVE  Follows' /\ ReadIsCurrent'
BY DEF Follows, ReadIsCurrent, Running, Enter

LEMMA SameOff ==
  ASSUME OffBeforeStop, OffWithoutLink, UNCHANGED <<events, connected>>,
         link' = NoNet => link = NoNet
  PROVE  OffBeforeStop' /\ OffWithoutLink'
BY DEF OffBeforeStop, OffWithoutLink

LEMMA ServicesTaskStep == IInv /\ Services => IInv'
<1> SUFFICES ASSUME IInv, Services PROVE IInv'
  OBVIOUS
<1> USE DEF ServicesPlaces
<1>1. PICK from \in ServicesPlaces, to \in ServicesPlaces :
        /\ Goto("services", from, to)
        /\ to \in {"config", "begin"} => ~sta /\ sta' = sta /\ link' = link
        /\ \/ from = "begin" /\ sta' = TRUE
           \/ link' = link /\ sta' = sta
  <2>1. CASE CheckDelay
    BY <2>1 DEF CheckDelay, driver
  <2>2. CASE Attempt
    BY <2>2 DEF Attempt, driver
  <2>3. CASE manageSTA
    BY <2>3 DEF manageSTA, driver
  <2>4. CASE ReadCredentials
    <3>1. pc["services"] = "config" /\ Goto("services", "config", "begin")
      BY <2>4 DEF ReadCredentials, Goto
    <3> QED BY <2>4, <3>1 DEF ReadCredentials, driver, IInv, StationOff
  <2>5. CASE Begin
    BY <2>5 DEF Begin, WiFiBegin
  <2>6. CASE APLoop
    BY <2>6 DEF APLoop, manageAP, driver
  <2>7. CASE startAP
    BY <2>7 DEF startAP, driver
  <2>8. CASE stopAP
    BY <2>8 DEF stopAP, driver
  <2> QED BY <2>1, <2>2, <2>3, <2>4, <2>5, <2>6, <2>7, <2>8 DEF Services
<1>2. /\ pc' \in [Tasks -> Places] /\ pc["services"] = from /\ pc'["services"] = to
      /\ \A t \in Tasks \ {"services"} : pc'[t] = pc[t]
  <2>1. "services" \in Tasks /\ to \in Places /\ Types
    BY DEF Tasks, Places, IInv
  <2> QED BY <1>1, <2>1, Gone
<1>3. /\ UNCHANGED <<settings, connected, stopping, sntp, want, raced, counts, events, inReach>>
      /\ link' = NoNet => link = NoNet
  <2>1. CASE Begin
    <3>1. link = NoNet
      BY <2>1 DEF Begin, Goto, IInv, StationOff
    <3> QED BY <2>1, <3>1 DEF Begin, WiFiBegin, ServicesStep
  <2>2. CASE ~Begin
    BY <2>2 DEF Services, CheckDelay, Attempt, manageSTA, ReadCredentials, APLoop, startAP, stopAP,
                ServicesStep, driver
  <2> QED BY <2>1, <2>2
<1>4. Types' /\ StationOff'
  <2>1. sta' \in BOOLEAN
    BY <1>1 DEF IInv, Types
  <2>2. StationOff'
    BY <1>1, <1>2 DEF IInv, StationOff
  <2> QED BY <1>1, <1>2, <1>3, <2>1, <2>2 DEF IInv, Types, settings
<1>5. OffBeforeStop' /\ OffWithoutLink'
  BY <1>3, SameOff DEF IInv
<1>6. Follows' /\ ReadIsCurrent'
  <2>1. Due => Due'
    BY <1>2, <1>3 DEF Due, Tasks, settings
  <2>2. \A t \in Tasks : (Running(t) <=> Running(t)') /\ (pc'[t] = "sntp" => pc[t] = "sntp")
    BY <1>1, <1>2 DEF Running, IInv, Types
  <2> QED BY <1>3, <2>1, <2>2, SameNtp DEF IInv, settings
<1> QED BY <1>4, <1>5, <1>6 DEF IInv

(* Events that the driver adds.                                            *)
LEMMA Disconnects ==
  ASSUME IInv, disconnect, connected' = connected
  PROVE  /\ events' \in Seq(EventNames) /\ OffBeforeStop' /\ OffWithoutLink'
         /\ sta' = FALSE /\ link' = NoNet
<1>1. /\ events \in Seq(EventNames) /\ connected \in BOOLEAN
      /\ StopsAreOff(connected, events)
      /\ link = NoNet => Off(connected, events, Len(events))
  BY DEF IInv, Types, OffBeforeStop, OffWithoutLink
<1> DEFINE lost == Append(events, "disconnected")
<1>2. /\ lost \in Seq(EventNames) /\ Len(lost) = Len(events) + 1
      /\ StopsAreOff(connected, lost) /\ Off(connected, lost, Len(lost))
  <2>1. lost \in Seq(EventNames) /\ Len(lost) = Len(events) + 1
    BY <1>1, AppendProperties DEF EventNames
  <2>2. StopsAreOff(connected, lost)
    BY <1>1, StopAppend DEF EventNames
  <2>3. Off(connected, lost, Len(events) + 1)
    BY <1>1, OffStays DEF EventNames
  <2> QED BY <2>1, <2>2, <2>3
<1>3. \A q \in Seq(EventNames) :
        /\ q \o <<"disconnected">> = Append(q, "disconnected")
        /\ q \o <<"stop">> = Append(q, "stop") /\ q \o <<>> = q
  BY AppendIsConcat, ConcatEmptySeq DEF EventNames
<1> HIDE DEF lost
<1>4. PICK q \in Seq(EventNames) :
        /\ \/ StopsAreOff(connected, q) /\ Off(connected, q, Len(q))
           \/ q = events /\ link = NoNet
        /\ events' = q \o (IF sta THEN <<"stop">> ELSE <<>>)
  <2>1. CASE link # NoNet
    <3>1. events' = lost \o (IF sta THEN <<"stop">> ELSE <<>>)
      BY <1>1, <1>3, <2>1 DEF disconnect, lost
    <3> QED BY <1>2, <3>1
  <2>2. CASE link = NoNet
    <3>1. events' = events \o (IF sta THEN <<"stop">> ELSE <<>>)
      BY <1>1, <1>3, <2>2 DEF disconnect
    <3> QED BY <1>1, <2>2, <3>1
  <2> QED BY <2>1, <2>2
<1>5. StopsAreOff(connected, q) /\ Off(connected, q, Len(q))
  BY <1>1, <1>4
<1>6. CASE sta
  <2>1. events' = Append(q, "stop")
    BY <1>3, <1>4, <1>6
  <2>2. events' \in Seq(EventNames) /\ Len(events') = Len(q) + 1
    BY <2>1, AppendProperties DEF EventNames
  <2>3. StopsAreOff(connected, events') /\ Off(connected, events', Len(q) + 1)
    BY <1>1, <1>5, <2>1, StopAppend, OffStays DEF EventNames
  <2> QED BY <2>2, <2>3 DEF OffBeforeStop, OffWithoutLink, disconnect
<1>7. CASE ~sta
  BY <1>3, <1>4, <1>5, <1>7 DEF OffBeforeStop, OffWithoutLink, disconnect
<1> QED BY <1>6, <1>7

LEMMA LinkLostOff ==
  ASSUME IInv, LinkLost, connected' = connected
  PROVE  events' \in Seq(EventNames) /\ OffBeforeStop' /\ OffWithoutLink' /\ link' = NoNet
<1>1. /\ events \in Seq(EventNames) /\ connected \in BOOLEAN /\ StopsAreOff(connected, events)
      /\ events' = Append(events, "disconnected") /\ link' = NoNet
  BY DEF IInv, Types, OffBeforeStop, LinkLost
<1>2. events' \in Seq(EventNames) /\ Len(events') = Len(events) + 1
  BY <1>1, AppendProperties DEF EventNames
<1>3. StopsAreOff(connected, events') /\ Off(connected, events', Len(events) + 1)
  BY <1>1, StopAppend, OffStays DEF EventNames
<1> QED BY <1>1, <1>2, <1>3 DEF OffBeforeStop, OffWithoutLink

(* Steps of the world outside, which change no task's place.               *)
LEMMA WorldStep == IInv /\ (Elapse \/ ManageElapse \/ Join \/ JoinFails \/ NetworksChange) => IInv'
<1> SUFFICES ASSUME IInv, Elapse \/ ManageElapse \/ Join \/ JoinFails \/ NetworksChange
             PROVE  IInv'
  OBVIOUS
<1>1. UNCHANGED <<settings, sta, connected, sntp, pc, locals, raced>>
  BY DEF Elapse, ManageElapse, Join, JoinFails, NetworksChange, Environment, driver
<1>2. /\ events' \in Seq(EventNames) /\ inReach' \subseteq Networks
      /\ OffBeforeStop' /\ OffWithoutLink' /\ link' \in {link, NoNet}
  <2>1. CASE Elapse \/ ManageElapse
    BY <2>1, SameOff DEF Elapse, ManageElapse, driver, IInv, Types
  <2>2. CASE Join
    <3>1. /\ events \in Seq(EventNames) /\ connected \in BOOLEAN /\ StopsAreOff(connected, events)
          /\ events' = Append(events, "gotIP")
      BY <2>2 DEF Join, IInv, Types, OffBeforeStop
    <3>2. link' = link /\ link # NoNet /\ inReach' \subseteq Networks
      BY <2>2, NetworkAssumption DEF Join, IInv, Types
    <3>3. events' \in Seq(EventNames) /\ StopsAreOff(connected, events')
      BY <3>1, StopAppend, AppendProperties DEF EventNames
    <3> QED BY <1>1, <3>2, <3>3 DEF OffBeforeStop, OffWithoutLink
  <2>3. CASE JoinFails
    BY <1>1, <2>3, LinkLostOff DEF JoinFails, IInv, Types
  <2>4. CASE NetworksChange
    <3>1. CASE LinkLost
      BY <1>1, <2>4, <3>1, LinkLostOff DEF NetworksChange
    <3>2. CASE UNCHANGED <<link, up, events>>
      BY <1>1, <2>4, <3>2, SameOff DEF NetworksChange, IInv, Types
    <3> QED BY <2>4, <3>1, <3>2 DEF NetworksChange
  <2> QED BY <2>1, <2>2, <2>3, <2>4
<1>3. Types' /\ StationOff'
  BY <1>1, <1>2 DEF IInv, Types, StationOff, settings, locals
<1>4. Follows' /\ ReadIsCurrent'
  BY <1>1 DEF IInv, Follows, ReadIsCurrent, Due, Running, settings, locals
<1> QED BY <1>2, <1>3, <1>4 DEF IInv

LEMMA PostStep == IInv /\ Post => IInv'
<1> SUFFICES ASSUME IInv, Post PROVE IInv'
  OBVIOUS
<1>1. /\ UNCHANGED <<driver, connected, sntp, pc, locals, raced>>
      /\ open \subseteq open' /\ enabled' \in BOOLEAN
      /\ enabled' = enabled \/ "ntp" \in open'
  BY DEF Post, IInv, Types
<1>2. Types' /\ StationOff' /\ OffBeforeStop' /\ OffWithoutLink'
  BY <1>1 DEF IInv, Types, StationOff, OffBeforeStop, OffWithoutLink, driver, locals
<1>3. Follows' /\ ReadIsCurrent'
  BY <1>1 DEF IInv, Follows, ReadIsCurrent, Due, Running, locals
<1> QED BY <1>2, <1>3 DEF IInv

LEMMA ConfigureStep ==
  ASSUME IInv, NEW t \in {"async", "event"}, configureNTP(t)
  PROVE  IInv'
<1>1. t \in Tasks /\ t # "services" /\ Types
  BY DEF Tasks, IInv
<1>2. UNCHANGED <<settings, driver, connected, raced>>
  BY DEF configureNTP, ReadConnected, StartOrStop, NtpStep
<1>3. CASE ReadConnected(t)
  <2>1. /\ pc' \in [Tasks -> Places] /\ pc[t] = "ntp" /\ pc'[t] = "sntp"
        /\ \A u \in Tasks \ {t} : pc'[u] = pc[u]
    BY <1>1, <1>3, Gone DEF ReadConnected, Places
  <2>2. want' = [want EXCEPT ![t] = IsWanted] /\ sntp' = sntp
    BY <1>3 DEF ReadConnected
  <2>3. IsWanted \in BOOLEAN /\ (IsWanted <=> connected /\ enabled)
    BY DEF IsWanted
  <2>4. want' \in [Tasks -> BOOLEAN]
    BY <2>2, <2>3 DEF IInv, Types
  <2>5. Types' /\ StationOff' /\ OffBeforeStop' /\ OffWithoutLink'
    BY <1>1, <1>2, <2>1, <2>4
       DEF IInv, Types, StationOff, OffBeforeStop, OffWithoutLink, driver, settings, Tasks
  <2>6. Follows'
    BY <1>1, <2>1 DEF Follows, Running
  <2>7. ReadIsCurrent'
    <3> SUFFICES ASSUME NEW u \in Tasks, ~raced', ~Due', pc'[u] = "sntp"
                 PROVE  want'[u] <=> connected' /\ enabled'
      BY DEF ReadIsCurrent
    <3>1. ~raced /\ ~Due
      BY <1>1, <1>2, <2>1 DEF Due, settings, Tasks
    <3>2. CASE u = t
      BY <1>1, <1>2, <2>2, <2>3, <3>2 DEF IInv, Types, settings
    <3>3. CASE u # t
      BY <1>1, <1>2, <2>1, <2>2, <3>1, <3>3 DEF IInv, Types, ReadIsCurrent, settings
    <3> QED BY <3>2, <3>3
  <2> QED BY <2>5, <2>6, <2>7 DEF IInv
<1>4. CASE StartOrStop(t)
  <2>1. /\ pc' \in [Tasks -> Places] /\ pc[t] = "sntp" /\ pc'[t] = "idle"
        /\ \A u \in Tasks \ {t} : pc'[u] = pc[u]
    BY <1>1, <1>4, Gone DEF StartOrStop, Places
  <2>2. want' = [want EXCEPT ![t] = FALSE] /\ sntp' = want[t]
    BY <1>4 DEF StartOrStop
  <2>3. want' \in [Tasks -> BOOLEAN]
    BY <2>2 DEF IInv, Types
  <2>4. Types' /\ StationOff' /\ OffBeforeStop' /\ OffWithoutLink'
    BY <1>1, <1>2, <2>1, <2>3
       DEF IInv, Types, StationOff, OffBeforeStop, OffWithoutLink, driver, settings, Tasks
  <2>5. Due => Due'
    BY <1>1, <1>2, <2>1 DEF Due, settings, Tasks
  <2>6. Follows'
    BY <1>1, <1>2, <2>1, <2>2, <2>5 DEF IInv, Follows, ReadIsCurrent, settings
  <2>7. ReadIsCurrent'
    BY <1>1, <1>2, <2>1, <2>2, <2>5 DEF IInv, Types, ReadIsCurrent, settings
  <2> QED BY <2>4, <2>6, <2>7 DEF IInv
<1> QED BY <1>3, <1>4 DEF configureNTP

LEMMA AsyncTcpStep == IInv /\ AsyncTcp => IInv'
<1> SUFFICES ASSUME IInv, AsyncTcp PROVE IInv'
  OBVIOUS
<1>1. "async" \in Tasks /\ Types
  BY DEF Tasks, IInv
<1>2. CASE CloseNTP
  <2>1. /\ pc' \in [Tasks -> Places] /\ pc'["async"] = "ntp"
        /\ \A u \in Tasks \ {"async"} : pc'[u] = pc[u]
    BY <1>1, <1>2, Gone DEF CloseNTP, Places
  <2>2. Follows' /\ ReadIsCurrent'
    BY <1>1, <1>2, <2>1, EnterNtp DEF CloseNTP
  <2>3. Types' /\ StationOff' /\ OffBeforeStop' /\ OffWithoutLink'
    BY <1>2, <2>1 DEF CloseNTP, AsyncStep, IInv, Types, StationOff, OffBeforeStop, OffWithoutLink,
                      driver, locals, Tasks
  <2> QED BY <2>2, <2>3 DEF IInv
<1>3. CASE reconfigureWiFiConnection
  <2>1. PICK from \in {"idle", "drop", "mark"}, to \in {"drop", "mark", "idle"} : Goto("async", from, to)
    BY <1>3 DEF reconfigureWiFiConnection, ResetAttempt, Reconfigure, MarkStopping
  <2>2. /\ pc' \in [Tasks -> Places] /\ pc["async"] = from /\ pc'["async"] = to
        /\ \A u \in Tasks \ {"async"} : pc'[u] = pc[u]
    <3>1. to \in Places
      BY DEF Places
    <3> QED BY <1>1, <2>1, <3>1, Gone
  <2>3. /\ UNCHANGED <<ssid, enabled, connected, sntp, want, raced, inReach>>
        /\ "ntp" \in open => "ntp" \in open'
    BY <1>3 DEF reconfigureWiFiConnection, ResetAttempt, Reconfigure, MarkStopping, AsyncStep,
                disconnect, driver, locals
  <2>4. /\ events' \in Seq(EventNames) /\ OffBeforeStop' /\ OffWithoutLink'
        /\ (sta' = FALSE /\ link' = NoNet) \/ (sta' = sta /\ link' = link)
    <3>1. CASE Reconfigure
      BY <2>3, <3>1, Disconnects DEF Reconfigure
    <3>2. CASE ResetAttempt \/ MarkStopping
      BY <2>3, <3>2, SameOff DEF ResetAttempt, MarkStopping, driver, IInv, Types
    <3> QED BY <1>3, <3>1, <3>2 DEF reconfigureWiFiConnection
  <2>5. Types' /\ StationOff'
    <3>1. pc'["services"] = pc["services"]
      BY <2>2 DEF Tasks
    <3>2. StationOff'
      BY <2>4, <3>1 DEF IInv, StationOff
    <3>3. sta' \in BOOLEAN
      BY <2>4 DEF IInv, Types
    <3>4. Types'
      BY <2>2, <2>3, <2>4, <3>1, <3>3 DEF IInv, Types
    <3> QED BY <3>2, <3>4
  <2>6. Follows' /\ ReadIsCurrent'
    <3>1. Due => Due'
      BY <2>2, <2>3 DEF Due, Tasks
    <3>2. \A t \in Tasks : (Running(t) <=> Running(t)') /\ (pc'[t] = "sntp" => pc[t] = "sntp")
      BY <2>2 DEF Running
    <3> QED BY <2>3, <3>1, <3>2, SameNtp DEF IInv
  <2> QED BY <2>4, <2>5, <2>6 DEF IInv
<1>4. CASE configureNTP("async")
  BY <1>4, ConfigureStep
<1> QED BY <1>2, <1>3, <1>4 DEF AsyncTcp

LEMMA EventTaskStep == IInv /\ EventTask => IInv'
<1> SUFFICES ASSUME IInv, EventTask PROVE IInv'
  OBVIOUS
<1>1. "event" \in Tasks /\ Types
  BY DEF Tasks, IInv
<1>2. ASSUME NEW name \in EventNames, NEW to \in {"ntp", "drop", "stop"}, Event(name, to),
             connected' = (name = "gotIP"),
             \/ name = "gotIP" /\ to = "ntp" /\ Enter("event")
             \/ name = "disconnected" /\ to = "drop" /\ raced' = raced
             \/ name = "stop" /\ to = "stop" /\ raced' = raced
      PROVE  IInv'
  <2>1. /\ pc' \in [Tasks -> Places] /\ pc["event"] = "idle" /\ pc'["event"] = to
        /\ \A u \in Tasks \ {"event"} : pc'[u] = pc[u]
    <3>1. to \in Places
      BY DEF Places
    <3> QED BY <1>1, <1>2, <3>1, Gone DEF Event
  <2>2. /\ events # <<>> /\ events \in Seq(EventNames) /\ events' = Tail(events)
        /\ UNCHANGED <<settings, inReach, sta, link, sntp, want>>
    BY <1>2 DEF Event, EventStep, IInv, Types, locals
  <2>3. /\ Len(events) \in Nat \ {0} /\ events' \in Seq(EventNames)
        /\ Len(events') = Len(events) - 1
    BY <2>2, HeadTailProperties, EmptySeq
  <2>4. events[1] = name
    <3>1. Head(events) = events[1]
      BY <2>2, <2>3, SMT
    <3> QED BY <1>2, <3>1 DEF Event
  <2>5. connected \in BOOLEAN /\ connected' \in BOOLEAN
    BY <1>2 DEF IInv, Types
  <2>6. connected' => events[1] = "gotIP" \/ (connected /\ events[1] # "disconnected")
    BY <1>2, <2>4
  <2>7. OffBeforeStop'
    BY <2>2, <2>5, <2>6, StopsTail DEF IInv, OffBeforeStop
  <2>8. OffWithoutLink'
    <3> SUFFICES ASSUME link = NoNet PROVE Off(connected', events', Len(events'))
      BY <2>2 DEF OffWithoutLink
    <3>1. Off(connected, events, Len(events)) /\ Len(events) \in 1 .. Len(events)
      BY <2>3 DEF IInv, OffWithoutLink
    <3>2. Off(connected', Tail(events), Len(events) - 1)
      BY <2>2, <2>5, <2>6, <3>1, OffTail
    <3> QED BY <2>2, <2>3, <3>2
  <2>9. Types' /\ StationOff'
    BY <2>1, <2>2, <2>3, <2>5 DEF IInv, Types, StationOff, settings, Tasks
  <2>10. Follows' /\ ReadIsCurrent'
    <3>1. CASE name = "gotIP"
      BY <1>1, <1>2, <2>1, <3>1, EnterNtp
    <3>2. CASE name = "disconnected"
      <4>1. Due'
        BY <1>2, <2>1, <3>2 DEF Due
      <4> QED BY <4>1 DEF Follows, ReadIsCurrent
    <3>3. CASE name = "stop"
      <4>1. Off(connected, events, 1 - 1)
        BY <2>3, <2>4, <3>3 DEF IInv, OffBeforeStop, StopsAreOff
      <4>2. ~connected
        BY <4>1 DEF Off
      <4>3. connected' = connected
        BY <1>2, <2>5, <3>3, <4>2
      <4>4. Due => Due'
        BY <2>1, <2>2 DEF Due, settings
      <4>5. \A t \in Tasks : (Running(t) <=> Running(t)') /\ (pc'[t] = "sntp" => pc[t] = "sntp")
        BY <1>2, <2>1, <3>3 DEF Running
      <4> QED BY <1>2, <2>2, <3>3, <4>3, <4>4, <4>5, SameNtp DEF IInv, settings
    <3> QED BY <3>1, <3>2, <3>3 DEF EventNames
  <2> QED BY <2>7, <2>8, <2>9, <2>10 DEF IInv
<1>3. CASE GotIP \/ Disconnected \/ Stopped
  BY <1>2, <1>3 DEF GotIP, Disconnected, Stopped, EventNames
<1>4. CASE onStationModeDisconnected
  <2>1. /\ pc' \in [Tasks -> Places] /\ pc'["event"] = "ntp"
        /\ \A u \in Tasks \ {"event"} : pc'[u] = pc[u]
    BY <1>1, <1>4, Gone DEF onStationModeDisconnected, Places
  <2>2. Follows' /\ ReadIsCurrent'
    BY <1>1, <1>4, <2>1, EnterNtp DEF onStationModeDisconnected
  <2>3. UNCHANGED <<settings, connected, want, inReach>>
    BY <1>4 DEF onStationModeDisconnected, EventStep, disconnect, locals
  <2>4. /\ events' \in Seq(EventNames) /\ OffBeforeStop' /\ OffWithoutLink'
        /\ sta' = FALSE /\ link' = NoNet
    BY <1>4, <2>3, Disconnects DEF onStationModeDisconnected
  <2>5. Types' /\ StationOff'
    BY <2>1, <2>3, <2>4 DEF IInv, Types, StationOff, settings, Tasks
  <2> QED BY <2>2, <2>4, <2>5 DEF IInv
<1>5. CASE onStationModeStop
  <2>1. /\ pc' \in [Tasks -> Places] /\ pc["event"] = "stop" /\ pc'["event"] = "idle"
        /\ \A u \in Tasks \ {"event"} : pc'[u] = pc[u]
    BY <1>1, <1>5, Gone DEF onStationModeStop, Places
  <2>2. UNCHANGED <<settings, driver, connected, sntp, want, raced>>
    BY <1>5 DEF onStationModeStop, EventStep, locals
  <2>3. Types' /\ StationOff' /\ OffBeforeStop' /\ OffWithoutLink'
    BY <2>1, <2>2 DEF IInv, Types, StationOff, OffBeforeStop, OffWithoutLink, driver, settings, Tasks
  <2>4. Due => Due'
    BY <2>1, <2>2 DEF Due, settings
  <2>5. \A t \in Tasks : (Running(t) <=> Running(t)') /\ (pc'[t] = "sntp" => pc[t] = "sntp")
    BY <2>1 DEF Running
  <2>6. Follows' /\ ReadIsCurrent'
    BY <2>2, <2>4, <2>5, SameNtp DEF IInv, settings
  <2> QED BY <2>3, <2>6 DEF IInv
<1>6. CASE configureNTP("event")
  BY <1>6, ConfigureStep
<1> QED BY <1>3, <1>4, <1>5, <1>6 DEF EventTask

LEMMA Inductive == IInv /\ [Next]_vars => IInv'
<1> SUFFICES ASSUME IInv, [Next]_vars PROVE IInv'
  OBVIOUS
<1>1. CASE UNCHANGED vars
  BY <1>1 DEF IInv, Types, StationOff, OffBeforeStop, OffWithoutLink, Follows, ReadIsCurrent, Due,
              Running, vars, settings, driver, locals
<1>2. CASE Services \/ Post \/ AsyncTcp \/ EventTask
  BY <1>2, ServicesTaskStep, PostStep, AsyncTcpStep, EventTaskStep
<1>3. CASE Elapse \/ ManageElapse \/ Join \/ JoinFails \/ NetworksChange
  BY <1>3, WorldStep
<1> QED BY <1>1, <1>2, <1>3 DEF Next

(* The SNTP client follows the connection and the setting for any number   *)
(* of changes, as long as the last runs of configureNTP do not overlap     *)
(* (NTPSettingsService): the event of a stop, which does not run it, never *)
(* changes the status.                                                     *)
THEOREM ClockFollowsHolds == Spec => []ClockFollows
<1>1. Spec => []IInv
  BY InitIInv, Inductive, PTL DEF Spec
<1>2. IInv => ClockFollows
  BY DEF IInv, Follows, Due, Running, Tasks, ClockFollows
<1> QED BY <1>1, <1>2, PTL
=============================================================================
