------------------------- MODULE StatusSocket_proofs -------------------------
(***************************************************************************)
(* Proofs about StatusSocket for any browsers, any queue length and any    *)
(* number of clicks, changes and broken connections.                       *)
(***************************************************************************)
EXTENDS StatusSocket, SequenceTheorems, TLAPS

Msg == Payload \cup {Id}

(* Types with the domains of the functions, as a step needs them.          *)
Types ==
  /\ tank \in Status /\ beat \in Status \cup {None} /\ net \in Jobs
  /\ link \subseteq Clients
  /\ down \in [Clients -> Seq(Msg)] /\ up \in [Clients -> Seq(Status)]
  /\ clientId \in [Clients -> BOOLEAN]
  /\ data \in [Clients -> Status \cup {None}]
  /\ waiting \in [Clients -> Status \cup {None}]
  /\ clicked \in [Clients -> Status \cup {None}]
  /\ handled \in [Clients -> Status \cup {None}]
  /\ clicks \in 0 .. MaxClicks /\ changes \in 0 .. MaxChanges /\ drops \in 0 .. MaxDrops

(* A client whose socket is closed has left nothing behind.                *)
ClosedIsEmpty ==
  \A c \in Clients \ link : data[c] = None /\ clicked[c] = None /\ down[c] = <<>>

(* async_tcp greets a client that is connected and has room for its id.    *)
GreetsOpen ==
  net.at = "accepted" => net.client \in link /\ Len(down[net.client]) < MaxQueue

QueuesBounded == \A c \in Clients : Len(down[c]) <= MaxQueue

(* The last click is on its way: in the page, or last in its queue, or the *)
(* device has had it.                                                      *)
LastUnderWay(c) ==
  c \in link /\ clicked[c] # None =>
    \/ waiting[c] = clicked[c]
    \/ waiting[c] = None /\ up[c] = <<>> /\ handled[c] = clicked[c]
    \/ waiting[c] = None /\ up[c] # <<>> /\ up[c][Len(up[c])] = clicked[c]

IInv ==
  /\ Types /\ ClosedIsEmpty /\ GreetsOpen /\ QueuesBounded
  /\ \A c \in Clients : LastUnderWay(c)

LEMMA NoneIsNoStatus == None \notin Status
BY DEF None, Status

LEMMA StatusFields ==
  ASSUME NEW s \in Status, NEW f \in {"automatic", "run"}, NEW b \in BOOLEAN
  PROVE  [s EXCEPT ![f] = b] \in Status
BY DEF Status

LEMMA JobFields ==
  ASSUME net \in Jobs
  PROVE  /\ net.at = "accepted" => net.client \in Clients
         /\ net.at = "read" => /\ net.to \in SUBSET Clients
                              /\ net.origin \in Clients \cup {Hello}
         /\ net.at = "send" => /\ net.origin \in Clients \cup {Hello}
                              /\ net.read \in Status
BY DEF Jobs, Idle

(* Queueing keeps the types, reaches open sockets only, and makes no queue *)
(* longer than it may be.                                                  *)
LEMMA Queued ==
  ASSUME Types, NEW to, NEW m \in Msg, Queue(to, m)
  PROVE  /\ down' \in [Clients -> Seq(Msg)]
         /\ \A c \in Clients \ link : down'[c] = down[c]
         /\ \A c \in Clients : Len(down'[c]) <= MaxQueue \/ down'[c] = down[c]
         /\ \A c \in Clients : Len(down'[c]) <= Len(down[c]) + 1
BY SocketAssumption DEF Types, Queue

LEMMA MessageType ==
  ASSUME NEW s \in Status, NEW o \in Clients \cup {Beat, Hello}
  PROVE  Message(o, s) \in Msg
BY DEF Message, Msg, Payload

LEMMA InitIInv == Init => IInv
<1> SUFFICES ASSUME Init PROVE IInv
  OBVIOUS
<1>1. Types
  BY SocketAssumption DEF Init, Types, Idle, Jobs
<1>2. ClosedIsEmpty /\ GreetsOpen /\ QueuesBounded
  BY SocketAssumption DEF Init, ClosedIsEmpty, GreetsOpen, QueuesBounded, Idle
<1>3. \A c \in Clients : LastUnderWay(c)
  BY DEF Init, LastUnderWay
<1> QED BY <1>1, <1>2, <1>3 DEF IInv

LEMMA BroadcastStep == IInv /\ (Heartbeat \/ BroadcastBeat) => IInv'
<1>1. ASSUME IInv, Heartbeat PROVE IInv'
  BY <1>1 DEF Heartbeat, IInv, Types, ClosedIsEmpty, GreetsOpen, QueuesBounded, LastUnderWay,
              page, env, hist
<1>2. ASSUME IInv, BroadcastBeat PROVE IInv'
  <2>1. Message(Beat, beat) \in Msg
    BY <1>2, MessageType DEF BroadcastBeat, IInv, Types
  <2>2. /\ down' \in [Clients -> Seq(Msg)]
        /\ \A c \in Clients \ link : down'[c] = down[c]
        /\ \A c \in Clients : Len(down'[c]) <= MaxQueue \/ down'[c] = down[c]
        /\ \A c \in Clients : Len(down'[c]) <= Len(down[c]) + 1
    BY <1>2, <2>1, Queued DEF IInv, BroadcastBeat
  <2>3. Types' /\ ClosedIsEmpty' /\ \A c \in Clients : LastUnderWay(c)'
    BY <1>2, <2>2 DEF BroadcastBeat, IInv, Types, ClosedIsEmpty, LastUnderWay, page, env, hist
  <2>4. GreetsOpen' /\ QueuesBounded'
    <3>1. net' = net /\ link' = link /\ net \in Jobs
      BY <1>2 DEF BroadcastBeat, IInv, Types
    <3>2. net.at = "accepted" => net.client \in Clients
      BY <3>1, JobFields
    <3>3. \A c \in Clients : Len(down'[c]) \in Nat /\ Len(down[c]) \in Nat
      BY <1>2, <2>2 DEF IInv, Types
    <3>4. net.at = "accepted" => Len(down[net.client]) < MaxQueue - 1
      BY <1>2 DEF BroadcastBeat
    <3>5. GreetsOpen'
      BY <1>2, <2>2, <3>1, <3>2, <3>3, <3>4, SocketAssumption DEF IInv, GreetsOpen
    <3> QED BY <1>2, <2>2, <3>3, <3>5, SocketAssumption DEF IInv, QueuesBounded
  <2> QED BY <2>3, <2>4 DEF IInv
<1> QED BY <1>1, <1>2

LEMMA AcceptStep ==
  ASSUME IInv, NEW c \in Clients, Accept(c)
  PROVE  IInv'
<1>1. net' \in Jobs
  BY DEF Accept, Jobs
<1>2. Types' /\ ClosedIsEmpty' /\ QueuesBounded'
  BY <1>1 DEF Accept, IInv, Types, ClosedIsEmpty, QueuesBounded, page, env, hist
<1>3. GreetsOpen'
  BY SocketAssumption DEF Accept, IInv, ClosedIsEmpty, GreetsOpen
<1>4. \A d \in Clients : LastUnderWay(d)'
  BY DEF Accept, IInv, ClosedIsEmpty, LastUnderWay, page, env, hist
<1> QED BY <1>2, <1>3, <1>4 DEF IInv

LEMMA TransmitStep == IInv /\ Transmit => IInv'
<1>1. ASSUME IInv, TransmitId PROVE IInv'
  <2>1. net \in Jobs /\ net.at = "accepted" /\ net.client \in Clients /\ net.client \in link
    BY <1>1, JobFields DEF TransmitId, IInv, Types, GreetsOpen
  <2>2. net' \in Jobs /\ net'.at = "read"
    BY <1>1, <2>1 DEF TransmitId, Jobs
  <2>3. /\ down' \in [Clients -> Seq(Msg)]
        /\ \A c \in Clients : Len(down'[c]) <= MaxQueue \/ down'[c] = down[c]
        /\ \A c \in Clients \ link : down'[c] = down[c]
    <3>1. Id \in Msg
      BY DEF Msg
    <3> QED BY <1>1, <3>1, Queued DEF TransmitId, IInv
  <2>4. Types' /\ ClosedIsEmpty' /\ GreetsOpen' /\ QueuesBounded'
    BY <1>1, <2>2, <2>3, SocketAssumption
       DEF TransmitId, IInv, Types, ClosedIsEmpty, GreetsOpen, QueuesBounded, page, env, hist
  <2>5. \A c \in Clients : LastUnderWay(c)'
    BY <1>1 DEF TransmitId, IInv, LastUnderWay, page, hist
  <2> QED BY <2>4, <2>5 DEF IInv
<1>2. ASSUME IInv, TransmitRead PROVE IInv'
  <2>1. net' \in Jobs /\ net'.at = "send"
    BY <1>2, JobFields DEF TransmitRead, IInv, Types, Jobs
  <2>2. Types' /\ ClosedIsEmpty' /\ GreetsOpen' /\ QueuesBounded'
    BY <1>2, <2>1
       DEF TransmitRead, IInv, Types, ClosedIsEmpty, GreetsOpen, QueuesBounded, page, env, hist
  <2>3. \A c \in Clients : LastUnderWay(c)'
    BY <1>2 DEF TransmitRead, IInv, LastUnderWay, page, hist
  <2> QED BY <2>2, <2>3 DEF IInv
<1>3. ASSUME IInv, TransmitSend PROVE IInv'
  <2>1. Message(net.origin, net.read) \in Msg
    BY <1>3, JobFields, MessageType DEF TransmitSend, IInv, Types
  <2>2. /\ down' \in [Clients -> Seq(Msg)]
        /\ \A c \in Clients \ link : down'[c] = down[c]
        /\ \A c \in Clients : Len(down'[c]) <= MaxQueue \/ down'[c] = down[c]
    BY <1>3, <2>1, Queued DEF IInv, TransmitSend
  <2>3. net' \in Jobs /\ net'.at = "idle"
    BY <1>3 DEF TransmitSend, Jobs, Idle
  <2>4. Types' /\ ClosedIsEmpty' /\ GreetsOpen'
    BY <1>3, <2>2, <2>3 DEF TransmitSend, IInv, Types, ClosedIsEmpty, GreetsOpen, page, env, hist
  <2>5. QueuesBounded'
    <3>1. \A c \in Clients : Len(down'[c]) \in Nat
      BY <2>2
    <3> QED BY <1>3, <2>2, <3>1, SocketAssumption DEF IInv, QueuesBounded
  <2>6. \A c \in Clients : LastUnderWay(c)'
    BY <1>3 DEF TransmitSend, IInv, LastUnderWay, page, hist
  <2> QED BY <2>4, <2>5, <2>6 DEF IInv
<1> QED BY <1>1, <1>2, <1>3 DEF Transmit

(* What stays last in a queue whose first record is taken.                 *)
LEMMA LastOfTail ==
  ASSUME NEW q \in Seq(Status), q # <<>>
  PROVE  /\ Len(q) = 1 => Tail(q) = <<>> /\ q[Len(q)] = Head(q)
         /\ Len(q) # 1 => Tail(q) # <<>> /\ Tail(q)[Len(Tail(q))] = q[Len(q)]
<1>1. Len(q) \in Nat \ {0}
  BY EmptySeq
<1>2. Head(q) = q[1]
  BY <1>1, SMT
<1>3. /\ Tail(q) \in Seq(Status) /\ Len(Tail(q)) = Len(q) - 1
      /\ \A i \in 1 .. Len(Tail(q)) : Tail(q)[i] = q[i + 1]
  BY HeadTailProperties
<1>4. Tail(q) # <<>> => Len(Tail(q)) \in Nat \ {0}
  BY <1>3, EmptySeq, Zenon
<1>5. Len(q) = 1 => Tail(q) = <<>>
  BY <1>3, <1>4
<1>6. Len(q) # 1 => Tail(q) # <<>> /\ Tail(q)[Len(Tail(q))] = q[Len(q)]
  BY <1>1, <1>3, EmptySeq
<1> QED BY <1>1, <1>2, <1>5, <1>6

LEMMA UpdateStep ==
  ASSUME IInv, NEW c \in Clients, Update(c)
  PROVE  IInv'
<1> DEFINE m == Head(up[c])
<1>1. up[c] \in Seq(Status) /\ up[c] # <<>> /\ m \in Status
  BY DEF IInv, Types, Update
<1>2. m.automatic \in BOOLEAN /\ m.run \in BOOLEAN
  BY <1>1 DEF Status
<1>3. tank' \in Status
  <2>1. [tank EXCEPT !.automatic = m.automatic] \in Status
    BY <1>2 DEF IInv, Types, Status
  <2>2. [tank EXCEPT !.run = m.run] \in Status
    BY <1>2 DEF IInv, Types, Status
  <2> QED BY <2>1, <2>2 DEF Update, IInv, Types
<1>4. net' \in Jobs /\ net'.at # "accepted"
  BY DEF Update, Jobs, Idle
<1>5. up' = [up EXCEPT ![c] = Tail(up[c])] /\ handled' = [handled EXCEPT ![c] = m]
      /\ UNCHANGED <<beat, link, down, page, env, clicked>>
  BY DEF Update
<1>6. up' \in [Clients -> Seq(Status)] /\ handled' \in [Clients -> Status \cup {None}]
  BY <1>1, <1>5 DEF IInv, Types
<1>7. Types' /\ ClosedIsEmpty' /\ GreetsOpen' /\ QueuesBounded'
  BY <1>3, <1>4, <1>5, <1>6
     DEF IInv, Types, ClosedIsEmpty, GreetsOpen, QueuesBounded, page, env
<1>8. ASSUME NEW d \in Clients PROVE LastUnderWay(d)'
  <2>1. CASE d # c
    BY <1>5, <2>1 DEF IInv, Types, LastUnderWay, page
  <2>2. CASE d = c
    <3>1. /\ up'[c] = Tail(up[c]) /\ handled'[c] = m
          /\ waiting' = waiting /\ clicked' = clicked /\ link' = link
      BY <1>5 DEF IInv, Types, page
    <3>2. CASE Len(up[c]) = 1
      <4>1. up'[c] = <<>> /\ up[c][Len(up[c])] = m
        BY <1>1, <3>1, <3>2, LastOfTail
      <4> QED BY <1>1, <2>2, <3>1, <4>1 DEF IInv, LastUnderWay
    <3>3. CASE Len(up[c]) # 1
      <4>1. up'[c] # <<>> /\ up'[c][Len(up'[c])] = up[c][Len(up[c])]
        BY <1>1, <3>1, <3>3, LastOfTail
      <4> QED BY <1>1, <2>2, <3>1, <4>1 DEF IInv, LastUnderWay
    <3> QED BY <3>2, <3>3
  <2> QED BY <2>1, <2>2
<1> QED BY <1>7, <1>8 DEF IInv

LEMMA ControlStep == IInv /\ Control => IInv'
<1> SUFFICES ASSUME IInv, Control PROVE IInv'
  OBVIOUS
<1>1. tank' \in Status
  BY DEF Control, IInv, Types, Status
<1>2. changes' \in 0 .. MaxChanges
  BY SocketAssumption DEF Control, IInv, Types
<1>3. Types'
  BY <1>1, <1>2 DEF Control, IInv, Types, page
<1>4. ClosedIsEmpty' /\ GreetsOpen' /\ QueuesBounded' /\ \A c \in Clients : LastUnderWay(c)'
  BY DEF Control, IInv, ClosedIsEmpty, GreetsOpen, QueuesBounded, LastUnderWay, page
<1> QED BY <1>3, <1>4 DEF IInv

LEMMA OnMessageStep ==
  ASSUME IInv, NEW c \in Clients, OnMessage(c)
  PROVE  IInv'
<1> DEFINE m == Head(down[c])
<1>1. down[c] \in Seq(Msg) /\ down[c] # <<>> /\ m \in Msg
  BY DEF IInv, Types, OnMessage
<1>2. /\ Tail(down[c]) \in Seq(Msg) /\ Len(Tail(down[c])) = Len(down[c]) - 1
      /\ Len(down[c]) \in Nat
  BY <1>1, HeadTailProperties, EmptySeq
<1>3. c \in link
  BY <1>1 DEF IInv, ClosedIsEmpty
<1>4. m.type = "payload" => m.payload \in Status
  BY <1>1 DEF Msg, Payload, Id
<1>5. clientId' \in [Clients -> BOOLEAN]
  BY DEF OnMessage, IInv, Types
<1>6. /\ data' \in [Clients -> Status \cup {None}]
      /\ \A d \in Clients \ {c} : data'[d] = data[d]
  BY <1>4 DEF OnMessage, IInv, Types
<1>7. /\ down' = [down EXCEPT ![c] = Tail(down[c])]
      /\ UNCHANGED <<device, link, up, waiting, env, hist>>
  BY DEF OnMessage
<1>8. /\ down' \in [Clients -> Seq(Msg)] /\ Len(down'[c]) = Len(down[c]) - 1
      /\ \A d \in Clients \ {c} : down'[d] = down[d]
  BY <1>2, <1>7 DEF IInv, Types
<1>9. Types' /\ ClosedIsEmpty'
  BY <1>3, <1>5, <1>6, <1>7, <1>8 DEF IInv, Types, ClosedIsEmpty, device, env, hist
<1>10. QueuesBounded'
  BY <1>2, <1>8, SocketAssumption DEF IInv, QueuesBounded
<1>11. GreetsOpen'
  <2>1. net' = net /\ link' = link
    BY <1>7 DEF device
  <2>2. net.at = "accepted" => net.client \in Clients
    BY JobFields DEF IInv, Types
  <2> SUFFICES ASSUME net.at = "accepted"
               PROVE  net.client \in link /\ Len(down'[net.client]) < MaxQueue
    BY <2>1 DEF GreetsOpen
  <2>3. net.client \in link /\ Len(down[net.client]) < MaxQueue
    BY DEF IInv, GreetsOpen
  <2>4. CASE net.client = c
    <3>1. Len(down[c]) < MaxQueue
      BY <2>3, <2>4
    <3>2. Len(down'[net.client]) = Len(down[c]) - 1
      BY <1>8, <2>4
    <3> QED BY <1>2, <2>3, <3>1, <3>2, SocketAssumption
  <2>5. CASE net.client # c
    <3>1. down'[net.client] = down[net.client]
      BY <1>8, <2>2, <2>5
    <3> QED BY <2>3, <3>1
  <2> QED BY <2>4, <2>5
<1>12. \A d \in Clients : LastUnderWay(d)'
  BY <1>7 DEF IInv, LastUnderWay, hist
<1> QED BY <1>9, <1>10, <1>11, <1>12 DEF IInv

LEMMA ClickStep ==
  ASSUME IInv, NEW c \in Clients, Click(c)
  PROVE  IInv'
<1>1. PICK f \in {"automatic", "run"} :
        LET d == [data[c] EXCEPT ![f] = ~@] IN
        /\ data' = [data EXCEPT ![c] = d]
        /\ clicked' = [clicked EXCEPT ![c] = d]
        /\ waiting' = [waiting EXCEPT ![c] = d]
  BY DEF Click
<1> DEFINE d == [data[c] EXCEPT ![f] = ~data[c][f]]
<1>2. data[c] \in Status /\ data[c] # None
  BY DEF Click, IInv, Types
<1>3. d \in Status
  BY <1>2 DEF Status
<1>4. /\ data' = [data EXCEPT ![c] = d]
      /\ clicked' = [clicked EXCEPT ![c] = d]
      /\ waiting' = [waiting EXCEPT ![c] = d]
  BY <1>1
<1>5. c \in link
  BY <1>2 DEF IInv, ClosedIsEmpty
<1> HIDE DEF d
<1>6. /\ clicks' \in 0 .. MaxClicks
      /\ UNCHANGED <<device, link, down, up, clientId, changes, drops, handled>>
  BY SocketAssumption DEF Click, IInv, Types
<1>7. Types' /\ ClosedIsEmpty'
  BY <1>3, <1>4, <1>5, <1>6 DEF IInv, Types, ClosedIsEmpty, device
<1>8. GreetsOpen' /\ QueuesBounded'
  BY <1>6 DEF IInv, GreetsOpen, QueuesBounded, device
<1>9. ASSUME NEW e \in Clients PROVE LastUnderWay(e)'
  BY <1>4, <1>6 DEF IInv, Types, LastUnderWay
<1> QED BY <1>7, <1>8, <1>9 DEF IInv

LEMMA SaveStep ==
  ASSUME IInv, NEW c \in Clients, DoSaveData(c)
  PROVE  IInv'
<1>1. waiting[c] \in Status /\ waiting[c] # None
  BY DEF DoSaveData, IInv, Types
<1>2. up' \in [Clients -> Seq(Status)] /\ waiting' \in [Clients -> Status \cup {None}]
  BY <1>1 DEF DoSaveData, IInv, Types
<1>3. Types' /\ ClosedIsEmpty' /\ GreetsOpen' /\ QueuesBounded'
  BY <1>2 DEF DoSaveData, IInv, Types, ClosedIsEmpty, GreetsOpen, QueuesBounded, device, env, hist
<1>4. ASSUME NEW d \in Clients PROVE LastUnderWay(d)'
  <2>1. CASE d # c
    BY <2>1 DEF DoSaveData, IInv, Types, LastUnderWay, hist
  <2>2. CASE d = c
    <3>1. CASE c \notin link
      BY <2>2, <3>1 DEF DoSaveData, LastUnderWay
    <3>2. CASE c \in link
      <4>1. /\ up'[c] = Append(up[c], waiting[c]) /\ waiting'[c] = None
            /\ clicked' = clicked
        BY <3>2 DEF DoSaveData, IInv, Types, hist
      <4>2. up'[c] # <<>> /\ up'[c][Len(up'[c])] = waiting[c]
        <5>1. /\ Append(up[c], waiting[c]) # <<>>
              /\ Len(Append(up[c], waiting[c])) = Len(up[c]) + 1
              /\ Append(up[c], waiting[c])[Len(up[c]) + 1] = waiting[c]
          <6>1. up[c] \in Seq(Status)
            BY DEF IInv, Types
          <6> QED BY <1>1, <6>1, AppendProperties
        <5> QED BY <4>1, <5>1
      <4>3. clicked[c] # None => waiting[c] = clicked[c]
        BY <1>1, <3>2 DEF IInv, LastUnderWay
      <4> QED BY <2>2, <4>1, <4>2, <4>3 DEF LastUnderWay
    <3> QED BY <3>1, <3>2
  <2> QED BY <2>1, <2>2
<1> QED BY <1>3, <1>4 DEF IInv

LEMMA CloseStep ==
  ASSUME IInv, NEW c \in Clients, OnClose(c)
  PROVE  IInv'
<1>1. drops' \in 0 .. MaxDrops
  BY SocketAssumption DEF OnClose, IInv, Types
<1>2. /\ down' \in [Clients -> Seq(Msg)] /\ up' \in [Clients -> Seq(Status)]
      /\ down'[c] = <<>> /\ \A d \in Clients \ {c} : down'[d] = down[d] /\ up'[d] = up[d]
  BY DEF OnClose, IInv, Types
<1>3. clientId' \in [Clients -> BOOLEAN]
  BY DEF OnClose, IInv, Types
<1>4. Types' /\ ClosedIsEmpty'
  BY <1>1, <1>2, <1>3 DEF OnClose, IInv, Types, ClosedIsEmpty, device
<1>5. GreetsOpen'
  BY DEF OnClose, GreetsOpen, Idle, device
<1>6. QueuesBounded'
  <2>1. Len(down'[c]) <= MaxQueue
    <3>1. Len(<<>>) = 0
      BY EmptySeq
    <3> QED BY <1>2, <3>1, SocketAssumption
  <2> QED BY <1>2, <2>1 DEF IInv, QueuesBounded
<1>7. \A d \in Clients : LastUnderWay(d)'
  BY <1>2 DEF OnClose, IInv, Types, LastUnderWay
<1> QED BY <1>4, <1>5, <1>6, <1>7 DEF IInv

LEMMA Inductive == IInv /\ [Next]_vars => IInv'
<1> SUFFICES ASSUME IInv, [Next]_vars PROVE IInv'
  OBVIOUS
<1>1. CASE UNCHANGED vars
  BY <1>1 DEF IInv, Types, ClosedIsEmpty, GreetsOpen, QueuesBounded, LastUnderWay,
              vars, device, page, env, hist
<1>2. CASE Heartbeat \/ BroadcastBeat
  BY <1>2, BroadcastStep
<1>3. CASE TransmitId \/ TransmitRead \/ TransmitSend
  BY <1>3, TransmitStep DEF Transmit
<1>4. CASE Control
  BY <1>4, ControlStep
<1>5. ASSUME NEW c \in Clients,
             \/ Accept(c) \/ Update(c) \/ OnMessage(c)
             \/ Click(c) \/ DoSaveData(c) \/ OnClose(c)
      PROVE  IInv'
  BY <1>5, AcceptStep, UpdateStep, OnMessageStep, ClickStep, SaveStep, CloseStep
<1> QED BY <1>1, <1>2, <1>3, <1>4, <1>5 DEF Next

LEMMA Invariance == Spec => []IInv
BY InitIInv, Inductive, PTL DEF Spec

(* Messages keep their types and no queue outgrows its limit, for any      *)
(* number of browsers (WebSocketTxRx).                                     *)
THEOREM TypeCorrect == Spec => []TypeOK
<1>1. IInv => TypeOK
  <2> SUFFICES ASSUME IInv PROVE TypeOK
    OBVIOUS
  <2>1. ASSUME NEW c \in Clients
        PROVE  /\ \A k \in 1 .. Len(down[c]) : down[c][k] \in Payload \cup {Id}
               /\ \A k \in 1 .. Len(up[c]) : up[c][k] \in Status
    BY ElementOfSeq DEF IInv, Types, Msg
  <2>2. ASSUME NEW c \in Clients
        PROVE  {data[c], waiting[c], clicked[c], handled[c]} \subseteq Status \cup {None}
    BY DEF IInv, Types
  <2> QED BY <2>1, <2>2 DEF IInv, Types, QueuesBounded, TypeOK
<1> QED BY <1>1, Invariance, PTL

(* Of a burst of clicks the last one reaches the device, however many      *)
(* browsers there are and whatever is dropped (saveData of useWs.ts).      *)
THEOREM LastClickCountsHolds == Spec => []LastClickCounts
<1>1. IInv => LastClickCounts
  BY DEF IInv, Types, LastUnderWay, LastClickCounts
<1> QED BY <1>1, Invariance, PTL
=============================================================================
