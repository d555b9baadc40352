---------------------------- MODULE StatusSocket ----------------------------
(***************************************************************************)
(* The status page: TankStatusService behind WebSocketTxRx on the device,  *)
(* useWs and TankStatus in the browsers.                                   *)
(*                                                                         *)
(* Two device tasks broadcast, Services its heartbeat and async_tcp the    *)
(* outcome of a client's command, each reading the status under the lock   *)
(* and queueing it after the lock is given back.  A browser shows a change *)
(* at once, sends its whole record after a pause of the user (debounce),   *)
(* and ignores payloads that its own command caused.                       *)
(*                                                                         *)
(* The status is abstracted to the two fields a command may change.        *)
(***************************************************************************)
EXTENDS Naturals, Sequences

CONSTANTS
  Clients,
  MaxQueue,    \* WS_MAX_QUEUED_MESSAGES, 32: one message more is discarded
  MaxClicks,   \* bounds of the environment: what the users click,
  MaxChanges,  \* what the control task and the timers switch,
  MaxDrops     \* and how often a connection breaks

ASSUME SocketAssumption ==
  /\ MaxQueue \in Nat \ {0}
  /\ MaxClicks \in Nat /\ MaxChanges \in Nat /\ MaxDrops \in Nat

Status == [automatic : BOOLEAN, run : BOOLEAN]

VARIABLES
  tank,      \* automatic and pump_running
  beat,      \* what Services has read for its broadcast, if it is at one
  net,       \* what async_tcp is doing: see Jobs
  link,      \* clients whose socket is open
  down, up,  \* messages queued to and from a client
  clientId,  \* the client knows its id
  data,      \* what the page shows, if anything
  waiting,   \* the record the debounced saveData will send
  clicks, changes, drops,
  clicked,   \* history: the record of the client's last click
  handled    \* history: the client's last record that update() saw

device == <<tank, beat, net>>
page   == <<clientId, data, waiting>>
env    == <<clicks, changes, drops>>
hist   == <<clicked, handled>>
vars   == <<device, link, down, up, page, env, hist>>

None    == [none |-> TRUE]
Beat    == "waterLevel"        \* origins: the heartbeat,
Hello   == "websocket"         \* the greeting, or a client
Id      == [type |-> "id"]
Payload == [type : {"payload"}, origin : Clients \cup {Beat, Hello}, payload : Status]

Idle == [at |-> "idle"]
Jobs == {Idle} \cup [at : {"accepted"}, client : Clients]
        \cup [at : {"read"}, to : SUBSET Clients, origin : Clients \cup {Hello}]
        \cup [at : {"send"}, to : SUBSET Clients, origin : Clients \cup {Hello}, read : Status]

Init ==
  /\ tank \in Status /\ beat = None /\ net = Idle
  /\ link = {} /\ down = [c \in Clients |-> <<>>] /\ up = [c \in Clients |-> <<>>]
  /\ clientId = [c \in Clients |-> FALSE]
  /\ data = [c \in Clients |-> None] /\ waiting = [c \in Clients |-> None]
  /\ clicks = 0 /\ changes = 0 /\ drops = 0
  /\ clicked = [c \in Clients |-> None] /\ handled = [c \in Clients |-> None]

Message(o, s) == [type |-> "payload", origin |-> o, payload |-> s]

(* Mutant: the queue takes one message more.                               *)
QueueOneMore(to, m) ==
  down' = [c \in Clients |->
             IF c \in to \cap link /\ Len(down[c]) <= MaxQueue
               THEN Append(down[c], m) ELSE down[c]]

(* text() and textAll() discard what does not fit.                         *)
Queue(to, m) ==
  down' = [c \in Clients |->
             IF c \in to \cap link /\ Len(down[c]) < MaxQueue
               THEN Append(down[c], m) ELSE down[c]]

-----------------------------------------------------------------------------
(* The device.                                                             *)

(* Services: TankStatusService::loop, always CHANGED.                      *)
Heartbeat ==
  /\ beat = None
  /\ beat' = tank
  /\ UNCHANGED <<tank, net, link, down, up, page, env, hist>>

(* A new client is greeted before heartbeats have filled its queue: 32 of  *)
(* them take 16 seconds.                                                   *)
BroadcastBeat ==
  /\ beat # None
  /\ net.at = "accepted" => Len(down[net.client]) < MaxQueue - 1
  /\ Queue(link, Message(Beat, beat))
  /\ beat' = None
  /\ UNCHANGED <<tank, net, link, up, page, env, hist>>

(* Connections are made and lost on async_tcp: a client is in the list,    *)
(* and gets broadcasts, before it is greeted with its id and the status.   *)
Accept(c) ==
  /\ net = Idle /\ c \notin link /\ waiting[c] = None
  /\ link' = link \cup {c}
  /\ net' = [at |-> "accepted", client |-> c]
  /\ UNCHANGED <<tank, beat, down, up, page, env, hist>>

TransmitId ==
  /\ net.at = "accepted"
  /\ Queue({net.client}, Id)
  /\ net' = [at |-> "read", to |-> {net.client}, origin |-> Hello]
  /\ UNCHANGED <<tank, beat, link, up, page, env, hist>>

TransmitRead ==
  /\ net.at = "read"
  /\ net' = [at |-> "send", to |-> net.to, origin |-> net.origin, read |-> tank]
  /\ UNCHANGED <<tank, beat, link, down, up, page, env, hist>>

TransmitSend ==
  /\ net.at = "send"
  /\ Queue(net.to, Message(net.origin, net.read))
  /\ net' = Idle
  /\ UNCHANGED <<tank, beat, link, up, page, env, hist>>

(* TankStatus::update: one field changes at most; what start() makes of a  *)
(* wish to run is up to the pump, but the outcome counts as CHANGED.       *)
Update(c) ==
  /\ net = Idle /\ up[c] # <<>>
  /\ LET m == Head(up[c]) IN
     /\ handled' = [handled EXCEPT ![c] = m]
     /\ \/ /\ m.automatic # tank.automatic
           /\ tank' = [tank EXCEPT !.automatic = m.automatic]
        \/ /\ m.automatic = tank.automatic /\ m.run # tank.run
           /\ \/ tank' = [tank EXCEPT !.run = m.run]
              \/ m.automatic /\ m.run /\ UNCHANGED tank
        \/ m = tank /\ UNCHANGED tank
     /\ net' = IF m = tank THEN Idle
                           ELSE [at |-> "read", to |-> Clients, origin |-> c]
  /\ up' = [up EXCEPT ![c] = Tail(@)]
  /\ UNCHANGED <<beat, link, down, page, env, clicked>>

(* The control loop, in automatic, or a timer, which starts only: these    *)
(* change the tank without an update().                                    *)
Control ==
  /\ changes < MaxChanges /\ (tank.automatic \/ ~tank.run)
  /\ tank' = [tank EXCEPT !.run = ~@]
  /\ changes' = changes + 1
  /\ UNCHANGED <<beat, net, link, down, up, page, clicks, drops, clicked, handled>>

-----------------------------------------------------------------------------
(* The browsers.                                                           *)

(* Mutant: what the page has is kept, whoever caused the payload.          *)
OnMessageKeeps(c) ==
  /\ down[c] # <<>>
  /\ LET m == Head(down[c]) IN
     \/ /\ m.type = "id"
        /\ clientId' = [clientId EXCEPT ![c] = TRUE]
        /\ UNCHANGED data
     \/ /\ m.type = "payload"
        /\ data' = IF clientId[c] /\ data[c] = None
                     THEN [data EXCEPT ![c] = m.payload] ELSE data
        /\ UNCHANGED clientId
  /\ down' = [down EXCEPT ![c] = Tail(@)]
  /\ UNCHANGED <<device, link, up, waiting, env, hist>>

(* onMessage of useWs: payloads before the id are dropped, as are those    *)
(* the page caused itself.                                                 *)
OnMessage(c) ==
  /\ down[c] # <<>>
  /\ LET m == Head(down[c]) IN
     \/ /\ m.type = "id"
        /\ clientId' = [clientId EXCEPT ![c] = TRUE]
        /\ UNCHANGED data
     \/ /\ m.type = "payload"
        /\ data' = IF clientId[c] /\ ~(m.origin = c /\ data[c] # None)
                     THEN [data EXCEPT ![c] = m.payload] ELSE data
        /\ UNCHANGED clientId
  /\ down' = [down EXCEPT ![c] = Tail(@)]
  /\ UNCHANGED <<device, link, up, waiting, env, hist>>

(* Mutant: the first click of a burst is the one that is sent.             *)
ClickLeading(c) ==
  /\ data[c] # None /\ clicks < MaxClicks
  /\ \E f \in {"automatic", "run"} :
       LET d == [data[c] EXCEPT ![f] = ~@] IN
       /\ data' = [data EXCEPT ![c] = d]
       /\ clicked' = [clicked EXCEPT ![c] = d]
       /\ waiting' = [waiting EXCEPT ![c] = IF @ = None THEN d ELSE @]
  /\ clicks' = clicks + 1
  /\ UNCHANGED <<device, link, down, up, clientId, changes, drops, handled>>

(* A switch of the page: it flips one field of what the page shows, and    *)
(* the debounced saveData starts its pause again.                          *)
Click(c) ==
  /\ data[c] # None /\ clicks < MaxClicks
  /\ \E f \in {"automatic", "run"} :
       LET d == [data[c] EXCEPT ![f] = ~@] IN
       /\ data' = [data EXCEPT ![c] = d]
       /\ clicked' = [clicked EXCEPT ![c] = d]
       /\ waiting' = [waiting EXCEPT ![c] = d]
  /\ clicks' = clicks + 1
  /\ UNCHANGED <<device, link, down, up, clientId, changes, drops, handled>>

DoSaveData(c) ==
  /\ waiting[c] # None
  /\ up' = IF c \in link THEN [up EXCEPT ![c] = Append(@, waiting[c])] ELSE up
  /\ waiting' = [waiting EXCEPT ![c] = None]
  /\ UNCHANGED <<device, link, down, clientId, data, env, hist>>

(* The connection breaks; the browser tries again after a second, when the *)
(* pause of saveData is over (Accept).                                     *)
OnClose(c) ==
  /\ net = Idle /\ c \in link /\ drops < MaxDrops
  /\ link' = link \ {c}
  /\ down' = [down EXCEPT ![c] = <<>>] /\ up' = [up EXCEPT ![c] = <<>>]
  /\ clientId' = [clientId EXCEPT ![c] = FALSE]
  /\ data' = [data EXCEPT ![c] = None]
  /\ drops' = drops + 1
  /\ clicked' = [clicked EXCEPT ![c] = None] /\ handled' = [handled EXCEPT ![c] = None]
  /\ UNCHANGED <<device, waiting, clicks, changes>>

-----------------------------------------------------------------------------
Transmit == TransmitId \/ TransmitRead \/ TransmitSend

Next ==
  \/ Heartbeat \/ BroadcastBeat \/ TransmitId \/ TransmitRead \/ TransmitSend \/ Control
  \/ \E c \in Clients : \/ Accept(c) \/ Update(c) \/ OnMessage(c)
                        \/ Click(c) \/ DoSaveData(c) \/ OnClose(c)

Spec == Init /\ [][Next]_vars

(* Services runs again and again, async_tcp works off what it has, and an  *)
(* open connection and a timer of a browser deliver.                       *)
Fairness ==
  /\ WF_vars(Heartbeat) /\ WF_vars(BroadcastBeat) /\ WF_vars(Transmit)
  /\ \A c \in Clients : WF_vars(Update(c)) /\ WF_vars(OnMessage(c)) /\ WF_vars(DoSaveData(c))

FairSpec == Spec /\ Fairness

-----------------------------------------------------------------------------
(* Properties.                                                             *)

TypeOK ==
  /\ tank \in Status /\ beat \in Status \cup {None} /\ net \in Jobs
  /\ link \subseteq Clients
  /\ \A c \in Clients :
       /\ \A k \in 1 .. Len(down[c]) : down[c][k] \in Payload \cup {Id}
       /\ Len(down[c]) <= MaxQueue
       /\ \A k \in 1 .. Len(up[c]) : up[c][k] \in Status
       /\ {data[c], waiting[c], clicked[c], handled[c]} \subseteq Status \cup {None}
  /\ clientId \in [Clients -> BOOLEAN]
  /\ clicks \in 0 .. MaxClicks /\ changes \in 0 .. MaxChanges /\ drops \in 0 .. MaxDrops

(* Of a burst of clicks the last one counts: once the page has nothing     *)
(* more to send, its last record that the device saw is the last click's,  *)
(* whatever arrived in between.                                            *)
LastClickCounts ==
  \A c \in link : clicked[c] # None /\ waiting[c] = None /\ up[c] = <<>>
                  => handled[c] = clicked[c]

(* When users and pump come to rest, every open page shows the tank as it  *)
(* is, also after refused starts, ignored echoes, broadcasts that overtook *)
(* each other and messages that did not fit.                               *)
Converges == \A c \in Clients : <>[](c \in link => data[c] = tank)
=============================================================================
