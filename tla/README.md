# A verification project for the water tank automation

The program is an ESP32 firmware that reads an ultrasonic distance sensor,
keeps the water level of a tank between two points by switching a pump, and
serves a React application that shows and configures all of it. Its framework
(`lib/framework`) is a fork of esp8266-react; the tank's own services live in
the same directory. This directory holds TLA+ modules translated from that
code, the TLC configurations that check them, and proofs.

Paths are relative to the repository; TLA+ names follow the source's names.
`PROJECT.json` lists the components with their status, the runs, the lines every
definition stands for, the findings, the theorems, and under `hazards` the
places where the code is hard to test, with the property that covers each.

## 1. Inventory

### Tasks and what they share

| task | core | runs | source |
|---|---|---|---|
| `TankController` | 1 | `PumpStartStopPointService::loop()` while `tank.automatic`, then `readSensor()`, for ever | `src/main.cpp:62-70` |
| `Services` | 0 | the `loop()` of every other service, in order | `src/main.cpp:72-81` |
| `async_tcp` | any | every HTTP and web socket callback, one at a time | AsyncTCP (library) |
| WiFi events | any | `onStationModeDisconnected`, `onStationModeStop`, OTA's and NTP's handlers | Arduino core |
| browsers | - | `useWs`, `useRest`, the pages | `interface/src` |

The first three share the global `TANK_DETAILS tank` and the relay pin with no
lock. `StatefulService::read` and `update` take a recursive mutex per service,
but the loops of the pump, of the timer and of WiFi use `_state` directly.

### Components

| component | state | operations | what makes it hard | what makes it correct | module |
|---|---|---|---|---|---|
| pump controller | relay, `pump_running`, `running_since`, `run_till`, three faults, `ground_reserve`, `automatic`, points, `_last_millis` | `start`, `stop`, `forceStart`, `forceStop`, `loop`; commands and POSTs | three tasks, no lock; a wrapping clock read early and used late | the relay is what the program thinks it is; no pump runs on in a full tank, a fault or for ever; a low tank gets its pump | `PumpStartStop` |
| water level sensor | ring of 30 readings, sum, level, speed, two faults | `readSensor` | the ring starts full of zeros; timers and faults interplay | the level is a moving mean of what was measured, or a fault is shown | `WaterSensor`, `SensorChain` |
| serial frame reader | receive buffer, three bytes | `getDistance` | no framing: any byte may look like a mark; lost bytes, cuts | each frame once and unchanged; back in step after a loss; a cut reported | `SerialFrame`, `SensorChain` |
| auto-start timings | list of timings, `auto_start` | `loop`, `update` | the list is walked without the lock; a minute could be missed | each timing that is due is served in its minute | `AutoStartTimer` |
| settings persistence | `_state` and one file per service | POST, update handlers, `readFromFS`, `writeToFS`, restart, factory reset | saved only when the client disconnects; crashes, full flash | what was confirmed survives; a reset forgets | `PersistentSettings` |
| status web socket | `AsyncWebSocket` queues, page data, debounce | heartbeat, greeting, command, broadcast, reconnect | two tasks broadcast; queues overflow; echoes suppressed; optimistic page | pages end up showing the tank; the last click counts | `StatusSocket` |
| WiFi station, access point, network time | `_lastConnectionAttempt`, `_stopping`, `_reconfigureAp`, driver mode, the SNTP client | three loops, POSTs, the events of the driver | three tasks read first and act later | the device ends up on its network, can be reached meanwhile, and asks for the time | `Network` |
| security and sign-in, on the device and in the page; user management | users, secret, JWT handler; token, `me`, location, dialogs | sign in and out, verify, guard, edit and save users | the handler's secret lags behind; redirects; stale lists of two browsers | there is always an admin; the browser comes to rest; a revoked user is signed out | `Session` |
| REST forms | `data`, `saving`, `errorMessage` | `loadData`, `saveData`, edits, retry | answers in any order, requests lost, pages left | what is shown is what is stored | `RestForm` |
| settings forms | fields, validators, `update()` | edit, submit | validators against what is shown and against what the device takes | what is saved is kept; what is wrong can be mended | `SettingsForms` |
| tank's forms | slider, colours, list of timings, dialog | edit, add, delete, save | an index that outlives its page | the list saved is the list shown | `TankForms` |
| status pages | status, dialogs, commands | load, refresh, restart, factory reset, set time | keys that are not always sent; double presses | rows read only what is sent | `StatusForms` |
| WiFi scanner | scan state of the driver | `scanNetworks`, `listNetworks`; polling page | one scan for all clients | the list on the screen is of a new scan | `ScanPage` |
| firmware upload, restart monitor | the global `Update` object, uploads, polls | chunks, completion, early disconnect, cancel, polls | several requests use one object; restart on disconnect | no update is left running | `UploadPage` |
| pump light | LED colours | `update`, `loop` | a refused update changes the state | - | in `PersistentSettings`, `TankForms` |
| OTA | `_arduinoOTA` pointer, settings | `loop`, `configureArduinoOTA`, event | used on one task, deleted on another | never used after it was deleted | settings in `SettingsForms` |
| read-only status services | - | `APStatus`, `NTPStatus`, `SystemStatus`, `WiFiStatus`, `FeaturesService` | - | - | `StatusForms`, `Session` |
| assembly, value helpers, layout, build | - | `ESP8266React`, `SettingValue`, `JsonUtils`, layout components, scripts | - | - | see section 8 |

## 2. How the project is laid out

The pages of the site are one system seen one page at a time: `RestForm` is the
hook and the endpoint that all of them use, `SettingsForms`, `TankForms`,
`StatusForms`, `ScanPage` and `UploadPage` extend it with what each page holds,
and `Pages` puts them together, with a step of a page leaving alone what
belongs to the others. `Pages` is checked as one specification: a scan hands its
network to the WiFi settings page, and the forms share their request machinery.

Everything else is a module per component: `PumpStartStop` (with the abstract
`HysteresisPump` and the mapping in `PumpRefinement`), `WaterSensor`,
`SerialFrame`, `AutoStartTimer`, `PersistentSettings`, `StatusSocket`,
`Network`, `Session`. `SensorChain` extends `SerialFrame` and `WaterSensor`,
whose variables and specifications therefore have names of their own
(`frameVars`, `LevelSpec`), and composes them as `readSensor()` composes them.
The tank's readings appear in `WaterSensor` with their values and in
`PumpStartStop` with the order of their writes; the pump appears in
`AutoStartTimer` and in `StatusSocket` as a variable others switch.

`MC*` modules give the constants their values for TLC. `*_proofs` modules hold
the theorems; no module they reach declares a RECURSIVE operator.

## 3. The modules

### PumpStartStop (the core)

Source: `lib/framework/PumpStartStopPointService.{cpp,h}`, the tasks of
`src/main.cpp`, `TankStatus::update`, the timer's call of `start()`.

One step is one access to memory that another task may write. An
`if (a && b && c)` is read conjunct by conjunct (`GuardHolds`, `GuardFails`),
`forceStart()` is seven steps (`RelayOn` ... `MarkRunning`: `run_till` is written,
read for the comparison with `MinRun`, and read and written once more where
`MinRun` is added), `forceStop()` two (`RelayOff`, `MarkStopped`), and `pc[t]`
says where task `t` is; `held[t]` is what it has read and not used yet. The three
tasks run the same routines, as in the code: `Pump(t)`. Routines return to
`ret[t]`. The level is read together with what it is compared with or turned into.

| code | model |
|---|---|
| `tank->level`, the fault flags, `ground_reserve`, `automatic`, `pump_running`, `run_till` | variables of the same names |
| `digitalWrite(RELAY_PIN, ..)` | `relay` |
| `tank->running_since`, `_last_millis`, `currentMillis` | `sinceAge`, `lastAge`, `cmAge`: their ages |
| `start()`, and the test of the timer loop before it | `Guard` from conjunct 2, from conjunct 1 |
| `forceStart()` | `RelayOn`, `RunningSince`, `RunTill`, `CheckRunTill`, `ReadRunTill`, `RunAtLeast`, `MarkRunning` |
| `forceStop()`, the tail of `stop()` | `RelayOff`, `MarkStopped` |
| `loop()` | `EnterLocked`, `ReadMillis`, `BodyFault`, `BodyRunning`, `StopIfFull`, `ReadElapsed`, `TimeLimit`, `LatchReserve`, `LatchRelayFault`, `StartIfLow`, `LoopOver` |
| `readSensor()` (order of its writes) | `NoReading`, `GoodFrame`, `BadFrame`, `Silence`, `MarkSensor`, `MarkWire` |
| `TankStatus::update` | `SetAutomatic`, `SetRun`, `StopIfRunning` |
| `StartStopPoints::update` | `PostStart`, `PostStop` |
| `PumpAutoSettingService::loop` | `TimerDue`, the flags one by one (`FaultSeen`, `NoFaultSeen`), then any number of timings that match (`NextTiming`, `TimingsOver`) |

Time: only differences of the unsigned `millis()` are ever used, so the model
keeps ages, modulo `MillisMod`; `Elapsed` is the unsigned subtraction of the
code. `run_till` is an `unsigned long` too, and wraps where overlapping starts
add to it. `Second` is the number of ticks in a second, `MaxLag` how many of them one
iteration of `TankController` may take: it waits for nothing but the rest of a
frame that was cut short, for which `readBytes` allows a second.

The order in which the compiler keeps plain stores to `TANK_DETAILS` is taken to
be the order of the source; the fields are not `volatile`, so a reordering
would be one more behaviour of a data race that the model does not have.

`HysteresisPump` is the promise such a controller makes: on only in a low tank
without faults and with a ground reserve, never left on in a full tank or a
fault, off for good without a reserve. `PumpRefinement` maps the controller to
it (`on <- relay`, `fault <- Fault`).

### WaterSensor

`readSensor()` with real distances and levels. `READINGS`, `idx`, `water_sum`
are the ring; `window` is the history it is compared with. The 32-bit float
product of the source equals the integer floor for every distance from 220 to
2000, so `WaterOf` uses integers. A call is one step because only the control
task writes these variables.

### SerialFrame

`getDistance()` reading from Serial2, and the sensor that sends frames of four
bytes. `Lose` drops a byte, `Cut` and `Mend` break the wire in the middle of
anything, `ReadTimeout` is `readBytes` giving up after a second: what the
buffer holds in the place of the bytes that did not come is what the stack held
(`Stack`), as in the code, which does not look at the result. The sensor and the
line are external.

### SensorChain

`readSensor()` with the `getDistance()` it calls, and the sensor, the line and the
clock around them. A call with a byte waiting stays in `getDistance()` until that
returns (`Wait`), while bytes come, the wire is cut and time passes, and uses its
distance in the step in which it gets it (`UseDistance`); only a call with no byte
waiting looks for silence (`NoByte`). `WaterSensor` on its own takes any distance at
any time, `SerialFrame` knows nothing of levels; here a fault or a level is traced
back to what the sensor measured, and a cut wire forward to the fault it must
raise, whatever a torn frame was taken for.

### AutoStartTimer

`PumpAutoSettingService::loop()` and `PumpAutoStart::update()` with the list
they share, one list operation per step; a clock slot stands for a minute.
`weekAndState` is the byte of the page's buttons, `Due` the bit the loop tests.
A list that is cleared under the loop leaves it with a freed node (`dangling`),
whose content is arbitrary. `served` is the set of positions the present slot has
done right by: `start()` was called for the timing there, or the loop came to it
with the pump running. `NoTimingMissed` asks it of every timing that was due.

### PersistentSettings

`HttpEndpoint`, `StatefulService` and `FSPersistence` together, for several
services. A POST changes `mem` and is answered at once (`Post`); its update
handlers, and so the file, come with the disconnect of its client
(`Disconnect`). `WriteToFS` may fail before or after the file was opened.
`Restart` is any restart, power cuts included; LittleFS replaces a file when it
is closed, so a cut leaves the old or the new content. `Resetting` holds the
services whose updater has overwritten the state when it answers ERROR (the
pump light's colours).

### StatusSocket

The heartbeat of `TankStatusService`, the greeting, commands and broadcasts of
`WebSocketTxRx`, and the page: `useWs` with its debounce and its suppression of
echoes, the two switches of `TankStatus.tsx`. The status is abstracted to the
two fields a command may change; `Control` is the pump controller and the
timers. Every message, the one with a client's id included, is discarded when the
client's queue is full (`Queue`). A new client is greeted before heartbeats alone
have filled its queue: 32 of them take 16 seconds (guard of `BroadcastBeat`). That
`makeBuffer()` gets no memory is left out.

### Network

The `loop()`s of `WiFiSettingsService` and `APSettingsService` in their order on
`Services`, `reconfigureWiFiConnection()` and `configureNTP()` on `async_tcp`
when the client of a POST disconnects, and the handlers of the driver's events
on the event task. `pc` says where each task is; a step ends before the next
read or write of something another task writes: the delay that is tested and
then reset (`CheckDelay`, `Attempt`), the name that is read and then begun with
(`ReadCredentials`, `Begin`), the driver that is stopped before `_stopping` is
set (`Reconfigure`, `MarkStopping`), the status that is asked before the client
is started or stopped (`ReadConnected`, `StartOrStop`).

The driver is external: `sta` and `ap` are the bits of `WiFi.getMode()`, `link`
what was begun, `events` its queue. `WiFi.isConnected()` (`connected`) is what
the handled events tell. The DNS server of the captive portal lives exactly as
long as the access point and is not a variable of its own; whether stations are
on it is a free choice. `Elapse`, the 30 s of `WIFI_RECONNECTION_DELAY`, only
happens when the waiting events have been handled: handling them takes
milliseconds.

### Session

`SecuritySettingsService`, `AuthenticationService` and the checks of
`SecurityManager` on one side; `Authentication`, the three `Require...` routes,
`RootRedirect`, `SignIn`, `ManageUsersForm`, `UserForm` and
`SecuritySettingsForm` on the other. A token is a name, a role and the secret it
was signed with; verification compares them with the user's present role and the
handler's secret, which `configureJWTHandler` brings up to date only when the
client of a save disconnects. A request carries the token of the moment it was
sent and whether the interceptor was there then: it is not for the first load of a
page that is opened (`FirstLoad`), because the effects of a child run before those
of `AuthenticatedRouting`, which has just taken its interceptor away. Requests may
be lost, and so may their answers. `OtherSaves` is another browser
saving a list of its own. A navigation is one step from one place to the next,
so that redirects can chase each other if the routes let them.

### RestForm, SettingsForms, TankForms, StatusForms, ScanPage, UploadPage, Pages

`RestForm` is `useRest`, `FormLoader` and `HttpEndpoint`: a request is served in
one step and its answer taken in another, in any order; it may be lost either
way. `Remount` is leaving the page and opening it again: saves and commands
on their way are still served, but nobody takes their answers.

`SettingsForms` says for each of five pages which fields it has, which of them
are shown (`Shown`), what its validator complains about (`...Invalid`), and what
`update()` on the device makes of what it is sent. A text is one of two legal
values, empty, or one the page calls bad; an address may also be one the page
accepts and the device reads as `INADDR_NONE` ("unset"), or the factory's, which
the access point falls back to and its page accepts again.

`TankForms` has the slider with its two thumbs, the colours, and the list of
timings with its dialog; `idx` is a variable outside of the component, so that it
outlives the page, and `Render` throws when it points past the list.

`StatusForms` has the four status pages, their refresh, the two commands of the
system page and the dialog of the clock; the keys the device sends and the keys
the rows read are sets of names.

`ScanPage` has one scan of the device for all clients, the page's polls, and the
selection that opens the WiFi settings; the polls of a visit that is over are
those of one more client. `UploadPage` has the one `Update` object,
uploads of this page and of others in chunks, errors, disconnects at any time,
the restart that follows a whole image, and the restart monitor's polls; one of
them that is out when the page is left leads away from it all the same
(`strayPoll`).

## 4. The runs

| run | question | bounds |
|---|---|---|
| `PumpCtl` | does the control task, on its own, keep the promise of `HysteresisPump` (safety and liveness), stop every run in time and trip only when the time is up? | levels 0-3 and the fault level, points (1, 3), 3 seconds to fill the tank, 2 ticks a second, clock of 12 ticks |
| `PumpRace` | do relay and `pump_running` agree while all three tasks start and stop the pump? | one level, commands in automatic mode |
| `PumpLive` | with a user switching modes, pump and points: does a low tank get its pump, does the pump stop in a fault and in a full tank? | levels 0 and 3 and the fault level, points (0, 3) |
| `PumpFalseTrip` | does the time limit trip only when the time is up, also when others start the pump? No | one level, all commands |
| `WaterSensor` | is the level the mean of the last readings, or a fault? How far can one reading move it? | window of 3, distances at the edges of every branch |
| `Chain` | is every distance measured while the line loses nothing used once, in order, for a level or a fault? Is a cut wire reported for good? Does the reader fall in step again after lost bytes and cuts? | real bytes, a buffer of 2, a usable distance and one with a mark for its low byte and a sum that overflows, two bytes on the stack, one lost byte, any number of cuts; window, silence and interval of 1 |
| `AutoStart` | is a due timing ever missed? Does `auto_start` follow faults and clock? | two timings, slots of 3 ticks, a day of 2 slots |
| `Persistent` | are settings saved, do they survive, does a factory reset forget? | two services, three values, two open requests each, one failed write |
| `Socket` | does the last click count, and does the page end up showing the tank? | one browser, a queue of two, two clicks, one change, one broken connection |
| `Pages` | on every page: is what is shown what is stored, does what passes the validators survive `update()`, can every error be mended, does nothing wait for ever? | two edits, one return to a page, one lost request, two timings, three positions, three polls, three uploads of three chunks |
| `Network` | does the device end up on its network, can it be reached meanwhile, does the clock follow? | two networks, one POST, one change of what is in reach |
| `Session` | is there always an admin, do redirects come to rest, can one sign in, is a revoked user signed out? | two users, one edit, two sign-ins, one request at a time, one lost, one reload, one save by another browser |

Why the bounds are enough. The pump's guards compare the level with two points
and two constants: one level per interval between them shows every branch.
`Second = 2` makes the integer division of `loop()` lose a tick, and the clock
is longer than the longest run plus its lag, so that it wraps only as the real
one does; in `PumpLive` two overlapping starts can add `MinRun` twice, and 5
ticks leave room for that run too. A window of 3 lets the ring wrap several
times and be partly filled. In `Chain` the window is 1, because its properties
are about what enters the ring and about the faults, and `WaterSensor` looks
into the ring; the bytes on the stack turn a torn frame into a bad one, or by
luck into the distance that was being sent. A slot of 3 ticks is the shortest
that is longer than the loop's period and lag, the case in which a minute could
slip through. Two services and two requests per service give every order of
answers, disconnects and restarts of two actors.

Two clicks make a burst. To the page of one browser the command of another is a
change of the tank and a payload of foreign origin, as `Control` and the
heartbeat make them; that the last click counts with any number of browsers is
proved (section 7).

In `Pages` the form of the WiFi, access point and scan pages starts with one of
its two edits used up: their fields have so many values that one edit of every
field from every stored record, together with the records themselves, is what
fits; validators and `update()` look at two fields together only for static
addresses, which the stored records vary. Three uploads are the page's own, the
one it cancelled, and one by somebody else. Three polls show the first, a middle
and the last.

In `Network` one POST and one change of the surroundings at any point of the
three tasks' loops give every pair of an event, a request and a loop that
overlap. The state space grows too fast for two of either; `ClockFollows` is
proved for any number. In `Session` one request at a time leaves the browser's
own requests in order; that there is always an admin is proved for any number of
requests and edits. Denied and late answers of an earlier session still meet a
new one, since signing out does not wait for them.

`RunBound` is tight: `RunLimit` is the time limit, one period of the loop and
the lag of two iterations, and a smaller number fails. `PumpCtl` has the smallest
numbers that satisfy `Paced`, the hypothesis of its theorem (section 7). It is about the control
task alone. When a user turns automatic mode off, or a timer starts the pump in
manual mode, nothing stops a pump but the user: the loop is not called.

`Network`, `Session` and `Pages` do not check for deadlock: a device with
everything posted and all networks gone quiet, or a page whose user does nothing,
really stops.

### Fairness

- Every FreeRTOS task is scheduled again and again; `TankController` has core 1
  almost to itself, `Services` shares core 0, and neither blocks: weak fairness
  of each task's own steps, of the clock, and of nothing that belongs to the
  environment (readings, commands, posts, timers, faults).
- `CutIsReported` and `Recovers`: weak fairness of the calls of `readSensor()`,
  which the control task makes for ever, of the sensor, which measures for ever
  while its wire is whole, and of the clock; nothing forces the line to lose or
  keep anything.
- `Converges`: Services beats for ever; an open connection delivers what is
  queued; a browser's timer fires.
- `Network`: the three tasks go on and delays elapse; a network out of reach
  fails to be joined; one in reach is joined if it is tried again and again,
  which is strong fairness of `Join`, because the events of an earlier attempt may
  interrupt each one.
- `Pages` and `Session`: the device answers what reaches it, the browser hands
  over every answer and keeps its timers, a scan ends, a connection that is done
  closes. Users owe nothing.

### What the model-checked properties do not promise

- With overlapping writes (`raced`) the relay may be HIGH while `pump_running`
  is FALSE. In a full tank the loop then neither stops the pump, because the
  branch for a running pump is not reached, nor limits its time. `Agreement`,
  `RunBound` and `FullStops` therefore except it; a fault clears it, since the
  fault branch calls `forceStop()` unconditionally (`FaultStops` has no
  exception).
- A stop point above 1985, the highest level a reading can give, is never
  reached: every run ends in the lock-out.
- Distances whose bytes add up to more than 255 are always refused: the sum is
  compared without dropping its carry (`SumMatches`). Distances of which a
  later byte or the sum is 255 can keep a reader that started in the wrong
  place out of step for as long as they are measured; `Recovers` asks for others
  (`Usable`).
- A light POST that is refused has already replaced the colours by defaults:
  they differ from the file until the next POST that is accepted or the next
  restart. `MemorySaved` excepts it (`spoilt`).
- A heartbeat that read the state before a command may be queued after the
  command's broadcast; the page shows the older state until the next heartbeat.
  `Converges` is what remains.
- `ClockFollows` excepts two runs of `configureNTP` that overlap on different
  tasks (`raced`): the later answer may belong to the earlier question, and the
  client stays off while connected, or on while not wanted.
- `Reconnects` allows the network of before a change in one case (`stale`): the
  name was read by `manageSTA()` before the POST and begun after its handler
  found the station off.
- `KeepsSettings` lets `update()` change what the page let pass in three cases:
  a second name server moves up when the first is empty; an address that reads as
  `INADDR_NONE` is dropped, and an incomplete static configuration turned off;
  an access point mode that follows an invalid stored one is replaced.
- `ShownIsStored` excepts a save of an earlier visit that is served after the
  load of this one (`late`).
- `Settles` says of saves, commands, spinners, uploads and the restart monitor
  that they end. It leaves out the spinner of the three pages of the tank, whose
  `FormLoader` gets neither an error nor a retry, and a page that has crashed.

## 5. A disagreement found

**The time limit** (`PumpFalseTrip`). `loop()` reads the clock at line 64 of
`PumpStartStopPointService.cpp` and compares it at line 73 with a
`running_since` that another task may have written in between; the unsigned
difference wraps and the pump is locked out at once.

Noticed while modelling, without a run: they follow from a line or two of the
code and need no search.

- The page toggles bit 0 for Sunday (`PumpTimingSettings.tsx:162`), the firmware
  tests `0x40 >> tm_wday` (`PumpAutoSettingService.cpp:39`): a timing chosen for
  Sunday fires on Saturday.
- `marked[]` has `MAX_AUTOSTART` elements (`PumpAutoSettingService.h:78`), is
  written from index 1 to `MAX_AUTOSTART` and never read.
- The list of timings is walked outside of the lock that protects its update.
- A broadcast also goes to its origin, although a comment
  (`WebSocketTxRx.h:136`) says it does not.
- The last `if`/`else` of `PumpLightService.cpp:47-51` overrides the fault
  colours, and the labels of `LedColorSetting.tsx` are in another order than the
  firmware's.
- A file the dropzone refuses is still posted as a form without one
  (`useFileUpload.ts:41`), which the device answers with success and a restart.
- After the last timing was deleted, or a shorter list came from elsewhere, the
  dialog of the timings page reads past its list (`PumpTimingSettings.tsx:23`).
- A POST of access point settings does not set `_reconfigureAp`: an access point
  that is up keeps its old name.

## 6. Mutants

Each property of a passing run has a mutant in `PROJECT.json`: an operator beside
the one it replaces (`...Kept`, `...Only`, `...Anyhow`), with a slip someone could
have made in that line. The run of the property fails with it.

## 7. What is proved

For every value of the constants that the named assumptions of the modules allow;
TLC evaluates those assumptions in the runs. Only three theorems, all of the pump
controller, have hypotheses of their own; they are named and explained below. Each
inductive invariant was checked by TLC before it was proved.

**`PumpStartStop_proofs`** (`LevelAssumption`, `TimeAssumption`): any tank,
readings, points, commands, clock width and lag.

- `TypeCorrect`. `TypeOK` alone is not inductive: `cmAge \in 0 .. lag` would
  break when `Poll` resets `lag`. `TypeInv` adds `CmAgeReset`: outside of
  `loop()` the age of `currentMillis` is zero. `RunTillNat` shows that the
  integer division never yields a negative run time, which is where the
  assumption that the fault level is below twice the tank is needed.
- `RelayAgreement`, for all three tasks at once. Call a task *starting* after
  `RelayOn` until `MarkRunning`, *stopping* after `RelayOff` until
  `MarkStopped`. `Agreement` says nothing of a task that is writing; `RelayInv`
  adds that, unless the last writes overlapped, at most one task is writing, and
  that the relay is HIGH when it is starting and LOW when it is stopping. All
  steps but four leave this alone (`QuietSteps`); those four are `WriteSteps`.
- `RunIsBounded` (`RunBound`) and `TripsJustified` (`TripJustified`), under
  `Unattended` and `Paced`. `Unattended` says that nobody else starts the pump
  (no commands, no timers); the points may be posted at any time. `Paced` says
  that `MinRun` is below `FULL_TANK_TIME` (120 s and 1500 s in the code), that
  twice the lag of an iteration fits in that time, and that the longest run does
  not wrap the clock (32 bits of milliseconds). The first two
  cannot be dropped: with `MinRun` equal to `FULL_TANK_TIME` an extended run lasts
  twice as long, and with a loop just too slow for the second, and points that
  change in between, a start that is refused leaves a `_last_millis` that the
  clock catches up with; TLC finds both. The third keeps the age of a run below
  the width of the clock, and `run_till` with it. `PumpRace` and `PumpFalseTrip` are what
  becomes of the properties when others start the pump. The invariant `TimeInv` says,
  at each place of the control task, when the age of the run was last compared
  with `run_till` (`Known`), what the task holds between reading one of the two
  and using it (`held`), and that `_last_millis` lags behind it by one
  iteration at most; `RelayInv` is needed for it, because the loop limits what
  `pump_running` says and not what the relay does. `WholeSeconds`,
  `SecondsGrow` and `ElapsedIsTrue` are the facts about the unsigned subtraction
  and the division that turns ticks into seconds.
- `ControllerKeepsPromise`, the safety half of `KeepsPromise`, under `OnItsOwn`:
  `Unattended` and one pair of points. Every step of the controller is a step or
  a stutter of `HysteresisPump`. The invariant `SeenStays` says that what
  `start()` has seen, conjunct by conjunct, still holds when the relay is
  written, and that `LatchReserve` finds the relay off; `Alone` that the other
  tasks do nothing but post the points there are.

**`Pages_proofs`** (the assumptions of `RestForm`, `SettingsForms`, `TankForms`,
`StatusForms`, `ScanPage` and `UploadPage`): all seven invariants of the pages and
their action property, for any number of edits, visits, lost requests, timings,
polls, uploads and chunks: `PagesTyped`, `PagesShowWhatIsStored`, `OneAtATime`,
`RowsAreSent`, `ListIsFresh`, `UpdateIsOwned`, `AlwaysRepairable` and
`SavesKeepSettings`. They share one inductive invariant, `PagesInv`, one part for
each group of pages:

- `Values`: requests are records with all their fields, flags are Booleans,
  counters stay within their bounds.
- `FormInv`: what makes `ShownIsStored` inductive. A form waits for one request at
  most, a load while it shows nothing or a save while it says so, though saves of
  earlier visits may still be under way; and an answer on its way to it is what is
  stored, unless such a save came in between (`late`). Every action of a form
  is, for this part, one of the few abstract steps of `FormStep`.
- `StatusInv`: the same for the status pages, whose answers are keys and not
  values, with `StatusStep` for its steps.
- `ScanInv`: whose turn it is (one request or a timer, never both), and that from
  the answer to the page's request on the results are of a scan that ended since.
- `SettingsInv`: what is stored, sent and shown are legal records of the page, in
  which no hidden field is invalid. This carries `Repairable`, and it is
  where the hand-over of a network from the scanner to the form is dealt with.
- `TankInv`: the lists of timings shown, sent and stored, and the dialog with its
  index that outlives the page.
- `UploadInv`: an update that runs is owned by an open connection.

`KeepsSettings` speaks of the requests the device serves on a page of settings:
whatever a page has sent passed its validators (`SettingsSent`).
`SavesKeepSettings` goes through what `update()` does with each field of each
page: `IsExcused` names the three cases where it may differ, and the proof shows
that there is no fourth.

**`SensorChain_proofs`** (`FrameAssumption`, `SensorAssumption` and, for the chain,
`ReturnedAssumption`) has the line, the level and the two together.

- The line, for bytes of any size: `FrameTyped` and `ReturnsMeasuredHolds`.
  `InStep`: the mark the reader has met, its buffer, the receive buffer and what is
  still to be sent, read as one sequence (`At`), are the frames of the distances
  expected. All actions but three only move bytes on (`MovesOn`); `Measure` adds a
  frame at its end, `Return` takes one off its beginning, and `ReadStray` cannot
  happen, the first byte being a mark.
- The level, for a window of any size: `LevelTyped`, `LevelIsMean`,
  `FaultsAreShown` and `LevelMovesLittle`. `RingInv` says what is in each slot
  (`Held`): with fewer readings than slots, the readings in their order and zeros
  after them; with all of them, the oldest in the slot that is written next. So
  what `readSensor()` takes from `water_sum` is the reading that leaves the window
  or a zero, and `water_sum` stays the sum of the window (`PushKeeps`). What `Total`
  computes needs an induction over the sequence, and the library's induction
  theorems are out of the provers' reach; `SmallestNat`, that a set of numbers has a
  smallest member, follows from the well-foundedness of strict inclusion between
  finite sets and takes its place (`SumsExist`, `TotalIs`, `TotalBounds`).
- The chain: `ChainReadsFrames` and `ChainShowsLevels`, it implements both
  specifications; the second needs `FrameTyped`, since what the reader returns must
  be what `WaterSensor` takes. `LevelsAreMeasuredHolds` puts the reader's invariant
  and the call's use of what it returns together: a call that has a distance takes
  the oldest of those expected, and no other step changes the ring or the fault.

**`AutoStartTimer_proofs`** (`TimerAssumption`): `TypeCorrect` and
`NoTimingMissedHolds`. `PassedAreServed`: once a walk has begun in an undisturbed
slot each due timing it has passed is served. A slot is longer than period and lag
together, so that a walk begins in every slot.

**`PersistentSettings_proofs`** (`SettingsAssumption`): `TypeCorrect`,
`MemorySavedHolds`, `DurableHolds`, `ResetForgetsHolds`, for any number of services,
values, requests and failing writes. Each property speaks of a running device; the
invariants `Saved`, `Settled` and `Forgotten` add what holds of the file while
services are still loading, one after the other.

**`StatusSocket_proofs`** (`SocketAssumption`): `TypeCorrect` and
`LastClickCountsHolds`, for any number of browsers. `LastUnderWay`: the last click
is what the page is about to send, or the last record in its queue, or what the
device has handled; the length of a queue needs the limit of every message that
enters it; `ClosedIsEmpty` and `GreetsOpen` keep closed sockets out.

**`Session_proofs`** (`BoundsAssumption`): `TypeCorrect` and
`AlwaysAnAdminHolds`. An admin in the device's list is not enough, since stale
lists come back: every list on its way to or from the device has an admin
(`Good`), and so has a form that cannot edit users (`SecretKeepsAdmin`).

**`Network_proofs`** (`NetworkAssumption`): `ClockFollowsHolds`, for any networks
and any number of changes. A stop changes the status without running
`configureNTP`, so the point is that the status is off by then: `Off` computes the
status along the queue of events, `OffBeforeStop` says it is off where a stop is
waiting, and `OffWithoutLink` and `StationOff` carry that through the driver's
calls. `ReadIsCurrent` says that a run of `configureNTP` that is not overlapped
acts on what is still so.

Only model-checked: everything under fairness (`FaultStops`, `FullStops`,
`LowStarts`, `CutIsReported`, `Recovers`, `AutoStartTold`, `Converges`,
`Reachable`, `Reconnects`, `Settles`, `ComesToRest`, `SignInReady`,
`RevokedLeaves` and the liveness half of `KeepsPromise`), which needs ENABLED. Every
invariant and every other action property of the runs is a theorem, except
`TripJustified` where it does not hold (`PumpFalseTrip`).

## 8. What is not modelled, and why

- The life of the OTA object: `Services` uses it while two other tasks delete
  it. What follows is undefined, and a model could promise nothing.
- The loop of the pump light: a colour computed from the flags, without state
  that others read.
- Cryptography: a signature is the secret it was made with.
- Assembly, except the order of the loops; placeholders of `SettingValue`,
  except as the set `Defaults`; formatting and units; layout, styles and the
  gauge; the colour picker, whose dialog cannot be opened.
- `removeUpdateHandler` and `disableUpdateHandler`, which nothing calls.
- Build scripts, vendored libraries, generated assets, and the ESP8266 branches
  of the preprocessor: `platformio.ini` by default builds for the ESP32.
- AsyncTCP, ESPAsyncWebServer, LittleFS, the WiFi driver, the sensor and the
  browser are external: the models use them as the code does.

Work that is left: larger instances of `Network` and two browsers in `Socket`.
