----------------------------- MODULE SerialFrame -----------------------------
(***************************************************************************)
(* The serial line of the distance sensor and getDistance(), its reader.   *)
(*                                                                         *)
(* The sensor sends a distance as four bytes: 255, the high byte, the low  *)
(* byte and the low byte of their sum.  The reader looks at one byte per   *)
(* call until it meets a 255, then takes the next three.  Nothing marks    *)
(* the 255 as a beginning: it may be a low byte or a sum.                  *)
(*                                                                         *)
(* Bytes have Base values (256 in the code), Base - 1 being the mark.      *)
(***************************************************************************)
EXTENDS Integers, Sequences

CONSTANTS
  Base,        \* values of a byte
  Distances,   \* pairs <<high, low>> the sensor may measure
  MaxQueue,    \* bytes the receive buffer holds
  MaxLost,     \* bytes the line may lose
  Cuts,        \* TRUE iff the wire may be cut and mended
  Stack        \* what the stack may hold where no byte was written

Mark == Base - 1
Byte == 0 .. Base - 1

ASSUME FrameAssumption ==
  /\ Base \in Nat \ {0, 1}
  /\ Distances \subseteq (0 .. Base - 1) \X (0 .. Base - 1)
  /\ MaxQueue \in Nat \ {0} /\ MaxLost \in Nat /\ Cuts \in BOOLEAN
  /\ Stack \subseteq Byte

VARIABLES
  sending,   \* bytes of the current frame not sent yet
  queue,     \* Serial2's receive buffer
  lost,      \* bytes lost so far
  plugged,   \* the wire is whole
  buf,       \* what readBytes has got of its three bytes, once in a frame
  inFrame,   \* the reader has met the mark
  distance,  \* what getDistance last returned, 0 for a bad frame
  measured,  \* history: the last distance measured
  intact,    \* history: nothing has been lost so far
  expected   \* history: distances begun and not yet returned, while intact

line == <<sending, queue, lost, plugged>>
hist == <<measured, intact, expected>>
frameVars == <<line, buf, inFrame, distance, hist>>

Frame(d) == <<Mark, d[1], d[2], (d[1] + d[2]) % Base>>

FrameInit ==
  /\ sending = <<>> /\ queue = <<>> /\ lost = 0 /\ plugged = TRUE
  /\ buf = <<>> /\ inFrame = FALSE /\ distance = 0
  /\ measured = <<>> /\ intact = TRUE /\ expected = <<>>

(* The sensor measures when its last frame is out, at its own pace.        *)
Measure ==
  /\ plugged /\ sending = <<>>
  /\ \E d \in Distances : /\ sending' = Frame(d) /\ measured' = d
                          /\ expected' = IF intact THEN Append(expected, d) ELSE <<>>
  /\ UNCHANGED <<queue, lost, plugged, buf, inFrame, distance, intact>>

Send ==
  /\ sending # <<>> /\ Len(queue) < MaxQueue
  /\ queue' = Append(queue, Head(sending))
  /\ sending' = Tail(sending)
  /\ UNCHANGED <<lost, plugged, buf, inFrame, distance, hist>>

Lose ==
  /\ sending # <<>> /\ lost < MaxLost
  /\ sending' = Tail(sending)
  /\ lost' = lost + 1
  /\ intact' = FALSE /\ expected' = <<>>
  /\ UNCHANGED <<queue, plugged, buf, inFrame, distance, measured>>

Cut ==
  /\ Cuts /\ plugged
  /\ plugged' = FALSE /\ sending' = <<>>
  /\ intact' = FALSE /\ expected' = <<>>
  /\ UNCHANGED <<queue, lost, buf, inFrame, distance, measured>>

Mend ==
  /\ ~plugged /\ plugged' = TRUE
  /\ UNCHANGED <<sending, queue, lost, buf, inFrame, distance, hist>>

(* getDistance() with a byte available                                     *)
ReadMark ==
  /\ ~inFrame /\ queue # <<>>
  /\ Head(queue) = Mark
  /\ inFrame' = TRUE
  /\ queue' = Tail(queue)
  /\ UNCHANGED <<sending, lost, plugged, buf, distance, hist>>

(* Mutant: a stray byte looked at and left in the buffer.                  *)
ReadStrayPeek ==
  /\ ~inFrame /\ queue # <<>>
  /\ Head(queue) # Mark
  /\ distance' = 0
  /\ UNCHANGED <<sending, queue, lost, plugged, buf, inFrame, hist>>

ReadStray ==
  /\ ~inFrame /\ queue # <<>>
  /\ Head(queue) # Mark
  /\ distance' = 0
  /\ queue' = Tail(queue)
  /\ UNCHANGED <<sending, lost, plugged, buf, inFrame, hist>>

ReadBytes ==
  /\ inFrame /\ Len(buf) < 3 /\ queue # <<>>
  /\ buf' = Append(buf, Head(queue))
  /\ queue' = Tail(queue)
  /\ UNCHANGED <<sending, lost, plugged, inFrame, distance, hist>>

(* A second without a byte: readBytes gives up, and getDistance uses what  *)
(* the stack happened to hold in the place of the bytes that did not come. *)
ReadTimeout ==
  /\ inFrame /\ Len(buf) < 3 /\ queue = <<>> /\ ~plugged
  /\ \E b \in [1 .. 3 -> Stack] :
       buf' = [i \in 1 .. 3 |-> IF i <= Len(buf) THEN buf[i] ELSE b[i]]
  /\ UNCHANGED <<line, inFrame, distance, hist>>

(* Both bytes are promoted to int before they are added, so that the sum   *)
(* is compared without its carry dropped.                                  *)
SumMatches(b) == b[1] + b[2] = b[3]

(* Mutant: the buffer taken for a frame one byte too early.                *)
ReturnEarly ==
  /\ inFrame /\ Len(buf) >= 2
  /\ distance' = buf[1] * Base + buf[2]
  /\ inFrame' = FALSE /\ buf' = <<>>
  /\ expected' = IF expected = <<>> THEN <<>> ELSE Tail(expected)
  /\ UNCHANGED <<line, measured, intact>>

Return ==
  /\ inFrame /\ Len(buf) = 3
  /\ distance' = IF SumMatches(buf) THEN buf[1] * Base + buf[2] ELSE 0
  /\ inFrame' = FALSE /\ buf' = <<>>
  /\ expected' = IF expected = <<>> THEN <<>> ELSE Tail(expected)
  /\ UNCHANGED <<line, measured, intact>>

Reader == ReadMark \/ ReadStray \/ ReadBytes \/ ReadTimeout \/ Return
Sensor == Measure \/ Send

FrameNext == Reader \/ Sensor \/ Lose \/ Cut \/ Mend

FrameSpec == FrameInit /\ [][FrameNext]_frameVars

-----------------------------------------------------------------------------
(* Properties.                                                             *)

FrameTypeOK ==
  /\ sending \in Seq(Byte) /\ Len(sending) <= 4
  /\ queue \in Seq(Byte) /\ Len(queue) <= MaxQueue
  /\ lost \in 0 .. MaxLost /\ plugged \in BOOLEAN
  /\ buf \in Seq(Byte) /\ Len(buf) <= 3 /\ inFrame \in BOOLEAN
  /\ distance \in 0 .. Base * Base /\ expected \in Seq(Distances)
  /\ measured \in Distances \cup {<<>>} /\ intact \in BOOLEAN

Value(d) == d[1] * Base + d[2]

(* As long as the line has lost nothing, every frame is returned once and  *)
(* in order, whatever bytes it holds: as the distance measured, or as none *)
(* when the sum of its bytes does not fit in a byte.                       *)
ReturnsMeasured ==
  [][Return /\ intact =>
               /\ expected # <<>>
               /\ distance' = (IF Head(expected)[1] + Head(expected)[2] < Base
                                 THEN Value(Head(expected)) ELSE 0)]_frameVars
=============================================================================
