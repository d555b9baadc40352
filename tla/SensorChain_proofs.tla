------------------------- MODULE SensorChain_proofs -------------------------
(***************************************************************************)
(* Proofs about the sensor, its line and the level: SerialFrame for bytes  *)
(* of any size, any distances, any receive buffer and any number of lost   *)
(* bytes; WaterSensor for any window and any distances; and SensorChain,   *)
(* which implements both.                                                  *)
(***************************************************************************)
EXTENDS SensorChain, FiniteSetTheorems, SequenceTheorems, TLAPS

-----------------------------------------------------------------------------
(* SerialFrame.                                                            *)

(* What the reader has yet to finish, from the mark it has met to the last *)
(* byte that is not sent: its length and its i-th byte.                    *)
Met == IF inFrame THEN 1 ELSE 0
Unread == Met + Len(buf) + Len(queue) + Len(sending)
At(i) ==
  IF i <= Met THEN Mark
  ELSE IF i <= Met + Len(buf) THEN buf[i - Met]
  ELSE IF i <= Met + Len(buf) + Len(queue) THEN queue[i - Met - Len(buf)]
  ELSE sending[i - Met - Len(buf) - Len(queue)]

(* While nothing was lost it is the frames of what is expected.            *)
InStep ==
  intact => /\ Unread = 4 * Len(expected)
            /\ \A k \in 1 .. Len(expected), j \in 1 .. 4 :
                 At(4 * (k - 1) + j) = Frame(expected[k])[j]

Bookkeeping ==
  /\ intact => plugged
  /\ ~intact => expected = <<>>
  /\ ~inFrame => buf = <<>>

(* FrameTypeOK without the distance.                                       *)
OthersOK ==
  /\ sending \in Seq(Byte) /\ Len(sending) <= 4
  /\ queue \in Seq(Byte) /\ Len(queue) <= MaxQueue
  /\ lost \in 0 .. MaxLost /\ plugged \in BOOLEAN
  /\ buf \in Seq(Byte) /\ Len(buf) <= 3 /\ inFrame \in BOOLEAN
  /\ expected \in Seq(Distances)
  /\ measured \in Distances \cup {<<>>} /\ intact \in BOOLEAN

IInv == FrameTypeOK /\ Bookkeeping /\ InStep

-----------------------------------------------------------------------------
LEMMA FourBytes ==
  ASSUME NEW a \in Byte, NEW b \in Byte, NEW c \in Byte, NEW e \in Byte
  PROVE  <<a, b, c, e>> \in Seq(Byte) /\ Len(<<a, b, c, e>>) = 4
OBVIOUS

LEMMA FrameBytes ==
  ASSUME NEW d \in Distances
  PROVE  /\ Frame(d) \in Seq(Byte) /\ Len(Frame(d)) = 4
         /\ d[1] \in Byte /\ d[2] \in Byte
         /\ (d[1] + d[2]) % Base \in Byte
         /\ d[1] + d[2] = (d[1] + d[2]) % Base <=> d[1] + d[2] < Base
<1>1. d[1] \in Byte /\ d[2] \in Byte
  BY FrameAssumption DEF Byte
<1>2. Base \in Nat \ {0} /\ d[1] + d[2] \in Nat
  BY <1>1, FrameAssumption DEF Byte
<1>3. (d[1] + d[2]) % Base \in Byte
  BY <1>2 DEF Byte
<1>4. d[1] + d[2] = (d[1] + d[2]) % Base <=> d[1] + d[2] < Base
  <2>1. d[1] + d[2] < Base => (d[1] + d[2]) % Base = d[1] + d[2]
    BY <1>2
  <2> QED BY <1>2, <1>3, <2>1 DEF Byte
<1>5. Mark \in Byte
  BY FrameAssumption DEF Mark, Byte
<1>6. Frame(d) \in Seq(Byte) /\ Len(Frame(d)) = 4
  BY <1>1, <1>3, <1>5, FourBytes DEF Frame
<1> QED BY <1>1, <1>3, <1>4, <1>6

(* A distance of two bytes.                                                *)
LEMMA ValueInRange ==
  ASSUME NEW h \in Byte, NEW l \in Byte
  PROVE  h * Base + l \in 0 .. Base * Base
<1>1. Base \in Nat \ {0} /\ h \in 0 .. Base - 1 /\ l \in 0 .. Base - 1
  BY FrameAssumption DEF Byte
<1>2. h * Base <= (Base - 1) * Base /\ h * Base >= 0 /\ h * Base \in Int
  BY <1>1
<1>3. (Base - 1) * Base = Base * Base - Base /\ Base * Base \in Int
  BY <1>1
<1> QED BY <1>1, <1>2, <1>3

LEMMA InitIInv == FrameInit => IInv
<1> SUFFICES ASSUME FrameInit PROVE IInv
  OBVIOUS
<1>1. Len(<<>>) = 0 /\ <<>> \in Seq(Byte) /\ <<>> \in Seq(Distances)
  BY EmptySeq
<1>2. FrameTypeOK
  <2>1. 0 \in 0 .. Base * Base
    BY FrameAssumption
  <2>2. OthersOK
    <3>1. sending = <<>> /\ queue = <<>> /\ buf = <<>> /\ expected = <<>>
      BY DEF FrameInit
    <3>2. Len(sending) <= 4 /\ Len(queue) <= MaxQueue /\ Len(buf) <= 3
      BY <1>1, <3>1, FrameAssumption
    <3>3. lost \in 0 .. MaxLost /\ measured \in Distances \cup {<<>>}
      BY FrameAssumption DEF FrameInit
    <3> QED BY <1>1, <3>1, <3>2, <3>3 DEF FrameInit, OthersOK
  <2> QED BY <2>1, <2>2 DEF FrameInit, OthersOK, FrameTypeOK
<1>3. Bookkeeping /\ InStep
  BY <1>1 DEF FrameInit, Bookkeeping, InStep, Unread, Met
<1> QED BY <1>2, <1>3 DEF IInv

(* Bytes that only move on leave the whole of them as it is.               *)
LEMMA MovesOn ==
  ASSUME InStep, FrameTypeOK, UNCHANGED <<intact, expected>>, Unread' = Unread,
         \A i \in 1 .. Unread : At(i)' = At(i)
  PROVE  InStep'
<1> SUFFICES ASSUME intact
             PROVE  /\ Unread' = 4 * Len(expected)
                    /\ \A k \in 1 .. Len(expected), j \in 1 .. 4 :
                         At(4 * (k - 1) + j)' = Frame(expected[k])[j]
  BY DEF InStep
<1>1. /\ Unread = 4 * Len(expected) /\ Len(expected) \in Nat
      /\ \A k \in 1 .. Len(expected), j \in 1 .. 4 : At(4 * (k - 1) + j) = Frame(expected[k])[j]
  BY LenProperties DEF InStep, FrameTypeOK
<1>2. \A k \in 1 .. Len(expected), j \in 1 .. 4 : 4 * (k - 1) + j \in 1 .. Unread
  BY <1>1
<1> QED BY <1>1, <1>2

(* The first byte of a queue.                                              *)
LEMMA Split ==
  ASSUME NEW q \in Seq(Byte), q # <<>>
  PROVE  /\ Head(q) = q[1] /\ q[1] \in Byte /\ Tail(q) \in Seq(Byte)
         /\ Len(q) \in Nat \ {0} /\ Len(Tail(q)) = Len(q) - 1
         /\ \A i \in 1 .. Len(q) - 1 : Tail(q)[i] = q[i + 1]
<1>1. Len(q) \in Nat \ {0}
  BY LenProperties, EmptySeq
<1>2. Head(q) = q[1] /\ q[1] \in Byte
  BY <1>1, SMT
<1> QED BY <1>1, <1>2, HeadTailProperties

LEMMA Extend ==
  ASSUME NEW q \in Seq(Byte), NEW b \in Byte
  PROVE  /\ Append(q, b) \in Seq(Byte) /\ Len(q) \in Nat /\ Len(Append(q, b)) = Len(q) + 1
         /\ \A i \in 1 .. Len(q) : Append(q, b)[i] = q[i]
         /\ Append(q, b)[Len(q) + 1] = b
BY AppendProperties, LenProperties

LEMMA SendStep == IInv /\ Send => IInv'
<1> SUFFICES ASSUME IInv, Send PROVE IInv'
  OBVIOUS
<1>1. /\ sending \in Seq(Byte) /\ sending # <<>> /\ queue \in Seq(Byte) /\ buf \in Seq(Byte)
      /\ queue' = Append(queue, Head(sending)) /\ sending' = Tail(sending)
      /\ Len(queue) < MaxQueue /\ Len(sending) <= 4
      /\ UNCHANGED <<lost, plugged, buf, inFrame, distance, measured, intact, expected>>
  BY DEF Send, IInv, FrameTypeOK, hist
<1>2. /\ Head(sending) = sending[1] /\ sending[1] \in Byte /\ sending' \in Seq(Byte)
      /\ Len(sending) \in Nat \ {0} /\ Len(sending') = Len(sending) - 1
      /\ \A i \in 1 .. Len(sending) - 1 : sending'[i] = sending[i + 1]
  BY <1>1, Split
<1>3. /\ queue' \in Seq(Byte) /\ Len(queue) \in Nat /\ Len(queue') = Len(queue) + 1
      /\ \A i \in 1 .. Len(queue) : queue'[i] = queue[i]
      /\ queue'[Len(queue) + 1] = sending[1]
  BY <1>1, <1>2, Extend
<1>4. Len(buf) \in Nat
  BY <1>1, LenProperties
<1>5. FrameTypeOK' /\ Bookkeeping'
  BY <1>1, <1>2, <1>3, FrameAssumption DEF IInv, FrameTypeOK, Bookkeeping
<1>6. Unread' = Unread /\ \A i \in 1 .. Unread : At(i)' = At(i)
  <2>1. Met \in Nat /\ Met' = Met
    BY <1>1 DEF Met
  <2>2. Unread' = Unread
    BY <1>1, <1>2, <1>3, <1>4, <2>1 DEF Unread
  <2>3. ASSUME NEW i \in 1 .. Unread PROVE At(i)' = At(i)
    BY <1>1, <1>2, <1>3, <1>4, <2>1 DEF At, Unread
  <2> QED BY <2>2, <2>3
<1> QED BY <1>1, <1>5, <1>6, MovesOn DEF IInv

LEMMA ReadMarkStep == IInv /\ ReadMark => IInv'
<1> SUFFICES ASSUME IInv, ReadMark PROVE IInv'
  OBVIOUS
<1>1. /\ queue \in Seq(Byte) /\ queue # <<>> /\ sending \in Seq(Byte)
      /\ queue' = Tail(queue) /\ Head(queue) = Mark /\ ~inFrame /\ inFrame' = TRUE
      /\ buf = <<>> /\ Len(queue) <= MaxQueue
      /\ UNCHANGED <<sending, lost, plugged, buf, distance, measured, intact, expected>>
  BY DEF ReadMark, IInv, FrameTypeOK, Bookkeeping, hist
<1>2. /\ queue[1] = Mark /\ queue' \in Seq(Byte)
      /\ Len(queue) \in Nat \ {0} /\ Len(queue') = Len(queue) - 1
      /\ \A i \in 1 .. Len(queue) - 1 : queue'[i] = queue[i + 1]
  BY <1>1, Split
<1>3. Len(buf) = 0 /\ Len(sending) \in Nat
  BY <1>1, LenProperties, EmptySeq
<1>4. FrameTypeOK' /\ Bookkeeping'
  BY <1>1, <1>2, FrameAssumption DEF IInv, FrameTypeOK, Bookkeeping
<1>5. Unread' = Unread /\ \A i \in 1 .. Unread : At(i)' = At(i)
  <2>1. Met = 0 /\ Met' = 1
    BY <1>1 DEF Met
  <2>2. Unread' = Unread
    BY <1>1, <1>2, <1>3, <2>1 DEF Unread
  <2>3. ASSUME NEW i \in 1 .. Unread PROVE At(i)' = At(i)
    BY <1>1, <1>2, <1>3, <2>1 DEF At, Unread
  <2> QED BY <2>2, <2>3
<1> QED BY <1>1, <1>4, <1>5, MovesOn DEF IInv

LEMMA ReadBytesStep == IInv /\ ReadBytes => IInv'
<1> SUFFICES ASSUME IInv, ReadBytes PROVE IInv'
  OBVIOUS
<1>1. /\ queue \in Seq(Byte) /\ queue # <<>> /\ sending \in Seq(Byte) /\ buf \in Seq(Byte)
      /\ queue' = Tail(queue) /\ buf' = Append(buf, Head(queue)) /\ inFrame
      /\ Len(queue) <= MaxQueue /\ Len(buf) < 3
      /\ UNCHANGED <<sending, lost, plugged, inFrame, distance, measured, intact, expected>>
  BY DEF ReadBytes, IInv, FrameTypeOK, hist
<1>2. /\ Head(queue) = queue[1] /\ queue[1] \in Byte /\ queue' \in Seq(Byte)
      /\ Len(queue) \in Nat \ {0} /\ Len(queue') = Len(queue) - 1
      /\ \A i \in 1 .. Len(queue) - 1 : queue'[i] = queue[i + 1]
  BY <1>1, Split
<1>3. /\ buf' \in Seq(Byte) /\ Len(buf) \in Nat /\ Len(buf') = Len(buf) + 1
      /\ \A i \in 1 .. Len(buf) : buf'[i] = buf[i]
      /\ buf'[Len(buf) + 1] = queue[1]
  BY <1>1, <1>2, Extend
<1>4. Len(sending) \in Nat
  BY <1>1, LenProperties
<1>5. FrameTypeOK' /\ Bookkeeping'
  BY <1>1, <1>2, <1>3, FrameAssumption DEF IInv, FrameTypeOK, Bookkeeping
<1>6. Unread' = Unread /\ \A i \in 1 .. Unread : At(i)' = At(i)
  <2>1. Met = 1 /\ Met' = 1
    BY <1>1 DEF Met
  <2>2. Unread' = Unread
    BY <1>1, <1>2, <1>3, <1>4, <2>1 DEF Unread
  <2>3. ASSUME NEW i \in 1 .. Unread PROVE At(i)' = At(i)
    BY <1>1, <1>2, <1>3, <1>4, <2>1 DEF At, Unread
  <2> QED BY <2>2, <2>3
<1> QED BY <1>1, <1>5, <1>6, MovesOn DEF IInv

(* While nothing was lost, the first byte of the buffer is a mark.         *)
LEMMA NoStray == ASSUME IInv, ReadStray PROVE ~intact
<1> SUFFICES ASSUME intact PROVE FALSE
  OBVIOUS
<1>1. queue \in Seq(Byte) /\ queue # <<>> /\ Head(queue) # Mark /\ ~inFrame /\ buf = <<>>
  BY DEF ReadStray, IInv, FrameTypeOK, Bookkeeping
<1>2. queue[1] # Mark /\ Len(queue) \in Nat \ {0}
  BY <1>1, Split
<1>3. Len(buf) = 0 /\ Len(sending) \in Nat /\ Len(expected) \in Nat
  BY <1>1, LenProperties, EmptySeq DEF IInv, FrameTypeOK
<1>4. Met = 0
  BY <1>1 DEF Met
<1>5. Unread = 4 * Len(expected) /\ Unread > 0
  BY <1>2, <1>3, <1>4 DEF IInv, InStep, Unread
<1>6. 1 \in 1 .. Len(expected) /\ 1 \in 1 .. 4 /\ 4 * (1 - 1) + 1 = 1
  BY <1>3, <1>5
<1>7. At(1) = Frame(expected[1])[1]
  BY <1>6 DEF IInv, InStep
<1>8. At(1) = queue[1]
  BY <1>2, <1>3, <1>4 DEF At
<1> QED BY <1>2, <1>7, <1>8 DEF Frame

LEMMA ReadStrayStep == IInv /\ ReadStray => IInv'
<1> SUFFICES ASSUME IInv, ReadStray PROVE IInv'
  OBVIOUS
<1>1. /\ queue \in Seq(Byte) /\ queue # <<>> /\ queue' = Tail(queue) /\ ~inFrame
      /\ buf = <<>> /\ distance' = 0 /\ Len(queue) <= MaxQueue
      /\ UNCHANGED <<sending, lost, plugged, buf, inFrame, measured, intact, expected>>
  BY DEF ReadStray, IInv, FrameTypeOK, Bookkeeping, hist
<1>2. queue' \in Seq(Byte) /\ Len(queue) \in Nat \ {0} /\ Len(queue') = Len(queue) - 1
  BY <1>1, Split
<1>3. 0 \in 0 .. Base * Base
  BY FrameAssumption
<1>4. FrameTypeOK' /\ Bookkeeping'
  BY <1>1, <1>2, <1>3, FrameAssumption DEF IInv, FrameTypeOK, Bookkeeping
<1> QED BY <1>1, <1>4, NoStray DEF IInv, InStep

LEMMA ReadTimeoutStep == IInv /\ ReadTimeout => IInv'
<1> SUFFICES ASSUME IInv, ReadTimeout PROVE IInv'
  OBVIOUS
<1>1. /\ ~intact /\ inFrame
      /\ UNCHANGED <<sending, queue, lost, plugged, inFrame, distance, measured, intact, expected>>
  BY DEF ReadTimeout, IInv, Bookkeeping, line, hist
<1>2. PICK b \in [1 .. 3 -> Byte] : buf' = b
  <2>1. PICK rest \in [1 .. 3 -> Stack] : buf' = [i \in 1 .. 3 |-> IF i <= Len(buf) THEN buf[i] ELSE rest[i]]
    BY DEF ReadTimeout
  <2>2. ASSUME NEW i \in 1 .. 3 PROVE (IF i <= Len(buf) THEN buf[i] ELSE rest[i]) \in Byte
    <3>1. CASE i <= Len(buf)
      <4>1. i \in 1 .. Len(buf) /\ buf \in Seq(Byte)
        BY <3>1, LenProperties DEF IInv, FrameTypeOK
      <4> QED BY <3>1, <4>1, ElementOfSeq
    <3>2. CASE ~(i <= Len(buf))
      BY <3>2, FrameAssumption
    <3> QED BY <3>1, <3>2
  <2> QED BY <2>1, <2>2
<1>3. buf' \in Seq(Byte) /\ Len(buf') = 3
  <2>1. b \in Seq(Byte)
    BY SeqDef
  <2>2. DOMAIN b = 1 .. Len(b) /\ DOMAIN b = 1 .. 3 /\ Len(b) \in Nat
    BY <2>1, LenProperties
  <2> QED BY <1>2, <2>1, <2>2
<1>4. FrameTypeOK' /\ Bookkeeping'
  BY <1>1, <1>3 DEF IInv, FrameTypeOK, Bookkeeping
<1> QED BY <1>1, <1>4 DEF IInv, InStep

LEMMA MeasureStep == IInv /\ Measure => IInv'
<1> SUFFICES ASSUME IInv, Measure PROVE IInv'
  OBVIOUS
<1>1. PICK d \in Distances : /\ sending' = Frame(d) /\ measured' = d
                             /\ expected' = IF intact THEN Append(expected, d) ELSE <<>>
  BY DEF Measure
<1>2. /\ sending = <<>> /\ queue \in Seq(Byte) /\ buf \in Seq(Byte) /\ expected \in Seq(Distances)
      /\ UNCHANGED <<queue, lost, plugged, buf, inFrame, distance, intact>>
  BY DEF Measure, IInv, FrameTypeOK
<1>3. /\ Len(sending) = 0 /\ sending' \in Seq(Byte) /\ Len(sending') = 4
      /\ Len(queue) \in Nat /\ Len(buf) \in Nat /\ Len(expected) \in Nat
  BY <1>1, <1>2, FrameBytes, EmptySeq, LenProperties
<1>4. expected' \in Seq(Distances)
  BY <1>1, <1>2, AppendProperties, EmptySeq
<1>5. FrameTypeOK' /\ Bookkeeping'
  BY <1>1, <1>2, <1>3, <1>4 DEF IInv, FrameTypeOK, Bookkeeping
<1>6. InStep'
  <2> SUFFICES ASSUME intact
               PROVE  /\ Unread' = 4 * Len(expected')
                      /\ \A k \in 1 .. Len(expected'), j \in 1 .. 4 :
                           At(4 * (k - 1) + j)' = Frame(expected'[k])[j]
    BY <1>2 DEF InStep
  <2>1. /\ Len(expected') = Len(expected) + 1 /\ expected'[Len(expected) + 1] = d
        /\ \A k \in 1 .. Len(expected) : expected'[k] = expected[k]
    BY <1>1, <1>2, AppendProperties
  <2>2. /\ Unread = 4 * Len(expected)
        /\ \A k \in 1 .. Len(expected), j \in 1 .. 4 : At(4 * (k - 1) + j) = Frame(expected[k])[j]
    BY DEF IInv, InStep
  <2>3. Met \in Nat /\ Met' = Met /\ Unread = Met + Len(buf) + Len(queue) /\ Unread' = Unread + 4
    BY <1>2, <1>3 DEF Met, Unread
  <2>4. \A i \in 1 .. Unread : At(i)' = At(i)
    BY <1>2, <1>3, <2>3 DEF At
  <2>5. PICK m \in Nat : m = Unread
    BY <1>3, <2>3
  <2>7. \A j \in 1 .. 4 : At(m + j)' = Frame(d)[j]
    <3>1. sending' = Frame(d)
      BY <1>1
    <3>2. ASSUME NEW j \in 1 .. 4 PROVE At(m + j)' = sending'[j]
      <4>1. Met' = Met /\ buf' = buf /\ queue' = queue
        BY <1>2, <2>3
      <4>2. PICK a \in Nat, b \in Nat, c \in Nat : a = Met /\ b = Len(buf) /\ c = Len(queue)
        BY <1>3, <2>3
      <4>3. m = a + b + c
        BY <2>3, <2>5, <4>2
      <4>4. ~(m + j <= a) /\ ~(m + j <= a + b) /\ ~(m + j <= a + b + c) /\ m + j - a - b - c = j
        BY <4>3
      <4> QED BY <4>1, <4>2, <4>4 DEF At
    <3> QED BY <3>1, <3>2
  <2>6. ASSUME NEW k \in 1 .. Len(expected'), NEW j \in 1 .. 4
        PROVE  At(4 * (k - 1) + j)' = Frame(expected'[k])[j]
    <3>1. CASE k = Len(expected) + 1
      <4>1. 4 * (k - 1) + j = m + j
        BY <1>3, <2>2, <2>5, <3>1
      <4> QED BY <2>1, <2>7, <3>1, <4>1
    <3>2. CASE k # Len(expected) + 1
      <4>1. k \in 1 .. Len(expected) /\ 4 * (k - 1) + j \in 1 .. Unread
        BY <1>3, <2>1, <2>2, <3>2
      <4> QED BY <2>1, <2>2, <2>4, <4>1
    <3> QED BY <3>1, <3>2
  <2>8. Unread' = 4 * Len(expected')
    <3>1. Len(expected') = Len(expected) + 1
      BY <2>1
    <3>2. Unread = 4 * Len(expected)
      BY <2>2
    <3>3. Unread' = Unread + 4
      BY <2>3
    <3> QED BY <1>3, <3>1, <3>2, <3>3
  <2> QED BY <2>6, <2>8
<1> QED BY <1>5, <1>6 DEF IInv

(* What is in the buffer of a whole frame, while nothing was lost.         *)
LEMMA WholeFrame ==
  ASSUME IInv, inFrame, Len(buf) = 3, intact
  PROVE  /\ expected # <<>> /\ Len(expected) \in Nat \ {0} /\ expected[1] \in Distances
         /\ buf[1] = expected[1][1] /\ buf[2] = expected[1][2]
         /\ buf[3] = (expected[1][1] + expected[1][2]) % Base
<1>1. /\ Len(queue) \in Nat /\ Len(sending) \in Nat /\ Len(expected) \in Nat
      /\ expected \in Seq(Distances)
  BY LenProperties DEF IInv, FrameTypeOK
<1>2. Met = 1
  BY DEF Met
<1>3. Unread = 4 * Len(expected) /\ Unread > 0
  BY <1>1, <1>2 DEF IInv, InStep, Unread
<1>4. Len(expected) \in Nat \ {0} /\ expected # <<>> /\ expected[1] \in Distances
  <2>1. Len(expected) \in Nat \ {0}
    BY <1>1, <1>3
  <2>2. expected # <<>>
    BY <2>1, EmptySeq
  <2> QED BY <1>1, <2>1, <2>2, ElementOfSeq
<1>5. \A j \in 1 .. 4 : At(j) = Frame(expected[1])[j]
  <2>1. 1 \in 1 .. Len(expected) /\ \A j \in 1 .. 4 : 4 * (1 - 1) + j = j
    BY <1>4
  <2> QED BY <2>1 DEF IInv, InStep
<1>6. \A j \in 1 .. 3 : At(j + 1) = buf[j]
  BY <1>2 DEF At
<1>7. \A j \in 1 .. 3 : buf[j] = Frame(expected[1])[j + 1]
  BY <1>5, <1>6
<1> QED BY <1>4, <1>7 DEF Frame

LEMMA ReturnStep == IInv /\ Return => IInv'
<1> SUFFICES ASSUME IInv, Return PROVE IInv'
  OBVIOUS
<1>1. /\ inFrame /\ Len(buf) = 3 /\ inFrame' = FALSE /\ buf' = <<>>
      /\ distance' = IF SumMatches(buf) THEN buf[1] * Base + buf[2] ELSE 0
      /\ expected' = IF expected = <<>> THEN <<>> ELSE Tail(expected)
      /\ UNCHANGED <<sending, queue, lost, plugged, measured, intact>>
  BY DEF Return, line
<1>2. /\ buf \in Seq(Byte) /\ expected \in Seq(Distances)
      /\ Len(queue) \in Nat /\ Len(sending) \in Nat
  BY LenProperties DEF IInv, FrameTypeOK
<1>3. buf[1] \in Byte /\ buf[2] \in Byte
  <2>1. 1 \in 1 .. Len(buf) /\ 2 \in 1 .. Len(buf)
    BY <1>1
  <2> QED BY <1>2, <2>1, ElementOfSeq
<1>4. distance' \in 0 .. Base * Base
  <2>1. 0 \in 0 .. Base * Base
    BY FrameAssumption
  <2> QED BY <1>1, <1>3, <2>1, ValueInRange
<1>5. expected' \in Seq(Distances)
  BY <1>1, <1>2, HeadTailProperties, EmptySeq
<1>6. Len(buf') = 0 /\ buf' \in Seq(Byte)
  BY <1>1, EmptySeq
<1>7. FrameTypeOK' /\ Bookkeeping'
  <2>1. FrameTypeOK'
    <3>1. OthersOK
      BY DEF IInv, FrameTypeOK, OthersOK
    <3>2. OthersOK'
      <4>1. UNCHANGED <<sending, queue, lost, plugged, measured, intact>> /\ inFrame' \in BOOLEAN
        BY <1>1
      <4>2. Len(buf') <= 3
        BY <1>6
      <4> QED BY <1>5, <1>6, <3>1, <4>1, <4>2 DEF OthersOK
    <3> QED BY <1>4, <3>2 DEF OthersOK, FrameTypeOK
  <2>2. Bookkeeping'
    BY <1>1 DEF IInv, Bookkeeping
  <2> QED BY <2>1, <2>2
<1>8. InStep'
  <2> SUFFICES ASSUME intact
               PROVE  /\ Unread' = 4 * Len(expected')
                      /\ \A k \in 1 .. Len(expected'), j \in 1 .. 4 :
                           At(4 * (k - 1) + j)' = Frame(expected'[k])[j]
    BY <1>1 DEF InStep
  <2>1. /\ expected # <<>> /\ Len(expected) \in Nat \ {0} /\ expected' = Tail(expected)
    BY <1>1, WholeFrame
  <2>2. /\ Len(expected') = Len(expected) - 1
        /\ \A k \in 1 .. Len(expected) - 1 : expected'[k] = expected[k + 1]
    BY <1>2, <2>1, HeadTailProperties
  <2>3. /\ Unread = 4 * Len(expected)
        /\ \A k \in 1 .. Len(expected), j \in 1 .. 4 : At(4 * (k - 1) + j) = Frame(expected[k])[j]
    BY DEF IInv, InStep
  <2>4. Met = 1 /\ Met' = 0
    BY <1>1 DEF Met
  <2>5. Unread' = Unread - 4
    BY <1>1, <1>2, <1>6, <2>4 DEF Unread
  <2>6. \A i \in 1 .. Unread - 4 : At(i)' = At(i + 4)
    BY <1>1, <1>2, <1>6, <2>4 DEF At, Unread
  <2>7. ASSUME NEW k \in 1 .. Len(expected'), NEW j \in 1 .. 4
        PROVE  At(4 * (k - 1) + j)' = Frame(expected'[k])[j]
    <3>1. /\ k \in 1 .. Len(expected) - 1 /\ k + 1 \in 1 .. Len(expected)
          /\ 4 * (k - 1) + j \in 1 .. Unread - 4
          /\ (4 * (k - 1) + j) + 4 = 4 * ((k + 1) - 1) + j
      BY <2>1, <2>2, <2>3
    <3>2. At(4 * (k - 1) + j)' = At(4 * ((k + 1) - 1) + j)
      BY <2>6, <3>1
    <3>3. At(4 * ((k + 1) - 1) + j) = Frame(expected[k + 1])[j]
      BY <2>3, <3>1
    <3> QED BY <2>2, <3>1, <3>2, <3>3
  <2> QED BY <2>1, <2>2, <2>3, <2>5, <2>7
<1> QED BY <1>7, <1>8 DEF IInv

(* The line losing bytes ends what is promised.                            *)
LEMMA LossStep == IInv /\ (Lose \/ Cut) => IInv'
<1> SUFFICES ASSUME IInv, Lose \/ Cut PROVE IInv'
  OBVIOUS
<1>1. /\ intact' = FALSE /\ expected' = <<>>
      /\ UNCHANGED <<queue, buf, inFrame, distance, measured>>
  BY DEF Lose, Cut
<1>2. sending' \in Seq(Byte) /\ Len(sending') <= 4
  <2>1. CASE Lose
    <3>1. sending \in Seq(Byte) /\ sending # <<>> /\ sending' = Tail(sending) /\ Len(sending) <= 4
      BY <2>1 DEF Lose, IInv, FrameTypeOK
    <3> QED BY <3>1, Split
  <2>2. CASE Cut
    BY <2>2, EmptySeq DEF Cut
  <2> QED BY <2>1, <2>2
<1>3. lost' \in 0 .. MaxLost /\ plugged' \in BOOLEAN
  <2>1. lost \in 0 .. MaxLost /\ plugged \in BOOLEAN /\ MaxLost \in Nat
    BY FrameAssumption DEF IInv, FrameTypeOK
  <2>2. CASE Lose
    BY <2>1, <2>2 DEF Lose
  <2>3. CASE Cut
    BY <2>1, <2>3 DEF Cut
  <2> QED BY <2>2, <2>3
<1>4. FrameTypeOK' /\ Bookkeeping'
  BY <1>1, <1>2, <1>3, EmptySeq DEF IInv, FrameTypeOK, Bookkeeping
<1> QED BY <1>1, <1>4 DEF IInv, InStep

LEMMA MendStep == IInv /\ Mend => IInv'
BY DEF IInv, Mend, FrameTypeOK, Bookkeeping, InStep, Unread, Met, At, hist

LEMMA Inductive == IInv /\ [FrameNext]_frameVars => IInv'
<1> SUFFICES ASSUME IInv, [FrameNext]_frameVars PROVE IInv'
  OBVIOUS
<1>1. CASE UNCHANGED frameVars
  BY <1>1 DEF IInv, FrameTypeOK, Bookkeeping, InStep, Unread, Met, At, frameVars, line, hist
<1>2. CASE Reader
  BY <1>2, ReadMarkStep, ReadStrayStep, ReadBytesStep, ReadTimeoutStep, ReturnStep DEF Reader
<1>3. CASE Sensor
  BY <1>3, MeasureStep, SendStep DEF Sensor
<1>4. CASE Lose \/ Cut \/ Mend
  BY <1>4, LossStep, MendStep
<1> QED BY <1>1, <1>2, <1>3, <1>4 DEF FrameNext

LEMMA FrameInvariant == FrameSpec => []IInv
BY InitIInv, Inductive, PTL DEF FrameSpec

(* Type correctness: the buffers hold bytes and keep their sizes, and a    *)
(* distance, also one of bytes that never came, fits in two bytes          *)
(* (getDistance).                                                          *)
THEOREM FrameTyped == FrameSpec => []FrameTypeOK
<1>1. IInv => FrameTypeOK
  BY DEF IInv
<1> QED BY <1>1, FrameInvariant, PTL

LEMMA ReturnGives ==
  ASSUME IInv, Return, intact
  PROVE  /\ expected # <<>>
         /\ distance' = (IF Head(expected)[1] + Head(expected)[2] < Base
                           THEN Value(Head(expected)) ELSE 0)
<1> DEFINE d == expected[1]
<1>1. /\ expected # <<>> /\ Len(expected) \in Nat \ {0} /\ d \in Distances
      /\ buf[1] = d[1] /\ buf[2] = d[2] /\ buf[3] = (d[1] + d[2]) % Base
  BY WholeFrame DEF Return
<1>2. Head(expected) = d
  <2>1. expected \in Seq(Distances)
    BY DEF IInv, FrameTypeOK
  <2> QED BY <1>1, <2>1, SMT
<1>3. SumMatches(buf) <=> d[1] + d[2] < Base
  BY <1>1, FrameBytes DEF SumMatches
<1>4. distance' = IF SumMatches(buf) THEN buf[1] * Base + buf[2] ELSE 0
  BY DEF Return
<1> QED BY <1>1, <1>2, <1>3, <1>4 DEF Value

(* While the line loses nothing getDistance returns every frame once, in   *)
(* order and as it was measured, whatever bytes it holds.                  *)
THEOREM ReturnsMeasuredHolds == FrameSpec => ReturnsMeasured
<1>1. IInv /\ [FrameNext]_frameVars =>
        [Return /\ intact =>
           /\ expected # <<>>
           /\ distance' = (IF Head(expected)[1] + Head(expected)[2] < Base
                             THEN Value(Head(expected)) ELSE 0)]_frameVars
  BY ReturnGives
<1> QED BY <1>1, FrameInvariant, PTL DEF FrameSpec, ReturnsMeasured
-----------------------------------------------------------------------------
(* WaterSensor.  A set of numbers has a smallest one, which takes the      *)
(* place of induction.                                                     *)
LEMMA SmallestNat ==
  ASSUME NEW T \in SUBSET Nat, T # {}
  PROVE  \E x \in T : \A y \in T : x <= y
<1> DEFINE Below == {0 .. n : n \in T}
<1>1. ASSUME NEW n \in T PROVE 0 .. n \in FiniteSubsetsOf(Nat)
  <2>1. 0 .. n \in SUBSET Nat
    OBVIOUS
  <2> QED BY <2>1, FS_Interval DEF FiniteSubsetsOf
<1>2. Below \subseteq FiniteSubsetsOf(Nat) /\ Below # {}
  BY <1>1, Zenon
<1>3. IsWellFoundedOn(StrictSubsetOrdering(Nat), FiniteSubsetsOf(Nat))
  BY FS_StrictSubsetOrderingWellFounded
<1>4. PICK X \in Below : \A Y \in Below : ~(<<Y, X>> \in StrictSubsetOrdering(Nat))
  <2> HIDE DEF Below
  <2> QED BY <1>2, <1>3, WFMin
<1>5. PICK x \in T : X = 0 .. x
  BY <1>4
<1>6. ASSUME NEW y \in T PROVE x <= y
  <2> SUFFICES ASSUME y < x PROVE FALSE
    OBVIOUS
  <2>1. (0 .. y) \subseteq (0 .. x) /\ x \in 0 .. x /\ x \notin 0 .. y /\ 0..y \in Below
    OBVIOUS
  <2>2. <<0 .. y, 0 .. x>> \in StrictSubsetOrdering(Nat)
    BY <2>1 DEF StrictSubsetOrdering
  <2> QED BY <2>1, <2>2, <1>4, <1>5
<1> QED BY <1>6

(* g adds up the readings of s one after the other.                        *)
Sums(s, g) ==
  /\ g \in [0 .. Len(s) -> Int] /\ g[0] = 0
  /\ \A i \in 1 .. Len(s) : g[i] = g[i - 1] + s[i]

(* Every sequence has its sums.                                            *)
LEMMA SumsExist == \A s \in Seq(Int) : \E g : Sums(s, g)
<1> DEFINE T == {n \in Nat : \E s \in Seq(Int) : Len(s) = n /\ \A g : ~Sums(s, g)}
<1> SUFFICES ASSUME T # {} PROVE FALSE
  <2>1. \A s \in Seq(Int) : Len(s) \in Nat
    OBVIOUS
  <2> QED BY <2>1
<1>1. PICK n \in T : \A m \in T : n <= m
  BY SmallestNat
<1>2. PICK s \in Seq(Int) : Len(s) = n /\ \A g : ~Sums(s, g)
  OBVIOUS
<1>3. CASE n = 0
  <2>1. Sums(s, [i \in 0 .. Len(s) |-> 0])
    BY <1>2, <1>3 DEF Sums
  <2> QED BY <2>1, <1>2
<1>4. CASE n # 0
  <2> DEFINE t == SubSeq(s, 1, n - 1)
  <2>1. t \in Seq(Int) /\ Len(t) = n - 1 /\ \A i \in 1 .. n - 1 : t[i] = s[i]
    BY <1>2, <1>4
  <2>2. n - 1 \in Nat /\ n - 1 \notin T
    BY <1>1, <1>4
  <2>3. PICK g : Sums(t, g)
    <3> HIDE DEF t
    <3> QED BY <2>1, <2>2
  <2> DEFINE h == [i \in 0 .. n |-> IF i = n THEN g[n - 1] + s[n] ELSE g[i]]
  <2>4. h \in [0 .. n -> Int] /\ h[0] = 0
    <3> HIDE DEF t
    <3>1. s[n] \in Int
      BY <1>2, <1>4, ElementOfSeq
    <3> QED BY <3>1, <2>1, <2>3, <1>2, <1>4 DEF Sums
  <2>5. ASSUME NEW i \in 1 .. n PROVE h[i] = h[i - 1] + s[i]
    <3> HIDE DEF t
    <3>1. CASE i = n
      BY <3>1
    <3>2. CASE i # n
      BY <3>2, <2>1, <2>3 DEF Sums
    <3> QED BY <3>1, <3>2
  <2>6. Sums(s, h)
    <3> HIDE DEF h, t
    <3> QED BY <2>4, <2>5, <1>2 DEF Sums
  <2> QED BY <2>6, <1>2
<1> QED BY <1>3, <1>4

(* What Total computes.                                                    *)
LEMMA TotalIs ==
  ASSUME NEW s \in Seq(Int), NEW g, Sums(s, g)
  PROVE  Total(s) = g[Len(s)]
<1> DEFINE Is(f) == f = [i \in 0 .. Len(s) |-> IF i = 0 THEN 0 ELSE f[i - 1] + s[i]]
           upTo == CHOOSE f : Is(f)
           T == {j \in 0 .. Len(s) : upTo[j] # g[j]}
<1>1. Is(g)
  BY DEF Sums
<1>2. Is(upTo)
  BY <1>1
<1>3. Len(s) \in Nat
  OBVIOUS
<1>4. T = {}
  <2> SUFFICES ASSUME T # {} PROVE FALSE
    OBVIOUS
  <2>1. T \in SUBSET Nat
    BY <1>3
  <2>2. PICK j \in T : \A m \in T : j <= m
    <3> HIDE DEF T
    <3> QED BY <2>1, SmallestNat
  <2>3. CASE j = 0
    BY <2>2, <2>3, <1>2, <1>1
  <2>4. CASE j # 0
    <3>1. j - 1 \in 0 .. Len(s) /\ j - 1 \notin T
      BY <2>2, <2>4
    <3>2. upTo[j] = upTo[j - 1] + s[j] /\ g[j] = g[j - 1] + s[j]
      BY <2>2, <2>4, <1>1, <1>2
    <3> QED BY <2>2, <3>1, <3>2
  <2> QED BY <2>3, <2>4
<1>5. Total(s) = upTo[Len(s)]
  BY DEF Total
<1> QED BY <1>3, <1>4, <1>5

(* A reading more at the end.                                              *)
LEMMA TotalAppend ==
  ASSUME NEW s \in Seq(Int), NEW r \in Int
  PROVE  Total(s) \in Int /\ Total(Append(s, r)) = Total(s) + r
<1> DEFINE t == Append(s, r)
<1>1. t \in Seq(Int) /\ Len(t) = Len(s) + 1 /\ (\A i \in 1 .. Len(s) : t[i] = s[i]) /\ t[Len(s) + 1] = r
  BY AppendProperties
<1>2. PICK g : Sums(t, g)
  BY <1>1, SumsExist
<1> HIDE DEF t
<1> DEFINE h == [i \in 0 .. Len(s) |-> g[i]]
<1>3. Len(s) \in Nat
  OBVIOUS
<1>4. Sums(s, h)
  BY <1>1, <1>2, <1>3 DEF Sums
<1>5. Total(s) = h[Len(s)] /\ Total(t) = g[Len(s) + 1]
  BY <1>1, <1>2, <1>4, TotalIs
<1>6. g[Len(s) + 1] = g[Len(s)] + r /\ g[Len(s)] \in Int
  BY <1>1, <1>2, <1>3 DEF Sums
<1> QED BY <1>3, <1>5, <1>6 DEF t

(* One reading less at the beginning.                                      *)
LEMMA TotalTail ==
  ASSUME NEW s \in Seq(Int), s # <<>>
  PROVE  Tail(s) \in Seq(Int) /\ s[1] \in Int /\ Total(Tail(s)) = Total(s) - s[1]
<1> DEFINE t == Tail(s)
<1>1. /\ t \in Seq(Int) /\ Len(t) = Len(s) - 1 /\ Len(s) \in Nat \ {0}
      /\ \A i \in 1 .. Len(t) : t[i] = s[i + 1]
  BY HeadTailProperties
<1>2. s[1] \in Int
  BY <1>1, ElementOfSeq
<1>3. PICK g : Sums(s, g)
  BY SumsExist
<1> DEFINE h == [i \in 0 .. Len(t) |-> g[i + 1] - s[1]]
<1> HIDE DEF t
<1>4. h \in [0 .. Len(t) -> Int] /\ h[0] = 0
  BY <1>1, <1>2, <1>3 DEF Sums
<1>5. ASSUME NEW i \in 1 .. Len(t) PROVE h[i] = h[i - 1] + t[i]
  <2>1. g[i + 1] = g[i] + s[i + 1] /\ t[i] = s[i + 1] /\ i \in 0 .. Len(s)
    BY <1>1, <1>3 DEF Sums
  <2>2. g[i] \in Int /\ s[i + 1] \in Int
    BY <2>1, <1>1, <1>3, ElementOfSeq DEF Sums
  <2>3. h[i] = g[i + 1] - s[1] /\ h[i - 1] = g[i] - s[1]
    BY <1>1
  <2> QED BY <2>1, <2>2, <2>3, <1>2
<1>6. Sums(t, h)
  <2> HIDE DEF h
  <2> QED BY <1>4, <1>5 DEF Sums
<1>7. Total(s) = g[Len(s)] /\ Total(t) = h[Len(t)]
  <2> HIDE DEF h
  <2> QED BY <1>1, <1>3, <1>6, TotalIs
<1>8. h[Len(t)] = g[Len(s)] - s[1]
  BY <1>1
<1> QED BY <1>1, <1>2, <1>7, <1>8 DEF t

(* What the provers need to know of a reading.                             *)
LEMMA LevelsAreInts ==
  Reading \subseteq Int /\ TopReading \in Int /\ \A x \in Reading : 0 <= x /\ x <= TopReading
BY DEF Reading, TopReading

LEMMA AreInts == ASSUME NEW s \in Seq(Reading) PROVE s \in Seq(Int)
BY LevelsAreInts, SeqMonotonic, Zenon

(* A sum of readings is at most that of full tanks.                        *)
LEMMA TotalBounds ==
  ASSUME NEW s \in Seq(Reading)
  PROVE  Total(s) \in Int /\ 0 <= Total(s) /\ Total(s) <= TopReading * Len(s)
<1> DEFINE Within(t) == 0 <= Total(t) /\ Total(t) <= TopReading * Len(t)
           T == {n \in Nat : \E t \in Seq(Reading) : Len(t) = n /\ ~Within(t)}
<1>1. ASSUME NEW t \in Seq(Reading)
      PROVE  t \in Seq(Int) /\ Len(t) \in Nat /\ \E g : Sums(t, g) /\ Total(t) = g[Len(t)]
  <2>1. t \in Seq(Int)
    BY AreInts, Zenon
  <2> QED BY <2>1, SumsExist, TotalIs
<1>2. T = {}
  <2> SUFFICES ASSUME T # {} PROVE FALSE
    OBVIOUS
  <2>1. PICK n \in T : \A m \in T : n <= m
    <3>1. T \in SUBSET Nat
      OBVIOUS
    <3> HIDE DEF T
    <3> QED BY <3>1, SmallestNat
  <2>2. PICK t \in Seq(Reading) : Len(t) = n /\ ~Within(t)
    BY <2>1
  <2>3. t \in Seq(Int) /\ n \in Nat
    BY <2>2, <1>1
  <2>4. PICK g : Sums(t, g) /\ Total(t) = g[n]
    BY <2>2, <1>1
  <2>5. n # 0
    BY <2>2, <2>3, <2>4, LevelsAreInts DEF Sums
  <2>6. t # <<>>
    BY <2>2, <2>5
  <2>7. Tail(t) \in Seq(Reading) /\ Len(Tail(t)) = n - 1 /\ t[1] \in Reading
    <3>1. 1 \in 1 .. Len(t)
      BY <2>2, <2>3, <2>5
    <3> QED BY <2>2, <2>6, <3>1, HeadTailProperties, ElementOfSeq
  <2>8. n - 1 \in Nat /\ n - 1 \notin T
    BY <2>1, <2>3, <2>5
  <2>9. Within(Tail(t))
    <3> HIDE DEF Within
    <3> QED BY <2>7, <2>8
  <2>10. Total(Tail(t)) = Total(t) - t[1]
    BY <2>3, <2>6, TotalTail
  <2>11. Total(t) \in Int /\ Total(Tail(t)) \in Int
    <3>1. Total(t) \in Int
      BY <2>3, <2>4, <2>2 DEF Sums
    <3> QED BY <3>1, <2>3, <2>6, <2>10, TotalTail
  <2> DEFINE a == Total(t)  b == Total(Tail(t))  c == t[1]
  <2>12. 0 <= b /\ b <= TopReading * (n - 1) /\ b = a - c /\ 0 <= c /\ c <= TopReading /\ a \in Int /\ b \in Int /\ c \in Int
    BY <2>7, <2>9, <2>10, <2>11, LevelsAreInts
  <2>13. ~(0 <= a /\ a <= TopReading * n)
    BY <2>2
  <2>14. TopReading * (n - 1) = TopReading * n - TopReading /\ TopReading * n \in Int
    BY <2>3, LevelsAreInts
  <2> HIDE DEF a, b, c, T, Within
  <2> QED BY <2>3, <2>12, <2>13, <2>14, LevelsAreInts
<1>3. Len(s) \in Nat /\ Len(s) \notin T
  BY <1>1, <1>2
<1>4. Total(s) \in Int
  BY <1>1 DEF Sums
<1> QED BY <1>3, <1>4

-----------------------------------------------------------------------------
(* The ring and the last readings.                                         *)

(* What is in a slot of the ring: with fewer readings than slots they are  *)
(* in their order from the first slot on and the others are still zero;    *)
(* with all of them, the oldest is where the next one goes.                *)
Held(i) ==
  IF Len(window) < WINDOW_SIZE THEN IF i < Len(window) THEN window[i + 1] ELSE 0
  ELSE IF i >= idx THEN window[i - idx + 1] ELSE window[i - idx + 1 + WINDOW_SIZE]

RingInv ==
  /\ READINGS \in [Slots -> Reading] /\ idx \in Slots
  /\ window \in Seq(Reading) /\ Len(window) <= WINDOW_SIZE
  /\ Len(window) < WINDOW_SIZE => idx = Len(window)
  /\ \A i \in Slots : READINGS[i] = Held(i)
  /\ water_sum = Total(window)

(* Before the first reading the sum is 0.                                  *)
LEMMA EmptyTotal == Total(<<>>) = 0
<1>1. <<>> \in Seq(Int) /\ Len(<<>>) = 0
  OBVIOUS
<1>2. Sums(<<>>, [i \in 0 .. 0 |-> 0])
  BY <1>1 DEF Sums
<1> QED BY <1>1, <1>2, TotalIs

(* A valid distance gives a level from 0 to TopReading.                    *)
LEMMA WaterIsReading ==
  ASSUME NEW d \in Returned, Valid(d)
  PROVE  WaterOf(d) \in Reading
<1>1. d \in 220 .. 2000
  BY SensorAssumption DEF Valid, START_READ
<1>2. /\ ((d - 210) * 2000) \div 1300 \in Int
      /\ 15 <= ((d - 210) * 2000) \div 1300
  BY <1>1
<1> QED BY <1>2 DEF WaterOf, TANK_HEIGHT, Reading, TopReading

(* The slot that is written held the oldest of the last readings, or none  *)
(* since the start.                                                        *)
LEMMA PushKeeps ==
  ASSUME RingInv, NEW r \in Reading, Push(r)
  PROVE  RingInv'
<1> DEFINE W == WINDOW_SIZE
           n == Len(window)
<1>1. /\ W \in Nat \ {0} /\ n \in Nat /\ n <= W /\ idx \in 0 .. W - 1 /\ r \in Int
      /\ window \in Seq(Reading) /\ (n < W => idx = n)
  BY SensorAssumption, LevelsAreInts DEF RingInv, Slots
<1>2. window \in Seq(Int)
  BY <1>1, AreInts, Zenon
<1>3. idx' = (IF idx = W - 1 THEN 0 ELSE idx + 1) /\ idx' \in Slots
  <2>1. CASE idx = W - 1
    BY <2>1, <1>1 DEF Push, Slots
  <2>2. CASE idx # W - 1
    BY <2>2, <1>1 DEF Push, Slots
  <2> QED BY <2>1, <2>2
<1>4. READINGS' \in [Slots -> Reading]
  BY DEF RingInv, Push
<1>5. \A i \in Slots : READINGS'[i] = IF i = idx THEN r ELSE READINGS[i]
  BY DEF RingInv, Push
<1>6. CASE n < W
  <2>1. window' = Append(window, r)
    BY <1>6 DEF Push, Slide
  <2>2. /\ window' \in Seq(Reading) /\ Len(window') = n + 1
        /\ (\A i \in 1 .. n : window'[i] = window[i]) /\ window'[n + 1] = r
    BY <1>1, <2>1, AppendProperties
  <2>3. water_sum' = Total(window')
    <3>1. READINGS[idx] = 0 /\ Total(window) \in Int
      BY <1>1, <1>2, <1>6, TotalAppend DEF RingInv, Held
    <3> QED BY <1>1, <1>2, <2>1, <3>1, TotalAppend DEF RingInv, Push
  <2>4. Len(window') < W => idx' = Len(window')
    BY <1>1, <1>3, <1>6, <2>2
  <2>5. ASSUME NEW i \in Slots PROVE READINGS'[i] = Held(i)'
    <3>1. i \in 0 .. W - 1
      BY DEF Slots
    <3>2. READINGS[i] = IF i < n THEN window[i + 1] ELSE 0
      BY <1>6 DEF RingInv, Held
    <3>3. READINGS'[i] = IF i < n + 1 THEN window'[i + 1] ELSE 0
      BY <3>1, <3>2, <1>1, <1>5, <1>6, <2>2
    <3>4. CASE n + 1 < W
      BY <3>3, <3>4, <2>2 DEF Held
    <3>5. CASE n + 1 = W
      <4>1. idx' = 0
        BY <3>5, <1>1, <1>3, <1>6
      <4> QED BY <3>1, <3>3, <3>5, <4>1, <2>2 DEF Held
    <3> QED BY <3>4, <3>5, <1>1, <1>6
  <2> QED BY <1>1, <1>3, <1>4, <1>6, <2>2, <2>3, <2>4, <2>5 DEF RingInv
<1>7. CASE n = W
  <2>1. window' = Append(Tail(window), r) /\ window # <<>>
    BY <1>1, <1>7 DEF Push, Slide
  <2>2. /\ Tail(window) \in Seq(Reading) /\ Len(Tail(window)) = W - 1
        /\ \A i \in 1 .. W - 1 : Tail(window)[i] = window[i + 1]
    BY <1>1, <1>7, <2>1, HeadTailProperties
  <2>3. /\ window' \in Seq(Reading) /\ Len(window') = W
        /\ (\A i \in 1 .. W - 1 : window'[i] = window[i + 1]) /\ window'[W] = r
    BY <1>1, <2>1, <2>2, AppendProperties
  <2>4. water_sum' = Total(window')
    <3>1. READINGS[idx] = window[1]
      BY <1>1, <1>7 DEF RingInv, Held
    <3>2. Tail(window) \in Seq(Int) /\ window[1] \in Int /\ Total(Tail(window)) = Total(window) - window[1]
      BY <1>2, <2>1, TotalTail
    <3>3. Total(window) \in Int /\ Total(window') = Total(Tail(window)) + r
      BY <1>1, <1>2, <2>1, <3>2, TotalAppend
    <3> QED BY <1>1, <3>1, <3>2, <3>3 DEF RingInv, Push
  <2>5. ASSUME NEW i \in Slots PROVE READINGS'[i] = Held(i)'
    <3>1. i \in 0 .. W - 1
      BY DEF Slots
    <3>2. READINGS[i] = IF i >= idx THEN window[i - idx + 1] ELSE window[i - idx + 1 + W]
      BY <1>7 DEF RingInv, Held
    <3>3. Held(i)' = IF i >= idx' THEN window'[i - idx' + 1] ELSE window'[i - idx' + 1 + W]
      BY <2>3 DEF Held
    <3>4. CASE i = idx
      BY <3>1, <3>3, <3>4, <1>1, <1>3, <1>5, <2>3
    <3>5. CASE i > idx
      BY <3>1, <3>2, <3>3, <3>5, <1>1, <1>3, <1>5, <2>3
    <3>6. CASE i < idx
      <4>1. READINGS'[i] = window[i - idx + 1 + W]
        BY <3>1, <3>2, <3>6, <1>1, <1>5
      <4>2. CASE idx = W - 1
        <5>1. Held(i)' = window'[i + 1] /\ i - idx + 1 + W = i + 2 /\ i + 1 \in 1 .. W - 1
          BY <3>1, <3>3, <3>6, <4>2, <1>1, <1>3
        <5>2. window'[i + 1] = window[i + 2]
          BY <3>1, <5>1, <2>3
        <5> QED BY <4>1, <5>1, <5>2
      <4>3. CASE idx # W - 1
        <5>1. Held(i)' = window'[i - idx + W] /\ i - idx + W \in 1 .. W - 1
          BY <3>1, <3>3, <3>6, <4>3, <1>1, <1>3
        <5>2. window'[i - idx + W] = window[i - idx + W + 1] /\ i - idx + W + 1 = i - idx + 1 + W
          BY <3>1, <5>1, <2>3, <1>1
        <5> QED BY <4>1, <5>1, <5>2
      <4> QED BY <4>2, <4>3
    <3> QED BY <3>1, <3>4, <3>5, <3>6, <1>1
  <2> QED BY <1>3, <1>4, <2>3, <2>4, <2>5 DEF RingInv
<1> QED BY <1>1, <1>6, <1>7

(* The mean of the readings is one of the levels they can have.            *)
LEMMA MeanIsReading ==
  ASSUME NEW x \in Int, 0 <= x, x <= TopReading * WINDOW_SIZE
  PROVE  x \div WINDOW_SIZE \in Reading
<1> DEFINE q == x \div WINDOW_SIZE
<1>1. WINDOW_SIZE \in Nat \ {0}
  BY SensorAssumption
<1>2. q \in Int /\ WINDOW_SIZE * q <= x /\ x < WINDOW_SIZE * (q + 1)
  BY <1>1
<1> HIDE DEF q
<1>3. q >= 0
  <2> SUFFICES ASSUME q + 1 <= 0 PROVE FALSE
    BY <1>2
  <2>1. WINDOW_SIZE * (0 - (q + 1)) >= 0
    BY <1>1, <1>2
  <2>2. WINDOW_SIZE * (0 - (q + 1)) = 0 - WINDOW_SIZE * (q + 1)
    BY <1>1, <1>2
  <2> QED BY <2>1, <2>2, <1>1, <1>2
<1>4. q <= 1985
  <2> SUFFICES ASSUME q >= 1986 PROVE FALSE
    BY <1>2
  <2>1. WINDOW_SIZE * q >= WINDOW_SIZE * 1986
    BY <1>1, <1>2
  <2> QED BY <2>1, <1>1, <1>2 DEF TopReading
<1> QED BY <1>2, <1>3, <1>4 DEF q, Reading, TopReading

(* The level is the mean while it is a level, and the faults are known.    *)
LevelInv ==
  /\ level \in Reading \cup {FaultLevel} /\ prv_level \in Reading
  /\ level # FaultLevel => level = Total(window) \div WINDOW_SIZE
  /\ fault_sensor \in BOOLEAN /\ fault_wire \in BOOLEAN
  /\ level = FaultLevel <=> fault_sensor \/ fault_wire
  /\ speed \in Nat
  /\ sensorAge \in 0 .. SilenceTicks /\ speedAge \in 0 .. measurementInterval

SensorInv == RingInv /\ LevelInv

LEMMA FaultIsNoReading == FaultLevel \notin Reading
BY DEF FaultLevel, Reading, TopReading

(* The mean of the last readings, which are as many as slots or fewer.     *)
LEMMA SumIsLevel ==
  ASSUME NEW s \in Seq(Reading), Len(s) <= WINDOW_SIZE
  PROVE  Total(s) \in 0 .. TopReading * WINDOW_SIZE /\ Total(s) \div WINDOW_SIZE \in Reading
<1>1. Len(s) \in Nat /\ WINDOW_SIZE \in Nat /\ TopReading \in Int
  BY SensorAssumption, LevelsAreInts
<1>2. Total(s) \in Int /\ 0 <= Total(s) /\ Total(s) <= TopReading * Len(s)
  BY <1>1, TotalBounds
<1>3. TopReading * Len(s) <= TopReading * WINDOW_SIZE
  BY <1>1 DEF TopReading
<1> QED BY <1>1, <1>2, <1>3, MeanIsReading

(* A good frame keeps the ring, and makes the level its mean.              *)
LEMMA GoodFrameStep ==
  ASSUME SensorInv, NEW d \in Returned, GoodFrame(d)
  PROVE  SensorInv'
<1>1. RingInv'
  BY WaterIsReading, PushKeeps DEF GoodFrame, SensorInv
<1>2. level' \in Reading /\ level' = Total(window') \div WINDOW_SIZE
  <2>1. window' \in Seq(Reading) /\ Len(window') <= WINDOW_SIZE /\ water_sum' = Total(window')
    BY <1>1 DEF RingInv
  <2> QED BY <2>1, SumIsLevel DEF GoodFrame
<1>3. prv_level' \in Reading /\ speed' \in Nat /\ speedAge' \in 0 .. measurementInterval
  <2>1. CASE level' > prv_level /\ speedAge >= measurementInterval
    <3>1. (level' - prv_level) \div 5 \in Nat
      BY <1>2, <2>1 DEF SensorInv, LevelInv, Reading, TopReading
    <3> QED BY <1>2, <2>1, <3>1, SensorAssumption DEF GoodFrame, Speed
  <2>2. CASE ~(level' > prv_level /\ speedAge >= measurementInterval)
    BY <2>2 DEF SensorInv, LevelInv, GoodFrame, Speed
  <2> QED BY <2>1, <2>2
<1>4. fault_sensor' = FALSE /\ fault_wire' = FALSE /\ sensorAge' \in 0 .. SilenceTicks
  BY SensorAssumption DEF GoodFrame
<1> QED BY <1>1, <1>2, <1>3, <1>4, FaultIsNoReading DEF SensorInv, LevelInv

(* Every call of readSensor keeps the ring and the level.                  *)
LEMMA SensorInvariant == LevelSpec => []SensorInv
<1>1. LevelInit => SensorInv
  <2> SUFFICES ASSUME LevelInit PROVE SensorInv
    OBVIOUS
  <2>1. RingInv
    BY EmptyTotal, SensorAssumption DEF LevelInit, RingInv, Held, Slots, Reading, TopReading
  <2>2. 0 \div WINDOW_SIZE = 0
    BY SensorAssumption
  <2>3. level = Total(window) \div WINDOW_SIZE
    BY <2>2, EmptyTotal DEF LevelInit
  <2>4. level # FaultLevel /\ ~fault_sensor /\ ~fault_wire
    BY DEF LevelInit, FaultLevel
  <2>5. level \in Reading /\ prv_level \in Reading /\ speed \in Nat
    BY DEF LevelInit, Reading, TopReading
  <2>6. sensorAge \in 0 .. SilenceTicks /\ speedAge \in 0 .. measurementInterval
    BY SensorAssumption DEF LevelInit
  <2>7. fault_sensor \in BOOLEAN /\ fault_wire \in BOOLEAN
    BY DEF LevelInit
  <2> QED BY <2>1, <2>3, <2>4, <2>5, <2>6, <2>7 DEF SensorInv, LevelInv
<1>2. SensorInv /\ [LevelNext]_levelVars => SensorInv'
  <2> SUFFICES ASSUME SensorInv, [LevelNext]_levelVars PROVE SensorInv'
    OBVIOUS
  <2>1. ASSUME UNCHANGED ring, LevelInv' PROVE SensorInv'
    <3>1. RingInv'
      BY <2>1 DEF SensorInv, RingInv, Held, ring
    <3> QED BY <2>1, <3>1 DEF SensorInv
  <2>2. ASSUME NEW d \in Returned, GoodFrame(d) PROVE SensorInv'
    BY <2>2, GoodFrameStep
  <2>3. ASSUME NEW d \in Returned, BadFrame(d) PROVE SensorInv'
    <3>1. sensorAge' \in 0 .. SilenceTicks
      BY <2>3, SensorAssumption DEF BadFrame
    <3>2. LevelInv'
      BY <2>3, <3>1 DEF SensorInv, LevelInv, BadFrame
    <3> QED BY <2>1, <2>3, <3>2 DEF BadFrame
  <2>4. CASE Silence
    BY <2>1, <2>4 DEF SensorInv, LevelInv, Silence, ring
  <2>5. CASE Tick
    <3>1. sensorAge' \in 0 .. SilenceTicks /\ speedAge' \in 0 .. measurementInterval
      BY <2>5, SensorAssumption DEF SensorInv, LevelInv, Tick
    <3> QED BY <2>1, <2>5, <3>1 DEF SensorInv, LevelInv, Tick, ring
  <2>6. CASE UNCHANGED levelVars
    BY <2>1, <2>6 DEF SensorInv, LevelInv, levelVars, ring
  <2> QED BY <2>2, <2>3, <2>4, <2>5, <2>6 DEF LevelNext, readSensor
<1> QED BY <1>1, <1>2, PTL DEF LevelSpec

(* Ring, sum, level and ages stay within their types: what readSensor      *)
(* adds to water_sum and takes from it never makes it negative, nor more   *)
(* than WINDOW_SIZE full tanks.                                            *)
THEOREM LevelTyped == LevelSpec => []LevelTypeOK
<1>1. SensorInv => LevelTypeOK
  <2> SUFFICES ASSUME SensorInv PROVE LevelTypeOK
    OBVIOUS
  <2>1. water_sum \in 0 .. TopReading * WINDOW_SIZE
    BY SumIsLevel DEF SensorInv, RingInv
  <2>2. READINGS \in [Slots -> Reading] /\ idx \in Slots /\ window \in Seq(Reading) /\ Len(window) <= WINDOW_SIZE
    BY DEF SensorInv, RingInv
  <2>3. /\ level \in Reading \cup {FaultLevel} /\ prv_level \in Reading
        /\ speed \in Nat /\ fault_sensor \in BOOLEAN /\ fault_wire \in BOOLEAN
        /\ sensorAge \in 0 .. SilenceTicks /\ speedAge \in 0 .. measurementInterval
    BY DEF SensorInv, LevelInv
  <2> QED BY <2>1, <2>2, <2>3, Zenon DEF LevelTypeOK
<1> QED BY <1>1, SensorInvariant, PTL

(* The level readSensor shows without a fault is the mean of the last      *)
(* WINDOW_SIZE good readings, for a window of any size.                    *)
THEOREM LevelIsMean == LevelSpec => []MovingMean
<1>1. SensorInv => MovingMean
  BY DEF SensorInv, LevelInv, MovingMean
<1> QED BY <1>1, SensorInvariant, PTL

(* readSensor shows the level that means "none" exactly while one of its   *)
(* two fault flags is up.                                                  *)
THEOREM FaultsAreShown == LevelSpec => []LevelOrFault
<1>1. SensorInv => LevelOrFault
  BY DEF SensorInv, LevelInv, LevelOrFault
<1> QED BY <1>1, SensorInvariant, PTL

(* Two sums that differ by one reading have means that differ by its share.*)
LEMMA MeansAreClose ==
  ASSUME NEW x \in Int, NEW y \in Int, y - x \in -TopReading .. TopReading
  PROVE  y \div WINDOW_SIZE - x \div WINDOW_SIZE \in -Share .. Share
<1> DEFINE W == WINDOW_SIZE  p == x \div W  q == y \div W  t == TopReading \div W
<1>1. W \in Nat \ {0} /\ TopReading \in Nat
  BY SensorAssumption DEF TopReading
<1>2. /\ p \in Int /\ W * p <= x /\ x < W * p + W
      /\ q \in Int /\ W * q <= y /\ y < W * q + W
      /\ t \in Int /\ W * t <= TopReading /\ TopReading < W * t + W
  BY <1>1
<1> HIDE DEF p, q, t, W
<1>3. ASSUME NEW a \in Int, NEW b \in Int, W * a < W * b + 2 * W, W * t \in Int, b = t PROVE a <= t + 1
  <2> SUFFICES ASSUME a - t - 2 \in Nat PROVE FALSE
    BY <1>2
  <2>1. W * (a - t - 2) >= 0
    BY <1>1
  <2>2. W * (a - t - 2) = W * a - W * t - 2 * W
    BY <1>1, <1>2
  <2>3. W * a \in Int /\ W * t \in Int /\ 2 * W \in Int
    BY <1>1, <1>2
  <2> QED BY <2>1, <2>2, <2>3, <1>3
<1>4. W * (q - p) < W * t + 2 * W /\ W * (p - q) < W * t + 2 * W
  <2>1. W * (q - p) = W * q - W * p /\ W * (p - q) = W * p - W * q
    BY <1>1, <1>2
  <2>2. W * p \in Int /\ W * q \in Int /\ W * t \in Int
    BY <1>1, <1>2
  <2> QED BY <1>1, <1>2, <2>1, <2>2
<1>5. q - p <= t + 1 /\ p - q <= t + 1
  BY <1>1, <1>2, <1>3, <1>4
<1> QED BY <1>2, <1>5 DEF p, q, t, W, Share

(* A level that follows another one without a fault between them differs   *)
(* from it by one reading's share of the window at most, whatever the      *)
(* reader made of the bytes it got (readSensor).                           *)
THEOREM LevelMovesLittle == LevelSpec => MovesLittle
<1>1. SensorInv /\ [LevelNext]_levelVars =>
        [level # FaultLevel /\ level' # FaultLevel => level' - level \in -Share .. Share]_levelVars
  <2> SUFFICES ASSUME SensorInv, [LevelNext]_levelVars, level # FaultLevel, level' # FaultLevel
               PROVE  level' - level \in -Share .. Share
    OBVIOUS
  <2>1. level \in Reading /\ level = water_sum \div WINDOW_SIZE /\ water_sum \in Int
    <3>1. window \in Seq(Reading) /\ water_sum = Total(window)
      BY DEF SensorInv, RingInv
    <3>2. Total(window) \in Int
      BY <3>1, TotalBounds
    <3> QED BY <3>1, <3>2 DEF SensorInv, LevelInv
  <2>2. CASE level' = level
    <3>1. 0 \in -Share .. Share
      <4>1. TopReading \div WINDOW_SIZE >= 0 /\ TopReading \div WINDOW_SIZE \in Int
        BY SensorAssumption, LevelsAreInts, MeanIsReading DEF TopReading
      <4> QED BY <4>1 DEF Share
    <3>2. level \in Int
      BY <2>1, LevelsAreInts
    <3> QED BY <2>2, <3>1, <3>2
  <2>3. ASSUME NEW d \in Returned, GoodFrame(d) PROVE level' - level \in -Share .. Share
    <3>1. WaterOf(d) \in Reading /\ READINGS[idx] \in Reading
      BY <2>3, WaterIsReading DEF GoodFrame, SensorInv, RingInv
    <3>2. water_sum' = water_sum - READINGS[idx] + WaterOf(d) /\ level' = water_sum' \div WINDOW_SIZE
      BY <2>3 DEF GoodFrame, Push
    <3>3. water_sum' \in Int /\ water_sum' - water_sum \in -TopReading .. TopReading
      <4> DEFINE a == READINGS[idx]
                 r == WaterOf(d)
      <4>1. /\ a \in Int /\ 0 <= a /\ a <= TopReading
            /\ r \in Int /\ 0 <= r /\ r <= TopReading
        <5>1. a \in Reading /\ r \in Reading
          BY <3>1
        <5> HIDE DEF a, r
        <5> QED BY <5>1, LevelsAreInts
      <4>2. water_sum' = water_sum - a + r
        BY <3>2
      <4>3. TopReading \in Int
        BY DEF TopReading
      <4> HIDE DEF a, r
      <4> QED BY <2>1, <4>1, <4>2, <4>3
    <3> QED BY <2>1, <3>2, <3>3, MeansAreClose
  <2> QED BY <2>2, <2>3 DEF LevelNext, readSensor, BadFrame, Silence, Tick, levelVars
<1> QED BY <1>1, SensorInvariant, PTL DEF LevelSpec, MovesLittle

-----------------------------------------------------------------------------
(* SensorChain.                                                            *)

(* Of the line, every step of the chain is a step of SerialFrame or none.  *)
LEMMA ChainSteps ==
  [Next]_vars => [FrameNext]_frameVars
BY DEF Next, Calls, UseDistance, Wait, NoByte, Measures, Sends, Breaks, Passes,
       FrameNext, Reader, Sensor, vars

(* Of the line and its reader, the chain does what SerialFrame does.       *)
THEOREM ChainReadsFrames == Spec => FrameSpec
<1>1. Init => FrameInit
  BY DEF Init
<1> QED BY <1>1, ChainSteps, PTL DEF Spec, FrameSpec

LEMMA ChainInvariant == Spec => []IInv
BY ChainReadsFrames, FrameInvariant, PTL

(* What is used of the line is a distance of two bytes.                    *)
LEMMA ChainDistances ==
  ASSUME IInv, IInv', [Next]_vars
  PROVE  [LevelNext]_levelVars
<1>1. distance' \in Returned
  BY ReturnedAssumption DEF IInv, FrameTypeOK
<1>2. CASE UseDistance
  BY <1>1, <1>2 DEF UseDistance, Use, LevelNext, readSensor
<1>3. CASE NoByte
  BY <1>3 DEF NoByte, LevelNext, readSensor
<1>4. CASE Passes
  BY <1>4 DEF Passes, LevelNext
<1>5. CASE Wait \/ Measures \/ Sends \/ Breaks \/ UNCHANGED vars
  BY <1>5 DEF Wait, Measures, Sends, Breaks, vars
<1> QED BY <1>2, <1>3, <1>4, <1>5 DEF Next, Calls

(* Of the level, the chain does what WaterSensor does: whatever the line   *)
(* does to its bytes, the reader returns distances WaterSensor allows for. *)
THEOREM ChainShowsLevels == Spec => LevelSpec
<1>1. Init => LevelInit
  BY DEF Init
<1>2. IInv /\ IInv' /\ [Next]_vars => [LevelNext]_levelVars
  BY ChainDistances
<1> QED BY <1>1, <1>2, ChainInvariant, PTL DEF Spec, LevelSpec

(* What a call that has a distance has, while nothing was lost.            *)
LEMMA UsesMeasured ==
  ASSUME IInv, UseDistance, intact
  PROVE  /\ expected # <<>> /\ expected' = Tail(expected)
         /\ distance' = (IF Head(expected)[1] + Head(expected)[2] < Base
                           THEN Value(Head(expected)) ELSE 0)
<1>1. Return
  BY NoStray DEF UseDistance
<1> QED BY <1>1, ReturnGives DEF Return

(* What a bad frame returns is out of range.                               *)
LEMMA ZeroIsInvalid == ~Valid(0)
BY DEF Valid, START_READ

(* A sequence that stays as it is or grows has not lost its head.          *)
LEMMA AppendIsNoTail ==
  ASSUME NEW s \in Seq(Distances), s # <<>>, NEW t,
         t = s \/ \E d \in Distances : t = Append(s, d)
  PROVE  t # Tail(s)
<1>1. Len(Tail(s)) = Len(s) - 1 /\ Len(s) \in Nat
  BY HeadTailProperties
<1>2. Len(t) = Len(s) \/ Len(t) = Len(s) + 1
  BY AppendProperties
<1> QED BY <1>1, <1>2

(* While the line is whole every distance that was measured is used once   *)
(* and in order: for a level if it is in range and its frame can be told   *)
(* from a bad one, for a fault otherwise (readSensor and getDistance).     *)
THEOREM LevelsAreMeasuredHolds == Spec => LevelsAreMeasured
<1> DEFINE Uses ==
      IF Measurable(Head(expected))
        THEN ~fault_sensor' /\ window' = Slide(WaterOf(Value(Head(expected))))
        ELSE fault_sensor' /\ UNCHANGED ring
    Taken == expected # <<>> /\ expected' = Tail(expected)
<1>1. IInv /\ [Next]_vars =>
        [intact' => IF Taken THEN Uses ELSE UNCHANGED <<ring, fault_sensor>>]_vars
  <2> SUFFICES ASSUME IInv, [Next]_vars, intact', ~(UNCHANGED vars)
               PROVE  IF Taken THEN Uses ELSE UNCHANGED <<ring, fault_sensor>>
    OBVIOUS
  <2>1. CASE UseDistance
    <3>1. intact
      BY <2>1 DEF UseDistance, Return, ReadStray, hist
    <3>2. Taken /\ (Valid(distance') <=> Measurable(Head(expected)))
      BY <2>1, <3>1, UsesMeasured, ZeroIsInvalid DEF Measurable
    <3>3. CASE GoodFrame(distance')
      <4>1. Valid(distance') /\ ~fault_sensor' /\ window' = Slide(WaterOf(distance'))
        BY <3>3 DEF GoodFrame, Push
      <4>2. Measurable(Head(expected)) /\ distance' = Value(Head(expected))
        BY <2>1, <3>1, <3>2, <4>1, UsesMeasured DEF Measurable
      <4> QED BY <3>2, <4>1, <4>2
    <3>4. CASE BadFrame(distance')
      <4>1. ~Valid(distance') /\ fault_sensor' /\ UNCHANGED ring
        BY <3>4 DEF BadFrame
      <4> QED BY <3>2, <4>1
    <3> QED BY <2>1, <3>3, <3>4 DEF UseDistance, Use
  <2>2. CASE ~UseDistance
    <3>1. UNCHANGED <<ring, fault_sensor>>
      BY <2>2 DEF Next, Calls, Wait, NoByte, Measures, Sends, Breaks, Passes,
                  Silence, Tick, vars, levelVars
    <3>2. UNCHANGED expected \/ \E d \in Distances : expected' = Append(expected, d)
      BY <2>2 DEF Next, Calls, Wait, NoByte, Measures, Sends, Breaks, Passes,
                  ReadMark, ReadBytes, ReadTimeout, Measure, Send, Lose, Cut, Mend,
                  frameVars, hist
    <3>3. ~Taken
      BY <3>2, AppendIsNoTail DEF IInv, FrameTypeOK
    <3> QED BY <3>1, <3>3
  <2> QED BY <2>1, <2>2
<1> QED BY <1>1, ChainInvariant, PTL DEF Spec, LevelsAreMeasured
=============================================================================
