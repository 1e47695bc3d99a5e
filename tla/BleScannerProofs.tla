-------------------------- MODULE BleScannerProofs --------------------------
(***************************************************************************)
(* Theorems of BleScanner, for every stream of events, every way to cut it *)
(* into reads and every number of failed allocations.                      *)
(***************************************************************************)
EXTENDS BleScanner, TLAPS

(* What the assumption says of the stream that is sent.                    *)
LEMMA StreamFacts ==
    ASSUME stream \in DOMAIN Streams
    PROVE  /\ Number \in Nat
           /\ Start(1) = 0
           /\ \A k \in 1 .. Number + 1 : Start(k) \in Nat
           /\ \A k \in 1 .. Number :
                 /\ Len(Sent(k).reports) \in Nat
                 /\ Sent(k).param_len \in 2 .. 255
                 /\ Start(k + 1) = Start(k) + Sent(k).param_len + 3
  <1>1. /\ Number \in Nat
        /\ Streams[stream].starts \in [1 .. Number + 1 -> Nat]
        /\ Start(1) = 0
    BY ScannerAssumption DEF Number, Start
  <1>2. ASSUME NEW k \in 1 .. Number
        PROVE  /\ Len(Sent(k).reports) \in Nat
               /\ Sent(k).param_len \in 2 .. 255
               /\ Start(k + 1) = Start(k) + Size(Sent(k))
    <2>1. WellFormed(Sent(k)) /\ Start(k + 1) = Start(k) + Size(Sent(k))
      BY <1>2, ScannerAssumption DEF Number, Start, Sent
    <2>2. Sent(k).reports \in Seq(Reports) /\ Sent(k).param_len \in 2 .. 255
      BY <2>1 DEF WellFormed
    <2>. QED  BY <2>1, <2>2
  <1>3. ASSUME NEW k \in 1 .. Number + 1 PROVE Start(k) \in Nat
    BY <1>1, <1>3 DEF Start
  <1>4. ASSUME NEW k \in 1 .. Number
        PROVE  Start(k + 1) = Start(k) + Sent(k).param_len + 3
    <2>1. k \in 1 .. Number + 1
      BY <1>1, <1>4
    <2>2. Start(k) \in Nat
      BY <2>1, <1>3
    <2>3. Start(k + 1) = Start(k) + Size(Sent(k))
      BY <1>2, <1>4
    <2>5. Sent(k).param_len \in 2 .. 255
      BY <1>2, <1>4
    <2>4. Size(Sent(k)) = 3 + Sent(k).param_len
      BY DEF Size, Lead
    <2>. QED  BY <2>2, <2>3, <2>4, <2>5
  <1>. QED  BY <1>1, <1>2, <1>3, <1>4

-----------------------------------------------------------------------------
(* The invariant                                                           *)

(* Outside the inner loop the head of the buffer is the start of an event; *)
(* the watermark is a header's, or what the event at the head was found to *)
(* lack; and an event was taken short by one byte, or by its wrapped       *)
(* length, and the scan does not go on after it.                           *)
AtAnEvent  == pc \in {"idle", "scan"} => Start(at) <= read
LowIsAwaited ==
    low = HdrLen \/ (at <= Number /\ low = Awaited(Event) /\ low > HdrLen)
IdleIsShort == pc = "idle" /\ ~oom => have < low
ShortIsLost ==
    missing > 0 => /\ pc \in {"reports", "lost"}
                   /\ missing = 1 \/ Taken.param_len \in 254 .. 255

ScannerInv ==
    TypeOK /\ AtAnEvent /\ LowIsAwaited /\ IdleIsShort /\ ShortIsLost

LEMMA InitScanner == Init => ScannerInv
  <1>. SUFFICES ASSUME Init PROVE ScannerInv
    OBVIOUS
  <1>1. stream \in DOMAIN Streams /\ Number \in Nat /\ Start(1) = 0
    BY StreamFacts DEF Init
  <1>2. Start(Number + 1) \in Nat
    BY <1>1, StreamFacts
  <1>3. TypeOK
    <2>1. at \in 1 .. Number + 1 /\ read \in 0 .. Start(Number + 1) /\ idx \in Nat
      BY <1>1, <1>2 DEF Init
    <2>2. dropped \subseteq Nat \X Nat
      BY DEF Init
    <2>. QED  BY <1>1, <2>1, <2>2 DEF Init, TypeOK
  <1>4. AtAnEvent /\ LowIsAwaited /\ IdleIsShort /\ ShortIsLost
    BY <1>1 DEF Init, AtAnEvent, LowIsAwaited, IdleIsShort, ShortIsLost,
                have, missing, HdrLen
  <1>. QED  BY <1>3, <1>4 DEF ScannerInv

(* There is an event at the head of a buffer with a header's bytes.        *)
LEMMA HeadIsAnEvent ==
    ASSUME TypeOK, AtAnEvent, pc = "scan", have >= HdrLen
    PROVE  /\ at \in 1 .. Number
           /\ read = Start(at) + have /\ have \in Nat
  <1>1. read >= Start(at) + 5
    BY StreamFacts DEF TypeOK, AtAnEvent, have, HdrLen
  <1>2. at # Number + 1
    BY <1>1, StreamFacts DEF TypeOK
  <1>. QED  BY <1>1, <1>2, StreamFacts DEF TypeOK, AtAnEvent, have

(* An event that is taken lacks at most its last byte, or its length wraps.*)
LEMMA TakenIsShort ==
    ASSUME TypeOK, AtAnEvent, pc = "scan", have >= HdrLen, ~Incomplete, Drain,
           stream' = stream
    PROVE  /\ at' \in 2 .. Number + 1 /\ Taken' = Sent(at)
           /\ missing' > 0 => missing' = 1 \/ Taken'.param_len \in 254 .. 255
           /\ missing' = IF have < Size(Event) THEN Size(Event) - have ELSE 0
           /\ have >= Size(Event) => Start(at)' <= read'
  <1>. DEFINE n == Sent(at).param_len
  <1>1. at \in 1 .. Number /\ read = Start(at) + have /\ have \in Nat
    BY HeadIsAnEvent
  <1>2. Number \in Nat /\ n \in 2 .. 255 /\ Start(at) \in Nat
        /\ Start(at + 1) = Start(at) + n + 3
    BY <1>1, StreamFacts DEF TypeOK
  <1>3. at' = at + 1 /\ read' = read /\ Taken' = Sent(at)
    <2>1. at' = at + 1 /\ read' = read
      BY DEF Drain
    <2>2. at' - 1 = at
      BY <1>1, <1>2, <2>1
    <2>3. Taken' = Sent(at)
      BY <2>2 DEF Taken, Sent
    <2>. QED  BY <2>1, <2>3
  <1>4. Start(at)' = Start(at + 1)
    BY <1>3 DEF Start
  <1>5. missing' = IF have < n + 3 THEN n + 3 - have ELSE 0
    BY <1>1, <1>2, <1>3, <1>4 DEF missing
  <1>6. have >= (n + 2) % 256
    BY <1>1, <1>2 DEF Incomplete, Awaited, Event
  <1>7. n <= 253 => have >= n + 2
    BY <1>1, <1>2, <1>6
  <1>8. Size(Event) = n + 3
    BY <1>2 DEF Size, Lead, Event
  <1>. QED  BY <1>1, <1>2, <1>3, <1>4, <1>5, <1>7, <1>8

-----------------------------------------------------------------------------
(* Steps                                                                   *)

LEMMA NextScanner == ScannerInv /\ [Next]_vars => ScannerInv'
  <1>. SUFFICES ASSUME ScannerInv, [Next]_vars PROVE ScannerInv'
    OBVIOUS
  <1>. USE DEF ScannerInv
  <1>0. /\ stream \in DOMAIN Streams /\ at \in 1 .. Number + 1 /\ Number \in Nat
        /\ read \in Nat /\ Start(at) \in Nat /\ Start(Number + 1) \in Nat
        /\ idx \in Nat /\ low \in Nat
    <2>1. stream \in DOMAIN Streams /\ at \in 1 .. Number + 1 /\ Number \in Nat
      BY StreamFacts DEF TypeOK
    <2>2. Start(at) \in Nat /\ Start(Number + 1) \in Nat
      BY <2>1, StreamFacts
    <2>3. read \in 0 .. Start(Number + 1) /\ idx \in Nat
      BY DEF TypeOK
    <2>4. low \in Nat
      <3>1. low = HdrLen \/ low \in 6 .. 257
        BY DEF TypeOK
      <3>. QED  BY <3>1 DEF HdrLen
    <2>. QED  BY <2>1, <2>2, <2>3, <2>4
  <1>1. CASE Read
    <2>1. read' \in read + 1 .. Start(Number + 1)
      <3>1. read' \in ReadEnds
        BY <1>1 DEF Read
      <3>2. ReadEnds \subseteq read + 1 .. Start(Number + 1)
        BY DEF ReadEnds
      <3>. QED  BY <3>1, <3>2
    <2>2. Start(at)' = Start(at) /\ Number' = Number /\ Start(Number + 1)' = Start(Number + 1)
          /\ Event' = Event
      BY <1>1 DEF Read, Start, Number, Event, Sent
    <2>3. Start(at) <= read /\ pc = "idle"
      BY <1>1 DEF AtAnEvent, Read
    <2>4. TypeOK'
      <3>1. UNCHANGED <<stream, at, low, idx, dropped>> /\ pc' \in {"idle", "scan"}
            /\ oom' \in BOOLEAN
        BY <1>1 DEF Read
      <3>2. read' \in 0 .. Start(Number + 1)'
        BY <1>0, <2>1, <2>2
      <3>3. at' \in 1 .. Number' + 1 /\ stream' \in DOMAIN Streams
        BY <1>0, <2>2, <3>1
      <3>. QED  BY <1>0, <3>1, <3>2, <3>3 DEF TypeOK
    <2>5. have' = read' - Start(at) /\ missing' = 0
      BY <1>0, <1>1, <2>1, <2>2, <2>3 DEF have, missing
    <2>6. AtAnEvent' /\ LowIsAwaited' /\ IdleIsShort' /\ ShortIsLost'
      BY <1>0, <1>1, <2>1, <2>2, <2>3, <2>5
         DEF Read, AtAnEvent, LowIsAwaited, IdleIsShort, ShortIsLost, Awaited
    <2>. QED  BY <2>4, <2>6
  <1>2. CASE Idle
    <2>1. UNCHANGED <<stream, at, read, low, have, missing, Taken, Event, Number,
                      Start(at), Start(Number + 1)>>
      BY <1>2 DEF Idle, bufVars, have, missing, Taken, Event, Sent, Number, Start
    <2>2. have < HdrLen /\ pc = "scan" /\ pc' = "idle"
      BY <1>2 DEF Idle
    <2>3. missing = 0 /\ have \in Nat
      BY <1>0, <2>2 DEF AtAnEvent, missing, have
    <2>4. TypeOK'
      BY <1>2, <2>1 DEF TypeOK, Idle, tableVars, bufVars
    <2>5. AtAnEvent' /\ LowIsAwaited' /\ ShortIsLost'
      BY <2>1, <2>2, <2>3 DEF AtAnEvent, LowIsAwaited, ShortIsLost, Awaited
    <2>6. IdleIsShort'
      BY <1>0, <2>1, <2>2, <2>3 DEF IdleIsShort, LowIsAwaited, HdrLen
    <2>. QED  BY <2>4, <2>5, <2>6
  <1>3. CASE Wait
    <2>1. UNCHANGED <<stream, at, read, have, missing, Taken, Event, Number,
                      Start(at), Start(Number + 1)>>
      BY <1>3 DEF Wait, have, missing, Taken, Event, Sent, Number, Start
    <2>2. have >= HdrLen /\ pc = "scan" /\ pc' = "idle" /\ low' = Awaited(Event)
      BY <1>3 DEF Wait, Scans
    <2>3. at \in 1 .. Number /\ have \in Nat /\ read = Start(at) + have
      BY <2>2, HeadIsAnEvent
    <2>4. missing = 0
      BY <1>0, <2>3 DEF missing
    <2>5. Event.param_len \in 2 .. 255
      BY <1>0, <2>3, StreamFacts DEF Event
    <2>6. have < (Event.param_len + 2) % 256
      BY <1>3 DEF Wait, Incomplete, Awaited
    <2>7. low' = Event.param_len + 2 /\ have < low' /\ low' \in 6 .. 257
      BY <2>2, <2>3, <2>5, <2>6 DEF Awaited, HdrLen
    <2>8. TypeOK'
      BY <1>3, <2>1, <2>7 DEF TypeOK, Wait, tableVars
    <2>. QED
      BY <1>0, <2>1, <2>2, <2>3, <2>4, <2>7, <2>8
         DEF AtAnEvent, LowIsAwaited, IdleIsShort, ShortIsLost, Awaited, HdrLen
  <1>4. CASE TakeEvent
    <2>1. pc = "scan" /\ have >= HdrLen /\ ~Incomplete /\ Drain /\ pc' = "reports"
          /\ idx' = 0 /\ low' = HdrLen /\ read' = read /\ stream' = stream
      BY <1>4 DEF TakeEvent, Scans, Drain, LowAfter
    <2>2. at \in 1 .. Number /\ at' \in 2 .. Number + 1 /\ Taken' = Sent(at)
          /\ (missing' > 0 => missing' = 1 \/ Taken'.param_len \in 254 .. 255)
      BY <2>1, TakenIsShort, HeadIsAnEvent
    <2>3. Len(Taken'.reports) \in Nat
      BY <1>0, <2>2, StreamFacts
    <2>4. Number' = Number /\ Start(Number + 1)' = Start(Number + 1)
      BY <2>1 DEF Number, Start
    <2>5. TypeOK'
      BY <1>0, <1>4, <2>1, <2>2, <2>3, <2>4 DEF TypeOK, TakeEvent
    <2>. QED
      BY <2>1, <2>2, <2>5
         DEF AtAnEvent, LowIsAwaited, IdleIsShort, ShortIsLost
  <1>5. CASE OutOfMemory
    <2>1. pc = "scan" /\ have >= HdrLen /\ ~Incomplete /\ Drain
          /\ low' = HdrLen /\ read' = read /\ stream' = stream /\ oom'
          /\ pc' = IF have < Size(Event) THEN "lost" ELSE "idle"
      BY <1>5 DEF OutOfMemory, Scans, Drain, LowAfter
    <2>2. at \in 1 .. Number /\ at' \in 2 .. Number + 1 /\ Taken' = Sent(at)
          /\ (missing' > 0 => missing' = 1 \/ Taken'.param_len \in 254 .. 255)
          /\ missing' = (IF have < Size(Event) THEN Size(Event) - have ELSE 0)
          /\ (have >= Size(Event) => Start(at)' <= read') /\ have \in Nat
      BY <2>1, TakenIsShort, HeadIsAnEvent
    <2>3. Number' = Number /\ Start(Number + 1)' = Start(Number + 1)
      BY <2>1 DEF Number, Start
    <2>4. dropped' \subseteq Nat \X Nat
      <3>1. Len(Event.reports) \in Nat
        BY <1>0, <2>2, StreamFacts DEF Event
      <3>2. {at} \X Numbers(Event) \subseteq Nat \X Nat
        BY <1>0, <3>1, <2>2 DEF Numbers
      <3>. QED  BY <1>5, <3>2 DEF OutOfMemory, TypeOK
    <2>5. TypeOK'
      <3>1. read' \in 0 .. Start(Number + 1)' /\ at' \in 1 .. Number' + 1
        BY <1>0, <2>1, <2>2, <2>3 DEF TypeOK
      <3>2. idx' = idx /\ pc' \in {"idle", "lost"} /\ oom' \in BOOLEAN
        BY <1>5 DEF OutOfMemory
      <3>. QED  BY <1>0, <2>1, <2>4, <3>1, <3>2 DEF TypeOK
    <2>6. Size(Event) \in Nat
      <3>1. Event.param_len \in 2 .. 255
        BY <1>0, <2>2, StreamFacts DEF Event
      <3>. QED  BY <3>1 DEF Size, Lead
    <2>. QED
      BY <2>1, <2>2, <2>5, <2>6
         DEF AtAnEvent, LowIsAwaited, IdleIsShort, ShortIsLost
  <1>6. CASE ReportDropped \/ ReportSkipped \/ ReportCounted
    <2>1. UNCHANGED <<bufVars, pc, oom, have, missing, Taken, Event, Number,
                      Start(at), Start(Number + 1)>>
      BY <1>6 DEF ReportDropped, ReportSkipped, ReportCounted, bufVars, have,
                  missing, Taken, Event, Sent, Number, Start
    <2>2. pc = "reports" /\ idx < Len(Taken.reports) /\ idx' = idx + 1
      BY <1>6 DEF ReportDropped, ReportSkipped, ReportCounted, InReports
    <2>3. at - 1 \in 1 .. Number
      BY <1>0, <2>2 DEF TypeOK
    <2>4. Len(Taken.reports) \in Nat
      BY <1>0, <2>3, StreamFacts DEF Taken
    <2>5. dropped' \subseteq Nat \X Nat
      BY <1>0, <1>6, <2>3 DEF TypeOK, ReportDropped, ReportSkipped, ReportCounted
    <2>6. TypeOK'
      BY <1>0, <2>1, <2>2, <2>4, <2>5 DEF TypeOK, bufVars
    <2>. QED
      BY <2>1, <2>2, <2>6
         DEF AtAnEvent, LowIsAwaited, IdleIsShort, ShortIsLost, bufVars, Awaited
  <1>7. CASE ReportsEnd
    <2>1. UNCHANGED <<bufVars, oom, idx, dropped, have, missing, Taken, Event,
                      Number, Start(at), Start(Number + 1)>>
      BY <1>7 DEF ReportsEnd, bufVars, have, missing, Taken, Event, Sent, Number, Start
    <2>2. pc = "reports" /\ pc' = IF missing > 0 THEN "lost" ELSE "scan"
      BY <1>7 DEF ReportsEnd
    <2>3. missing \in Nat /\ (~(missing > 0) => Start(at) <= read)
      BY <1>0 DEF missing
    <2>4. TypeOK'
      BY <2>1, <2>2 DEF TypeOK, bufVars
    <2>. QED
      BY <2>1, <2>2, <2>3, <2>4
         DEF AtAnEvent, LowIsAwaited, IdleIsShort, ShortIsLost, bufVars, Awaited
  <1>8. CASE UNCHANGED vars
    <2>1. UNCHANGED <<stream, at, read, low, pc, idx, oom, dropped, have, missing,
                      Taken, Event, Number, Start(at), Start(Number + 1)>>
      BY <1>8 DEF vars, bufVars, have, missing, Taken, Event, Sent, Number, Start
    <2>. QED
      BY <2>1 DEF TypeOK, AtAnEvent, LowIsAwaited, IdleIsShort, ShortIsLost, Awaited
  <1>. QED
    BY <1>1, <1>2, <1>3, <1>4, <1>5, <1>6, <1>7, <1>8 DEF Next, Callback

LEMMA Scanner == Spec => []ScannerInv
  BY InitScanner, NextScanner, PTL DEF Spec

-----------------------------------------------------------------------------

(* The loops of ble_readcb never take an event that was not sent and never *)
(* leave the reports of the one they are in.                               *)
THEOREM TypeCorrect == Spec => []TypeOK
  BY Scanner, PTL DEF ScannerInv

(* However the stream is cut into reads: between callbacks the scanner     *)
(* waits for bytes that are not there yet, and for no more than the event  *)
(* at the head has (ble_readcb).                                           *)
THEOREM NeverSleepsThrough == Spec => []WakesInTime
  <1>1. ScannerInv => WakesInTime
    <2>. SUFFICES ASSUME ScannerInv, pc = "idle", at <= Number
                  PROVE  low <= Size(Event)
      BY DEF ScannerInv, IdleIsShort, WakesInTime
    <2>1. stream \in DOMAIN Streams /\ Number \in Nat /\ at \in 1 .. Number
      BY StreamFacts DEF ScannerInv, TypeOK
    <2>2. Event.param_len \in 2 .. 255
      BY <2>1, StreamFacts DEF Event
    <2>. QED
      BY <2>2 DEF ScannerInv, LowIsAwaited, Awaited, HdrLen, Size, Lead
  <1>. QED  BY <1>1, Scanner, PTL

(* Framing is lost only at an event that was taken one byte short, or one  *)
(* of 254 or 255 parameters (ble_readcb).                                  *)
THEOREM FramingLostOnlyByLength == Spec => []LostOnlyByLength
  <1>1. ScannerInv => LostOnlyByLength
    BY DEF ScannerInv, ShortIsLost, LostOnlyByLength
  <1>. QED  BY <1>1, Scanner, PTL
=============================================================================
