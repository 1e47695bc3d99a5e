---------------------------- MODULE BleScanner -----------------------------
(***************************************************************************)
(* The scanner (ble.c): HCI events arrive in the input buffer of a         *)
(* bufferevent, in pieces that need not be whole events; ble_readcb cuts   *)
(* them apart by the lengths in their headers, takes the interleaved       *)
(* reports out of each, and counts what beacons say.                       *)
(*                                                                         *)
(* A byte is a number; what an event's bytes mean is in WellFormed.  When  *)
(* an event was taken before its last byte was there, that byte is taken   *)
(* for the start of a header: nothing is modelled after that ("lost").     *)
(***************************************************************************)
EXTENDS Integers, SequencesExt, TLC

CONSTANTS
    Streams,        \* what the adapter may send: events, and where each starts
    Correction,     \* antenna_correction
    CountMod,       \* 2^16: a beacon's count is 16 bits wide
    Cuts,           \* bound: a read ends this far from an end of an event
    MaxFailures     \* bound: how many reports there is no memory for

VARIABLES
    stream,     \* what is sent: a member of the domain of Streams
    at,         \* the event at the head of the input buffer
    read,       \* how many bytes of the stream were read into the buffer
    low,        \* its low watermark
    pc,         \* "idle", "scan" or "reports" (the loops of ble_readcb), "lost"
    idx,        \* in the inner loop: its i
    beacons,    \* the count and power of each beacon in the table
    oom,        \* history: the last callback ended for want of memory
    heard,      \* history: the reports that were counted
    dropped     \* history: event and number of those there was no memory for

bufVars == <<stream, at, read, low>>
tableVars == <<beacons, heard>>
vars == <<bufVars, pc, idx, tableVars, oom, dropped>>

-----------------------------------------------------------------------------
(* What the adapter sends: reports, several in an event                    *)

Bytes   == 0 .. 255
Reports == [addr : [1 .. 6 -> Bytes], addr_type : Bytes,
            data : Seq(Bytes), rssi : -128 .. 127]

HdrLen == 5     \* ble_report_hdr_t
Lead   == 3     \* its bytes that param_len does not count

Size(e) == Lead + e.param_len

(* Reports are numbered from 0.                                            *)
Numbers(e) == 0 .. Len(e.reports) - 1

(* Where the data of report i begins among the parameters of its event,    *)
(* which e.places says of it among the data; where its signal strength is. *)
DataAt(e, i)     == 2 + 9 * Len(e.reports) + e.places[i + 1]
StrengthAt(e, i) == e.param_len - Len(e.reports) + i

(* The parameters of an event, its body: after a sub-event code and the    *)
(* number of reports, the fields of all reports one after the other, each  *)
(* for every report.                                                       *)
WellFormed(e) ==
    LET n            == Len(e.reports)
        has(k, byte) == e.body[k + 1] = byte
    IN  /\ e.reports \in Seq(Reports)
        /\ e.param_len \in 2 .. 255 /\ e.body \in [1 .. e.param_len -> Bytes]
        /\ e.places \in [1 .. n + 1 -> Nat] /\ e.places[1] = 0
        /\ e.param_len = 2 + 10 * n + e.places[n + 1]
        /\ has(0, 2) /\ has(1, n)
        /\ \A i \in Numbers(e) :
              LET r == e.reports[i + 1] IN
              /\ has(2 + i, 0)
              /\ has(2 + n + i, r.addr_type)
              /\ \A j \in 1 .. 6 : has(2 + 2 * n + 6 * i + j - 1, r.addr[j])
              /\ has(2 + 8 * n + i, Len(r.data))
              /\ \A j \in 1 .. Len(r.data) : has(DataAt(e, i) + j - 1, r.data[j])
              /\ has(StrengthAt(e, i), r.rssi % 256)
              /\ e.places[i + 2] = e.places[i + 1] + Len(r.data)

(* A stream begins with its first event, and no byte lies between two.     *)
ASSUME ScannerAssumption ==
    /\ MaxFailures \in Nat /\ CountMod \in Nat \ {0} /\ Correction \in Int
    /\ Cuts \subseteq Nat
    /\ \A n \in DOMAIN Streams :
          /\ Len(Streams[n].events) \in Nat
          /\ Streams[n].starts \in [1 .. Len(Streams[n].events) + 1 -> Nat]
          /\ Streams[n].starts[1] = 0
          /\ \A k \in 1 .. Len(Streams[n].events) :
                LET e == Streams[n].events[k] IN
                /\ WellFormed(e)
                /\ Streams[n].starts[k + 1] = Streams[n].starts[k] + Size(e)

Sent(k)  == Streams[stream].events[k]
Start(k) == Streams[stream].starts[k]
Number   == Len(Streams[stream].events)

(* Where a read may end.                                                   *)
EndsIn(k) == {c \in Cuts \cup {Size(Sent(k)) - c : c \in Cuts} : c \in 1 .. Size(Sent(k))}
ReadEnds  == (UNION {{Start(k) + c : c \in EndsIn(k)} : k \in at .. Number})
                 \cap (read + 1 .. Start(Number + 1))

MaxLength == Max({Len(Streams[n].events) : n \in DOMAIN Streams})

(* How many bytes are in the input buffer, and how many the event that was *)
(* taken last was short of.                                                *)
have    == IF read < Start(at) THEN 0 ELSE read - Start(at)
missing == IF read < Start(at) THEN Start(at) - read ELSE 0

Init ==
    /\ stream \in DOMAIN Streams
    /\ at = 1 /\ read = 0 /\ low = HdrLen
    /\ pc = "idle" /\ idx = 0
    /\ beacons = <<>> /\ heard = <<>>
    /\ oom = FALSE /\ dropped = {}

-----------------------------------------------------------------------------
(* Taking an event apart                                                   *)

Int8(byte) == ((byte + 128) % 256) - 128

(* The body of an event of which got bytes were in the input buffer, from  *)
(* where they are copied into param_len bytes that were zero.              *)
Received(e, got) ==
    [k \in 0 .. e.param_len - 1 |-> IF k < got - Lead THEN e.body[k + 1] ELSE 0]

SubBuf(buf, from, n) == [i \in 1 .. n |-> buf[from + i - 1]]

(* The sum of the first i lengths, in 8 bits.                              *)
Offset(buf, lens, i) ==
    LET sum[j \in 0 .. i] == IF j = 0 THEN 0 ELSE (sum[j - 1] + buf[lens + j - 1]) % 256
    IN  sum[i]

(* Mutant of GetReport: addresses are one byte apart.                      *)
BugGetReport(buf, e, i) ==
    LET n      == Len(e.reports)
        lens   == 2 + 8 * n
    IN  [addr_type |-> buf[2 + n + i], addr |-> SubBuf(buf, 2 + 2 * n + i, 6),
         data_len |-> buf[lens + i], data |-> lens + Offset(buf, lens, i) + n,
         rssi |-> Int8(buf[e.param_len - n + i])]

(* ble_get_report: data is a place in the buffer.                          *)
GetReport(buf, e, i) ==
    LET n         == Len(e.reports)
        addr_type == 2 + i + n
        addr      == addr_type + n - i + i * 6
        lens      == addr + (n - i) * 6
    IN  [addr_type |-> buf[addr_type], addr |-> SubBuf(buf, addr, 6),
         data_len |-> buf[lens + i], data |-> lens + Offset(buf, lens, i) + n,
         rssi |-> Int8(buf[e.param_len - n + i])]

(* Mutant of LooksLikeBeacon: of a secure beacon only.                     *)
BugLooksLikeBeacon(rpt) == rpt.addr_type = 1 /\ rpt.data_len = 30

(* Skip if this doesn't look like a report from a beacon.                  *)
LooksLikeBeacon(rpt) == rpt.addr_type = 1 /\ rpt.data_len \in 29 .. 30

(* What ble_readcb reads from it: the index of the power is one past the   *)
(* data, whose length is one of the two.                                   *)
Advert(buf, rpt) ==
    [id   |-> IF rpt.data_len = 30
                THEN [type |-> "secure", id |-> rpt.addr]
                ELSE [type |-> "ibeacon", id |-> SubBuf(buf, rpt.data + 9, 20)],
     tx   |-> Int8(buf[rpt.data + rpt.data_len]),
     rssi |-> Int8(rpt.rssi + Correction)]

Quotient(a, b) == IF a >= 0 THEN a \div b ELSE -((-a) \div b)

NewBeacon == [count |-> 0, tx_power |-> 0]
Node(table, id) == IF id \in DOMAIN table THEN table[id] ELSE NewBeacon

With(table, id, b) == [i \in DOMAIN table \cup {id} |-> IF i = id THEN b ELSE table[i]]

(* Mutant of Counted: the count is counted up first.                       *)
BugCounted(table, a) ==
    LET b == Node(table, a.id)
        n == (b.count + 1) % CountMod
    IN  With(table, a.id,
             [count |-> n, tx_power |-> Quotient(n * b.tx_power + a.tx, n + 1)])

(* find_or_add, and the running mean of the power.                         *)
Counted(table, a) ==
    LET b == Node(table, a.id)
    IN  With(table, a.id,
             [count    |-> (b.count + 1) % CountMod,
              tx_power |-> Quotient(b.count * b.tx_power + a.tx, b.count + 1)])

-----------------------------------------------------------------------------
(* ble_readcb                                                              *)

Event == Sent(at)

(* libevent reads, and calls ble_readcb if the watermark is reached.       *)
Read ==
    /\ pc = "idle"
    /\ read' \in ReadEnds
    /\ pc' = IF read' - Start(at) >= low THEN "scan" ELSE "idle"
    /\ oom' = FALSE
    /\ UNCHANGED <<stream, at, low, idx, tableVars, dropped>>

Scans == pc = "scan" /\ have >= HdrLen

(* Mutant of Awaited: one more than the event has bytes.                   *)
BugAwaited(e) == e.param_len + 4

(* What the watermark is raised to, one less than the event has bytes, and *)
(* what have is compared with, which is that in 8 bits.                    *)
Awaited(e) == e.param_len + 2

(* Mutant of Incomplete: a body without its header.                        *)
BugIncomplete == have < Event.param_len % 256

Incomplete == have < Awaited(Event) % 256

(* The outer loop ends.                                                    *)
Idle ==
    /\ pc = "scan" /\ have < HdrLen
    /\ pc' = "idle"
    /\ UNCHANGED <<bufVars, idx, tableVars, oom, dropped>>

Wait ==
    /\ Scans /\ Incomplete
    /\ low' = Awaited(Event)
    /\ pc' = "idle"
    /\ UNCHANGED <<stream, at, read, idx, tableVars, oom, dropped>>

(* Mutants of LowAfter: no watermark at all; that of the event before.     *)
BugLowAfter == 0
BugLowKept  == low

LowAfter == HdrLen

(* The header and the body are drained, or what there is of them.          *)
Drain ==
    /\ at' = at + 1
    /\ low' = LowAfter
    /\ UNCHANGED <<stream, read>>

TakeEvent ==
    /\ Scans /\ ~Incomplete
    /\ Drain
    /\ pc' = "reports" /\ idx' = 0
    /\ UNCHANGED <<tableVars, oom, dropped>>

(* No memory for the body: the callback returns, whatever else is there.   *)
OutOfMemory ==
    /\ Scans /\ ~Incomplete
    /\ Cardinality(dropped) < MaxFailures
    /\ Drain
    /\ pc' = IF have < Size(Event) THEN "lost" ELSE "idle"
    /\ oom' = TRUE
    /\ dropped' = dropped \cup ({at} \X Numbers(Event))
    /\ UNCHANGED <<idx, tableVars>>

-----------------------------------------------------------------------------
(* The inner loop, over the reports of the event taken last                *)

Taken     == Sent(at - 1)
body_buf  == Received(Taken, Size(Taken) - missing)
InReports == pc = "reports" /\ idx < Len(Taken.reports)

ReportDropped ==
    /\ InReports
    /\ Cardinality(dropped) < MaxFailures
    /\ dropped' = dropped \cup {<<at - 1, idx>>}
    /\ idx' = idx + 1
    /\ UNCHANGED <<bufVars, pc, tableVars, oom>>

(* What ble_get_report returns for the report the loop is at.              *)
Rpts == {GetReport(body_buf, Taken, idx)}

ReportSkipped ==
    /\ InReports
    /\ \E rpt \in Rpts : ~LooksLikeBeacon(rpt)
    /\ idx' = idx + 1
    /\ UNCHANGED <<bufVars, pc, tableVars, oom, dropped>>

ReportCounted ==
    /\ InReports
    /\ \E rpt \in Rpts : LooksLikeBeacon(rpt) /\
          \E said \in {Advert(body_buf, rpt)} :
             /\ beacons' = Counted(beacons, said)
             /\ heard' = Append(heard, [event |-> at - 1, idx |-> idx, said |-> said])
    /\ idx' = idx + 1
    /\ UNCHANGED <<bufVars, pc, oom, dropped>>

(* An event that was short leaves its end where a header is expected.      *)
ReportsEnd ==
    /\ pc = "reports" /\ idx = Len(Taken.reports)
    /\ pc' = IF missing > 0 THEN "lost" ELSE "scan"
    /\ UNCHANGED <<bufVars, idx, tableVars, oom, dropped>>

Callback ==
    \/ Idle \/ Wait \/ TakeEvent \/ OutOfMemory
    \/ ReportDropped \/ ReportSkipped \/ ReportCounted \/ ReportsEnd

Next == Read \/ Callback

Spec == Init /\ [][Next]_vars

(* The child's event loop runs the callback it owes to its end.            *)
FairSpec == Spec /\ WF_vars(Callback)

-----------------------------------------------------------------------------
(* Properties                                                              *)

(* The variables that control the loops hold values of their types: no     *)
(* event is taken that was not sent, and the inner loop stays in its event *)
(* (ble_readcb).                                                           *)
TypeOK ==
    /\ stream \in DOMAIN Streams
    /\ at \in 1 .. Number + 1
    /\ read \in 0 .. Start(Number + 1)
    /\ low = HdrLen \/ low \in 6 .. 257
    /\ pc \in {"idle", "scan", "reports", "lost"}
    /\ idx \in Nat /\ (pc = "reports" => at > 1 /\ idx <= Len(Taken.reports))
    /\ oom \in BOOLEAN /\ dropped \subseteq Nat \X Nat

(* Between callbacks the scanner waits for bytes that are not there yet,   *)
(* and for no more than the event at the head has: it does not sleep       *)
(* through an event.  Only a callback that ran out of memory leaves data   *)
(* behind (ble_readcb).                                                    *)
WakesInTime ==
    pc = "idle" => /\ ~oom => have < low
                   /\ at <= Number => low <= Size(Event)

(* Framing is lost only at an event that was taken one byte short, or one  *)
(* of 254 or 255 parameters, whose length wraps (ble_readcb).              *)
LostOnlyByLength ==
    missing > 0 => missing = 1 \/ Taken.param_len \in 254 .. 255

Got(k)   == Size(Sent(k)) - (IF k = at - 1 THEN missing ELSE 0)
Whole(k) == k < at /\ (k = at - 1 => missing = 0)
Report(a) == Sent(a.event).reports[a.idx + 1]

(* What there is to hear of report i of an event of which got bytes have   *)
(* come: an iBeacon is known by bytes 10 to 29 of its data, and a byte     *)
(* that has not come is zero.                                              *)
Said(e, i, got) ==
    LET r == e.reports[i + 1]
        came(place, value) == IF place < got - Lead THEN value ELSE 0
    IN  [id   |-> IF Len(r.data) = 30
                    THEN [type |-> "secure", id |-> r.addr]
                    ELSE [type |-> "ibeacon",
                          id   |-> [j \in 1 .. 20 |->
                                      came(DataAt(e, i) + j + 8, r.data[j + 9])]],
         rssi |-> Int8(came(StrengthAt(e, i), r.rssi) + Correction)]

(* What is counted was said by a beacon, in the report it is counted for:  *)
(* its identity, byte for byte, and its signal strength, corrected in 8    *)
(* bits.  Of an event that was taken before it was there, this holds with  *)
(* a zero for each byte that had not come (ble_get_report, ble_readcb).    *)
HeardWasSaid ==
    \A a \in ToSet(heard) :
        LET said == Said(Sent(a.event), a.idx, Got(a.event)) IN
        /\ Report(a).addr_type = 1
        /\ a.said.id = said.id /\ a.said.rssi = said.rssi

(* Every report of a beacon in a whole event is counted once, in order, or *)
(* was dropped for want of memory (ble_readcb).                            *)
EachCountedOnce ==
    /\ \A i, j \in DOMAIN heard : i < j =>
          \/ heard[i].event < heard[j].event
          \/ heard[i].event = heard[j].event /\ heard[i].idx < heard[j].idx
    /\ \A k \in 1 .. at - 1 : \A i \in Numbers(Sent(k)) :
          LET r == Sent(k).reports[i + 1] IN
          /\ Whole(k) /\ (k = at - 1 /\ pc = "reports" => i < idx)
          /\ r.addr_type = 1 /\ Len(r.data) \in 29 .. 30
          => \/ <<k, i>> \in dropped
             \/ \E a \in ToSet(heard) : a.event = k /\ a.idx = i

(* The power of a beacon is a mean of the bytes that were read as power    *)
(* for it: it lies between two of them, also when the count of the beacon  *)
(* has wrapped to zero.  Those bytes are not what it sent as its power:    *)
(* that is the last byte of its data (report.c:80), and what is read is    *)
(* the byte after it (ble_readcb).                                         *)
PowerIsAMean ==
    \A id \in DOMAIN beacons : \E a, b \in {h.said : h \in ToSet(heard)} :
        /\ a.id = id /\ b.id = id
        /\ a.tx <= beacons[id].tx_power /\ beacons[id].tx_power <= b.tx

(* An event that has arrived is taken, unless a callback ran out of memory *)
(* before it and nothing arrives any more.                                 *)
ArrivedIsTaken ==
    \A k \in 1 .. MaxLength :
        (at = k /\ have >= Size(Event)) ~> (at > k \/ (pc = "idle" /\ oom))
=============================================================================
