-------------------------- MODULE ReportingProofs --------------------------
(***************************************************************************)
(* Theorems of Reporting, for every set of beacons and every number of     *)
(* packets.                                                                *)
(***************************************************************************)
EXTENDS Reporting, TLAPS

(* udp_init keeps the types, whatever goes wrong in it.                    *)
LEMMA InitCallType ==
    ASSUME LinkTypeOK, UdpInit
    PROVE  LinkTypeOK'
  <1>. USE DEF LinkTypeOK
  <1>1. ASSUME NEW what \in SUBSET Troubles, NEW connected \in BOOLEAN,
               bev # "freed", Attempt(what, connected)
        PROVE  LinkTypeOK'
    BY <1>1 DEF Attempt, Dangling, NewOutput, RetryAfter
  <1>2. CASE bev = "freed"
    BY <1>2 DEF UdpInit
  <1>3. CASE bev # "freed"
    BY <1>1, <1>3 DEF UdpInit, Troubles
  <1>. QED  BY <1>2, <1>3

(* report_send keeps the types.                                            *)
LEMMA SendType ==
    ASSUME LinkTypeOK, NEW p \in Packets, ReportSend(p)
    PROVE  LinkTypeOK'
  BY DEF LinkTypeOK, ReportSend

(* libevent and udp_eventcb keep the types.                                *)
LEMMA EventType ==
    ASSUME LinkTypeOK, Write \/ WriteError \/ ReadError \/ ReadEof
    PROVE  LinkTypeOK'
  <1>. USE DEF LinkTypeOK
  <1>1. CASE Write
    <2>1. sent' \in Seq(Seq(Packets))
      BY <1>1 DEF Write
    <2>. QED  BY <1>1, <2>1 DEF Write, AfterWrite
  <1>2. CASE WriteError
    BY <1>2 DEF WriteError, LinkError
  <1>3. CASE ReadError
    BY <1>3 DEF ReadError, LinkError
  <1>4. CASE ReadEof
    BY <1>4 DEF ReadEof
  <1>. QED  BY <1>1, <1>2, <1>3, <1>4

(* What is built is a packet, and there is room to count it.               *)
LEMMA BuildType ==
    ASSUME TypeOK, NEW type \in {"keepalive", "data", "secure"},
           NEW about \in SUBSET IBeacons, Build(type, about)
    PROVE  LinkTypeOK' /\ built' \in 0 .. MaxPackets
  <1>1. built' \in 1 .. MaxPackets
    BY ReportingAssumption DEF Build, TypeOK
  <1>2. [no |-> built', type |-> type, about |-> about] \in Packets
    BY <1>1, ReportingAssumption
  <1>3. LinkTypeOK'
    BY <1>2, SendType DEF Build, TypeOK
  <1>. QED  BY <1>1, <1>3

(* Every variable keeps its type; what does not exist holds no packets and *)
(* reads nothing (udp_init, report_send, udp_eventcb).                     *)
THEOREM TypeCorrect == Spec => []TypeOK
  <1>1. Init => TypeOK
    <2>. SUFFICES ASSUME Init PROVE TypeOK
      OBVIOUS
    <2>1. <<>> \in Seq(Packets) /\ <<>> \in Seq(Seq(Packets))
      OBVIOUS
    <2>2. LinkTypeOK
      BY <2>1 DEF Init, LinkInit, LinkTypeOK
    <2>3. built \in 0 .. MaxPackets
      BY ReportingAssumption DEF Init
    <2>. QED  BY <2>2, <2>3 DEF Init, TypeOK
  <1>2. TypeOK /\ [Next]_vars => TypeOK'
    <2>. SUFFICES ASSUME TypeOK, [Next]_vars PROVE TypeOK'
      OBVIOUS
    <2>1. ASSUME LinkNext, UNCHANGED <<heard, built>>
          PROVE  TypeOK'
      BY <2>1, InitCallType, EventType
         DEF LinkNext, UdpStart, RetryFires, TypeOK
    <2>2. ASSUME NEW b \in IBeacons, HearIBeacon(b)
          PROVE  TypeOK'
      BY <2>2 DEF HearIBeacon, TypeOK, LinkTypeOK, linkVars
    <2>3. CASE HearSecure
      <3>1. Build("secure", {}) /\ UNCHANGED heard
        BY <2>3 DEF HearSecure
      <3>2. LinkTypeOK' /\ built' \in 0 .. MaxPackets
        BY <3>1, BuildType
      <3>. QED  BY <3>1, <3>2 DEF TypeOK
    <2>4. CASE ReportCb
      <3>1. Sections \in SUBSET IBeacons
        BY DEF Sections, TypeOK
      <3>2. Build("keepalive", Sections) \/ Build("data", Sections)
        BY <2>4 DEF ReportCb
      <3>3. LinkTypeOK' /\ built' \in 0 .. MaxPackets
        BY <3>1, <3>2, BuildType
      <3>4. heard' \subseteq IBeacons
        BY <2>4 DEF ReportCb, TypeOK
      <3>. QED  BY <3>3, <3>4 DEF TypeOK
    <2>5. CASE UNCHANGED vars
      BY <2>5 DEF vars, linkVars, TypeOK, LinkTypeOK
    <2>. QED  BY <2>1, <2>2, <2>3, <2>4, <2>5 DEF Next
  <1>. QED  BY <1>1, <1>2, PTL DEF Spec

-----------------------------------------------------------------------------
(* The retry timer                                                         *)

(* One call of udp_init leaves the timer as the property says.             *)
LEMMA InitCallRetry ==
    ASSUME LinkTypeOK, UdpInit
    PROVE  DownMeansRetry'
  <1>. USE DEF DownMeansRetry, Serving
  <1>1. ASSUME NEW what \in SUBSET Troubles, NEW connected \in BOOLEAN,
               connected \/ what # {}, connected => "unresolved" \notin what,
               Attempt(what, connected)
        PROVE  DownMeansRetry'
    <2>1. ~connected => RetryAfter(what) \/ what = {"nosocket"}
      BY <1>1 DEF RetryAfter, Troubles
    <2>. QED  BY <1>1, <2>1 DEF Attempt, Dangling
  <1>2. CASE bev = "freed"
    BY <1>2 DEF UdpInit
  <1>3. CASE bev # "freed"
    <2>1. PICK what \in SUBSET Troubles, connected \in BOOLEAN :
             /\ connected \/ what # {}
             /\ connected => "unresolved" \notin what
             /\ Attempt(what, connected)
      BY <1>3 DEF UdpInit, Troubles
    <2>. QED  BY <1>1, <2>1
  <1>. QED  BY <1>2, <1>3

(* Without a working link a retry is pending, unless the last udp_init got *)
(* no socket for any address (udp_retry_later, udp_eventcb).               *)
THEOREM RetryWhenDown == Spec => []DownMeansRetry
  <1>1. Init => DownMeansRetry
    BY DEF Init, LinkInit, DownMeansRetry, Serving
  <1>2. TypeOK /\ DownMeansRetry /\ [Next]_vars => DownMeansRetry'
    <2>. SUFFICES ASSUME TypeOK, DownMeansRetry, [Next]_vars PROVE DownMeansRetry'
      OBVIOUS
    <2>1. CASE UdpStart \/ RetryFires
      BY <2>1, InitCallRetry DEF UdpStart, RetryFires, TypeOK
    <2>. USE DEF DownMeansRetry, Serving
    <2>2. CASE Write
      BY <2>2 DEF Write
    <2>3. CASE WriteError \/ ReadError
      BY <2>3 DEF WriteError, ReadError, LinkError
    <2>4. CASE ReadEof
      BY <2>4 DEF ReadEof
    <2>5. ASSUME NEW b \in IBeacons, HearIBeacon(b)
          PROVE  DownMeansRetry'
      BY <2>5 DEF HearIBeacon, linkVars
    <2>6. CASE HearSecure \/ ReportCb
      BY <2>6 DEF HearSecure, ReportCb, Build, ReportSend
    <2>7. CASE UNCHANGED vars
      BY <2>7 DEF vars, linkVars
    <2>. QED
      BY <2>1, <2>2, <2>3, <2>4, <2>5, <2>6, <2>7 DEF Next, LinkNext
  <1>. QED  BY <1>1, <1>2, TypeCorrect, PTL DEF Spec

-----------------------------------------------------------------------------
(* The order of the packets                                                *)

UpTo(sends, n) ==
    \A c \in DOMAIN sends : \A i \in DOMAIN sends[c] : sends[c][i].no <= n

(* What was sent and what waits is in order, and nothing in it is later    *)
(* than the last packet that was built.                                    *)
OrderInv == PacketsInOrder /\ UpTo(Append(sent, out), built)

(* A sequence of datagrams with one more at its end.                       *)
LEMMA OneMore ==
    ASSUME NEW s \in Seq(Seq(Packets)), NEW o \in Seq(Packets)
    PROVE  /\ Append(s, o) \in Seq(Seq(Packets)) /\ Len(s) \in Nat
           /\ DOMAIN Append(s, o) = 1 .. Len(s) + 1 /\ DOMAIN s = 1 .. Len(s)
           /\ Append(s, o)[Len(s) + 1] = o
           /\ \A c \in 1 .. Len(s) : Append(s, o)[c] = s[c] /\ s[c] \in Seq(Packets)
  OBVIOUS

LEMMA PacketNumber == \A p \in Packets : p.no \in Nat
  BY ReportingAssumption

(* Dropping what waits, or sending it, leaves the order.                   *)
LEMMA OrderEmptied ==
    ASSUME NEW s \in Seq(Seq(Packets)), NEW o \in Seq(Packets), NEW n,
           InOrder(Append(s, o)), UpTo(Append(s, o), n),
           NEW t \in {s, Append(s, o)}
    PROVE  InOrder(Append(t, <<>>)) /\ UpTo(Append(t, <<>>), n)
  <1>. DEFINE was == Append(s, o)
              now == Append(t, <<>>)
  <1>1. t \in Seq(Seq(Packets)) /\ <<>> \in Seq(Packets)
    <2>1. was \in Seq(Seq(Packets))
      BY OneMore
    <2>. HIDE DEF was
    <2>2. t \in {s, was}
      BY DEF was
    <2>3. <<>> \in Seq(Packets)
      OBVIOUS
    <2>. QED  BY <2>1, <2>2, <2>3, Zenon
  <1>2. \A c \in DOMAIN now : \/ c \in DOMAIN was /\ now[c] = was[c]
                              \/ now[c] = <<>>
    <2>1. \A c \in DOMAIN now : (c \in DOMAIN t /\ now[c] = t[c]) \/ now[c] = <<>>
      BY <1>1, OneMore
    <2>2. \A c \in DOMAIN t : c \in DOMAIN was /\ t[c] = was[c]
      <3>1. \A c \in DOMAIN s : c \in DOMAIN was /\ s[c] = was[c]
        BY OneMore
      <3>. HIDE DEF was
      <3>2. CASE t = s
        BY <3>1, <3>2
      <3>3. CASE t = was
        BY <3>3
      <3>. QED  BY <3>2, <3>3 DEF was
    <2>. QED  BY <2>1, <2>2
  <1>3. \A c \in DOMAIN now : \A i \in DOMAIN now[c] : c \in DOMAIN was /\ now[c] = was[c]
    BY <1>2
  <1>. HIDE DEF was, now
  <1>4. InOrder(was) /\ UpTo(was, n) => InOrder(now) /\ UpTo(now, n)
    BY <1>3 DEF InOrder, UpTo
  <1>. QED  BY <1>4 DEF was, now

(* A packet that is built comes last.                                      *)
LEMMA OrderAppended ==
    ASSUME NEW s \in Seq(Seq(Packets)), NEW o \in Seq(Packets), NEW n \in Nat,
           InOrder(Append(s, o)), UpTo(Append(s, o), n),
           NEW p \in Packets, p.no = n + 1
    PROVE  InOrder(Append(s, Append(o, p))) /\ UpTo(Append(s, Append(o, p)), n + 1)
  <1>. DEFINE was == Append(s, o)
              now == Append(s, Append(o, p))
              last == Len(s) + 1
  <1>1. /\ Len(s) \in Nat /\ DOMAIN was = 1 .. last /\ DOMAIN now = 1 .. last
        /\ was[last] = o /\ now[last] = Append(o, p)
        /\ \A c \in 1 .. Len(s) : now[c] = was[c] /\ was[c] \in Seq(Packets)
    BY OneMore
  <1>2. /\ Len(o) \in Nat /\ DOMAIN o = 1 .. Len(o) /\ DOMAIN Append(o, p) = 1 .. Len(o) + 1
        /\ Append(o, p)[Len(o) + 1] = p
        /\ \A i \in 1 .. Len(o) : Append(o, p)[i] = o[i]
    OBVIOUS
  <1>3. ASSUME NEW c \in 1 .. last, NEW i \in DOMAIN was[c]
        PROVE  was[c][i].no \in Nat /\ was[c][i].no <= n
    <2>1. was[c] \in Seq(Packets)
      BY <1>1
    <2>2. was[c][i] \in Packets
      BY <2>1
    <2>. QED  BY <1>1, <2>2, PacketNumber DEF UpTo
  <1>. HIDE DEF was, now
  <1>4. ASSUME NEW c \in 1 .. last, NEW i \in DOMAIN now[c]
        PROVE  \/ i \in DOMAIN was[c] /\ now[c][i] = was[c][i]
               \/ c = last /\ i = Len(o) + 1 /\ now[c][i] = p
    <2>1. CASE c # last
      <3>1. c \in 1 .. Len(s)
        BY <1>1, <2>1
      <3>. QED  BY <1>1, <1>4, <3>1
    <2>2. CASE c = last
      <3>1. now[c] = Append(o, p) /\ was[c] = o
        BY <1>1, <2>2
      <3>2. i \in 1 .. Len(o) \/ i = Len(o) + 1
        BY <1>2, <3>1
      <3>. QED  BY <1>2, <2>2, <3>1, <3>2
    <2>. QED  BY <2>1, <2>2
  <1>5. ASSUME NEW c \in 1 .. last, NEW d \in 1 .. last,
               NEW i \in DOMAIN now[c], NEW j \in DOMAIN now[d],
               c < d \/ (c = d /\ i < j)
        PROVE  now[c][i].no < now[d][j].no
    <2>1. CASE i \in DOMAIN was[c] /\ now[c][i] = was[c][i]
      <3>1. CASE j \in DOMAIN was[d] /\ now[d][j] = was[d][j]
        BY <1>1, <1>5, <2>1, <3>1 DEF InOrder, was
      <3>2. CASE now[d][j] = p
        BY <1>3, <2>1, <3>2
      <3>. QED  BY <1>4, <3>1, <3>2
    <2>2. CASE c = last /\ i = Len(o) + 1
      <3>1. d = last /\ j \in 1 .. Len(o) + 1
        BY <1>1, <1>2, <1>5, <2>2
      <3>. QED  BY <1>2, <1>5, <2>2, <3>1
    <2>. QED  BY <1>4, <2>1, <2>2
  <1>6. ASSUME NEW c \in 1 .. last, NEW i \in DOMAIN now[c]
        PROVE  now[c][i].no <= n + 1
    <2>1. CASE i \in DOMAIN was[c] /\ now[c][i] = was[c][i]
      BY <1>3, <2>1
    <2>2. n + 1 <= n + 1
      OBVIOUS
    <2>. QED  BY <1>4, <2>1, <2>2
  <1>7. InOrder(now) /\ UpTo(now, n + 1)
    BY <1>1, <1>5, <1>6 DEF InOrder, UpTo
  <1>. QED  BY <1>7 DEF now

LEMMA OrderStep == TypeOK /\ OrderInv /\ [Next]_vars => OrderInv'
  <1>. SUFFICES ASSUME TypeOK, OrderInv, [Next]_vars PROVE OrderInv'
    OBVIOUS
  <1>1. /\ sent \in Seq(Seq(Packets)) /\ out \in Seq(Packets) /\ built \in Nat
        /\ InOrder(Append(sent, out)) /\ UpTo(Append(sent, out), built)
    BY ReportingAssumption DEF TypeOK, LinkTypeOK, OrderInv, PacketsInOrder
  <1>. USE DEF OrderInv, PacketsInOrder
  <1>2. CASE UNCHANGED <<sent, out, built>>
    BY <1>2
  <1>3. CASE UNCHANGED built /\ sent' \in {sent, Append(sent, out)} /\ out' = <<>>
    BY <1>1, <1>3, OrderEmptied
  <1>4. ASSUME NEW type, NEW about, Build(type, about),
               [no |-> built', type |-> type, about |-> about] \in Packets
        PROVE  OrderInv'
    <2>. DEFINE p == [no |-> built', type |-> type, about |-> about]
    <2>1. /\ built' = built + 1 /\ sent' = sent
          /\ out' = out \/ out' = Append(out, p)
          /\ p.no = built + 1 /\ p \in Packets
      BY <1>4 DEF Build, ReportSend
    <2>. HIDE DEF p
    <2>2. InOrder(Append(sent, Append(out, p)))
          /\ UpTo(Append(sent, Append(out, p)), built + 1)
      BY <1>1, <2>1, OrderAppended
    <2>3. UpTo(Append(sent, out), built + 1)
      <3>1. ASSUME NEW c \in DOMAIN Append(sent, out),
                   NEW i \in DOMAIN Append(sent, out)[c]
            PROVE  Append(sent, out)[c][i].no <= built + 1
        <4>1. Append(sent, out)[c] \in Seq(Packets)
          BY <1>1, OneMore
        <4>2. Append(sent, out)[c][i] \in Packets
          BY <4>1
        <4>3. Append(sent, out)[c][i].no \in Nat /\ Append(sent, out)[c][i].no <= built
          BY <1>1, <4>2, PacketNumber DEF UpTo
        <4>. QED  BY <1>1, <4>3
      <3>. QED  BY <3>1 DEF UpTo
    <2>. QED  BY <1>1, <2>1, <2>2, <2>3
  <1>5. ASSUME LinkNext, UNCHANGED built PROVE OrderInv'
    <2>1. CASE UdpStart \/ RetryFires
      BY <1>2, <1>3, <1>5, <2>1 DEF UdpStart, RetryFires, UdpInit, Attempt, NewOutput
    <2>2. CASE Write
      BY <1>3, <1>5, <2>2 DEF Write, AfterWrite
    <2>3. CASE WriteError \/ ReadError \/ ReadEof
      BY <1>2, <1>5, <2>3 DEF WriteError, ReadError, ReadEof
    <2>. QED  BY <1>5, <2>1, <2>2, <2>3 DEF LinkNext
  <1>6. ASSUME NEW b \in IBeacons, HearIBeacon(b) PROVE OrderInv'
    BY <1>2, <1>6 DEF HearIBeacon, linkVars
  <1>7. CASE HearSecure \/ ReportCb
    <2>1. PICK type \in {"keepalive", "data", "secure"}, about \in SUBSET IBeacons :
             Build(type, about)
      BY <1>7 DEF HearSecure, ReportCb, Sections, TypeOK
    <2>2. built' \in 1 .. MaxPackets
      BY <2>1, ReportingAssumption DEF Build, TypeOK
    <2>. QED  BY <1>4, <2>1, <2>2, ReportingAssumption
  <1>8. CASE UNCHANGED vars
    BY <1>2, <1>8 DEF vars, linkVars
  <1>. QED  BY <1>5, <1>6, <1>7, <1>8 DEF Next

(* Packets leave in the order they were built and none leaves twice,       *)
(* whatever errors and new connections come in between (report_send,       *)
(* udp_init).                                                              *)
THEOREM OrderKept == Spec => []PacketsInOrder
  <1>1. Init => OrderInv
    <2>. SUFFICES ASSUME Init PROVE OrderInv
      OBVIOUS
    <2>1. /\ DOMAIN Append(sent, out) = {1} /\ Append(sent, out)[1] = <<>>
      BY DEF Init, LinkInit
    <2>. QED  BY <2>1 DEF OrderInv, PacketsInOrder, InOrder, UpTo
  <1>2. OrderInv => PacketsInOrder
    BY DEF OrderInv
  <1>. QED  BY <1>1, <1>2, OrderStep, TypeCorrect, PTL DEF Spec
=============================================================================
