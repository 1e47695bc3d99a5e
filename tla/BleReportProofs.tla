---------------------------- MODULE BleReportProofs ----------------------------
(***************************************************************************)
(* Theorems about what BleScanner counts: ble_get_report finds the fields  *)
(* of every report, every report is counted once, and the power of a       *)
(* beacon is a mean, for every well-formed stream of events.               *)
(***************************************************************************)
EXTENDS BleScannerProofs, WellFoundedInduction

-----------------------------------------------------------------------------
(* Numbers                                                                 *)

LEMMA LeastNat ==
    ASSUME NEW T \in SUBSET Nat, T # {}
    PROVE  \E x \in T : \A y \in T : x <= y
  <1>1. \E x \in T : \A y \in T : <<y, x>> \notin OpToRel(<, Nat)
    BY WFMin, NatLessThanWellFounded, Zenon
  <1>2. \A x, y \in Nat : <<y, x>> \notin OpToRel(<, Nat) => x <= y
    BY DEF OpToRel
  <1>. QED  BY <1>1, <1>2

(* Induction for a set instead of a predicate.                             *)
LEMMA SetInduction ==
    ASSUME NEW S, 0 \in S, \A n \in Nat : n \in S => n + 1 \in S
    PROVE  Nat \subseteq S
  <1>. SUFFICES ASSUME Nat \ S # {} PROVE FALSE
    OBVIOUS
  <1>1. PICK x \in Nat \ S : \A y \in Nat \ S : x <= y
    BY LeastNat
  <1>2. x - 1 \in Nat /\ x - 1 \notin Nat \ S
    BY <1>1
  <1>. QED  BY <1>2, <1>1

(* Where data begins never decreases along the reports.                    *)
LEMMA GrowsUpwards ==
    ASSUME NEW m \in Nat, NEW p \in [1 .. m -> Nat],
           \A i \in 1 .. m : i + 1 \in 1 .. m => p[i] <= p[i + 1]
    PROVE  \A i, j \in 1 .. m : i <= j => p[i] <= p[j]
  <1>. DEFINE S == {d \in Nat : \A i \in 1 .. m : i + d \in 1 .. m => p[i] <= p[i + d]}
  <1>1. 0 \in S
    OBVIOUS
  <1>2. ASSUME NEW d \in Nat, d \in S PROVE d + 1 \in S
    <2>. SUFFICES ASSUME NEW i \in 1 .. m, i + (d + 1) \in 1 .. m
                  PROVE  p[i] <= p[i + (d + 1)]
      OBVIOUS
    <2>1. i + d \in 1 .. m /\ (i + d) + 1 \in 1 .. m /\ (i + d) + 1 = i + (d + 1)
      OBVIOUS
    <2>2. p[i] <= p[i + d]
      BY <1>2, <2>1
    <2>3. p[i + d] <= p[i + (d + 1)]
      BY <2>1
    <2>4. p[i] \in Nat /\ p[i + d] \in Nat /\ p[i + (d + 1)] \in Nat
      BY <2>1
    <2>. QED  BY <2>2, <2>3, <2>4
  <1>3. Nat \subseteq S
    <2>. HIDE DEF S
    <2>. QED  BY <1>1, <1>2, SetInduction
  <1>. QED
    <2>. SUFFICES ASSUME NEW i \in 1 .. m, NEW j \in 1 .. m, i <= j
                  PROVE  p[i] <= p[j]
      OBVIOUS
    <2>1. j - i \in Nat /\ i + (j - i) = j
      OBVIOUS
    <2>2. j - i \in S
      BY <1>3, <2>1
    <2>. QED  BY <2>1, <2>2

LEMMA SameFunction ==
    ASSUME NEW D, NEW f, NEW g, f = [j \in D |-> f[j]], g = [j \in D |-> g[j]],
           \A j \in D : f[j] = g[j]
    PROVE  f = g
  BY Zenon

(* The 8-bit sums of Offset are the sums themselves where these fit.       *)
SumsOf(p, buf, lens, i) ==
    /\ p[1] = 0
    /\ \A j \in 1 .. i + 1 : p[j] \in 0 .. 255
    /\ \A j \in 0 .. i - 1 : p[j + 2] = p[j + 1] + buf[lens + j]

LEMMA OffsetIs ==
    ASSUME NEW buf, NEW lens \in Nat, NEW i \in Nat, NEW p, SumsOf(p, buf, lens, i)
    PROVE  Offset(buf, lens, i) = p[i + 1]
  <1>. USE DEF SumsOf
  <1>. DEFINE Sums(f) == [j \in 0 .. i |->
                            IF j = 0 THEN 0 ELSE (f[j - 1] + buf[lens + j - 1]) % 256]
              w == [j \in 0 .. i |-> p[j + 1]]
              c == CHOOSE f : f = Sums(f)
  <1>1. w = Sums(w)
    <2>1. ASSUME NEW j \in 0 .. i, j # 0
          PROVE  w[j] = (w[j - 1] + buf[lens + j - 1]) % 256
      <3>1. j - 1 \in 0 .. i - 1 /\ j - 1 \in 0 .. i /\ (j - 1) + 2 = j + 1 /\ (j - 1) + 1 = j
            /\ lens + (j - 1) = lens + j - 1
        BY <2>1
      <3>2. p[j + 1] = p[j] + buf[lens + j - 1]
        BY <3>1
      <3>3. w[j - 1] = p[j] /\ w[j] = p[j + 1]
        BY <3>1
      <3>4. p[j + 1] \in 0 .. 255
        BY <3>1
      <3>5. p[j + 1] % 256 = p[j + 1]
        BY <3>4
      <3>. QED  BY <3>2, <3>3, <3>5
    <2>2. w[0] = 0
      <3>1. 0 \in 0 .. i
        OBVIOUS
      <3>. QED  BY <3>1
    <2>3. \A j \in 0 .. i :
             w[j] = IF j = 0 THEN 0 ELSE (w[j - 1] + buf[lens + j - 1]) % 256
      <3>. HIDE DEF w
      <3>. QED  BY <2>1, <2>2, Zenon
    <2>4. w = [j \in 0 .. i |-> w[j]]
      OBVIOUS
    <2>. QED
      <3>. DEFINE v == Sums(w)
      <3>. HIDE DEF w
      <3>1. v = [j \in 0 .. i |-> v[j]]
        OBVIOUS
      <3>2. \A j \in 0 .. i :
               v[j] = IF j = 0 THEN 0 ELSE (w[j - 1] + buf[lens + j - 1]) % 256
        BY Zenon
      <3>. HIDE DEF v
      <3>. DEFINE E(j) == IF j = 0 THEN 0 ELSE (w[j - 1] + buf[lens + j - 1]) % 256
      <3>3. \A j \in 0 .. i : v[j] = w[j]
        <4>1. \A j \in 0 .. i : v[j] = E(j) /\ w[j] = E(j)
          BY <2>3, <3>2
        <4>. HIDE DEF E
        <4>. QED  BY <4>1, Zenon
      <3>4. v = w
        BY <2>4, <3>1, <3>3, SameFunction, Zenon
      <3>. QED  BY <3>4 DEF v
  <1>2. c = Sums(c)
    <2>. HIDE DEF w
    <2>. QED  BY <1>1, Zenon
  <1>3. Offset(buf, lens, i) = c[i]
    BY Zenon DEF Offset
  <1>. DEFINE S == {j \in Nat : j <= i => c[j] = p[j + 1]}
  <1>. HIDE DEF c, w
  <1>4. \A j \in 0 .. i :
           c[j] = IF j = 0 THEN 0 ELSE (c[j - 1] + buf[lens + j - 1]) % 256
    BY <1>2
  <1>5. 0 \in S
    BY <1>4
  <1>6. ASSUME NEW j \in Nat, j \in S PROVE j + 1 \in S
    <2>. SUFFICES ASSUME j + 1 <= i PROVE c[j + 1] = p[(j + 1) + 1]
      OBVIOUS
    <2>1. j \in 0 .. i - 1 /\ j + 1 \in 0 .. i /\ j + 1 # 0 /\ (j + 1) - 1 = j
          /\ lens + (j + 1) - 1 = lens + j /\ (j + 1) + 1 = j + 2 /\ j + 2 \in 1 .. i + 1
      OBVIOUS
    <2>2. c[j + 1] = (c[(j + 1) - 1] + buf[lens + (j + 1) - 1]) % 256
      BY <1>4, <2>1
    <2>3. c[j] = p[j + 1]
      BY <1>6, <2>1
    <2>4. p[j + 2] = p[j + 1] + buf[lens + j]
      BY <2>1
    <2>5. c[j + 1] = p[j + 2] % 256
      BY <2>1, <2>2, <2>3, <2>4
    <2>6. p[j + 2] \in 0 .. 255
      BY <2>1
    <2>. QED  BY <2>1, <2>5, <2>6
  <1>7. i \in S
    <2>. HIDE DEF S
    <2>. QED  BY <1>5, <1>6, SetInduction
  <1>. QED  BY <1>3, <1>7

-----------------------------------------------------------------------------
(* Events and the bytes of them that have come                             *)

(* The data of all reports lies in the body, before the signal strengths.  *)
LEMMA EventFacts ==
    ASSUME NEW e, WellFormed(e)
    PROVE  /\ Len(e.reports) \in Nat /\ e.param_len \in 2 .. 255
           /\ e.places \in [1 .. Len(e.reports) + 1 -> Nat] /\ e.places[1] = 0
           /\ e.param_len = 2 + 10 * Len(e.reports) + e.places[Len(e.reports) + 1]
           /\ \A j \in 1 .. Len(e.reports) + 1 : e.places[j] <= e.places[Len(e.reports) + 1]
           /\ \A i \in Numbers(e) :
                 /\ i + 1 \in 1 .. Len(e.reports)
                 /\ e.reports[i + 1] \in Reports
                 /\ e.places[i + 2] = e.places[i + 1] + Len(e.reports[i + 1].data)
  <1>. DEFINE n == Len(e.reports)
              m == e.param_len
              p == e.places
              reports == e.reports
  <1>1. reports \in Seq(Reports)
    BY DEF WellFormed
  <1>2. n \in Nat /\ reports \in [1 .. n -> Reports]
    BY <1>1
  <1>3. m \in 2 .. 255
    BY DEF WellFormed
  <1>4. p \in [1 .. n + 1 -> Nat] /\ p[1] = 0
    BY DEF WellFormed
  <1>5. m = 2 + 10 * n + p[n + 1]
    BY DEF WellFormed
  <1>6. \A i \in Numbers(e) : p[i + 2] = p[i + 1] + Len(reports[i + 1].data)
    BY DEF WellFormed
  <1>7. \A i \in Numbers(e) : i + 1 \in 1 .. n
    BY <1>2 DEF Numbers
  <1>8. \A i \in 1 .. n : Len(reports[i].data) \in Nat
    <2>1. \A r \in Reports : Len(r.data) \in Nat
      BY DEF Reports
    <2>. HIDE DEF n, reports
    <2>. QED  BY <1>2, <2>1
  <1>9. ASSUME NEW i \in 1 .. n + 1, i + 1 \in 1 .. n + 1
        PROVE  p[i] <= p[i + 1]
    <2>1. i - 1 \in Numbers(e) /\ (i - 1) + 1 = i /\ (i - 1) + 2 = i + 1 /\ i \in 1 .. n
      BY <1>2, <1>9 DEF Numbers
    <2>2. p[i + 1] = p[i] + Len(reports[i].data)
      BY <1>6, <2>1
    <2>3. Len(reports[i].data) \in Nat
      BY <1>8, <2>1
    <2>4. p[i] \in Nat
      <3>. HIDE DEF p, n
      <3>. QED  BY <1>4
    <2>. QED  BY <2>2, <2>3, <2>4
  <1>10. \A j \in 1 .. n + 1 : p[j] <= p[n + 1]
    <2>. HIDE DEF p, n
    <2>1. n + 1 \in Nat /\ n + 1 \in 1 .. n + 1
      BY <1>2
    <2>2. \A i, j \in 1 .. n + 1 : i <= j => p[i] <= p[j]
      BY <1>4, <1>9, <2>1, GrowsUpwards
    <2>. QED  BY <2>1, <2>2
  <1>. QED
    <2>. HIDE DEF n, p, m, reports
    <2>1. \A i \in Numbers(e) : reports[i + 1] \in Reports
      BY <1>2, <1>7
    <2>2. /\ n \in Nat /\ m \in 2 .. 255 /\ p \in [1 .. n + 1 -> Nat] /\ p[1] = 0
          /\ m = 2 + 10 * n + p[n + 1]
          /\ \A j \in 1 .. n + 1 : p[j] <= p[n + 1]
          /\ \A i \in Numbers(e) : /\ i + 1 \in 1 .. n /\ reports[i + 1] \in Reports
                                   /\ p[i + 2] = p[i + 1] + Len(reports[i + 1].data)
      BY <1>2, <1>3, <1>4, <1>5, <1>6, <1>7, <1>10, <2>1
    <2>. QED  BY <2>2 DEF n, p, m, reports

(* Sums of lengths fit into 8 bits.                                        *)
LEMMA PlacesFit ==
    ASSUME NEW e, WellFormed(e)
    PROVE  \A j \in 1 .. Len(e.reports) + 1 : e.places[j] \in 0 .. 255
  <1>. DEFINE n == Len(e.reports)
              m == e.param_len
              p == e.places
  <1>1. n \in Nat /\ m \in 2 .. 255
    BY EventFacts
  <1>2. p \in [1 .. n + 1 -> Nat]
    BY EventFacts
  <1>3. m = 2 + 10 * n + p[n + 1]
    BY EventFacts
  <1>4. \A j \in 1 .. n + 1 : p[j] <= p[n + 1]
    BY EventFacts
  <1>. HIDE DEF n, m, p
  <1>5. \A q \in Nat : m = 2 + 10 * n + q => q <= 255
    BY <1>1
  <1>6. n + 1 \in 1 .. n + 1
    BY <1>1
  <1>7. p[n + 1] \in Nat /\ p[n + 1] <= 255
    BY <1>2, <1>3, <1>5, <1>6, Zenon
  <1>8. \A x, y \in Nat : x <= y /\ y <= 255 => x \in 0 .. 255
    OBVIOUS
  <1>9. \A j \in 1 .. n + 1 : p[j] \in 0 .. 255
    BY <1>2, <1>4, <1>7, <1>8, Zenon
  <1>. QED  BY <1>9 DEF n, p

LEMMA BufferByte ==
    ASSUME NEW e, WellFormed(e), NEW got \in Int, NEW k \in 0 .. e.param_len - 1
    PROVE  /\ k < got - 3 => Received(e, got)[k] = e.body[k + 1]
           /\ ~(k < got - 3) => Received(e, got)[k] = 0
           /\ Received(e, got)[k] \in Bytes
  <1>. DEFINE m == e.param_len
              body == e.body
  <1>1. m \in 2 .. 255
    BY DEF WellFormed
  <1>2. body \in [1 .. m -> Bytes]
    BY DEF WellFormed
  <1>3. k + 1 \in 1 .. m
    BY <1>1
  <1>4. Received(e, got)[k] = IF k < got - 3 THEN body[k + 1] ELSE 0
    BY DEF Received, Lead
  <1>5. body[k + 1] \in Bytes
    <2>. HIDE DEF m, body
    <2>. QED  BY <1>2, <1>3
  <1>6. 0 \in Bytes
    BY DEF Bytes
  <1>. QED  BY <1>4, <1>5, <1>6

(* The places of the fields of a report are in the body.                   *)
LEMMA PlacesOfFields ==
    ASSUME NEW e, WellFormed(e), NEW i \in Numbers(e)
    PROVE  /\ i \in Nat /\ Len(e.reports) \in Nat /\ i < Len(e.reports)
           /\ e.param_len \in 2 .. 255
           /\ e.places[i + 1] \in Nat /\ Len(e.reports[i + 1].data) \in 0 .. 255
           /\ 2 + 9 * Len(e.reports) + e.places[i + 1] + Len(e.reports[i + 1].data)
                 <= e.param_len - Len(e.reports)
           /\ 2 + 10 * Len(e.reports) <= e.param_len
  <1>. DEFINE n == Len(e.reports)
              m == e.param_len
              p == e.places
              len == Len(e.reports[i + 1].data)
  <1>1. n \in Nat /\ m \in 2 .. 255
    BY EventFacts
  <1>2. p \in [1 .. n + 1 -> Nat] /\ m = 2 + 10 * n + p[n + 1]
    BY EventFacts
  <1>3. \A j \in 1 .. n + 1 : p[j] <= p[n + 1]
    BY EventFacts
  <1>4. p[i + 2] = p[i + 1] + len
    BY EventFacts
  <1>5. len \in Nat
    <2>1. e.reports[i + 1] \in Reports
      BY EventFacts
    <2>. QED  BY <2>1 DEF Reports
  <1>6. i \in Nat /\ i < n
    BY <1>1 DEF Numbers
  <1>. HIDE DEF n, m, p, len
  <1>7. i + 1 \in 1 .. n + 1 /\ i + 2 \in 1 .. n + 1 /\ n + 1 \in 1 .. n + 1
    BY <1>1, <1>6
  <1>8. p[i + 1] \in Nat /\ p[n + 1] \in Nat /\ p[i + 2] <= p[n + 1]
    BY <1>2, <1>3, <1>7
  <1>9. 2 + 9 * n + p[i + 1] + len <= m - n /\ 2 + 10 * n <= m
    BY <1>1, <1>2, <1>4, <1>5, <1>8
  <1>10. len \in 0 .. 255
    BY <1>1, <1>5, <1>8, <1>9
  <1>. QED  BY <1>1, <1>6, <1>8, <1>9, <1>10 DEF n, m, p, len

(* What GetReport reads, with its places added up.                         *)
LEMMA WhereItReads ==
    ASSUME NEW e, WellFormed(e), NEW b, NEW i \in Numbers(e)
    PROVE  LET n == Len(e.reports) rpt == GetReport(b, e, i) IN
           /\ rpt.addr_type = b[2 + n + i]
           /\ rpt.addr = SubBuf(b, 2 + 2 * n + 6 * i, 6)
           /\ rpt.data_len = b[2 + 8 * n + i]
           /\ rpt.data = 2 + 8 * n + Offset(b, 2 + 8 * n, i) + n
           /\ rpt.rssi = Int8(b[e.param_len - n + i])
  <1>. DEFINE n         == Len(e.reports)
              addr_type == 2 + i + n
              addr      == addr_type + n - i + i * 6
              lens      == addr + (n - i) * 6
              rpt       == GetReport(b, e, i)
  <1>1. n \in Nat /\ i \in Nat
    BY PlacesOfFields
  <1>2. addr_type = 2 + n + i /\ addr = 2 + 2 * n + 6 * i /\ lens = 2 + 8 * n
    <2>. HIDE DEF n
    <2>. QED  BY <1>1
  <1>3. rpt = [addr_type |-> b[addr_type], addr |-> SubBuf(b, addr, 6),
               data_len |-> b[lens + i], data |-> lens + Offset(b, lens, i) + n,
               rssi |-> Int8(b[e.param_len - n + i])]
    BY DEF GetReport
  <1>. HIDE DEF n, addr_type, addr, lens, rpt
  <1>4. /\ rpt.addr_type = b[2 + n + i]
        /\ rpt.addr = SubBuf(b, 2 + 2 * n + 6 * i, 6)
        /\ rpt.data_len = b[2 + 8 * n + i]
        /\ rpt.data = 2 + 8 * n + Offset(b, 2 + 8 * n, i) + n
        /\ rpt.rssi = Int8(b[e.param_len - n + i])
    BY <1>2, <1>3
  <1>. QED  BY <1>4 DEF n, rpt

(* The bytes of a report, by the layout.                                   *)
LEMMA BytesOfReport ==
    ASSUME NEW e, WellFormed(e), NEW i \in Numbers(e)
    PROVE  LET n == Len(e.reports) r == e.reports[i + 1] IN
           /\ e.body[(2 + n + i) + 1] = r.addr_type
           /\ e.body[(2 + 8 * n + i) + 1] = Len(r.data)
           /\ \A j \in 1 .. Len(r.data) :
                 e.body[(2 + 9 * n + e.places[i + 1] + j - 1) + 1] = r.data[j]
           /\ e.body[(e.param_len - n + i) + 1] = r.rssi % 256
  BY Zenon DEF WellFormed, DataAt, StrengthAt

LEMMA AddressOfReport ==
    ASSUME NEW e, WellFormed(e), NEW i \in Numbers(e), NEW j \in 1 .. 6
    PROVE  e.body[(2 + 2 * Len(e.reports) + 6 * i + j - 1) + 1] = e.reports[i + 1].addr[j]
  BY Zenon DEF WellFormed

(* Once the length of a report has come, so have the fields before it, and *)
(* GetReport finds them and the place of the data.                         *)
LEMMA FieldsFound ==
    ASSUME NEW e, WellFormed(e), NEW got \in Int, NEW i \in Numbers(e),
           2 + 8 * Len(e.reports) + i < got - 3
    PROVE  LET r == e.reports[i + 1] rpt == GetReport(Received(e, got), e, i) IN
           /\ rpt.addr_type = r.addr_type
           /\ rpt.addr = r.addr
           /\ rpt.data_len = Len(r.data)
           /\ rpt.data = 2 + 9 * Len(e.reports) + e.places[i + 1]
  <1>. DEFINE n == Len(e.reports)
              m == e.param_len
              p == e.places
              r == e.reports[i + 1]
              b == Received(e, got)
              rpt == GetReport(b, e, i)
  <1>1. n \in Nat /\ m \in 2 .. 255 /\ i \in Nat /\ i < n /\ 2 + 10 * n <= m
    BY PlacesOfFields
  <1>2. 2 + 8 * n + i < got - 3
    OBVIOUS
  <1>3. \A k \in 0 .. m - 1 : k < got - 3 => b[k] = e.body[k + 1]
    BY BufferByte
  <1>4. b[2 + n + i] = r.addr_type
    <2>1. 2 + n + i \in 0 .. m - 1 /\ 2 + n + i < got - 3
      <3>. HIDE DEF n, m
      <3>. QED  BY <1>1, <1>2
    <2>2. e.body[(2 + n + i) + 1] = r.addr_type
      BY BytesOfReport
    <2>. QED
      <3>. HIDE DEF n, m, b, r
      <3>. QED  BY <1>3, <2>1, <2>2, Zenon
  <1>5. b[2 + 8 * n + i] = Len(r.data)
    <2>1. 2 + 8 * n + i \in 0 .. m - 1 /\ 2 + 8 * n + i < got - 3
      <3>. HIDE DEF n, m
      <3>. QED  BY <1>1, <1>2
    <2>2. e.body[(2 + 8 * n + i) + 1] = Len(r.data)
      BY BytesOfReport
    <2>. QED
      <3>. HIDE DEF n, m, b, r
      <3>. QED  BY <1>3, <2>1, <2>2, Zenon
  <1>6. SubBuf(b, 2 + 2 * n + 6 * i, 6) = r.addr
    <2>0. \A j \in 1 .. 6 : e.body[(2 + 2 * n + 6 * i + j - 1) + 1] = r.addr[j]
      BY AddressOfReport
    <2>1. ASSUME NEW j \in 1 .. 6 PROVE b[2 + 2 * n + 6 * i + j - 1] = r.addr[j]
      <3>1. /\ 2 + 2 * n + 6 * i + j - 1 \in 0 .. m - 1
            /\ 2 + 2 * n + 6 * i + j - 1 < got - 3
        <4>. HIDE DEF n, m
        <4>. QED  BY <1>1, <1>2
      <3>. HIDE DEF n, m, b, r
      <3>. QED  BY <1>3, <2>0, <3>1, Zenon
    <2>2. r.addr = [j \in 1 .. 6 |-> r.addr[j]]
      <3>1. r \in Reports
        BY EventFacts
      <3>. HIDE DEF r
      <3>. QED  BY <3>1 DEF Reports
    <2>. QED
      <3>. HIDE DEF n, b, r
      <3>. QED  BY <2>1, <2>2 DEF SubBuf
  <1>7. Offset(b, 2 + 8 * n, i) = p[i + 1]
    <2>1. p[1] = 0
      BY EventFacts
    <2>2. \A j \in 1 .. n + 1 : p[j] \in 0 .. 255
      BY PlacesFit
    <2>3. \A j \in 1 .. i + 1 : p[j] \in 0 .. 255
      <3>1. \A j \in 1 .. i + 1 : j \in 1 .. n + 1
        BY <1>1
      <3>. HIDE DEF n, p
      <3>. QED  BY <2>2, <3>1, Zenon
    <2>4. ASSUME NEW j \in 0 .. i - 1 PROVE p[j + 2] = p[j + 1] + b[2 + 8 * n + j]
      <3>1. j \in Numbers(e)
        BY <1>1 DEF Numbers
      <3>2. 2 + 8 * n + j \in 0 .. m - 1 /\ 2 + 8 * n + j < got - 3
        <4>. HIDE DEF n, m
        <4>. QED  BY <1>1, <1>2
      <3>3. e.body[(2 + 8 * n + j) + 1] = Len(e.reports[j + 1].data)
        BY <3>1, BytesOfReport
      <3>4. p[j + 2] = p[j + 1] + Len(e.reports[j + 1].data)
        BY <3>1, EventFacts
      <3>5. b[2 + 8 * n + j] = Len(e.reports[j + 1].data)
        <4>. HIDE DEF n, m, b
        <4>. QED  BY <1>3, <3>2, <3>3, Zenon
      <3>. QED
        <4>. HIDE DEF b, p, n
        <4>. QED  BY <3>4, <3>5, Zenon
    <2>. DEFINE lens == 2 + 8 * n
    <2>5. lens \in Nat
      <3>. HIDE DEF n
      <3>. QED  BY <1>1
    <2>6. \A j \in 0 .. i - 1 : p[j + 2] = p[j + 1] + b[lens + j]
      BY <2>4
    <2>7. i \in Nat
      BY <1>1
    <2>. QED
      <3>. HIDE DEF n, b, p, lens
      <3>1. SumsOf(p, b, lens, i)
        BY <2>1, <2>3, <2>6, Zenon DEF SumsOf
      <3>2. Offset(b, lens, i) = p[i + 1]
        BY <2>5, <2>7, <3>1, OffsetIs, Zenon
      <3>. QED  BY <3>2 DEF lens
  <1>8. /\ rpt.addr_type = b[2 + n + i]
        /\ rpt.addr = SubBuf(b, 2 + 2 * n + 6 * i, 6)
        /\ rpt.data_len = b[2 + 8 * n + i]
        /\ rpt.data = 2 + 8 * n + Offset(b, 2 + 8 * n, i) + n
    BY WhereItReads
  <1>9. rpt.data = 2 + 9 * n + p[i + 1]
    <2>1. p[i + 1] \in Nat
      BY PlacesOfFields
    <2>. HIDE DEF n, b, p, rpt
    <2>2. \A o \in Nat : 2 + 8 * n + o + n = 2 + 9 * n + o
      BY <1>1
    <2>. QED  BY <1>7, <1>8, <2>1, <2>2, Zenon
  <1>. QED
    <2>. HIDE DEF n, b, p, rpt, r
    <2>1. /\ rpt.addr_type = r.addr_type /\ rpt.addr = r.addr
          /\ rpt.data_len = Len(r.data) /\ rpt.data = 2 + 9 * n + p[i + 1]
      BY <1>4, <1>5, <1>6, <1>8, <1>9, Zenon
    <2>. QED  BY <2>1 DEF n, b, p, rpt, r

-----------------------------------------------------------------------------
(* Reports of beacons                                                      *)

LEMMA SignedBytes ==
    /\ \A x \in Int : Int8(x) \in -128 .. 127
    /\ \A x \in -128 .. 127 : Int8(x) = x /\ Int8(x % 256) = x
  BY DEF Int8

(* A byte that has not come is zero, and zero is no length of a beacon's.  *)
LEMMA LengthHasCome ==
    ASSUME NEW e, WellFormed(e), NEW got \in Int, NEW i \in Numbers(e),
           LooksLikeBeacon(GetReport(Received(e, got), e, i))
    PROVE  2 + 8 * Len(e.reports) + i < got - 3
  <1>. DEFINE n == Len(e.reports)
              m == e.param_len
              b == Received(e, got)
              rpt == GetReport(b, e, i)
  <1>1. n \in Nat /\ m \in 2 .. 255 /\ i \in Nat /\ i < n /\ 2 + 10 * n <= m
    BY PlacesOfFields
  <1>2. rpt.data_len = b[2 + 8 * n + i]
    BY WhereItReads
  <1>3. rpt.data_len \in 29 .. 30
    BY DEF LooksLikeBeacon
  <1>4. \A k \in 0 .. m - 1 : ~(k < got - 3) => b[k] = 0
    BY BufferByte
  <1>5. 2 + 8 * n + i \in 0 .. m - 1
    <2>. HIDE DEF n, m
    <2>. QED  BY <1>1
  <1>6. 0 \notin 29 .. 30
    OBVIOUS
  <1>7. 2 + 8 * n + i < got - 3
    <2>. HIDE DEF n, m, b, rpt
    <2>. QED  BY <1>2, <1>3, <1>4, <1>5, <1>6, Zenon
  <1>. QED  BY <1>7

(* What is read of a report that looks like a beacon's: that report is one,*)
(* its power is a number, and its identity and signal strength are those   *)
(* there are to hear of it.                                                *)
LEMMA BeaconSaid ==
    ASSUME NEW e, WellFormed(e), NEW got \in Int, NEW i \in Numbers(e),
           LooksLikeBeacon(GetReport(Received(e, got), e, i))
    PROVE  LET r    == e.reports[i + 1]
               rpt  == GetReport(Received(e, got), e, i)
               said == Advert(Received(e, got), rpt)
           IN  /\ r.addr_type = 1
               /\ said.tx \in Int
               /\ said.id = Said(e, i, got).id
               /\ said.rssi = Said(e, i, got).rssi
  <1>. DEFINE n    == Len(e.reports)
              m    == e.param_len
              p    == e.places
              r    == e.reports[i + 1]
              b    == Received(e, got)
              rpt  == GetReport(b, e, i)
              said == Advert(b, rpt)
              data == 2 + 9 * n + p[i + 1]
  <1>1. n \in Nat /\ m \in 2 .. 255 /\ i \in Nat /\ i < n /\ 2 + 10 * n <= m
    BY PlacesOfFields
  <1>2. p[i + 1] \in Nat /\ Len(r.data) \in 0 .. 255 /\ data + Len(r.data) <= m - n
    BY PlacesOfFields
  <1>3. data = DataAt(e, i) /\ m - n + i = StrengthAt(e, i)
    BY DEF DataAt, StrengthAt
  <1>4. /\ rpt.addr_type = r.addr_type /\ rpt.addr = r.addr
        /\ rpt.data_len = Len(r.data) /\ rpt.data = data
    BY LengthHasCome, FieldsFound
  <1>5. r.addr_type = 1 /\ Len(r.data) \in 29 .. 30
    BY <1>4 DEF LooksLikeBeacon
  <1>6. \A k \in 0 .. m - 1 : /\ k < got - 3 => b[k] = e.body[k + 1]
                              /\ ~(k < got - 3) => b[k] = 0
                              /\ b[k] \in Bytes
    BY BufferByte
  <1>7. data \in Nat /\ data + Len(r.data) \in 0 .. m - 1
    <2>. HIDE DEF n, m, r
    <2>. DEFINE d == Len(r.data)
                q == p[i + 1]
    <2>. HIDE DEF p, d, q
    <2>1. q \in Nat /\ d \in 0 .. 255 /\ 2 + 9 * n + q + d <= m - n
      BY <1>2 DEF d, q
    <2>2. 2 + 9 * n + q \in Nat /\ 2 + 9 * n + q + d \in 0 .. m - 1
      BY <1>1, <2>1
    <2>. QED  BY <2>2 DEF d, q
  <1>8. said.tx \in Int
    <2>1. said.tx = Int8(b[data + Len(r.data)])
      BY <1>4 DEF Advert
    <2>2. b[data + Len(r.data)] \in Int
      <3>. HIDE DEF b, data, r, m
      <3>1. b[data + Len(r.data)] \in Bytes
        BY <1>6, <1>7, Zenon
      <3>2. \A x \in Bytes : x \in Int
        BY DEF Bytes
      <3>. QED  BY <3>1, <3>2, Zenon
    <2>3. \A x \in Int : Int8(x) \in Int
      BY DEF Int8
    <2>. HIDE DEF b, data, r, said
    <2>. QED  BY <2>1, <2>2, <2>3, Zenon
  <1>. DEFINE came(place, value) == IF place < got - Lead THEN value ELSE 0
              id == [j \in 1 .. 20 |-> came(data + j + 8, r.data[j + 9])]
  <1>9. ASSUME Len(r.data) # 30
        PROVE  SubBuf(b, data + 9, 20) = id
    <2>1. ASSUME NEW j \in 1 .. 20
          PROVE  b[data + 9 + j - 1] = came(data + j + 8, r.data[j + 9])
      <3>. DEFINE d == Len(r.data)
      <3>1. d = 29
        BY <1>5, <1>9
      <3>2. /\ j + 9 \in 1 .. d /\ data + 9 + j - 1 = data + j + 8
            /\ data + (j + 9) - 1 = data + j + 8
            /\ data + j + 8 \in 0 .. m - 1
        <4>1. data \in Nat /\ data + 29 <= m - 1
          BY <1>1, <1>7, <3>1
        <4>. HIDE DEF data, d, m
        <4>. QED  BY <1>1, <3>1, <4>1
      <3>3. \A k \in 1 .. d : e.body[(data + k - 1) + 1] = r.data[k]
        BY BytesOfReport
      <3>4. e.body[(data + j + 8) + 1] = r.data[j + 9]
        <4>. HIDE DEF data, d, m, b, r
        <4>. QED  BY <3>2, <3>3, Zenon
      <3>5. b[data + j + 8] = came(data + j + 8, r.data[j + 9])
        <4>. HIDE DEF data, d, m, b, r
        <4>. QED  BY <1>6, <3>2, <3>4, Zenon DEF Lead
      <3>. HIDE DEF data, b, r, came
      <3>. QED  BY <3>2, <3>5, Zenon
    <2>. HIDE DEF data, b, r, came
    <2>. QED  BY <2>1 DEF SubBuf
  <1>10. said.id = IF Len(r.data) = 30
                     THEN [type |-> "secure", id |-> r.addr]
                     ELSE [type |-> "ibeacon", id |-> id]
    <2>1. said.id = IF rpt.data_len = 30
                      THEN [type |-> "secure", id |-> rpt.addr]
                      ELSE [type |-> "ibeacon", id |-> SubBuf(b, rpt.data + 9, 20)]
      BY DEF Advert
    <2>. HIDE DEF data, b, r, rpt, said, id
    <2>. QED  BY <1>4, <1>9, <2>1, Zenon
  <1>11. said.rssi = Int8(came(m - n + i, r.rssi) + Correction)
    <2>1. m - n + i \in 0 .. m - 1
      <3>. HIDE DEF n, m
      <3>. QED  BY <1>1
    <2>2. e.body[(m - n + i) + 1] = r.rssi % 256
      BY BytesOfReport
    <2>3. b[m - n + i] = came(m - n + i, r.rssi % 256)
      <3>. HIDE DEF n, m, b, r
      <3>. QED  BY <1>6, <2>1, <2>2, Zenon DEF Lead
    <2>4. rpt.rssi = Int8(b[m - n + i])
      BY WhereItReads
    <2>5. r.rssi \in -128 .. 127
      <3>1. r \in Reports
        BY EventFacts
      <3>. HIDE DEF r
      <3>. QED  BY <3>1 DEF Reports
    <2>6. Int8(r.rssi % 256) = r.rssi /\ Int8(0) = 0
      <3>1. 0 \in -128 .. 127
        OBVIOUS
      <3>. HIDE DEF r
      <3>. QED  BY <2>5, <3>1, SignedBytes, Zenon
    <2>7. Int8(b[m - n + i]) = came(m - n + i, r.rssi)
      <3>. HIDE DEF n, m, b, r
      <3>. QED  BY <2>3, <2>6, Zenon
    <2>8. said.rssi = Int8(rpt.rssi + Correction)
      BY DEF Advert
    <2>. HIDE DEF n, m, b, r, rpt, said, came
    <2>. QED  BY <2>4, <2>7, <2>8, Zenon
  <1>12. /\ Said(e, i, got).id = IF Len(r.data) = 30
                                   THEN [type |-> "secure", id |-> r.addr]
                                   ELSE [type |-> "ibeacon", id |-> id]
         /\ Said(e, i, got).rssi = Int8(came(m - n + i, r.rssi) + Correction)
    BY <1>3 DEF Said
  <1>. QED
    <2>. HIDE DEF n, b, r, rpt, said, data, id, came
    <2>1. /\ r.addr_type = 1 /\ said.tx \in Int
          /\ said.id = Said(e, i, got).id /\ said.rssi = Said(e, i, got).rssi
      BY <1>5, <1>8, <1>10, <1>11, <1>12, Zenon
    <2>. QED  BY <2>1 DEF b, r, rpt, said

(* A report of a beacon in a whole event is seen to be one, and so is no   *)
(* other (LooksLikeBeacon).                                                *)
LEMMA BeaconSeen ==
    ASSUME NEW e, WellFormed(e), NEW i \in Numbers(e),
           e.reports[i + 1].addr_type = 1, Len(e.reports[i + 1].data) \in 29 .. 30
    PROVE  LooksLikeBeacon(GetReport(Received(e, Size(e)), e, i))
  <1>. DEFINE n   == Len(e.reports)
              m   == e.param_len
              got == Size(e)
              rpt == GetReport(Received(e, got), e, i)
  <1>1. n \in Nat /\ m \in 2 .. 255 /\ i \in Nat /\ i < n /\ 2 + 10 * n <= m
    BY PlacesOfFields
  <1>2. got = 3 + m
    BY DEF Size, Lead
  <1>3. got \in Int /\ 2 + 8 * n + i < got - 3
    <2>. HIDE DEF n, m, got
    <2>. QED  BY <1>1, <1>2
  <1>4. rpt.addr_type = e.reports[i + 1].addr_type /\ rpt.data_len = Len(e.reports[i + 1].data)
    <2>. HIDE DEF got
    <2>. QED  BY <1>3, FieldsFound
  <1>. QED  BY <1>4 DEF LooksLikeBeacon

-----------------------------------------------------------------------------
(* Steps, by what they do to what was counted                              *)

LEMMA SentFacts ==
    ASSUME stream \in DOMAIN Streams, NEW k \in 1 .. Number
    PROVE  WellFormed(Sent(k))
  BY ScannerAssumption DEF Number, Sent

(* Nothing is counted or taken.                                            *)
Quiet ==
    /\ UNCHANGED <<stream, at, tableVars, dropped>> /\ missing' = missing
    /\ \/ UNCHANGED <<pc, idx>>
       \/ pc' # "reports" /\ (pc = "reports" => idx = Len(Taken.reports))

(* The event at the head is taken, with its reports still to come or lost. *)
Advance ==
    /\ UNCHANGED <<stream, tableVars>>
    /\ pc = "scan" /\ missing = 0 /\ at \in 1 .. Number /\ at' = at + 1
    /\ \/ pc' = "reports" /\ idx' = 0 /\ UNCHANGED dropped
       \/ pc' # "reports" /\ dropped' = dropped \cup ({at} \X Numbers(Event))

(* One report is looked at.                                                *)
InLoop ==
    /\ UNCHANGED <<stream, at, read, pc>> /\ missing' = missing
    /\ pc = "reports" /\ idx' = idx + 1

LEMMA Moves ==
    ASSUME ScannerInv, [Next]_vars
    PROVE  \/ Quiet
           \/ Advance
           \/ InLoop /\ (ReportDropped \/ ReportSkipped \/ ReportCounted)
  <1>. USE DEF ScannerInv
  <1>1. at \in 1 .. Number + 1 /\ Number \in Nat /\ read \in Nat /\ Start(at) \in Nat
    <2>1. stream \in DOMAIN Streams /\ at \in 1 .. Number + 1 /\ Number \in Nat
      BY StreamFacts DEF TypeOK
    <2>2. Start(at) \in Nat /\ Start(Number + 1) \in Nat
      BY <2>1, StreamFacts
    <2>3. read \in 0 .. Start(Number + 1)
      BY DEF TypeOK
    <2>. QED  BY <2>1, <2>2, <2>3
  <1>2. CASE Read
    <2>1. read' \in read + 1 .. Start(Number + 1) /\ UNCHANGED <<stream, at, tableVars, dropped>>
          /\ pc = "idle" /\ pc' # "reports"
      BY <1>2 DEF Read, ReadEnds
    <2>2. Start(at) <= read /\ Start(at)' = Start(at)
      BY <2>1 DEF AtAnEvent, Start
    <2>3. missing = 0 /\ missing' = 0
      BY <1>1, <2>1, <2>2 DEF missing
    <2>. QED  BY <2>1, <2>3 DEF Quiet
  <1>3. CASE Idle \/ Wait \/ ReportsEnd
    <2>1. UNCHANGED <<stream, at, read, tableVars, dropped>> /\ pc' # "reports"
          /\ (pc = "reports" => idx = Len(Taken.reports))
      BY <1>3 DEF Idle, Wait, ReportsEnd, Scans, bufVars
    <2>2. missing' = missing
      BY <2>1 DEF missing, Start
    <2>. QED  BY <2>1, <2>2 DEF Quiet
  <1>4. CASE TakeEvent \/ OutOfMemory
    <2>1. Scans /\ Drain
      BY <1>4 DEF TakeEvent, OutOfMemory
    <2>2. UNCHANGED <<stream, tableVars>> /\ pc = "scan" /\ at' = at + 1
          /\ \/ pc' = "reports" /\ idx' = 0 /\ UNCHANGED dropped
             \/ pc' # "reports" /\ dropped' = dropped \cup ({at} \X Numbers(Event))
      BY <1>4, <2>1 DEF TakeEvent, OutOfMemory, Scans, Drain
    <2>3. at \in 1 .. Number
      BY <2>1, HeadIsAnEvent DEF Scans
    <2>4. missing = 0
      BY <1>1, <2>2 DEF AtAnEvent, missing
    <2>. QED  BY <2>2, <2>3, <2>4 DEF Advance
  <1>5. CASE ReportDropped \/ ReportSkipped \/ ReportCounted
    <2>1. UNCHANGED <<stream, at, read, pc>> /\ pc = "reports" /\ idx' = idx + 1
      BY <1>5 DEF ReportDropped, ReportSkipped, ReportCounted, InReports, bufVars
    <2>2. missing' = missing
      BY <2>1 DEF missing, Start
    <2>. QED  BY <1>5, <2>1, <2>2 DEF InLoop
  <1>6. CASE UNCHANGED vars
    <2>1. UNCHANGED <<stream, at, read, tableVars, dropped, pc, idx>>
      BY <1>6 DEF vars, bufVars
    <2>2. missing' = missing
      BY <2>1 DEF missing, Start
    <2>. QED  BY <2>1, <2>2 DEF Quiet
  <1>. QED  BY <1>2, <1>3, <1>4, <1>5, <1>6 DEF Next, Callback

(* In the inner loop there is a report of the event taken last.            *)
LEMMA LoopFacts ==
    ASSUME ScannerInv, InReports
    PROVE  /\ at - 1 \in 1 .. Number /\ Taken = Sent(at - 1) /\ WellFormed(Taken)
           /\ idx \in Numbers(Taken) /\ idx \in Nat
           /\ missing \in Nat /\ Size(Taken) \in Nat
  <1>1. stream \in DOMAIN Streams /\ at \in 1 .. Number + 1 /\ Number \in Nat /\ idx \in Nat
        /\ read \in 0 .. Start(Number + 1) /\ at > 1
    BY StreamFacts DEF ScannerInv, TypeOK, InReports
  <1>2. at - 1 \in 1 .. Number
    BY <1>1
  <1>3. WellFormed(Taken)
    BY <1>1, <1>2, SentFacts DEF Taken
  <1>4. Len(Taken.reports) \in Nat
    BY <1>3, EventFacts
  <1>5. idx \in Numbers(Taken)
    BY <1>1, <1>4 DEF InReports, Numbers
  <1>6. Start(at) \in Nat /\ Start(Number + 1) \in Nat
    BY <1>1, StreamFacts
  <1>7. missing \in Nat
    BY <1>1, <1>6 DEF missing
  <1>8. Size(Taken) \in Nat
    <2>1. Taken.param_len \in 2 .. 255
      BY <1>3, EventFacts
    <2>. QED  BY <2>1 DEF Size, Lead
  <1>. QED  BY <1>1, <1>2, <1>3, <1>5, <1>7, <1>8 DEF Taken

-----------------------------------------------------------------------------
(* The list of what was counted                                            *)

LEMMA AppendFacts ==
    ASSUME NEW s, s \in Seq(ToSet(s)), NEW x
    PROVE  /\ Len(s) \in Nat /\ DOMAIN s = 1 .. Len(s)
           /\ DOMAIN Append(s, x) = 1 .. Len(s) + 1
           /\ \A k \in DOMAIN s : Append(s, x)[k] = s[k]
           /\ Append(s, x)[Len(s) + 1] = x
           /\ ToSet(Append(s, x)) = ToSet(s) \cup {x}
           /\ Append(s, x) \in Seq(ToSet(Append(s, x)))
  <1>. DEFINE t == Append(s, x)
              S == ToSet(s) \cup {x}
  <1>1. s \in Seq(S) /\ x \in S
    <2>1. ToSet(s) \subseteq S
      OBVIOUS
    <2>. HIDE DEF S
    <2>2. \A k \in 1 .. Len(s) : s[k] \in S
      BY <2>1
    <2>. QED  BY <2>1, <2>2 DEF S
  <1>2. Len(s) \in Nat /\ DOMAIN s = 1 .. Len(s)
    OBVIOUS
  <1>3. /\ t \in Seq(S) /\ Len(t) = Len(s) + 1
        /\ \A k \in 1 .. Len(s) : t[k] = s[k]
        /\ t[Len(s) + 1] = x
    <2>. HIDE DEF S
    <2>. QED  BY <1>1
  <1>4. DOMAIN t = 1 .. Len(s) + 1
    <2>. HIDE DEF t, S
    <2>. QED  BY <1>3
  <1>5. ToSet(t) = S
    <2>. HIDE DEF t
    <2>1. ToSet(t) \subseteq S
      <3>. HIDE DEF S
      <3>. QED  BY <1>3, <1>4 DEF ToSet
    <2>2. ASSUME NEW y \in S PROVE y \in ToSet(t)
      <3>1. CASE y = x
        <4>1. Len(s) + 1 \in DOMAIN t
          BY <1>2, <1>4
        <4>. QED  BY <1>3, <3>1, <4>1 DEF ToSet
      <3>2. CASE y \in ToSet(s)
        <4>1. PICK k \in DOMAIN s : y = s[k]
          BY <3>2 DEF ToSet
        <4>2. k \in DOMAIN t
          BY <1>2, <1>4
        <4>. QED  BY <1>2, <1>3, <4>1, <4>2 DEF ToSet
      <3>. QED  BY <3>1, <3>2
    <2>. QED  BY <2>1, <2>2
  <1>. QED  BY <1>2, <1>3, <1>4, <1>5

(* What was counted lies behind the loops, and its power is a number.      *)
Placed(a) ==
    /\ a.event \in 1 .. at - 1 /\ a.idx \in Numbers(Sent(a.event))
    /\ a.event = at - 1 /\ pc = "reports" => a.idx < idx
    /\ a.said.tx \in Int

HeardInv ==
    /\ heard \in Seq(ToSet(heard))
    /\ \A a \in ToSet(heard) : Placed(a)

(* What was read is what there is to hear of report i of event e.          *)
Fits(said, e, i, got) ==
    /\ e.reports[i + 1].addr_type = 1
    /\ said.id = Said(e, i, got).id /\ said.rssi = Said(e, i, got).rssi

(* The entry a that is made for a report.                                  *)
Makes(a) ==
    /\ heard' = Append(heard, a) /\ beacons' = Counted(beacons, a.said)
    /\ a.event = at - 1 /\ a.idx = idx
    /\ at - 1 \in 1 .. Number /\ idx \in Numbers(Sent(at - 1)) /\ idx \in Nat
    /\ a.said.tx \in Int
    /\ Fits(a.said, Sent(at - 1), idx, Size(Sent(at - 1)) - missing)

LEMMA CountedFacts ==
    ASSUME ScannerInv, ReportCounted
    PROVE  \E a : Makes(a)
  <1>. DEFINE got  == Size(Taken) - missing
              rpt  == GetReport(body_buf, Taken, idx)
              said == Advert(body_buf, rpt)
              a    == [event |-> at - 1, idx |-> idx, said |-> said]
  <1>1. InReports
    BY DEF ReportCounted
  <1>2. /\ at - 1 \in 1 .. Number /\ Taken = Sent(at - 1) /\ WellFormed(Taken)
        /\ idx \in Numbers(Taken) /\ idx \in Nat
        /\ missing \in Nat /\ Size(Taken) \in Nat
    BY <1>1, LoopFacts
  <1>3. LooksLikeBeacon(rpt) /\ beacons' = Counted(beacons, said)
        /\ heard' = Append(heard, a)
    BY DEF ReportCounted, Rpts
  <1>4. got \in Int /\ body_buf = Received(Taken, got)
    BY <1>2 DEF body_buf
  <1>5. said.tx \in Int /\ Fits(said, Taken, idx, got)
    <2>1. LooksLikeBeacon(GetReport(Received(Taken, got), Taken, idx))
      BY <1>3, <1>4
    <2>2. said = Advert(Received(Taken, got), GetReport(Received(Taken, got), Taken, idx))
      BY <1>4
    <2>. HIDE DEF got, said
    <2>. QED  BY <1>2, <1>4, <2>1, <2>2, BeaconSaid DEF Fits
  <1>6. a.event = at - 1 /\ a.idx = idx /\ a.said = said
    <2>. HIDE DEF said
    <2>. QED  OBVIOUS
  <1>7. Fits(said, Sent(at - 1), idx, Size(Sent(at - 1)) - missing)
    <2>. HIDE DEF said
    <2>. QED  BY <1>2, <1>5
  <1>8. Makes(a)
    <2>. HIDE DEF said, got, a
    <2>. QED  BY <1>2, <1>3, <1>5, <1>6, <1>7, Zenon DEF Makes
  <1>. HIDE DEF a
  <1>. QED  BY <1>8, Zenon

LEMMA InitHeard == Init => HeardInv
  <1>. SUFFICES ASSUME Init PROVE HeardInv
    OBVIOUS
  <1>1. heard = <<>>
    BY DEF Init
  <1>2. ToSet(heard) = {}
    BY <1>1 DEF ToSet
  <1>. QED  BY <1>1, <1>2 DEF HeardInv

(* What was counted before a step stays behind the loops.                  *)
LEMMA StaysPlaced ==
    ASSUME ScannerInv, [Next]_vars, NEW a, Placed(a)
    PROVE  /\ Placed(a)'
           /\ Report(a)' = Report(a) /\ Sent(a.event)' = Sent(a.event)
           /\ Got(a.event)' = Got(a.event)
  <1>. DEFINE k == a.event
              i == a.idx
  <1>1. at \in 1 .. Number + 1 /\ Number \in Nat /\ idx \in Nat
    BY StreamFacts DEF ScannerInv, TypeOK
  <1>2. k \in 1 .. at - 1 /\ k \in Nat /\ i \in Numbers(Sent(k)) /\ a.said.tx \in Int
    BY <1>1 DEF Placed
  <1>3. k = at - 1 /\ pc = "reports" => i < idx
    BY DEF Placed
  <1>4. stream' = stream => Report(a)' = Report(a) /\ Sent(k)' = Sent(k)
    BY DEF Report, Sent
  <1>5. i \in Nat
    <2>1. k \in 1 .. Number
      BY <1>1, <1>2
    <2>2. Len(Sent(k).reports) \in Nat
      BY <2>1, StreamFacts DEF ScannerInv, TypeOK
    <2>. HIDE DEF i, k
    <2>. QED  BY <1>2, <2>2 DEF Numbers
  <1>6. CASE Quiet
    <2>1. stream' = stream /\ at' = at /\ missing' = missing
          /\ (pc' = "reports" => pc = "reports" /\ idx' = idx)
      BY <1>6 DEF Quiet
    <2>2. Got(k)' = Got(k)
      BY <1>4, <2>1 DEF Got, Size
    <2>3. Placed(a)'
      <3>. HIDE DEF k, i
      <3>1. k \in 1 .. at' - 1 /\ i \in Numbers(Sent(k)')
            /\ (k = at' - 1 /\ pc' = "reports" => i < idx')
        BY <1>2, <1>3, <1>4, <2>1
      <3>. QED  BY <1>2, <3>1 DEF Placed, Numbers, k, i
    <2>. QED  BY <1>4, <2>1, <2>2, <2>3
  <1>7. CASE Advance
    <2>1. stream' = stream /\ at' = at + 1 /\ missing = 0
      BY <1>7 DEF Advance
    <2>2. k < at' /\ k # at' - 1 /\ k \in 1 .. at' - 1
      <3>. HIDE DEF k
      <3>. QED  BY <1>1, <1>2, <2>1
    <2>3. Got(k)' = Got(k)
      <3>1. Size(Sent(k)) - missing = Size(Sent(k)) - 0
        BY <2>1
      <3>2. Size(Sent(k))' = Size(Sent(k))
        BY <1>4, <2>1 DEF Size
      <3>3. Got(k)' = Size(Sent(k)) - 0
        BY <2>2, <3>2, Zenon DEF Got
      <3>4. Got(k) = Size(Sent(k)) - 0
        BY <2>1 DEF Got
      <3>. QED  BY <3>3, <3>4
    <2>4. Placed(a)'
      BY <1>2, <1>4, <2>1, <2>2 DEF Placed, Numbers
    <2>. QED  BY <1>4, <2>1, <2>3, <2>4
  <1>8. CASE InLoop
    <2>1. stream' = stream /\ at' = at /\ missing' = missing /\ pc' = pc /\ pc = "reports"
          /\ idx' = idx + 1
      BY <1>8 DEF InLoop
    <2>2. Got(k)' = Got(k)
      BY <1>4, <2>1 DEF Got, Size
    <2>3. Placed(a)'
      <3>. HIDE DEF k, i
      <3>1. k = at' - 1 /\ pc' = "reports" => i < idx'
        BY <1>1, <1>3, <1>5, <2>1
      <3>. QED  BY <1>2, <1>4, <2>1, <3>1 DEF Placed, Numbers, k, i
    <2>. QED  BY <1>4, <2>1, <2>2, <2>3
  <1>. QED  BY <1>6, <1>7, <1>8, Moves

LEMMA HeardMoves ==
    ASSUME ScannerInv, [Next]_vars
    PROVE  \/ UNCHANGED tableVars
           \/ InLoop /\ ReportCounted
  BY Moves DEF Quiet, Advance, ReportDropped, ReportSkipped

LEMMA NextHeard == ScannerInv /\ HeardInv /\ [Next]_vars => HeardInv'
  <1>. SUFFICES ASSUME ScannerInv, HeardInv, [Next]_vars PROVE HeardInv'
    OBVIOUS
  <1>1. \A a \in ToSet(heard) : Placed(a)'
    <2>. SUFFICES ASSUME NEW a \in ToSet(heard) PROVE Placed(a)'
      OBVIOUS
    <2>1. Placed(a)
      BY DEF HeardInv
    <2>. QED  BY <2>1, StaysPlaced
  <1>2. CASE UNCHANGED tableVars
    <2>1. heard' = heard
      BY <1>2 DEF tableVars
    <2>. QED  BY <1>1, <2>1 DEF HeardInv
  <1>3. CASE InLoop /\ ReportCounted
    <2>1. PICK new : Makes(new)
      BY <1>3, CountedFacts, Zenon
    <2>2. stream' = stream /\ at' = at /\ idx' = idx + 1
      BY <1>3 DEF InLoop
    <2>3. Placed(new)'
      <3>1. new.event = at - 1 /\ new.idx = idx /\ new.said.tx \in Int /\ idx \in Nat
            /\ at - 1 \in 1 .. Number /\ idx \in Numbers(Sent(at - 1))
        BY <2>1 DEF Makes
      <3>2. at - 1 \in 1 .. at - 1
        BY <3>1
      <3>3. Sent(new.event)' = Sent(at - 1)
        BY <2>2, <3>1 DEF Sent
      <3>. QED  BY <2>2, <3>1, <3>2, <3>3 DEF Placed, Numbers
    <2>4. heard \in Seq(ToSet(heard)) /\ heard' = Append(heard, new)
      BY <2>1 DEF HeardInv, Makes
    <2>5. heard' \in Seq(ToSet(heard')) /\ ToSet(heard') = ToSet(heard) \cup {new}
      BY <2>4, AppendFacts
    <2>. QED  BY <1>1, <2>3, <2>5 DEF HeardInv
  <1>. QED  BY <1>2, <1>3, HeardMoves

LEMMA Heard == Spec => [](ScannerInv /\ HeardInv)
  <1>1. Init => HeardInv
    BY InitHeard
  <1>2. ScannerInv /\ HeardInv /\ [Next]_vars => HeardInv'
    BY NextHeard
  <1>. QED  BY <1>1, <1>2, Scanner, PTL DEF Spec

-----------------------------------------------------------------------------
(* What is counted was said                                                *)

SaidRight(a) == Fits(a.said, Sent(a.event), a.idx, Got(a.event))

(* Nothing an earlier event said is put in doubt by a later one: the scan  *)
(* goes on only after whole events.                                        *)
LEMMA StaysRight ==
    ASSUME ScannerInv, [Next]_vars, NEW a, Placed(a), SaidRight(a)
    PROVE  SaidRight(a)'
  <1>1. Sent(a.event)' = Sent(a.event) /\ Got(a.event)' = Got(a.event)
    BY StaysPlaced
  <1>. QED  BY <1>1 DEF SaidRight, Fits, Said, DataAt, StrengthAt

(* However the stream is cut into reads, and however short of its end an   *)
(* event was taken: what is counted was said by a beacon in the report it  *)
(* is counted for, each byte of its identity and its signal strength, with *)
(* a zero for each byte that had not come (ble_get_report, ble_readcb).    *)
THEOREM SaidIsHeard == Spec => []HeardWasSaid
  <1>0. HeardWasSaid <=> \A a \in ToSet(heard) : SaidRight(a)
    BY Zenon DEF HeardWasSaid, SaidRight, Fits, Report
  <1>1. Init => HeardWasSaid
    <2>1. Init => ToSet(heard) = {}
      BY DEF Init, ToSet
    <2>. QED  BY <1>0, <2>1
  <1>2. ASSUME ScannerInv, HeardInv, [Next]_vars, HeardWasSaid PROVE HeardWasSaid'
    <2>1. \A a \in ToSet(heard) : SaidRight(a)'
      <3>. SUFFICES ASSUME NEW a \in ToSet(heard) PROVE SaidRight(a)'
        OBVIOUS
      <3>1. Placed(a) /\ SaidRight(a)
        BY <1>0, <1>2 DEF HeardInv
      <3>. QED  BY <1>2, <3>1, StaysRight
    <2>2. HeardWasSaid' <=> \A a \in ToSet(heard') : SaidRight(a)'
      BY Zenon DEF HeardWasSaid, SaidRight, Fits, Report
    <2>3. CASE UNCHANGED tableVars
      BY <2>1, <2>2, <2>3 DEF tableVars
    <2>4. CASE InLoop /\ ReportCounted
      <3>1. PICK new : Makes(new)
        BY <1>2, <2>4, CountedFacts, Zenon
      <3>2. missing' = missing /\ at' = at /\ stream' = stream
        BY <2>4 DEF InLoop
      <3>3. /\ new.event = at - 1 /\ new.idx = idx
            /\ Fits(new.said, Sent(at - 1), idx, Size(Sent(at - 1)) - missing)
        BY <3>1 DEF Makes
      <3>4. Sent(new.event)' = Sent(at - 1)
        BY <3>2, <3>3 DEF Sent
      <3>5. Got(new.event)' = Size(Sent(at - 1)) - missing
        BY <3>2, <3>3, <3>4 DEF Got, Size
      <3>6. SaidRight(new)'
        BY <3>3, <3>4, <3>5 DEF SaidRight, Fits, Said, DataAt, StrengthAt
      <3>7. ToSet(heard') = ToSet(heard) \cup {new}
        <4>1. heard \in Seq(ToSet(heard)) /\ heard' = Append(heard, new)
          BY <1>2, <3>1 DEF HeardInv, Makes
        <4>. QED  BY <4>1, AppendFacts
      <3>. QED  BY <2>1, <2>2, <3>6, <3>7
    <2>. QED  BY <1>2, <2>3, <2>4, HeardMoves
  <1>. QED  BY <1>1, <1>2, Heard, PTL DEF Spec

-----------------------------------------------------------------------------
(* Each report is counted once                                             *)

Ordered ==
    \A i, j \in DOMAIN heard : i < j =>
        \/ heard[i].event < heard[j].event
        \/ heard[i].event = heard[j].event /\ heard[i].idx < heard[j].idx

(* Report i of event k must have been counted or dropped; it was.          *)
Owed(k, i) ==
    LET r == Sent(k).reports[i + 1] IN
    /\ Whole(k) /\ (k = at - 1 /\ pc = "reports" => i < idx)
    /\ r.addr_type = 1 /\ Len(r.data) \in 29 .. 30
Settled(k, i) ==
    \/ <<k, i>> \in dropped
    \/ \E a \in ToSet(heard) : a.event = k /\ a.idx = i

LEMMA StaysOrdered ==
    ASSUME ScannerInv, HeardInv, [Next]_vars, Ordered
    PROVE  Ordered'
  <1>1. CASE UNCHANGED tableVars
    BY <1>1 DEF tableVars, Ordered
  <1>2. CASE InLoop /\ ReportCounted
    <2>1. PICK new : Makes(new)
      BY <1>2, CountedFacts, Zenon
    <2>2. heard \in Seq(ToSet(heard)) /\ heard' = Append(heard, new)
          /\ new.event = at - 1 /\ new.idx = idx /\ pc = "reports"
      BY <1>2, <2>1 DEF HeardInv, Makes, InLoop
    <2>. DEFINE n == Len(heard)
    <2>3. /\ n \in Nat /\ DOMAIN heard = 1 .. n /\ DOMAIN heard' = 1 .. n + 1
          /\ \A k \in DOMAIN heard : heard'[k] = heard[k]
          /\ heard'[n + 1] = new
      BY <2>2, AppendFacts
    <2>4. at \in 1 .. Number + 1 /\ Number \in Nat
      BY StreamFacts DEF ScannerInv, TypeOK
    <2>5. ASSUME NEW m \in DOMAIN heard
          PROVE  \/ heard[m].event < at - 1
                 \/ heard[m].event = at - 1 /\ heard[m].idx < idx
      <3>1. Placed(heard[m])
        BY DEF HeardInv, ToSet
      <3>. DEFINE k == heard[m].event
      <3>2. k \in 1 .. at - 1 /\ (k = at - 1 => heard[m].idx < idx)
        BY <2>2, <3>1 DEF Placed
      <3>. HIDE DEF k
      <3>3. k < at - 1 \/ k = at - 1
        BY <2>4, <3>2
      <3>. QED  BY <3>2, <3>3 DEF k
    <2>. SUFFICES ASSUME NEW i \in DOMAIN heard', NEW j \in DOMAIN heard', i < j
                  PROVE  \/ heard'[i].event < heard'[j].event
                         \/ heard'[i].event = heard'[j].event /\ heard'[i].idx < heard'[j].idx
      BY Zenon DEF Ordered
    <2>. HIDE DEF n
    <2>6. i \in DOMAIN heard
      BY <2>3
    <2>7. CASE j \in DOMAIN heard
      BY <2>3, <2>6, <2>7, Zenon DEF Ordered
    <2>8. CASE j = n + 1
      <3>1. heard'[i] = heard[i] /\ heard'[j] = new
        BY <2>3, <2>6, <2>8
      <3>. QED  BY <2>2, <2>5, <2>6, <3>1
    <2>. QED  BY <2>3, <2>7, <2>8
  <1>. QED  BY <1>1, <1>2, HeardMoves

(* What was settled stays so.                                              *)
LEMMA StaysSettled ==
    ASSUME ScannerInv, HeardInv, [Next]_vars, NEW k, NEW i, Settled(k, i)
    PROVE  Settled(k, i)'
  <1>1. dropped \subseteq dropped'
    BY Moves DEF Quiet, Advance, ReportDropped, ReportSkipped, ReportCounted
  <1>2. ToSet(heard) \subseteq ToSet(heard')
    <2>1. CASE UNCHANGED tableVars
      BY <2>1 DEF tableVars
    <2>2. CASE InLoop /\ ReportCounted
      <3>1. PICK new : Makes(new)
        BY <2>2, CountedFacts, Zenon
      <3>2. heard \in Seq(ToSet(heard)) /\ heard' = Append(heard, new)
        BY <3>1 DEF HeardInv, Makes
      <3>. QED  BY <3>2, AppendFacts
    <2>. QED  BY <2>1, <2>2, HeardMoves
  <1>. QED  BY <1>1, <1>2 DEF Settled

(* The report the inner loop is at is settled by its step.                 *)
LEMMA LoopSettles ==
    ASSUME ScannerInv, HeardInv, [Next]_vars,
           InLoop, ReportDropped \/ ReportSkipped \/ ReportCounted,
           missing = 0,
           Sent(at - 1).reports[idx + 1].addr_type = 1,
           Len(Sent(at - 1).reports[idx + 1].data) \in 29 .. 30
    PROVE  \A k, i : k = at - 1 /\ i = idx => Settled(k, i)'
  <1>. SUFFICES ASSUME NEW k, NEW i, k = at - 1, i = idx PROVE Settled(k, i)'
    OBVIOUS
  <1>1. CASE ReportDropped
    BY <1>1 DEF ReportDropped, Settled
  <1>2. CASE ReportSkipped
    <2>1. InReports /\ ~LooksLikeBeacon(GetReport(body_buf, Taken, idx))
      BY <1>2 DEF ReportSkipped, Rpts
    <2>2. /\ Taken = Sent(at - 1) /\ WellFormed(Taken) /\ idx \in Numbers(Taken)
          /\ Size(Taken) \in Nat
      BY <2>1, LoopFacts
    <2>3. body_buf = Received(Taken, Size(Taken))
      <3>1. Size(Taken) - missing = Size(Taken)
        BY <2>2
      <3>. QED  BY <3>1 DEF body_buf
    <2>4. LooksLikeBeacon(GetReport(Received(Taken, Size(Taken)), Taken, idx))
      BY <2>2, BeaconSeen
    <2>. QED  BY <2>1, <2>3, <2>4
  <1>3. CASE ReportCounted
    <2>1. PICK new : Makes(new)
      BY <1>3, CountedFacts, Zenon
    <2>2. heard \in Seq(ToSet(heard)) /\ heard' = Append(heard, new)
          /\ new.event = at - 1 /\ new.idx = idx
      BY <2>1 DEF HeardInv, Makes
    <2>3. new \in ToSet(heard')
      BY <2>2, AppendFacts
    <2>. QED  BY <2>2, <2>3 DEF Settled
  <1>. QED  BY <1>1, <1>2, <1>3

(* A report that is owed after a step was so before, or the step settles it.*)
LEMMA OwedBefore ==
    ASSUME ScannerInv, HeardInv, [Next]_vars,
           NEW k, k \in 1 .. at' - 1, NEW i, i \in Numbers(Sent(k))', Owed(k, i)'
    PROVE  \/ k \in 1 .. at - 1 /\ i \in Numbers(Sent(k)) /\ Owed(k, i)
           \/ Settled(k, i)'
  <1>1. at \in 1 .. Number + 1 /\ Number \in Nat /\ idx \in Nat /\ stream \in DOMAIN Streams
    BY StreamFacts DEF ScannerInv, TypeOK
  <1>2. stream' = stream
    BY Moves DEF Quiet, Advance, InLoop
  <1>3. Sent(k)' = Sent(k) /\ i \in Numbers(Sent(k))
    BY <1>2 DEF Sent, Numbers
  <1>4. Sent(k).reports[i + 1].addr_type = 1 /\ Len(Sent(k).reports[i + 1].data) \in 29 .. 30
    BY <1>3 DEF Owed
  <1>5. Whole(k)' /\ (k = at' - 1 /\ pc' = "reports" => i < idx')
    BY DEF Owed
  <1>6. CASE Quiet
    <2>1. at' = at /\ missing' = missing
      BY <1>6 DEF Quiet
    <2>2. Whole(k)
      BY <1>5, <2>1 DEF Whole
    <2>3. k = at - 1 /\ pc = "reports" => i < idx
      <3>1. CASE UNCHANGED <<pc, idx>>
        BY <1>5, <2>1, <3>1
      <3>2. CASE pc = "reports" => idx = Len(Taken.reports)
        <4>. SUFFICES ASSUME k = at - 1, pc = "reports" PROVE i < idx
          OBVIOUS
        <4>1. Sent(k) = Taken /\ idx = Len(Taken.reports)
          BY <3>2 DEF Taken
        <4>2. i \in 0 .. idx - 1
          BY <1>3, <4>1 DEF Numbers
        <4>. QED  BY <1>1, <4>2
      <3>. QED  BY <1>6, <3>1, <3>2 DEF Quiet
    <2>. QED  BY <1>3, <1>4, <2>1, <2>2, <2>3 DEF Owed
  <1>7. CASE Advance
    <2>1. at' = at + 1 /\ missing = 0 /\ pc = "scan"
      BY <1>7 DEF Advance
    <2>2. CASE k = at
      <3>1. k = at' - 1
        BY <1>1, <2>1, <2>2
      <3>2. Len(Sent(k).reports) \in Nat
        <4>1. at \in 1 .. Number
          BY <1>7 DEF Advance
        <4>. QED  BY <1>1, <2>2, <4>1, StreamFacts
      <3>3. ~(i < 0)
        BY <1>3, <3>2 DEF Numbers
      <3>4. pc' # "reports" /\ dropped' = dropped \cup ({at} \X Numbers(Event))
        BY <1>5, <1>7, <3>1, <3>3 DEF Advance
      <3>5. <<k, i>> \in dropped'
        BY <1>3, <2>2, <3>4 DEF Event
      <3>. QED  BY <3>5 DEF Settled
    <2>3. CASE k # at
      <3>1. k \in 1 .. at - 1 /\ k < at
        BY <1>1, <2>1, <2>3
      <3>2. Whole(k)
        BY <2>1, <3>1 DEF Whole
      <3>. QED  BY <1>3, <1>4, <2>1, <3>1, <3>2 DEF Owed
    <2>. QED  BY <2>2, <2>3
  <1>8. CASE InLoop /\ (ReportDropped \/ ReportSkipped \/ ReportCounted)
    <2>1. at' = at /\ missing' = missing /\ pc' = pc /\ pc = "reports" /\ idx' = idx + 1
      BY <1>8 DEF InLoop
    <2>2. Whole(k)
      BY <1>5, <2>1 DEF Whole
    <2>3. CASE k = at - 1 /\ i = idx
      <3>1. missing = 0
        BY <2>2, <2>3 DEF Whole
      <3>2. /\ Sent(at - 1).reports[idx + 1].addr_type = 1
            /\ Len(Sent(at - 1).reports[idx + 1].data) \in 29 .. 30
        BY <1>4, <2>3
      <3>. QED  BY <1>8, <2>3, <3>1, <3>2, LoopSettles
    <2>4. CASE ~(k = at - 1 /\ i = idx)
      <3>1. k = at - 1 => i < idx
        <4>. SUFFICES ASSUME k = at - 1 PROVE i < idx
          OBVIOUS
        <4>1. i < idx + 1 /\ i # idx
          BY <1>5, <2>1, <2>4
        <4>2. i \in Int
          BY <1>3 DEF Numbers
        <4>. QED  BY <1>1, <4>1, <4>2
      <3>. QED  BY <1>3, <1>4, <2>1, <2>2, <3>1 DEF Owed
    <2>. QED  BY <2>3, <2>4
  <1>. QED  BY <1>6, <1>7, <1>8, Moves

(* For every stream and cut of it: the reports that beacons sent in whole  *)
(* events are counted once, in order, or were dropped for want of memory   *)
(* (ble_readcb).                                                           *)
THEOREM CountedOnce == Spec => []EachCountedOnce
  <1>0. EachCountedOnce <=>
        /\ Ordered
        /\ \A k \in 1 .. at - 1 : \A i \in Numbers(Sent(k)) : Owed(k, i) => Settled(k, i)
    BY Zenon DEF EachCountedOnce, Ordered, Owed, Settled
  <1>1. Init => EachCountedOnce
    <2>. SUFFICES ASSUME Init PROVE EachCountedOnce
      OBVIOUS
    <2>1. heard = <<>> /\ at = 1
      BY DEF Init
    <2>2. Ordered
      BY <2>1 DEF Ordered
    <2>3. 1 .. at - 1 = {}
      BY <2>1
    <2>. QED  BY <1>0, <2>2, <2>3
  <1>2. ASSUME ScannerInv, HeardInv, [Next]_vars, EachCountedOnce PROVE EachCountedOnce'
    <2>1. Ordered'
      BY <1>0, <1>2, StaysOrdered
    <2>2. \A k \in 1 .. at' - 1 : \A i \in Numbers(Sent(k))' : Owed(k, i)' => Settled(k, i)'
      <3>. SUFFICES ASSUME NEW k, k \in 1 .. at' - 1, NEW i, i \in Numbers(Sent(k))', Owed(k, i)'
                    PROVE  Settled(k, i)'
        OBVIOUS
      <3>1. CASE k \in 1 .. at - 1 /\ i \in Numbers(Sent(k)) /\ Owed(k, i)
        <4>1. Settled(k, i)
          BY <1>0, <1>2, <3>1
        <4>. QED  BY <1>2, <4>1, StaysSettled
      <3>. QED  BY <1>2, <3>1, OwedBefore
    <2>3. EachCountedOnce' <=>
          /\ Ordered'
          /\ \A k \in 1 .. at' - 1 : \A i \in Numbers(Sent(k))' :
                Owed(k, i)' => Settled(k, i)'
      BY Zenon DEF EachCountedOnce, Ordered, Owed, Settled
    <2>. QED  BY <2>1, <2>2, <2>3
  <1>. QED  BY <1>1, <1>2, Heard, PTL DEF Spec

-----------------------------------------------------------------------------
(* The running mean                                                        *)

LEMMA Scaled ==
    ASSUME NEW a \in Int, NEW b \in Int, NEW d \in Nat, a <= b
    PROVE  d * a \in Int /\ d * b \in Int /\ d * a <= d * b
  OBVIOUS

LEMMA Unscaled ==
    ASSUME NEW a \in Int, NEW b \in Int, NEW d \in Nat \ {0}, d * a < d * b + d
    PROVE  a <= b
  <1>. SUFFICES ASSUME a >= b + 1 PROVE FALSE
    OBVIOUS
  <1>1. d * (a - b - 1) >= 0
    OBVIOUS
  <1>2. d * (a - b - 1) = d * a - d * b - d
    OBVIOUS
  <1>3. d * a \in Int /\ d * b \in Int
    OBVIOUS
  <1>. QED  BY <1>1, <1>2, <1>3

(* Quotient, rounding to zero, stays between integers around the fraction. *)
LEMMA QuotientBetween ==
    ASSUME NEW s \in Int, NEW d \in Nat \ {0}, NEW lo \in Int, NEW hi \in Int,
           d * lo <= s, s <= d * hi
    PROVE  /\ Quotient(s, d) \in Int
           /\ lo <= Quotient(s, d) /\ Quotient(s, d) <= hi
  <1>. DEFINE Fraction(n) == n \div d
  <1>1. \A n \in Nat : Fraction(n) \in Nat /\ d * Fraction(n) <= n /\ n < d * Fraction(n) + d
    OBVIOUS
  <1>2. d * lo \in Int /\ d * hi \in Int
    OBVIOUS
  <1>3. CASE s >= 0
    <2>1. PICK q \in Nat : q = Fraction(s) /\ d * q <= s /\ s < d * q + d
      BY <1>1, <1>3
    <2>2. d * q \in Int
      OBVIOUS
    <2>3. d * lo < d * q + d /\ d * q < d * hi + d
      BY <1>2, <2>1, <2>2
    <2>4. lo <= q /\ q <= hi
      BY <2>3, Unscaled
    <2>5. Quotient(s, d) = q
      BY <1>3, <2>1 DEF Quotient
    <2>. QED  BY <2>4, <2>5
  <1>4. CASE s < 0
    <2>1. -s \in Nat
      BY <1>4
    <2>2. PICK q \in Nat : q = Fraction(-s) /\ d * q <= -s /\ -s < d * q + d
      BY <1>1, <2>1
    <2>3. d * q \in Int /\ d * (-q) = -(d * q)
      OBVIOUS
    <2>4. d * lo < d * (-q) + d /\ d * (-q) < d * hi + d
      BY <1>2, <2>2, <2>3
    <2>5. lo <= -q /\ -q <= hi
      BY <2>4, Unscaled
    <2>6. Quotient(s, d) = -q
      BY <1>4, <2>2 DEF Quotient
    <2>. QED  BY <2>5, <2>6
  <1>. QED  BY <1>3, <1>4

(* The new mean lies between the old one and what is added.                *)
LEMMA MeanBetween ==
    ASSUME NEW c \in Nat, NEW p \in Int, NEW x \in Int
    PROVE  LET q == Quotient(c * p + x, c + 1) IN
           /\ q \in Int
           /\ p <= q \/ x <= q
           /\ q <= p \/ q <= x
           /\ c = 0 => q = x
  <1>. DEFINE s == c * p + x
              d == c + 1
              q == Quotient(s, d)
  <1>1. c * p \in Int /\ c * x \in Int /\ d \in Nat \ {0} /\ s \in Int
        /\ d * p = c * p + p /\ d * x = c * x + x
    OBVIOUS
  <1>2. ASSUME p <= x PROVE q \in Int /\ p <= q /\ q <= x
    <2>1. c * p <= c * x
      BY <1>2, Scaled
    <2>2. d * p <= s /\ s <= d * x
      <3>. HIDE DEF d
      <3>. QED  BY <1>1, <1>2, <2>1
    <2>. HIDE DEF d, s
    <2>. QED  BY <1>1, <2>2, QuotientBetween
  <1>3. ASSUME x <= p PROVE q \in Int /\ x <= q /\ q <= p
    <2>1. c * x <= c * p
      BY <1>3, Scaled
    <2>2. d * x <= s /\ s <= d * p
      <3>. HIDE DEF d
      <3>. QED  BY <1>1, <1>3, <2>1
    <2>. HIDE DEF d, s
    <2>. QED  BY <1>1, <2>2, QuotientBetween
  <1>4. c = 0 => q = x
    <2>1. Quotient(x, 1) = x
      BY DEF Quotient
    <2>2. c = 0 => s = x /\ d = 1
      OBVIOUS
    <2>. HIDE DEF s, d
    <2>. QED  BY <2>1, <2>2
  <1>5. p <= x \/ x <= p
    OBVIOUS
  <1>6. q \in Int /\ (p <= q \/ x <= q) /\ (q <= p \/ q <= x)
    <2>. HIDE DEF q
    <2>. QED  BY <1>2, <1>3, <1>5
  <1>. HIDE DEF q
  <1>7. q \in Int /\ (p <= q \/ x <= q) /\ (q <= p \/ q <= x) /\ (c = 0 => q = x)
    BY <1>4, <1>6
  <1>. QED  BY <1>7, Zenon DEF q

(* Counts and powers are numbers.                                          *)
NumbersInv ==
    \A id \in DOMAIN beacons : beacons[id].count \in Nat /\ beacons[id].tx_power \in Int

Saids == {h.said : h \in ToSet(heard)}
Between(S, id, t) ==
    \E a, b \in S : a.id = id /\ b.id = id /\ a.tx <= t /\ t <= b.tx

(* Counting what is said of a beacon moves its power towards that.         *)
LEMMA PowerCounted ==
    ASSUME NumbersInv, NEW S, NEW x, x.tx \in Int,
           \A a \in S : a.tx \in Int,
           \A id \in DOMAIN beacons : Between(S, id, beacons[id].tx_power),
           NEW table, table = Counted(beacons, x)
    PROVE  \A id \in DOMAIN table :
              /\ table[id].count \in Nat /\ table[id].tx_power \in Int
              /\ Between(S \cup {x}, id, table[id].tx_power)
  <1>. DEFINE b == Node(beacons, x.id)
              c == b.count
              p == b.tx_power
              q == Quotient(c * p + x.tx, c + 1)
              T == S \cup {x}
  <1>1. table = [i \in DOMAIN beacons \cup {x.id} |->
                   IF i = x.id THEN [count |-> (c + 1) % CountMod, tx_power |-> q]
                               ELSE beacons[i]]
    BY Zenon DEF Counted, With
  <1>2. c \in Nat /\ p \in Int
    <2>1. CASE x.id \in DOMAIN beacons
      BY <2>1 DEF NumbersInv, Node
    <2>2. CASE x.id \notin DOMAIN beacons
      BY <2>2 DEF Node, NewBeacon
    <2>. QED  BY <2>1, <2>2
  <1>3. q \in Int /\ (p <= q \/ x.tx <= q) /\ (q <= p \/ q <= x.tx) /\ (c = 0 => q = x.tx)
    <2>. HIDE DEF c, p
    <2>. QED  BY <1>2, MeanBetween, Zenon
  <1>4. (c + 1) % CountMod \in Nat
    <2>. HIDE DEF c
    <2>1. CountMod \in Nat \ {0}
      BY ScannerAssumption
    <2>. QED  BY <1>2, <2>1
  <1>5. Between(T, x.id, q)
    <2>1. CASE x.id \notin DOMAIN beacons
      <3>1. c = 0
        BY <2>1 DEF Node, NewBeacon
      <3>. HIDE DEF c, q
      <3>2. q = x.tx /\ x.tx <= x.tx /\ x \in T
        BY <1>3, <3>1
      <3>. HIDE DEF T
      <3>. QED  BY <3>2, Zenon DEF Between
    <2>2. CASE x.id \in DOMAIN beacons
      <3>1. PICK l \in S, h \in S : l.id = x.id /\ h.id = x.id /\ l.tx <= p /\ p <= h.tx
        BY <2>2 DEF Between, Node
      <3>2. l.tx \in Int /\ h.tx \in Int
        BY <3>1
      <3>. HIDE DEF p, q, c
      <3>3. \A k, m, n \in Int : k <= m /\ m <= n => k <= n
        OBVIOUS
      <3>4. (p <= q => l.tx <= q) /\ (q <= p => q <= h.tx)
        BY <1>2, <1>3, <3>1, <3>2, <3>3
      <3>5. l \in T /\ h \in T /\ x \in T
        OBVIOUS
      <3>. HIDE DEF T
      <3>. QED  BY <1>3, <3>1, <3>4, <3>5, Zenon DEF Between
    <2>. QED  BY <2>1, <2>2
  <1>. HIDE DEF c, p, q, b
  <1>6. ASSUME NEW id \in DOMAIN table
        PROVE  /\ table[id].count \in Nat /\ table[id].tx_power \in Int
               /\ Between(T, id, table[id].tx_power)
    <2>1. CASE id = x.id
      <3>1. table[id] = [count |-> (c + 1) % CountMod, tx_power |-> q]
        BY <1>1, <1>6, <2>1, Zenon
      <3>2. table[id].count = (c + 1) % CountMod /\ table[id].tx_power = q
        BY <3>1
      <3>. HIDE DEF T
      <3>. QED  BY <1>3, <1>4, <1>5, <2>1, <3>2, Zenon
    <2>2. CASE id # x.id
      <3>1. id \in DOMAIN beacons /\ table[id] = beacons[id]
        BY <1>1, <1>6, <2>2
      <3>2. Between(T, id, beacons[id].tx_power)
        <4>1. Between(S, id, beacons[id].tx_power)
          BY <3>1
        <4>2. S \subseteq T
          OBVIOUS
        <4>. HIDE DEF T
        <4>. QED  BY <4>1, <4>2 DEF Between
      <3>. HIDE DEF T
      <3>. QED  BY <3>1, <3>2 DEF NumbersInv
    <2>. QED  BY <2>1, <2>2
  <1>. QED  BY <1>6

(* However often its count has wrapped to zero: the power of a beacon lies *)
(* between two that were read for it (ble_readcb).                         *)
THEOREM PowerIsMean == Spec => []PowerIsAMean
  <1>0. PowerIsAMean <=> \A id \in DOMAIN beacons : Between(Saids, id, beacons[id].tx_power)
    BY Zenon DEF PowerIsAMean, Between, Saids
  <1>1. Init => NumbersInv /\ PowerIsAMean
    <2>. SUFFICES ASSUME Init PROVE NumbersInv /\ PowerIsAMean
      OBVIOUS
    <2>1. DOMAIN beacons = {}
      BY DEF Init
    <2>. QED  BY <1>0, <2>1 DEF NumbersInv
  <1>2. ASSUME ScannerInv, HeardInv, [Next]_vars, NumbersInv, PowerIsAMean
        PROVE  NumbersInv' /\ PowerIsAMean'
    <2>0. PowerIsAMean' <=>
          \A id \in DOMAIN beacons' : Between(Saids', id, beacons'[id].tx_power)
      BY Zenon DEF PowerIsAMean, Between, Saids
    <2>1. CASE UNCHANGED tableVars
      <3>1. beacons' = beacons /\ Saids' = Saids
        BY <2>1 DEF tableVars, Saids
      <3>. QED  BY <1>0, <1>2, <2>0, <3>1 DEF NumbersInv
    <2>2. CASE InLoop /\ ReportCounted
      <3>1. PICK new : Makes(new)
        BY <1>2, <2>2, CountedFacts, Zenon
      <3>. DEFINE x == new.said
      <3>2. heard \in Seq(ToSet(heard)) /\ heard' = Append(heard, new)
            /\ beacons' = Counted(beacons, x) /\ x.tx \in Int
        BY <1>2, <3>1 DEF HeardInv, Makes
      <3>3. ToSet(heard') = ToSet(heard) \cup {new}
        BY <3>2, AppendFacts
      <3>4. Saids' = Saids \cup {x}
        BY <3>3 DEF Saids
      <3>5. \A a \in Saids : a.tx \in Int
        BY <1>2 DEF Saids, HeardInv, Placed
      <3>. HIDE DEF x
      <3>6. \A id \in DOMAIN beacons' :
               /\ beacons'[id].count \in Nat /\ beacons'[id].tx_power \in Int
               /\ Between(Saids \cup {x}, id, beacons'[id].tx_power)
        BY <1>0, <1>2, <3>2, <3>5, PowerCounted, Zenon
      <3>. QED  BY <2>0, <3>4, <3>6 DEF NumbersInv
    <2>. QED  BY <1>2, <2>1, <2>2, HeardMoves
  <1>. QED  BY <1>1, <1>2, Heard, PTL DEF Spec
=============================================================================
