---------------------------- MODULE MCBleScanner ---------------------------
(***************************************************************************)
(* Instances of BleScanner for TLC.                                        *)
(***************************************************************************)
EXTENDS BleScanner

(* No two bytes of an identity are the same, and the power comes last.     *)
AddrOf(who)      == [j \in 1 .. 6 |-> 16 * who + j]
DataOf(who, len) == [j \in 1 .. len |-> IF j = len THEN 256 - 59 ELSE 32 * who + j]

Advertised(who, len, type, rssi) ==
    [addr |-> AddrOf(who), addr_type |-> type, data |-> DataOf(who, len), rssi |-> rssi]

Report29(who, rssi) == Advertised(who, 29, 1, rssi)
Report30(who, rssi) == Advertised(who, 30, 1, rssi)
Other(len, type)    == Advertised(5, len, type, -90)

(* An event with the layout of the standard, put together field by field.  *)
LEAdverts(reports) ==
    LET each(field(_)) == [i \in DOMAIN reports |-> field(reports[i])]
        data == each(LAMBDA r : r.data)
        body == <<2, Len(reports)>>
                \o each(LAMBDA r : 0)
                \o each(LAMBDA r : r.addr_type)
                \o FlattenSeq(each(LAMBDA r : r.addr))
                \o each(LAMBDA r : Len(r.data))
                \o FlattenSeq(data)
                \o each(LAMBDA r : r.rssi % 256)
    IN  [param_len |-> Len(body), reports |-> reports, body |-> body,
         places |-> [i \in 1 .. Len(reports) + 1 |-> Len(FlattenSeq(SubSeq(data, 1, i - 1)))]]

(* One report of each kind; two kinds in one event; a report that is none  *)
(* of a beacon's before one that is; lengths of 254 and 255.               *)
Events ==
    <<LEAdverts(<<Report29(1, -70)>>),
      LEAdverts(<<Report30(1, 127)>>),
      LEAdverts(<<Report30(2, -60), Report29(1, -80)>>),
      LEAdverts(<<Other(0, 0), Other(29, 0), Report30(2, -50)>>),
      LEAdverts(<<Other(9, 1)>> \o [i \in 1 .. 6 |-> Report29(1, -100 + 10 * i)]),
      LEAdverts(<<Other(8, 1)>> \o [i \in 1 .. 6 |-> Report29(2, -100 + 10 * i)])>>

Stream(m, n) ==
    [events |-> <<Events[m], Events[n]>>,
     starts |-> <<0, Size(Events[m]), Size(Events[m]) + Size(Events[n])>>]

AllPairs == [p \in (DOMAIN Events) \X (DOMAIN Events) |-> Stream(p[1], p[2])]

MCStreams == AllPairs
=============================================================================
