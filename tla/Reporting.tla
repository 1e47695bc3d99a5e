----------------------------- MODULE Reporting -----------------------------
(***************************************************************************)
(* What the child tells the server (report.c, and the end of ble_readcb):  *)
(* a packet at once for an advertisement of a secure beacon, and a         *)
(* periodic packet for the others, through the link of UdpLink.            *)
(*                                                                         *)
(* A packet is its number, its type, and the beacons it has a section for. *)
(***************************************************************************)
EXTENDS UdpLink, FiniteSets

CONSTANTS
    IBeacons,   \* the iBeacons around
    MaxPackets  \* bound: how many packets are built

ASSUME ReportingAssumption ==
    /\ MaxPackets \in Nat
    /\ Packets = [no : 1 .. MaxPackets, type : {"keepalive", "data", "secure"},
                  about : SUBSET IBeacons]

VARIABLES
    heard,      \* beacons with a count of unreported advertisements
    built       \* how many packets were built

vars == <<linkVars, heard, built>>

Init ==
    /\ LinkInit
    /\ heard = {} /\ built = 0

(* report_add_header and what follows it, then report_send.                *)
Build(type, about) ==
    /\ built < MaxPackets
    /\ built' = built + 1
    /\ ReportSend([no |-> built', type |-> type, about |-> about])

(* ble_readcb: the advertisement is counted.                               *)
HearIBeacon(b) ==
    /\ Serving
    /\ heard' = heard \cup {b}
    /\ UNCHANGED <<linkVars, built>>

(* ... and report_secure.                                                  *)
HearSecure ==
    /\ Serving
    /\ Build("secure", {})
    /\ UNCHANGED heard

(* The number of walkers report_cb hands to hash_walk: cb_idx, which is    *)
(* not counted up after the walker was put into the array.                 *)
WalkSize == 0

(* hash_walk returns at once if it is given none; report_ibeacon, which it *)
(* would call for each beacon, adds a section for those that were heard    *)
(* and clears their counts.                                                *)
Sections == IF WalkSize < 1 THEN {} ELSE heard

(* report_cb: a packet whether or not there is something to tell.          *)
ReportCb ==
    /\ Serving
    /\ Build(IF Sections = {} THEN "keepalive" ELSE "data", Sections)
    /\ heard' = heard \ Sections

Next ==
    \/ LinkNext /\ UNCHANGED <<heard, built>>
    \/ \E b \in IBeacons : HearIBeacon(b)
    \/ HearSecure \/ ReportCb

Spec == Init /\ [][Next]_vars

(* The child's event loop fires a timer that has run out and tries to send *)
(* what a socket that can be written has to send.                          *)
FairSpec == Spec /\ WF_vars(RetryFires /\ UNCHANGED <<heard, built>>)
                 /\ WF_vars((Write \/ WriteError) /\ UNCHANGED <<heard, built>>)

-----------------------------------------------------------------------------
(* Properties                                                              *)

(* Every variable holds values of its type: linkVars as in LinkTypeOK, the *)
(* counters and packets of report.c as here.                               *)
TypeOK ==
    /\ LinkTypeOK
    /\ heard \subseteq IBeacons
    /\ built \in 0 .. MaxPackets

(* Numbers grow within a datagram and from one datagram to the next.       *)
InOrder(sends) ==
    \A c, d \in DOMAIN sends : \A i \in DOMAIN sends[c], j \in DOMAIN sends[d] :
        c < d \/ (c = d /\ i < j) => sends[c][i].no < sends[d][j].no

(* Packets leave in the order they were built and none leaves twice,       *)
(* whatever errors and new connections come in between (report_send,       *)
(* udp_init).                                                              *)
PacketsInOrder == InOrder(Append(sent, out))

(* No packet stays in an output buffer for ever: it leaves, or is dropped  *)
(* with its bufferevent by the retry that follows an error (udp_eventcb).  *)
NoPacketStuck ==
    \A n \in 1 .. MaxPackets :
        (\E i \in DOMAIN out : out[i].no = n)
            ~> (misused \/ \A i \in DOMAIN out : out[i].no # n)
=============================================================================
