------------------------ MODULE WebIpcServiceProofs ------------------------
(***************************************************************************)
(* What TLAPS proves of WebIpc as a whole: when the child loses the        *)
(* framing of the responses, and that the two processes and their sockets  *)
(* implement AdminService.                                                 *)
(*                                                                         *)
(* A form is in several places at once: in the list of open requests, and  *)
(* as a list of commands, a batch or a response on its way.  Its serial    *)
(* has to name it in all of them, the places it passes through have to     *)
(* keep the order of the forms, and what is said of it has to be what was  *)
(* done for it.  The invariant has a part for each.                        *)
(***************************************************************************)
EXTENDS WebIpcProofs

(* Serials do not repeat: they are 2^32 (http.c: ipc_serial).              *)
SerialsSuffice == MaxPosts < SerialMod

-----------------------------------------------------------------------------
(* The invariant                                                           *)

(* The names of forms in all the places they can be.                       *)
Tag(m) == [req |-> m.req, serial |-> m.serial]
OpenTags == {Tag(reqList[i]) : i \in DOMAIN reqList}
ListTags == {Tag(toParent[i]) : i \in DOMAIN toParent}
SentTags == {Tag(toChild[i]) : i \in DOMAIN toChild}
Tags == OpenTags \cup ListTags \cup SentTags
            \cup (IF batch.req = 0 THEN {} ELSE {Tag(batch)})

(* Serials follow the order of the forms, so that one names one form.      *)
TagInv ==
    /\ ipcSerial <= posted
    /\ \A t \in Tags : t.req <= posted /\ t.serial < ipcSerial
    /\ \A t, u \in Tags :
          /\ t.req < u.req => t.serial < u.serial
          /\ t.req = u.req => t.serial = u.serial

(* Lists wait in the order of their forms behind the one that runs.        *)
QueueInv ==
    /\ \A i, j \in DOMAIN toParent : i < j => toParent[i].req < toParent[j].req
    /\ batch.req # 0 => \A i \in DOMAIN toParent : batch.req < toParent[i].req
    /\ parentPc \in {"wait", "scan", "lost"} => batch = NoBatch

(* A response is about an earlier form than what comes after it; only of   *)
(* one that tells of a failed allocation the form may come again.          *)
Before(m, r) == m.req <= r /\ (m.status = "success" => m.req < r)

SentInv ==
    /\ \A i, j \in DOMAIN toChild : i < j => Before(toChild[i], toChild[j].req)
    /\ batch.req # 0 => \A i \in DOMAIN toChild : Before(toChild[i], batch.req)
    /\ \A i \in DOMAIN toChild, j \in DOMAIN toParent :
          Before(toChild[i], toParent[j].req)

(* What a response and the one being built say is what was done.           *)
Tells(m) == done[m.req] # <<>> /\ m.code = CodeOf[Last(done[m.req])]

BatchTells ==
    IF done[batch.req] = <<>> THEN batch.cmds # <<>> /\ batch.status = "error"
    ELSE IF batch.status = "success" THEN Tells(batch)
    ELSE LeftWithError(batch.req)

DoneInv ==
    /\ \A i \in DOMAIN toParent : done[toParent[i].req] = <<>> /\ toParent[i].cmds # <<>>
    /\ \A r \in Req : r > posted => done[r] = <<>>
    /\ \A i \in DOMAIN toChild : toChild[i].status = "success" => Tells(toChild[i])
    /\ running /\ parentPc = "exec" => BatchTells

(* A form that may still succeed is open, or was refused, or its response  *)
(* is the one the child raised its watermark for.                          *)
Refused(r) == replies[r] = <<TryAgain>>
Owed(r)    == Open(r) \/ Refused(r)

OwedInv ==
    /\ \A r \in Req : Waits(r) => Owed(r)
    /\ \A r \in Req, i \in DOMAIN toChild :
          toChild[i].req = r /\ toChild[i].status = "success" =>
             Owed(r) \/ (i = 1 /\ HeadAwaited)

FlightInv == TagInv /\ QueueInv /\ SentInv /\ DoneInv

-----------------------------------------------------------------------------
(* What the types give of messages and forms.                              *)

LEMMA FormNumbers ==
    (\A r \in Req : r \in Nat /\ r # 0) /\ (\A n \in Serials : n \in Nat)
BY BoundsAssumption DEF Req, Serials

LEMMA ListTypes ==
    ASSUME TypeOK
    PROVE  /\ toParent \in Seq(Lists)
           /\ Len(toParent) \in Nat /\ DOMAIN toParent = 1 .. Len(toParent)
           /\ \A i \in DOMAIN toParent :
                 /\ toParent[i].req \in Req /\ toParent[i].serial \in Nat
                 /\ toParent[i].cmds \in Seq(Commands)
<1>1. toParent \in Seq(Lists)
  BY DEF TypeOK, ParentEndType
<1>2. Len(toParent) \in Nat /\ DOMAIN toParent = 1 .. Len(toParent)
  BY <1>1
<1>3. ASSUME NEW i \in DOMAIN toParent
      PROVE  /\ toParent[i].req \in Req /\ toParent[i].serial \in Nat
             /\ toParent[i].cmds \in Seq(Commands)
  <2>1. toParent[i] \in Lists
    BY <1>1
  <2> QED
    BY <2>1, FormNumbers DEF Lists
<1> QED
  BY <1>1, <1>2, <1>3

LEMMA ResponseTypes ==
    ASSUME TypeOK
    PROVE  /\ toChild \in Seq(Responses)
           /\ Len(toChild) \in Nat /\ DOMAIN toChild = 1 .. Len(toChild)
           /\ \A i \in DOMAIN toChild :
                 /\ toChild[i].req \in Req /\ toChild[i].serial \in Nat
                 /\ toChild[i].len \in Nat
                 /\ toChild[i].status \in {"abort", "success"}
                 /\ toChild[i].status = "abort" => toChild[i].len = 0
<1>1. toChild \in Seq(Responses)
  BY DEF TypeOK, ChildEndType
<1>2. Len(toChild) \in Nat /\ DOMAIN toChild = 1 .. Len(toChild)
  BY <1>1
<1>3. ASSUME NEW i \in DOMAIN toChild
      PROVE  /\ toChild[i].req \in Req /\ toChild[i].serial \in Nat
             /\ toChild[i].len \in Nat
             /\ toChild[i].status \in {"abort", "success"}
             /\ toChild[i].status = "abort" => toChild[i].len = 0
  <2>1. toChild[i] \in Aborts \/ toChild[i] \in Successes
    BY <1>1 DEF Responses
  <2>2. /\ toChild[i].req \in Req /\ toChild[i].serial \in Serials
        /\ toChild[i].len \in 0 .. 2
        /\ toChild[i].status \in {"abort", "success"}
        /\ toChild[i].status = "abort" => toChild[i].len = 0
    BY <2>1 DEF Aborts, Successes
  <2>3. toChild[i].serial \in Nat
    BY <2>2, FormNumbers
  <2>4. toChild[i].len \in Nat
    BY <2>2
  <2> QED
    BY <2>2, <2>3, <2>4
<1> QED
  BY <1>1, <1>2, <1>3

LEMMA BatchTypes ==
    ASSUME TypeOK
    PROVE  /\ batch.req \in Nat /\ batch.serial \in Nat /\ batch.cmds \in Seq(Commands)
           /\ batch.req # 0 => batch.req \in Req
           /\ batch.status \in Statuses
           /\ parentPc = "exec" => batch.req \in Req /\ batch.req # 0
<1>1. /\ batch.req \in 0 .. MaxPosts /\ batch.serial \in Serials
      /\ batch.cmds \in Seq(Commands) /\ batch.status \in Statuses
      /\ parentPc = "exec" => batch.req \in Req
  BY DEF TypeOK, BatchType
<1>2. batch.serial \in Nat
  BY <1>1, FormNumbers
<1>3. batch.req \in Nat /\ (batch.req # 0 => batch.req \in Req)
  BY <1>1, BoundsAssumption DEF Req
<1> QED
  BY <1>1, <1>2, <1>3, FormNumbers

LEMMA TagTypes ==
    ASSUME TypeOK, NEW t \in Tags
    PROVE  t.req \in Req /\ t.req \in Nat /\ t.serial \in Nat
<1>1. CASE t \in OpenTags
  <2>1. PICK i \in DOMAIN reqList : t = Tag(reqList[i])
    BY <1>1 DEF OpenTags
  <2> QED
    BY <2>1, EntryTypes DEF Tag, TypeOK
<1>2. CASE t \in ListTags
  <2>1. PICK i \in DOMAIN toParent : t = Tag(toParent[i])
    BY <1>2 DEF ListTags
  <2> QED
    BY <2>1, ListTypes, FormNumbers DEF Tag
<1>3. CASE t \in SentTags
  <2>1. PICK i \in DOMAIN toChild : t = Tag(toChild[i])
    BY <1>3 DEF SentTags
  <2> QED
    BY <2>1, ResponseTypes, FormNumbers DEF Tag
<1>4. CASE batch.req # 0 /\ t = Tag(batch)
  BY <1>4, BatchTypes DEF Tag
<1> QED
  BY <1>1, <1>2, <1>3, <1>4 DEF Tags

-----------------------------------------------------------------------------
(* Names                                                                   *)

(* A step that draws no serial and names no form anew.                     *)
LEMMA TagsKept ==
    TagInv /\ UNCHANGED <<posted, ipcSerial>> /\ Tags' \subseteq Tags => TagInv'
BY DEF TagInv

(* A form that is refused may use up a serial.                             *)
LEMMA TagsRefuse ==
    ASSUME TypeOK, TagInv, posted' = posted + 1,
           ipcSerial' \in {ipcSerial, ipcSerial + 1}, Tags' = Tags
    PROVE  TagInv'
<1>1. posted \in Nat /\ ipcSerial \in Nat
  BY EntryTypes DEF TypeOK
<1>2. ASSUME NEW t \in Tags PROVE t.req <= posted' /\ t.serial < ipcSerial'
  BY <1>1, TagTypes DEF TagInv
<1> QED
  BY <1>1, <1>2 DEF TagInv

(* A form that is accepted takes the next name.                            *)
LEMMA TagsPost ==
    ASSUME TypeOK, TagInv, posted' = posted + 1, ipcSerial' = ipcSerial + 1,
           Tags' \subseteq Tags \cup {[req |-> posted', serial |-> ipcSerial]}
    PROVE  TagInv'
<1> DEFINE new == [req |-> posted + 1, serial |-> ipcSerial]
<1>1. posted \in Nat /\ ipcSerial \in Nat
  BY EntryTypes DEF TypeOK
<1>2. \A t \in Tags : /\ t.req \in Nat /\ t.serial \in Nat
                       /\ t.req < new.req /\ t.serial < new.serial
  BY <1>1, TagTypes DEF TagInv
<1>3. \A t \in Tags' : t \in Tags \/ t = new
  OBVIOUS
<1>4. new.req = posted + 1 /\ new.serial = ipcSerial
  OBVIOUS
<1> HIDE DEF new
<1>5. ASSUME NEW t \in Tags' PROVE t.req <= posted' /\ t.serial < ipcSerial'
  BY <1>1, <1>2, <1>3, <1>4
<1>6. ASSUME NEW t \in Tags', NEW u \in Tags'
      PROVE  /\ t.req < u.req => t.serial < u.serial
             /\ t.req = u.req => t.serial = u.serial
  <2>1. CASE t \in Tags /\ u \in Tags
    BY <2>1 DEF TagInv
  <2>2. CASE t = new \/ u = new
    BY <1>1, <1>2, <1>3, <1>4, <2>2
  <2> QED
    BY <1>3, <2>1, <2>2
<1>7. ipcSerial' <= posted'
  BY <1>1 DEF TagInv
<1> QED
  BY <1>5, <1>6, <1>7 DEF TagInv

(* A serial names one form.                                                *)
LEMMA OneForm ==
    ASSUME TypeOK, TagInv, NEW t \in Tags, NEW u \in Tags, t.serial = u.serial
    PROVE  t.req = u.req
BY TagTypes DEF TagInv

LEMMA SerialDrawn ==
    ASSUME SerialsSuffice, TypeOK, TagInv, CanPost
    PROVE  NextSerial(ipcSerial) = ipcSerial + 1
<1>1. /\ ipcSerial \in Nat /\ posted \in Nat /\ posted < MaxPosts
      /\ ipcSerial <= posted /\ MaxPosts \in Nat /\ SerialMod \in Nat
  BY EntryTypes, BoundsAssumption DEF TypeOK, TagInv, CanPost
<1>2. ipcSerial + 1 # SerialMod
  BY <1>1 DEF SerialsSuffice
<1> QED
  BY <1>2 DEF NextSerial

(* The request a response is matched with is the one it is about; one that *)
(* matches none is about none that is open.                                *)
LEMMA MatchIsOwn ==
    ASSUME TypeOK, TagInv, ReplyInv, ChildScans
    PROVE  /\ \A i \in DOMAIN reqList : Matches(i) => reqList[i].req = Response.req
           /\ (\A i \in DOMAIN reqList : ~Matches(i)) => ~Open(Response.req)
<1>1. Response = toChild[1] /\ 1 \in DOMAIN toChild
  BY ResponseTypes DEF Response, ChildScans
<1>2. Tag(Response) \in Tags /\ \A i \in DOMAIN reqList : Tag(reqList[i]) \in Tags
  BY <1>1 DEF Tags, SentTags, OpenTags
<1>3. ASSUME NEW i \in DOMAIN reqList, reqList[i].serial = Response.serial
      PROVE  reqList[i].req = Response.req
  BY <1>2, <1>3, OneForm DEF Tag
<1>4. ASSUME NEW i \in DOMAIN reqList, reqList[i].req = Response.req PROVE Matches(i)
  <2>1. reqList[i].serial = Response.serial
    BY <1>2, <1>4 DEF TagInv, Tag
  <2>2. ASSUME NEW j \in 1 .. i - 1, reqList[j].serial = Response.serial PROVE FALSE
    <3>1. j \in DOMAIN reqList /\ j < i
      BY EntryTypes DEF TypeOK
    <3>2. reqList[j].req = reqList[i].req
      BY <1>3, <1>4, <2>2, <3>1
    <3>3. reqList[j].req < reqList[i].req
      BY <3>1 DEF ReplyInv, RequestsOrdered
    <3> QED
      BY <3>1, <3>2, <3>3, EntryTypes DEF TypeOK
  <2> QED
    BY <2>1, <2>2 DEF Matches
<1> QED
  BY <1>3, <1>4 DEF Matches, Open

-----------------------------------------------------------------------------
(* The order of what is under way, and what is said of it                  *)

(* A step in which no message moves and no command runs.                   *)
LEMMA FlightFrame ==
    ASSUME FlightInv,
           UNCHANGED <<posted, ipcSerial, toParent, toChild, batch, done>>,
           OpenTags' \subseteq OpenTags,
           parentPc' \in {"wait", "scan", "lost"} => batch = NoBatch,
           running' /\ parentPc' = "exec" => running /\ parentPc = "exec"
    PROVE  FlightInv'
<1>1. TagInv'
  <2>1. Tags' \subseteq Tags
    BY DEF Tags, ListTags, SentTags, Tag
  <2> QED
    BY <2>1, TagsKept DEF FlightInv
<1>2. QueueInv' /\ SentInv'
  BY DEF FlightInv, QueueInv, SentInv, Before
<1>3. DoneInv'
  BY DEF FlightInv, DoneInv, BatchTells, Tells, LeftWithError
<1> QED
  BY <1>1, <1>2, <1>3 DEF FlightInv

LEMMA FlightRefuse ==
    ASSUME TypeOK, FlightInv, NEW code, RefusePost(code),
           ipcSerial' \in {ipcSerial, ipcSerial + 1}
    PROVE  FlightInv'
<1>1. /\ posted' = posted + 1 /\ posted \in Nat
      /\ UNCHANGED <<reqList, toChild, toParent, batch, parentPc, running, done>>
  BY EntryTypes DEF RefusePost, TypeOK, parentVars, ranVars
<1>2. TagInv'
  <2>1. Tags' = Tags
    BY <1>1 DEF Tags, OpenTags, ListTags, SentTags, Tag
  <2> QED
    BY <1>1, <2>1, TagsRefuse DEF FlightInv
<1>3. QueueInv' /\ SentInv'
  BY <1>1 DEF FlightInv, QueueInv, SentInv, Before
<1>4. \A r \in Req : r > posted' => r > posted
  BY <1>1, FormNumbers
<1>5. DoneInv'
  BY <1>1, <1>4 DEF FlightInv, DoneInv, BatchTells, Tells, LeftWithError
<1> QED
  BY <1>2, <1>3, <1>5 DEF FlightInv

(* Every form under way is one that was posted.                            *)
LEMMA UnderWayPosted ==
    ASSUME FlightInv
    PROVE  /\ \A i \in DOMAIN reqList : reqList[i].req <= posted
           /\ \A i \in DOMAIN toParent : toParent[i].req <= posted
           /\ \A i \in DOMAIN toChild : toChild[i].req <= posted
           /\ batch.req # 0 => batch.req <= posted
<1>1. \A i \in DOMAIN reqList : Tag(reqList[i]) \in Tags
  BY DEF Tags, OpenTags
<1>2. \A i \in DOMAIN toParent : Tag(toParent[i]) \in Tags
  BY DEF Tags, ListTags
<1>3. \A i \in DOMAIN toChild : Tag(toChild[i]) \in Tags
  BY DEF Tags, SentTags
<1>4. batch.req # 0 => Tag(batch) \in Tags
  BY DEF Tags
<1> QED
  BY <1>1, <1>2, <1>3, <1>4 DEF FlightInv, TagInv, Tag

LEMMA FlightPost ==
    ASSUME SerialsSuffice, TypeOK, FlightInv, NEW cmds \in Batches, HttpPost(cmds)
    PROVE  FlightInv'
<1> DEFINE n == Len(toParent)
           list == [serial |-> ipcSerial, req |-> posted', cmds |-> cmds]
<1>1. /\ posted' = posted + 1 /\ ipcSerial' = ipcSerial + 1 /\ posted \in Nat
      /\ posted' \in Req
      /\ reqList' = Append(reqList, [serial |-> ipcSerial, req |-> posted'])
      /\ toParent' = Append(toParent, list)
      /\ UNCHANGED <<toChild, batch, parentPc, running, done>>
  <2>1. posted \in Nat /\ posted + 1 \in Req
    BY BoundsAssumption, EntryTypes DEF HttpPost, CanPost, Req, TypeOK
  <2> QED
    BY <2>1, SerialDrawn DEF FlightInv, HttpPost, parentVars, ranVars
<1>2. /\ n \in Nat /\ DOMAIN toParent = 1 .. n /\ DOMAIN toParent' = 1 .. n + 1
      /\ \A i \in 1 .. n : toParent'[i] = toParent[i]
      /\ toParent'[n + 1] = list
  BY <1>1, ListTypes
<1>3. /\ \A i \in DOMAIN reqList' :
            \/ i \in DOMAIN reqList /\ reqList'[i] = reqList[i]
            \/ reqList'[i] = [serial |-> ipcSerial, req |-> posted']
  BY <1>1 DEF TypeOK, WebType
<1>4. list.req = posted' /\ list.serial = ipcSerial /\ list.cmds # <<>>
  BY InstanceAssumption
<1> HIDE DEF n, list
<1>5. TagInv'
  <2>1. ListTags' \subseteq ListTags \cup {[req |-> posted', serial |-> ipcSerial]}
    BY <1>2, <1>4 DEF ListTags, Tag
  <2>2. OpenTags' \subseteq OpenTags \cup {[req |-> posted', serial |-> ipcSerial]}
    BY <1>3 DEF OpenTags, Tag
  <2>3. Tags' \subseteq Tags \cup {[req |-> posted', serial |-> ipcSerial]}
    BY <1>1, <2>1, <2>2 DEF Tags, SentTags, Tag
  <2> QED
    BY <1>1, <2>3, TagsPost DEF FlightInv
<1>6. QueueInv'
  <2>1. ASSUME NEW i \in 1 .. n + 1, NEW j \in 1 .. n + 1, i < j
        PROVE  toParent'[i].req < toParent'[j].req
    <3>1. CASE j \in 1 .. n
      BY <1>2, <2>1, <3>1 DEF FlightInv, QueueInv
    <3>2. CASE j = n + 1
      <4>1. toParent'[j].req = posted + 1 /\ i \in DOMAIN toParent
            /\ toParent'[i] = toParent[i]
        BY <1>1, <1>2, <1>4, <2>1, <3>2
      <4>2. toParent[i].req \in Nat /\ toParent[i].req <= posted
        BY <4>1, UnderWayPosted, ListTypes, FormNumbers
      <4> QED
        BY <1>1, <4>1, <4>2
    <3> QED
      BY <1>2, <3>1, <3>2
  <2>2. ASSUME batch.req # 0, NEW i \in 1 .. n + 1 PROVE batch.req < toParent'[i].req
    <3>1. CASE i \in 1 .. n
      BY <1>2, <2>2, <3>1 DEF FlightInv, QueueInv
    <3>2. CASE i = n + 1
      BY <1>1, <1>2, <1>4, <2>2, <3>2, UnderWayPosted, BatchTypes
    <3> QED
      BY <1>2, <3>1, <3>2
  <2> QED
    BY <1>1, <1>2, <2>1, <2>2 DEF FlightInv, QueueInv
<1>7. SentInv'
  <2>1. ASSUME NEW i \in DOMAIN toChild, NEW j \in 1 .. n + 1
        PROVE  Before(toChild[i], toParent'[j].req)
    <3>1. CASE j \in 1 .. n
      BY <1>2, <3>1 DEF FlightInv, SentInv
    <3>2. CASE j = n + 1
      <4>1. toParent'[j].req = posted + 1
        BY <1>1, <1>2, <1>4, <3>2
      <4>2. toChild[i].req \in Nat /\ toChild[i].req <= posted
        BY UnderWayPosted, ResponseTypes, FormNumbers
      <4> QED
        BY <1>1, <4>1, <4>2 DEF Before
    <3> QED
      BY <1>2, <3>1, <3>2
  <2> QED
    BY <1>1, <1>2, <2>1 DEF FlightInv, SentInv, Before
<1>8. DoneInv'
  <2>1. ASSUME NEW i \in 1 .. n + 1
        PROVE  done[toParent'[i].req] = <<>> /\ toParent'[i].cmds # <<>>
    <3>1. CASE i \in 1 .. n
      BY <1>2, <3>1 DEF FlightInv, DoneInv
    <3>2. CASE i = n + 1
      <4>1. toParent'[i] = list
        BY <1>2, <3>2
      <4>2. posted + 1 > posted
        BY <1>1
      <4>3. done[posted + 1] = <<>>
        BY <1>1, <4>2 DEF FlightInv, DoneInv
      <4> QED
        BY <1>1, <1>4, <4>1, <4>3
    <3> QED
      BY <1>2, <3>1, <3>2
  <2>2. \A r \in Req : r > posted' => r > posted
    BY <1>1, FormNumbers
  <2> QED
    BY <1>1, <1>2, <2>1, <2>2 DEF FlightInv, DoneInv, BatchTells, Tells, LeftWithError
<1> QED
  BY <1>5, <1>6, <1>7, <1>8 DEF FlightInv

(* The child drains a response.                                            *)
LEMMA FlightDrained ==
    ASSUME TypeOK, FlightInv, toChild # <<>>, toChild' = Tail(toChild),
           OpenTags' \subseteq OpenTags,
           UNCHANGED <<posted, ipcSerial, toParent, batch, done, parentPc, running>>
    PROVE  FlightInv'
<1>1. /\ Len(toChild) \in Nat /\ DOMAIN toChild = 1 .. Len(toChild)
      /\ DOMAIN toChild' = 1 .. Len(toChild) - 1
      /\ \A i \in DOMAIN toChild' : i + 1 \in DOMAIN toChild /\ toChild'[i] = toChild[i + 1]
  BY ResponseTypes
<1>2. TagInv'
  <2>1. SentTags' \subseteq SentTags
    BY <1>1 DEF SentTags, Tag
  <2>2. Tags' \subseteq Tags
    BY <2>1 DEF Tags, ListTags, Tag
  <2> QED
    BY <2>2, TagsKept DEF FlightInv
<1>3. QueueInv'
  BY DEF FlightInv, QueueInv
<1>4. SentInv'
  <2>1. ASSUME NEW i \in DOMAIN toChild', NEW j \in DOMAIN toChild', i < j
        PROVE  Before(toChild'[i], toChild'[j].req)
    <3>1. i + 1 \in DOMAIN toChild /\ j + 1 \in DOMAIN toChild /\ i + 1 < j + 1
      BY <1>1, <2>1
    <3> QED
      BY <1>1, <3>1 DEF FlightInv, SentInv
  <2> QED
    BY <1>1, <2>1 DEF FlightInv, SentInv, Before
<1>5. DoneInv'
  BY <1>1 DEF FlightInv, DoneInv, BatchTells, Tells, LeftWithError
<1> QED
  BY <1>2, <1>3, <1>4, <1>5 DEF FlightInv

(* The parent takes the list at the head.                                  *)
LEMMA FlightTake ==
    ASSUME TypeOK, FlightInv, ParentTake
    PROVE  FlightInv'
<1>1. /\ Len(toParent) \in Nat /\ DOMAIN toParent = 1 .. Len(toParent)
      /\ 1 \in DOMAIN toParent /\ Head(toParent) = toParent[1]
      /\ DOMAIN toParent' = 1 .. Len(toParent) - 1
      /\ \A i \in DOMAIN toParent' :
            /\ i + 1 \in DOMAIN toParent /\ 1 < i + 1
            /\ toParent'[i] = toParent[i + 1]
  BY ListTypes DEF ParentTake, ParentScans
<1>2. /\ UNCHANGED <<posted, ipcSerial, reqList, toChild, done, running>>
      /\ parentPc' = "exec"
      /\ batch' = [req |-> toParent[1].req, serial |-> toParent[1].serial,
                   cmds |-> toParent[1].cmds,
                   status |-> "error", code |-> 0, len |-> 0]
  BY <1>1 DEF ParentTake, webVars, ranVars
<1>3. /\ batch'.req = toParent[1].req /\ batch'.serial = toParent[1].serial
      /\ batch'.cmds = toParent[1].cmds /\ batch'.status = "error"
  BY <1>2
<1>4. TagInv'
  <2>1. ListTags' \subseteq ListTags
    BY <1>1 DEF ListTags, Tag
  <2>2. Tag(batch)' \in ListTags
    BY <1>1, <1>3 DEF ListTags, Tag
  <2>3. OpenTags' = OpenTags /\ SentTags' = SentTags
    BY <1>2 DEF OpenTags, SentTags, Tag
  <2>4. Tags' \subseteq Tags
    BY <2>1, <2>2, <2>3 DEF Tags
  <2> QED
    BY <1>2, <2>4, TagsKept DEF FlightInv
<1>5. QueueInv'
  <2>1. ASSUME NEW i \in DOMAIN toParent', NEW j \in DOMAIN toParent', i < j
        PROVE  toParent'[i].req < toParent'[j].req
    <3>1. i + 1 \in DOMAIN toParent /\ j + 1 \in DOMAIN toParent /\ i + 1 < j + 1
      BY <1>1, <2>1
    <3> QED
      BY <1>1, <3>1 DEF FlightInv, QueueInv
  <2>2. \A i \in DOMAIN toParent' : batch'.req < toParent'[i].req
    BY <1>1, <1>3 DEF FlightInv, QueueInv
  <2> QED
    BY <1>2, <2>1, <2>2 DEF QueueInv
<1>6. SentInv'
  BY <1>1, <1>2, <1>3 DEF FlightInv, SentInv, Before
<1>7. DoneInv'
  <2>1. BatchTells'
    BY <1>1, <1>2, <1>3 DEF FlightInv, DoneInv, BatchTells
  <2> QED
    BY <1>1, <1>2, <2>1 DEF FlightInv, DoneInv, Tells
<1> QED
  BY <1>4, <1>5, <1>6, <1>7 DEF FlightInv

(* The parent sends a response: that it has no memory, or of its batch.    *)
LEMMA FlightSent ==
    ASSUME TypeOK, FlightInv, NEW m \in Responses,
           toChild' = Append(toChild, m), Tag(m) \in Tags,
           UNCHANGED <<posted, ipcSerial, reqList, toParent, done>>,
           batch' = NoBatch, parentPc' # "exec",
           m.status = "success" => Tells(m),
           \A i \in DOMAIN toChild : Before(toChild[i], m.req),
           \A i \in DOMAIN toParent : Before(m, toParent[i].req)
    PROVE  FlightInv'
<1> DEFINE n == Len(toChild)
<1>1. /\ n \in Nat /\ DOMAIN toChild = 1 .. n /\ DOMAIN toChild' = 1 .. n + 1
      /\ \A i \in 1 .. n : toChild'[i] = toChild[i]
      /\ toChild'[n + 1] = m
  BY ResponseTypes
<1> HIDE DEF n
<1>2. batch'.req = 0
  BY DEF NoBatch
<1>3. TagInv'
  <2>1. SentTags' \subseteq SentTags \cup {Tag(m)}
    BY <1>1 DEF SentTags, Tag
  <2>2. OpenTags' = OpenTags /\ ListTags' = ListTags
    BY DEF OpenTags, ListTags, Tag
  <2>3. Tags' \subseteq Tags
    BY <1>2, <2>1, <2>2 DEF Tags
  <2> QED
    BY <2>3, TagsKept DEF FlightInv
<1>4. QueueInv'
  BY <1>2 DEF FlightInv, QueueInv
<1>5. SentInv'
  <2>1. ASSUME NEW i \in 1 .. n + 1, NEW j \in 1 .. n + 1, i < j
        PROVE  Before(toChild'[i], toChild'[j].req)
    <3>1. CASE j \in 1 .. n
      BY <1>1, <2>1, <3>1 DEF FlightInv, SentInv
    <3>2. CASE j = n + 1
      BY <1>1, <2>1, <3>2
    <3> QED
      BY <1>1, <3>1, <3>2
  <2>2. ASSUME NEW i \in 1 .. n + 1, NEW j \in DOMAIN toParent
        PROVE  Before(toChild'[i], toParent[j].req)
    BY <1>1, <2>2 DEF FlightInv, SentInv
  <2> QED
    BY <1>1, <1>2, <2>1, <2>2 DEF SentInv, Before
<1>6. DoneInv'
  BY <1>1 DEF FlightInv, DoneInv, Tells
<1> QED
  BY <1>3, <1>4, <1>5, <1>6 DEF FlightInv

LEMMA FlightNoMemory ==
    ASSUME TypeOK, FlightInv, ParentNoMemory
    PROVE  FlightInv'
<1>1. /\ 1 \in DOMAIN toParent /\ DOMAIN toParent = 1 .. Len(toParent)
      /\ Head(toParent) = toParent[1]
      /\ parentPc = "scan" /\ parentPc' \in {"wait", "lost"}
      /\ UNCHANGED <<posted, ipcSerial, reqList, toParent, done, batch>>
      /\ toChild' = Append(toChild, Abort)
  BY ListTypes DEF ParentNoMemory, ParentScans, webVars, ranVars
<1>2. batch' = NoBatch
  BY <1>1 DEF FlightInv, QueueInv
<1>3. Abort \in Responses
  BY <1>1, HeadList DEF TypeOK, Abort, Lists, Responses, Aborts, ParentNoMemory, ParentScans
<1>4. /\ Abort.req = toParent[1].req /\ Abort.serial = toParent[1].serial
      /\ Abort.status = "abort"
  BY <1>1 DEF Abort
<1>5. Tag(Abort) \in Tags
  BY <1>1, <1>4 DEF Tags, ListTags, Tag
<1>6. \A i \in DOMAIN toChild : Before(toChild[i], Abort.req)
  BY <1>1, <1>4 DEF FlightInv, SentInv
<1>7. ASSUME NEW i \in DOMAIN toParent PROVE Before(Abort, toParent[i].req)
  <2>1. CASE i = 1
    BY <1>1, <1>4, <2>1, ListTypes, FormNumbers DEF Before
  <2>2. CASE i # 1
    <3>1. 1 < i
      BY <1>1, <2>2, ListTypes
    <3>2. toParent[1].req < toParent[i].req
      BY <1>1, <3>1 DEF FlightInv, QueueInv
    <3> QED
      BY <1>1, <1>4, <3>2, ListTypes, FormNumbers DEF Before
  <2> QED
    BY <2>1, <2>2
<1> QED
  BY <1>1, <1>2, <1>3, <1>4, <1>5, <1>6, <1>7, FlightSent

LEMMA FlightRespond ==
    ASSUME TypeOK, FlightInv, ParentRespond
    PROVE  FlightInv'
<1> DEFINE m == [serial |-> batch.serial, req |-> batch.req, status |-> batch.status,
                 code |-> batch.code, len |-> batch.len]
<1>1. /\ UNCHANGED <<posted, ipcSerial, reqList, toParent, done>>
      /\ toChild' = Append(toChild, m) /\ batch' = NoBatch /\ parentPc' # "exec"
      /\ running /\ parentPc = "exec" /\ batch.status = "success" /\ batch.cmds = <<>>
  BY DEF ParentRespond, ListSucceeded, webVars, ranVars
<1>2. m \in Responses
  BY <1>1 DEF TypeOK, BatchType, Responses, Successes
<1>3. m.req = batch.req /\ m.serial = batch.serial /\ m.code = batch.code
  OBVIOUS
<1> HIDE DEF m
<1>4. batch.req # 0
  BY <1>1, BatchTypes
<1>5. Tag(m) \in Tags
  BY <1>3, <1>4 DEF Tags, Tag
<1>6. Tells(m)
  BY <1>1, <1>3 DEF FlightInv, DoneInv, BatchTells, Tells
<1>7. \A i \in DOMAIN toChild : Before(toChild[i], m.req)
  BY <1>3, <1>4 DEF FlightInv, SentInv
<1>8. ASSUME NEW i \in DOMAIN toParent PROVE Before(m, toParent[i].req)
  <2>1. batch.req < toParent[i].req
    BY <1>4 DEF FlightInv, QueueInv
  <2> QED
    BY <1>3, <2>1, BatchTypes, ListTypes, FormNumbers DEF Before
<1> QED
  BY <1>1, <1>2, <1>5, <1>6, <1>7, <1>8, FlightSent

LEMMA FlightBreak ==
    ASSUME TypeOK, FlightInv, ParentBreak
    PROVE  FlightInv'
<1>1. /\ UNCHANGED <<posted, ipcSerial, reqList, toParent, toChild, done>>
      /\ batch' = NoBatch /\ batch'.req = 0 /\ parentPc' = "wait"
  BY DEF ParentBreak, NoBatch, webVars, ranVars
<1>2. TagInv'
  <2>1. Tags' \subseteq Tags
    BY <1>1 DEF Tags, OpenTags, ListTags, SentTags, Tag
  <2> QED
    BY <1>1, <2>1, TagsKept DEF FlightInv
<1>3. QueueInv' /\ SentInv'
  BY <1>1 DEF FlightInv, QueueInv, SentInv, Before
<1>4. DoneInv'
  BY <1>1 DEF FlightInv, DoneInv, Tells
<1> QED
  BY <1>2, <1>3, <1>4 DEF FlightInv

(* A command runs: an outcome is added for the form of the batch.          *)
LEMMA OutcomeAdded ==
    ASSUME TypeOK, NEW out \in Outcomes, Executing(out),
           done' = [done EXCEPT ![batch.req] = Append(@, out)]
    PROVE  /\ done'[batch.req] = Append(done[batch.req], out)
           /\ done[batch.req] \in Seq(Outcomes)
           /\ done'[batch.req] # <<>> /\ Last(done'[batch.req]) = out
           /\ \A r \in Req : r # batch.req => done'[r] = done[r]
<1>1. batch.req \in Req /\ done \in [Req -> Seq(Outcomes)]
  BY BatchTypes DEF TypeOK, RanType, Executing
<1>2. done[batch.req] \in Seq(Outcomes) /\ done'[batch.req] = Append(done[batch.req], out)
  BY <1>1
<1>3. Append(done[batch.req], out) # <<>> /\ Last(Append(done[batch.req], out)) = out
  BY <1>2 DEF Last
<1> QED
  BY <1>1, <1>2, <1>3

(* ... which is an error after errors.                                     *)
LEMMA ErrorAdded ==
    ASSUME TypeOK, NEW out \in Outcomes, Executing(out), batch'.req = batch.req,
           done' = [done EXCEPT ![batch.req] = Append(@, out)],
           done[batch.req] = <<>> \/ LeftWithError(batch.req),
           IF OutOfMemory THEN out # "ok" ELSE ~Succeeds(out)
    PROVE  LeftWithError(batch.req)'
<1> DEFINE was == done[batch.req]
           now == done'[batch.req]
<1>1. /\ was \in Seq(Outcomes) /\ now = Append(was, out)
      /\ now # <<>> /\ Last(now) = out
  BY OutcomeAdded
<1>2. ASSUME ~OutOfMemory, NEW k \in DOMAIN now PROVE ~Succeeds(now[k])
  <2>1. (k \in DOMAIN was /\ now[k] = was[k]) \/ now[k] = out
    BY <1>1
  <2>2. k \in DOMAIN was => ~Succeeds(was[k])
    <3>1. was = <<>> => k \notin DOMAIN was
      OBVIOUS
    <3> QED
      BY <1>2, <3>1 DEF LeftWithError
  <2> QED
    BY <1>2, <2>1, <2>2
<1> QED
  BY <1>1, <1>2 DEF LeftWithError

(* What has been said of other forms stays true.                           *)
LEMMA FlightExec ==
    ASSUME TypeOK, FlightInv, NEW out \in Outcomes, Executing(out),
           done' = [done EXCEPT ![batch.req] = Append(@, out)],
           batch'.req = batch.req, batch'.serial = batch.serial,
           UNCHANGED <<posted, ipcSerial, reqList, toParent, toChild, parentPc>>,
           running' => BatchTells'
    PROVE  FlightInv'
<1>1. parentPc = "exec" /\ batch.req # 0 /\ batch.req \in Req
  BY BatchTypes DEF Executing
<1>2. TagInv'
  <2>1. Tags' \subseteq Tags
    BY DEF Tags, OpenTags, ListTags, SentTags, Tag
  <2> QED
    BY <2>1, TagsKept DEF FlightInv
<1>3. QueueInv' /\ SentInv'
  BY <1>1 DEF FlightInv, QueueInv, SentInv, Before
<1>4. ASSUME NEW i \in DOMAIN toParent PROVE toParent[i].req # batch.req
  <2>1. batch.req < toParent[i].req
    BY <1>1 DEF FlightInv, QueueInv
  <2> QED
    BY <1>1, <2>1, FormNumbers
<1>5. ASSUME NEW i \in DOMAIN toChild, toChild[i].status = "success"
      PROVE  toChild[i].req # batch.req /\ toChild[i].req \in Req
  <2>1. toChild[i].req < batch.req
    BY <1>1, <1>5 DEF FlightInv, SentInv, Before
  <2> QED
    BY <1>1, <2>1, FormNumbers, ResponseTypes
<1>6. ASSUME NEW r \in Req, r > posted PROVE r # batch.req
  <2>1. batch.req <= posted /\ posted \in Nat
    BY <1>1, UnderWayPosted, EntryTypes DEF TypeOK
  <2> QED
    BY <1>1, <1>6, <2>1, FormNumbers
<1>7. DoneInv'
  BY <1>4, <1>5, <1>6, OutcomeAdded, ListTypes DEF FlightInv, DoneInv, Tells
<1> QED
  BY <1>2, <1>3, <1>7 DEF FlightInv

LEMMA FlightExecCommand ==
    ASSUME TypeOK, FlightInv, NEW out \in Outcomes, ExecCommand(out)
    PROVE  FlightInv'
<1>1. /\ Executing(out) /\ parentPc = "exec" /\ running
      /\ done' = [done EXCEPT ![batch.req] = Append(@, out)]
      /\ UNCHANGED <<posted, ipcSerial, reqList, toParent, toChild, parentPc>>
  BY DEF ExecCommand, Executing, webVars
<1>2. PICK text, status :
        /\ Respond(out, text, status)
        /\ \/ status = IF Succeeds(out) THEN "success" ELSE batch.status
           \/ OutOfMemory /\ status = IF out = "ok" THEN "success" ELSE "abort"
  BY DEF ExecCommand
<1>3. /\ batch'.req = batch.req /\ batch'.serial = batch.serial
      /\ batch'.code = CodeOf[out] /\ batch'.status = status
  BY <1>2 DEF Respond, TypeOK, BatchType
<1>4. done'[batch.req] # <<>> /\ Last(done'[batch.req]) = out
  BY <1>1, OutcomeAdded
<1>5. ASSUME status # "success" PROVE LeftWithError(batch.req)'
  <2>1. done[batch.req] = <<>> \/ LeftWithError(batch.req) \/ batch.status = "success"
    BY <1>1 DEF FlightInv, DoneInv, BatchTells
  <2>2. IF OutOfMemory THEN out # "ok" ELSE ~Succeeds(out)
    BY <1>2, <1>5 DEF Succeeds
  <2>3. CASE done[batch.req] = <<>> \/ LeftWithError(batch.req)
    BY <1>1, <1>3, <2>2, <2>3, ErrorAdded
  <2>4. CASE batch.status = "success" /\ OutOfMemory
    BY <1>3, <1>4, <2>2, <2>4 DEF LeftWithError
  <2> QED
    BY <1>2, <1>5, <2>1, <2>3, <2>4
<1>6. BatchTells'
  BY <1>3, <1>4, <1>5 DEF BatchTells, Tells
<1> QED
  BY <1>1, <1>3, <1>6, FlightExec

LEMMA FlightExecUnsaved ==
    ASSUME TypeOK, FlightInv, ExecUnsaved
    PROVE  FlightInv'
<1>0. "unsaved" \in Outcomes
  BY DEF Outcomes
<1>1. /\ Executing("unsaved") /\ parentPc = "exec" /\ running
      /\ done' = [done EXCEPT ![batch.req] = Append(@, "unsaved")]
      /\ UNCHANGED <<posted, ipcSerial, reqList, toParent, toChild, parentPc>>
  BY DEF ExecUnsaved, Executing, webVars
<1>2. /\ batch'.req = batch.req /\ batch'.serial = batch.serial
      /\ running' => batch'.code = CodeOf["unsaved"] /\ batch'.status = batch.status
  BY DEF ExecUnsaved, Respond, TypeOK, BatchType
<1>3. done'[batch.req] # <<>> /\ Last(done'[batch.req]) = "unsaved"
  BY <1>0, <1>1, OutcomeAdded
<1>4. ASSUME batch.status # "success" PROVE LeftWithError(batch.req)'
  <2>1. done[batch.req] = <<>> \/ LeftWithError(batch.req)
    BY <1>1, <1>4 DEF FlightInv, DoneInv, BatchTells
  <2>2. IF OutOfMemory THEN "unsaved" # "ok" ELSE ~Succeeds("unsaved")
    BY DEF Succeeds
  <2> QED
    BY <1>0, <1>1, <1>2, <2>1, <2>2, ErrorAdded
<1>5. running' => BatchTells'
  BY <1>2, <1>3, <1>4 DEF BatchTells, Tells
<1> QED
  BY <1>0, <1>1, <1>2, <1>5, FlightExec

-----------------------------------------------------------------------------
(* Every step                                                              *)

LEMMA FlightInit == Init => FlightInv
<1> SUFFICES ASSUME Init PROVE FlightInv
  OBVIOUS
<1>1. /\ posted = 0 /\ ipcSerial = 0 /\ reqList = <<>> /\ toParent = <<>>
      /\ toChild = <<>> /\ batch = NoBatch /\ batch.req = 0 /\ parentPc = "wait"
      /\ done = [r \in Req |-> <<>>]
  BY DEF Init, NoBatch
<1>2. Tags = {}
  BY <1>1 DEF Tags, OpenTags, ListTags, SentTags
<1>3. TagInv
  BY <1>1, <1>2 DEF TagInv
<1> QED
  BY <1>1, <1>3 DEF FlightInv, QueueInv, SentInv, DoneInv

(* A request that is taken out of the list opens none.                     *)
LEMMA OpenTagsTaken ==
    ASSUME TypeOK, NEW i \in DOMAIN reqList, TakeRequest(i)
    PROVE  OpenTags' \subseteq OpenTags
<1>1. /\ Len(reqList) \in Nat /\ DOMAIN reqList = 1 .. Len(reqList)
      /\ DOMAIN reqList' = 1 .. Len(reqList) - 1
      /\ \A j \in 1 .. Len(reqList) - 1 :
            reqList'[j] = IF j < i THEN reqList[j] ELSE reqList[j + 1]
  <2>1. /\ reqList' \in Seq(Entries) /\ Len(reqList') = Len(reqList) - 1
        /\ \A j \in 1 .. Len(reqList') :
              reqList'[j] = IF j < i THEN reqList[j] ELSE reqList[j + 1]
    BY TakeRequestFacts DEF TypeOK
  <2> QED
    BY <2>1, EntryTypes DEF TypeOK
<1>2. \A j \in DOMAIN reqList' : \E k \in DOMAIN reqList : reqList'[j] = reqList[k]
  BY <1>1
<1> QED
  BY <1>2 DEF OpenTags, Tag

LEMMA FlightStep ==
    SerialsSuffice /\ TypeOK /\ FlightInv /\ [Next]_vars => FlightInv'
<1> SUFFICES ASSUME SerialsSuffice, TypeOK, FlightInv, [Next]_vars PROVE FlightInv'
  OBVIOUS
<1>1. CASE Client
  <2>1. CASE HttpBacklog \/ HttpBadForm \/ HttpNoMemory
    <3>1. \E code : RefusePost(code) /\ ipcSerial' \in {ipcSerial, ipcSerial + 1}
      BY <2>1, SerialDrawn DEF HttpBacklog, HttpBadForm, HttpNoMemory, FlightInv
    <3> QED
      BY <3>1, FlightRefuse
  <2>2. CASE \E cmds \in Batches : HttpPost(cmds)
    BY <2>2, FlightPost
  <2> QED
    BY <1>1, <2>1, <2>2 DEF Client
<1>2. CASE Parent
  <2>1. CASE (\E n \in 1 .. MaxRead : ParentRead(n)) \/ ParentIdle \/ ParentIncomplete
    <3>1. /\ UNCHANGED <<posted, ipcSerial, reqList, toParent, toChild, batch, done, running>>
          /\ parentPc \in {"wait", "scan"} /\ parentPc' # "exec"
      BY <2>1 DEF ParentRead, ParentIdle, ParentIncomplete, ParentScans, webVars, ranVars
    <3>2. OpenTags' = OpenTags
      BY <3>1 DEF OpenTags, Tag
    <3> QED
      BY <3>1, <3>2, FlightFrame DEF FlightInv, QueueInv
  <2>2. CASE ParentTake \/ ParentNoMemory \/ ParentRespond \/ ParentBreak \/ ExecUnsaved
    BY <2>2, FlightTake, FlightNoMemory, FlightRespond, FlightBreak, FlightExecUnsaved
  <2>3. CASE \E out \in Outcomes : ExecCommand(out)
    BY <2>3, FlightExecCommand
  <2> QED
    BY <1>2, <2>1, <2>2, <2>3 DEF Parent
<1>3. CASE Child
  <2>0. UNCHANGED <<posted, ipcSerial, toParent, batch, done, parentPc, running>>
    BY <1>3 DEF Child, ChildRead, ChildIdle, ChildUnmatched, ChildAborted, ChildPartial,
                ChildReply, webVars, parentVars, ranVars
  <2>1. OpenTags' \subseteq OpenTags
    <3>1. CASE UNCHANGED reqList
      BY <3>1 DEF OpenTags, Tag
    <3>2. CASE \E i \in DOMAIN reqList : TakeRequest(i)
      BY <3>2, OpenTagsTaken
    <3> QED
      BY <1>3, <3>1, <3>2
      DEF Child, ChildRead, ChildIdle, ChildUnmatched, ChildAborted, ChildPartial,
          ChildReply, webVars
  <2>2. CASE UNCHANGED toChild
    BY <2>0, <2>1, <2>2, FlightFrame DEF FlightInv, QueueInv
  <2>3. CASE toChild # <<>> /\ toChild' = Tail(toChild)
    BY <2>0, <2>1, <2>3, FlightDrained
  <2> QED
    BY <1>3, <2>2, <2>3
    DEF Child, ChildRead, ChildIdle, ChildUnmatched, ChildAborted, ChildPartial,
        ChildReply, ChildScans
<1>4. CASE Stop \/ UNCHANGED vars
  <2>1. UNCHANGED <<posted, ipcSerial, reqList, toParent, toChild, batch, done>>
    BY <1>4 DEF Stop, Reboot, ParentDies, ChildDies, ParentBrokenPipe, ChildBrokenPipe,
                vars, webVars, parentVars, ranVars
  <2>2. /\ parentPc' = parentPc \/ parentPc' = "dead"
        /\ running' => running
    BY <1>4 DEF Stop, Reboot, ParentDies, ChildDies, ParentBrokenPipe, ChildBrokenPipe,
                vars, parentVars, ranVars
  <2>3. OpenTags' = OpenTags
    BY <2>1 DEF OpenTags, Tag
  <2> QED
    BY <2>1, <2>2, <2>3, FlightFrame DEF FlightInv, QueueInv
<1> QED
  BY <1>1, <1>2, <1>3, <1>4 DEF Next

-----------------------------------------------------------------------------
(* A request leaves the list, and the others stay                          *)

(* What is left of the list when a request is taken out: the others.       *)
LEMMA OthersStay ==
    ASSUME TypeOK, ReplyInv, NEW i \in DOMAIN reqList, TakeRequest(i), UNCHANGED posted
    PROVE  /\ \A j \in DOMAIN reqList' :
                 /\ reqList'[j].req # reqList[i].req
                 /\ \E k \in DOMAIN reqList : reqList'[j] = reqList[k]
           /\ \A r : r # reqList[i].req /\ Open(r) => Open(r)'
<1>1. \A j \in DOMAIN reqList' :
         /\ reqList'[j].req # reqList[i].req
         /\ \E k \in DOMAIN reqList : reqList'[j] = reqList[k]
  BY TakeRequestOrdered DEF ReplyInv
<1>2. /\ Len(reqList) \in Nat /\ DOMAIN reqList = 1 .. Len(reqList)
      /\ DOMAIN reqList' = 1 .. Len(reqList) - 1
      /\ \A j \in 1 .. Len(reqList) - 1 :
            reqList'[j] = IF j < i THEN reqList[j] ELSE reqList[j + 1]
  <2>1. /\ reqList' \in Seq(Entries) /\ Len(reqList') = Len(reqList) - 1
        /\ \A j \in 1 .. Len(reqList') :
              reqList'[j] = IF j < i THEN reqList[j] ELSE reqList[j + 1]
    BY TakeRequestFacts DEF TypeOK
  <2> QED
    BY <2>1, EntryTypes DEF TypeOK
<1>3. ASSUME NEW r, r # reqList[i].req, Open(r) PROVE Open(r)'
  <2>1. PICK k \in DOMAIN reqList : reqList[k].req = r
    BY <1>3 DEF Open
  <2>2. k # i
    BY <1>3, <2>1
  <2>3. CASE k < i
    <3>1. k \in DOMAIN reqList' /\ reqList'[k] = reqList[k]
      BY <1>2, <2>3
    <3> QED
      BY <2>1, <3>1 DEF Open
  <2>4. CASE i < k
    <3>1. k - 1 \in DOMAIN reqList' /\ reqList'[k - 1] = reqList[(k - 1) + 1] /\ (k - 1) + 1 = k
      BY <1>2, <2>4
    <3> QED
      BY <2>1, <3>1 DEF Open
  <2> QED
    BY <1>2, <2>2, <2>3, <2>4
<1> QED
  BY <1>1, <1>3

-----------------------------------------------------------------------------
(* The framing of the responses                                            *)

(* An answer stays as it is, and an outcome is never taken back.           *)
LEMMA AnswersStay ==
    ASSUME TypeOK, ReplyInv, [Next]_vars, NEW r \in Req, replies[r] # <<>>
    PROVE  replies'[r] = replies[r]
<1>0. replies \in [Req -> Seq(Codes)] /\ posted \in Nat
  BY EntryTypes DEF TypeOK, WebType
<1>1. CASE UNCHANGED replies
  BY <1>1
<1>2. ASSUME NEW code, CanPost, RefusePost(code) PROVE replies'[r] = replies[r]
  <2>1. posted' \in Req /\ replies[posted'] = <<>>
    BY <1>0, <1>2, BoundsAssumption
    DEF CanPost, RefusePost, Req, ReplyInv, FutureUnanswered
  <2> QED
    BY <1>0, <1>2, <2>1 DEF RefusePost
<1>3. ASSUME NEW i \in DOMAIN reqList, NEW code, Reply(reqList[i].req, code)
      PROVE  replies'[r] = replies[r]
  <2>1. reqList[i].req \in Req /\ replies[reqList[i].req] = <<>>
    BY EntryTypes DEF TypeOK, ReplyInv, PendingUnanswered
  <2> QED
    BY <1>0, <1>3, <2>1 DEF Reply
<1>4. CASE Client
  BY <1>1, <1>2, <1>4 DEF Client, HttpBacklog, HttpBadForm, HttpNoMemory, HttpPost
<1>5. CASE Parent
  BY <1>1, <1>5
  DEF Parent, ParentRead, ParentIdle, ParentIncomplete, ParentTake, ParentNoMemory,
      ExecCommand, ExecUnsaved, ParentRespond, ParentBreak, webVars
<1>6. CASE Child
  BY <1>1, <1>3, <1>6
  DEF Child, ChildRead, ChildIdle, ChildUnmatched, ChildAborted, ChildPartial, ChildReply,
      webVars
<1>7. CASE Stop \/ UNCHANGED vars
  BY <1>1, <1>7 DEF Stop, Reboot, ParentDies, ChildDies, ParentBrokenPipe, ChildBrokenPipe,
                    vars, webVars
<1> QED
  BY <1>4, <1>5, <1>6, <1>7 DEF Next

LEMMA OutcomesStay ==
    ASSUME TypeOK, [Next]_vars, NEW r \in Req, done[r] # <<>>
    PROVE  done'[r] # <<>>
<1>1. CASE UNCHANGED done
  BY <1>1
<1>2. ASSUME NEW out \in Outcomes, Executing(out),
             done' = [done EXCEPT ![batch.req] = Append(@, out)]
      PROVE  done'[r] # <<>>
  BY <1>2, OutcomeAdded
<1>3. CASE Parent
  <2>1. "unsaved" \in Outcomes
    BY DEF Outcomes
  <2> QED
    BY <1>1, <1>2, <1>3, <2>1
    DEF Parent, ParentRead, ParentIdle, ParentIncomplete, ParentTake, ParentNoMemory,
        ExecCommand, ExecUnsaved, ParentRespond, ParentBreak, ranVars
<1>4. CASE Client \/ Child \/ Stop \/ UNCHANGED vars
  BY <1>1, <1>4
  DEF Client, HttpBacklog, HttpBadForm, HttpNoMemory, HttpPost, RefusePost,
      Child, ChildRead, ChildIdle, ChildUnmatched, ChildAborted, ChildPartial, ChildReply,
      Stop, Reboot, ParentDies, ChildDies, ParentBrokenPipe, ChildBrokenPipe, vars, ranVars
<1> QED
  BY <1>3, <1>4 DEF Next

LEMMA RefusedStays ==
    ASSUME TypeOK, ReplyInv, [Next]_vars, NEW r \in Req, Refused(r)
    PROVE  Refused(r)'
<1>1. replies[r] # <<>>
  BY DEF Refused
<1> QED
  BY <1>1, AnswersStay DEF Refused

(* Only the child takes a request out of the list.                         *)
LEMMA OwedKept ==
    ASSUME TypeOK, ReplyInv, [Next]_vars, ~Child, NEW r \in Req, Owed(r)
    PROVE  Owed(r)'
<1>1. UNCHANGED reqList \/ \E e : reqList' = Append(reqList, e)
  BY DEF Next, Client, HttpBacklog, HttpBadForm, HttpNoMemory, HttpPost, RefusePost,
         Parent, ParentRead, ParentIdle, ParentIncomplete, ParentTake, ParentNoMemory,
         ExecCommand, ExecUnsaved, ParentRespond, ParentBreak,
         Stop, Reboot, ParentDies, ChildDies, ParentBrokenPipe, ChildBrokenPipe, vars, webVars
<1>2. \A i \in DOMAIN reqList : i \in DOMAIN reqList' /\ reqList'[i] = reqList[i]
  BY <1>1 DEF TypeOK, WebType
<1>3. Open(r) => Open(r)'
  BY <1>2 DEF Open
<1> QED
  BY <1>3, RefusedStays DEF Owed

LEMMA BatchKeepsForm ==
    ASSUME TypeOK, ExecUnsaved \/ \E out \in Outcomes : ExecCommand(out)
    PROVE  batch'.req = batch.req
<1>1. /\ batch' = [batch EXCEPT !.cmds = Tail(@)]
      => batch'.req = batch.req
  BY DEF TypeOK, BatchType
<1>2. ASSUME NEW out, NEW text, NEW status, Respond(out, text, status)
      PROVE  batch'.req = batch.req
  BY <1>2 DEF Respond, TypeOK, BatchType
<1> QED
  BY <1>1, <1>2 DEF ExecUnsaved, ExecCommand

(* The child's variables stay, or it dies.                                 *)
LEMMA HeadAwaitedKept ==
    ASSUME TypeOK, [Next]_vars, ~Child, toChild # <<>>, HeadAwaited
    PROVE  HeadAwaited'
<1>1. UNCHANGED <<childIn, childLow>> /\ (childPc' = childPc \/ childPc' = "dead")
  BY DEF Next, Client, HttpBacklog, HttpBadForm, HttpNoMemory, HttpPost, RefusePost,
         Parent, ParentRead, ParentIdle, ParentIncomplete, ParentTake, ParentNoMemory,
         ExecCommand, ExecUnsaved, ParentRespond, ParentBreak,
         Stop, Reboot, ParentDies, ChildDies, ParentBrokenPipe, ChildBrokenPipe, vars, childVars
<1>2. UNCHANGED toChild \/ \E m : toChild' = Append(toChild, m)
  BY DEF Next, Client, HttpBacklog, HttpBadForm, HttpNoMemory, HttpPost, RefusePost,
         Parent, ParentRead, ParentIdle, ParentIncomplete, ParentTake, ParentNoMemory,
         ExecCommand, ExecUnsaved, ParentRespond, ParentBreak,
         Stop, Reboot, ParentDies, ChildDies, ParentBrokenPipe, ChildBrokenPipe, vars
<1>3. Response' = Response
  BY <1>2, ResponseTypes DEF Response
<1> QED
  BY <1>1, <1>3 DEF HeadAwaited, RespUnits

LEMMA OwedNotChild ==
    ASSUME TypeOK, ReplyInv, FlightInv, OwedInv, [Next]_vars, ~Child
    PROVE  OwedInv'
<1>1. ASSUME NEW r \in Req, Waits(r)' PROVE Waits(r) \/ Open(r)'
  <2>1. CASE UNCHANGED <<toParent, batch>>
    BY <1>1, <2>1 DEF Waits
  <2>2. ASSUME UNCHANGED toParent, batch'.req \in {batch.req, 0} PROVE Waits(r)
    BY <1>1, <2>2, FormNumbers DEF Waits
  <2>3. ASSUME NEW cmds, HttpPost(cmds) PROVE Waits(r) \/ Open(r)'
    <3>1. \A i \in DOMAIN toParent' :
             \/ i \in DOMAIN toParent /\ toParent'[i] = toParent[i]
             \/ toParent'[i].req = posted'
      BY <2>3, ListTypes DEF HttpPost
    <3>2. /\ Len(reqList) + 1 \in DOMAIN reqList'
          /\ reqList'[Len(reqList) + 1].req = posted'
      BY <2>3 DEF HttpPost, TypeOK, WebType
    <3>3. UNCHANGED batch
      BY <2>3 DEF HttpPost, parentVars
    <3> QED
      BY <1>1, <3>1, <3>2, <3>3 DEF Waits, Open
  <2>4. CASE ParentTake
    <3>1. /\ 1 \in DOMAIN toParent /\ batch'.req = toParent[1].req
          /\ \A i \in DOMAIN toParent' :
                i + 1 \in DOMAIN toParent /\ toParent'[i] = toParent[i + 1]
      BY <2>4, ListTypes DEF ParentTake, ParentScans
    <3> QED
      BY <1>1, <3>1 DEF Waits
  <2>5. CASE Parent /\ ~ParentTake
    <3>1. CASE ParentRespond \/ ParentBreak
      BY <2>2, <3>1 DEF ParentRespond, ParentBreak, NoBatch
    <3>2. CASE ExecUnsaved \/ \E out \in Outcomes : ExecCommand(out)
      BY <2>2, <3>2, BatchKeepsForm DEF ExecUnsaved, ExecCommand
    <3> QED
      BY <2>1, <2>5, <3>1, <3>2
      DEF Parent, ParentRead, ParentIdle, ParentIncomplete, ParentNoMemory
  <2>6. CASE HttpBacklog \/ HttpBadForm \/ HttpNoMemory \/ Stop \/ UNCHANGED vars
    BY <2>1, <2>6
    DEF HttpBacklog, HttpBadForm, HttpNoMemory, RefusePost, Stop, Reboot, ParentDies,
        ChildDies, ParentBrokenPipe, ChildBrokenPipe, vars, parentVars
  <2> QED
    BY <2>3, <2>4, <2>5, <2>6 DEF Next, Client
<1>2. ASSUME NEW r \in Req, NEW i \in DOMAIN toChild',
             toChild'[i].req = r, toChild'[i].status = "success"
      PROVE  Waits(r) \/ (i \in DOMAIN toChild /\ toChild'[i] = toChild[i])
  <2>1. CASE UNCHANGED toChild
    BY <2>1
  <2>2. ASSUME NEW m, toChild' = Append(toChild, m)
        PROVE  (i \in DOMAIN toChild /\ toChild'[i] = toChild[i]) \/ toChild'[i] = m
    BY <2>2, ResponseTypes
  <2>3. CASE ParentNoMemory
    <3>1. Abort.status # "success"
      BY DEF Abort
    <3> QED
      BY <1>2, <2>2, <2>3, <3>1 DEF ParentNoMemory
  <2>4. CASE ParentRespond
    <3>1. PICK m : toChild' = Append(toChild, m) /\ m.req = batch.req
      BY <2>4 DEF ParentRespond
    <3> QED
      BY <1>2, <2>2, <3>1 DEF Waits
  <2>5. CASE Parent /\ ~ParentNoMemory /\ ~ParentRespond
    BY <2>1, <2>5
    DEF Parent, ParentRead, ParentIdle, ParentIncomplete, ParentTake, ExecCommand,
        ExecUnsaved, ParentBreak
  <2>6. CASE Client \/ Stop \/ UNCHANGED vars
    BY <2>1, <2>6
    DEF Client, HttpBacklog, HttpBadForm, HttpNoMemory, HttpPost, RefusePost, Stop, Reboot,
        ParentDies, ChildDies, ParentBrokenPipe, ChildBrokenPipe, vars
  <2> QED
    BY <2>3, <2>4, <2>5, <2>6 DEF Next
<1>3. \A r \in Req : Waits(r)' => Owed(r)'
  BY <1>1, OwedKept DEF OwedInv, Owed
<1>4. ASSUME NEW r \in Req, NEW i \in DOMAIN toChild',
             toChild'[i].req = r, toChild'[i].status = "success"
      PROVE  Owed(r)' \/ (i = 1 /\ HeadAwaited')
  <2>1. CASE Waits(r)
    BY <2>1, OwedKept DEF OwedInv
  <2>2. CASE i \in DOMAIN toChild /\ toChild'[i] = toChild[i]
    <3>1. Owed(r) \/ (i = 1 /\ HeadAwaited)
      BY <1>4, <2>2 DEF OwedInv
    <3>2. toChild # <<>>
      BY <2>2
    <3> QED
      BY <3>1, <3>2, OwedKept, HeadAwaitedKept
  <2> QED
    BY <1>2, <1>4, <2>1, <2>2
<1> QED
  BY <1>3, <1>4 DEF OwedInv

(* The child takes a request out: no other form is given up, and its own   *)
(* is owed nothing any more, or is refused.                                *)
LEMMA OwedTaken ==
    ASSUME TypeOK, ReplyInv, FlightInv, OwedInv, [Next]_vars,
           NEW i \in DOMAIN reqList, TakeRequest(i), ChildScans,
           NEW q, q = Response.req, reqList[i].req = q,
           UNCHANGED <<posted, toParent, batch>>,
           \/ Refused(q)'
           \/ /\ Response.status = "success"
              /\ toChild' = Tail(toChild) \/ (UNCHANGED toChild /\ HeadAwaited'),
           UNCHANGED toChild \/ toChild' = Tail(toChild)
    PROVE  OwedInv'
<1>1. /\ q \in Req /\ q # 0 /\ 1 \in DOMAIN toChild /\ Response = toChild[1]
      /\ Len(toChild) \in Nat /\ DOMAIN toChild = 1 .. Len(toChild)
  BY ResponseTypes, FormNumbers DEF ChildScans, Response
<1>7. toChild # Tail(toChild)
  <2>1. toChild # <<>> /\ toChild \in Seq(Responses)
    BY ResponseTypes DEF ChildScans
  <2>2. Len(Tail(toChild)) = Len(toChild) - 1
    BY <2>1
  <2>3. \A n \in Nat : n - 1 # n
    OBVIOUS
  <2> QED
    BY <1>1, <2>2, <2>3, Zenon
<1>2. ASSUME NEW r \in Req, r # q, Owed(r) PROVE Owed(r)'
  BY <1>2, OthersStay, RefusedStays DEF Owed
<1>3. ASSUME NEW r \in Req, NEW j \in DOMAIN toChild',
             toChild'[j].req = r, toChild'[j].status = "success"
      PROVE  \E k \in DOMAIN toChild :
                /\ toChild'[j] = toChild[k] /\ j <= k
                /\ k = 1 => UNCHANGED toChild
  <2>1. CASE UNCHANGED toChild
    <3>1. \A n \in 1 .. Len(toChild) : n <= n
      BY <1>1
    <3> QED
      BY <1>1, <2>1, <3>1, Zenon
  <2>2. CASE toChild' = Tail(toChild)
    <3>1. j + 1 \in DOMAIN toChild /\ toChild'[j] = toChild[j + 1] /\ j <= j + 1 /\ j + 1 # 1
      BY <1>1, <2>2
    <3> QED
      BY <3>1
  <2> QED
    BY <2>1, <2>2
<1>4. CASE Refused(q)'
  <2>1. \A r \in Req : Owed(r) => Owed(r)'
    BY <1>2, <1>4 DEF Owed
  <2>2. ASSUME NEW r \in Req, NEW j \in DOMAIN toChild',
               toChild'[j].req = r, toChild'[j].status = "success"
        PROVE  Owed(r)'
    BY <1>1, <1>3, <1>4, <2>1, <2>2 DEF OwedInv, Owed
  <2> QED
    BY <2>1, <2>2 DEF OwedInv, Waits
<1>5. CASE /\ Response.status = "success"
           /\ toChild' = Tail(toChild) \/ (UNCHANGED toChild /\ HeadAwaited')
  <2>1. ASSUME NEW r \in Req, Waits(r) PROVE r # q
    <3>1. q < r
      BY <1>1, <1>5, <2>1, FormNumbers DEF Waits, FlightInv, SentInv, Before
    <3> QED
      BY <1>1, <3>1, FormNumbers
  <2>2. ASSUME NEW k \in DOMAIN toChild, k # 1 PROVE toChild[k].req # q
    <3>1. 1 < k
      BY <1>1, <2>2
    <3>2. q < toChild[k].req
      BY <1>1, <1>5, <3>1 DEF FlightInv, SentInv, Before
    <3> QED
      BY <1>1, <3>2, FormNumbers
  <2>3. \A r \in Req : Waits(r)' => Owed(r)'
    BY <1>2, <2>1 DEF OwedInv, Waits
  <2>4. ASSUME NEW r \in Req, NEW j \in DOMAIN toChild',
               toChild'[j].req = r, toChild'[j].status = "success"
        PROVE  Owed(r)' \/ (j = 1 /\ HeadAwaited')
    <3>1. PICK k \in DOMAIN toChild :
             toChild'[j] = toChild[k] /\ j <= k /\ (k = 1 => UNCHANGED toChild)
      BY <1>3, <2>4
    <3>2. CASE k = 1
      <4>1. UNCHANGED toChild /\ HeadAwaited'
        BY <1>5, <1>7, <3>1, <3>2
      <4>2. j = 1
        BY <1>1, <3>1, <3>2, <4>1
      <4> QED
        BY <4>1, <4>2
    <3>3. CASE k # 1
      BY <1>2, <2>2, <2>4, <3>1, <3>3 DEF OwedInv
    <3> QED
      BY <3>2, <3>3
  <2> QED
    BY <2>3, <2>4 DEF OwedInv
<1> QED
  BY <1>4, <1>5

LEMMA OwedChild ==
    ASSUME TypeOK, ReplyInv, FlightInv, OwedInv, Child
    PROVE  OwedInv'
<1>0. [Next]_vars
  BY DEF Next
<1>1. UNCHANGED <<posted, toParent, batch>>
  BY DEF Child, ChildRead, ChildIdle, ChildUnmatched, ChildAborted, ChildPartial, ChildReply,
         webVars, parentVars
<1>2. CASE (\E n \in 1 .. MaxRead : ChildRead(n)) \/ ChildIdle
  <2>1. UNCHANGED <<reqList, replies, toChild, childLow>>
    BY <1>2 DEF ChildRead, ChildIdle, webVars
  <2>2. HeadAwaited => HeadAwaited'
    BY <1>2, <2>1 DEF ChildRead, ChildIdle, HeadAwaited, Response, RespUnits
  <2> QED
    BY <1>1, <2>1, <2>2 DEF OwedInv, Waits, Owed, Open, Refused
<1>3. CASE ChildUnmatched
  <2>1. UNCHANGED <<reqList, replies>> /\ toChild # <<>> /\ toChild' = Tail(toChild)
    BY <1>3 DEF ChildUnmatched, ChildScans, webVars
  <2>2. \A i \in DOMAIN toChild' :
           i + 1 \in DOMAIN toChild /\ toChild'[i] = toChild[i + 1] /\ i + 1 # 1
    BY <2>1, ResponseTypes
  <2> QED
    BY <1>1, <2>1, <2>2 DEF OwedInv, Waits, Owed, Open, Refused
<1>4. ASSUME NEW i \in DOMAIN reqList, ChildAborted(i) PROVE OwedInv'
  <2>1. /\ ChildScans /\ TakeRequest(i) /\ reqList[i].req = Response.req
        /\ toChild' = Tail(toChild) /\ Reply(reqList[i].req, TryAgain)
    BY <1>4, MatchIsOwn DEF ChildAborted, FlightInv
  <2>2. ASSUME NEW q \in Req, q = reqList[i].req PROVE Refused(q)'
    <3>1. replies[q] = <<>> /\ replies \in [Req -> Seq(Codes)]
      BY <2>2 DEF TypeOK, WebType, ReplyInv, PendingUnanswered
    <3>2. replies' = [replies EXCEPT ![q] = Append(@, TryAgain)]
      BY <2>1, <2>2 DEF Reply
    <3> QED
      BY <3>1, <3>2 DEF Refused
  <2>3. PICK q \in Req : q = reqList[i].req
    BY EntryTypes DEF TypeOK
  <2> QED
    BY <1>0, <1>1, <2>1, <2>2, <2>3, OwedTaken
<1>5. ASSUME NEW i \in DOMAIN reqList, ChildPartial(i) PROVE OwedInv'
  <2>1. /\ ChildScans /\ TakeRequest(i) /\ reqList[i].req = Response.req
        /\ UNCHANGED toChild
    BY <1>5, MatchIsOwn DEF ChildPartial, FlightInv
  <2>2. Response.status = "success"
    BY <1>5, <2>1, ResponseTypes DEF ChildPartial, ChildScans, Response
  <2>3. HeadAwaited'
    BY <1>5 DEF ChildPartial, ChildWaitsFor, HeadAwaited, Response, RespUnits
  <2> QED
    BY <1>0, <1>1, <2>1, <2>2, <2>3, OwedTaken
<1>6. ASSUME NEW i \in DOMAIN reqList, ChildReply(i) PROVE OwedInv'
  <2>1. /\ ChildScans /\ TakeRequest(i) /\ reqList[i].req = Response.req
        /\ toChild' = Tail(toChild)
    BY <1>6, MatchIsOwn DEF ChildReply, FlightInv
  <2>2. Response.status = "success"
    BY <1>6, <2>1, ResponseTypes DEF ChildReply, ChildScans, Response
  <2> QED
    BY <1>0, <1>1, <2>1, <2>2, OwedTaken
<1> QED
  BY <1>2, <1>3, <1>4, <1>5, <1>6 DEF Child

LEMMA OwedInit == Init => OwedInv
<1> SUFFICES ASSUME Init PROVE OwedInv
  OBVIOUS
<1>1. toParent = <<>> /\ toChild = <<>> /\ batch.req = 0
  BY DEF Init, NoBatch
<1> QED
  BY <1>1, FormNumbers DEF OwedInv, Waits

LEMMA FramingStep ==
    TypeOK /\ ReplyInv /\ FlightInv /\ OwedInv /\ FramingLostOnlyByAbort /\ [Next]_vars
        => FramingLostOnlyByAbort'
<1> SUFFICES ASSUME TypeOK, ReplyInv, FlightInv, OwedInv, FramingLostOnlyByAbort,
                    [Next]_vars, childPc' = "lost"
             PROVE  \E r \in Req : replies'[r] = <<TryAgain>> /\ done'[r] # <<>>
  BY DEF FramingLostOnlyByAbort
<1>1. ASSUME NEW r \in Req, replies[r] = <<TryAgain>>, done[r] # <<>>
      PROVE  replies'[r] = <<TryAgain>> /\ done'[r] # <<>>
  BY <1>1, AnswersStay, OutcomesStay
<1>2. CASE childPc = "lost"
  BY <1>1, <1>2 DEF FramingLostOnlyByAbort
<1>3. CASE childPc # "lost"
  <2>1. ChildUnmatched
    <3>1. CASE Child
      BY <1>3, <3>1
      DEF Child, ChildRead, ChildIdle, ChildAborted, ChildPartial, ChildReply
    <3>2. CASE Client \/ Parent \/ Stop \/ UNCHANGED vars
      BY <1>3, <3>2
      DEF Client, HttpBacklog, HttpBadForm, HttpNoMemory, HttpPost, RefusePost,
          Parent, ParentRead, ParentIdle, ParentIncomplete, ParentTake, ParentNoMemory,
          ExecCommand, ExecUnsaved, ParentRespond, ParentBreak,
          Stop, Reboot, ParentDies, ChildDies, ParentBrokenPipe, ChildBrokenPipe,
          vars, childVars
    <3> QED
      BY <3>1, <3>2 DEF Next
  <2>2. /\ ChildScans /\ childPc = "scan" /\ childIn >= 1 /\ childIn \in Nat
        /\ 1 \in DOMAIN toChild /\ Response = toChild[1]
        /\ Response.req \in Req /\ Response.len \in Nat
        /\ Response.status \in {"abort", "success"}
        /\ Response.status = "abort" => Response.len = 0
    BY <2>1, ResponseTypes
    DEF ChildUnmatched, ChildScans, Response, HdrUnits, TypeOK, ChildEndType
  <2>3. ~(childIn >= RespUnits(Response)) /\ RespUnits(Response) = 1 + Response.len
    BY <2>1 DEF ChildUnmatched, RespUnits, HdrUnits
  <2>4. Response.status = "success"
    BY <2>2, <2>3
  <2>5. ~Open(Response.req)
    BY <2>1, <2>2, MatchIsOwn DEF ChildUnmatched, FlightInv
  <2>6. ~HeadAwaited
    BY <2>2, <2>3 DEF HeadAwaited
  <2>7. Owed(Response.req)
    BY <2>2, <2>4, <2>6 DEF OwedInv
  <2>8. replies[Response.req] = <<TryAgain>> /\ done[Response.req] # <<>>
    BY <2>2, <2>4, <2>5, <2>7 DEF Owed, Refused, FlightInv, DoneInv, Tells
  <2> QED
    BY <1>1, <2>2, <2>8
<1> QED
  BY <1>2, <1>3

(* The child loses the framing of the responses only if a form that it was *)
(* told to refuse, for want of memory, was run all the same: while memory  *)
(* lasts, no cut of the stream and no order of requests makes it drain a   *)
(* part of a response.                                                     *)
THEOREM FramingKept == SerialsSuffice => (Spec => []FramingLostOnlyByAbort)
<1> SUFFICES ASSUME SerialsSuffice PROVE Spec => []FramingLostOnlyByAbort
  OBVIOUS
<1>1. Init => FramingLostOnlyByAbort
  BY DEF Init, FramingLostOnlyByAbort
<1>2. TypeOK /\ FlightInv /\ [Next]_vars => FlightInv'
  BY FlightStep
<1>3. TypeOK /\ ReplyInv /\ FlightInv /\ OwedInv /\ [Next]_vars => OwedInv'
  <2>1. ASSUME TypeOK, ReplyInv, FlightInv, OwedInv, [Next]_vars PROVE OwedInv'
    BY <2>1, OwedNotChild, OwedChild
  <2> QED
    BY <2>1
<1> QED
  BY TypeCorrect, ReplyInvInit, ReplyInvStep, FlightInit, OwedInit, <1>1, <1>2, <1>3,
     FramingStep, PTL DEF Spec

-----------------------------------------------------------------------------
(* WebIpc implements AdminService                                          *)

QueueEntries == [req : Req, left : Seq(Commands)]


QEntry(m)    == [req |-> m.req, left |-> m.cmds]
ListQueue(p) == [i \in DOMAIN p |-> QEntry(p[i])]

(* The queue of the service: the batch, if there is one, and the lists.    *)
QueueOf(b, p) == IF b.req = 0 THEN ListQueue(p) ELSE <<QEntry(b)>> \o ListQueue(p)

IsList(m) == m.req \in Req /\ m.cmds \in Seq(Commands)

LEMMA ListQueueFacts ==
    ASSUME NEW p \in Seq(Lists)
    PROVE  /\ ListQueue(p) \in Seq(QueueEntries) /\ Len(ListQueue(p)) = Len(p)
           /\ \A i \in 1 .. Len(p) : ListQueue(p)[i] = QEntry(p[i]) /\ IsList(p[i])
           /\ <<>> \o ListQueue(p) = ListQueue(p)
<1>1. Len(p) \in Nat /\ DOMAIN p = 1 .. Len(p)
  OBVIOUS
<1>2. ASSUME NEW i \in 1 .. Len(p) PROVE QEntry(p[i]) \in QueueEntries /\ IsList(p[i])
  <2>1. p[i] \in Lists
    BY <1>1
  <2> QED
    BY <2>1 DEF Lists, QEntry, QueueEntries, IsList
<1>3. ListQueue(p) \in [1 .. Len(p) -> QueueEntries]
  BY <1>1, <1>2 DEF ListQueue
<1>4. ListQueue(p) \in Seq(QueueEntries) /\ Len(ListQueue(p)) = Len(p)
  BY <1>1, <1>3
<1>5. \A i \in 1 .. Len(p) : ListQueue(p)[i] = QEntry(p[i])
  BY <1>1 DEF ListQueue
<1>6. <<>> \o ListQueue(p) = ListQueue(p)
  BY <1>4
<1> QED
  BY <1>2, <1>4, <1>5, <1>6

LEMMA QueueMapIs ==
    ASSUME NEW b, NEW p \in Seq(Lists)
    PROVE  QueueOf(b, p) =
              (IF b.req # 0 THEN <<[req |-> b.req, left |-> b.cmds]>> ELSE <<>>)
              \o [i \in DOMAIN p |-> [req |-> p[i].req, left |-> p[i].cmds]]
BY ListQueueFacts DEF QueueOf, QEntry, ListQueue

LEMMA QueueNow ==
    ASSUME TypeOK, TypeOK'
    PROVE  /\ QueueMap = QueueOf(batch, toParent)
           /\ QueueMap' = QueueOf(batch', toParent')
<1>1. toParent \in Seq(Lists) /\ toParent' \in Seq(Lists)
  BY DEF TypeOK, ParentEndType
<1> QED
  BY <1>1, QueueMapIs DEF QueueMap, InBatch

LEMMA SameQueue ==
    ASSUME NEW S, NEW s \in Seq(S), NEW t \in Seq(S), Len(s) = Len(t),
           \A i \in 1 .. Len(s) : s[i] = t[i]
    PROVE  s = t
OBVIOUS

(* With a batch, the queue is a form and the lists behind it.              *)
LEMMA BatchInFront ==
    ASSUME NEW b, b.req # 0, IsList(b), NEW p \in Seq(Lists)
    PROVE  /\ QueueOf(b, p) \in Seq(QueueEntries) /\ QueueOf(b, p) # <<>>
           /\ Len(QueueOf(b, p)) = Len(p) + 1
           /\ Head(QueueOf(b, p)) = QEntry(b) /\ QueueOf(b, p)[1] = QEntry(b)
           /\ Tail(QueueOf(b, p)) = ListQueue(p)
           /\ \A i \in 1 .. Len(p) : QueueOf(b, p)[i + 1] = QEntry(p[i])
<1> DEFINE first == QEntry(b)
           lists == ListQueue(p)
<1>1. first \in QueueEntries /\ QueueOf(b, p) = <<first>> \o lists
  BY DEF QueueOf, QEntry, QueueEntries, IsList
<1>2. /\ lists \in Seq(QueueEntries) /\ Len(lists) = Len(p) /\ Len(p) \in Nat
      /\ \A i \in 1 .. Len(p) : lists[i] = QEntry(p[i])
  BY ListQueueFacts
<1> HIDE DEF first, lists
<1>3. /\ <<first>> \o lists \in Seq(QueueEntries)
      /\ Len(<<first>> \o lists) = Len(lists) + 1
  BY <1>1, <1>2
<1>4. /\ (<<first>> \o lists)[1] = first
      /\ \A i \in 1 .. Len(lists) : (<<first>> \o lists)[i + 1] = lists[i]
  BY <1>1, <1>2
<1>5. Tail(<<first>> \o lists) = lists
  <2>1. /\ Tail(<<first>> \o lists) \in Seq(QueueEntries)
        /\ Len(Tail(<<first>> \o lists)) = Len(lists)
        /\ \A i \in 1 .. Len(lists) :
              Tail(<<first>> \o lists)[i] = (<<first>> \o lists)[i + 1]
    BY <1>2, <1>3
  <2> QED
    BY <1>2, <1>4, <2>1, SameQueue
<1> QED
  BY <1>1, <1>2, <1>3, <1>4, <1>5 DEF first, lists

(* A form that is accepted comes last, ...                                 *)
LEMMA QueueAppends ==
    ASSUME NEW b, b.req # 0 => IsList(b), NEW p \in Seq(Lists), NEW m \in Lists
    PROVE  QueueOf(b, Append(p, m)) = Append(QueueOf(b, p), QEntry(m))
<1> DEFINE longer == Append(p, m)
           entry == QEntry(m)
<1>1. /\ longer \in Seq(Lists) /\ Len(longer) = Len(p) + 1 /\ Len(p) \in Nat
      /\ longer[Len(p) + 1] = m
      /\ \A i \in 1 .. Len(p) : longer[i] = p[i]
      /\ entry \in QueueEntries
  BY DEF QEntry, QueueEntries, Lists
<1>2. /\ ListQueue(p) \in Seq(QueueEntries) /\ Len(ListQueue(p)) = Len(p)
      /\ \A i \in 1 .. Len(p) : ListQueue(p)[i] = QEntry(p[i])
  BY ListQueueFacts
<1>3. /\ ListQueue(longer) \in Seq(QueueEntries) /\ Len(ListQueue(longer)) = Len(p) + 1
      /\ \A i \in 1 .. Len(p) + 1 : ListQueue(longer)[i] = QEntry(longer[i])
  BY <1>1, ListQueueFacts
<1> HIDE DEF longer, entry
<1>4. ListQueue(longer) = Append(ListQueue(p), entry)
  <2>1. /\ Append(ListQueue(p), entry) \in Seq(QueueEntries)
        /\ Len(Append(ListQueue(p), entry)) = Len(p) + 1
        /\ Append(ListQueue(p), entry)[Len(p) + 1] = entry
        /\ \A i \in 1 .. Len(p) : Append(ListQueue(p), entry)[i] = ListQueue(p)[i]
    BY <1>1, <1>2
  <2>2. ASSUME NEW i \in 1 .. Len(p) + 1
        PROVE  ListQueue(longer)[i] = Append(ListQueue(p), entry)[i]
    <3>1. i \in 1 .. Len(p) \/ i = Len(p) + 1
      BY <1>1
    <3> QED
      BY <1>1, <1>2, <1>3, <2>1, <3>1 DEF entry
  <2> QED
    BY <1>3, <2>1, <2>2, SameQueue
<1>5. ASSUME IsList(b)
      PROVE  <<QEntry(b)>> \o Append(ListQueue(p), entry)
                = Append(<<QEntry(b)>> \o ListQueue(p), entry)
  <2>1. <<QEntry(b)>> \in Seq(QueueEntries)
    BY <1>5 DEF QEntry, QueueEntries, IsList
  <2> QED
    BY <1>1, <1>2, <2>1
<1> QED
  BY <1>4, <1>5 DEF QueueOf, longer, entry

(* ... and what is taken out of the stream stays at the head.              *)
LEMMA QueueTakes ==
    ASSUME NEW p \in Seq(Lists), p # <<>>, NEW b, b.req # 0,
           b.req = Head(p).req, b.cmds = Head(p).cmds
    PROVE  QueueOf(b, Tail(p)) = ListQueue(p)
<1>1. /\ Tail(p) \in Seq(Lists) /\ Len(Tail(p)) = Len(p) - 1 /\ Len(p) \in Nat \ {0}
      /\ \A i \in 1 .. Len(p) - 1 : Tail(p)[i] = p[i + 1]
      /\ Head(p) = p[1] /\ 1 \in 1 .. Len(p)
  OBVIOUS
<1>2. /\ ListQueue(p) \in Seq(QueueEntries) /\ Len(ListQueue(p)) = Len(p)
      /\ \A i \in 1 .. Len(p) : ListQueue(p)[i] = QEntry(p[i]) /\ IsList(p[i])
  BY ListQueueFacts
<1>3. QEntry(b) = QEntry(p[1]) /\ IsList(b)
  BY <1>1, <1>2 DEF QEntry, IsList
<1>4. /\ QueueOf(b, Tail(p)) \in Seq(QueueEntries)
      /\ Len(QueueOf(b, Tail(p))) = Len(Tail(p)) + 1
      /\ QueueOf(b, Tail(p))[1] = QEntry(b)
      /\ \A i \in 1 .. Len(Tail(p)) : QueueOf(b, Tail(p))[i + 1] = QEntry(Tail(p)[i])
  BY <1>1, <1>3, BatchInFront
<1>5. ASSUME NEW i \in 1 .. Len(p) PROVE QueueOf(b, Tail(p))[i] = ListQueue(p)[i]
  <2>1. CASE i = 1
    BY <1>2, <1>3, <1>4, <2>1
  <2>2. CASE i # 1
    <3>1. i - 1 \in 1 .. Len(Tail(p)) /\ (i - 1) + 1 = i /\ Tail(p)[i - 1] = p[i]
      BY <1>1, <2>2
    <3> QED
      BY <1>2, <1>4, <3>1
  <2> QED
    BY <2>1, <2>2
<1> QED
  BY <1>1, <1>2, <1>4, <1>5, SameQueue

(* The batch runs its next command.                                        *)
LEMMA QueueRuns ==
    ASSUME NEW b, b.req # 0, IsList(b), b.cmds # <<>>, NEW p \in Seq(Lists),
           NEW c, c.req = b.req, c.cmds = Tail(b.cmds)
    PROVE  QueueOf(c, p) = [QueueOf(b, p) EXCEPT ![1].left = Tail(@)]
<1> DEFINE q == QueueOf(b, p)
           e == [req |-> b.req, left |-> Tail(b.cmds)]
<1>1. c.cmds \in Seq(Commands) /\ IsList(c)
  BY DEF IsList
<1>2. e = QEntry(c) /\ e \in QueueEntries
  BY <1>1 DEF QEntry, QueueEntries, IsList
<1>3. /\ q \in Seq(QueueEntries) /\ Len(q) = Len(p) + 1 /\ Len(p) \in Nat
      /\ q[1] = QEntry(b)
      /\ \A i \in 1 .. Len(p) : q[i + 1] = QEntry(p[i])
  BY BatchInFront
<1>4. /\ QueueOf(c, p) \in Seq(QueueEntries) /\ Len(QueueOf(c, p)) = Len(p) + 1
      /\ QueueOf(c, p)[1] = QEntry(c)
      /\ \A i \in 1 .. Len(p) : QueueOf(c, p)[i + 1] = QEntry(p[i])
  BY <1>1, BatchInFront
<1>5. [q EXCEPT ![1].left = Tail(@)] = [q EXCEPT ![1] = e]
  <2>1. \A r, l, m : [[req |-> r, left |-> l] EXCEPT !.left = m] = [req |-> r, left |-> m]
    OBVIOUS
  <2>2. [QEntry(b) EXCEPT !.left = Tail(b.cmds)] = e /\ QEntry(b).left = b.cmds
    <3>1. QEntry(b) = [req |-> b.req, left |-> b.cmds]
      BY DEF QEntry
    <3>2. ASSUME NEW m
          PROVE  [QEntry(b) EXCEPT !.left = m] = [req |-> b.req, left |-> m]
      BY <2>1, <3>1
    <3>3. QEntry(b).left = b.cmds
      BY <3>1
    <3> QED
      BY <3>2, <3>3, Zenon
  <2> HIDE DEF q, e
  <2>3. [q[1] EXCEPT !.left = Tail(@)] = e
    BY <1>3, <2>2
  <2> QED
    BY <2>3
<1> HIDE DEF q, e
<1>6. /\ [q EXCEPT ![1] = e] \in Seq(QueueEntries) /\ Len([q EXCEPT ![1] = e]) = Len(p) + 1
      /\ [q EXCEPT ![1] = e][1] = e
      /\ \A i \in 1 .. Len(p) : [q EXCEPT ![1] = e][i + 1] = q[i + 1]
  BY <1>2, <1>3
<1>7. ASSUME NEW i \in 1 .. Len(p) + 1 PROVE QueueOf(c, p)[i] = [q EXCEPT ![1] = e][i]
  <2>1. CASE i = 1
    BY <1>2, <1>4, <1>6, <2>1
  <2>2. CASE i # 1
    <3>1. i - 1 \in 1 .. Len(p) /\ (i - 1) + 1 = i
      BY <1>3, <2>2
    <3> QED
      BY <1>3, <1>4, <1>6, <3>1
  <2> QED
    BY <2>1, <2>2
<1>8. QueueOf(c, p) = [q EXCEPT ![1] = e]
  BY <1>3, <1>4, <1>6, <1>7, SameQueue
<1> QED
  BY <1>5, <1>8 DEF q

-----------------------------------------------------------------------------
(* Steps of the two processes as steps of the service                      *)

(* Both speak the same protocol.                                           *)
LEMMA SameProtocol ==
    /\ Service!TryAgain = TryAgain /\ Service!FormErrors = FormErrors
    /\ Service!CodeOf = CodeOf /\ Service!OutcomesOf = OutcomesOf
    /\ Service!Outcomes = Outcomes /\ Service!Req = Req
BY DEF Service!TryAgain, TryAgain, Service!FormErrors, FormErrors, Service!CodeOf, CodeOf,
       Service!OutcomesOf, OutcomesOf, Service!Outcomes, Outcomes, Service!Req, Req

(* Nothing of it is seen by the service.                                   *)
LEMMA Stutters ==
    ASSUME UNCHANGED <<posted, toParent, done, replies>> /\ UNCHANGED batch
    PROVE  UNCHANGED Service!vars
BY DEF Service!vars, QueueMap, InBatch

LEMMA ServiceRefuse ==
    ASSUME TypeOK, ReplyInv, CanPost, NEW code \in FormErrors \cup {TryAgain},
           RefusePost(code)
    PROVE  Service!Reject(code)
<1>1. posted < MaxPosts /\ posted' = posted + 1 /\ posted' \in Req
  BY EntryTypes, BoundsAssumption DEF CanPost, RefusePost, TypeOK, Req
<1>2. replies[posted'] = <<>>
  BY <1>1, EntryTypes DEF ReplyInv, FutureUnanswered, TypeOK
<1>3. Reply(posted', code)
  BY DEF RefusePost, Reply
<1>4. replies' = [replies EXCEPT ![posted'] = <<code>>]
  BY <1>1, <1>2, <1>3, FirstAnswer
<1>5. UNCHANGED QueueMap /\ UNCHANGED done
  BY DEF RefusePost, QueueMap, InBatch, parentVars, ranVars
<1> QED
  BY <1>1, <1>4, <1>5 DEF Service!Reject

(* What holds of the batch and the lists in any state.                     *)
LEMMA QueueTypes ==
    ASSUME TypeOK
    PROVE  /\ toParent \in Seq(Lists)
           /\ batch.req # 0 => IsList(batch)
BY BatchTypes DEF TypeOK, ParentEndType, IsList

LEMMA ServicePost ==
    ASSUME TypeOK, TypeOK', NEW cmds \in Batches, HttpPost(cmds)
    PROVE  Service!Accept(cmds)
<1> DEFINE list == [serial |-> ipcSerial, req |-> posted', cmds |-> cmds]
<1>1. /\ posted < MaxPosts /\ posted' = posted + 1 /\ posted' \in Req
      /\ cmds \in Seq(Commands) /\ ipcSerial \in Serials
  BY EntryTypes, BoundsAssumption, InstanceAssumption
  DEF CanPost, HttpPost, TypeOK, WebType, Req
<1>2. UNCHANGED <<batch, done, replies>> /\ toParent' = Append(toParent, list)
  BY DEF HttpPost, parentVars, ranVars
<1>3. list \in Lists /\ QEntry(list) = [req |-> posted', left |-> cmds]
  BY <1>1 DEF Lists, QEntry
<1> HIDE DEF list
<1>4. QueueMap' = Append(QueueMap, QEntry(list))
  BY <1>2, <1>3, QueueNow, QueueTypes, QueueAppends
<1> QED
  BY <1>1, <1>2, <1>3, <1>4 DEF Service!Accept

LEMMA ServiceTake ==
    ASSUME TypeOK, TypeOK', FlightInv, ParentTake
    PROVE  UNCHANGED Service!vars
<1>1. /\ batch.req = 0
      /\ toParent # <<>> /\ toParent' = Tail(toParent) /\ toParent \in Seq(Lists)
      /\ Head(toParent) = toParent[1] /\ 1 \in DOMAIN toParent
      /\ batch'.req = Head(toParent).req /\ batch'.cmds = Head(toParent).cmds
      /\ UNCHANGED <<posted, replies, done>>
  BY ListTypes
  DEF ParentTake, ParentScans, FlightInv, QueueInv, NoBatch, webVars, ranVars
<1>2. batch'.req # 0
  BY <1>1, ListTypes, FormNumbers
<1>3. QueueMap' = QueueMap
  <2>1. QueueMap' = ListQueue(toParent)
    BY <1>1, <1>2, QueueNow, QueueTakes
  <2>2. QueueMap = ListQueue(toParent)
    BY <1>1, QueueNow DEF QueueOf
  <2> QED
    BY <2>1, <2>2
<1> QED
  BY <1>1, <1>3 DEF Service!vars

LEMMA ServiceExec ==
    ASSUME TypeOK, TypeOK', NEW out \in Outcomes, Executing(out),
           done' = [done EXCEPT ![batch.req] = Append(@, out)],
           batch'.req = batch.req, batch'.cmds = Tail(batch.cmds),
           UNCHANGED <<posted, replies, toParent>>
    PROVE  Service!Execute(out)
<1>1. /\ batch.req # 0 /\ IsList(batch) /\ toParent \in Seq(Lists)
      /\ batch.cmds # <<>> /\ out \in OutcomesOf[Head(batch.cmds)]
  BY BatchTypes, QueueTypes DEF Executing
<1>2. /\ QueueMap # <<>> /\ Head(QueueMap) = QEntry(batch)
      /\ Head(QueueMap).left = batch.cmds /\ Head(QueueMap).req = batch.req
  <2>1. QueueMap # <<>> /\ Head(QueueMap) = QEntry(batch)
    BY <1>1, QueueNow, BatchInFront
  <2> QED
    BY <2>1 DEF QEntry
<1>3. QueueMap' = [QueueMap EXCEPT ![1].left = Tail(@)]
  BY <1>1, QueueNow, QueueRuns
<1>4. done' = [done EXCEPT ![Head(QueueMap).req] = Append(@, out)]
  BY <1>2
<1> QED
  BY <1>1, <1>2, <1>3, <1>4, SameProtocol DEF Service!Execute

LEMMA ServiceComplete ==
    ASSUME TypeOK, TypeOK', ParentRespond \/ ParentBreak
    PROVE  Service!Complete
<1>1. /\ parentPc = "exec" /\ batch.cmds = <<>> /\ batch'.req = 0
      /\ UNCHANGED <<posted, replies, toParent, done>>
  BY DEF ParentRespond, ParentBreak, NoBatch, webVars, ranVars
<1>2. batch.req # 0 /\ IsList(batch) /\ toParent \in Seq(Lists)
  BY <1>1, BatchTypes, QueueTypes
<1>3. /\ QueueMap # <<>> /\ Head(QueueMap).left = <<>>
      /\ Tail(QueueMap) = ListQueue(toParent)
  <2>1. /\ QueueMap # <<>> /\ Head(QueueMap) = QEntry(batch)
        /\ Tail(QueueMap) = ListQueue(toParent)
    BY <1>2, QueueNow, BatchInFront
  <2> QED
    BY <1>1, <2>1 DEF QEntry
<1>4. QueueMap' = ListQueue(toParent)
  BY <1>1, QueueNow DEF QueueOf
<1> QED
  BY <1>1, <1>3, <1>4 DEF Service!Complete

(* An answer is about a form that was posted, has run, was not answered    *)
(* and waits no more.                                                      *)
LEMMA ServiceAnswer ==
    ASSUME TypeOK, TypeOK', ReplyInv, FlightInv, NEW i \in DOMAIN reqList,
           ChildReply(i) \/ ChildAborted(i)
    PROVE  \E r \in Req : Service!Answer(r) \/ Service!Apologise(r)
<1>1. PICK r \in Req : r = reqList[i].req
  BY EntryTypes DEF TypeOK
<1>2. /\ ChildScans /\ r = Response.req /\ Response = toChild[1] /\ 1 \in DOMAIN toChild
      /\ Response.status \in {"abort", "success"}
  BY <1>1, MatchIsOwn, ResponseTypes
  DEF ChildReply, ChildAborted, ChildScans, Response, FlightInv
<1>3. r <= posted /\ replies[r] = <<>>
  BY <1>1, UnderWayPosted DEF ReplyInv, PendingUnanswered
<1>4. UNCHANGED <<posted, toParent, batch, done>>
  BY DEF ChildReply, ChildAborted, parentVars, ranVars
<1>5. UNCHANGED QueueMap
  BY <1>4 DEF QueueMap, InBatch
<1>6. CASE ChildAborted(i)
  <2>1. replies' = [replies EXCEPT ![r] = <<TryAgain>>]
    BY <1>1, <1>3, <1>6, FirstAnswer DEF ChildAborted
  <2>2. Service!Apologise(r)
    BY <1>3, <1>4, <1>5, <2>1, SameProtocol DEF Service!Apologise
  <2> QED
    BY <2>2
<1>7. CASE ChildReply(i)
  <2>1. Response.status = "success"
    BY <1>2, <1>7 DEF ChildReply
  <2>2. done[r] # <<>> /\ Response.code = CodeOf[Last(done[r])]
    BY <1>2, <2>1 DEF FlightInv, DoneInv, Tells
  <2>3. replies' = [replies EXCEPT ![r] = <<CodeOf[Last(done[r])]>>]
    BY <1>1, <1>3, <1>7, <2>2, FirstAnswer DEF ChildReply
  <2>4. ~Service!Queued(r)
    <3>1. /\ batch.req # 0 => r < batch.req
          /\ \A j \in DOMAIN toParent : r < toParent[j].req
      BY <1>2, <2>1 DEF FlightInv, SentInv, Before
    <3>2. /\ batch.req # 0 => r # batch.req
          /\ \A j \in DOMAIN toParent : r # toParent[j].req
      BY <1>1, <3>1, FormNumbers, BatchTypes, ListTypes
    <3>3. ASSUME NEW j \in DOMAIN QueueMap PROVE QueueMap[j].req # r
      <4>1. CASE batch.req = 0
        <5>1. j \in DOMAIN toParent /\ QueueMap[j] = QEntry(toParent[j])
          BY <4>1, QueueNow, QueueTypes, ListQueueFacts DEF QueueOf
        <5> QED
          BY <3>2, <5>1 DEF QEntry
      <4>2. CASE batch.req # 0
        <5>1. /\ DOMAIN QueueMap = 1 .. Len(toParent) + 1
              /\ QueueMap[1] = QEntry(batch)
              /\ \A k \in 1 .. Len(toParent) : QueueMap[k + 1] = QEntry(toParent[k])
          BY <4>2, QueueNow, QueueTypes, BatchInFront
        <5>2. CASE j = 1
          BY <3>2, <4>2, <5>1, <5>2 DEF QEntry
        <5>3. CASE j # 1
          <6>1. j - 1 \in DOMAIN toParent /\ (j - 1) + 1 = j
            BY <5>1, <5>3, ListTypes
          <6>2. QueueMap[j] = QEntry(toParent[j - 1])
            BY <5>1, <6>1, ListTypes
          <6> QED
            BY <3>2, <6>1, <6>2 DEF QEntry
        <5> QED
          BY <5>2, <5>3
      <4> QED
        BY <4>1, <4>2
    <3> QED
      BY <3>3 DEF Service!Queued
  <2>5. Service!Answer(r)
    BY <1>3, <1>4, <1>5, <2>2, <2>3, <2>4, SameProtocol
    DEF Service!Answer, Service!Last, Last
  <2> QED
    BY <2>5
<1> QED
  BY <1>6, <1>7

LEMMA ServiceInit == Init => Service!Init
<1> SUFFICES ASSUME Init PROVE Service!Init
  OBVIOUS
<1>1. QueueMap = <<>>
  BY ListQueueFacts, QueueMapIs DEF Init, NoBatch, QueueMap, InBatch
<1> QED
  BY <1>1, SameProtocol DEF Init, Service!Init

LEMMA ServiceStep ==
    SerialsSuffice /\ TypeOK /\ TypeOK' /\ ReplyInv /\ FlightInv /\ [Next]_vars
        => [Service!Next]_Service!vars
<1> SUFFICES ASSUME SerialsSuffice, TypeOK, TypeOK', ReplyInv, FlightInv, [Next]_vars
             PROVE  Service!Next \/ UNCHANGED Service!vars
  OBVIOUS
<1>1. CASE Client
  <2>1. CASE HttpBacklog \/ HttpBadForm \/ HttpNoMemory
    <3>1. PICK code \in FormErrors \cup {TryAgain} : CanPost /\ RefusePost(code)
      BY <2>1 DEF HttpBacklog, HttpBadForm, HttpNoMemory
    <3> QED
      BY <3>1, ServiceRefuse, SameProtocol DEF Service!Next
  <2>2. CASE \E cmds \in Batches : HttpPost(cmds)
    BY <2>2, ServicePost DEF Service!Next
  <2> QED
    BY <1>1, <2>1, <2>2 DEF Client
<1>2. CASE Parent
  <2>1. CASE (\E n \in 1 .. MaxRead : ParentRead(n)) \/ ParentIdle \/ ParentIncomplete
             \/ ParentNoMemory
    <3>1. UNCHANGED <<posted, toParent, done, replies>> /\ UNCHANGED batch
      BY <2>1 DEF ParentRead, ParentIdle, ParentIncomplete, ParentNoMemory, webVars, ranVars
    <3> QED
      BY <3>1, Stutters
  <2>2. CASE ParentTake
    BY <2>2, ServiceTake
  <2>3. ASSUME NEW out \in Outcomes, ExecCommand(out) PROVE Service!Execute(out)
    <3>1. /\ Executing(out) /\ UNCHANGED <<posted, replies, toParent>>
          /\ done' = [done EXCEPT ![batch.req] = Append(@, out)]
      BY <2>3 DEF ExecCommand, webVars
    <3>2. batch'.req = batch.req /\ batch'.cmds = Tail(batch.cmds)
      BY <2>3 DEF ExecCommand, Respond, TypeOK, BatchType
    <3> QED
      BY <3>1, <3>2, ServiceExec
  <2>4. CASE ExecUnsaved
    <3>1. /\ Executing("unsaved") /\ UNCHANGED <<posted, replies, toParent>>
          /\ done' = [done EXCEPT ![batch.req] = Append(@, "unsaved")]
          /\ "unsaved" \in Outcomes
      BY <2>4 DEF ExecUnsaved, webVars, Outcomes
    <3>2. batch'.req = batch.req /\ batch'.cmds = Tail(batch.cmds)
      BY <2>4 DEF ExecUnsaved, Respond, TypeOK, BatchType
    <3> QED
      BY <3>1, <3>2, ServiceExec, SameProtocol DEF Service!Next
  <2>5. CASE ParentRespond \/ ParentBreak
    BY <2>5, ServiceComplete DEF Service!Next
  <2> QED
    BY <1>2, <2>1, <2>2, <2>3, <2>4, <2>5, SameProtocol DEF Parent, Service!Next
<1>3. CASE Child
  <2>1. CASE (\E n \in 1 .. MaxRead : ChildRead(n)) \/ ChildIdle \/ ChildUnmatched
             \/ \E i \in DOMAIN reqList : ChildPartial(i)
    <3>1. UNCHANGED <<posted, toParent, done, replies>> /\ UNCHANGED batch
      BY <2>1 DEF ChildRead, ChildIdle, ChildUnmatched, ChildPartial, webVars, parentVars,
                  ranVars
    <3> QED
      BY <3>1, Stutters
  <2>2. CASE \E i \in DOMAIN reqList : ChildReply(i) \/ ChildAborted(i)
    <3>1. \E r \in Req : Service!Answer(r) \/ Service!Apologise(r)
      BY <2>2, ServiceAnswer
    <3> QED
      BY <3>1, SameProtocol DEF Service!Next
  <2> QED
    BY <1>3, <2>1, <2>2 DEF Child
<1>4. CASE Stop \/ UNCHANGED vars
  <2>1. UNCHANGED <<posted, toParent, done, replies>> /\ UNCHANGED batch
    BY <1>4 DEF Stop, Reboot, ParentDies, ChildDies, ParentBrokenPipe, ChildBrokenPipe,
                vars, webVars, parentVars, ranVars
  <2> QED
    BY <2>1, Stutters
<1> QED
  BY <1>1, <1>2, <1>3, <1>4 DEF Next

(* The two processes and their sockets implement the service that          *)
(* AdminService describes: whatever is cut, lost for want of memory or     *)
(* killed, forms run in the order posted and each command at most once,    *)
(* and a form gets at most one answer, which is the outcome of the last    *)
(* command of a form that ran to its end, or "try again".                  *)
THEOREM Implements == SerialsSuffice => (Spec => ImplementsService)
<1> SUFFICES ASSUME SerialsSuffice PROVE Spec => ImplementsService
  OBVIOUS
<1>1. TypeOK /\ FlightInv /\ [Next]_vars => FlightInv'
  BY FlightStep
<1>2. TypeOK /\ TypeOK' /\ ReplyInv /\ FlightInv /\ [Next]_vars
         => [Service!Next]_Service!vars
  BY ServiceStep
<1> QED
  BY TypeCorrect, ReplyInvInit, ReplyInvStep, FlightInit, ServiceInit, <1>1, <1>2, PTL
  DEF Spec, ImplementsService, Service!Spec
=============================================================================
