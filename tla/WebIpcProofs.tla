---------------------------- MODULE WebIpcProofs ----------------------------
(***************************************************************************)
(* What TLAPS proves of WebIpc for every number of forms, every limit on   *)
(* pending requests, every set of batches and every way the streams are    *)
(* cut.                                                                    *)
(***************************************************************************)
EXTENDS WebIpc, TLAPS

(* Removing one entry of a sequence: what is left, and where it came from. *)
LEMMA RemoveAtFacts ==
    ASSUME NEW S, NEW s \in Seq(S), NEW i \in 1 .. Len(s)
    PROVE  /\ RemoveAt(s, i) \in Seq(S)
           /\ Len(RemoveAt(s, i)) = Len(s) - 1
           /\ \A j \in 1 .. Len(s) - 1 :
                 RemoveAt(s, i)[j] = IF j < i THEN s[j] ELSE s[j + 1]
<1> DEFINE a == SubSeq(s, 1, i - 1)
           b == SubSeq(s, i + 1, Len(s))
<1>0. Len(s) \in Nat /\ i \in Nat /\ 1 <= i /\ i <= Len(s)
  OBVIOUS
<1>1. a \in Seq(S) /\ Len(a) = i - 1 /\ \A j \in 1 .. i - 1 : a[j] = s[j]
  OBVIOUS
<1>2. b \in Seq(S) /\ Len(b) = Len(s) - i /\ \A j \in 1 .. Len(s) - i : b[j] = s[j + i]
  OBVIOUS
<1>3. RemoveAt(s, i) = a \o b
  BY DEF RemoveAt
<1> HIDE DEF a, b
<1>4. a \o b \in Seq(S) /\ Len(a \o b) = Len(a) + Len(b)
  <2>1. a \in Seq(S) /\ b \in Seq(S)
    BY <1>1, <1>2
  <2>2. a \o b \in Seq(S)
    BY <2>1
  <2>3. Len(a \o b) = Len(a) + Len(b)
    BY <2>1
  <2> QED
    BY <2>2, <2>3
<1>5. Len(a \o b) = Len(s) - 1
  BY <1>0, <1>1, <1>2, <1>4
<1>6. ASSUME NEW j \in 1 .. Len(s) - 1
      PROVE  (a \o b)[j] = IF j < i THEN s[j] ELSE s[j + 1]
  <2>1. CASE j < i
    BY <1>0, <1>1, <1>2, <2>1
  <2>2. CASE ~(j < i)
    <3>1. (a \o b)[j] = b[j - (i - 1)]
      BY <1>0, <1>1, <1>2, <2>2
    <3>2. j - (i - 1) \in 1 .. Len(s) - i /\ (j - (i - 1)) + i = j + 1
      BY <1>0, <2>2
    <3> QED
      BY <1>2, <2>2, <3>1, <3>2
  <2> QED
    BY <2>1, <2>2
<1> QED
  BY <1>3, <1>4, <1>5, <1>6

-----------------------------------------------------------------------------
(* Type correctness                                                        *)

LEMMA NextSerialType ==
    ASSUME NEW n \in Serials
    PROVE  NextSerial(n) \in Serials
BY BoundsAssumption DEF Serials, NextSerial

LEMMA InitType == Init => TypeOK
<1> SUFFICES ASSUME Init PROVE TypeOK
  OBVIOUS
<1>1. 0 \in Serials /\ 0 \in 0 .. MaxPosts
  BY BoundsAssumption DEF Serials
<1>2. WebType
  <2>1. replies \in [Req -> Seq(Codes)]
    BY DEF Init
  <2>2. resetReq \in BOOLEAN
    BY DEF Init
  <2>3. posted = 0 /\ reqList = <<>> /\ ipcSerial = 0
    BY DEF Init
  <2> QED
    BY <1>1, <2>1, <2>2, <2>3 DEF WebType
<1>3. ChildEndType /\ ParentEndType
  BY DEF Init, ChildEndType, ParentEndType, HdrUnits
<1>4. BatchType
  BY <1>1 DEF Init, BatchType, NoBatch, Statuses
<1>5. RanType
  <2>1. done \in [Req -> Seq(Outcomes)]
    BY DEF Init
  <2>2. rebootArmed \in BOOLEAN /\ running \in BOOLEAN
    BY DEF Init
  <2> QED
    BY <2>1, <2>2 DEF RanType
<1> QED
  BY <1>2, <1>3, <1>4, <1>5 DEF TypeOK

(* What a handler leaves alone keeps its type.                             *)
LEMMA WebUnchanged == WebType /\ UNCHANGED webVars => WebType'
  BY DEF WebType, webVars
LEMMA ChildEndUnchanged ==
    ChildEndType /\ UNCHANGED <<toChild, childVars>> => ChildEndType'
  BY DEF ChildEndType, childVars
LEMMA ParentEndUnchanged ==
    /\ ParentEndType /\ BatchType
    /\ UNCHANGED <<toParent, parentVars>>
    => ParentEndType' /\ BatchType'
  BY DEF ParentEndType, BatchType, parentVars
LEMMA RanUnchanged == RanType /\ UNCHANGED ranVars => RanType'
  BY DEF RanType, ranVars
LEMMA TypeUnchanged == TypeOK /\ UNCHANGED vars => TypeOK'
  BY WebUnchanged, ChildEndUnchanged, ParentEndUnchanged, RanUnchanged
  DEF TypeOK, vars

(* Each handler keeps the types: the web server, ...                       *)
LEMMA ClientType == TypeOK /\ Client => TypeOK'
<1> SUFFICES ASSUME TypeOK, Client PROVE TypeOK'
  OBVIOUS
<1>1. ASSUME CanPost
      PROVE  posted + 1 \in Req /\ posted + 1 \in 0 .. MaxPosts
  BY <1>1, BoundsAssumption DEF TypeOK, WebType, CanPost, Req
<1>2. ASSUME NEW code \in Codes, CanPost, RefusePost(code), ipcSerial' \in Serials
      PROVE  TypeOK'
  <2>1. replies' \in [Req -> Seq(Codes)]
    BY <1>1, <1>2 DEF TypeOK, WebType, RefusePost
  <2>2. WebType'
    BY <1>1, <1>2, <2>1 DEF TypeOK, WebType, RefusePost
  <2> QED
    BY <1>2, <2>2, ChildEndUnchanged, ParentEndUnchanged, RanUnchanged
    DEF TypeOK, RefusePost
<1>3. CASE HttpBacklog
  <2>1. TryAgain \in Codes /\ ipcSerial' \in Serials
    BY <1>3 DEF HttpBacklog, TryAgain, Codes, TypeOK, WebType
  <2> QED
    BY <1>2, <1>3, <2>1 DEF HttpBacklog
<1>4. CASE HttpBadForm
  <2>1. FormErrors \subseteq Codes /\ ipcSerial' \in Serials
    BY <1>4 DEF HttpBadForm, FormErrors, Codes, TypeOK, WebType
  <2> QED
    BY <1>2, <1>4, <2>1 DEF HttpBadForm
<1>5. CASE HttpNoMemory
  <2>1. TryAgain \in Codes /\ ipcSerial' \in Serials
    BY <1>5, NextSerialType DEF HttpNoMemory, TryAgain, Codes, TypeOK, WebType
  <2> QED
    BY <1>2, <1>5, <2>1 DEF HttpNoMemory
<1>6. ASSUME NEW cmds \in Batches, HttpPost(cmds) PROVE TypeOK'
  <2>1. [serial |-> ipcSerial, req |-> posted'] \in Entries
    BY <1>1, <1>6 DEF TypeOK, WebType, HttpPost, Entries
  <2>2. [serial |-> ipcSerial, req |-> posted', cmds |-> cmds] \in Lists
    BY <1>1, <1>6, InstanceAssumption DEF TypeOK, WebType, HttpPost, Lists
  <2>3. WebType'
    BY <1>1, <1>6, <2>1, NextSerialType DEF TypeOK, WebType, HttpPost
  <2>4. ParentEndType' /\ BatchType'
    BY <1>6, <2>2 DEF TypeOK, ParentEndType, BatchType, HttpPost, parentVars
  <2> QED
    BY <1>6, <2>3, <2>4, ChildEndUnchanged, RanUnchanged DEF TypeOK, HttpPost
<1> QED
  BY <1>3, <1>4, <1>5, <1>6 DEF Client

(* ... the parent's callback and timer, ...                                *)
LEMMA HeadList ==
    ASSUME ParentEndType, toParent # <<>>
    PROVE  /\ Head(toParent) \in Lists
           /\ Tail(toParent) \in Seq(Lists)
           /\ ListUnits(Head(toParent)) \in Nat
<1>1. Head(toParent) \in Lists /\ Tail(toParent) \in Seq(Lists)
  BY DEF ParentEndType
<1>2. Len(Head(toParent).cmds) \in Nat
  BY <1>1 DEF Lists
<1> QED
  BY <1>1, <1>2 DEF ListUnits, HdrUnits

LEMMA RespondType ==
    ASSUME BatchType, parentPc = "exec", UNCHANGED parentPc,
           batch.cmds # <<>>,
           NEW out \in Outcomes, NEW text \in 0 .. 2, NEW status \in Statuses,
           Respond(out, text, status)
    PROVE  BatchType'
<1>1. CodeOf[out] \in Codes
  BY DEF CodeOf, Outcomes, Codes
<1>2. Tail(batch.cmds) \in Seq(Commands)
  BY DEF BatchType
<1> QED
  BY <1>1, <1>2 DEF BatchType, Respond

LEMMA NoBatchType ==
    parentPc' # "exec" /\ batch' = NoBatch => BatchType'
<1>1. NoBatch \in [req : 0 .. MaxPosts, serial : Serials, cmds : Seq(Commands),
                  status : Statuses, code : Codes \cup {0}, len : 0 .. 2]
  BY BoundsAssumption DEF NoBatch, Serials, Statuses
<1>2. NoBatch.status # "success"
  BY DEF NoBatch
<1> QED
  BY <1>1, <1>2 DEF BatchType

LEMMA ParentType == TypeOK /\ Parent => TypeOK'
<1> SUFFICES ASSUME TypeOK, Parent PROVE TypeOK'
  OBVIOUS
<1> USE DEF TypeOK
<1>1. ASSUME NEW n \in 1 .. MaxRead, ParentRead(n) PROVE TypeOK'
  <2>1. ParentEndType' /\ BatchType'
    BY <1>1, BoundsAssumption DEF ParentRead, ParentEndType, BatchType
  <2> QED
    BY <1>1, <2>1, WebUnchanged, ChildEndUnchanged, RanUnchanged DEF ParentRead
<1>2. CASE ParentIdle
  <2>1. ParentEndType' /\ BatchType'
    BY <1>2 DEF ParentIdle, ParentEndType, BatchType
  <2> QED
    BY <1>2, <2>1, WebUnchanged, ChildEndUnchanged, RanUnchanged DEF ParentIdle
<1>3. CASE ParentIncomplete
  <2>1. ParentEndType' /\ BatchType'
    BY <1>3, HeadList DEF ParentIncomplete, ParentWaitsFor, ParentScans, ParentEndType, BatchType
  <2> QED
    BY <1>3, <2>1, WebUnchanged, ChildEndUnchanged, RanUnchanged
    DEF ParentIncomplete, ParentWaitsFor
<1>4. CASE ParentTake
  <2>1. ParentEndType'
    BY <1>4, HeadList
    DEF ParentTake, ParentWaitsFor, ParentScans, ListComplete, ParentEndType, HdrUnits
  <2>2. BatchType'
    BY <1>4, HeadList, BoundsAssumption
    DEF ParentTake, ParentWaitsFor, ParentScans, BatchType, Lists, Statuses, Req
  <2> QED
    BY <1>4, <2>1, <2>2, WebUnchanged, ChildEndUnchanged, RanUnchanged
    DEF ParentTake, ParentWaitsFor
<1>5. CASE ParentNoMemory
  <2>1. Abort \in Responses
    BY <1>5, HeadList DEF ParentNoMemory, ParentWaitsFor, ParentScans, Abort, Lists, Responses, Aborts
  <2>2. ChildEndType'
    BY <1>5, <2>1 DEF ParentNoMemory, ParentWaitsFor, ChildEndType, childVars
  <2>3. ParentEndType' /\ BatchType'
    BY <1>5 DEF ParentNoMemory, ParentWaitsFor, ParentEndType, BatchType, HdrUnits
  <2> QED
    BY <1>5, <2>2, <2>3, WebUnchanged, RanUnchanged DEF ParentNoMemory, ParentWaitsFor
<1>6. ASSUME NEW out \in Outcomes, ExecCommand(out) PROVE TypeOK'
  <2>1. TextUnits[out] \in 0 .. 2
    BY DEF TextUnits, Outcomes
  <2>2. batch.status \in Statuses /\ batch.len \in 0 .. 2 /\ batch.req \in Req
    BY <1>6 DEF BatchType, ExecCommand, Executing
  <2>3. BatchType'
    BY <1>6, <2>1, <2>2, RespondType DEF ExecCommand, Executing, Statuses
  <2>4. ParentEndType'
    BY <1>6 DEF ExecCommand, ParentEndType
  <2>5. RanType'
    BY <1>6, <2>2 DEF ExecCommand, RanType
  <2> QED
    BY <1>6, <2>3, <2>4, <2>5, WebUnchanged, ChildEndUnchanged DEF ExecCommand
<1>7. CASE ExecUnsaved
  <2>1. TextUnits["unsaved"] \in 0 .. 2 /\ "unsaved" \in Outcomes
    BY DEF TextUnits, Outcomes
  <2>2. batch.status \in Statuses /\ batch.len \in 0 .. 2 /\ batch.req \in Req
    BY <1>7 DEF BatchType, ExecUnsaved, Executing
  <2>3. BatchType'
    <3>1. CASE Respond("unsaved", TextUnits["unsaved"], batch.status)
      BY <1>7, <2>1, <2>2, <3>1, RespondType DEF ExecUnsaved, Executing
    <3>2. CASE batch' = [batch EXCEPT !.cmds = Tail(@)]
      <4>1. Tail(batch.cmds) \in Seq(Commands)
        BY <1>7 DEF ExecUnsaved, Executing, BatchType
      <4>2. /\ batch'.req = batch.req /\ batch'.status = batch.status
            /\ batch'.code = batch.code
        BY <3>2 DEF BatchType
      <4>3. batch' \in [req : 0 .. MaxPosts, serial : Serials,
                       cmds : Seq(Commands), status : Statuses,
                       code : Codes \cup {0}, len : 0 .. 2]
        BY <3>2, <4>1 DEF BatchType
      <4> QED
        BY <1>7, <4>2, <4>3 DEF ExecUnsaved, BatchType
    <3> QED
      BY <1>7, <3>1, <3>2 DEF ExecUnsaved
  <2>4. ParentEndType'
    BY <1>7 DEF ExecUnsaved, ParentEndType
  <2>5. RanType'
    <3>1. done' \in [Req -> Seq(Outcomes)]
      BY <1>7, <2>1, <2>2 DEF ExecUnsaved, RanType
    <3>2. running' \in BOOLEAN /\ rebootArmed' \in BOOLEAN
      BY <1>7 DEF ExecUnsaved, RanType
    <3> QED
      BY <3>1, <3>2 DEF RanType
  <2> QED
    BY <1>7, <2>3, <2>4, <2>5, WebUnchanged, ChildEndUnchanged DEF ExecUnsaved
<1>8. CASE ParentRespond
  <2>2. ChildEndType'
    BY <1>8
    DEF ParentRespond, ListSucceeded, ChildEndType, BatchType, Responses, Successes, childVars
  <2>3. ParentEndType' /\ BatchType'
    BY <1>8, NoBatchType DEF ParentRespond, ListSucceeded, ParentEndType
  <2> QED
    BY <1>8, <2>2, <2>3, WebUnchanged, RanUnchanged DEF ParentRespond, ListSucceeded
<1>9. CASE ParentBreak
  <2>2. ParentEndType' /\ BatchType'
    BY <1>9, NoBatchType DEF ParentBreak, ListSucceeded, ParentEndType
  <2> QED
    BY <1>9, <2>2, WebUnchanged, ChildEndUnchanged, RanUnchanged DEF ParentBreak, ListSucceeded
<1> QED
  BY <1>1, <1>2, <1>3, <1>4, <1>5, <1>6, <1>7, <1>8, <1>9 DEF Parent

(* Processes that end leave everything but their own pc as it was.         *)
LEMMA StopType == TypeOK /\ Stop => TypeOK'
<1> SUFFICES ASSUME TypeOK, Stop PROVE TypeOK'
  OBVIOUS
<1> USE DEF TypeOK
<1>1. CASE Reboot
  <2>1. RanType'
    BY <1>1 DEF Reboot, RanType
  <2> QED
    BY <1>1, <2>1, WebUnchanged, ChildEndUnchanged, ParentEndUnchanged DEF Reboot
<1>2. CASE ParentDies
  <2>1. RanType'
    BY <1>2 DEF ParentDies, RanType
  <2>2. ParentEndType' /\ BatchType'
    BY <1>2 DEF ParentDies, ParentEndType, BatchType
  <2> QED
    BY <1>2, <2>1, <2>2, WebUnchanged, ChildEndUnchanged DEF ParentDies
<1>3. CASE ChildDies
  <2>1. ChildEndType'
    BY <1>3 DEF ChildDies, ChildEndType
  <2> QED
    BY <1>3, <2>1, WebUnchanged, ParentEndUnchanged, RanUnchanged DEF ChildDies
<1>4. CASE ParentBrokenPipe
  <2>1. ParentEndType' /\ BatchType'
    BY <1>4 DEF ParentBrokenPipe, ParentEndType, BatchType
  <2> QED
    BY <1>4, <2>1, WebUnchanged, ChildEndUnchanged, RanUnchanged
    DEF ParentBrokenPipe
<1>5. CASE ChildBrokenPipe
  <2>1. ChildEndType'
    BY <1>5 DEF ChildBrokenPipe, ChildEndType
  <2> QED
    BY <1>5, <2>1, WebUnchanged, ParentEndUnchanged, RanUnchanged
    DEF ChildBrokenPipe
<1> QED
  BY <1>1, <1>2, <1>3, <1>4, <1>5 DEF Stop

(* ... and the child's callback.                                           *)
LEMMA HeadResponse ==
    ASSUME ChildEndType, toChild # <<>>
    PROVE  /\ Response \in Responses
           /\ Tail(toChild) \in Seq(Responses)
           /\ RespUnits(Response) \in Nat
BY DEF ChildEndType, Response, Responses, Aborts, Successes, RespUnits, HdrUnits

(* A request taken out of the list.                                        *)
LEMMA TakeRequestFacts ==
    ASSUME WebType, NEW i \in DOMAIN reqList, TakeRequest(i)
    PROVE  /\ reqList' \in Seq(Entries)
           /\ Len(reqList') = Len(reqList) - 1
           /\ Len(reqList) \in Nat \ {0}
           /\ i \in 1 .. Len(reqList)
           /\ reqList[i].req \in Req
           /\ \A j \in 1 .. Len(reqList') :
                 reqList'[j] = IF j < i THEN reqList[j] ELSE reqList[j + 1]
<1>1. reqList \in Seq(Entries) /\ i \in 1 .. Len(reqList) /\ Len(reqList) \in Nat
  BY DEF WebType
<1>2. reqList[i] \in Entries
  BY <1>1
<1>3. /\ RemoveAt(reqList, i) \in Seq(Entries)
      /\ Len(RemoveAt(reqList, i)) = Len(reqList) - 1
      /\ \A j \in 1 .. Len(reqList) - 1 :
            RemoveAt(reqList, i)[j] = IF j < i THEN reqList[j] ELSE reqList[j + 1]
  BY <1>1, RemoveAtFacts
<1> QED
  BY <1>1, <1>2, <1>3 DEF TakeRequest, Entries

LEMMA ReplyType ==
    ASSUME WebType, NEW r \in Req, NEW code \in Codes, Reply(r, code)
    PROVE  replies' \in [Req -> Seq(Codes)]
BY DEF WebType, Reply

LEMMA ChildType == TypeOK /\ Child => TypeOK'
<1> SUFFICES ASSUME TypeOK, Child PROVE TypeOK'
  OBVIOUS
<1> USE DEF TypeOK
<1>1. ASSUME NEW n \in 1 .. MaxRead, ChildRead(n) PROVE TypeOK'
  <2>1. ChildEndType'
    BY <1>1, BoundsAssumption DEF ChildRead, ChildEndType
  <2> QED
    BY <1>1, <2>1, WebUnchanged, ParentEndUnchanged, RanUnchanged DEF ChildRead
<1>2. CASE ChildIdle
  <2>1. ChildEndType'
    BY <1>2 DEF ChildIdle, ChildEndType
  <2> QED
    BY <1>2, <2>1, WebUnchanged, ParentEndUnchanged, RanUnchanged DEF ChildIdle
<1>3. CASE ChildUnmatched
  <2>1. ChildEndType'
    BY <1>3, HeadResponse DEF ChildUnmatched, ChildScans, ChildEndType
  <2> QED
    BY <1>3, <2>1, WebUnchanged, ParentEndUnchanged, RanUnchanged DEF ChildUnmatched
<1>4. ASSUME NEW i \in DOMAIN reqList, ChildAborted(i) PROVE TypeOK'
  <2>1. WebType'
    BY <1>4, TakeRequestFacts, ReplyType
    DEF ChildAborted, WebType, TryAgain, Codes
  <2>2. ChildEndType'
    BY <1>4, HeadResponse DEF ChildAborted, ChildScans, ChildEndType, HdrUnits
  <2> QED
    BY <1>4, <2>1, <2>2, ParentEndUnchanged, RanUnchanged DEF ChildAborted
<1>5. ASSUME NEW i \in DOMAIN reqList, ChildPartial(i) PROVE TypeOK'
  <2>1. WebType'
    BY <1>5, TakeRequestFacts DEF ChildPartial, WebType
  <2>2. ChildEndType'
    BY <1>5, HeadResponse DEF ChildPartial, ChildWaitsFor, ChildScans, ChildEndType
  <2> QED
    BY <1>5, <2>1, <2>2, ParentEndUnchanged, RanUnchanged DEF ChildPartial
<1>6. ASSUME NEW i \in DOMAIN reqList, ChildReply(i) PROVE TypeOK'
  <2>1. Response.code \in Codes
    BY <1>6, HeadResponse DEF ChildReply, ChildScans, Responses, Aborts, Successes
  <2>2. WebType'
    <3>1. resetReq' \in BOOLEAN
      BY <1>6 DEF ChildReply, WebType
    <3> QED
      BY <1>6, <2>1, <3>1, TakeRequestFacts, ReplyType DEF ChildReply, WebType
  <2>3. ChildEndType'
    BY <1>6, HeadResponse DEF ChildReply, ChildWaitsFor, ChildScans, ChildEndType, HdrUnits
  <2> QED
    BY <1>6, <2>2, <2>3, ParentEndUnchanged, RanUnchanged DEF ChildReply
<1> QED
  BY <1>1, <1>2, <1>3, <1>4, <1>5, <1>6 DEF Child

(* Every variable keeps its type in every behaviour: the indices, record   *)
(* fields and codes the handlers compute are always defined.               *)
THEOREM TypeCorrect == Spec => []TypeOK
<1>1. TypeOK /\ [Next]_vars => TypeOK'
  BY ClientType, ParentType, ChildType, StopType, TypeUnchanged DEF Next
<1> QED
  BY InitType, <1>1, PTL DEF Spec

-----------------------------------------------------------------------------
(* No form is answered twice.  ReplyOnce is not inductive: a handler       *)
(* answers whatever request it finds in the list.  The invariant says that *)
(* the list holds each form once, and only forms with no answer yet.       *)

RequestsOrdered ==
    /\ \A i \in DOMAIN reqList : reqList[i].req <= posted
    /\ \A i, j \in DOMAIN reqList : i < j => reqList[i].req < reqList[j].req

PendingUnanswered == \A i \in DOMAIN reqList : replies[reqList[i].req] = <<>>
FutureUnanswered  == \A r \in Req : r > posted => replies[r] = <<>>

ReplyInv ==
    /\ ReplyOnce
    /\ RequestsOrdered
    /\ PendingUnanswered
    /\ FutureUnanswered

(* The entries of the list of open requests.                               *)
LEMMA EntryTypes ==
    ASSUME WebType
    PROVE  /\ Len(reqList) \in Nat /\ DOMAIN reqList = 1 .. Len(reqList)
           /\ posted \in Nat /\ ipcSerial \in Nat
           /\ \A i \in DOMAIN reqList :
                 /\ reqList[i].req \in Req /\ reqList[i].req \in Nat
                 /\ reqList[i].serial \in Nat
<1>1. reqList \in Seq(Entries)
  BY DEF WebType
<1>2. ASSUME NEW i \in DOMAIN reqList PROVE reqList[i] \in Entries
  BY <1>1
<1>3. posted \in Nat /\ ipcSerial \in Nat
  BY BoundsAssumption DEF WebType, Serials
<1>4. Req \subseteq Nat /\ Serials \subseteq Nat
  BY BoundsAssumption DEF Req, Serials
<1>5. Len(reqList) \in Nat /\ DOMAIN reqList = 1 .. Len(reqList)
  BY <1>1
<1> QED
  BY <1>2, <1>3, <1>4, <1>5 DEF Entries

LEMMA FirstAnswer ==
    ASSUME NEW r \in Req, NEW code, replies[r] = <<>>, Reply(r, code)
    PROVE  replies' = [replies EXCEPT ![r] = <<code>>]
<1>1. Append(replies[r], code) = <<code>>
  OBVIOUS
<1> QED
  BY <1>1 DEF Reply

LEMMA ReplyInvInit == Init => ReplyInv
BY DEF Init, ReplyInv, ReplyOnce, RequestsOrdered, PendingUnanswered,
       FutureUnanswered

LEMMA ReplyInvUnchanged == ReplyInv /\ UNCHANGED webVars => ReplyInv'
BY DEF ReplyInv, ReplyOnce, RequestsOrdered, PendingUnanswered,
       FutureUnanswered, webVars

LEMMA ReplyInvRefuse ==
    ASSUME TypeOK, ReplyInv, CanPost, NEW code \in Codes, RefusePost(code)
    PROVE  ReplyInv'
<1>1. /\ posted' = posted + 1 /\ posted' \in Req /\ posted \in Nat
      /\ reqList' = reqList /\ reqList \in Seq(Entries)
      /\ replies \in [Req -> Seq(Codes)]
  BY BoundsAssumption DEF TypeOK, WebType, CanPost, Req, RefusePost
<1>2. replies' = [replies EXCEPT ![posted'] = <<code>>]
  <2>1. replies[posted'] = <<>>
    BY <1>1 DEF ReplyInv, FutureUnanswered
  <2>2. Reply(posted', code)
    BY DEF RefusePost, Reply
  <2> QED
    BY <1>1, <2>1, <2>2, FirstAnswer
<1>3. \A i \in DOMAIN reqList : reqList[i].req \in Req /\ reqList[i].req <= posted
  BY EntryTypes DEF TypeOK, ReplyInv, RequestsOrdered
<1>4. ReplyOnce'
  BY <1>1, <1>2 DEF ReplyInv, ReplyOnce
<1>5. RequestsOrdered'
  BY <1>1, <1>3 DEF ReplyInv, RequestsOrdered, Req
<1>6. PendingUnanswered'
  BY <1>1, <1>2, <1>3 DEF ReplyInv, PendingUnanswered, Req
<1>7. FutureUnanswered'
  BY <1>1, <1>2 DEF ReplyInv, FutureUnanswered, Req
<1> QED
  BY <1>4, <1>5, <1>6, <1>7 DEF ReplyInv

LEMMA ReplyInvPost ==
    ASSUME TypeOK, ReplyInv, NEW cmds, HttpPost(cmds)
    PROVE  ReplyInv'
<1>1. /\ posted' = posted + 1 /\ posted' \in Req /\ posted \in Nat
      /\ reqList \in Seq(Entries) /\ Len(reqList) \in Nat
      /\ replies' = replies
  BY BoundsAssumption DEF TypeOK, WebType, CanPost, Req, HttpPost
<1>2. /\ DOMAIN reqList' = 1 .. Len(reqList) + 1
      /\ \A i \in DOMAIN reqList : reqList'[i] = reqList[i]
      /\ reqList'[Len(reqList) + 1].req = posted'
  BY <1>1 DEF HttpPost
<1>3. \A i \in DOMAIN reqList : reqList[i].req \in Req /\ reqList[i].req <= posted
  BY EntryTypes DEF TypeOK, ReplyInv, RequestsOrdered
<1>4. ReplyOnce' /\ FutureUnanswered'
  BY <1>1 DEF ReplyInv, ReplyOnce, FutureUnanswered, Req
<1>5. RequestsOrdered'
  BY <1>1, <1>2, <1>3 DEF ReplyInv, RequestsOrdered, Req
<1>6. PendingUnanswered'
  BY <1>1, <1>2, <1>3 DEF ReplyInv, PendingUnanswered, FutureUnanswered
<1> QED
  BY <1>4, <1>5, <1>6 DEF ReplyInv

(* Taking a request out of the list keeps the order, and the one taken is  *)
(* none of those that stay.                                                *)
LEMMA TakeRequestOrdered ==
    ASSUME TypeOK, RequestsOrdered, NEW i \in DOMAIN reqList, TakeRequest(i),
           UNCHANGED posted
    PROVE  /\ RequestsOrdered'
           /\ \A j \in DOMAIN reqList' :
                 /\ reqList'[j].req # reqList[i].req
                 /\ \E k \in DOMAIN reqList : reqList'[j] = reqList[k]
<1>1. /\ reqList \in Seq(Entries) /\ Len(reqList) \in Nat
      /\ i \in 1 .. Len(reqList)
      /\ DOMAIN reqList' = 1 .. Len(reqList) - 1
      /\ \A j \in 1 .. Len(reqList) - 1 :
            reqList'[j] = IF j < i THEN reqList[j] ELSE reqList[j + 1]
  <2>1. WebType
    BY DEF TypeOK
  <2>2. /\ reqList' \in Seq(Entries) /\ Len(reqList') = Len(reqList) - 1
        /\ i \in 1 .. Len(reqList)
        /\ \A j \in 1 .. Len(reqList') :
              reqList'[j] = IF j < i THEN reqList[j] ELSE reqList[j + 1]
    BY <2>1, TakeRequestFacts
  <2>3. reqList \in Seq(Entries)
    BY <2>1 DEF WebType
  <2>4. Len(reqList) \in Nat /\ DOMAIN reqList' = 1 .. Len(reqList')
    BY <2>2, <2>3
  <2> QED
    BY <2>2, <2>3, <2>4
<1>2. posted \in Nat /\ \A j \in DOMAIN reqList : reqList[j].req \in Nat
  BY EntryTypes DEF TypeOK
<1>3. ASSUME NEW j \in DOMAIN reqList'
      PROVE  \E k \in DOMAIN reqList : k # i /\ reqList'[j] = reqList[k]
  BY <1>1
<1>4. ASSUME NEW j \in DOMAIN reqList'
      PROVE  reqList'[j].req # reqList[i].req
  <2>1. PICK k \in DOMAIN reqList : k # i /\ reqList'[j] = reqList[k]
    BY <1>3
  <2>2. k < i \/ i < k
    BY <1>1, <2>1
  <2>3. reqList[k].req < reqList[i].req \/ reqList[i].req < reqList[k].req
    BY <2>2 DEF RequestsOrdered
  <2>4. reqList[k].req # reqList[i].req
    BY <1>2, <2>3
  <2> QED
    BY <2>1, <2>4
<1>5. ASSUME NEW j \in DOMAIN reqList', NEW k \in DOMAIN reqList', j < k
      PROVE  reqList'[j].req < reqList'[k].req
  <2>1. CASE k < i
    BY <1>1, <1>5, <2>1 DEF RequestsOrdered
  <2>2. CASE ~(k < i) /\ j < i
    <3>1. /\ reqList'[j] = reqList[j] /\ reqList'[k] = reqList[k + 1]
          /\ j \in DOMAIN reqList /\ k + 1 \in DOMAIN reqList
          /\ j < k + 1
      BY <1>1, <1>5, <2>2
    <3> QED
      BY <3>1 DEF RequestsOrdered
  <2>3. CASE ~(k < i) /\ ~(j < i)
    <3>1. /\ reqList'[j] = reqList[j + 1] /\ reqList'[k] = reqList[k + 1]
          /\ j + 1 \in DOMAIN reqList /\ k + 1 \in DOMAIN reqList
          /\ j + 1 < k + 1
      BY <1>1, <1>5, <2>3
    <3> QED
      BY <3>1 DEF RequestsOrdered
  <2> QED
    BY <2>1, <2>2, <2>3
<1>6. ASSUME NEW j \in DOMAIN reqList' PROVE reqList'[j].req <= posted'
  BY <1>3 DEF RequestsOrdered
<1>7. RequestsOrdered'
  BY <1>5, <1>6 DEF RequestsOrdered
<1> QED
  BY <1>3, <1>4, <1>7

LEMMA ReplyInvAnswer ==
    ASSUME TypeOK, ReplyInv, NEW i \in DOMAIN reqList, TakeRequest(i),
           NEW code \in Codes, Reply(reqList[i].req, code), UNCHANGED posted
    PROVE  ReplyInv'
<1>1. /\ reqList[i].req \in Req /\ reqList[i].req <= posted
      /\ replies \in [Req -> Seq(Codes)]
  BY TakeRequestFacts DEF TypeOK, WebType, ReplyInv, RequestsOrdered
<1>2. replies' = [replies EXCEPT ![reqList[i].req] = <<code>>]
  BY <1>1, FirstAnswer DEF ReplyInv, PendingUnanswered
<1>3. posted \in Nat /\ \A j \in DOMAIN reqList : reqList[j].req \in Req
  BY EntryTypes DEF TypeOK
<1>4. ReplyOnce'
  BY <1>1, <1>2 DEF ReplyInv, ReplyOnce
<1>5. ASSUME NEW r \in Req, r > posted' PROVE replies'[r] = <<>>
  <2>1. r # reqList[i].req /\ replies[r] = <<>>
    BY <1>1, <1>3, <1>5, BoundsAssumption DEF ReplyInv, FutureUnanswered, Req
  <2> QED
    BY <1>1, <1>2, <2>1
<1>6. PendingUnanswered'
  BY <1>1, <1>2, <1>3, TakeRequestOrdered DEF ReplyInv, PendingUnanswered
<1>7. RequestsOrdered'
  BY TakeRequestOrdered DEF ReplyInv
<1> QED
  BY <1>4, <1>5, <1>6, <1>7 DEF ReplyInv, FutureUnanswered

LEMMA ReplyInvForget ==
    ASSUME TypeOK, ReplyInv, NEW i \in DOMAIN reqList, TakeRequest(i),
           UNCHANGED <<posted, replies>>
    PROVE  ReplyInv'
<1>1. RequestsOrdered' /\ PendingUnanswered'
  BY TakeRequestOrdered DEF ReplyInv, PendingUnanswered
<1> QED
  BY <1>1 DEF ReplyInv, ReplyOnce, FutureUnanswered

LEMMA ReplyInvStep == TypeOK /\ ReplyInv /\ [Next]_vars => ReplyInv'
<1> SUFFICES ASSUME TypeOK, ReplyInv, [Next]_vars PROVE ReplyInv'
  OBVIOUS
<1>1. CASE Client
  <2>1. TryAgain \in Codes /\ FormErrors \subseteq Codes
    BY DEF TryAgain, FormErrors, Codes
  <2>2. CASE HttpBacklog \/ HttpBadForm \/ HttpNoMemory
    BY <2>1, <2>2, ReplyInvRefuse DEF HttpBacklog, HttpBadForm, HttpNoMemory
  <2>3. CASE \E cmds \in Batches : HttpPost(cmds)
    BY <2>3, ReplyInvPost
  <2> QED
    BY <1>1, <2>2, <2>3 DEF Client
<1>2. CASE Parent \/ Stop \/ UNCHANGED vars
  <2>1. UNCHANGED webVars
    BY <1>2
    DEF Parent, ParentRead, ParentIdle, ParentIncomplete, ParentTake,
        ParentNoMemory, ExecCommand, ExecUnsaved, ParentRespond, ParentBreak,
        Stop, Reboot, ParentDies, ChildDies, ParentBrokenPipe, ChildBrokenPipe, vars
  <2> QED
    BY <2>1, ReplyInvUnchanged
<1>3. CASE Child
  <2>1. CASE (\E n \in 1 .. MaxRead : ChildRead(n)) \/ ChildIdle \/ ChildUnmatched
    BY <2>1, ReplyInvUnchanged DEF ChildRead, ChildIdle, ChildUnmatched
  <2>2. ASSUME NEW i \in DOMAIN reqList, ChildAborted(i) PROVE ReplyInv'
    <3>1. TryAgain \in Codes
      BY DEF TryAgain, Codes
    <3> QED
      BY <2>2, <3>1, ReplyInvAnswer DEF ChildAborted
  <2>3. ASSUME NEW i \in DOMAIN reqList, ChildPartial(i) PROVE ReplyInv'
    BY <2>3, ReplyInvForget DEF ChildPartial
  <2>4. ASSUME NEW i \in DOMAIN reqList, ChildReply(i) PROVE ReplyInv'
    <3>1. Response.code \in Codes
      BY <2>4, HeadResponse
      DEF ChildReply, ChildScans, TypeOK, Responses, Aborts, Successes
    <3> QED
      BY <2>4, <3>1, ReplyInvAnswer DEF ChildReply
  <2> QED
    BY <1>3, <2>1, <2>2, <2>3, <2>4 DEF Child
<1> QED
  BY <1>1, <1>2, <1>3 DEF Next

(* No form is answered twice, so evhttp never sees a request it has freed, *)
(* however the streams are cut and whichever allocations fail.             *)
THEOREM RepliesOnce == Spec => []ReplyOnce
<1>1. ReplyInv => ReplyOnce
  BY DEF ReplyInv
<1> QED
  BY TypeCorrect, ReplyInvInit, ReplyInvStep, <1>1, PTL DEF Spec

-----------------------------------------------------------------------------
(* The bound on open requests.  http_req_list_length is at least the       *)
(* number of entries because each entry took a serial of its own: serials  *)
(* grow along the list by at least the distance of the entries.  This      *)
(* needs fewer forms than half the serials, so that neither the counter    *)
(* nor the signed difference of two serials wraps.                         *)

FewPosts == 2 * MaxPosts < SerialMod

SpreadInv ==
    /\ ipcSerial <= posted
    /\ \A i \in DOMAIN reqList : reqList[i].serial < ipcSerial
    /\ \A i, j \in DOMAIN reqList :
          i <= j => reqList[j].serial - reqList[i].serial >= j - i

LEMMA SpreadInit == Init => SpreadInv
BY DEF Init, SpreadInv

LEMMA NextSerialFewPosts ==
    ASSUME FewPosts, TypeOK, SpreadInv, CanPost
    PROVE  NextSerial(ipcSerial) = ipcSerial + 1
<1>1. /\ ipcSerial \in Nat /\ posted \in Nat /\ posted < MaxPosts
      /\ ipcSerial <= posted /\ MaxPosts \in Nat /\ SerialMod \in Nat
  BY EntryTypes, BoundsAssumption DEF TypeOK, SpreadInv, CanPost
<1>2. ipcSerial + 1 # SerialMod
  BY <1>1 DEF FewPosts
<1> QED
  BY <1>2 DEF NextSerial

LEMMA SpreadRefuse ==
    ASSUME TypeOK, SpreadInv, UNCHANGED reqList, posted' = posted + 1,
           ipcSerial' \in {ipcSerial, ipcSerial + 1}
    PROVE  SpreadInv'
<1>1. /\ ipcSerial \in Nat /\ posted \in Nat
      /\ \A i \in DOMAIN reqList : reqList[i].serial \in Nat
  BY EntryTypes DEF TypeOK
<1>2. ipcSerial' <= posted'
  BY <1>1 DEF SpreadInv
<1>3. \A i \in DOMAIN reqList' : reqList'[i].serial < ipcSerial'
  BY <1>1 DEF SpreadInv
<1> QED
  BY <1>2, <1>3 DEF SpreadInv

(* An accepted form takes the next serial, above all serials of the list.  *)
LEMMA SpreadPost ==
    ASSUME FewPosts, TypeOK, SpreadInv, NEW cmds, HttpPost(cmds)
    PROVE  SpreadInv'
<1> DEFINE n == Len(reqList)
<1>1. /\ ipcSerial \in Nat /\ posted \in Nat /\ n \in Nat
      /\ DOMAIN reqList = 1 .. n
      /\ \A i \in DOMAIN reqList : reqList[i].serial \in Nat
  BY EntryTypes DEF TypeOK
<1>2. posted' = posted + 1 /\ ipcSerial' = ipcSerial + 1
  BY NextSerialFewPosts DEF HttpPost
<1>3. /\ DOMAIN reqList' = 1 .. n + 1
      /\ \A i \in 1 .. n : reqList'[i] = reqList[i]
      /\ reqList'[n + 1].serial = ipcSerial
  BY <1>1 DEF HttpPost, TypeOK, WebType
<1> HIDE DEF n
<1>4. ipcSerial' <= posted'
  BY <1>1, <1>2 DEF SpreadInv
<1>5. \A i \in 1 .. n + 1 : reqList'[i].serial < ipcSerial'
  BY <1>1, <1>2, <1>3 DEF SpreadInv
<1>6. ASSUME NEW i \in 1 .. n + 1, NEW j \in 1 .. n + 1, i <= j
      PROVE  reqList'[j].serial - reqList'[i].serial >= j - i
  <2>1. CASE j <= n
    <3>1. /\ i \in DOMAIN reqList /\ j \in DOMAIN reqList
          /\ reqList'[i] = reqList[i] /\ reqList'[j] = reqList[j]
      BY <1>1, <1>3, <1>6, <2>1
    <3> QED
      BY <1>6, <3>1 DEF SpreadInv
  <2>2. CASE i = n + 1
    BY <1>1, <1>3, <1>6, <2>2
  <2>3. CASE j = n + 1 /\ i <= n
    <3>1. reqList[n].serial - reqList[i].serial >= n - i
      BY <1>1, <2>3 DEF SpreadInv
    <3>2. reqList[n].serial < ipcSerial
      BY <1>1, <2>3 DEF SpreadInv
    <3>3. /\ reqList'[j].serial = ipcSerial /\ reqList'[i].serial = reqList[i].serial
          /\ reqList[i].serial \in Nat /\ reqList[n].serial \in Nat
      BY <1>1, <1>3, <2>3
    <3> QED
      BY <1>1, <2>3, <3>1, <3>2, <3>3
  <2> QED
    BY <1>1, <1>6, <2>1, <2>2, <2>3
<1> QED
  BY <1>3, <1>4, <1>5, <1>6 DEF SpreadInv

LEMMA SpreadTake ==
    ASSUME TypeOK, SpreadInv, NEW i \in DOMAIN reqList, TakeRequest(i),
           UNCHANGED <<posted, ipcSerial>>
    PROVE  SpreadInv'
<1>1. /\ Len(reqList) \in Nat /\ DOMAIN reqList = 1 .. Len(reqList)
      /\ \A j \in DOMAIN reqList : reqList[j].serial \in Nat
  BY EntryTypes DEF TypeOK
<1>2. /\ DOMAIN reqList' = 1 .. Len(reqList) - 1
      /\ \A j \in 1 .. Len(reqList) - 1 :
            reqList'[j] = IF j < i THEN reqList[j] ELSE reqList[j + 1]
  <2>1. /\ reqList' \in Seq(Entries) /\ Len(reqList') = Len(reqList) - 1
        /\ \A j \in 1 .. Len(reqList') :
              reqList'[j] = IF j < i THEN reqList[j] ELSE reqList[j + 1]
    BY TakeRequestFacts DEF TypeOK
  <2> QED
    BY <2>1
<1>3. ASSUME NEW j \in DOMAIN reqList' PROVE reqList'[j].serial < ipcSerial'
  <2>1. \E k \in DOMAIN reqList : reqList'[j] = reqList[k]
    BY <1>1, <1>2
  <2> QED
    BY <2>1 DEF SpreadInv
<1>4. ASSUME NEW j \in DOMAIN reqList', NEW k \in DOMAIN reqList', j <= k
      PROVE  reqList'[k].serial - reqList'[j].serial >= k - j
  <2>1. CASE k < i
    BY <1>1, <1>2, <1>4, <2>1 DEF SpreadInv
  <2>2. CASE ~(k < i) /\ j < i
    <3>1. /\ reqList'[j] = reqList[j] /\ reqList'[k] = reqList[k + 1]
          /\ j \in DOMAIN reqList /\ k + 1 \in DOMAIN reqList /\ j <= k + 1
      BY <1>1, <1>2, <1>4, <2>2
    <3>2. reqList[k + 1].serial - reqList[j].serial >= (k + 1) - j
      BY <3>1 DEF SpreadInv
    <3> QED
      BY <1>1, <1>2, <3>1, <3>2
  <2>3. CASE ~(k < i) /\ ~(j < i)
    <3>1. /\ reqList'[j] = reqList[j + 1] /\ reqList'[k] = reqList[k + 1]
          /\ j + 1 \in DOMAIN reqList /\ k + 1 \in DOMAIN reqList
          /\ j + 1 <= k + 1 /\ (k + 1) - (j + 1) = k - j
      BY <1>1, <1>2, <1>4, <2>3
    <3>2. reqList[k + 1].serial - reqList[j + 1].serial >= (k + 1) - (j + 1)
      BY <3>1 DEF SpreadInv
    <3> QED
      BY <3>1, <3>2
  <2> QED
    BY <2>1, <2>2, <2>3
<1> QED
  BY <1>3, <1>4 DEF SpreadInv

(* The difference of the end serials bounds the number of entries.         *)
LEMMA LengthIsEnough ==
    ASSUME FewPosts, TypeOK, SpreadInv
    PROVE  Len(reqList) <= ListLength
<1> DEFINE n == Len(reqList)
           d == reqList[n].serial - reqList[1].serial
<1>1. CASE reqList = <<>>
  BY <1>1 DEF ListLength
<1>2. CASE reqList # <<>>
  <2>1. /\ n \in Nat /\ n >= 1 /\ 1 \in DOMAIN reqList /\ n \in DOMAIN reqList
        /\ reqList[n].serial \in Nat /\ reqList[1].serial \in Nat
        /\ ipcSerial \in Nat /\ posted \in Nat
    BY <1>2, EntryTypes DEF TypeOK, WebType
  <2>2. d \in Int /\ d >= n - 1
    BY <2>1 DEF SpreadInv
  <2>3. reqList[n].serial < MaxPosts /\ MaxPosts \in Nat /\ SerialMod \in Nat
    <3>1. ipcSerial <= posted /\ reqList[n].serial < ipcSerial
      BY <2>1 DEF SpreadInv
    <3>2. posted <= MaxPosts /\ MaxPosts \in Nat /\ SerialMod \in Nat
      BY BoundsAssumption DEF TypeOK, WebType
    <3> QED
      BY <2>1, <3>1, <3>2
  <2>4. 0 <= d /\ d < MaxPosts
    BY <2>1, <2>2, <2>3
  <2>5. U32(d) = d
    BY <2>2, <2>3, <2>4 DEF U32, FewPosts
  <2>6. U32(d + 1) = d + 1
    BY <2>2, <2>3, <2>4 DEF U32, FewPosts
  <2>7. AsInt(d + 1) = d + 1
    BY <2>2, <2>3, <2>4 DEF AsInt, FewPosts
  <2>8. ListLength = d + 1
    BY <1>2, <2>5, <2>6, <2>7 DEF ListLength
  <2> QED
    BY <2>1, <2>2, <2>8
<1> QED
  BY <1>1, <1>2

LEMMA ListLengthInt == TypeOK => ListLength \in Int
<1>1. ASSUME NEW n \in Int PROVE U32(n) \in Int /\ AsInt(n) \in Int
  BY BoundsAssumption DEF U32, AsInt
<1>2. ASSUME TypeOK, reqList # <<>>
      PROVE  reqList[Len(reqList)].serial - reqList[1].serial \in Int
  <2>1. 1 \in DOMAIN reqList /\ Len(reqList) \in DOMAIN reqList
    BY <1>2, EntryTypes DEF TypeOK, WebType
  <2> QED
    BY <1>2, <2>1, EntryTypes DEF TypeOK
<1>3. ASSUME TypeOK, reqList # <<>> PROVE ListLength \in Int
  <2> DEFINE d == reqList[Len(reqList)].serial - reqList[1].serial
  <2>1. d \in Int
    BY <1>2, <1>3
  <2> HIDE DEF d
  <2>2. U32(d) + 1 \in Int
    BY <1>1, <2>1
  <2>3. AsInt(U32(U32(d) + 1)) \in Int
    BY <1>1, <2>2
  <2> QED
    BY <1>3, <2>3 DEF ListLength, d
<1>4. ASSUME reqList = <<>> PROVE ListLength \in Int
  BY <1>4 DEF ListLength
<1> QED
  BY <1>3, <1>4

LEMMA BoundStep ==
    ASSUME FewPosts, TypeOK, SpreadInv, PendingBounded, [Next]_vars
    PROVE  SpreadInv' /\ PendingBounded'
<1>1. ASSUME UNCHANGED webVars PROVE SpreadInv' /\ PendingBounded'
  BY <1>1 DEF webVars, SpreadInv, PendingBounded
<1>2. CASE Client
  <2>1. CASE HttpBacklog \/ HttpBadForm \/ HttpNoMemory
    <3>1. /\ UNCHANGED reqList /\ posted' = posted + 1
          /\ ipcSerial' \in {ipcSerial, ipcSerial + 1}
      BY <2>1, NextSerialFewPosts
      DEF HttpBacklog, HttpBadForm, HttpNoMemory, RefusePost
    <3> QED
      BY <3>1, SpreadRefuse DEF PendingBounded
  <2>2. ASSUME NEW cmds \in Batches, HttpPost(cmds)
        PROVE  SpreadInv' /\ PendingBounded'
    <3>1. ListLength <= MaxPending /\ Len(reqList) <= ListLength
      BY <2>2, LengthIsEnough, ListLengthInt, BoundsAssumption
      DEF HttpPost, Backlogged
    <3>2. Len(reqList') = Len(reqList) + 1 /\ Len(reqList) \in Nat
      BY <2>2 DEF HttpPost, TypeOK, WebType
    <3>3. PendingBounded'
      BY <3>1, <3>2, ListLengthInt, BoundsAssumption DEF PendingBounded
    <3> QED
      BY <2>2, <3>3, SpreadPost
  <2> QED
    BY <1>2, <2>1, <2>2 DEF Client
<1>3. CASE Parent \/ Stop \/ UNCHANGED vars
  <2>1. UNCHANGED webVars
    BY <1>3
    DEF Parent, ParentRead, ParentIdle, ParentIncomplete, ParentTake,
        ParentNoMemory, ExecCommand, ExecUnsaved, ParentRespond, ParentBreak,
        Stop, Reboot, ParentDies, ChildDies, ParentBrokenPipe, ChildBrokenPipe, vars
  <2> QED
    BY <1>1, <2>1
<1>4. CASE Child
  <2>1. CASE (\E n \in 1 .. MaxRead : ChildRead(n)) \/ ChildIdle \/ ChildUnmatched
    BY <1>1, <2>1 DEF ChildRead, ChildIdle, ChildUnmatched
  <2>2. ASSUME NEW i \in DOMAIN reqList,
               ChildAborted(i) \/ ChildPartial(i) \/ ChildReply(i)
        PROVE  SpreadInv' /\ PendingBounded'
    <3>1. TakeRequest(i) /\ UNCHANGED <<posted, ipcSerial>>
      BY <2>2 DEF ChildAborted, ChildPartial, ChildReply
    <3>2. Len(reqList') = Len(reqList) - 1 /\ Len(reqList) \in Nat
      BY <3>1, TakeRequestFacts DEF TypeOK
    <3>3. PendingBounded'
      BY <3>2, BoundsAssumption DEF PendingBounded
    <3> QED
      BY <3>1, <3>3, SpreadTake
  <2> QED
    BY <1>4, <2>1, <2>2 DEF Child
<1> QED
  BY <1>2, <1>3, <1>4 DEF Next

(* The child holds at most HTTP_MAX_PENDING_REQUESTS + 1 open requests, as *)
(* long as fewer forms are posted than half the serials: the subtraction   *)
(* of http_req_list_length errs only on the side of refusing.              *)
THEOREM OpenRequestsBounded == FewPosts => (Spec => []PendingBounded)
<1> SUFFICES ASSUME FewPosts PROVE Spec => []PendingBounded
  OBVIOUS
<1>1. Init => PendingBounded
  BY BoundsAssumption DEF Init, PendingBounded
<1>2. TypeOK /\ SpreadInv /\ PendingBounded /\ [Next]_vars
      => SpreadInv' /\ PendingBounded'
  BY BoundStep
<1> QED
  BY TypeCorrect, SpreadInit, <1>1, <1>2, PTL DEF Spec

-----------------------------------------------------------------------------
(* What server.json says of restarts.  A success that is on its way to the *)
(* web server, or is being put together, has an effect behind it already.  *)

SomeEffect == \E r \in Req : Succeeded(r)

ResetInv ==
    \/ SomeEffect
    \/ /\ ~resetReq /\ batch.status # "success"
       /\ \A i \in DOMAIN toChild : toChild[i].status # "success"

(* Outcomes are only ever added.                                           *)
LEMMA EffectAdds ==
    ASSUME TypeOK, NEW out \in Outcomes, Executing(out),
           done' = [done EXCEPT ![batch.req] = Append(@, out)]
    PROVE  (SomeEffect => SomeEffect') /\ (Succeeds(out) => SomeEffect')
<1>1. batch.req \in Req /\ done \in [Req -> Seq(Outcomes)]
  BY DEF TypeOK, BatchType, RanType, Executing
<1>2. /\ done[batch.req] \in Seq(Outcomes)
      /\ done'[batch.req] = Append(done[batch.req], out)
      /\ \A r \in Req \ {batch.req} : done'[r] = done[r]
  BY <1>1
<1>3. /\ Len(done[batch.req]) \in Nat
      /\ DOMAIN done'[batch.req] = 1 .. Len(done[batch.req]) + 1
      /\ DOMAIN done[batch.req] = 1 .. Len(done[batch.req])
      /\ \A k \in DOMAIN done[batch.req] : done'[batch.req][k] = done[batch.req][k]
      /\ done'[batch.req][Len(done[batch.req]) + 1] = out
  BY <1>2
<1>4. ASSUME NEW r \in Req, NEW k \in DOMAIN done[r], Succeeds(done[r][k]) PROVE SomeEffect'
  <2>1. k \in DOMAIN done'[r] /\ done'[r][k] = done[r][k]
    BY <1>2, <1>3
  <2> QED
    BY <1>4, <2>1 DEF SomeEffect, Succeeded
<1>5. ASSUME Succeeds(out) PROVE SomeEffect'
  <2>1. /\ Len(done[batch.req]) + 1 \in DOMAIN done'[batch.req]
        /\ Succeeds(done'[batch.req][Len(done[batch.req]) + 1])
    BY <1>3, <1>5
  <2> QED
    BY <1>1, <2>1 DEF SomeEffect, Succeeded
<1> QED
  BY <1>4, <1>5 DEF SomeEffect, Succeeded

(* A message more, that does not tell of a success.                        *)
LEMMA NoSuccessSent ==
    ASSUME TypeOK, ~SomeEffect, ResetInv, NEW m \in Responses, m.status # "success",
           toChild' = Append(toChild, m)
    PROVE  \A i \in DOMAIN toChild' : toChild'[i].status # "success"
BY DEF TypeOK, ChildEndType, ResetInv

(* A message less.                                                         *)
LEMMA NoSuccessTaken ==
    ASSUME TypeOK, ~SomeEffect, ResetInv, toChild # <<>>, toChild' = Tail(toChild)
    PROVE  \A i \in DOMAIN toChild' : toChild'[i].status # "success"
BY DEF TypeOK, ChildEndType, ResetInv

LEMMA ResetStep == TypeOK /\ ResetInv /\ [Next]_vars => ResetInv'
<1> SUFFICES ASSUME TypeOK, ResetInv, [Next]_vars PROVE ResetInv'
  OBVIOUS
<1>1. ASSUME UNCHANGED done, SomeEffect PROVE ResetInv'
  BY <1>1 DEF SomeEffect, Succeeded, ResetInv
<1>2. ASSUME UNCHANGED <<done, resetReq, toChild>>, batch'.status # "success" \/ UNCHANGED batch
      PROVE  ResetInv'
  BY <1>2 DEF SomeEffect, Succeeded, ResetInv
<1>3. CASE Client
  <2>1. UNCHANGED <<done, resetReq, toChild, batch>>
    BY <1>3 DEF Client, HttpBacklog, HttpBadForm, HttpNoMemory, HttpPost, RefusePost,
                parentVars, ranVars
  <2> QED
    BY <1>2, <2>1
<1>4. CASE Parent
  <2>1. CASE (\E n \in 1 .. MaxRead : ParentRead(n)) \/ ParentIdle \/ ParentIncomplete
    <3>1. UNCHANGED <<done, resetReq, toChild, batch>>
      BY <2>1 DEF ParentRead, ParentIdle, ParentIncomplete, webVars, ranVars
    <3> QED
      BY <1>2, <3>1
  <2>2. CASE ParentTake \/ ParentBreak
    <3>1. UNCHANGED <<done, resetReq, toChild>> /\ batch'.status # "success"
      BY <2>2 DEF ParentTake, ParentBreak, NoBatch, webVars, ranVars
    <3> QED
      BY <1>2, <3>1
  <2>3. CASE ParentNoMemory
    <3>1. /\ toChild' = Append(toChild, Abort) /\ Abort \in Responses
          /\ Abort.status # "success" /\ UNCHANGED <<done, resetReq, batch>>
      BY <2>3, HeadList
      DEF ParentNoMemory, ParentScans, Abort, Lists, Responses, Aborts, TypeOK, webVars, ranVars
    <3> QED
      BY <1>1, <3>1, NoSuccessSent DEF ResetInv
  <2>4. ASSUME NEW out \in Outcomes, ExecCommand(out) PROVE ResetInv'
    <3>1. SomeEffect => SomeEffect'
      BY <2>4, EffectAdds DEF ExecCommand
    <3>2. Succeeds(out) => SomeEffect'
      BY <2>4, EffectAdds DEF ExecCommand
    <3>3. CASE ~Succeeds(out)
      <4>1. batch'.status \in {batch.status, "abort"} /\ UNCHANGED <<resetReq, toChild>>
        BY <2>4, <3>3 DEF ExecCommand, Respond, Succeeds, TypeOK, BatchType, webVars
      <4> QED
        BY <3>1, <4>1 DEF ResetInv
    <3> QED
      BY <3>2, <3>3 DEF ResetInv
  <2>5. CASE ExecUnsaved
    <3>1. SomeEffect => SomeEffect'
      BY <2>5, EffectAdds DEF ExecUnsaved, Outcomes
    <3>2. batch'.status = batch.status /\ UNCHANGED <<resetReq, toChild>>
      BY <2>5 DEF ExecUnsaved, Respond, TypeOK, BatchType, webVars
    <3> QED
      BY <3>1, <3>2 DEF ResetInv
  <2>6. CASE ParentRespond
    <3>1. SomeEffect
      BY <2>6 DEF ParentRespond, ListSucceeded, ResetInv
    <3> QED
      BY <1>1, <2>6, <3>1 DEF ParentRespond, ranVars
  <2> QED
    BY <1>4, <2>1, <2>2, <2>3, <2>4, <2>5, <2>6 DEF Parent
<1>5. CASE Child
  <2>1. UNCHANGED <<done, batch>>
    BY <1>5 DEF Child, ChildRead, ChildIdle, ChildUnmatched, ChildAborted, ChildPartial,
                ChildReply, parentVars, ranVars
  <2>2. SUFFICES ASSUME ~SomeEffect PROVE ResetInv'
    BY <1>1, <2>1
  <2>3. CASE (\E n \in 1 .. MaxRead : ChildRead(n)) \/ ChildIdle
             \/ \E i \in DOMAIN reqList : ChildPartial(i)
    <3>1. UNCHANGED <<resetReq, toChild>>
      BY <2>3 DEF ChildRead, ChildIdle, ChildPartial, webVars
    <3> QED
      BY <1>2, <2>1, <3>1
  <2>4. CASE ChildUnmatched \/ \E i \in DOMAIN reqList : ChildAborted(i)
    <3>1. UNCHANGED resetReq /\ toChild # <<>> /\ toChild' = Tail(toChild)
      BY <2>4 DEF ChildUnmatched, ChildAborted, ChildScans, webVars
    <3> QED
      BY <2>1, <2>2, <3>1, NoSuccessTaken DEF ResetInv
  <2>5. ASSUME NEW i \in DOMAIN reqList, ChildReply(i) PROVE ResetInv'
    <3>1. /\ toChild # <<>> /\ toChild' = Tail(toChild)
          /\ resetReq' = (resetReq \/ toChild[1].status = "success")
      BY <2>5 DEF ChildReply, ChildScans, Response
    <3>2. 1 \in DOMAIN toChild
      BY <3>1 DEF TypeOK, ChildEndType
    <3>3. ~resetReq'
      BY <2>2, <3>1, <3>2 DEF ResetInv
    <3> QED
      BY <2>1, <2>2, <3>1, <3>3, NoSuccessTaken DEF ResetInv
  <2> QED
    BY <1>5, <2>3, <2>4, <2>5 DEF Child
<1>6. CASE Stop \/ UNCHANGED vars
  <2>1. UNCHANGED <<done, resetReq, toChild, batch>>
    BY <1>6 DEF Stop, Reboot, ParentDies, ChildDies, ParentBrokenPipe, ChildBrokenPipe,
                vars, webVars, parentVars, ranVars
  <2> QED
    BY <1>2, <2>1
<1> QED
  BY <1>3, <1>4, <1>5, <1>6 DEF Next

(* server.json never asks for a restart before some command has taken      *)
(* effect, however the responses are cut or aborted.                       *)
THEOREM RestartIsNeeded == Spec => []ResetReqIsTrue
<1>1. Init => ResetInv
  BY DEF Init, ResetInv, NoBatch
<1>2. ResetInv /\ TypeOK => ResetReqIsTrue
  BY DEF ResetInv, ResetReqIsTrue, SomeEffect
<1> QED
  BY TypeCorrect, <1>1, ResetStep, <1>2, PTL DEF Spec

-----------------------------------------------------------------------------
(* The low watermark of the parent.  Until it reads or takes the list it   *)
(* waits for, that list stays at the head of the stream.                   *)

HearsInv ==
    parentPc \in {"wait", "scan", "exec"} /\ parentLow # HdrUnits =>
        /\ parentPc # "exec"
        /\ toParent # <<>> /\ parentLow = ListUnits(Head(toParent))
        /\ parentPc = "wait" => parentIn < parentLow

(* A list that is added goes behind the one at the head.                   *)
LEMMA HeadStays ==
    ASSUME ParentEndType, toParent # <<>>, NEW list, toParent' = Append(toParent, list)
    PROVE  toParent' # <<>> /\ Head(toParent') = Head(toParent)
<1>1. toParent \in Seq(Lists) /\ Len(toParent) \in Nat \ {0}
  BY DEF ParentEndType
<1>2. Len(toParent') = Len(toParent) + 1 /\ toParent'[1] = toParent[1]
  BY <1>1
<1> QED
  BY <1>1, <1>2

LEMMA HearsStep == TypeOK /\ HearsInv /\ [Next]_vars => HearsInv'
<1> SUFFICES ASSUME TypeOK, HearsInv, [Next]_vars PROVE HearsInv'
  OBVIOUS
<1>0. ParentEndType
  BY DEF TypeOK
<1>1. ASSUME UNCHANGED <<toParent, parentIn, parentLow>>,
             parentPc' = parentPc \/ parentPc' \notin {"wait", "scan", "exec"}
      PROVE  HearsInv'
  BY <1>1 DEF HearsInv, ListUnits
<1>2. ASSUME parentLow' = HdrUnits PROVE HearsInv'
  BY <1>2 DEF HearsInv
<1>3. CASE Client
  <2>1. CASE HttpBacklog \/ HttpBadForm \/ HttpNoMemory
    BY <1>1, <2>1 DEF HttpBacklog, HttpBadForm, HttpNoMemory, RefusePost, parentVars
  <2>2. ASSUME NEW cmds \in Batches, HttpPost(cmds) PROVE HearsInv'
    <3>1. UNCHANGED <<parentIn, parentLow, parentPc>>
      BY <2>2 DEF HttpPost, parentVars
    <3>2. toParent # <<>> => toParent' # <<>> /\ Head(toParent') = Head(toParent)
      BY <1>0, <2>2, HeadStays DEF HttpPost
    <3> QED
      BY <3>1, <3>2 DEF HearsInv, ListUnits
  <2> QED
    BY <1>3, <2>1, <2>2 DEF Client
<1>4. CASE Parent
  <2>1. ASSUME NEW n \in 1 .. MaxRead, ParentRead(n) PROVE HearsInv'
    BY <1>0, <2>1 DEF ParentRead, ParentEndType, HearsInv, ListUnits
  <2>2. CASE ParentIdle
    <3>1. /\ UNCHANGED <<toParent, parentIn, parentLow>>
          /\ parentPc = "scan" /\ parentPc' = "wait" /\ parentIn < HdrUnits
      BY <2>2 DEF ParentIdle
    <3>2. toParent # <<>> => ListUnits(Head(toParent)) \in Nat
                             /\ ListUnits(Head(toParent)) >= HdrUnits
      <4>1. ASSUME toParent # <<>> PROVE Len(Head(toParent).cmds) \in Nat
        BY <1>0, <4>1, HeadList DEF Lists
      <4> QED
        BY <4>1 DEF ListUnits, HdrUnits
    <3> QED
      BY <1>0, <3>1, <3>2 DEF HearsInv, ListUnits, HdrUnits, ParentEndType
  <2>3. CASE ParentIncomplete
    <3>1. /\ toParent' = toParent /\ toParent # <<>> /\ parentPc' = "wait"
          /\ parentIn' = parentIn /\ parentLow' = ListUnits(Head(toParent))
          /\ ~(parentIn >= ListUnits(Head(toParent)))
      BY <2>3 DEF ParentIncomplete, ParentScans, ListComplete, ParentWaitsFor
    <3>2. ListUnits(Head(toParent)) \in Nat /\ parentIn \in Nat
      BY <1>0, <3>1, HeadList DEF ParentEndType
    <3>3. parentIn' < parentLow'
      BY <3>1, <3>2
    <3> QED
      BY <3>1, <3>3 DEF HearsInv, ListUnits
  <2>4. CASE ParentTake
    BY <1>2, <2>4 DEF ParentTake, ParentWaitsFor
  <2>5. CASE ParentNoMemory
    BY <1>2, <2>5 DEF ParentNoMemory, ParentWaitsFor, HearsInv
  <2>6. CASE (\E out \in Outcomes : ExecCommand(out)) \/ ExecUnsaved
    BY <1>1, <2>6 DEF ExecCommand, ExecUnsaved
  <2>7. CASE ParentRespond \/ ParentBreak
    <3>1. parentLow = HdrUnits
      BY <2>7 DEF ParentRespond, ParentBreak, HearsInv
    <3> QED
      BY <1>2, <2>7, <3>1 DEF ParentRespond, ParentBreak
  <2> QED
    BY <1>4, <2>1, <2>2, <2>3, <2>4, <2>5, <2>6, <2>7 DEF Parent
<1>5. CASE Child
  BY <1>1, <1>5
  DEF Child, ChildRead, ChildIdle, ChildUnmatched, ChildAborted, ChildPartial, ChildReply,
      parentVars
<1>6. CASE Stop \/ UNCHANGED vars
  BY <1>1, <1>6
  DEF Stop, Reboot, ParentDies, ChildDies, ParentBrokenPipe, ChildBrokenPipe, vars, parentVars
<1> QED
  BY <1>3, <1>4, <1>5, <1>6 DEF Next
=============================================================================
