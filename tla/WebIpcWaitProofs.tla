-------------------------- MODULE WebIpcWaitProofs --------------------------
(***************************************************************************)
(* What TLAPS proves of waiting in WebIpc: why a posted form has no        *)
(* answer, and what the parent can leave in its input buffer and sleep.    *)
(***************************************************************************)
EXTENDS WebIpcServiceProofs

-----------------------------------------------------------------------------
(* An open request has a cause                                             *)

OpenHasCause ==
    running /\ parentPc # "dead" =>
        \A i \in DOMAIN reqList :
            InFlight(reqList[i].req) \/ LeftWithError(reqList[i].req)

Cause(r) == InFlight(r) \/ LeftWithError(r)

LEMMA CauseOfOpen ==
    OpenHasCause <=> (running /\ parentPc # "dead" => \A r : Open(r) => Cause(r))
BY DEF OpenHasCause, Open, Cause

(* No request is opened, and none that stays open loses its cause.         *)
LEMMA CauseKept ==
    ASSUME OpenHasCause,
           running' /\ parentPc' # "dead" => running /\ parentPc # "dead",
           \A r : Open(r)' => Open(r) /\ (Cause(r) => Cause(r)')
    PROVE  OpenHasCause'
<1>1. running' /\ parentPc' # "dead" => \A r : Open(r)' => Cause(r)'
  BY CauseOfOpen
<1> QED
  BY <1>1 DEF OpenHasCause, Open, Cause

(* No message moves and no command runs.                                   *)
LEMMA CauseFrame ==
    ASSUME OpenHasCause, UNCHANGED <<toParent, toChild, batch, done>>,
           running' => running,
           parentPc' # "dead" => parentPc # "dead" /\ (parentPc = "exec" => parentPc' = "exec"),
           \A r : Open(r)' => Open(r)
    PROVE  OpenHasCause'
<1>1. ASSUME NEW r, Cause(r), parentPc' # "dead" PROVE Cause(r)'
  BY <1>1 DEF Cause, InFlight, LeftWithError
<1>2. running' /\ parentPc' # "dead" => \A r : Open(r)' => Cause(r)'
  BY <1>1, CauseOfOpen
<1> QED
  BY <1>2 DEF OpenHasCause, Open, Cause

LEMMA CausePost ==
    ASSUME TypeOK, OpenHasCause, NEW cmds, HttpPost(cmds)
    PROVE  OpenHasCause'
<1> DEFINE list == [serial |-> ipcSerial, req |-> posted', cmds |-> cmds]
           entry == [serial |-> ipcSerial, req |-> posted']
<1>1. /\ toParent' = Append(toParent, list) /\ reqList' = Append(reqList, entry)
      /\ UNCHANGED <<toChild, batch, parentPc, running, done>>
  BY DEF HttpPost, parentVars, ranVars
<1>2. \A i \in DOMAIN reqList' :
         \/ i \in DOMAIN reqList /\ reqList'[i] = reqList[i]
         \/ reqList'[i] = entry
  BY <1>1 DEF TypeOK, WebType
<1>3. /\ \A i \in DOMAIN toParent : i \in DOMAIN toParent' /\ toParent'[i] = toParent[i]
      /\ Len(toParent) + 1 \in DOMAIN toParent' /\ toParent'[Len(toParent) + 1] = list
  BY <1>1, ListTypes
<1>4. list.req = posted' /\ entry.req = posted'
  OBVIOUS
<1> HIDE DEF list, entry
<1>5. ASSUME NEW r, Cause(r) PROVE Cause(r)'
  BY <1>1, <1>3, <1>5 DEF Cause, InFlight, LeftWithError
<1>6. ASSUME NEW r, r = posted' PROVE Cause(r)'
  BY <1>3, <1>4, <1>6 DEF Cause, InFlight
<1>7. ASSUME NEW r, Open(r)' PROVE Open(r) \/ r = posted'
  BY <1>2, <1>4, <1>7 DEF Open
<1>8. running' /\ parentPc' # "dead" => \A r : Open(r)' => Cause(r)'
  BY <1>1, <1>5, <1>6, <1>7, CauseOfOpen
<1> QED
  BY <1>8 DEF OpenHasCause, Open, Cause

(* A list becomes the batch, ...                                           *)
LEMMA CauseTake ==
    ASSUME TypeOK, OpenHasCause, ParentTake
    PROVE  OpenHasCause'
<1>1. /\ Len(toParent) \in Nat /\ DOMAIN toParent = 1 .. Len(toParent)
      /\ 1 \in DOMAIN toParent /\ Head(toParent) = toParent[1]
      /\ DOMAIN toParent' = 1 .. Len(toParent) - 1
      /\ \A i \in DOMAIN toParent' : toParent'[i] = toParent[i + 1]
      /\ parentPc = "scan" /\ parentPc' = "exec" /\ batch'.req = toParent[1].req
      /\ UNCHANGED <<reqList, toChild, running, done>>
  BY ListTypes DEF ParentTake, ParentScans, webVars, ranVars
<1>2. ASSUME NEW r, Cause(r) PROVE Cause(r)'
  <2>1. CASE \E i \in DOMAIN toParent : toParent[i].req = r
    <3>1. PICK i \in DOMAIN toParent : toParent[i].req = r
      BY <2>1
    <3>2. CASE i = 1
      BY <1>1, <3>1, <3>2 DEF Cause, InFlight
    <3>3. CASE i # 1
      <4>1. i - 1 \in DOMAIN toParent' /\ toParent'[i - 1] = toParent[i]
        BY <1>1, <3>3
      <4> QED
        BY <3>1, <4>1 DEF Cause, InFlight
    <3> QED
      BY <3>2, <3>3
  <2>2. CASE LeftWithError(r) \/ \E i \in DOMAIN toChild : toChild[i].req = r
    BY <1>1, <2>2 DEF Cause, InFlight, LeftWithError
  <2> QED
    BY <1>1, <1>2, <2>1, <2>2 DEF Cause, InFlight
<1> QED
  BY <1>1, <1>2, CauseKept DEF Open

(* ... the batch a response, ...                                           *)
LEMMA CauseSent ==
    ASSUME TypeOK, OpenHasCause, ParentNoMemory \/ ParentRespond
    PROVE  OpenHasCause'
<1>1. PICK m : /\ toChild' = Append(toChild, m)
               /\ parentPc = "exec" => m.req = batch.req
  BY DEF ParentNoMemory, ParentRespond, ParentScans
<1>2. /\ \A i \in DOMAIN toChild : i \in DOMAIN toChild' /\ toChild'[i] = toChild[i]
      /\ Len(toChild) + 1 \in DOMAIN toChild' /\ toChild'[Len(toChild) + 1] = m
  BY <1>1, ResponseTypes
<1>3. UNCHANGED <<reqList, toParent, running, done>> /\ running /\ parentPc # "dead"
  BY DEF ParentNoMemory, ParentRespond, ParentScans, webVars, ranVars
<1>4. ASSUME NEW r, Cause(r) PROVE Cause(r)'
  BY <1>1, <1>2, <1>3, <1>4 DEF Cause, InFlight, LeftWithError
<1> QED
  BY <1>3, <1>4, CauseKept DEF Open

(* ... or nothing, if its form ended in an error.                          *)
LEMMA CauseBreak ==
    ASSUME TypeOK, FlightInv, OpenHasCause, ParentBreak
    PROVE  OpenHasCause'
<1>1. /\ running /\ parentPc = "exec" /\ batch.cmds = <<>> /\ batch.status # "success"
      /\ UNCHANGED <<reqList, toParent, toChild, running, done>>
  BY DEF ParentBreak, ListSucceeded, webVars, ranVars
<1>2. LeftWithError(batch.req)
  BY <1>1 DEF FlightInv, DoneInv, BatchTells
<1>3. ASSUME NEW r, Cause(r) PROVE Cause(r)'
  <2>1. LeftWithError(r) => LeftWithError(r)'
    BY <1>1 DEF LeftWithError
  <2> QED
    BY <1>1, <1>2, <1>3, <2>1 DEF Cause, InFlight
<1> QED
  BY <1>1, <1>3, CauseKept DEF Open

LEMMA CauseExec ==
    ASSUME TypeOK, OpenHasCause, NEW out \in Outcomes, Executing(out),
           done' = [done EXCEPT ![batch.req] = Append(@, out)],
           batch'.req = batch.req, UNCHANGED <<reqList, toParent, toChild, parentPc>>
    PROVE  OpenHasCause'
<1>1. running /\ parentPc = "exec" /\ batch.req \in Req /\ done \in [Req -> Seq(Outcomes)]
  BY BatchTypes DEF Executing, TypeOK, RanType
<1>2. ASSUME NEW r \in Req, Cause(r) PROVE Cause(r)'
  <2>1. CASE r = batch.req
    BY <1>1, <2>1 DEF Cause, InFlight
  <2>2. CASE r # batch.req
    <3>1. done'[r] = done[r]
      BY <1>1, <2>2, OutcomeAdded
    <3> QED
      BY <1>2, <3>1 DEF Cause, InFlight, LeftWithError
  <2> QED
    BY <2>1, <2>2
<1>3. ASSUME NEW r, Open(r) PROVE r \in Req
  BY <1>3, EntryTypes DEF Open, TypeOK
<1>4. ASSUME NEW r, Open(r)' PROVE Open(r) /\ Cause(r)'
  <2>1. Open(r)
    BY <1>4 DEF Open
  <2> QED
    BY <1>1, <1>2, <1>3, <2>1, CauseOfOpen
<1> QED
  BY <1>1, <1>4, CauseKept

(* A response leaves with the request it was about, or there is none.      *)
LEMMA CauseDrained ==
    ASSUME TypeOK, OpenHasCause, toChild # <<>>, toChild' = Tail(toChild),
           UNCHANGED <<toParent, batch, parentPc, running, done>>,
           \A r : Open(r)' => Open(r) /\ r # Response.req
    PROVE  OpenHasCause'
<1>1. /\ Len(toChild) \in Nat /\ DOMAIN toChild = 1 .. Len(toChild)
      /\ Response = toChild[1]
      /\ DOMAIN toChild' = 1 .. Len(toChild) - 1
      /\ \A i \in DOMAIN toChild' : toChild'[i] = toChild[i + 1]
  BY ResponseTypes DEF Response
<1>2. ASSUME NEW r, r # Response.req, Cause(r) PROVE Cause(r)'
  <2>1. CASE \E i \in DOMAIN toChild : toChild[i].req = r
    <3>1. PICK i \in DOMAIN toChild : toChild[i].req = r
      BY <2>1
    <3>2. i - 1 \in DOMAIN toChild' /\ toChild'[i - 1] = toChild[i]
      BY <1>1, <1>2, <3>1
    <3> QED
      BY <3>1, <3>2 DEF Cause, InFlight
  <2> QED
    BY <1>2, <2>1 DEF Cause, InFlight, LeftWithError
<1> QED
  BY <1>2, CauseKept

LEMMA CauseStep ==
    TypeOK /\ ReplyInv /\ FlightInv /\ OpenHasCause /\ [Next]_vars => OpenHasCause'
<1> SUFFICES ASSUME TypeOK, ReplyInv, FlightInv, OpenHasCause, [Next]_vars
             PROVE  OpenHasCause'
  OBVIOUS
<1>1. CASE Client
  <2>1. CASE HttpBacklog \/ HttpBadForm \/ HttpNoMemory
    <3>1. UNCHANGED <<reqList, toParent, toChild, batch, parentPc, running, done>>
      BY <2>1 DEF HttpBacklog, HttpBadForm, HttpNoMemory, RefusePost, parentVars, ranVars
    <3> QED
      BY <3>1, CauseFrame DEF Open
  <2>2. CASE \E cmds \in Batches : HttpPost(cmds)
    BY <2>2, CausePost
  <2> QED
    BY <1>1, <2>1, <2>2 DEF Client
<1>2. CASE Parent
  <2>1. CASE (\E n \in 1 .. MaxRead : ParentRead(n)) \/ ParentIdle \/ ParentIncomplete
    <3>1. /\ UNCHANGED <<reqList, toParent, toChild, batch, running, done>>
          /\ parentPc \in {"wait", "scan"}
      BY <2>1 DEF ParentRead, ParentIdle, ParentIncomplete, ParentScans, webVars, ranVars
    <3> QED
      BY <3>1, CauseFrame DEF Open
  <2>2. ASSUME NEW out \in Outcomes, ExecCommand(out) PROVE OpenHasCause'
    <3>1. /\ Executing(out) /\ UNCHANGED <<reqList, toParent, toChild, parentPc>>
          /\ done' = [done EXCEPT ![batch.req] = Append(@, out)]
          /\ batch'.req = batch.req
      BY <2>2 DEF ExecCommand, Respond, TypeOK, BatchType, webVars
    <3> QED
      BY <3>1, CauseExec
  <2>3. CASE ExecUnsaved
    <3>1. /\ Executing("unsaved") /\ UNCHANGED <<reqList, toParent, toChild, parentPc>>
          /\ done' = [done EXCEPT ![batch.req] = Append(@, "unsaved")]
          /\ batch'.req = batch.req /\ "unsaved" \in Outcomes
      BY <2>3 DEF ExecUnsaved, Respond, TypeOK, BatchType, webVars, Outcomes
    <3> QED
      BY <3>1, CauseExec
  <2> QED
    BY <1>2, <2>1, <2>2, <2>3, CauseTake, CauseSent, CauseBreak DEF Parent
<1>3. CASE Child
  <2>0. UNCHANGED <<posted, toParent, batch, done, parentPc, running>>
    BY <1>3 DEF Child, ChildRead, ChildIdle, ChildUnmatched, ChildAborted, ChildPartial,
                ChildReply, webVars, parentVars, ranVars
  <2>1. CASE (\E n \in 1 .. MaxRead : ChildRead(n)) \/ ChildIdle
    <3>1. UNCHANGED <<reqList, toChild>>
      BY <2>1 DEF ChildRead, ChildIdle, webVars
    <3> QED
      BY <2>0, <3>1, CauseFrame DEF Open
  <2>2. CASE ChildUnmatched
    <3>1. UNCHANGED reqList /\ ~Open(Response.req) /\ toChild # <<>> /\ toChild' = Tail(toChild)
      BY <2>2, MatchIsOwn DEF ChildUnmatched, ChildScans, webVars, FlightInv
    <3>2. \A r : Open(r)' => Open(r) /\ r # Response.req
      BY <3>1 DEF Open
    <3> QED
      BY <2>0, <3>1, <3>2, CauseDrained
  <2>3. ASSUME NEW i \in DOMAIN reqList, ChildAborted(i) \/ ChildPartial(i) \/ ChildReply(i)
        PROVE  OpenHasCause'
    <3>1. ChildScans /\ TakeRequest(i) /\ reqList[i].req = Response.req
      BY <2>3, MatchIsOwn DEF ChildAborted, ChildPartial, ChildReply, FlightInv
    <3>2. \A r : Open(r)' => Open(r) /\ r # Response.req
      BY <2>0, <3>1, OthersStay DEF Open
    <3>3. UNCHANGED toChild \/ toChild' = Tail(toChild)
      BY <2>3 DEF ChildAborted, ChildPartial, ChildReply
    <3> QED
      BY <2>0, <3>1, <3>2, <3>3, CauseFrame, CauseDrained DEF ChildScans
  <2> QED
    BY <1>3, <2>1, <2>2, <2>3 DEF Child
<1>4. CASE Stop \/ UNCHANGED vars
  <2>1. UNCHANGED <<reqList, toParent, toChild, batch, done>>
    BY <1>4 DEF Stop, Reboot, ParentDies, ChildDies, ParentBrokenPipe, ChildBrokenPipe,
                vars, webVars, parentVars, ranVars
  <2>2. (parentPc' = parentPc \/ parentPc' = "dead") /\ (running' => running)
    BY <1>4 DEF Stop, Reboot, ParentDies, ChildDies, ParentBrokenPipe, ChildBrokenPipe,
                vars, parentVars, ranVars
  <2> QED
    BY <2>1, <2>2, CauseFrame DEF Open
<1> QED
  BY <1>1, <1>2, <1>3, <1>4 DEF Next

-----------------------------------------------------------------------------
(* A success that is told of, or being put together, has taken effect      *)

EffectInv ==
    /\ batch.req # 0 /\ batch.status = "success" => Succeeded(batch.req)
    /\ \A i \in DOMAIN toChild :
          toChild[i].status = "success" => Succeeded(toChild[i].req)

LEMMA OutcomeSucceeds ==
    ASSUME TypeOK, NEW out \in Outcomes, Executing(out),
           done' = [done EXCEPT ![batch.req] = Append(@, out)]
    PROVE  \A r \in Req :
              Succeeded(r) \/ (r = batch.req /\ Succeeds(out)) => Succeeded(r)'
<1> DEFINE was == done[batch.req]
           now == done'[batch.req]
<1>1. was \in Seq(Outcomes) /\ now = Append(was, out)
      /\ \A r \in Req : r # batch.req => done'[r] = done[r]
  BY OutcomeAdded
<1>2. /\ \A k \in DOMAIN was : k \in DOMAIN now /\ now[k] = was[k]
      /\ Len(was) + 1 \in DOMAIN now /\ now[Len(was) + 1] = out
  BY <1>1
<1>3. ASSUME NEW r \in Req, Succeeded(r) PROVE Succeeded(r)'
  <2>1. PICK k \in DOMAIN done[r] : Succeeds(done[r][k])
    BY <1>3 DEF Succeeded
  <2>2. CASE r = batch.req
    BY <1>2, <2>1, <2>2 DEF Succeeded
  <2>3. CASE r # batch.req
    BY <1>1, <2>1, <2>3 DEF Succeeded
  <2> QED
    BY <2>2, <2>3
<1>4. ASSUME NEW r \in Req, r = batch.req, Succeeds(out) PROVE Succeeded(r)'
  BY <1>2, <1>4 DEF Succeeded
<1> QED
  BY <1>3, <1>4

(* What has taken effect has: outcomes are only ever added.                *)
LEMMA SucceededStays ==
    ASSUME TypeOK, [Next]_vars, NEW r \in Req, Succeeded(r)
    PROVE  Succeeded(r)'
<1>1. CASE UNCHANGED done
  BY <1>1 DEF Succeeded
<1>2. ASSUME NEW out \in Outcomes, Executing(out),
             done' = [done EXCEPT ![batch.req] = Append(@, out)]
      PROVE  Succeeded(r)'
  BY <1>2, OutcomeSucceeds
<1>3. CASE Parent
  <2>1. "unsaved" \in Outcomes
    BY DEF Outcomes
  <2> QED
    BY <1>1, <1>2, <1>3, <2>1
    DEF Parent, ParentRead, ParentIdle, ParentIncomplete, ParentTake, ParentNoMemory,
        ExecCommand, ExecUnsaved, ParentRespond, ParentBreak, ranVars
<1>4. CASE Client \/ Child \/ Stop \/ UNCHANGED vars
  BY <1>1, <1>4
  DEF Client, HttpBacklog, HttpBadForm, HttpNoMemory, HttpPost, RefusePost,
      Child, ChildRead, ChildIdle, ChildUnmatched, ChildAborted, ChildPartial, ChildReply,
      Stop, Reboot, ParentDies, ChildDies, ParentBrokenPipe, ChildBrokenPipe, vars, ranVars
<1> QED
  BY <1>3, <1>4 DEF Next

(* The batch keeps its success or gains one; a response that tells of one  *)
(* was there before or is made from the batch.                             *)
LEMMA EffectFrom ==
    ASSUME TypeOK, TypeOK', EffectInv, [Next]_vars,
           batch'.req # 0 /\ batch'.status = "success" =>
              \/ batch.req # 0 /\ batch.status = "success" /\ batch'.req = batch.req
              \/ \A r \in Req : r = batch'.req => Succeeded(r)',
           \A i \in DOMAIN toChild' : toChild'[i].status = "success" =>
              \/ \E j \in DOMAIN toChild : toChild'[i] = toChild[j]
              \/ /\ batch.req # 0 /\ batch.status = "success"
                 /\ toChild'[i].req = batch.req
    PROVE  EffectInv'
<1>1. ASSUME batch'.req # 0, batch'.status = "success", NEW r, r = batch'.req
      PROVE  Succeeded(r)'
  <2>1. batch.req # 0 => batch.req \in Req
    BY BatchTypes
  <2>2. r \in Req
    BY <1>1 , BoundsAssumption DEF TypeOK, BatchType, Req
  <2> QED
    BY <1>1, <2>1, <2>2, SucceededStays DEF EffectInv
<1>2. ASSUME NEW i \in DOMAIN toChild', toChild'[i].status = "success",
             NEW r, r = toChild'[i].req
      PROVE  Succeeded(r)'
  <2>1. CASE \E j \in DOMAIN toChild : toChild'[i] = toChild[j]
    <3>1. PICK j \in DOMAIN toChild : toChild'[i] = toChild[j]
      BY <2>1
    <3>2. r \in Req /\ Succeeded(r)
      BY <1>2, <3>1, ResponseTypes DEF EffectInv
    <3> QED
      BY <3>2, SucceededStays
  <2>2. CASE batch.req # 0 /\ batch.status = "success" /\ toChild'[i].req = batch.req
    <3>1. r \in Req /\ Succeeded(r)
      BY <1>2, <2>2, BatchTypes DEF EffectInv
    <3> QED
      BY <3>1, SucceededStays
  <2> QED
    BY <1>2, <2>1, <2>2
<1> QED
  BY <1>1, <1>2 DEF EffectInv, Succeeded

LEMMA EffectStep == TypeOK /\ TypeOK' /\ EffectInv /\ [Next]_vars => EffectInv'
<1> SUFFICES ASSUME TypeOK, TypeOK', EffectInv, [Next]_vars PROVE EffectInv'
  OBVIOUS
<1>1. ASSUME UNCHANGED toChild,
             batch'.req = 0 \/ batch'.status # "success" \/ UNCHANGED batch
      PROVE  EffectInv'
  BY <1>1, EffectFrom
<1>2. ASSUME NEW out \in Outcomes, Executing(out), UNCHANGED toChild,
             done' = [done EXCEPT ![batch.req] = Append(@, out)],
             batch'.req = batch.req,
             batch'.status = "success" => batch.status = "success" \/ Succeeds(out)
      PROVE  EffectInv'
  <2>1. ASSUME batch'.status = "success" PROVE batch.status = "success" \/
               \A r \in Req : r = batch'.req => Succeeded(r)'
    BY <1>2, <2>1, OutcomeSucceeds
  <2> QED
    BY <1>2, <2>1, EffectFrom
<1>3. CASE Client \/ Stop \/ UNCHANGED vars
  BY <1>1, <1>3
  DEF Client, HttpBacklog, HttpBadForm, HttpNoMemory, HttpPost, RefusePost,
      Stop, Reboot, ParentDies, ChildDies, ParentBrokenPipe, ChildBrokenPipe,
      vars, parentVars
<1>4. CASE Parent
  <2>1. CASE (\E n \in 1 .. MaxRead : ParentRead(n)) \/ ParentIdle \/ ParentIncomplete
    BY <1>1, <2>1 DEF ParentRead, ParentIdle, ParentIncomplete
  <2>2. CASE ParentTake \/ ParentBreak
    BY <1>1, <2>2 DEF ParentTake, ParentBreak, NoBatch
  <2>3. CASE ParentNoMemory
    <3>1. toChild' = Append(toChild, Abort) /\ UNCHANGED batch /\ Abort.status # "success"
      BY <2>3 DEF ParentNoMemory, Abort
    <3>2. \A i \in DOMAIN toChild' :
             (\E j \in DOMAIN toChild : toChild'[i] = toChild[j]) \/ toChild'[i] = Abort
      BY <3>1, ResponseTypes
    <3> QED
      BY <3>1, <3>2, EffectFrom
  <2>4. ASSUME NEW out \in Outcomes, ExecCommand(out) PROVE EffectInv'
    <3>1. PICK text, status :
            /\ Respond(out, text, status)
            /\ status \in {"success", batch.status, "abort"}
            /\ status = "success" => Succeeds(out) \/ status = batch.status
      BY <2>4 DEF ExecCommand, Succeeds
    <3>2. batch'.req = batch.req /\ batch'.status = status
      BY <3>1 DEF Respond, TypeOK, BatchType
    <3> QED
      BY <1>2, <2>4, <3>1, <3>2 DEF ExecCommand
  <2>5. CASE ExecUnsaved
    <3>1. "unsaved" \in Outcomes
      BY DEF Outcomes
    <3>2. batch'.req = batch.req /\ batch'.status = batch.status
      BY <2>5 DEF ExecUnsaved, Respond, TypeOK, BatchType
    <3> QED
      BY <1>2, <2>5, <3>1, <3>2 DEF ExecUnsaved
  <2>6. CASE ParentRespond
    <3>1. PICK m : toChild' = Append(toChild, m) /\ m.req = batch.req
      BY <2>6 DEF ParentRespond
    <3>2. \A i \in DOMAIN toChild' :
             (\E j \in DOMAIN toChild : toChild'[i] = toChild[j]) \/ toChild'[i] = m
      BY <3>1, ResponseTypes
    <3>3. batch'.req = 0 /\ batch.req # 0 /\ batch.status = "success"
      BY <2>6, BatchTypes DEF ParentRespond, ListSucceeded, NoBatch
    <3> QED
      BY <3>1, <3>2, <3>3, EffectFrom
  <2> QED
    BY <1>4, <2>1, <2>2, <2>3, <2>4, <2>5, <2>6 DEF Parent
<1>5. CASE Child
  <2>1. UNCHANGED batch
    BY <1>5 DEF Child, ChildRead, ChildIdle, ChildUnmatched, ChildAborted, ChildPartial,
                ChildReply, parentVars
  <2>2. CASE UNCHANGED toChild
    BY <1>1, <2>1, <2>2
  <2>3. CASE toChild # <<>> /\ toChild' = Tail(toChild)
    <3>1. \A i \in DOMAIN toChild' : \E j \in DOMAIN toChild : toChild'[i] = toChild[j]
      <4>1. \A i \in DOMAIN toChild' : i + 1 \in DOMAIN toChild /\ toChild'[i] = toChild[i + 1]
        BY <2>3, ResponseTypes
      <4> QED
        BY <4>1
    <3> QED
      BY <2>1, <3>1, EffectFrom
  <2> QED
    BY <1>5, <2>2, <2>3
    DEF Child, ChildRead, ChildIdle, ChildUnmatched, ChildAborted, ChildPartial,
        ChildReply, ChildScans
<1> QED
  BY <1>3, <1>4, <1>5 DEF Next

-----------------------------------------------------------------------------
(* A form that is not open and not answered has succeeded: the child took  *)
(* its request when the first part of the response had come.               *)

DroppedInv ==
    \A r \in Req : r <= posted /\ replies[r] = <<>> /\ ~Open(r) => Succeeded(r)

LEMMA DroppedStep ==
    TypeOK /\ ReplyInv /\ FlightInv /\ EffectInv /\ DroppedInv /\ [Next]_vars
        => DroppedInv'
<1> SUFFICES ASSUME TypeOK, ReplyInv, FlightInv, EffectInv, DroppedInv, [Next]_vars,
                    NEW r \in Req, r <= posted', replies'[r] = <<>>, ~Open(r)'
             PROVE  Succeeded(r)'
  BY DEF DroppedInv, Open, Succeeded
<1>1. replies[r] = <<>>
  BY AnswersStay
<1>2. ASSUME r <= posted, ~Open(r) PROVE Succeeded(r)'
  BY <1>1, <1>2, SucceededStays DEF DroppedInv
<1>3. posted \in Nat /\ r \in Nat /\ replies \in [Req -> Seq(Codes)]
  BY EntryTypes, FormNumbers DEF TypeOK, WebType
<1>4. CASE Client
  <2>1. posted' = posted + 1
    BY <1>4 DEF Client, HttpBacklog, HttpBadForm, HttpNoMemory, HttpPost, RefusePost
  <2>2. r # posted'
    <3>1. ASSUME NEW code, RefusePost(code), r = posted' PROVE FALSE
      <4>1. replies'[r] = Append(replies[r], code)
        BY <1>3, <3>1 DEF RefusePost
      <4> QED
        BY <1>3, <4>1
    <3>2. ASSUME NEW cmds, HttpPost(cmds), r = posted' PROVE FALSE
      <4>1. /\ Len(reqList) + 1 \in DOMAIN reqList'
            /\ reqList'[Len(reqList) + 1].req = posted'
        BY <3>2 DEF HttpPost, TypeOK, WebType
      <4> QED
        BY <3>2, <4>1 DEF Open
    <3> QED
      BY <1>4, <3>1, <3>2 DEF Client, HttpBacklog, HttpBadForm, HttpNoMemory
  <2>3. r <= posted
    BY <1>3, <2>1, <2>2
  <2>4. ~Open(r)
    <3>1. ~Child
      BY <1>3, <2>1
      DEF Child, ChildRead, ChildIdle, ChildUnmatched, ChildAborted, ChildPartial,
          ChildReply, webVars
    <3>2. ~Refused(r)'
      BY DEF Refused
    <3> QED
      BY <3>1, <3>2, OwedKept DEF Owed
  <2> QED
    BY <1>2, <2>3, <2>4
<1>5. CASE Parent \/ Stop \/ UNCHANGED vars
  <2>1. UNCHANGED <<posted, reqList>>
    BY <1>5
    DEF Parent, ParentRead, ParentIdle, ParentIncomplete, ParentTake, ParentNoMemory,
        ExecCommand, ExecUnsaved, ParentRespond, ParentBreak,
        Stop, Reboot, ParentDies, ChildDies, ParentBrokenPipe, ChildBrokenPipe, vars, webVars
  <2> QED
    BY <1>2, <2>1 DEF Open
<1>6. CASE Child
  <2>0. UNCHANGED posted
    BY <1>6 DEF Child, ChildRead, ChildIdle, ChildUnmatched, ChildAborted, ChildPartial,
                ChildReply, webVars
  <2>1. CASE (\E n \in 1 .. MaxRead : ChildRead(n)) \/ ChildIdle \/ ChildUnmatched
    <3>1. UNCHANGED reqList
      BY <2>1 DEF ChildRead, ChildIdle, ChildUnmatched, webVars
    <3> QED
      BY <1>2, <2>0, <3>1 DEF Open
  <2>2. ASSUME NEW i \in DOMAIN reqList, ChildAborted(i) \/ ChildPartial(i) \/ ChildReply(i)
        PROVE  Succeeded(r)'
    <3>1. ChildScans /\ TakeRequest(i) /\ reqList[i].req = Response.req
      BY <2>2, MatchIsOwn DEF ChildAborted, ChildPartial, ChildReply, FlightInv
    <3>2. CASE r # reqList[i].req
      <4>1. ~Open(r)
        BY <2>0, <3>1, <3>2, OthersStay
      <4> QED
        BY <1>2, <2>0, <4>1
    <3>3. CASE r = reqList[i].req
      <4>1. ASSUME NEW code, Reply(reqList[i].req, code) PROVE FALSE
        <5>1. replies'[r] = Append(replies[r], code)
          BY <1>3, <3>3, <4>1 DEF Reply
        <5> QED
          BY <1>3, <5>1
      <4>2. ChildPartial(i)
        BY <2>2, <4>1 DEF ChildAborted, ChildReply
      <4>3. 1 \in DOMAIN toChild /\ Response = toChild[1] /\ Response.status = "success"
        BY <3>1, <4>2, ResponseTypes DEF ChildPartial, ChildScans, Response
      <4>4. Succeeded(r)
        BY <3>1, <3>3, <4>3 DEF EffectInv
      <4> QED
        BY <4>4, SucceededStays
    <3> QED
      BY <3>2, <3>3
  <2> QED
    BY <1>6, <2>1, <2>2 DEF Child
<1> QED
  BY <1>4, <1>5, <1>6 DEF Next

LEMMA UnansweredFollows ==
    TypeOK /\ OwedInv /\ OpenHasCause /\ DroppedInv => UnansweredHasCause
<1> SUFFICES ASSUME TypeOK, OwedInv, OpenHasCause, DroppedInv,
                    NEW r \in 1 .. posted, replies[r] = <<>>
             PROVE  IF Open(r)
                      THEN running /\ parentPc # "dead" => InFlight(r) \/ LeftWithError(r)
                      ELSE /\ Succeeded(r) /\ ~Waits(r)
                           /\ \A i \in DOMAIN toChild :
                                 toChild[i].req = r /\ toChild[i].status = "success"
                                     => i = 1 /\ HeadAwaited
  BY DEF UnansweredHasCause
<1>1. r \in Req /\ r <= posted
  BY BoundsAssumption DEF TypeOK, WebType, Req
<1>2. ~Refused(r)
  BY DEF Refused
<1>3. CASE Open(r)
  BY <1>3 DEF OpenHasCause, Open
<1>4. CASE ~Open(r)
  <2>1. Succeeded(r)
    BY <1>1, <1>4 DEF DroppedInv
  <2>2. ~Owed(r)
    BY <1>2, <1>4 DEF Owed
  <2> QED
    BY <1>1, <1>4, <2>1, <2>2 DEF OwedInv
<1> QED
  BY <1>3, <1>4

(* What every invariant of this module is proved from.                     *)
WaitInv == TypeOK /\ ReplyInv /\ FlightInv /\ OwedInv /\ HearsInv

LEMMA WaitInvHolds == SerialsSuffice => (Spec => []WaitInv)
<1> SUFFICES ASSUME SerialsSuffice PROVE Spec => []WaitInv
  OBVIOUS
<1>1. Init => HearsInv
  BY DEF Init, HearsInv
<1>2. TypeOK /\ FlightInv /\ [Next]_vars => FlightInv'
  BY FlightStep
<1>3. TypeOK /\ ReplyInv /\ FlightInv /\ OwedInv /\ [Next]_vars => OwedInv'
  <2>1. ASSUME TypeOK, ReplyInv, FlightInv, OwedInv, [Next]_vars PROVE OwedInv'
    BY <2>1, OwedNotChild, OwedChild
  <2> QED
    BY <2>1
<1> QED
  BY TypeCorrect, ReplyInvInit, ReplyInvStep, FlightInit, OwedInit, HearsStep,
     <1>1, <1>2, <1>3, PTL DEF Spec, WaitInv

(* A form that has no answer is open, its list or response under way or    *)
(* its commands ended in an error that ipc_parent_readcb does not answer;  *)
(* or its request was taken off the list when the first part of its        *)
(* response came (ipc.c:183), and then it has run and succeeded.  There is *)
(* no third way, however the streams are cut, whichever allocations fail   *)
(* and whatever dies.                                                      *)
THEOREM UnansweredExplained == SerialsSuffice => (Spec => []UnansweredHasCause)
<1> SUFFICES ASSUME SerialsSuffice PROVE Spec => []UnansweredHasCause
  OBVIOUS
<1>1. Init => OpenHasCause /\ EffectInv /\ DroppedInv
  <2> SUFFICES ASSUME Init PROVE OpenHasCause /\ EffectInv /\ DroppedInv
    OBVIOUS
  <2>1. reqList = <<>> /\ toChild = <<>> /\ batch.req = 0 /\ posted = 0
    BY DEF Init, NoBatch
  <2>2. \A r \in Req : ~(r <= posted)
    BY <2>1, FormNumbers
  <2> QED
    BY <2>1, <2>2 DEF OpenHasCause, EffectInv, DroppedInv
<1>2. WaitInv /\ WaitInv' /\ OpenHasCause /\ EffectInv /\ DroppedInv /\ [Next]_vars
      => OpenHasCause' /\ EffectInv' /\ DroppedInv'
  BY CauseStep, EffectStep, DroppedStep DEF WaitInv
<1>3. WaitInv /\ OpenHasCause /\ DroppedInv => UnansweredHasCause
  BY UnansweredFollows DEF WaitInv
<1> QED
  BY WaitInvHolds, <1>1, <1>2, <1>3, PTL DEF Spec

-----------------------------------------------------------------------------
(* What the parent sleeps through                                          *)

(* Forms run in order: none that waits has a form behind it that ran.      *)
RunInv ==
    \A s \in Req : done[s] # <<>> =>
        /\ \A i \in DOMAIN toParent : s < toParent[i].req
        /\ batch.req # 0 => s <= batch.req

LEMMA RunStep == TypeOK /\ FlightInv /\ RunInv /\ [Next]_vars => RunInv'
<1> SUFFICES ASSUME TypeOK, FlightInv, RunInv, [Next]_vars PROVE RunInv'
  OBVIOUS
<1>0. "unsaved" \in Outcomes
  BY DEF Outcomes
<1>1. ASSUME UNCHANGED <<toParent, done>>, batch'.req \in {0, batch.req} PROVE RunInv'
  BY <1>1, FormNumbers DEF RunInv
<1>2. ASSUME NEW cmds, HttpPost(cmds) PROVE RunInv'
  <2>1. /\ UNCHANGED <<batch, done>> /\ posted' = posted + 1 /\ posted \in Nat
        /\ \A i \in DOMAIN toParent' :
              \/ i \in DOMAIN toParent /\ toParent'[i] = toParent[i]
              \/ toParent'[i].req = posted'
    BY <1>2, ListTypes, EntryTypes DEF HttpPost, parentVars, ranVars, TypeOK
  <2>2. ASSUME NEW s \in Req, done[s] # <<>> PROVE s < posted'
    <3>1. ~(s > posted)
      BY <2>2 DEF FlightInv, DoneInv
    <3> QED
      BY <2>1, <3>1, FormNumbers
  <2> QED
    BY <2>1, <2>2 DEF RunInv
<1>3. CASE ParentTake
  <2>1. /\ 1 \in DOMAIN toParent /\ batch'.req = toParent[1].req /\ UNCHANGED done
        /\ \A i \in DOMAIN toParent' :
              i + 1 \in DOMAIN toParent /\ toParent'[i] = toParent[i + 1]
    BY <1>3, ListTypes DEF ParentTake, ParentScans, ranVars
  <2>2. ASSUME NEW s \in Req, done[s] # <<>> PROVE s <= toParent[1].req
    <3>1. s < toParent[1].req
      BY <2>1, <2>2 DEF RunInv
    <3> QED
      BY <2>1, <3>1, ListTypes, FormNumbers
  <2> QED
    BY <2>1, <2>2 DEF RunInv
<1>4. ASSUME NEW out \in Outcomes, Executing(out), UNCHANGED toParent,
             done' = [done EXCEPT ![batch.req] = Append(@, out)],
             batch'.req = batch.req
      PROVE  RunInv'
  <2>1. batch.req \in Req /\ batch.req # 0
    BY <1>4, BatchTypes DEF Executing
  <2>2. ASSUME NEW s \in Req, done'[s] # <<>> PROVE done[s] # <<>> \/ s = batch.req
    BY <1>4, <2>2, OutcomeAdded
  <2>3. \A i \in DOMAIN toParent : batch.req < toParent[i].req
    BY <2>1 DEF FlightInv, QueueInv
  <2>4. batch.req <= batch.req
    BY <2>1, FormNumbers
  <2> QED
    BY <1>4, <2>1, <2>2, <2>3, <2>4 DEF RunInv
<1>5. CASE Client
  BY <1>1, <1>2, <1>5
  DEF Client, HttpBacklog, HttpBadForm, HttpNoMemory, RefusePost, parentVars, ranVars
<1>6. CASE Parent
  <2>1. CASE ExecUnsaved \/ \E out \in Outcomes : ExecCommand(out)
    BY <1>0, <1>4, <2>1, BatchKeepsForm DEF ExecUnsaved, ExecCommand
  <2>2. CASE ParentRespond \/ ParentBreak
    BY <1>1, <2>2 DEF ParentRespond, ParentBreak, NoBatch, ranVars
  <2> QED
    BY <1>1, <1>3, <1>6, <2>1, <2>2
    DEF Parent, ParentRead, ParentIdle, ParentIncomplete, ParentNoMemory, ranVars
<1>7. CASE Child \/ Stop \/ UNCHANGED vars
  BY <1>1, <1>7
  DEF Child, ChildRead, ChildIdle, ChildUnmatched, ChildAborted, ChildPartial, ChildReply,
      Stop, Reboot, ParentDies, ChildDies, ParentBrokenPipe, ChildBrokenPipe,
      vars, parentVars, ranVars
<1> QED
  BY <1>5, <1>6, <1>7 DEF Next

(* A list that waits stays given up: its abort is answered, or was.        *)
LEMMA GivenUpStays ==
    ASSUME TypeOK, ReplyInv, FlightInv, OwedInv, [Next]_vars,
           NEW r \in Req, Waits(r), GivenUp(r)
    PROVE  GivenUp(r)'
<1>1. ASSUME Refused(r)' PROVE GivenUp(r)'
  BY <1>1 DEF GivenUp, Refused
<1>2. CASE Refused(r)
  BY <1>1, <1>2, RefusedStays
<1>3. ASSUME NEW i \in DOMAIN toChild, toChild[i].req = r, toChild[i].status = "abort"
      PROVE  GivenUp(r)'
  <2>1. ASSUME i \in DOMAIN toChild', toChild'[i] = toChild[i] PROVE GivenUp(r)'
    BY <1>3, <2>1 DEF GivenUp
  <2>2. CASE UNCHANGED toChild
    BY <2>1, <2>2
  <2>3. ASSUME NEW m, toChild' = Append(toChild, m) PROVE GivenUp(r)'
    BY <2>1, <2>3, ResponseTypes
  <2>4. ASSUME ChildScans, toChild' = Tail(toChild), i # 1 PROVE GivenUp(r)'
    <3>1. i - 1 \in DOMAIN toChild' /\ toChild'[i - 1] = toChild[i]
      BY <1>3, <2>4, ResponseTypes DEF ChildScans
    <3> QED
      BY <1>3, <3>1 DEF GivenUp
  <2>5. CASE Child
    <3>1. ASSUME ChildUnmatched, i = 1 PROVE GivenUp(r)'
      <4>1. ~Open(r) /\ UNCHANGED replies
        BY <1>3, <3>1, MatchIsOwn DEF ChildUnmatched, ChildScans, Response, FlightInv, webVars
      <4>2. Refused(r)
        BY <4>1 DEF OwedInv, Owed
      <4> QED
        BY <1>2, <4>2
    <3>2. ASSUME NEW j \in DOMAIN reqList, ChildAborted(j), i = 1 PROVE GivenUp(r)'
      <4>1. reqList[j].req = r /\ Reply(r, TryAgain)
        BY <1>3, <3>2, MatchIsOwn DEF ChildAborted, ChildScans, Response, FlightInv
      <4>2. replies[r] = <<>> /\ replies \in [Req -> Seq(Codes)]
        BY <4>1 DEF TypeOK, WebType, ReplyInv, PendingUnanswered
      <4>3. Refused(r)'
        BY <4>1, <4>2 DEF Refused, Reply
      <4> QED
        BY <1>1, <4>3
    <3>3. ASSUME NEW j \in DOMAIN reqList, ChildReply(j) PROVE i # 1 /\ ChildScans
      BY <1>3, <3>3 DEF ChildReply, ChildScans, Response
    <3> QED
      BY <2>2, <2>4, <2>5, <3>1, <3>2, <3>3
      DEF Child, ChildRead, ChildIdle, ChildUnmatched, ChildAborted, ChildPartial, ChildReply
  <2>6. CASE Client \/ Parent \/ Stop \/ UNCHANGED vars
    BY <2>2, <2>3, <2>6
    DEF Client, HttpBacklog, HttpBadForm, HttpNoMemory, HttpPost, RefusePost,
        Parent, ParentRead, ParentIdle, ParentIncomplete, ParentTake, ParentNoMemory,
        ExecCommand, ExecUnsaved, ParentRespond, ParentBreak,
        Stop, Reboot, ParentDies, ChildDies, ParentBrokenPipe, ChildBrokenPipe, vars
  <2> QED
    BY <2>5, <2>6 DEF Next
<1> QED
  BY <1>2, <1>3 DEF GivenUp, Refused

(* At the header watermark the parent sleeps on less than a header, or     *)
(* after one of its early returns.                                         *)
HeadGivenUp == toParent # <<>> /\ GivenUp(Head(toParent).req)
LastFailed  == \E r \in Req : EndedInError(r)

SleepInv ==
    parentPc = "wait" /\ parentLow = HdrUnits =>
        parentIn < HdrUnits \/ HeadGivenUp \/ LastFailed

LEMMA HeadGivenUpStays ==
    ASSUME TypeOK, ReplyInv, FlightInv, OwedInv, [Next]_vars, HeadGivenUp,
           UNCHANGED toParent \/ \E list : toParent' = Append(toParent, list)
    PROVE  HeadGivenUp'
<1>1. toParent' # <<>> /\ Head(toParent') = Head(toParent)
  <2>1. ParentEndType /\ toParent # <<>>
    BY DEF TypeOK, HeadGivenUp
  <2> QED
    BY <2>1, HeadStays
<1>2. PICK r \in Req : r = Head(toParent).req
  <2>1. ParentEndType /\ toParent # <<>>
    BY DEF TypeOK, HeadGivenUp
  <2> QED
    BY <2>1, HeadList DEF Lists
<1>3. Waits(r) /\ GivenUp(r)
  <2>1. 1 \in DOMAIN toParent /\ Head(toParent) = toParent[1]
    BY ListTypes DEF HeadGivenUp
  <2> QED
    BY <1>2, <2>1 DEF Waits, HeadGivenUp
<1>4. GivenUp(r)'
  BY <1>3, GivenUpStays
<1> QED
  BY <1>1, <1>2, <1>4 DEF HeadGivenUp, GivenUp

LEMMA LastFailedStays == LastFailed /\ UNCHANGED done => LastFailed'
BY DEF LastFailed, EndedInError, LeftWithError

LEMMA BreakFails ==
    ASSUME TypeOK, FlightInv, RunInv, ParentBreak
    PROVE  LastFailed'
<1>1. /\ running /\ parentPc = "exec" /\ batch.cmds = <<>> /\ batch.status # "success"
      /\ UNCHANGED done
  BY DEF ParentBreak, ListSucceeded, ranVars
<1>2. LeftWithError(batch.req) /\ batch.req \in Req /\ batch.req # 0
  BY <1>1, BatchTypes DEF FlightInv, DoneInv, BatchTells
<1>3. ASSUME NEW s \in batch.req + 1 .. MaxPosts PROVE done[s] = <<>>
  <2>1. s \in Req /\ ~(s <= batch.req)
    BY <1>2, BoundsAssumption DEF Req
  <2> QED
    BY <1>2, <2>1 DEF RunInv
<1> QED
  BY <1>1, <1>2, <1>3, LastFailedStays DEF LastFailed, EndedInError

LEMMA SleepStep == WaitInv /\ RunInv /\ SleepInv /\ [Next]_vars => SleepInv'
<1> SUFFICES ASSUME WaitInv, RunInv, SleepInv, [Next]_vars,
                    parentPc' = "wait", parentLow' = HdrUnits
             PROVE  parentIn' < HdrUnits \/ HeadGivenUp' \/ LastFailed'
  BY DEF SleepInv
<1> USE DEF WaitInv
<1>1. ASSUME UNCHANGED <<parentIn, parentLow, parentPc, done>>,
             UNCHANGED toParent \/ \E list : toParent' = Append(toParent, list)
      PROVE  parentIn' < HdrUnits \/ HeadGivenUp' \/ LastFailed'
  BY <1>1, HeadGivenUpStays, LastFailedStays DEF SleepInv
<1>2. CASE Client
  BY <1>1, <1>2
  DEF Client, HttpBacklog, HttpBadForm, HttpNoMemory, HttpPost, RefusePost, parentVars, ranVars
<1>3. CASE Child
  BY <1>1, <1>3
  DEF Child, ChildRead, ChildIdle, ChildUnmatched, ChildAborted, ChildPartial, ChildReply,
      parentVars, ranVars
<1>4. CASE Stop \/ UNCHANGED vars
  <2>1. UNCHANGED <<parentIn, parentLow, parentPc, toParent, done>>
    BY <1>4
    DEF Stop, Reboot, ParentDies, ChildDies, ParentBrokenPipe, ChildBrokenPipe, vars,
        parentVars, ranVars
  <2> QED
    BY <1>1, <2>1
<1>5. CASE Parent
  <2>1. ASSUME NEW n \in 1 .. MaxRead, ParentRead(n) PROVE parentIn' < HdrUnits
    <3>1. ~(parentIn' >= HdrUnits) /\ parentIn' \in Nat
      BY <2>1, BoundsAssumption DEF ParentRead, TypeOK, ParentEndType
    <3> QED
      BY <3>1 DEF HdrUnits
  <2>2. CASE ParentIdle
    BY <2>2 DEF ParentIdle
  <2>3. ASSUME ParentIncomplete PROVE FALSE
    <3>1. /\ toParent # <<>> /\ 1 \in DOMAIN toParent /\ Head(toParent) = toParent[1]
          /\ HdrUnits = ListUnits(toParent[1])
      BY <2>3, ListTypes DEF ParentIncomplete, ParentScans, ParentWaitsFor
    <3>2. toParent[1].cmds # <<>> /\ toParent[1].cmds \in Seq(Commands)
      BY <3>1, ListTypes DEF FlightInv, DoneInv
    <3>3. Len(toParent[1].cmds) \in Nat \ {0}
      BY <3>2
    <3> QED
      BY <3>1, <3>3 DEF ListUnits, HdrUnits
  <2>4. ASSUME ParentNoMemory PROVE HeadGivenUp'
    <3>1. toParent # <<>> /\ UNCHANGED toParent /\ toChild' = Append(toChild, Abort)
      BY <2>4 DEF ParentNoMemory, ParentScans
    <3>2. Len(toChild) + 1 \in DOMAIN toChild' /\ toChild'[Len(toChild) + 1] = Abort
      BY <3>1, ResponseTypes
    <3>3. Abort.req = Head(toParent).req /\ Abort.status = "abort"
      BY DEF Abort
    <3> QED
      BY <3>1, <3>2, <3>3 DEF HeadGivenUp, GivenUp
  <2>5. CASE ParentBreak
    BY <2>5, BreakFails
  <2>6. ASSUME ParentTake \/ ParentRespond \/ ExecUnsaved \/ \E out \in Outcomes : ExecCommand(out)
        PROVE  FALSE
    BY <2>6 DEF ParentTake, ParentRespond, ExecUnsaved, ExecCommand, Executing
  <2> QED
    BY <1>5, <2>1, <2>2, <2>3, <2>4, <2>5, <2>6 DEF Parent
<1> QED
  BY <1>2, <1>3, <1>4, <1>5 DEF Next

LEMMA HearsFollows == WaitInv /\ SleepInv => ParentHears
<1> SUFFICES ASSUME WaitInv, SleepInv, parentPc = "wait"
             PROVE  IF parentLow # HdrUnits
                      THEN /\ toParent # <<>> /\ parentLow = ListUnits(Head(toParent))
                           /\ parentIn < parentLow
                      ELSE toParent # <<>> /\ parentIn >= ListUnits(Head(toParent)) =>
                              GivenUp(Head(toParent).req) \/ LastFailed
  BY DEF ParentHears, LastFailed
<1>1. CASE parentLow # HdrUnits
  BY <1>1 DEF WaitInv, HearsInv
<1>2. ASSUME parentLow = HdrUnits, toParent # <<>>, parentIn >= ListUnits(Head(toParent))
      PROVE  GivenUp(Head(toParent).req) \/ LastFailed
  <2>1. Len(Head(toParent).cmds) \in Nat /\ parentIn \in Nat
    <3>1. ParentEndType
      BY DEF WaitInv, TypeOK
    <3>2. Head(toParent) \in Lists /\ parentIn \in Nat
      BY <1>2, <3>1, HeadList DEF ParentEndType
    <3> QED
      BY <3>2 DEF Lists
  <2>2. ~(parentIn < HdrUnits)
    BY <1>2, <2>1 DEF ListUnits, HdrUnits
  <2> QED
    BY <1>2, <2>2 DEF SleepInv, HeadGivenUp
<1> QED
  BY <1>1, <1>2

(* Outside its callback the parent waits for a header or for exactly the   *)
(* list at the head of its stream, and sleeps through a complete list only *)
(* if it gave that list up for want of memory (ipc-privileged.c:96) or     *)
(* after a form that ended in an error (ipc-privileged.c:201): the low     *)
(* watermark alone never makes it, however the stream is cut.              *)
THEOREM ParentListens == SerialsSuffice => (Spec => []ParentHears)
<1> SUFFICES ASSUME SerialsSuffice PROVE Spec => []ParentHears
  OBVIOUS
<1>1. Init => RunInv /\ SleepInv
  BY DEF Init, RunInv, SleepInv, HdrUnits
<1>2. WaitInv /\ RunInv /\ [Next]_vars => RunInv'
  BY RunStep DEF WaitInv
<1> QED
  BY WaitInvHolds, <1>1, <1>2, SleepStep, HearsFollows, PTL DEF Spec
=============================================================================
