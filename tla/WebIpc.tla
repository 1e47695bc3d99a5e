------------------------------- MODULE WebIpc -------------------------------
(***************************************************************************)
(* A configuration form posted to the web interface of c3listener travels  *)
(* from the unprivileged child (http.c, ipc.c), which keeps the HTTP       *)
(* request open, to the privileged parent (ipc-privileged.c), which runs   *)
(* the commands, and a response travels back.                              *)
(*                                                                         *)
(* Each process is one libevent loop, so a callback is never interrupted   *)
(* by another of its own process.  A callback that handles several         *)
(* messages is a pc and one action per message.  It is run when a read     *)
(* leaves at least the low watermark of its bufferevent in the input       *)
(* buffer, and, this is what makes an early return matter, it is not run   *)
(* again for what it leaves there until more arrives.                      *)
(***************************************************************************)
EXTENDS IpcProtocol

CONSTANTS
    MaxPosts,     \* bound: how many forms clients post
    MaxPending,   \* HTTP_MAX_PENDING_REQUESTS
    SerialMod,    \* 2^32: request serials are a uint32_t
    MaxRead,      \* bound: the most units one read takes from the socket
    Batches,      \* the command sequences a form can hold
    Results,      \* the outcomes a command may have in this instance
    FragmentsTo,  \* the processes whose reads may end inside a message
    OutOfMemory,  \* whether allocations may fail where the code looks
    Crashes       \* whether a process may die of a failure nobody checks

ASSUME BoundsAssumption ==
    /\ MaxPosts \in Nat /\ MaxPending \in Nat /\ MaxRead \in Nat \ {0}
    /\ SerialMod \in Nat \ {0}

ASSUME InstanceAssumption ==
    /\ Batches \subseteq Seq(Commands) \ {<<>>}
    /\ Results \subseteq Outcomes
    /\ FragmentsTo \subseteq {"parent", "child"}
    /\ OutOfMemory \in BOOLEAN /\ Crashes \in BOOLEAN

VARIABLES
    \* the web server of the child
    posted,     \* history: forms posted so far; a form is its number
    replies,    \* history: per form, the codes sent to its client
    reqList,    \* req_list_head: forms waiting for the parent, with serials
    ipcSerial,  \* ipc_serial: the next serial
    resetReq,   \* http_reset_req_p: a restart is needed, says server.json
    \* the child's end of the socket
    toChild,    \* responses sent and not consumed
    childIn,    \* how many units of them are in the input buffer
    childLow,   \* the low read watermark
    childPc,    \* "wait", "scan" (in ipc_child_readcb), "lost" (framing), "dead"
    \* the parent's end of the socket
    toParent,   \* command lists sent and not consumed
    parentIn,   \* how many units of them are in the input buffer
    parentLow,  \* the low read watermark
    parentPc,   \* "wait", "scan", "exec" (in ipc_parent_readcb), "lost", "dead"
    batch,      \* the list in execution and the response being built
    rebootArmed,\* the five second timer of ipc_reboot is pending
    running,    \* the machine is up and the parent has not killed the child
    done        \* history: per form, the outcomes of its commands

webVars    == <<posted, replies, reqList, ipcSerial, resetReq>>
childVars  == <<childIn, childLow, childPc>>
parentVars == <<parentIn, parentLow, parentPc, batch>>
ranVars    == <<rebootArmed, running, done>>
vars == <<webVars, toChild, childVars, toParent, parentVars, ranVars>>

Req == 1 .. MaxPosts

NoBatch == [req |-> 0, serial |-> 0, cmds |-> <<>>,
            status |-> "error", code |-> 0, len |-> 0]

Init ==
    /\ posted = 0 /\ reqList = <<>> /\ ipcSerial = 0 /\ resetReq = FALSE
    /\ replies = [r \in Req |-> <<>>]
    /\ toChild = <<>> /\ childIn = 0 /\ childLow = HdrUnits /\ childPc = "wait"
    /\ toParent = <<>> /\ parentIn = 0 /\ parentLow = HdrUnits
    /\ parentPc = "wait" /\ batch = NoBatch
    /\ rebootArmed = FALSE /\ running = TRUE
    /\ done = [r \in Req |-> <<>>]

-----------------------------------------------------------------------------
(* The child's web server: http_post_cb                                    *)

NextSerial(s) == IF s + 1 = SerialMod THEN 0 ELSE s + 1

(* A uint32_t result, and what reading it as a signed int makes of it.     *)
U32(n) ==
    IF n < 0 THEN n + SerialMod ELSE IF n >= SerialMod THEN n - SerialMod ELSE n
AsInt(n) == IF 2 * n >= SerialMod THEN n - SerialMod ELSE n

(* Mutant of ListLength: the list is one shorter than it is.               *)
BugListLength ==
    IF reqList = <<>> THEN 0
    ELSE AsInt(U32(reqList[Len(reqList)].serial - reqList[1].serial))

(* http_req_list_length does not count: it subtracts the serials at the    *)
(* two ends of the list.                                                   *)
ListLength ==
    IF reqList = <<>> THEN 0
    ELSE AsInt(U32(U32(reqList[Len(reqList)].serial - reqList[1].serial) + 1))

CanPost == running /\ childPc = "wait" /\ posted < MaxPosts

Backlogged == ListLength > MaxPending

RefusePost(code) ==
    /\ posted' = posted + 1
    /\ replies' = [replies EXCEPT ![posted'] = Append(@, code)]
    /\ UNCHANGED <<reqList, resetReq, toChild, childVars, toParent, parentVars,
                   ranVars>>

HttpBacklog ==
    /\ CanPost
    /\ Backlogged
    /\ RefusePost(TryAgain)
    /\ UNCHANGED ipcSerial

HttpBadForm ==
    /\ CanPost
    /\ ~Backlogged
    /\ \E code \in FormErrors : RefusePost(code)
    /\ UNCHANGED ipcSerial

(* An allocation fails, before the serial is drawn or after.               *)
HttpNoMemory ==
    /\ OutOfMemory
    /\ CanPost
    /\ ~Backlogged
    /\ RefusePost(TryAgain)
    /\ ipcSerial' \in {ipcSerial, NextSerial(ipcSerial)}

HttpPost(cmds) ==
    /\ CanPost
    /\ ~Backlogged
    /\ posted' = posted + 1
    /\ ipcSerial' = NextSerial(ipcSerial)
    /\ reqList' = Append(reqList, [serial |-> ipcSerial, req |-> posted'])
    /\ toParent' = Append(toParent, [serial |-> ipcSerial, req |-> posted',
                                     cmds |-> cmds])
    /\ UNCHANGED <<replies, resetReq, toChild, childVars, parentVars, ranVars>>

-----------------------------------------------------------------------------
(* Reads.  A read takes what the kernel holds, or, when the socket buffer  *)
(* or the 4096 bytes of one read cut it, a part of that.  The callback     *)
(* runs once after a read that leaves the low watermark or more.           *)

(* Mutants: the parent does not go back to waiting for a header; it counts *)
(* the header of a list twice; the child does not raise its watermark.     *)
BugParentKeepsLow(n) == parentLow' = IF n = HdrUnits THEN parentLow ELSE n
BugParentWaitsFor(n) == parentLow' = IF n = HdrUnits THEN n ELSE n + HdrUnits
BugChildWaitsFor(n)  == childLow' = IF n = HdrUnits THEN n ELSE childLow

(* bufferevent_setwatermark                                                *)
ParentWaitsFor(n) == parentLow' = n
ChildWaitsFor(n)  == childLow' = n

WholeLists(n) == \E k \in 0 .. Len(toParent) : n = UnreadLists(SubSeq(toParent, 1, k))
WholeResps(n) == \E k \in 0 .. Len(toChild) : n = UnreadResps(SubSeq(toChild, 1, k))

ParentRead(n) ==
    /\ running
    /\ parentPc = "wait"
    /\ parentIn + n <= UnreadLists(toParent)
    /\ "parent" \in FragmentsTo \/ WholeLists(parentIn + n)
    /\ parentIn' = parentIn + n
    /\ parentPc' = IF parentIn' >= parentLow THEN "scan" ELSE "wait"
    /\ UNCHANGED <<webVars, toChild, childVars, toParent, parentLow, batch, ranVars>>

ChildRead(n) ==
    /\ running
    /\ childPc = "wait"
    /\ childIn + n <= UnreadResps(toChild)
    /\ "child" \in FragmentsTo \/ WholeResps(childIn + n)
    /\ childIn' = childIn + n
    /\ childPc' = IF childIn' >= childLow THEN "scan" ELSE "wait"
    /\ UNCHANGED <<webVars, toChild, childLow, toParent, parentVars, ranVars>>

-----------------------------------------------------------------------------
(* The parent: ipc_parent_readcb                                           *)

ParentScans ==
    /\ running
    /\ parentPc = "scan"
    /\ toParent # <<>>
    /\ parentIn >= HdrUnits
ListComplete == parentIn >= ListUnits(Head(toParent))

(* Less than a header is left: the loop, and the callback, end.            *)
ParentIdle ==
    /\ running
    /\ parentPc = "scan"
    /\ parentIn < HdrUnits
    /\ parentPc' = "wait"
    /\ UNCHANGED <<webVars, toChild, childVars, toParent, parentIn, parentLow,
                   batch, ranVars>>

ParentIncomplete ==
    /\ ParentScans
    /\ ~ListComplete
    /\ ParentWaitsFor(ListUnits(Head(toParent)))
    /\ parentPc' = "wait"
    /\ UNCHANGED <<webVars, toChild, childVars, toParent, parentIn, batch, ranVars>>

(* ipc_cmd_list_recover succeeds: the list leaves the input buffer.        *)
ParentTake ==
    /\ ParentScans
    /\ ListComplete
    /\ ParentWaitsFor(HdrUnits)
    /\ batch' = [req |-> Head(toParent).req, serial |-> Head(toParent).serial,
                 cmds |-> Head(toParent).cmds,
                 status |-> "error", code |-> 0, len |-> 0]
    /\ parentIn' = parentIn - ListUnits(Head(toParent))
    /\ toParent' = Tail(toParent)
    /\ parentPc' = "exec"
    /\ UNCHANGED <<webVars, toChild, childVars, ranVars>>

Abort == [serial |-> Head(toParent).serial, req |-> Head(toParent).req,
          status |-> "abort", code |-> 0, len |-> 0]

(* An allocation of it fails and the child is told.  After the first one   *)
(* the list is still in the input buffer, to be found again when more      *)
(* arrives; after the second its header is gone and its commands are       *)
(* there, to be taken for a header.                                        *)
ParentNoMemory ==
    /\ OutOfMemory
    /\ ParentScans
    /\ ListComplete
    /\ ParentWaitsFor(HdrUnits)
    /\ toChild' = Append(toChild, Abort)
    /\ parentPc' \in {"wait", "lost"}
    /\ UNCHANGED <<webVars, childVars, toParent, parentIn, batch, ranVars>>

Executing(out) ==
    /\ running
    /\ parentPc = "exec"
    /\ batch.cmds # <<>>
    /\ out \in OutcomesOf[Head(batch.cmds)]
    /\ out \in Results

(* Mutants of Respond: the code is not renewed after a success; an error   *)
(* counts as a success.                                                    *)
BugRespondCode(out, text, status) ==
    batch' = [batch EXCEPT !.cmds = Tail(@), !.len = text, !.status = status,
                           !.code = IF batch.status = "success" THEN 200
                                    ELSE CodeOf[out]]
BugRespondStatus(out, text, status) ==
    batch' = [batch EXCEPT !.cmds = Tail(@), !.code = CodeOf[out], !.len = text,
                           !.status = IF status = "error" THEN "success" ELSE status]

(* One turn of the for loop.  Success sets the status; an error sets the   *)
(* code and the text and leaves the status as it was.  When asprintf       *)
(* fails the text is none or the one before, and the status, except after  *)
(* a plain success, is ABORT.                                              *)
Respond(out, text, status) ==
    batch' = [batch EXCEPT !.cmds = Tail(@), !.code = CodeOf[out],
                           !.len = text, !.status = status]

ExecCommand(out) ==
    /\ Executing(out)
    /\ out # "unsaved"
    /\ \/ Respond(out, TextUnits[out],
                  IF Succeeds(out) THEN "success" ELSE batch.status)
       \/ /\ OutOfMemory
          /\ \E text \in {0, batch.len} :
                Respond(out, text, IF out = "ok" THEN "success" ELSE "abort")
    /\ rebootArmed' = (rebootArmed \/ out = "rebooting")
    /\ done' = [done EXCEPT ![batch.req] = Append(@, out)]
    /\ UNCHANGED <<webVars, toChild, childVars, toParent, parentIn, parentLow,
                   parentPc, running>>

(* UCI could not set or save: sprintf into r->resp.  Into the text of an   *)
(* earlier command it may overrun and go on; a null pointer is a SIGSEGV,  *)
(* whose handler kills the child and exits.                                *)
ExecUnsaved ==
    /\ Executing("unsaved")
    /\ done' = [done EXCEPT ![batch.req] = Append(@, "unsaved")]
    /\ \/ /\ batch.len > 0
          /\ Respond("unsaved", TextUnits["unsaved"], batch.status)
          /\ UNCHANGED running
       \/ /\ running' = FALSE
          /\ batch' = [batch EXCEPT !.cmds = Tail(@)]
    /\ UNCHANGED <<webVars, toChild, childVars, toParent, parentIn, parentLow,
                   parentPc, rebootArmed>>

(* Mutant of ListSucceeded: the child is told of errors too.               *)
BugListSucceeded == batch.status # "abort"

ListSucceeded == batch.status = "success"

(* After the for loop: respond and go on scanning, or leave the callback   *)
(* with no response at all.                                                *)
ParentRespond ==
    /\ running
    /\ parentPc = "exec"
    /\ batch.cmds = <<>>
    /\ ListSucceeded
    /\ toChild' = Append(toChild, [serial |-> batch.serial, req |-> batch.req,
                                   status |-> batch.status, code |-> batch.code,
                                   len |-> batch.len])
    /\ parentPc' = "scan"
    /\ batch' = NoBatch
    /\ UNCHANGED <<webVars, childVars, toParent, parentIn, parentLow, ranVars>>

ParentBreak ==
    /\ running
    /\ parentPc = "exec"
    /\ batch.cmds = <<>>
    /\ ~ListSucceeded
    /\ parentPc' = "wait"
    /\ batch' = NoBatch
    /\ UNCHANGED <<webVars, toChild, childVars, toParent, parentIn, parentLow, ranVars>>

-----------------------------------------------------------------------------
(* The child: ipc_child_readcb                                             *)

ChildScans ==
    /\ running
    /\ childPc = "scan"
    /\ toChild # <<>>
    /\ childIn >= HdrUnits
Response   == Head(toChild)

(* Mutant of Matches: responses are taken to come for the oldest request.  *)
BugMatches(i) == i \in DOMAIN reqList /\ i = 1

(* The request the response is for: the first with its serial.             *)
Matches(i) ==
    /\ i \in DOMAIN reqList
    /\ reqList[i].serial = Response.serial
    /\ \A j \in 1 .. i - 1 : reqList[j].serial # Response.serial

(* Mutant of TakeRequest: the request stays in the list.                   *)
BugTakeRequest(i) == i \in DOMAIN reqList /\ UNCHANGED reqList

(* TAILQ_REMOVE and free come before anything else is known of the         *)
(* response.                                                               *)
TakeRequest(i) == reqList' = RemoveAt(reqList, i)

Reply(r, code) == replies' = [replies EXCEPT ![r] = Append(@, code)]

ChildIdle ==
    /\ running
    /\ childPc = "scan"
    /\ childIn < HdrUnits
    /\ childPc' = "wait"
    /\ UNCHANGED <<webVars, toChild, childIn, childLow, toParent, parentVars, ranVars>>

(* No request has the serial.  Draining a response of which a part has yet *)
(* to come leaves that part to be taken for a header: framing is lost.     *)
ChildUnmatched ==
    /\ ChildScans
    /\ \A i \in DOMAIN reqList : ~Matches(i)
    /\ IF childIn >= RespUnits(Response)
         THEN childIn' = childIn - RespUnits(Response) /\ childPc' = "wait"
         ELSE childIn' = 0 /\ childPc' = "lost"
    /\ toChild' = Tail(toChild)
    /\ UNCHANGED <<webVars, childLow, toParent, parentVars, ranVars>>

ChildAborted(i) ==
    /\ ChildScans
    /\ Matches(i)
    /\ Response.status = "abort"
    /\ TakeRequest(i)
    /\ Reply(reqList[i].req, TryAgain)
    /\ toChild' = Tail(toChild)
    /\ childIn' = childIn - HdrUnits
    /\ childPc' = "wait"
    /\ UNCHANGED <<posted, ipcSerial, resetReq, childLow, toParent, parentVars, ranVars>>

(* Only a part of the response has come: wait for the rest, the request    *)
(* already gone from the list.                                             *)
ChildPartial(i) ==
    /\ ChildScans
    /\ Matches(i)
    /\ Response.status # "abort"
    /\ childIn < RespUnits(Response)
    /\ TakeRequest(i)
    /\ ChildWaitsFor(RespUnits(Response))
    /\ childPc' = "wait"
    /\ UNCHANGED <<posted, replies, ipcSerial, resetReq, toChild, childIn, toParent,
                   parentVars, ranVars>>

ChildReply(i) ==
    /\ ChildScans
    /\ Matches(i)
    /\ Response.status # "abort"
    /\ childIn >= RespUnits(Response)
    /\ TakeRequest(i)
    /\ ChildWaitsFor(HdrUnits)
    /\ Reply(reqList[i].req, Response.code)
    /\ resetReq' = (resetReq \/ Response.status = "success")
    /\ childIn' = childIn - RespUnits(Response)
    /\ toChild' = Tail(toChild)
    /\ UNCHANGED <<posted, ipcSerial, childPc, toParent, parentVars, ranVars>>

-----------------------------------------------------------------------------
(* How the processes end.  Neither looks at the end of the stream of the   *)
(* other, nor waits for it.                                                *)

(* ipc_reboot; the timer runs between two callbacks.                       *)
Reboot ==
    /\ running
    /\ rebootArmed
    /\ parentPc = "wait"
    /\ running' = FALSE
    /\ UNCHANGED <<webVars, toChild, childVars, toParent, parentVars, rebootArmed, done>>

(* The parent dies in a command: of the null pointer that stands for one   *)
(* ipc_cmd_recover found no memory for, whose signal handler kills the     *)
(* child as well; or alone, where config_do_file and uci_simple_set exit.  *)
ParentDies ==
    /\ Crashes
    /\ running
    /\ parentPc = "exec"
    /\ batch.cmds # <<>>
    /\ \/ running' = FALSE /\ UNCHANGED parentPc
       \/ Head(batch.cmds) # "reset" /\ parentPc' = "dead" /\ UNCHANGED running
    /\ UNCHANGED <<webVars, toChild, childVars, toParent, parentIn, parentLow, batch,
                   rebootArmed, done>>

(* The child dies: of an allocation of a command or a response it does not *)
(* check, or where config_refresh exits.                                   *)
ChildDies ==
    /\ Crashes
    /\ running
    /\ childPc \in {"wait", "scan"}
    /\ childPc' = "dead"
    /\ UNCHANGED <<webVars, toChild, childIn, childLow, toParent, parentVars, ranVars>>

(* Writing to the dead kills: nothing handles SIGPIPE.                     *)
ParentBrokenPipe ==
    /\ running
    /\ childPc = "dead"
    /\ parentPc = "wait" /\ toChild # <<>>
    /\ parentPc' = "dead"
    /\ UNCHANGED <<webVars, toChild, childVars, toParent, parentIn, parentLow, batch,
                   ranVars>>

ChildBrokenPipe ==
    /\ running
    /\ parentPc = "dead"
    /\ childPc = "wait" /\ toParent # <<>>
    /\ childPc' = "dead"
    /\ UNCHANGED <<webVars, toChild, childIn, childLow, toParent, parentVars, ranVars>>

-----------------------------------------------------------------------------
Client ==
    \/ HttpBacklog \/ HttpBadForm \/ HttpNoMemory
    \/ \E cmds \in Batches : HttpPost(cmds)

Parent ==
    \/ \E n \in 1 .. MaxRead : ParentRead(n)
    \/ ParentIdle \/ ParentIncomplete \/ ParentTake \/ ParentNoMemory
    \/ \E out \in Outcomes : ExecCommand(out)
    \/ ExecUnsaved \/ ParentRespond \/ ParentBreak

Child ==
    \/ \E n \in 1 .. MaxRead : ChildRead(n)
    \/ ChildIdle \/ ChildUnmatched
    \/ \E i \in DOMAIN reqList : ChildAborted(i)
    \/ \E i \in DOMAIN reqList : ChildPartial(i)
    \/ \E i \in DOMAIN reqList : ChildReply(i)

Stop == Reboot \/ ParentDies \/ ChildDies \/ ParentBrokenPipe \/ ChildBrokenPipe

Next == Client \/ Parent \/ Child \/ Stop

Spec == Init /\ [][Next]_vars

(* Both event loops keep reading and running their callbacks.  Nothing is  *)
(* assumed of the clients, of the restart timer or of crashes.             *)
FairSpec == Spec /\ WF_vars(Parent) /\ WF_vars(Child)

-----------------------------------------------------------------------------
(* Properties                                                              *)

Serials   == 0 .. SerialMod - 1
Entries   == [serial : Serials, req : Req]
Lists     == [serial : Serials, req : Req, cmds : Seq(Commands)]
Aborts    == [serial : Serials, req : Req, status : {"abort"},
              code : {0}, len : {0}]
Successes == [serial : Serials, req : Req, status : {"success"},
              code : Codes, len : 0 .. 2]
Responses == Aborts \cup Successes

WebType ==
    /\ posted \in 0 .. MaxPosts
    /\ replies \in [Req -> Seq(Codes)]
    /\ reqList \in Seq(Entries)
    /\ ipcSerial \in Serials
    /\ resetReq \in BOOLEAN

ChildEndType ==
    /\ toChild \in Seq(Responses)
    /\ childIn \in Nat /\ childLow \in Nat
    /\ childPc \in {"wait", "scan", "lost", "dead"}

ParentEndType ==
    /\ toParent \in Seq(Lists)
    /\ parentIn \in Nat /\ parentLow \in Nat
    /\ parentPc \in {"wait", "scan", "exec", "lost", "dead"}

BatchType ==
    /\ batch \in [req : 0 .. MaxPosts, serial : Serials, cmds : Seq(Commands),
                  status : Statuses, code : Codes \cup {0}, len : 0 .. 2]
    /\ parentPc = "exec" => batch.req \in Req
    /\ batch.status = "success" => batch.code \in Codes

RanType ==
    /\ rebootArmed \in BOOLEAN /\ running \in BOOLEAN
    /\ done \in [Req -> Seq(Outcomes)]

(* Every variable holds values of its type.                                *)
TypeOK == WebType /\ ChildEndType /\ ParentEndType /\ BatchType /\ RanType

(* No form is answered twice.  evhttp frees a request with its answer, so  *)
(* a second answer, from a list that ran after it was given up or from a   *)
(* request left in the list, would use freed memory (ipc.c, http.c).       *)
ReplyOnce == \A r \in Req : Len(replies[r]) <= 1

(* The child never holds more than HTTP_MAX_PENDING_REQUESTS + 1 open      *)
(* requests, although http_req_list_length does not count them but         *)
(* subtracts serials, of which some were skipped and some answered.        *)
PendingBounded == Len(reqList) <= MaxPending + 1

InFlight(r) ==
    \/ \E i \in DOMAIN toParent : toParent[i].req = r
    \/ parentPc = "exec" /\ batch.req = r
    \/ \E i \in DOMAIN toChild : toChild[i].req = r

(* A form that ran and for which ipc_parent_readcb owes no response.       *)
LeftWithError(r) ==
    /\ done[r] # <<>>
    /\ IF OutOfMemory THEN Last(done[r]) # "ok"
       ELSE \A k \in DOMAIN done[r] : ~Succeeds(done[r][k])

Succeeded(r) == \E k \in DOMAIN done[r] : Succeeds(done[r][k])

(* The two ends of a form: in req_list_head, and not run to its end.       *)
Open(r)  == \E i \in DOMAIN reqList : reqList[i].req = r
Waits(r) == batch.req = r \/ \E i \in DOMAIN toParent : toParent[i].req = r

(* The child waits for the rest of the response at the head, no less.      *)
HeadAwaited ==
    childLow = RespUnits(Response) /\ (childPc = "scan" => childIn >= childLow)

(* The ways in which a posted form is without an answer, and no others.    *)
(* Its request is open, and its list or its response is under way or its   *)
(* commands ended in an error that the parent does not answer              *)
(* (ipc-privileged.c:201).  Or its request was taken off the list and      *)
(* forgotten when the first part of its response came (ipc.c:183): then it *)
(* has run, with a success to tell of, and the rest of the response is     *)
(* waited for, or has come and found no request.                           *)
UnansweredHasCause ==
    \A r \in 1 .. posted : replies[r] = <<>> =>
        IF Open(r)
          THEN running /\ parentPc # "dead" => InFlight(r) \/ LeftWithError(r)
          ELSE /\ Succeeded(r) /\ ~Waits(r)
               /\ \A i \in DOMAIN toChild :
                     toChild[i].req = r /\ toChild[i].status = "success"
                         => i = 1 /\ HeadAwaited

(* The child loses the framing of the response stream only if a form that  *)
(* it was told to refuse, for want of memory, was run all the same.        *)
FramingLostOnlyByAbort ==
    childPc = "lost" => \E r \in Req : replies[r] = <<TryAgain>> /\ done[r] # <<>>

(* A form the child was told to refuse, and one that ended in an error     *)
(* after which nothing has run yet.                                        *)
GivenUp(r) ==
    \/ replies[r] = <<TryAgain>>
    \/ \E i \in DOMAIN toChild : toChild[i].req = r /\ toChild[i].status = "abort"
EndedInError(r) ==
    LeftWithError(r) /\ \A s \in r + 1 .. MaxPosts : done[s] = <<>>

(* Outside its callback the parent waits for exactly the list at the head  *)
(* of its stream, or for a header.  In that case it sleeps through a       *)
(* complete list only after one of the two early returns of its callback:  *)
(* that very list was given up for want of memory (ipc-privileged.c:96),   *)
(* or the last form that ran ended in an error (ipc-privileged.c:201).     *)
(* However the stream is cut, the watermark is never a reason for it.      *)
ParentHears ==
    parentPc = "wait" =>
        IF parentLow # HdrUnits
          THEN /\ toParent # <<>>
               /\ parentLow = ListUnits(Head(toParent))
               /\ parentIn < parentLow
          ELSE toParent # <<>> /\ parentIn >= ListUnits(Head(toParent)) =>
                  \/ GivenUp(Head(toParent).req)
                  \/ \E r \in Req : EndedInError(r)

(* server.json tells that a restart is needed only if some command has     *)
(* taken effect in the parent (http_set_reset_req).                        *)
ResetReqIsTrue ==
    resetReq => \E r \in Req : Succeeded(r)

(* The two processes and their sockets implement the service: forms run in *)
(* the order posted, each command once, and an answer is the outcome of    *)
(* the last command of a form that ran, or "try again".                    *)
InBatch == IF batch.req # 0 THEN <<[req |-> batch.req, left |-> batch.cmds]>>
           ELSE <<>>
QueueMap ==
    InBatch \o [i \in DOMAIN toParent |-> [req  |-> toParent[i].req,
                                          left |-> toParent[i].cmds]]
Service == INSTANCE AdminService
             WITH queue <- QueueMap, results <- done, answers <- replies
ImplementsService == Service!Spec

Accepted(r) == r <= posted
Answered(r) == replies[r] # <<>>

(* Every posted form is answered, unless the parent dies or restarts the   *)
(* machine.  ipc.c:207 promises it of a response that comes in parts: the  *)
(* callback runs "again when there's sufficient data".                     *)
EveryFormAnswered == \A r \in Req : Accepted(r) ~> (Answered(r) \/ ~running)

FirstError(r, k) ==
    /\ k \in DOMAIN done[r]
    /\ ~Succeeds(done[r][k])
    /\ \A j \in 1 .. k - 1 : Succeeds(done[r][j])

(* ipc-privileged.c:202: "Stop processing on error so the first error      *)
(* makes it back".                                                         *)
FirstErrorMakesItBack ==
    \A r \in Req :
        (\E k \in DOMAIN done[r] : FirstError(r, k))
            ~> \/ \E k \in DOMAIN done[r] :
                    FirstError(r, k) /\ replies[r] = <<CodeOf[done[r][k]]>>
               \/ ~running
=============================================================================
