# c3listener: specifications, checks and proofs

c3listener scans for Bluetooth beacons, estimates their distance and reports
them to a server over UDP. It runs as two processes: a privileged *parent* that
changes settings and restarts the machine, and an unprivileged *child* that does
everything else, a web interface included. This directory holds TLA+ models of
its control logic, TLC configurations that check them on small instances, and
TLAPS proofs for instances of every size.

    tlc -config web_ipc.cfg MCWebIpc.tla
    tlapm WebIpcProofs.tla

`PROJECT.json` lists the runs, what each definition models, the hazards and which
properties meet them.

## 1. Inventory

Paths are relative to the repository; the program is in `src/`.

| Component | State | Operations | Hard behaviour |
|---|---|---|---|
| IPC (`ipc.c`, `ipc-privileged.c`) | two byte streams, an input buffer and a low watermark at each end, the serial counter, the restart timer | `ipc_parent_readcb`, `ipc_child_readcb` | messages that arrive in pieces, callbacks that return early and are not called again, failed allocations between two writes, one command of several failing |
| Web server (`http.c`) | the list of open requests, the "restart needed" flag, the web root | `http_post_cb`, `http_main_cb`, `server_json`; the other GET handlers only read | requests stay open until another process answers; the length of the list is computed from serials; the web root is a pointer into the configuration |
| Settings (`config.c`, `uci.c`) | a libconfig tree in each process, the file they share, UCI | `config_set`, `config_local_write`, `config_refresh`, `uci_simple_set` | the parent writes the file in place while the child may read it, and without `fsync`; results of writes and of UCI's list calls are not looked at; the child keeps pointers into a tree it re-reads |
| Processes (`main.c`) | the two processes, the HCI socket | `main`, `do_parent`, `do_child`, `sigint_handler` | no process waits for the other or looks for the end of its stream; SIGPIPE is not handled |
| Beacon table (`hash.c`, `beacon.c`) | chains of doubly linked nodes | `hash_add`, `hash_find`, `hash_delete`, `hash_walk`, `*_find_or_add`, `beacon_expire` | nodes are deleted by a walker during the walk; freed addresses come back |
| Reports (`report.c`) | per-beacon counters, the report timer | `report_cb`, `report_secure`, `report_ibeacon` | counters are reset when reported, whether or not the packet leaves |
| Server link (`udp.c`) | the bufferevent, its socket, the retry timer | `udp_init`, `udp_eventcb`, `udp_readcb` | a freed bufferevent that is still pointed to; a retry that outlives the failure it was for |
| BLE scanner (`ble.c`) | the input buffer of the HCI socket | `ble_readcb`, `ble_get_report` | lengths held in 8 bits, events that arrive in pieces |
| Distance filter (`kalman.c`) | a Kalman filter per beacon | `kalman` | floating point |
| Logging, time (`log.c`, `time_util.c`) | none | | |

How they interact: the child's event loop runs the web server, the scanner, the
report timer and the server link, so their callbacks never interrupt each other.
The web server talks to the parent through the IPC; the parent calls the
settings store and answers. The scanner finds or adds beacons in the table,
filters, and sends secure reports at once through the link; the report timer
walks the table and sends the others. The web server also walks the table, and
re-reads the configuration file the parent writes.

What makes each correct:

* IPC and web server: a form is answered once, with what happened to it; no
  request is forgotten; the number of open requests is bounded; framing is kept.
* Settings: what was answered with success is kept, by the file and by UCI, through
  commands, failures and restarts; a refresh of the child gives it the present
  settings; the child's pointers lead into the tree it has.
* Table: a chain holds exactly the allocated beacons that hash to it; no link
  leads to freed memory; a walk reaches everything it does not say it may miss.
* Reports and link: every advertisement is counted in one report; nothing is
  written to a bufferevent that is gone; a broken link is opened again.
* Scanner: events are cut apart where they end, none is slept through, and what is
  counted for a beacon was said by it, once.

## 2. Modules

| Module | What it is |
|---|---|
| `IpcProtocol` | commands, outcomes, response codes and sizes (`ipc.h`, the response table of `ipc-privileged.c`) |
| `AdminService` | abstract: what the web interface promises of a posted form |
| `WebIpc` | the two processes, their streams and buffers; implements `AdminService` |
| `MCWebIpc` | instances of `WebIpc` |
| `WebIpcProofs` | theorems of `WebIpc`, one property each |
| `WebIpcServiceProofs` | where every form is, and that `WebIpc` implements `AdminService` |
| `WebIpcWaitProofs` | why a form has no answer, and what the parent sleeps through |
| `HashTable` | the beacon table with its links |
| `MCHashTable` | instances of `HashTable` |
| `HashTableProofs` | theorems of `HashTable` |
| `ConfigFile` | the configuration file between the two processes, UCI, and the web root |
| `MCConfigFile` | instances of `ConfigFile` |
| `ConfigFileProofs` | theorems of `ConfigFile` |
| `UdpLink` | the bufferevent to the server, its errors and its retry timer |
| `Reporting` | the packets the child builds, sent over the `UdpLink` it extends |
| `MCReporting` | instances of `Reporting` |
| `ReportingProofs` | theorems of `UdpLink` and `Reporting` |
| `BleScanner` | HCI events, from the bytes in the input buffer to counted reports |
| `MCBleScanner` | instances of `BleScanner`: the streams of events |
| `BleScannerProofs` | theorems of `BleScanner` about cutting the stream into events |
| `BleReportProofs` | theorems of `BleScanner` about what is counted |

### WebIpc

*State.* `reqList` is `req_list_head`, `ipcSerial` the counter of
`ipc_get_serial`, `resetReq` the flag `http_reset_req_p`. `toParent` and
`toChild` are the messages sent and not yet consumed, `parentIn` and `childIn`
how many *units* of them have been read into the input buffers, `parentLow` and
`childLow` the low watermarks. A unit is a header, a command or a short text;
the readers never look at less than a header, so a read that ends inside a unit
is to them one that ends before it. `parentPc` and `childPc` say where each
process is: waiting in its event loop, scanning its input in the callback,
executing a list, or gone. `batch` is the list in execution with the response
being built (`ipc_resp_buf`). `posted`, `replies` and `done` are history: the
forms, the codes sent for each and the outcomes of its commands.

*Actions.* `HttpPost`, `HttpBacklog`, `HttpBadForm` and `HttpNoMemory` are the
ways through `http_post_cb`. `ParentRead` and `ChildRead` are libevent's reads: the
callback runs once after a read that leaves at least the watermark, and not
again for what an early return leaves behind. `ParentIdle`, `ParentIncomplete`,
`ParentTake`, `ParentNoMemory`, `ExecCommand`, `ExecUnsaved`, `ParentRespond` and
`ParentBreak` are the exits and turns of `ipc_parent_readcb`; `ChildIdle`,
`ChildUnmatched`, `ChildAborted`, `ChildPartial` and `ChildReply` those of
`ipc_child_readcb`. A callback that handles several messages is split at the
messages, which is finer than the code where the other process is concerned: it
really does run in between. `Reboot`, `ParentDies`, `ChildDies`, `ParentBrokenPipe`
and `ChildBrokenPipe` end the processes; nothing restarts them.

*Not in it.* Once an abort has made a process lose its framing (`"lost"`) it
would take payload for headers; nothing is modelled of it after that. The
`sprintf` of `ExecUnsaved` into too short a text is followed by going on or by
the death of the parent, not by other effects of the overrun. What a setting is
set to, and the wording of responses, are left out. Commands the child cannot
send (`IPC_CMD_GET`, unknown ones) are left out.

### HashTable

`next`, `prev` and `id` are the fields of the nodes, `hashtable` the roots, `live`
what is allocated, `walk` and `v` the position of `hash_walk`, `call`, `goal`, `at`
and `last` who searches a chain, for what, and how far it has come (`v` and
`v_last` of `hash_add`, `v` of `hash_find`). `FindOrAdd` starts the search of
`ibeacon_find_or_add` and `sbeacon_find_or_add`, `Collision` is one turn of its
loop, `FindOld` and `AddNew` its ends; `WalkStart`, `WalkNextChain` and `WalkKeep`
are `hash_walk` with one walker; `WalkExpire` is the walker that calls
`hash_delete`, whose search ends in `Delete`. A chain is not a sequence kept on the
side: it is what the links lead to (`Reached`). Addresses are reused after they
are freed. A deletion through a stale backward link writes to memory that is no
longer the node: `DeleteStale` marks the table as spoilt and no step follows.
Nothing runs between the steps of a search, which are steps so that each pointer
it follows is checked.

The module is about the table as `hash.h` offers it. At this commit `report_cb`
gives `hash_walk` no walker (`report.c:48,59`), so in the running program only
`beacon_json` walks, `beacon_expire` is never reached and nothing is deleted; the
deletions here are those of the walk `report_cb` sets up.

### ConfigFile

`disk` is the file, `tree` and `child` the `cfg` of each process, all of them
functions from keys to a type and a class of value: a number in range (`good`),
no number (`word`), one too big for an `int` but not for a `long` of 64 bits or a
`double` (`big`), one out of every range (`huge`), or the zero of a setting that
was just added. `ConfSet` and `ConfRefused` are `config_set` by how it ends, for
the keys `http_valid_cmd` lets pass. `Converted` and `Refused` follow
`config.c:192-232`: `strtol` gives a `long`, `errno` says whether the number was
one, and what is stored is that `long` cut to an `int`. With `LongIs64` a `big`
number is therefore accepted and another one (`cut`) is stored; with 32 bits it is
refused. Whether a text without digits is an error depends on the C library
(`MayBeRefused`). The order of commands within lists makes no difference to the
file and is left out.

What succeeds is followed by `config_local_write`: `OpenFile` empties the file and
`CloseFile` fills it, or `WriteFails` at either step, which the code does not
notice. `ServerJson` is the child's `config_refresh`, between any two of these
steps. `Faults` says which of failed writes and power cuts a run has.

What is written is not yet on the medium: nobody calls `fsync`. `kept` is the set
of files a power cut may leave: what the file was at the last write-back, and
everything it has been since. `WriteBack` is the system's, at any moment;
`PowerCut` leaves a member of `kept`. `Restart` is `ipc_reboot`, which runs from
the parent's loop after a restart command, and calls `sync` first (`Synced`).
`Boot` is `config_start`. A write takes one piece, because the settings are shorter
than a stdio buffer; an empty file is valid to libconfig, so `config_do_file` has no
error to exit for.

`uci` and `saved` are the two places of UCI, committed and saved. `UciSet`,
`UciRefused` and `UciCommitFails` are `uci_simple_set` by how it ends. An option has
one content; a list is a set of entries, deleted and filled one by one, and
because the results of `uci_delete` and `uci_add_list` are ignored
(`uci.c:107-114`) it may end with or without its old entries and with any part of
the new (`StoredAs`), and still be answered Ok. UCI itself is known from this use
only: a failed commit may leave what was saved or forget it, and so may a
restart. The options are of one package: a commit of one takes the saved content
of all. `pending` remembers for which contents a commit of an option has failed.

`docroot` is the `docroot` that `http_main_cb` gets: `do_child` computes it once,
from the command line, from a string in the child's tree, or from what was
compiled in, and a directory that is not there is passed over (`Webroots`, in
which all but the string are `fixed`). `ServerJson` frees the tree, and with it a
root that was a string of it.

### UdpLink and Reporting

`bev` is what the pointer `udp_bev` leads to: nothing, an open bufferevent, one
whose writing was disabled after an error, or freed memory. `out` is its output
buffer, `retry` says that `retry_timer` is pending. `UdpInit` is `udp_init` as
`do_child` calls it (`UdpStart`) and as the timer does (`RetryFires`): one step,
because nothing runs in between in a single event loop; what goes wrong in it
(`troubles`) is chosen: the name is not resolved, or any of its addresses has no
socket or refuses, up to the first that accepts. `Write`, `WriteError`, `ReadError`
and `ReadEof` are what libevent does with the socket and `udp_eventcb` with the
errors. Of libevent three things are assumed: an error while reading disables
reading, a socket that can be written takes the whole output buffer as one
datagram (so packets queued together leave together), and freeing drops the
buffers. The first use of a freed bufferevent sets `misused` and ends the model.

`Reporting` adds what is sent: `HearSecure` is `report_secure`, `ReportCb` the
periodic `report_cb`, `HearIBeacon` the counting of an advertisement in
`ble_readcb`. `ReportCb` walks with `WalkSize` walkers, which at this commit is
none, so `Sections` is empty, the packet a keepalive, and `heard` is never cleared.
The numbers inside a section
are left out, and so is `udp_readcb`, which notes the time of an acknowledgement
nobody asks for (`MAX_ACK_INTERVAL_SEC` and `udp_connected` are not used).

### BleScanner

A stream is a sequence of HCI events, each a list of reports with an address and
its type, data and a signal strength. What the bytes of an event are
(`WellFormed`) is the Bluetooth standard's: each field for all reports, then the
next; `places` says where the data of each report begins (`DataAt`), and
`StrengthAt` where its strength is. `MCBleScanner` makes its events by
concatenating the fields, and TLC checks with `ScannerAssumption` that what it
made is well-formed. No two bytes of an address or of an identity are the same
there, and the last byte of the data is the power and differs from all others.
`read` counts the bytes that have come into the input buffer, `at` is the event
at its head, `low` the watermark. `Read` is libevent's; `Idle`, `Wait`, `TakeEvent`
and `OutOfMemory` are the exits and turns of the outer loop of `ble_readcb`,
`ReportDropped`, `ReportSkipped`, `ReportCounted` and `ReportsEnd` of the inner.
`GetReport` is `ble_get_report`, which finds a report in the body with the same
arithmetic as the code: `Offset` adds up the lengths of the reports before it in 8
bits; `Counted` is the count and the running mean of the power.

`Said` is what the properties compare with: the identity and strength of a report
as it was sent, read from the report and not from the body, with a zero for each
byte that had not come.

The code compares the bytes it has with `param_len + 2`, where an event has
`param_len + 3`, and with that in 8 bits. So an event can be taken before its last
byte has come, and one of 254 or 255 parameters with hardly any: the model follows
what is done with it (the missing bytes are the zeroes of `calloc`), and stops
where the rest is taken for the next header (`"lost"`). A real HCI socket hands
over whole packets, so that this does not come to pass; the code is written for
pieces ("All the data hasn't arrived yet", `ble.c:172`) and is checked for them.
Events are well-formed and all of them advertising reports: the scanner does not
look at the kind of an event (`evt_code`, `sub_evt_code`), but filters at the socket
(`ble_init`). Left out are `ble_init`, the distance and its variance, and the sending
of secure reports, which is in `Reporting`.

The power is read as the code reads it (`ble.c:225,228`), one byte past the data of
its report. That contradicts `report.c:80`, by which the power is the last byte of
the data: what is averaged is the first byte of the next report's data or a
signal strength. `PowerIsAMean` is about the bytes that are read.

## 3. Runs

| Run | Specification and bounds | Result |
|---|---|---|
| `web_ipc` | 3 forms, limit 1, serials modulo 16; batches conf+uci and reset; every outcome but `failed`; reads of 1 to 3 units, responses cut anywhere; allocations fail, processes die | passes |
| `web_ipc_live` | 3 forms; lists cut anywhere, responses whole; commands succeed; fair event loops | passes |
| `web_ipc_error` | 2 forms of one command, no cuts; commands may fail; fair event loops | violated |
| `web_ipc_partial` | 2 forms, responses cut anywhere; commands succeed; fair event loops | violated |
| `hash` | 4 beacons, 3 of them in one chain; 4 addresses that are reused; table of 2 chains | passes |
| `hash_root` | as `hash` | violated |
| `config` | 4 keys, 2 first files (one with every setting, one of them with another type than is looked up; one with little in it); a `long` of 64 bits; an option of UCI with 2 contents and a list; 3 commands; failed writes, power cuts, write-backs, re-reads and restarts unbounded | passes |
| `config_refused` | the same keys, without a web root; 1 option; no faults | violated |
| `config_refresh` | the first file without a web root; 1 option; power cuts | violated |
| `reporting` | 1 iBeacon, 4 packets; everything that can fail does, in any order; fair timer and socket | passes |
| `reporting_freed` | 1 iBeacon, 2 packets | violated |
| `scanner` | every pair of 6 events, of 1 to 7 reports; reads that end 0, 1, 2, 5 or 20 bytes from either end of an event, which includes the headers' ends and the middle of some fields; counts modulo 3; 2 failed allocations; a fair event loop | passes |

*What `web_ipc` shows.* `ReplyOnce`: evhttp frees a request with its answer, so
a second answer would use freed memory; no order of aborts, late responses and
forgotten requests leads to one. `PendingBounded`: the list is bounded although
its length is not counted. `UnansweredHasCause`: a form without an answer is so for one
of three causes, two of them defects. Its request is open, and the form is under
way or ended in an error, which the parent does not answer. Or its request was
taken off the list when the first part of its response came (`ipc.c:183`); then it
has succeeded, and the rest of the response is awaited or was thrown away.
`FramingLostOnlyByAbort`: the response stream is misread only after a list was
run whose form had been refused for want of memory. `ResetReqIsTrue`: the flag
is only set when something has taken effect. `ImplementsService`: forms run one
at a time and in the order posted, every command once, and an answer is the
outcome of the last command of a form that ran, or "try again".

*What `web_ipc_live` shows.* `ParentHears`: at rest the parent waits for a header or
for exactly the list at the head of its stream, and has no complete list before
it. The property excepts a list left behind by an early return, after an error or
an abort; in this run commands succeed and memory suffices, so there is no such
return. The theorem `ParentListens` covers the exceptions. `EveryFormAnswered` holds
under the fairness below.

*What `config` shows.* `AcceptedIsKept`: the parent holds every accepted value, and
so does the file between commands, through refused commands, UCI, restarts and
power cuts that come after a write-back. It stops when the file is read after a
write that failed, or after a power cut that hit a write or took back what was not
written back; the one thing in the file nobody asked for is the zero of
`config_refused`. That a restart by the program needs no exception is due to the
`sync` in `ipc_reboot`: the mutant without it loses an accepted value.
`AddedIsReadable`: what `config_set` adds has the type its getter looks up.
`UciHoldsAnswered`: an option that is no list holds what it was last set to with
success, or a content of which a commit failed since then, which a later command
may commit. Of lists nothing of the kind holds. `TypeOK` tells which classes of
numbers a setting may hold: never the limit of `strtol`, but what the cut to an
`int` leaves.

*What `hash` shows.* `ChainsHoldLive`: what the links of a chain lead to is what
is allocated and hashes to it. `OneNodePerBeacon`, `BackLinks` and
`OnlyRootsAreStale` as their names say. `NeverOnFreed`: at every step of a walk or a
search the node it stands on is allocated, and the node a walk has found expired
is the one that is deleted. `WalkVisits`: a walk that is over has missed only nodes
of chains in which it deleted one.

*What `scanner` shows.* `LostOnlyByLength`: an event is taken too early by one byte,
or if its length wraps; by nothing else. `WakesInTime`: the scanner never waits for
more bytes than the event at the head has, and only a callback that ran out of
memory leaves one behind unread; `ArrivedIsTaken`: every event that has arrived is
taken, with that exception. `HeardWasSaid`: for up to seven reports in an event,
the indices of `ble_get_report` lead to the identity and signal strength of the
report they are for, byte for byte, the strength corrected and cut to 8 bits. It
also says what is counted when an event was taken too early, by one byte or in the
middle: the same, with a zero for each byte that had not come, which may be an
identity no beacon has. `EachCountedOnce`: every report of a beacon is counted once
and in order, or there was no memory for it. `PowerIsAMean`:
the running mean never leaves the bytes it was made of, also when the count wraps.

*What `reporting` shows.* `DownMeansRetry`: without a working link a retry is
pending, except after an attempt in which `socket()` failed for every address,
for which `udp_init` arms no timer (`udp.c:135`): from there only a restart helps.
`PacketsInOrder`: no packet leaves twice or before an older
one, over any number of reconnections. `NoPacketStuck`: a packet in the output
buffer leaves or is dropped with its bufferevent.

*What the violations show.* `web_ipc_error` (`ipc-privileged.c:202`): the parent
leaves its callback without a response when a list ends in an error, so the
first error does not make it back. `web_ipc_partial` (`ipc.c:207`): a response
that comes in parts finds its request already removed and is thrown away.
`hash_root` (`hash.c:24`): a new root keeps a backward link to the freed old one;
`OnlyRootsAreStale` in `hash` shows that nothing else leaves one. Deletions are
latent at this commit (section 2). `reporting_freed` (`udp.c:99`): the freed
bufferevent stays in `udp_bev` when no new one takes its place, and the next report
or retry uses it. `config_refused` (`ipc-privileged.c:185`): a value that "cannot be
coerced for persistence" leaves a zero in the tree, which the next UCI command
writes to the file. `config_refresh` (`config.c:121`): a refresh is to give the child
"current values"; one that comes between the opening and the closing of the file
gives it none, and the child goes on with the defaults.

*Why the bounds are enough.* Two forms make a response meet a list with another
open request, three make an aborted list run behind a later one and let serials
run ahead of the list by more than the limit. Two commands a form make an error
before a success and after one. A response of three units is cut at every
place. Serials do not wrap within three forms: what wrapping does is said in
section 5. Three beacons in one chain give a root, a middle and an end to
delete, and a fourth beacon alone in its chain shows that chains are separate; four
addresses allow one to come back while its old neighbours are there. Four packets
put two in the buffer of one bufferevent and two in that of the next, with any
errors between them; the number of attempts, errors and retries is not bounded.
Three commands are a refused one, one of UCI and another that re-reads what it
wrote, or a failed commit, another option, and the first again; a setting, a
restart and a setting again. Two contents tell the last of an option from one
before. Of the six events
two have 254 and 255 parameters, one has a report that is no beacon's before one
that is, one has both kinds; a second event is enough to be misread, slept through
or left behind, and three reports of one beacon make a count modulo 3 wrap. A cut 20 bytes from an
end lies within data, and one 20 from the beginning of an event of 254 parameters
leaves most of its reports to zeroes.

*Deadlock* is not checked: after the last form, and after a process died, the
system of `WebIpc` stops; a spoilt table has no successor, nor has a misused link,
nor a scanner at the end of its stream.

*Fairness.* `FairSpec` has weak fairness of the parent's steps and of the
child's steps other than posting: each is an event loop that polls its socket
and runs the callback it owes. Nothing is assumed of the clients, of the restart
timer or of crashes. `FairSpec` of `Reporting` has weak fairness of the retry timer
and of an attempt to send: once pending the timer stays so until it fires, and
libevent asks for a writable socket as long as there is output. Nothing is
assumed of the network, of the name server or of what is heard. `FairSpec` of
`BleScanner` has weak fairness of the callback, which runs to its end once called;
nothing is assumed of when bytes arrive.

## 4. What is proved

`WebIpcProofs` proves, for every number of forms, limit, set of batches, set of
outcomes and fragmentation, from the two assumptions `WebIpc` makes of its
constants:

* `TypeCorrect`: `Spec => []TypeOK`. One lemma per group of actions; the type of a
  response depends on the status of the batch, which `BatchType` carries.
* `RepliesOnce`: `Spec => []ReplyOnce`. `ReplyOnce` is not inductive, because a
  handler answers whatever request it finds. `ReplyInv` adds that the list is
  ordered by form, hence without duplicates, that no form in it has an answer,
  and that no form still to come has one.
* `OpenRequestsBounded`: `FewPosts => (Spec => []PendingBounded)`, where `FewPosts`
  is `2 * MaxPosts < SerialMod`. `SpreadInv` says that the serials of two entries
  are at least as far apart as the entries, so the computed length is never less
  than the real one.
* `RestartIsNeeded`: `Spec => []ResetReqIsTrue`, from `ResetInv`, which follows the
  success back from the flag to the response on its way and the batch it is put
  together in.

`WebIpcServiceProofs` proves, under `SerialsSuffice` (`MaxPosts < SerialMod`: fewer
forms than there are serials, which are 2^32), two theorems. A handler looks for
a request by its serial alone, so an invariant has to say that a serial names one
form wherever it is. `TagInv` says so of the list of open requests, both streams
and the batch together, `QueueInv` and `SentInv` that the streams keep the order of
the forms.

* `FramingKept`: `FramingLostOnlyByAbort`. A child that loses its framing has left a
  response that belongs to nobody. `OwedInv` says that every form that waits or has
  succeeded is still open or was refused, unless its response is the one the child
  raised its watermark for: so an unmatched one has a refused form behind it.
* `Implements`: `ImplementsService`, the initial state and every step. `DoneInv`
  says that a batch and a response tell what was done for their form. With it,
  executing a command is an `Execute` of `AdminService`, the end of a list a `Complete`,
  a response that finds its request an `Answer` with the outcome of the last command
  or, after an abort, an `Apologise`, and everything else the sockets and buffers do
  is a stutter.

`WebIpcWaitProofs` proves, under `SerialsSuffice` too, for every cut of both streams:

* `UnansweredExplained`: `UnansweredHasCause`. `OpenHasCause` is the half about open
  requests. For the other, `EffectInv` says that a response of success, on its way or
  being put together, has an effect of its own form behind it, and `DroppedInv` that a
  form without request and answer has succeeded; with `OwedInv` of
  `WebIpcServiceProofs` its response can only be the one the child raised its
  watermark for.
* `ParentListens`: `ParentHears`. `HearsInv` of `WebIpcProofs` says that the watermark
  is low while a list runs and stays right while the callback scans. `RunInv` says
  that forms run in order, so that the last error is known, and `SleepInv` that an
  early return is the only end of a callback which leaves a complete list.

`ConfigFileProofs` proves, for every set of keys, options, lists and first files,
any number of commands, both lengths of a `long` and every choice of faults:

* `TypeCorrect`: `TypeOK`, from what `Found`, `Stored` and `Converted` do to a tree.
* `AcceptedKept`: `AcceptedIsKept`, from `KeptInv`, which adds what the file is while a
  command is under way and while the machine is off.
* `AddedReadable`: `AddedIsReadable`. `ReadableInv` says the same of the file and of
  every file a power cut may bring back.
* `UciHolds`: `UciHoldsAnswered`. `UciInv` adds that only what is pending is saved.

The assumption on `Files` is that first values are in range.

`ReportingProofs` proves, for every set of beacons and number of packets,
`TypeCorrect`, `RetryWhenDown` and `OrderKept`, the second with one lemma for a whole
call of `udp_init`. `OrderKept` is `PacketsInOrder`, which speaks of the datagrams
sent and the one in the output buffer as one sequence; the invariant adds that
nothing in it is later than the last packet built.

`BleScannerProofs` proves, for every set of streams that meets `ScannerAssumption`
(events one after the other, lengths of 2 to 255), `TypeCorrect`,
`NeverSleepsThrough` and `FramingLostOnlyByLength`, from `ScannerInv`, which says
where `at`, `read` and `low` can be in each loop.

`BleReportProofs` proves, for the same streams, whose events are well-formed:

* `SaidIsHeard`: `HeardWasSaid`. It needs what a sum computed by recursion is.
  Induction over a predicate is not available, but induction over a set is: a set
  of numbers that has 0 and every successor has all, because the numbers outside it
  would have a least one (`SetInduction`, from `WFMin`). With it `OffsetIs` finds
  `Offset` to be `places`, as long as the lengths before a report have arrived and
  the event has at most 255 parameters. They have arrived when the report is
  counted, wherever the event was cut: what looks like a beacon has a length other
  than 0, the missing bytes are 0, and the lengths before it come earlier
  (`LengthHasCome`).
* `CountedOnce`: `EachCountedOnce`. `HeardInv` adds to it where the scanner is: every
  report counted is of an event before the present one, or of the part of the
  present one that the loop is through with, so that the next one counted is later.
* `PowerIsMean`: `PowerIsAMean`. Each division rounds towards 0, and still a mean of a
  mean between two bounds and a power between them is between them (`QuotientBetween`,
  `MeanBetween`).

`HashTableProofs` proves every property of the `hash` run, for every set of beacons,
every hash, every length of the table and every set of addresses: `TypeCorrect`,
`ChainsComplete`, `OneNode`, `LinksMirror`, `StandsOnLive`, `StaleAreRoots` and
`WalkIsComplete`. The invariant `HashInv` has three parts. `LinkInv` is about the
links: they stay in the chain and are mirrored, nothing links to a root, every
other node hangs off an allocated one, and there are no cycles. The last cannot be
said by a length or a path, for want of induction; `Grounded` says it with sets:
every set of nodes has one that is a root or hangs off a node outside the set.
From it follows `ClosedHasChain`: a set that has the root and, with a node, the next
one, has the whole chain. `SearchInv` says that such a set, closed but for the node
the search is at, is behind every search, so that one that ends has met them all;
`WalkInv` says the same of what a walk has visited.

## 5. Only model-checked, or not covered

* Liveness under fairness (`EveryFormAnswered`, `NoPacketStuck`, `ArrivedIsTaken`) is
  checked by TLC, for the instances of section 3 only: it is out of reach of the
  provers used here. Every invariant and action property of the passing runs, and
  the refinement `ImplementsService`, is proved; the refinement is of the safety of
  `AdminService`, which promises nothing about when a form is answered.
* The theorems of `WebIpcServiceProofs` and `WebIpcWaitProofs` say nothing of serials
  that come round to those of requests still open; nor do the runs.
* `PendingBounded` beyond half the serials is false in the arithmetic of
  `http_req_list_length` (two open requests 2^31 serials apart give a negative
  length); it takes 2^31 forms and is not a run. The same arithmetic refuses forms
  early: after an unanswered form, serials run ahead of the list.

### What the model has and no property forbids

These are ways in which the code departs from what it, or a document, says. They
are in the models, so that the properties above hold over them, but no run is made
of them:

* With a `long` of 64 bits a number too big for an `int` is stored as another one and
  answered Ok (`config.c:202`, against the message of `config.c:204`).
* The results of `uci_delete` and `uci_add_list` are ignored (`uci.c:107-114`): a list
  that was set in part is answered Ok.
* A value whose commit failed is answered as an error and may be committed by the
  next command of another option (`uci.c:134`).
* The result of `config_write_file` is ignored, and nothing but `ipc_reboot` has the
  file written to its medium (`config.c:236`): a value answered Ok can be gone after
  a failed write or a power cut.
* `config_refresh` frees a web root that is a string of the tree, which pages go on
  being looked up with (`main.c:135`). `RefreshIsCurrent` is refuted by this as well,
  with a file that has a web root.
* An address that refuses schedules a retry although the next one accepts; the
  retry then frees the working bufferevent (`udp.c:151`).
* `socket()` failing for every address leaves neither link nor retry (`udp.c:135`).
* The power is read one byte past the data (`ble.c:225`, against `report.c:80`).
* The periodic walk is given no walker (`report.c:48,59`), so nothing that was heard
  is reported, against `doc/packet-format.md:184`.
* `http.c:330` speaks of 100 waiting entries, where `HTTP_MAX_PENDING_REQUESTS` is
  1000; the models take the limit as a constant.

### Assumed of what is outside the code

* A write of the configuration takes one piece, and reading it back gives what was
  written. (A number like "nan", which `strtod` takes, is written as a text libconfig
  cannot read back; such values are left out.)
* What UCI has committed survives a power cut: how its files are written is not in
  this repository.

### Not modelled

* The Kalman filter and the distance formulas are floating point, and so is the
  age at which a beacon expires.
* `ble_init`, and what `do_child` does to drop its privileges, are sequences of
  system calls that end the process when one fails.
* The numbers in a report's sections and their widths: every periodic packet is
  without sections at this commit.
* Parsing of forms, of the command line and of JSON; logging.

## 6. Plan

1. *Done*: `WebIpc`, `AdminService`, `HashTable`, `ConfigFile`, `UdpLink`, `Reporting`
   and `BleScanner`, and the proofs of section 4.
2. The table and the reports together: a walk with a walker, whose sections are
   built from the counters while nodes are deleted, so that `HashTable` and
   `Reporting` meet as `report.c` means them to.
3. An abstract table (a set of beacons) that `HashTable` implements, from `HashInv`;
   an abstract settings store for `ConfigFile`.
