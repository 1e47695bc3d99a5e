------------------------------ MODULE UdpLink ------------------------------
(***************************************************************************)
(* The connected UDP socket to the server (udp.c): a bufferevent that is   *)
(* made anew by udp_init, at the start of the child and whenever the retry *)
(* timer fires, and what is queued in it.  All of it happens in the        *)
(* child's event loop, one callback at a time.                             *)
(*                                                                         *)
(* libevent is modelled from how udp.c uses it: an error while reading     *)
(* stops reading, what is in the output buffer when the socket can be      *)
(* written leaves as one datagram, and freeing a bufferevent drops what it *)
(* holds.  Touching a freed bufferevent ends the model (misused).          *)
(***************************************************************************)
EXTENDS Integers, SequencesExt

CONSTANTS Packets   \* what report_send sends

VARIABLES
    started,    \* do_child has called udp_init
    bev,        \* what udp_bev leads to: "null", "open", "error" or "freed"
    reading,    \* EV_READ is enabled
    out,        \* the packets in the output buffer
    retry,      \* retry_timer is pending
    troubles,   \* history: what went wrong in the last udp_init
    sent,       \* history: the datagrams sent, each a sequence of packets
    misused     \* a freed bufferevent was written to or freed again

linkVars == <<started, bev, reading, out, retry, troubles, sent, misused>>

Troubles == {"unresolved", "nosocket", "refused"}

LinkInit ==
    /\ started = FALSE /\ bev = "null" /\ reading = FALSE /\ out = <<>>
    /\ retry = FALSE /\ troubles = {} /\ sent = <<>> /\ misused = FALSE

Serving == started /\ ~misused

-----------------------------------------------------------------------------
(* udp_init                                                                *)

(* bufferevent_free leaves the pointer as it is.                           *)
Dangling == IF bev = "null" THEN "null" ELSE "freed"

(* Mutant of RetryAfter: no retry if connect fails (udp.c:151).            *)
BugRetryAfter(what) == "unresolved" \in what

(* udp_retry_later is called for an unresolved name and for every address  *)
(* that refuses, also when the next one accepts; not for want of a socket. *)
RetryAfter(what) == what \cap {"unresolved", "refused"} # {}

(* Mutant of NewOutput: the packets not yet sent are kept for the next one. *)
BugNewOutput == out

(* A new bufferevent holds nothing; one that is freed drops what it holds. *)
NewOutput == <<>>

(* The addresses of the name are tried in turn, up to the first that       *)
(* accepts.                                                                *)
Attempt(what, connected) ==
    /\ bev' = IF connected THEN "open" ELSE Dangling
    /\ reading' = connected
    /\ out' = NewOutput
    /\ retry' = RetryAfter(what)
    /\ troubles' = what
    /\ started' = TRUE
    /\ UNCHANGED <<sent, misused>>

UdpInit ==
    \/ bev # "freed" /\ Attempt({"unresolved"}, FALSE)
    \/ /\ bev # "freed"
       /\ \E what \in SUBSET {"nosocket", "refused"}, connected \in BOOLEAN :
             /\ connected \/ what # {}
             /\ Attempt(what, connected)
    \/ /\ bev = "freed"
       /\ misused' = TRUE
       /\ UNCHANGED <<started, bev, reading, out, retry, troubles, sent>>

UdpStart   == ~started /\ UdpInit
RetryFires == Serving /\ retry /\ UdpInit

-----------------------------------------------------------------------------
(* report_send                                                             *)

ReportSend(p) ==
    /\ out' = IF bev \in {"open", "error"} THEN Append(out, p) ELSE out
    /\ misused' = (bev = "freed")
    /\ UNCHANGED <<started, bev, reading, retry, troubles, sent>>

-----------------------------------------------------------------------------
(* What libevent does with the socket, and udp_eventcb                     *)

(* Mutant of AfterWrite: what was written stays in the buffer.             *)
BugAfterWrite == Tail(out)

AfterWrite == <<>>

Write ==
    /\ Serving
    /\ bev = "open" /\ out # <<>>
    /\ sent' = Append(sent, out)
    /\ out' = AfterWrite
    /\ UNCHANGED <<started, bev, reading, retry, troubles, misused>>

(* Mutant of LinkError: no retry.                                          *)
BugLinkError == bev' = "error" /\ UNCHANGED retry

(* BEV_EVENT_ERROR: writing is disabled; a timer that is pending is left.  *)
LinkError ==
    /\ bev' = "error"
    /\ retry' = TRUE

WriteError ==
    /\ Serving
    /\ bev = "open" /\ out # <<>>
    /\ LinkError
    /\ UNCHANGED <<started, reading, out, troubles, sent, misused>>

ReadError ==
    /\ Serving
    /\ bev \in {"open", "error"} /\ reading
    /\ reading' = FALSE
    /\ LinkError
    /\ UNCHANGED <<started, out, troubles, sent, misused>>

(* BEV_EVENT_EOF: an empty datagram; it is only logged.                    *)
ReadEof ==
    /\ Serving
    /\ bev \in {"open", "error"} /\ reading
    /\ reading' = FALSE
    /\ UNCHANGED <<started, bev, out, retry, troubles, sent, misused>>

LinkNext ==
    \/ UdpStart \/ RetryFires
    \/ Write \/ WriteError \/ ReadError \/ ReadEof

-----------------------------------------------------------------------------
(* Properties                                                              *)

(* Every variable holds values of its type; a bufferevent that does not    *)
(* exist holds no packets and reads nothing (udp_init, report_send).       *)
LinkTypeOK ==
    /\ started \in BOOLEAN /\ reading \in BOOLEAN /\ retry \in BOOLEAN
    /\ bev \in {"null", "open", "error", "freed"}
    /\ out \in Seq(Packets) /\ sent \in Seq(Seq(Packets))
    /\ troubles \subseteq Troubles /\ misused \in BOOLEAN
    /\ bev \in {"null", "freed"} => out = <<>> /\ ~reading

(* While there is no working link a retry is pending.  One case is         *)
(* excepted, in which there really is none: socket() failed for every      *)
(* address, and the loop ends with nothing done (udp.c:135).               *)
DownMeansRetry ==
    Serving /\ bev # "open" => retry \/ troubles = {"nosocket"}

(* udp.c:99 cleans up "any existing sockets / bufferevents", and report.c  *)
(* writes to what udp_get_bev returns: neither is to meet one that does    *)
(* not exist any more.                                                     *)
NoFreedBev == ~misused
=============================================================================
