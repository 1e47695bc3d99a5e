---------------------------- MODULE IpcProtocol ----------------------------
(***************************************************************************)
(* What the unprivileged web process (the child) and the privileged        *)
(* process (the parent) of c3listener say to each other over their socket  *)
(* pair: lists of commands one way, responses the other (src/src/ipc.h,    *)
(* and the response codes of src/src/ipc-privileged.c).                    *)
(*                                                                         *)
(* Both directions are byte streams.  Lengths are counted in units: one    *)
(* for a dehydrated header, one for a command, one for a short text, two   *)
(* for a long one.  A read that ends inside a unit is the same, to both    *)
(* readers, as one that ends before it, because neither looks at less than *)
(* a whole header.                                                         *)
(***************************************************************************)
EXTENDS Integers, SequencesExt

HdrUnits == 1

(* A setting kept by libconfig, a setting kept by UCI, a restart.          *)
Commands == {"conf", "uci", "reset"}

(* How one command can end in the parent: done; restart scheduled; the key *)
(* or the value was refused; the store failed; UCI could not set or save.  *)
Outcomes == {"ok", "rebooting", "rejected", "failed", "unsaved"}

OutcomesOf ==
  [conf  |-> {"ok", "rejected", "failed"},
   uci   |-> {"ok", "rejected", "failed", "unsaved"},
   reset |-> {"rebooting"}]

CodeOf ==
  [ok |-> 200, rebooting |-> 200, rejected |-> 400, failed |-> 503, unsaved |-> 503]

TextUnits ==
  [ok |-> 1, rebooting |-> 2, rejected |-> 2, failed |-> 2, unsaved |-> 2]

Succeeds(out) == out \in {"ok", "rebooting"}

Statuses == {"abort", "error", "success"}

(* HTTP codes: those of the parent's responses, and the child's own 400    *)
(* (malformed form), 413 (form too long), 500 (form that could not be      *)
(* read) and 429 (try again later).                                        *)
FormErrors == {400, 413, 500}
TryAgain   == 429
Codes      == {200, 400, 413, 429, 500, 503}

ListUnits(list) == HdrUnits + Len(list.cmds)
RespUnits(resp) == HdrUnits + resp.len

UnreadLists(s) == FoldSeq(LAMBDA m, n : ListUnits(m) + n, 0, s)
UnreadResps(s) == FoldSeq(LAMBDA m, n : RespUnits(m) + n, 0, s)
=============================================================================
