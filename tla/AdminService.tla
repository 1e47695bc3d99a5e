---------------------------- MODULE AdminService ----------------------------
(***************************************************************************)
(* What the web interface promises about a posted form, whatever processes *)
(* and sockets carry it: forms run one at a time in the order they were    *)
(* posted, each command of a form at most once and in its order; a form    *)
(* gets at most one answer; and an answer is either the outcome of the     *)
(* last command of a form that has run to its end, or "try again".         *)
(*                                                                         *)
(* It does not promise that "try again" means nothing was changed: the     *)
(* parent may run a list it has already given up on.  WebIpc implements    *)
(* this specification.                                                     *)
(***************************************************************************)
EXTENDS IpcProtocol

CONSTANTS
    MaxPosts,   \* how many forms are posted
    Batches     \* the command sequences a form can hold

VARIABLES
    posted,     \* forms posted so far
    queue,      \* accepted forms that have not run to their end
    results,    \* per form, the outcomes of its commands so far
    answers     \* per form, the HTTP codes sent for it

vars == <<posted, queue, results, answers>>

Req == 1 .. MaxPosts

Init ==
    /\ posted  = 0
    /\ queue   = <<>>
    /\ results = [r \in Req |-> <<>>]
    /\ answers = [r \in Req |-> <<>>]

Queued(r) == \E i \in DOMAIN queue : queue[i].req = r

Accept(cmds) ==
    /\ posted < MaxPosts
    /\ posted' = posted + 1
    /\ queue' = Append(queue, [req |-> posted', left |-> cmds])
    /\ UNCHANGED <<results, answers>>

Reject(code) ==
    /\ posted < MaxPosts
    /\ posted' = posted + 1
    /\ answers' = [answers EXCEPT ![posted'] = <<code>>]
    /\ UNCHANGED <<queue, results>>

(* The form at the head runs its next command.                             *)
Execute(out) ==
    /\ queue # <<>>
    /\ Head(queue).left # <<>>
    /\ out \in OutcomesOf[Head(Head(queue).left)]
    /\ results' = [results EXCEPT ![Head(queue).req] = Append(@, out)]
    /\ queue' = [queue EXCEPT ![1].left = Tail(@)]
    /\ UNCHANGED <<posted, answers>>

Complete ==
    /\ queue # <<>>
    /\ Head(queue).left = <<>>
    /\ queue' = Tail(queue)
    /\ UNCHANGED <<posted, results, answers>>

Answer(r) ==
    /\ r <= posted
    /\ answers[r] = <<>>
    /\ ~Queued(r)
    /\ results[r] # <<>>
    /\ answers' = [answers EXCEPT ![r] = <<CodeOf[Last(results[r])]>>]
    /\ UNCHANGED <<posted, queue, results>>

Apologise(r) ==
    /\ r <= posted
    /\ answers[r] = <<>>
    /\ answers' = [answers EXCEPT ![r] = <<TryAgain>>]
    /\ UNCHANGED <<posted, queue, results>>

Next ==
    \/ \E cmds \in Batches : Accept(cmds)
    \/ \E code \in FormErrors \cup {TryAgain} : Reject(code)
    \/ \E out \in Outcomes : Execute(out)
    \/ Complete
    \/ \E r \in Req : Answer(r) \/ Apologise(r)

Spec == Init /\ [][Next]_vars
=============================================================================
