----------------------------- MODULE HashTable -----------------------------
(***************************************************************************)
(* The table of beacons (hash.c, with the callbacks of beacon.c): an array *)
(* of doubly linked chains of nodes that find_or_add allocates and         *)
(* beacon_expire deletes while hash_walk is at them.                       *)
(*                                                                         *)
(* Nodes are addresses, which malloc hands out again once they are freed.  *)
(* Deleting a node through a backward link that is stale writes memory     *)
(* that was freed, or that is another node by now: the table is spoilt and *)
(* nothing is modelled after it.  A search reads allocated nodes only      *)
(* (NeverOnFreed), so there is no step that reads a freed one.             *)
(***************************************************************************)
EXTENDS Naturals, FiniteSets

CONSTANTS
    Ids,            \* identities of beacons: what beacon_eq compares
    BeaconIndex,    \* beacon_index, a number for each of them
    TableLength,    \* HASH_TABLE_LENGTH
    Nodes,          \* bound: the addresses malloc returns
    Null            \* NULL; also the beacon of a node that is not allocated

ASSUME TableAssumption ==
    /\ TableLength \in Nat \ {0}
    /\ BeaconIndex \in [Ids -> Nat]
    /\ Null \notin Nodes \cup Ids

VARIABLES
    hashtable,  \* the first node of each chain
    next, prev, \* the links of each node
    id,         \* the beacon of each node
    live,       \* allocated nodes that find_or_add has put in the table
    call,       \* who is searching: "none", "add" (hash_add), "delete" (hash_delete)
    goal,       \* the beacon it searches for
    obj,        \* in hash_add: the new node
    at, last,   \* in the loop: v and v_last
    walk,       \* the chain hash_walk is in; TableLength when it is not running
    v,          \* its variable v, the node it is at
    visited,    \* history: the nodes it has called the walker for
    left,       \* history: the chains it has left at a deletion
    spoilt      \* history: a stale backward link was used

linkVars   == <<hashtable, next, prev, id, live>>
searchVars == <<call, goal, obj, at, last>>
walkVars   == <<walk, v, visited, left>>
vars == <<linkVars, searchVars, walkVars, spoilt>>

Chains == 0 .. TableLength - 1

(* Mutant of Walking: the walk goes one chain too far.                     *)
BugWalking == walk <= TableLength

Walking == walk # TableLength

Init ==
    /\ hashtable = [c \in Chains |-> Null]
    /\ next = [n \in Nodes |-> Null] /\ prev = [n \in Nodes |-> Null]
    /\ id = [n \in Nodes |-> Null] /\ live = {}
    /\ call = "none" /\ goal = Null /\ obj = Null /\ at = Null /\ last = Null
    /\ walk = TableLength /\ v = Null /\ visited = {} /\ left = {}
    /\ spoilt = FALSE

HashIndex(i) == BeaconIndex[i] % TableLength

-----------------------------------------------------------------------------
(* The loops of hash_add and hash_find                                     *)

Ready     == ~spoilt /\ call = "none"
Searching == ~spoilt /\ call # "none" /\ at \in live

Search(who, i) ==
    /\ call' = who /\ goal' = i
    /\ at' = hashtable[HashIndex(i)] /\ last' = Null

SearchEnds ==
    /\ call' = "none" /\ goal' = Null
    /\ at' = Null /\ last' = Null /\ obj' = Null

(* Mutant of Matches: no two nodes are of the same beacon.                 *)
BugMatches == FALSE

Matches == id[at] = goal

Collision ==
    /\ Searching /\ ~Matches
    /\ last' = at /\ at' = next[at]
    /\ UNCHANGED <<linkVars, call, goal, obj, walkVars, spoilt>>

-----------------------------------------------------------------------------
(* ibeacon_find_or_add, sbeacon_find_or_add                                *)

FindOrAdd(i, n) ==
    /\ Ready /\ ~Walking
    /\ n \notin live
    /\ Search("add", i) /\ obj' = n
    /\ UNCHANGED <<linkVars, walkVars, spoilt>>

(* The beacon is there: the new node is freed, the old one returned, and   *)
(* the table is as it was.                                                 *)
FindOld ==
    /\ Searching /\ call = "add" /\ Matches
    /\ SearchEnds
    /\ UNCHANGED <<linkVars, walkVars, spoilt>>

(* It is not: the new node is hung off the last of its chain.              *)
AddNew ==
    /\ ~spoilt /\ call = "add" /\ at = Null
    /\ id' = [id EXCEPT ![obj] = goal]
    /\ prev' = [prev EXCEPT ![obj] = last]
    /\ next' = [n \in Nodes |-> IF n = obj THEN Null ELSE IF n = last THEN obj ELSE next[n]]
    /\ hashtable' = IF last = Null THEN [hashtable EXCEPT ![HashIndex(goal)] = obj]
                    ELSE hashtable
    /\ live' = live \cup {obj}
    /\ SearchEnds
    /\ UNCHANGED <<walkVars, spoilt>>

-----------------------------------------------------------------------------
(* hash_walk                                                               *)

Visits == Ready /\ Walking /\ v # Null

(* Mutant of FirstChain: the first chain is skipped.                       *)
BugFirstChain == 1

FirstChain == 0

WalkStart ==
    /\ Ready /\ ~Walking
    /\ walk' = FirstChain
    /\ v' = hashtable[FirstChain]
    /\ visited' = {} /\ left' = {}
    /\ UNCHANGED <<linkVars, searchVars, spoilt>>

WalkNextChain ==
    /\ Ready /\ Walking
    /\ v = Null
    /\ walk' = walk + 1
    /\ v' = IF walk + 1 \in Chains THEN hashtable[walk + 1] ELSE Null
    /\ UNCHANGED <<linkVars, searchVars, visited, left, spoilt>>

(* The walker keeps the node: beacon_hash_walker always does, and          *)
(* report_ibeacon when the beacon was heard lately.                        *)
WalkKeep ==
    /\ Visits
    /\ visited' = visited \cup {v}
    /\ v' = next[v]
    /\ UNCHANGED <<linkVars, searchVars, walk, left, spoilt>>

(* beacon_expire calls hash_delete for the node of the walk.               *)
WalkExpire ==
    /\ Visits
    /\ Search("delete", id[v])
    /\ UNCHANGED <<linkVars, obj, walkVars, spoilt>>

-----------------------------------------------------------------------------
(* hash_delete, once hash_find has found the node.  What is in freed       *)
(* memory is never read, so the links of n are cleared.                    *)

(* Mutants: the root is not moved; the successor of a middle node keeps    *)
(* its backward link; the predecessor is taken for the last of its chain.  *)
BugRootWithout(n) == hashtable[HashIndex(id[n])]
BugPrevWithout(n) == [prev EXCEPT ![n] = Null]
BugNextWithout(n) == [m \in Nodes |-> IF m \in {n, prev[n]} THEN Null ELSE next[m]]

RootWithout(n) ==
    IF prev[n] = Null THEN next[n] ELSE hashtable[HashIndex(id[n])]
NextWithout(n) ==
    [m \in Nodes |-> IF m = n THEN Null
                     ELSE IF m = prev[n] THEN next[n] ELSE next[m]]
PrevWithout(n) ==
    [m \in Nodes |-> IF m = n THEN Null
                     ELSE IF prev[n] # Null /\ m = next[n] THEN prev[n] ELSE prev[m]]

(* The backward link of n leads to memory that is not the node before it.  *)
StalePrev(n) == prev[n] # Null /\ (prev[n] \notin live \/ next[prev[n]] # n)

(* Mutant of AfterExpiry: the walk stays at the node it has deleted.       *)
BugAfterExpiry == v

(* beacon_expire returns NULL, and the walk leaves the chain.              *)
AfterExpiry == Null

Delete ==
    /\ Searching /\ call = "delete" /\ Matches
    /\ ~StalePrev(at)
    /\ hashtable' = [hashtable EXCEPT ![HashIndex(id[at])] = RootWithout(at)]
    /\ next' = NextWithout(at) /\ prev' = PrevWithout(at)
    /\ live' = live \ {at}
    /\ id' = [id EXCEPT ![at] = Null]
    /\ visited' = visited \cup {v} /\ left' = left \cup {walk}
    /\ v' = AfterExpiry
    /\ SearchEnds
    /\ UNCHANGED <<walk, spoilt>>

DeleteStale ==
    /\ Searching /\ call = "delete" /\ Matches
    /\ StalePrev(at)
    /\ spoilt' = TRUE
    /\ UNCHANGED <<linkVars, searchVars, walkVars>>

Next ==
    \/ \E i \in Ids, n \in Nodes : FindOrAdd(i, n)
    \/ Collision \/ FindOld \/ AddNew
    \/ WalkStart \/ WalkNextChain \/ WalkKeep \/ WalkExpire
    \/ Delete \/ DeleteStale

Spec == Init /\ [][Next]_vars

-----------------------------------------------------------------------------
(* Properties                                                              *)

(* Every link, index and variable of the loops holds a value of its type   *)
(* (hash.c).                                                               *)
TypeOK ==
    /\ hashtable \in [Chains -> Nodes \cup {Null}]
    /\ next \in [Nodes -> Nodes \cup {Null}] /\ prev \in [Nodes -> Nodes \cup {Null}]
    /\ id \in [Nodes -> Ids \cup {Null}]
    /\ live \subseteq Nodes
    /\ call \in {"none", "add", "delete"} /\ goal \in Ids \cup {Null}
    /\ obj \in Nodes \cup {Null}
    /\ at \in Nodes \cup {Null} /\ last \in Nodes \cup {Null}
    /\ walk \in 0 .. TableLength /\ v \in Nodes \cup {Null}
    /\ visited \subseteq Nodes /\ left \subseteq Chains
    /\ spoilt \in BOOLEAN

(* What is reached from the root of a chain: what is in every set that has *)
(* the root and, with a node, the one it links to.                         *)
Closed(c, S) ==
    /\ hashtable[c] # Null => hashtable[c] \in S
    /\ \A n \in S : next[n] # Null => next[n] \in S
Reached(c) == {n \in Nodes : \A S \in SUBSET Nodes : Closed(c, S) => n \in S}

(* Every chain holds exactly the allocated beacons that hash to it: none   *)
(* is lost and none is freed while it hangs in the table (hash_add,        *)
(* hash_delete).                                                           *)
ChainsHoldLive ==
    \A c \in Chains : Reached(c) = {n \in live : HashIndex(id[n]) = c}

(* A beacon has one node: its samples go to one filter (hash_add).         *)
OneNodePerBeacon ==
    \A m, n \in live : id[m] = id[n] => m = n

(* Backward links mirror the forward ones (hash_add, hash_delete).         *)
BackLinks ==
    \A n \in live : next[n] # Null => prev[next[n]] = n

(* Neither a walk nor a search ever stands on a node that was deleted, and *)
(* the node a walk has found expired is the one it deletes (hash_walk,     *)
(* hash_find, hash_add).                                                   *)
NeverOnFreed ==
    /\ Walking => v \in live \cup {Null}
    /\ call # "none" => at \in live \cup {Null}
    /\ call = "delete" => at # Null /\ (Matches => at = v)

(* A walk misses only nodes that follow a deleted one in their chain: "we  *)
(* cannot reason about any other chained nodes" (hash.c:108).              *)
WalkVisits ==
    [][WalkNextChain /\ walk' = TableLength =>
         \A n \in live \ visited : HashIndex(id[n]) \in left]_vars

(* A stale backward link is only ever that of a root: only the deletion of *)
(* a root with a successor leaves one behind (hash_delete).                *)
OnlyRootsAreStale ==
    \A n \in live : StalePrev(n) => hashtable[HashIndex(id[n])] = n

(* hash.c:24 takes a node without prev to be the root of its chain, and    *)
(* hash.c:32 a node with prev not to be: a root must have none.            *)
RootHasNoPrev ==
    \A c \in Chains : hashtable[c] # Null => prev[hashtable[c]] = Null
=============================================================================
