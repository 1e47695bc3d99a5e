-------------------------- MODULE HashTableProofs ---------------------------
(***************************************************************************)
(* Theorems of HashTable, for every set of beacons and nodes and every     *)
(* length of the table.                                                    *)
(***************************************************************************)
EXTENDS HashTable, TLAPS

LEMMA IndexIsChain ==
    ASSUME NEW i \in Ids
    PROVE  HashIndex(i) \in Chains
  BY TableAssumption DEF HashIndex, Chains

LEMMA ChainFacts == 0 \in Chains /\ TableLength \notin Chains /\ Chains \subseteq 0 .. TableLength
  BY TableAssumption DEF Chains

-----------------------------------------------------------------------------
(* The invariant                                                           *)

(* Links stay in the chain and among allocated nodes, and are mirrored; a  *)
(* root is in its chain, and no node links to it; every other node hangs   *)
(* off the one before it.                                                  *)
Rooted(n) == hashtable[HashIndex(id[n])] = n
Linked ==
    \A n \in live :
        /\ id[n] \in Ids
        /\ next[n] \in live \cup {Null}
        /\ next[n] # Null => /\ HashIndex(id[next[n]]) = HashIndex(id[n])
                             /\ prev[next[n]] = n
Roots ==
    \A c \in Chains :
        /\ hashtable[c] \in live \cup {Null}
        /\ hashtable[c] # Null => HashIndex(id[hashtable[c]]) = c
NoLinkToRoot ==
    \A n \in live : next[n] # Null => ~Rooted(next[n])
HasPrev ==
    \A n \in live : ~Rooted(n) => prev[n] \in live /\ next[prev[n]] = n

(* There are no cycles: every set of nodes has one that is a root or hangs *)
(* off a node that is not in the set.                                      *)
Grounded ==
    \A S \in SUBSET live : S # {} => \E n \in S : Rooted(n) \/ prev[n] \notin S

LinkInv ==
    Linked /\ Roots /\ NoLinkToRoot /\ HasPrev /\ Grounded /\ OneNodePerBeacon

(* Behind a search is a set of nodes that are not of the beacon and from   *)
(* which every link leads into the set or to where the search is.          *)
Passed(S) ==
    /\ hashtable[HashIndex(goal)] \in S \cup {at}
    /\ \A n \in S : id[n] # goal /\ next[n] \in S \cup {at}
SearchInv ==
    /\ call # "none" => /\ goal \in Ids /\ at \in live \cup {Null}
                        /\ at # Null => HashIndex(id[at]) = HashIndex(goal)
                        /\ \E S \in SUBSET live : Passed(S)
    /\ call = "add" => /\ ~Walking
                       /\ obj \in Nodes \ live
                       /\ last = Null => at = hashtable[HashIndex(goal)]
                       /\ last # Null => /\ last \in live /\ next[last] = at
                                         /\ HashIndex(id[last]) = HashIndex(goal)
    /\ call = "delete" => Walking /\ v \in live /\ goal = id[v]

(* A walk is at a node of its chain; what it has visited of the chain      *)
(* leads to where it is, unless it has left it, and of the chains before   *)
(* it has visited all, or has left them.                                   *)
WalkInv ==
    Walking =>
        /\ walk \in Chains /\ v \in live \cup {Null}
        /\ v # Null => HashIndex(id[v]) = walk /\ walk \notin left
        /\ \A c \in left : c <= walk
        /\ \A n \in visited \cap live : HashIndex(id[n]) <= walk
        /\ walk \notin left =>
              /\ hashtable[walk] \in visited \cup {v}
              /\ \A n \in visited \cap live : HashIndex(id[n]) = walk => next[n] \in visited \cup {v}
        /\ \A n \in live \ visited : HashIndex(id[n]) < walk => HashIndex(id[n]) \in left

HashInv == TypeOK /\ LinkInv /\ SearchInv /\ WalkInv

(* What has the root of a chain and, with a node, the next one, has all of *)
(* the chain.                                                              *)
LEMMA ClosedHasChain ==
    ASSUME TypeOK, LinkInv, NEW c \in Chains, NEW S \in SUBSET live,
           hashtable[c] \in S \cup {Null},
           \A n \in S : HashIndex(id[n]) = c => next[n] \in S \cup {Null}
    PROVE  \A n \in live : HashIndex(id[n]) = c => n \in S
  <1>. DEFINE U == {n \in live : HashIndex(id[n]) = c /\ n \notin S}
  <1>1. SUFFICES ASSUME U # {} PROVE FALSE
    OBVIOUS
  <1>2. PICK n \in U : Rooted(n) \/ prev[n] \notin U
    BY <1>1 DEF LinkInv, Grounded
  <1>3. n \in live /\ HashIndex(id[n]) = c /\ n \notin S /\ n # Null
    BY <1>2, TableAssumption DEF TypeOK
  <1>4. ~Rooted(n)
    BY <1>3 DEF Rooted
  <1>5. prev[n] \in live /\ next[prev[n]] = n
    BY <1>3, <1>4 DEF LinkInv, HasPrev
  <1>6. HashIndex(id[prev[n]]) = c
    BY <1>3, <1>5 DEF LinkInv, Linked
  <1>7. prev[n] \in S
    BY <1>2, <1>4, <1>5, <1>6
  <1>. QED  BY <1>3, <1>5, <1>6, <1>7

(* A search that has come to the end has met the whole chain.              *)
LEMMA MissIsMiss ==
    ASSUME TypeOK, LinkInv, SearchInv, call # "none", at = Null
    PROVE  \A n \in live : id[n] # goal
  <1>1. goal \in Ids /\ HashIndex(goal) \in Chains
    BY IndexIsChain DEF SearchInv
  <1>2. PICK S \in SUBSET live : Passed(S)
    BY DEF SearchInv
  <1>3. \A n \in live : HashIndex(id[n]) = HashIndex(goal) => n \in S
    BY <1>1, <1>2, ClosedHasChain DEF Passed
  <1>. QED  BY <1>2, <1>3 DEF Passed

(* Where hash_delete finds a match is the node of the walk.                *)
LEMMA DeletesItsNode ==
    ASSUME TypeOK, LinkInv, SearchInv, call = "delete"
    PROVE  at \in live /\ (Matches => at = v)
  <1>1. v \in live /\ goal = id[v] /\ at \in live \cup {Null}
    BY DEF SearchInv
  <1>2. at # Null
    BY <1>1, MissIsMiss
  <1>. QED  BY <1>1, <1>2 DEF Matches, LinkInv, OneNodePerBeacon

(* When a walk is at the end of a chain, it has visited it or left it.     *)
LEMMA ChainVisited ==
    ASSUME HashInv, Walking, v = Null
    PROVE  \A n \in live \ visited : HashIndex(id[n]) <= walk => HashIndex(id[n]) \in left
  <1>1. walk \in Chains
    BY DEF HashInv, WalkInv
  <1>2. SUFFICES ASSUME walk \notin left
                 PROVE  \A n \in live \ visited : HashIndex(id[n]) # walk
    <2>1. \A n \in live : HashIndex(id[n]) \in Chains
      BY IndexIsChain DEF HashInv, LinkInv, Linked
    <2>. QED  BY <1>1, <1>2, <2>1 DEF HashInv, WalkInv, Chains
  <1>3. hashtable[walk] \in visited \cup {Null} /\ hashtable[walk] \in live \cup {Null}
    BY <1>1, <1>2 DEF HashInv, WalkInv, LinkInv, Roots
  <1>4. \A n \in visited \cap live : HashIndex(id[n]) = walk
                                     => next[n] \in (visited \cap live) \cup {Null}
    BY <1>2 DEF HashInv, WalkInv, LinkInv, Linked
  <1>. QED  BY <1>1, <1>3, <1>4, ClosedHasChain DEF HashInv

-----------------------------------------------------------------------------
(* The links                                                               *)

LEMMA AddLinks ==
    ASSUME TypeOK, LinkInv, SearchInv, AddNew
    PROVE  LinkInv'
  <1>. DEFINE idx == HashIndex(goal)
  <1>1. goal \in Ids /\ idx \in Chains /\ obj \in Nodes \ live /\ obj # Null
    BY IndexIsChain, TableAssumption DEF AddNew, SearchInv
  <1>2. live' = live \cup {obj} /\ live \subseteq Nodes /\ Null \notin live
    BY TableAssumption DEF AddNew, TypeOK
  <1>3. \A m \in live : id'[m] = id[m] /\ prev'[m] = prev[m] /\ m # obj
    BY <1>1, <1>2 DEF AddNew, TypeOK
  <1>4. id'[obj] = goal /\ prev'[obj] = last /\ next'[obj] = Null
    BY <1>1 DEF AddNew, TypeOK
  <1>5. \A m \in live : next'[m] = IF m = last THEN obj ELSE next[m]
    BY <1>2, <1>3 DEF AddNew
  <1>6. last = Null => hashtable[idx] = Null
    BY DEF AddNew, SearchInv
  <1>7. last # Null => last \in live /\ next[last] = Null /\ HashIndex(id[last]) = idx
    BY DEF AddNew, SearchInv
  <1>8. \A c \in Chains : hashtable'[c] = IF c = idx /\ last = Null THEN obj ELSE hashtable[c]
    BY <1>1 DEF AddNew, TypeOK
  <1>9. \A m \in live : HashIndex(id[m]) \in Chains
    BY IndexIsChain DEF LinkInv, Linked
  <1>10. \A m \in live : hashtable'[HashIndex(id[m])] = m <=> Rooted(m)
    BY <1>2, <1>3, <1>6, <1>8, <1>9 DEF Rooted
  <1>11. hashtable'[idx] = obj <=> last = Null
    BY <1>1, <1>8 DEF LinkInv, Roots
  <1>12. \A m \in live : (HashIndex(id[m]))' = HashIndex(id[m]) /\ Rooted(m)' = Rooted(m)
    BY <1>3, <1>10 DEF Rooted
  <1>13. \A n \in live' : n = obj => (Rooted(n)' <=> last = Null)
    BY <1>4, <1>11 DEF Rooted
  <1>14. Linked'
    <2>1. SUFFICES ASSUME NEW n \in live'
                   PROVE  /\ id'[n] \in Ids
                          /\ next'[n] \in live' \cup {Null}
                          /\ next'[n] # Null => /\ HashIndex(id'[next'[n]]) = HashIndex(id'[n])
                                                /\ prev'[next'[n]] = n
      BY DEF Linked
    <2>2. CASE n = obj
      BY <2>2, <1>1, <1>4
    <2>3. CASE n \in live /\ n = last
      BY <2>3, <1>1, <1>2, <1>3, <1>4, <1>5, <1>7 DEF LinkInv, Linked
    <2>4. CASE n \in live /\ n # last
      BY <2>4, <1>2, <1>3, <1>5 DEF LinkInv, Linked
    <2>. QED  BY <2>2, <2>3, <2>4, <1>2
  <1>15. Roots'
    <2>1. SUFFICES ASSUME NEW c \in Chains
                   PROVE  /\ hashtable'[c] \in live' \cup {Null}
                          /\ hashtable'[c] # Null => HashIndex(id'[hashtable'[c]]) = c
      BY DEF Roots
    <2>. QED  BY <1>2, <1>3, <1>4, <1>8 DEF LinkInv, Roots
  <1>16. NoLinkToRoot'
    <2>1. SUFFICES ASSUME NEW n \in live', next'[n] # Null
                   PROVE  ~Rooted(next[n])'
      BY DEF NoLinkToRoot
    <2>2. n \in live
      BY <2>1, <1>2, <1>4
    <2>3. CASE n = last
      <3>1. next'[n] = obj
        BY <2>2, <2>3, <1>5
      <3>2. last # Null
        BY <2>2, <2>3, <1>2
      <3>. QED  BY <3>1, <3>2, <1>4, <1>11 DEF Rooted
    <2>4. CASE n # last
      <3>1. next'[n] = next[n] /\ next[n] \in live /\ ~Rooted(next[n])
        BY <2>1, <2>2, <2>4, <1>5 DEF LinkInv, Linked, NoLinkToRoot
      <3>. QED  BY <3>1, <1>3, <1>10 DEF Rooted
    <2>. QED  BY <2>3, <2>4
  <1>17. HasPrev'
    <2>1. SUFFICES ASSUME NEW n \in live', ~Rooted(n)'
                   PROVE  prev'[n] \in live' /\ next'[prev'[n]] = n
      BY DEF HasPrev
    <2>2. CASE n = obj
      <3>1. last # Null
        BY <2>1, <2>2, <1>13
      <3>2. last \in live /\ next'[last] = obj /\ last \in live'
        BY <3>1, <1>2, <1>5, <1>7
      <3>. QED  BY <2>2, <3>2, <1>4
    <2>3. CASE n \in live
      <3>1. prev[n] \in live /\ next[prev[n]] = n /\ prev'[n] = prev[n]
        BY <2>1, <2>3, <1>3, <1>12 DEF LinkInv, HasPrev
      <3>2. prev[n] # last
        BY <2>3, <3>1, <1>2, <1>7
      <3>. QED  BY <3>1, <3>2, <1>2, <1>5
    <2>. QED  BY <2>2, <2>3, <1>2
  <1>18. Grounded'
    <2>1. SUFFICES ASSUME NEW S \in SUBSET live', S # {}
                   PROVE  \E n \in S : Rooted(n)' \/ prev'[n] \notin S
      BY DEF Grounded
    <2>2. CASE S \subseteq {obj}
      <3>1. S = {obj} /\ last # obj
        BY <2>1, <2>2, <1>1, <1>7
      <3>. QED  BY <3>1, <1>4
    <2>3. CASE ~(S \subseteq {obj})
      <3>1. S \ {obj} \in SUBSET live /\ S \ {obj} # {}
        BY <2>1, <2>3, <1>2
      <3>2. PICK n \in S \ {obj} : Rooted(n) \/ prev[n] \notin S \ {obj}
        BY <3>1 DEF LinkInv, Grounded
      <3>3. n \in live
        BY <3>1, <3>2
      <3>4. CASE Rooted(n)
        BY <3>2, <3>3, <3>4, <1>12
      <3>5. CASE ~Rooted(n)
        <4>1. prev[n] \in live
          BY <3>3, <3>5 DEF LinkInv, HasPrev
        <4>. QED  BY <3>2, <3>3, <3>5, <4>1, <1>3
      <3>. QED  BY <3>4, <3>5
    <2>. QED  BY <2>2, <2>3
  <1>19. OneNodePerBeacon'
    <2>1. \A n \in live : id[n] # goal
      BY MissIsMiss DEF AddNew
    <2>2. \A m, n \in live' : id'[m] = id'[n] => m = n
      BY <2>1, <1>2, <1>3, <1>4 DEF LinkInv, OneNodePerBeacon
    <2>. QED  BY <2>2 DEF OneNodePerBeacon
  <1>. QED  BY <1>14, <1>15, <1>16, <1>17, <1>18, <1>19 DEF LinkInv

LEMMA DeleteLinks ==
    ASSUME TypeOK, LinkInv, SearchInv, Delete
    PROVE  LinkInv'
  <1>. DEFINE idx == HashIndex(id[at])
              x == next[at]
              p == prev[at]
  <1>1. at \in live /\ live \subseteq Nodes /\ Null \notin live /\ idx \in Chains
    BY IndexIsChain, TableAssumption DEF Delete, Searching, TypeOK, LinkInv, Linked
  <1>2. live' = live \ {at}
    BY DEF Delete
  <1>3. \A m \in live' : id'[m] = id[m] /\ m \in live /\ m # at
    BY <1>1, <1>2 DEF Delete, TypeOK
  <1>4. /\ x \in live \cup {Null}
        /\ x # Null => HashIndex(id[x]) = idx /\ prev[x] = at /\ ~Rooted(x)
    BY <1>1 DEF LinkInv, Linked, NoLinkToRoot
  <1>5. \A c \in Chains : hashtable'[c] = IF c = idx THEN RootWithout(at) ELSE hashtable[c]
    BY <1>1 DEF Delete, TypeOK
  <1>6. \A m \in live : HashIndex(id[m]) \in Chains
    BY IndexIsChain DEF LinkInv, Linked
  <1>7. OneNodePerBeacon'
    <2>1. \A m, n \in live' : id'[m] = id'[n] => m = n
      BY <1>3 DEF LinkInv, OneNodePerBeacon
    <2>. QED  BY <2>1 DEF OneNodePerBeacon
  <1>8. ASSUME p = Null PROVE LinkInv'
    <2>1. Rooted(at) /\ hashtable[idx] = at /\ x # at
      BY <1>1, <1>4, <1>8 DEF LinkInv, HasPrev, Rooted
    <2>2. \A m \in live' : next'[m] = next[m] /\ prev'[m] = prev[m]
      BY <1>1, <1>3, <1>8 DEF Delete, NextWithout, PrevWithout
    <2>3. \A c \in Chains : hashtable'[c] = IF c = idx THEN x ELSE hashtable[c]
      BY <1>5, <1>8 DEF RootWithout
    <2>4. \A m \in live' : (HashIndex(id[m]))' = HashIndex(id[m])
      BY <1>3
    <2>5. \A m \in live' : hashtable'[HashIndex(id[m])] = m <=> Rooted(m) \/ m = x
      BY <1>1, <1>3, <1>4, <1>6, <2>1, <2>3 DEF Rooted
    <2>6. \A m \in live' : Rooted(m)' <=> Rooted(m) \/ m = x
      BY <2>5, <1>3 DEF Rooted
    <2>7. \A m \in live' : next[m] # at /\ (next[m] # Null => next[m] # x)
      BY <1>1, <1>3, <1>4, <2>1 DEF LinkInv, Linked, NoLinkToRoot
    <2>8. Linked'
      <3>1. SUFFICES ASSUME NEW n \in live'
                     PROVE  /\ id'[n] \in Ids
                            /\ next'[n] \in live' \cup {Null}
                            /\ next'[n] # Null => /\ HashIndex(id'[next'[n]]) = HashIndex(id'[n])
                                                  /\ prev'[next'[n]] = n
        BY DEF Linked
      <3>2. next[n] \in live' \cup {Null}
        BY <1>2, <1>3, <2>7 DEF LinkInv, Linked
      <3>. QED  BY <3>2, <1>3, <2>2 DEF LinkInv, Linked
    <2>9. Roots'
      <3>1. SUFFICES ASSUME NEW c \in Chains
                     PROVE  /\ hashtable'[c] \in live' \cup {Null}
                            /\ hashtable'[c] # Null => HashIndex(id'[hashtable'[c]]) = c
        BY DEF Roots
      <3>2. CASE c = idx
        BY <3>2, <1>2, <1>3, <1>4, <2>1, <2>3
      <3>3. CASE c # idx
        <4>1. hashtable'[c] = hashtable[c] /\ hashtable[c] # at
          BY <3>3, <1>1, <2>3 DEF LinkInv, Roots
        <4>. QED  BY <4>1, <1>2, <1>3 DEF LinkInv, Roots
      <3>. QED  BY <3>2, <3>3
    <2>10. NoLinkToRoot'
      <3>1. SUFFICES ASSUME NEW n \in live', next'[n] # Null
                     PROVE  hashtable'[HashIndex(id'[next'[n]])] # next'[n]
        BY DEF NoLinkToRoot, Rooted
      <3>2. next'[n] = next[n] /\ next[n] # x /\ next[n] \in live' /\ ~Rooted(next[n])
        BY <3>1, <1>2, <1>3, <2>2, <2>7 DEF LinkInv, Linked, NoLinkToRoot
      <3>. QED  BY <3>2, <1>3, <2>5
    <2>11. HasPrev'
      <3>1. SUFFICES ASSUME NEW n \in live', ~Rooted(n)'
                     PROVE  prev'[n] \in live' /\ next'[prev'[n]] = n
        BY DEF HasPrev
      <3>2. n # x /\ prev[n] \in live /\ next[prev[n]] = n
        BY <3>1, <1>3, <2>6 DEF LinkInv, HasPrev
      <3>. QED  BY <3>2, <1>2, <2>2
    <2>12. Grounded'
      <3>1. SUFFICES ASSUME NEW S \in SUBSET live', S # {}
                     PROVE  \E n \in S : Rooted(n)' \/ prev'[n] \notin S
        BY DEF Grounded
      <3>2. PICK n \in S : Rooted(n) \/ prev[n] \notin S
        BY <3>1, <1>3 DEF LinkInv, Grounded
      <3>. QED  BY <3>1, <3>2, <2>2, <2>6
    <2>. QED  BY <1>7, <2>8, <2>9, <2>10, <2>11, <2>12 DEF LinkInv
  <1>9. ASSUME p # Null PROVE LinkInv'
    <2>1. p \in live /\ next[p] = at /\ ~Rooted(at)
      BY <1>1, <1>9 DEF Delete, StalePrev, LinkInv, NoLinkToRoot
    <2>2. p # at
      <3>1. {at} \in SUBSET live /\ {at} # {}
        BY <1>1
      <3>2. PICK n \in {at} : Rooted(n) \/ prev[n] \notin {at}
        BY <3>1 DEF LinkInv, Grounded
      <3>. QED  BY <3>2, <2>1
    <2>3. x # at /\ p \in live'
      BY <1>1, <1>2, <1>4, <2>1, <2>2
    <2>4. \A m \in live' : /\ next'[m] = IF m = p THEN x ELSE next[m]
                           /\ prev'[m] = IF m = x THEN p ELSE prev[m]
      BY <1>1, <1>3, <1>9 DEF Delete, NextWithout, PrevWithout
    <2>5. \A c \in Chains : hashtable'[c] = hashtable[c]
      BY <1>5, <1>9 DEF RootWithout
    <2>6. \A m \in live' : hashtable'[HashIndex(id[m])] = m <=> Rooted(m)
      BY <1>3, <1>6, <2>5 DEF Rooted
    <2>7. \A m \in live' : Rooted(m)' <=> Rooted(m)
      BY <2>6, <1>3 DEF Rooted
    <2>8. \A m \in live' : m # p => next[m] # at /\ (next[m] # Null => next[m] # x)
      BY <1>1, <1>3, <1>4 DEF LinkInv, Linked
    <2>9. Linked'
      <3>1. SUFFICES ASSUME NEW n \in live'
                     PROVE  /\ id'[n] \in Ids
                            /\ next'[n] \in live' \cup {Null}
                            /\ next'[n] # Null => /\ HashIndex(id'[next'[n]]) = HashIndex(id'[n])
                                                  /\ prev'[next'[n]] = n
        BY DEF Linked
      <3>2. CASE n = p
        <4>1. next'[n] = x /\ x \in live' \cup {Null}
          BY <3>2, <1>2, <1>4, <2>3, <2>4
        <4>2. HashIndex(id[n]) = idx
          BY <3>2, <1>1, <2>1 DEF LinkInv, Linked
        <4>3. id'[n] \in Ids
          BY <1>3 DEF LinkInv, Linked
        <4>. QED  BY <3>2, <4>1, <4>2, <4>3, <1>3, <1>4, <2>4
      <3>3. CASE n # p
        <4>1. next'[n] = next[n] /\ next[n] \in live' \cup {Null}
          BY <3>3, <1>2, <1>3, <2>4, <2>8 DEF LinkInv, Linked
        <4>. QED  BY <3>3, <4>1, <1>3, <2>4, <2>8 DEF LinkInv, Linked
      <3>. QED  BY <3>2, <3>3
    <2>10. Roots'
      <3>1. SUFFICES ASSUME NEW c \in Chains
                     PROVE  /\ hashtable'[c] \in live' \cup {Null}
                            /\ hashtable'[c] # Null => HashIndex(id'[hashtable'[c]]) = c
        BY DEF Roots
      <3>2. hashtable[c] # at
        BY <1>1, <2>1 DEF Rooted, LinkInv, Roots
      <3>. QED  BY <3>2, <1>2, <1>3, <2>5 DEF LinkInv, Roots
    <2>11. NoLinkToRoot'
      <3>1. SUFFICES ASSUME NEW n \in live', next'[n] # Null
                     PROVE  hashtable'[HashIndex(id'[next'[n]])] # next'[n]
        BY DEF NoLinkToRoot, Rooted
      <3>2. CASE n = p
        <4>1. next'[n] = x /\ x \in live' /\ ~Rooted(x)
          BY <3>1, <3>2, <1>2, <1>4, <2>3, <2>4
        <4>. QED  BY <4>1, <1>3, <2>6
      <3>3. CASE n # p
        <4>1. next'[n] = next[n] /\ next[n] \in live' /\ ~Rooted(next[n])
          BY <3>1, <3>3, <1>2, <1>3, <2>4, <2>8 DEF LinkInv, Linked, NoLinkToRoot
        <4>. QED  BY <4>1, <1>3, <2>6
      <3>. QED  BY <3>2, <3>3
    <2>12. HasPrev'
      <3>1. SUFFICES ASSUME NEW n \in live', ~Rooted(n)'
                     PROVE  prev'[n] \in live' /\ next'[prev'[n]] = n
        BY DEF HasPrev
      <3>2. prev[n] \in live /\ next[prev[n]] = n
        BY <3>1, <1>3, <2>7 DEF LinkInv, HasPrev
      <3>3. CASE n = x
        BY <3>3, <2>3, <2>4
      <3>4. CASE n # x
        <4>1. prev[n] # at /\ prev[n] # p
          BY <3>2, <3>4, <1>3, <2>1
        <4>. QED  BY <3>2, <3>4, <4>1, <1>2, <2>4
      <3>. QED  BY <3>3, <3>4
    <2>13. Grounded'
      <3>1. SUFFICES ASSUME NEW S \in SUBSET live', S # {}
                     PROVE  \E n \in S : Rooted(n)' \/ prev'[n] \notin S
        BY DEF Grounded
      <3>2. CASE x \in S /\ p \in S
        <4>1. S \cup {at} \in SUBSET live /\ S \cup {at} # {}
          BY <1>1, <1>2
        <4>2. PICK n \in S \cup {at} : Rooted(n) \/ prev[n] \notin S \cup {at}
          BY <4>1 DEF LinkInv, Grounded
        <4>3. n # at /\ n \in S /\ n \in live'
          BY <3>2, <4>2, <2>1
        <4>4. Rooted(n) \/ (n # x /\ prev[n] \notin S)
          BY <4>2, <3>2, <1>1, <1>3, <1>4, <4>3
        <4>. QED  BY <4>3, <4>4, <2>4, <2>7
      <3>3. CASE x \in S /\ p \notin S
        BY <3>3, <2>4
      <3>4. CASE x \notin S
        <4>1. PICK n \in S : Rooted(n) \/ prev[n] \notin S
          BY <3>1, <1>3 DEF LinkInv, Grounded
        <4>. QED  BY <3>4, <4>1, <2>4, <2>7
      <3>. QED  BY <3>2, <3>3, <3>4
    <2>. QED  BY <1>7, <2>9, <2>10, <2>11, <2>12, <2>13 DEF LinkInv
  <1>. QED  BY <1>8, <1>9

-----------------------------------------------------------------------------
(* Types                                                                   *)

LEMMA InitHash == Init => HashInv
  <1>. SUFFICES ASSUME Init PROVE HashInv
    OBVIOUS
  <1>1. TypeOK
    <2>1. hashtable \in [Chains -> Nodes \cup {Null}]
      BY DEF Init
    <2>2. next \in [Nodes -> Nodes \cup {Null}] /\ prev \in [Nodes -> Nodes \cup {Null}]
      BY DEF Init
    <2>3. id \in [Nodes -> Ids \cup {Null}]
      BY DEF Init
    <2>4. walk \in 0 .. TableLength
      BY TableAssumption DEF Init
    <2>. QED  BY <2>1, <2>2, <2>3, <2>4 DEF Init, TypeOK
  <1>2. LinkInv
    BY DEF Init, LinkInv, Linked, Roots, NoLinkToRoot, HasPrev, Grounded, OneNodePerBeacon
  <1>. QED  BY <1>1, <1>2 DEF Init, HashInv, SearchInv, WalkInv, Walking

LEMMA NextType == HashInv /\ [Next]_vars => TypeOK'
  <1>. SUFFICES ASSUME HashInv, [Next]_vars PROVE TypeOK'
    OBVIOUS
  <1>0. TypeOK
    BY DEF HashInv
  <1>. USE <1>0, TableAssumption, ChainFacts DEF TypeOK
  <1>a. \A i \in Ids : HashIndex(i) \in Chains /\ hashtable[HashIndex(i)] \in Nodes \cup {Null}
    BY IndexIsChain
  <1>b. \A n \in live : id[n] \in Ids
    BY DEF HashInv, LinkInv, Linked
  <1>c. at # Null => next[at] \in Nodes \cup {Null}
    OBVIOUS
  <1>1. ASSUME NEW i \in Ids, NEW n \in Nodes, FindOrAdd(i, n) PROVE TypeOK'
    BY <1>1, <1>a DEF FindOrAdd, Search, linkVars, walkVars
  <1>2. CASE Collision
    BY <1>2, <1>c DEF Collision, Searching, linkVars, walkVars
  <1>3. CASE FindOld
    BY <1>3 DEF FindOld, SearchEnds, linkVars, walkVars
  <1>4. CASE AddNew
    <2>1. goal \in Ids /\ obj \in Nodes
      BY <1>4 DEF AddNew, HashInv, SearchInv
    <2>. QED  BY <1>4, <2>1, <1>a DEF AddNew, SearchEnds, walkVars
  <1>5. CASE WalkStart
    BY <1>5 DEF WalkStart, FirstChain, linkVars, searchVars
  <1>6. CASE WalkNextChain
    <2>1. walk \in Chains
      BY <1>6 DEF WalkNextChain, HashInv, WalkInv
    <2>2. walk + 1 \in 0 .. TableLength
      BY <2>1 DEF Chains
    <2>. QED  BY <1>6, <2>2 DEF WalkNextChain, linkVars, searchVars
  <1>7. CASE WalkKeep
    BY <1>7 DEF WalkKeep, Visits, linkVars, searchVars
  <1>8. CASE WalkExpire
    <2>1. id[v] \in Ids
      BY <1>8, <1>b DEF WalkExpire, Visits, HashInv, WalkInv
    <2>. QED  BY <1>8, <2>1, <1>a DEF WalkExpire, Search, linkVars, walkVars
  <1>9. CASE Delete
    <2>1. at \in Nodes /\ v \in Nodes /\ walk \in Chains /\ HashIndex(id[at]) \in Chains
      BY <1>9, <1>a, <1>b DEF Delete, Searching, HashInv, SearchInv, WalkInv
    <2>2. RootWithout(at) \in Nodes \cup {Null}
      BY <1>9, <1>a, <1>b, <2>1 DEF RootWithout, Delete, Searching
    <2>3. NextWithout(at) \in [Nodes -> Nodes \cup {Null}]
          /\ PrevWithout(at) \in [Nodes -> Nodes \cup {Null}]
      BY <2>1 DEF NextWithout, PrevWithout
    <2>4. hashtable' \in [Chains -> Nodes \cup {Null}]
      BY <1>9, <2>2 DEF Delete
    <2>. QED  BY <1>9, <2>1, <2>3, <2>4 DEF Delete, SearchEnds, AfterExpiry
  <1>10. CASE DeleteStale
    BY <1>10 DEF DeleteStale, linkVars, searchVars, walkVars
  <1>11. CASE UNCHANGED vars
    BY <1>11 DEF vars, linkVars, searchVars, walkVars
  <1>. QED
    BY <1>1, <1>2, <1>3, <1>4, <1>5, <1>6, <1>7, <1>8, <1>9, <1>10, <1>11 DEF Next

-----------------------------------------------------------------------------
(* Every step preserves the invariant                                      *)

LEMMA NextLinks == HashInv /\ [Next]_vars => LinkInv'
  <1>. SUFFICES ASSUME HashInv, [Next]_vars PROVE LinkInv'
    OBVIOUS
  <1>. USE DEF HashInv
  <1>1. ASSUME UNCHANGED linkVars PROVE LinkInv'
    BY <1>1 DEF linkVars, LinkInv, Linked, Roots, NoLinkToRoot, HasPrev, Grounded,
                OneNodePerBeacon, Rooted
  <1>2. ASSUME NEW i \in Ids, NEW n \in Nodes, FindOrAdd(i, n) PROVE LinkInv'
    BY <1>1, <1>2 DEF FindOrAdd
  <1>3. CASE Collision \/ FindOld
    BY <1>1, <1>3 DEF Collision, FindOld
  <1>4. CASE AddNew
    BY <1>4, AddLinks
  <1>5. CASE WalkStart \/ WalkNextChain \/ WalkKeep \/ WalkExpire
    BY <1>1, <1>5 DEF WalkStart, WalkNextChain, WalkKeep, WalkExpire
  <1>6. CASE Delete
    BY <1>6, DeleteLinks
  <1>7. CASE DeleteStale \/ UNCHANGED vars
    BY <1>1, <1>7 DEF DeleteStale, vars
  <1>. QED  BY <1>2, <1>3, <1>4, <1>5, <1>6, <1>7 DEF Next

LEMMA NextSearch == HashInv /\ [Next]_vars => SearchInv'
  <1>. SUFFICES ASSUME HashInv, [Next]_vars PROVE SearchInv'
    OBVIOUS
  <1>. USE DEF HashInv
  <1>1. ASSUME UNCHANGED <<linkVars, searchVars, walk, v>> PROVE SearchInv'
    BY <1>1 DEF linkVars, searchVars, SearchInv, Passed, Walking
  <1>2. ASSUME call' = "none" PROVE SearchInv'
    BY <1>2 DEF SearchInv
  (* A search that starts has passed nothing. *)
  <1>3. ASSUME NEW who, NEW i \in Ids, Search(who, i), UNCHANGED linkVars
        PROVE  /\ goal' = i /\ last' = Null /\ at' = hashtable[HashIndex(i)]
               /\ at' \in live' \cup {Null}
               /\ at' # Null => HashIndex(id'[at']) = HashIndex(goal')
               /\ \E S \in SUBSET live' : Passed(S)'
    <2>1. goal' = i /\ last' = Null /\ at' = hashtable[HashIndex(i)] /\ HashIndex(i) \in Chains
      BY <1>3, IndexIsChain DEF Search
    <2>2. at' \in live \cup {Null} /\ (at' # Null => HashIndex(id[at']) = HashIndex(i))
      BY <2>1 DEF LinkInv, Roots
    <2>3. Passed({})'
      BY <1>3, <2>1 DEF Passed, linkVars
    <2>4. {} \in SUBSET live'
      OBVIOUS
    <2>5. \E S \in SUBSET live' : Passed(S)'
      BY <2>3, <2>4
    <2>. QED  BY <1>3, <2>1, <2>2, <2>5 DEF linkVars
  <1>4. ASSUME NEW i \in Ids, NEW n \in Nodes, FindOrAdd(i, n) PROVE SearchInv'
    BY <1>3, <1>4 DEF FindOrAdd, SearchInv, Search, Walking, walkVars, linkVars
  <1>5. CASE Collision
    <2>1. /\ at \in live /\ call # "none" /\ id[at] # goal
          /\ last' = at /\ at' = next[at] /\ goal' = goal /\ call' = call /\ obj' = obj
          /\ UNCHANGED <<linkVars, walkVars>>
      BY <1>5 DEF Collision, Searching, Matches
    <2>2. goal \in Ids /\ HashIndex(id[at]) = HashIndex(goal) /\ at # Null
      BY <2>1, TableAssumption DEF SearchInv, TypeOK
    <2>3. next[at] \in live \cup {Null}
          /\ (next[at] # Null => HashIndex(id[next[at]]) = HashIndex(goal))
      BY <2>1, <2>2 DEF LinkInv, Linked
    <2>4. PICK S \in SUBSET live : Passed(S)
      BY <2>1 DEF SearchInv
    <2>5. PICK T \in SUBSET live : T = S \cup {at}
      BY <2>1
    <2>6. Passed(T)'
      BY <2>1, <2>4, <2>5 DEF Passed, linkVars
    <2>7. \E U \in SUBSET live' : Passed(U)'
      BY <2>1, <2>6 DEF linkVars
    <2>. QED
      BY <2>1, <2>2, <2>3, <2>7 DEF SearchInv, linkVars, walkVars, Walking
  <1>6. CASE FindOld \/ AddNew \/ Delete
    BY <1>2, <1>6 DEF FindOld, AddNew, Delete, SearchEnds
  <1>7. CASE WalkStart \/ WalkNextChain \/ WalkKeep
    BY <1>2, <1>7 DEF WalkStart, WalkNextChain, WalkKeep, Visits, Ready, searchVars
  <1>8. CASE WalkExpire
    <2>1. Walking /\ v \in live /\ id[v] \in Ids
      BY <1>8 DEF WalkExpire, Visits, WalkInv, LinkInv, Linked
    <2>2. Search("delete", id[v]) /\ UNCHANGED <<linkVars, walkVars>>
      BY <1>8 DEF WalkExpire
    <2>3. call' = "delete" /\ goal' = id[v]
      BY <2>2 DEF Search
    <2>. QED  BY <1>3, <2>1, <2>2, <2>3 DEF SearchInv, Walking, walkVars, linkVars
  <1>9. CASE DeleteStale \/ UNCHANGED vars
    BY <1>1, <1>9 DEF DeleteStale, vars, walkVars
  <1>. QED  BY <1>4, <1>5, <1>6, <1>7, <1>8, <1>9 DEF Next

LEMMA NextWalk == HashInv /\ [Next]_vars => WalkInv'
  <1>. SUFFICES ASSUME HashInv, [Next]_vars PROVE WalkInv'
    OBVIOUS
  <1>. USE DEF HashInv
  <1>a. \A n \in live : HashIndex(id[n]) \in Chains
    BY IndexIsChain DEF LinkInv, Linked
  <1>1. ASSUME UNCHANGED <<linkVars, walkVars>> PROVE WalkInv'
    BY <1>1 DEF linkVars, walkVars, WalkInv, Walking
  <1>2. ASSUME NEW i \in Ids, NEW n \in Nodes, FindOrAdd(i, n) PROVE WalkInv'
    BY <1>1, <1>2 DEF FindOrAdd
  <1>3. CASE Collision \/ FindOld \/ WalkExpire
    BY <1>1, <1>3 DEF Collision, FindOld, WalkExpire
  <1>4. CASE AddNew
    BY <1>4 DEF AddNew, SearchInv, WalkInv, Walking, walkVars
  <1>5. CASE WalkStart
    <2>1. /\ walk' = 0 /\ v' = hashtable[0] /\ visited' = {} /\ left' = {}
          /\ hashtable' = hashtable /\ next' = next /\ id' = id /\ live' = live
      BY <1>5 DEF WalkStart, FirstChain, linkVars
    <2>2. v' \in live \cup {Null} /\ (v' # Null => HashIndex(id[v']) = 0)
      BY <2>1, ChainFacts DEF LinkInv, Roots
    <2>3. \A n \in live : ~(HashIndex(id[n]) < 0)
      BY <1>a, TableAssumption DEF Chains
    <2>. QED  BY <2>1, <2>2, <2>3, ChainFacts DEF WalkInv
  <1>6. CASE WalkNextChain
    <2>1. /\ Walking /\ v = Null /\ walk' = walk + 1 /\ walk \in Chains
          /\ visited' = visited /\ left' = left
          /\ hashtable' = hashtable /\ next' = next /\ id' = id /\ live' = live
      BY <1>6 DEF WalkNextChain, linkVars, WalkInv
    <2>2. SUFFICES ASSUME walk + 1 # TableLength PROVE WalkInv'
      BY <2>1 DEF WalkInv, Walking
    <2>3. walk + 1 \in Chains
      BY <2>1, <2>2, TableAssumption DEF Chains
    <2>4. v' = hashtable[walk + 1]
      BY <1>6, <2>3 DEF WalkNextChain
    <2>5. v' \in live \cup {Null} /\ (v' # Null => HashIndex(id[v']) = walk + 1)
      BY <2>3, <2>4 DEF LinkInv, Roots
    <2>6. \A c \in left : c <= walk + 1 /\ c # walk + 1
      BY <2>1 DEF WalkInv, Chains, TypeOK
    <2>7. \A n \in visited \cap live : HashIndex(id[n]) <= walk + 1 /\ HashIndex(id[n]) # walk + 1
      BY <1>a, <2>1 DEF WalkInv, Chains
    <2>8. \A n \in live \ visited : HashIndex(id[n]) < walk + 1 => HashIndex(id[n]) \in left
      BY <1>a, <2>1, ChainVisited DEF Chains
    <2>. QED  BY <2>1, <2>3, <2>4, <2>5, <2>6, <2>7, <2>8 DEF WalkInv
  <1>7. CASE WalkKeep
    <2>1. /\ Walking /\ v # Null /\ v \in live /\ walk' = walk /\ walk \in Chains
          /\ visited' = visited \cup {v} /\ v' = next[v] /\ left' = left
          /\ hashtable' = hashtable /\ next' = next /\ id' = id /\ live' = live
          /\ HashIndex(id[v]) = walk /\ walk \notin left
      BY <1>7 DEF WalkKeep, Visits, linkVars, WalkInv
    <2>2. v' \in live \cup {Null} /\ (v' # Null => HashIndex(id[v']) = walk)
      BY <2>1 DEF LinkInv, Linked
    <2>3. \A c \in left : c <= walk
      BY <2>1 DEF WalkInv
    <2>4. \A n \in visited' \cap live : HashIndex(id[n]) <= walk
      BY <2>1 DEF WalkInv, Chains
    <2>5. /\ hashtable[walk] \in visited' \cup {v'}
          /\ \A n \in visited' \cap live : HashIndex(id[n]) = walk => next[n] \in visited' \cup {v'}
      BY <2>1 DEF WalkInv
    <2>6. \A n \in live \ visited' : HashIndex(id[n]) < walk => HashIndex(id[n]) \in left
      BY <2>1 DEF WalkInv
    <2>. QED  BY <2>1, <2>2, <2>3, <2>4, <2>5, <2>6 DEF WalkInv
  <1>8. CASE Delete
    <2>1. Walking /\ walk \in Chains
      BY <1>8 DEF Delete, SearchInv, WalkInv
    <2>2. /\ walk' = walk /\ v' = Null /\ visited' = visited \cup {v} /\ left' = left \cup {walk}
          /\ live' = live \ {at} /\ at = v
      BY <1>8, DeletesItsNode DEF Delete, AfterExpiry
    <2>3. \A n \in live' : n \in live /\ id'[n] = id[n]
      BY <1>8, <2>2 DEF Delete, TypeOK
    <2>4. \A c \in left' : c <= walk
      BY <2>1, <2>2 DEF WalkInv, Chains
    <2>5. \A n \in visited' \cap live' : HashIndex(id'[n]) <= walk
      BY <2>1, <2>2, <2>3 DEF WalkInv
    <2>6. \A n \in live' \ visited' : HashIndex(id'[n]) < walk => HashIndex(id'[n]) \in left'
      BY <2>1, <2>2, <2>3 DEF WalkInv
    <2>. QED  BY <2>1, <2>2, <2>4, <2>5, <2>6 DEF WalkInv
  <1>9. CASE DeleteStale \/ UNCHANGED vars
    BY <1>1, <1>9 DEF DeleteStale, vars
  <1>. QED  BY <1>2, <1>3, <1>4, <1>5, <1>6, <1>7, <1>8, <1>9 DEF Next

LEMMA Hash == Spec => []HashInv
  <1>1. HashInv /\ [Next]_vars => HashInv'
    BY NextType, NextLinks, NextSearch, NextWalk DEF HashInv
  <1>. QED  BY InitHash, <1>1, PTL DEF Spec

-----------------------------------------------------------------------------
(* Theorems                                                                *)

(* The links, the searches and the walk keep their types.                  *)
THEOREM TypeCorrect == Spec => []TypeOK
  <1>1. HashInv => TypeOK
    BY DEF HashInv
  <1>. QED  BY Hash, <1>1, PTL

(* A beacon has one node, in every table.                                  *)
THEOREM OneNode == Spec => []OneNodePerBeacon
  <1>1. HashInv => OneNodePerBeacon
    BY DEF HashInv, LinkInv
  <1>. QED  BY Hash, <1>1, PTL

(* Backward links mirror the forward ones.                                 *)
THEOREM LinksMirror == Spec => []BackLinks
  <1>1. HashInv => BackLinks
    BY DEF HashInv, LinkInv, Linked, BackLinks
  <1>. QED  BY Hash, <1>1, PTL

(* Neither walk nor search stands on a freed node, and a walk deletes the  *)
(* node it is at.                                                          *)
THEOREM StandsOnLive == Spec => []NeverOnFreed
  <1>1. HashInv => NeverOnFreed
    BY DeletesItsNode, TableAssumption
       DEF HashInv, WalkInv, SearchInv, NeverOnFreed, TypeOK
  <1>. QED  BY Hash, <1>1, PTL

(* Only a root can have a backward link that is stale.                     *)
THEOREM StaleAreRoots == Spec => []OnlyRootsAreStale
  <1>1. HashInv => OnlyRootsAreStale
    BY DEF HashInv, LinkInv, HasPrev, Rooted, OnlyRootsAreStale, StalePrev
  <1>. QED  BY Hash, <1>1, PTL

(* Every chain holds the allocated beacons that hash to it and no others.  *)
THEOREM ChainsComplete == Spec => []ChainsHoldLive
  <1>1. ASSUME HashInv, NEW c \in Chains
        PROVE  Reached(c) = {n \in live : HashIndex(id[n]) = c}
    <2>. DEFINE Own == {n \in live : HashIndex(id[n]) = c}
    <2>1. TypeOK /\ LinkInv /\ live \subseteq Nodes
      BY <1>1 DEF HashInv, TypeOK
    <2>2. Own \in SUBSET Nodes /\ Closed(c, Own)
      BY <2>1 DEF Closed, LinkInv, Linked, Roots
    <2>3. \A n \in Reached(c) : n \in Own
      BY <2>2 DEF Reached
    <2>4. ASSUME NEW n \in Own, NEW S \in SUBSET Nodes, Closed(c, S) PROVE n \in S
      <3>1. hashtable[c] \in (S \cap live) \cup {Null}
        BY <2>1, <2>4 DEF Closed, LinkInv, Roots
      <3>2. \A m \in S \cap live : HashIndex(id[m]) = c => next[m] \in (S \cap live) \cup {Null}
        BY <2>1, <2>4 DEF Closed, LinkInv, Linked
      <3>3. S \cap live \in SUBSET live
        OBVIOUS
      <3>. HIDE DEF Own
      <3>4. \A m \in live : HashIndex(id[m]) = c => m \in S \cap live
        BY <2>1, <3>1, <3>2, <3>3, ClosedHasChain
      <3>. QED  BY <3>4 DEF Own
    <2>5. \A n \in Own : n \in Reached(c)
      BY <2>1, <2>4 DEF Reached
    <2>. QED  BY <2>3, <2>5
  <1>2. HashInv => ChainsHoldLive
    BY <1>1 DEF ChainsHoldLive
  <1>. QED  BY Hash, <1>2, PTL

(* A walk misses only nodes of chains that it left at a deletion.          *)
THEOREM WalkIsComplete == Spec => WalkVisits
  <1>1. HashInv /\ [Next]_vars
        => [WalkNextChain /\ walk' = TableLength =>
              \A n \in live \ visited : HashIndex(id[n]) \in left]_vars
    <2>. SUFFICES ASSUME HashInv, WalkNextChain, walk' = TableLength, NEW n \in live \ visited
                  PROVE  HashIndex(id[n]) \in left
      OBVIOUS
    <2>1. walk \in Chains /\ walk + 1 = TableLength /\ Walking /\ v = Null
      BY DEF WalkNextChain, HashInv, WalkInv
    <2>2. HashIndex(id[n]) \in Chains
      BY IndexIsChain DEF HashInv, LinkInv, Linked
    <2>. QED  BY <2>1, <2>2, ChainVisited, TableAssumption DEF Chains
  <1>. QED  BY Hash, <1>1, PTL DEF Spec, WalkVisits
=============================================================================
