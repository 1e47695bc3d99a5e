-------------------------- MODULE ConfigFileProofs --------------------------
(***************************************************************************)
(* Theorems of ConfigFile, for every set of keys, every set of first files *)
(* and every number of commands.                                           *)
(***************************************************************************)
EXTENDS ConfigFile, TLAPS

(* What setting_types knows of a key is none of the type the key has not.  *)
LEMMA SettingTypes ==
    ASSUME NEW key \in Keys
    PROVE  SettingType(key) \in {"string", "int", "float", "unknown"}
  BY ConfigAssumption DEF SettingType, Creatable, LookedUpAs

(* config_lookup and config_setting_add keep the shape of a tree.          *)
LEMMA FoundType ==
    ASSUME NEW cfg \in [Keys -> Setting], NEW key \in Keys
    PROVE  Found(cfg, key) \in [Keys -> Setting]
  <1>1. [type |-> SettingType(key), val |-> "zero"] \in Setting
        \/ SettingType(key) = "unknown"
    BY SettingTypes DEF Setting, Unset, Values
  <1>. QED  BY <1>1 DEF Found

(* strtol and strtod, where errno is looked at, do not give the limit.     *)
LEMMA ConvertedType ==
    ASSUME NEW s \in Setting, s # Unset, NEW val \in Values, ~Refused(s.type, val)
    PROVE  [type |-> s.type, val |-> Converted(s.type, val)] \in Setting
  <1>1. s.type \in {"string", "int", "float"}
    BY DEF Refused
  <1>2. CASE s.type = "string"
    <2>1. Converted(s.type, val) = val
      BY <1>2 DEF Converted
    <2>. QED  BY <1>2, <2>1 DEF Setting
  <1>3. CASE s.type = "float"
    <2>1. val \in {"good", "word", "big"}
      BY <1>3 DEF Refused, Values
    <2>2. Converted(s.type, val) \in {"good", "zero", "big"}
      BY <1>3, <2>1 DEF Converted
    <2>. QED  BY <1>3, <2>2 DEF Setting
  <1>4. CASE s.type = "int"
    <2>1. val \in {"good", "word"} \/ (val = "big" /\ LongIs64)
      BY <1>4, ConfigAssumption DEF Refused, Values
    <2>2. Converted(s.type, val) \in {"good", "zero"} \cup {v \in {"cut"} : LongIs64}
      BY <1>4, <2>1 DEF Converted
    <2>. QED  BY <1>4, <2>2 DEF Setting
  <1>. QED  BY <1>1, <1>2, <1>3, <1>4

(* Setting a value changes one setting, to what the value is converted to. *)
LEMMA StoredIs ==
    ASSUME NEW cfg \in [Keys -> Setting], NEW key \in Keys, NEW val \in Values
    PROVE  Stored(cfg, key, val) =
             [cfg EXCEPT ![key] = [type |-> cfg[key].type,
                                   val  |-> Converted(cfg[key].type, val)]]
  <1>1. \A c : [cfg[key] EXCEPT !.val = c] = [type |-> cfg[key].type, val |-> c]
    BY DEF Setting, Unset
  <1>. QED  BY <1>1 DEF Stored

-----------------------------------------------------------------------------
(* Types                                                                   *)

LEMMA InitFile == Init => FileTypes
  <1>1. [type : Types, val : {"good"}] \subseteq Setting
    BY DEF Types, Setting, Values
  <1>2. Unset \in Setting
    BY DEF Setting
  <1>. SUFFICES ASSUME Init PROVE FileTypes
    OBVIOUS
  <1>3. disk \in [Keys -> Setting]
    BY <1>1, <1>2, ConfigAssumption DEF Init
  <1>4. {disk, tree, child, accepted, confirmed, first} \cup kept = {disk}
    BY DEF Init
  <1>5. 0 \in 0 .. MaxCommands
    BY ConfigAssumption
  <1>. QED  BY <1>3, <1>4, <1>5 DEF Init, FileTypes

LEMMA NextFile == FileTypes /\ [Next]_vars => FileTypes'
  <1>. SUFFICES ASSUME FileTypes, [Next]_vars PROVE FileTypes'
    OBVIOUS
  <1>. USE DEF FileTypes
  <1>a. Run => ran' \in 0 .. MaxCommands
    BY ConfigAssumption DEF Run
  <1>b. NoSettings \in [Keys -> Setting]
    BY DEF NoSettings, Setting
  <1>1. ASSUME NEW key \in Postable, NEW val \in Values, ConfSet(key, val)
        PROVE  FileTypes'
    <2>. DEFINE found == Found(disk, key)
                new   == [type |-> found[key].type,
                          val  |-> Converted(found[key].type, val)]
    <2>0. key \in Keys
      BY DEF Postable
    <2>1. found \in [Keys -> Setting]
      BY <2>0, FoundType
    <2>2. new \in Setting
      BY <1>1, <2>0, <2>1, ConvertedType DEF ConfSet
    <2>3. tree' = [found EXCEPT ![key] = new]
      BY <1>1, <2>0, <2>1, StoredIs DEF ConfSet
    <2>4. accepted' = [accepted EXCEPT ![key] = new]
      BY <1>1 DEF ConfSet
    <2>5. lost' \in BOOLEAN
      BY <1>1 DEF ConfSet, ReRead
    <2>. HIDE DEF found, new
    <2>. QED  BY <1>1, <1>a, <2>1, <2>2, <2>3, <2>4, <2>5 DEF ConfSet
  <1>2. ASSUME NEW key \in Postable, NEW val \in Values, ConfRefused(key, val)
        PROVE  FileTypes'
    <2>1. tree' \in [Keys -> Setting]
      BY <1>2, FoundType DEF ConfRefused, Postable
    <2>. QED  BY <1>2, <1>a, <2>1 DEF ConfRefused, ReRead
  <1>3. CASE \E o \in Options : \E content \in ContentsOf(o) : UciSet(o, content)
    BY <1>3, <1>a DEF UciSet, fileVars
  <1>4. CASE UciRefused \/ RestartCommand
    BY <1>4, <1>a DEF UciRefused, RestartCommand, fileVars
  <1>5. CASE \E o \in Options : \E content \in ContentsOf(o) : UciCommitFails(o, content)
    BY <1>5, <1>a DEF UciCommitFails, fileVars
  <1>6. CASE OpenFile
    BY <1>6, <1>b DEF OpenFile
  <1>7. CASE CloseFile
    BY <1>7 DEF CloseFile
  <1>8. CASE WriteFails
    BY <1>8 DEF WriteFails
  <1>9. CASE ServerJson
    BY <1>9 DEF ServerJson
  <1>10. CASE Restart \/ PowerCut \/ WriteBack
    BY <1>10 DEF Restart, PowerCut, WriteBack, Stop, Synced
  <1>11. CASE Boot
    BY <1>11 DEF Boot, ReRead
  <1>12. CASE UNCHANGED vars
    BY <1>12 DEF vars, fileVars
  <1>. QED
    BY <1>1, <1>2, <1>3, <1>4, <1>5, <1>6, <1>7, <1>8, <1>9, <1>10,
       <1>11, <1>12 DEF Next

-----------------------------------------------------------------------------
(* UCI                                                                     *)

(* What is stored of a list, whether or not its entries were deleted and   *)
(* added, is a list of entries; of any other option it is what was posted. *)
LEMMA StoredType ==
    ASSUME UciTypes, NEW o \in Options, NEW content \in ContentsOf(o),
           NEW stored \in StoredAs(o, content)
    PROVE  /\ content \in AllContents /\ stored \in AllContents /\ stored # None
           /\ o \notin Lists => stored = content
  <1>1. content \subseteq Contents \cup Entries
    BY DEF ContentsOf
  <1>2. Loaded(o) \subseteq Contents \cup Entries
    BY DEF Loaded, UciTypes, AllContents
  <1>3. stored \subseteq Contents \cup Entries
    BY <1>1, <1>2 DEF StoredAs
  <1>4. o \notin Lists => stored = content
    BY DEF StoredAs
  <1>. QED  BY <1>1, <1>3, <1>4, ConfigAssumption DEF AllContents

(* Only a value whose commit failed waits, and what is committed was       *)
(* answered with success or waited.                                        *)
UciInv ==
    /\ UciTypes
    /\ \A o \in Options : saved[o] \in {None} \cup pending[o]
    /\ UciHoldsAnswered

LEMMA InitUci == Init => UciInv
  BY DEF Init, UciInv, UciTypes, NothingSaved, UciHoldsAnswered, HoldsAnswered

LEMMA NextUci == UciInv /\ [Next]_vars => UciInv'
  <1>. SUFFICES ASSUME UciInv, [Next]_vars PROVE UciInv'
    OBVIOUS
  <1>. USE DEF UciInv, UciTypes
  <1>a. NothingSaved \in [Options -> {None} \cup AllContents]
    BY DEF NothingSaved
  <1>b. ASSUME UNCHANGED <<uci, answered, pending>>, saved' \in {saved, NothingSaved}
        PROVE  UciInv'
    BY <1>a, <1>b DEF NothingSaved, UciHoldsAnswered, HoldsAnswered
  <1>1. ASSUME NEW o \in Options, NEW content \in ContentsOf(o), UciSet(o, content)
        PROVE  UciInv'
    <2>1. PICK stored \in StoredAs(o, content) :
                 uci' = Committed([saved EXCEPT ![o] = stored])
      BY <1>1 DEF UciSet
    <2>. DEFINE waiting == [saved EXCEPT ![o] = stored]
    <2>2. /\ content \in AllContents /\ stored \in AllContents /\ stored # None
          /\ o \notin Lists => stored = content
      BY StoredType
    <2>3. waiting \in [Options -> {None} \cup AllContents]
      BY <2>2
    <2>4. /\ answered' = [answered EXCEPT ![o] = content]
          /\ saved' = NothingSaved /\ pending' = [pending EXCEPT ![o] = {}]
      BY <1>1 DEF UciSet
    <2>5. uci' = [p \in Options |-> IF waiting[p] = None THEN uci[p] ELSE waiting[p]]
      BY <2>1 DEF Committed
    <2>6. UciTypes'
      <3>1. uci' \in [Options -> AllContents]
        BY <2>3, <2>5
      <3>2. {} \in SUBSET AllContents
        OBVIOUS
      <3>. QED  BY <1>a, <2>2, <2>4, <3>1, <3>2
    <2>7. ASSUME NEW p \in Options \ Lists PROVE HoldsAnswered(p)'
      <3>1. CASE p = o
        BY <2>2, <2>4, <2>5, <3>1 DEF HoldsAnswered
      <3>2. CASE p # o
        <4>1. uci'[p] \in {uci[p]} \cup pending[p]
          BY <2>5, <3>2
        <4>2. pending'[p] = pending[p] /\ answered'[p] = answered[p]
          BY <2>4, <3>2
        <4>. QED  BY <4>1, <4>2 DEF UciHoldsAnswered, HoldsAnswered
      <3>. QED  BY <3>1, <3>2
    <2>8. \A p \in Options : saved'[p] = None
      BY <2>4 DEF NothingSaved
    <2>. QED  BY <2>6, <2>7, <2>8 DEF UciHoldsAnswered
  <1>2. ASSUME NEW o \in Options, NEW content \in ContentsOf(o),
               UciCommitFails(o, content)
        PROVE  UciInv'
    <2>1. PICK stored \in StoredAs(o, content) :
             /\ saved' \in {[saved EXCEPT ![o] = stored], NothingSaved}
             /\ pending' = [pending EXCEPT ![o] = @ \cup {stored}]
      BY <1>2 DEF UciCommitFails
    <2>2. stored \in AllContents
      BY StoredType
    <2>3. UNCHANGED <<uci, answered>>
      BY <1>2 DEF UciCommitFails
    <2>4. pending' \in [Options -> SUBSET AllContents]
      BY <2>1, <2>2
    <2>5. \A p \in Options : pending[p] \subseteq pending'[p]
      BY <2>1
    <2>6. saved' \in [Options -> {None} \cup AllContents]
      BY <1>a, <2>1, <2>2
    <2>7. \A p \in Options : saved'[p] \in {None} \cup pending'[p]
      BY <2>1, <2>5 DEF NothingSaved
    <2>8. UciHoldsAnswered'
      BY <2>3, <2>5 DEF UciHoldsAnswered, HoldsAnswered
    <2>. QED  BY <2>3, <2>4, <2>6, <2>7, <2>8
  <1>3. CASE UciRefused \/ RestartCommand
    BY <1>b, <1>3 DEF UciRefused, RestartCommand, uciVars
  <1>4. ASSUME NEW key \in Postable, NEW val \in Values,
               ConfSet(key, val) \/ ConfRefused(key, val)
        PROVE  UciInv'
    BY <1>b, <1>4 DEF ConfSet, ConfRefused, uciVars
  <1>5. CASE OpenFile \/ CloseFile \/ WriteFails
    BY <1>b, <1>5 DEF OpenFile, CloseFile, WriteFails, uciVars
  <1>6. CASE ServerJson \/ WriteBack \/ Boot
    BY <1>b, <1>6 DEF ServerJson, WriteBack, Boot, uciVars
  <1>7. CASE Restart \/ PowerCut
    BY <1>b, <1>7 DEF Restart, PowerCut, Stop
  <1>8. CASE UNCHANGED vars
    BY <1>b, <1>8 DEF vars, uciVars
  <1>. QED  BY <1>1, <1>2, <1>3, <1>4, <1>5, <1>6, <1>7, <1>8 DEF Next

(* An option that is no list holds what it was last set to with success,   *)
(* or a value of which the commit has failed since: no other command, no   *)
(* restart and no power cut gives it another one (uci_simple_set).         *)
THEOREM UciHolds == Spec => []UciHoldsAnswered
  <1>1. UciInv => UciHoldsAnswered
    BY DEF UciInv
  <1>. QED  BY <1>1, InitUci, NextUci, PTL DEF Spec

-----------------------------------------------------------------------------
(* The web root                                                            *)

LEMMA InitWeb == Init => WebTypes
  BY DEF Init, WebTypes, Webroots

LEMMA NextWeb == WebTypes /\ [Next]_vars => WebTypes'
  <1>. SUFFICES ASSUME WebTypes, [Next]_vars PROVE WebTypes'
    OBVIOUS
  <1>. USE DEF WebTypes
  <1>1. CASE ServerJson \/ Boot
    BY <1>1 DEF ServerJson, Boot, Webroots
  <1>2. CASE Restart \/ PowerCut \/ WriteBack
    BY <1>2 DEF Restart, PowerCut, WriteBack, Stop
  <1>3. CASE OpenFile \/ CloseFile \/ WriteFails
    BY <1>3 DEF OpenFile, CloseFile, WriteFails
  <1>4. ASSUME NEW key \in Postable, NEW val \in Values,
               ConfSet(key, val) \/ ConfRefused(key, val)
        PROVE  WebTypes'
    BY <1>4 DEF ConfSet, ConfRefused
  <1>5. ASSUME NEW o \in Options, NEW content \in ContentsOf(o),
               UciSet(o, content) \/ UciCommitFails(o, content)
        PROVE  WebTypes'
    BY <1>5 DEF UciSet, UciCommitFails
  <1>6. CASE UciRefused \/ RestartCommand
    BY <1>6 DEF UciRefused, RestartCommand
  <1>7. CASE UNCHANGED vars
    BY <1>7 DEF vars
  <1>. QED
    BY <1>1, <1>2, <1>3, <1>4, <1>5, <1>6, <1>7 DEF Next

-----------------------------------------------------------------------------

(* Every variable keeps its type: whatever was posted, and whatever went   *)
(* wrong with the file since, a number in it is never the limit of strtol  *)
(* or strtod, and one that was cut to an int is there only on a build      *)
(* whose long is longer than an int (config_set).                          *)
THEOREM TypeCorrect == Spec => []TypeOK
  <1>1. UciInv => UciTypes
    BY DEF UciInv
  <1>. QED
    BY <1>1, InitFile, NextFile, InitUci, NextUci, InitWeb, NextWeb, PTL
       DEF Spec, TypeOK

-----------------------------------------------------------------------------
(* What is accepted is kept                                                *)

(* While a command is under way the file is still as it was confirmed, or  *)
(* is being written; off, it is as confirmed if nothing went wrong.        *)
KeptInv ==
    ~lost => \A k \in Keys :
        /\ pc # "off" => Holds(tree, accepted, k)
        /\ pc # "write" /\ ~unsaved => Holds(disk, confirmed, k)
        /\ pc \in {"idle", "off"} => accepted[k] = confirmed[k]

(* Adding a setting to the tree adds no value but the zero of a number.    *)
LEMMA FoundKeeps ==
    ASSUME NEW key \in Keys, disk \in [Keys -> Setting],
           \A k \in Keys : Holds(disk, confirmed, k)
    PROVE  \A k \in Keys : Holds(Found(disk, key), confirmed, k)
  BY DEF Holds, Found, Unset

(* A command re-reads what was confirmed, if nothing was lost.             *)
LEMMA FoundIsAccepted ==
    ASSUME TypeOK, KeptInv, ~lost, ~unsaved, pc = "idle", NEW key \in Keys
    PROVE  \A k \in Keys : Holds(Found(disk, key), accepted, k)
  <1>1. \A k \in Keys : Holds(disk, confirmed, k)
    BY DEF KeptInv
  <1>2. \A k \in Keys : Holds(Found(disk, key), confirmed, k)
    BY <1>1, FoundKeeps DEF TypeOK, FileTypes
  <1>. QED  BY <1>2 DEF KeptInv, Holds

(* An accepted value is held by the parent, and by the file between        *)
(* commands, until the file is re-read after a write that failed, or after *)
(* a power cut that hit a write or came before the file was written back   *)
(* (config_set, config_local_write, config_start, ipc_reboot).             *)
THEOREM AcceptedKept == Spec => []AcceptedIsKept
  <1>1. Init => KeptInv
    BY DEF Init, KeptInv, Holds
  <1>2. TypeOK /\ KeptInv /\ [Next]_vars => KeptInv'
    <2>. SUFFICES ASSUME TypeOK, KeptInv, [Next]_vars, ~lost' PROVE KeptInv'
      BY DEF KeptInv
    <2>1. ASSUME NEW key \in Postable, NEW val \in Values, ConfSet(key, val)
          PROVE  KeptInv'
      <3>. DEFINE found == Found(disk, key)
                  new   == [type |-> found[key].type,
                            val  |-> Converted(found[key].type, val)]
      <3>0. key \in Keys
        BY DEF Postable
      <3>1. ~lost /\ ~unsaved /\ pc = "idle"
        BY <2>1 DEF ConfSet, Run, ReRead
      <3>2. \A k \in Keys : Holds(found, accepted, k)
        BY <3>0, <3>1, FoundIsAccepted
      <3>3. found \in [Keys -> Setting]
        BY <3>0, FoundType DEF TypeOK, FileTypes
      <3>4. tree' = [found EXCEPT ![key] = new]
        BY <2>1, <3>0, <3>3, StoredIs DEF ConfSet
      <3>5. accepted' = [accepted EXCEPT ![key] = new]
        BY <2>1 DEF ConfSet
      <3>6. pc' = "open" /\ UNCHANGED <<disk, confirmed, unsaved>>
        BY <2>1 DEF ConfSet
      <3>. HIDE DEF found, new
      <3>7. ASSUME NEW k \in Keys PROVE Holds(tree, accepted, k)'
        BY <3>2, <3>3, <3>4, <3>5 DEF Holds, TypeOK, FileTypes
      <3>8. ASSUME NEW k \in Keys PROVE Holds(disk, confirmed, k)'
        BY <3>1, <3>6 DEF KeptInv, Holds
      <3>. QED  BY <3>6, <3>7, <3>8 DEF KeptInv
    <2>2. ASSUME NEW key \in Postable, NEW val \in Values, ConfRefused(key, val)
          PROVE  KeptInv'
      <3>1. ~lost /\ ~unsaved /\ pc = "idle"
        BY <2>2 DEF ConfRefused, Run, ReRead
      <3>2. \A k \in Keys : Holds(Found(disk, key), accepted, k)
        BY <3>1, FoundIsAccepted DEF Postable
      <3>3. /\ tree' = Found(disk, key)
            /\ UNCHANGED <<pc, disk, accepted, confirmed, unsaved>>
        BY <2>2 DEF ConfRefused
      <3>. QED  BY <3>1, <3>2, <3>3 DEF KeptInv, Holds
    <2>3. ASSUME NEW o \in Options, NEW content \in ContentsOf(o),
                 UciSet(o, content) \/ UciCommitFails(o, content)
          PROVE  KeptInv'
      <3>1. UNCHANGED <<disk, tree, accepted, confirmed, unsaved, lost>>
        BY <2>3 DEF UciSet, UciCommitFails, fileVars
      <3>2. pc = "idle" /\ pc' \in {"idle", "open"}
        BY <2>3 DEF UciSet, UciCommitFails, Run
      <3>. QED  BY <3>1, <3>2 DEF KeptInv, Holds
    <2>4. CASE OpenFile
      BY <2>4 DEF OpenFile, KeptInv, Holds
    <2>5. CASE CloseFile
      BY <2>5 DEF CloseFile, KeptInv, Holds
    <2>6. CASE WriteFails
      BY <2>6 DEF WriteFails, KeptInv, Holds
    <2>7. CASE ServerJson \/ WriteBack
      BY <2>7 DEF ServerJson, WriteBack, KeptInv, Holds
    <2>8. CASE Restart
      BY <2>8 DEF Restart, Stop, Synced, KeptInv, Holds
    <2>9. CASE PowerCut
      BY <2>9 DEF PowerCut, Stop, KeptInv, Holds, TypeOK, FileTypes
    <2>10. CASE Boot
      BY <2>10 DEF Boot, ReRead, KeptInv, Holds
    <2>11. CASE UNCHANGED vars
      BY <2>11 DEF vars, fileVars, KeptInv, Holds
    <2>12. CASE UciRefused \/ RestartCommand
      BY <2>12 DEF UciRefused, RestartCommand, fileVars, KeptInv, Holds
    <2>. QED
      BY <2>1, <2>2, <2>3, <2>4, <2>5, <2>6, <2>7, <2>8, <2>9, <2>10, <2>11,
         <2>12 DEF Next
  <1>3. KeptInv => AcceptedIsKept
    BY DEF KeptInv, AcceptedIsKept, Holds
  <1>. QED  BY <1>1, <1>2, <1>3, TypeCorrect, PTL DEF Spec

-----------------------------------------------------------------------------
(* What is added can be read                                               *)

Readable(cfg) ==
    \A k \in Keys : cfg[k].type \in {"none", LookedUpAs[k], first[k].type}

(* Neither the parent nor the file, nor any file a power cut may bring     *)
(* back, has a setting of a third type.                                    *)
ReadableInv == \A cfg \in {tree, disk} \cup kept : Readable(cfg)

(* What is added has the type that is looked up.                           *)
LEMMA FoundIsReadable ==
    ASSUME disk \in [Keys -> Setting], Readable(disk), NEW key \in Keys
    PROVE  Readable(Found(disk, key))
  <1>. SUFFICES ASSUME NEW k \in Keys
                PROVE  Found(disk, key)[k].type \in {"none", LookedUpAs[k], first[k].type}
    BY DEF Readable
  <1>1. SettingType(k) \in {"unknown", LookedUpAs[k]}
    BY ConfigAssumption DEF SettingType, Creatable, LookedUpAs
  <1>2. Found(disk, key)[k].type \in {disk[k].type, LookedUpAs[k]}
    BY <1>1 DEF Found
  <1>. QED  BY <1>2 DEF Readable

(* What config_set adds has the type its getter looks up; only what was in *)
(* the file from the first has another (config_set).                       *)
THEOREM AddedReadable == Spec => []AddedIsReadable
  <1>1. Init => ReadableInv
    BY DEF Init, ReadableInv, Readable
  <1>2. TypeOK /\ ReadableInv /\ [Next]_vars => ReadableInv'
    <2>. SUFFICES ASSUME TypeOK, ReadableInv, [Next]_vars PROVE ReadableInv'
      OBVIOUS
    <2>0. first' = first
      BY DEF Next, vars, fileVars, ConfSet, ConfRefused, UciSet, UciRefused,
             UciCommitFails, RestartCommand, OpenFile, CloseFile, WriteFails, ServerJson,
             WriteBack, Restart, PowerCut, Stop, Boot
    <2>a. ASSUME Readable(tree'), Readable(disk'), \A cfg \in kept' : Readable(cfg)
          PROVE  ReadableInv'
      BY <2>0, <2>a DEF ReadableInv, Readable
    <2>b. /\ Readable(tree) /\ Readable(disk)
          /\ \A cfg \in kept : Readable(cfg)
      BY DEF ReadableInv
    <2>1. ASSUME NEW key \in Postable, NEW val \in Values, ConfSet(key, val)
          PROVE  ReadableInv'
      <3>. DEFINE found == Found(disk, key)
      <3>1. key \in Keys /\ disk \in [Keys -> Setting]
        BY DEF Postable, TypeOK, FileTypes
      <3>2. Readable(found) /\ found \in [Keys -> Setting]
        BY <2>b, <3>1, FoundIsReadable, FoundType
      <3>3. tree' = Stored(found, key, val) /\ UNCHANGED <<disk, kept>>
        BY <2>1 DEF ConfSet
      <3>4. ASSUME NEW k \in Keys PROVE tree'[k].type = found[k].type
        <4>. DEFINE new == [type |-> found[key].type,
                            val  |-> Converted(found[key].type, val)]
        <4>1. tree' = [found EXCEPT ![key] = new]
          BY <3>1, <3>2, <3>3, StoredIs
        <4>2. new.type = found[key].type
          OBVIOUS
        <4>. HIDE DEF new, found
        <4>. QED  BY <3>1, <3>2, <4>1, <4>2
      <3>5. Readable(tree')
        BY <3>2, <3>4 DEF Readable
      <3>. QED  BY <2>a, <2>b, <3>3, <3>5
    <2>2. ASSUME NEW key \in Postable, NEW val \in Values, ConfRefused(key, val)
          PROVE  ReadableInv'
      <3>1. Readable(Found(disk, key))
        BY <2>b, FoundIsReadable DEF Postable, TypeOK, FileTypes
      <3>2. tree' = Found(disk, key) /\ UNCHANGED <<disk, kept>>
        BY <2>2 DEF ConfRefused
      <3>. QED  BY <2>a, <2>b, <3>1, <3>2
    <2>3. CASE OpenFile
      <3>1. Readable(NoSettings)
        BY DEF Readable, NoSettings, Unset
      <3>. QED  BY <2>3, <2>a, <2>b, <3>1 DEF OpenFile
    <2>4. CASE CloseFile
      BY <2>4, <2>a, <2>b DEF CloseFile
    <2>5. CASE Restart
      BY <2>5, <2>a, <2>b DEF Restart, Stop, Synced
    <2>6. CASE PowerCut
      BY <2>6, <2>a, <2>b DEF PowerCut, Stop
    <2>7. CASE WriteFails \/ ServerJson \/ WriteBack \/ Boot
      BY <2>7, <2>a, <2>b DEF WriteFails, ServerJson, WriteBack, Boot
    <2>8. CASE \E o \in Options : \E content \in ContentsOf(o) :
                   UciSet(o, content) \/ UciCommitFails(o, content)
      BY <2>8, <2>a, <2>b DEF UciSet, UciCommitFails, fileVars
    <2>9. CASE UciRefused \/ RestartCommand
      BY <2>9, <2>a, <2>b DEF UciRefused, RestartCommand, fileVars
    <2>10. CASE UNCHANGED vars
      BY <2>10, <2>a, <2>b DEF vars, fileVars
    <2>. QED
      BY <2>1, <2>2, <2>3, <2>4, <2>5, <2>6, <2>7, <2>8, <2>9, <2>10 DEF Next
  <1>3. ReadableInv => AddedIsReadable
    BY DEF ReadableInv, Readable, AddedIsReadable
  <1>. QED  BY <1>1, <1>2, <1>3, TypeCorrect, PTL DEF Spec
=============================================================================
