----------------------------- MODULE ConfigFile -----------------------------
(***************************************************************************)
(* The configuration file the two processes share (config.c, uci.c).  The  *)
(* parent re-reads it, changes its tree and writes the tree back, in       *)
(* place; the child re-reads it whenever it is asked for server.json, and  *)
(* serves its pages from a web root that may be a string in its tree.      *)
(*                                                                         *)
(* libconfig is modelled from how config.c uses it: writing opens the file *)
(* for writing, which empties it, and the text, shorter than a buffer of   *)
(* stdio, follows in one piece when the file is closed; an empty file has  *)
(* no settings and is no error; reading forgets the tree there was.  A     *)
(* write may fail at either step, and nobody looks at its result.          *)
(*                                                                         *)
(* Nobody calls fsync either: the medium gets what was written when the    *)
(* system writes it back, and after a power cut the file is what it was at *)
(* some moment since then.  Only ipc_reboot has everything written first.  *)
(*                                                                         *)
(* UCI, the other store, is modelled from how uci.c uses it: what is saved *)
(* waits until a commit of its package, by whichever command; a commit     *)
(* that fails, or a restart, may leave it there or forget it; what is      *)
(* committed stays.                                                        *)
(***************************************************************************)
EXTENDS Integers

CONSTANTS
    Keys,        \* settings the file can hold
    Files,       \* what the file can hold at first
    LongIs64,    \* whether a long of the build is longer than an int
    Options,     \* options of a package of UCI
    Lists,       \* those that are lists
    Contents,    \* what an option that is no list can be set to
    Entries,     \* what a list can have in it
    None,        \* no content
    Faults,      \* what may go wrong with the file: "write", "power"
    MaxCommands  \* bound: how many commands the parent runs

VARIABLES
    disk,       \* the file: what each key is set to
    kept,       \* what the file may be after a power cut
    tree,       \* cfg of the parent
    child,      \* cfg of the child
    pc,         \* the parent: "idle", "open" or "write" (in config_local_write), "off"
    ran,        \* how many commands were run
    timer,      \* whether a restart is due
    accepted,   \* history: what each key was last set to with success
    confirmed,  \* history: what of that was answered Ok
    first,      \* history: what the file was at first
    unsaved,    \* history: the file is not what was answered Ok
    lost,       \* history: the file was re-read after that
    uci,        \* UCI: what each option was last committed as
    saved,      \* UCI: what was saved and not committed, or None
    answered,   \* history: what each option was last set to with success
    pending,    \* history: what commits of it that failed since would have set it to
    docroot     \* the child's web root: "fixed", "tree" (a string in child), "freed"

fileVars == <<disk, kept, tree, child, accepted, confirmed, first, unsaved, lost>>
uciVars  == <<uci, saved, answered, pending>>
vars == <<pc, ran, timer, docroot, fileVars, uciVars>>

Types  == {"string", "int", "float", "bool"}

(* Posted: a number in range, no number, a number that is none of an int   *)
(* but one of a long of 64 bits or a double, one out of every range.       *)
Values == {"good", "word", "big", "huge"}

Unset      == [type |-> "none", val |-> "none"]
NoSettings == [k \in Keys |-> Unset]

(* An option has one content, a list is set to entries between commas.     *)
ContentsOf(o) == IF o \in Lists THEN SUBSET Entries ELSE {{c} : c \in Contents}
AllContents   == SUBSET (Contents \cup Entries)

-----------------------------------------------------------------------------
(* Reading and setting                                                     *)

(* What the getters of config.c look each setting up as.                   *)
LookedUpAs ==
  [server |-> "string", port |-> "string", report_interval |-> "int",
   path_loss |-> "float", haab |-> "float", webroot |-> "string"]

ASSUME ConfigAssumption ==
    /\ Keys \subseteq DOMAIN LookedUpAs /\ "webroot" \in Keys
    /\ MaxCommands \in Nat
    /\ LongIs64 \in BOOLEAN /\ Faults \subseteq {"write", "power"}
    /\ Lists \subseteq Options
    /\ \A c \in AllContents : c # None
    /\ \A file \in Files : file \in [Keys -> {Unset} \cup [type : Types, val : {"good"}]]

(* The keys http_valid_cmd lets pass.                                      *)
Postable == Keys \ {"webroot"}

(* setting_types, which knows "host" where the file says "server".         *)
Creatable == [LookedUpAs EXCEPT !["server"] = "unknown", !["webroot"] = "unknown"]

(* Mutant of SettingType: whatever is created is a string.                 *)
BugSettingType(key) == IF Creatable[key] = "unknown" THEN "unknown" ELSE "string"

SettingType(key) == Creatable[key]

(* config_lookup; a setting that is not in the file is added, a number     *)
(* being zero, if its type is known.                                       *)
Found(cfg, key) ==
    IF cfg[key] = Unset /\ SettingType(key) # "unknown"
      THEN [cfg EXCEPT ![key] = [type |-> SettingType(key), val |-> "zero"]]
      ELSE cfg

(* strtol and strtod take what is no number for zero and what is out of    *)
(* range for the limit; what strtol gives is then cut to an int.           *)
Converted(type, val) ==
    IF type = "string" \/ val = "good" THEN val
    ELSE IF val = "word" THEN "zero"
    ELSE IF val = "huge" THEN "limit"
    ELSE IF type = "float" THEN val
    ELSE IF LongIs64 THEN "cut" ELSE "limit"

(* Mutant of Refused: errno is not looked at.                              *)
BugRefused(type, val) == type \notin {"string", "int", "float"}

Refused(type, val) ==
    \/ type \notin {"string", "int", "float"}
    \/ type # "string" /\ val = "huge"
    \/ type = "int" /\ val = "big" /\ ~LongIs64

(* Whether what is no number sets errno depends on the C library.          *)
MayBeRefused(type, val) ==
    Refused(type, val) \/ (type # "string" /\ val = "word")

Stored(cfg, key, val) ==
    [cfg EXCEPT ![key].val = Converted(cfg[key].type, val)]

NothingSaved == [o \in Options |-> None]

(* What an option is when a package has been loaded with what was saved.   *)
Loaded(o) == IF saved[o] = None THEN uci[o] ELSE saved[o]

(* Nobody looks at whether the entries of a list were deleted and added.   *)
StoredAs(o, content) ==
    IF o \in Lists
      THEN {base \cup part : base \in {{}, Loaded(o)}, part \in SUBSET content}
      ELSE {content}

(* Mutant of Committed: what was saved before, without what is saved now.  *)
BugCommitted(waiting) == [o \in Options |-> Loaded(o)]

(* A commit takes everything that was saved, also by an earlier command.   *)
Committed(waiting) ==
    [o \in Options |-> IF waiting[o] = None THEN uci[o] ELSE waiting[o]]

(* Mutant of Synced: the machine restarts without a sync.                  *)
BugSynced == kept

(* sync: the medium has the file as it is.                                 *)
Synced == {disk}

-----------------------------------------------------------------------------
(* The web root: a string in the tree if it is the file's and a directory, *)
(* and fixed if it comes from the command line or the program.             *)

Webroots(cfg) ==
    IF cfg["webroot"].type = "string" THEN {"tree", "fixed"} ELSE {"fixed"}

-----------------------------------------------------------------------------
(* The parent                                                              *)

Init ==
    /\ disk \in Files
    /\ kept = {disk} /\ tree = disk /\ child = disk
    /\ accepted = disk /\ confirmed = disk /\ first = disk
    /\ pc = "idle" /\ ran = 0 /\ timer = FALSE /\ unsaved = FALSE /\ lost = FALSE
    /\ uci \in {u \in [Options -> AllContents] : \A o \in Options : u[o] \in ContentsOf(o)}
    /\ answered = uci /\ saved = NothingSaved /\ pending = [o \in Options |-> {}]
    /\ docroot \in Webroots(disk)

Run ==
    /\ pc = "idle" /\ ran < MaxCommands
    /\ ran' = ran + 1

(* config_set re-reads the file before anything else.                      *)
ReRead == lost' = (lost \/ unsaved)

ConfSet(key, val) ==
    LET found == Found(disk, key) IN
    /\ Run /\ ReRead
    /\ found[key] # Unset /\ ~Refused(found[key].type, val)
    /\ tree' = Stored(found, key, val)
    /\ accepted' = [accepted EXCEPT ![key] =
                       [type |-> found[key].type,
                        val  |-> Converted(found[key].type, val)]]
    /\ pc' = "open"
    /\ UNCHANGED <<disk, kept, child, timer, confirmed, first, unsaved, uciVars, docroot>>

(* The setting stays unknown, or cannot take the value; one that was added *)
(* stays in the tree.                                                      *)
ConfRefused(key, val) ==
    LET found == Found(disk, key) IN
    /\ Run /\ ReRead
    /\ found[key] = Unset \/ MayBeRefused(found[key].type, val)
    /\ tree' = found
    /\ UNCHANGED <<disk, kept, child, pc, timer, accepted, confirmed, first, unsaved,
                   uciVars, docroot>>

(* uci_simple_set: an option is set, saved and committed; the tree of the  *)
(* configuration is written all the same.                                  *)
UciSet(o, content) ==
    /\ Run
    /\ \E stored \in StoredAs(o, content) : uci' = Committed([saved EXCEPT ![o] = stored])
    /\ saved' = NothingSaved
    /\ answered' = [answered EXCEPT ![o] = content]
    /\ pending' = [pending EXCEPT ![o] = {}]
    /\ pc' = "open"
    /\ UNCHANGED <<timer, fileVars, docroot>>

(* No section, lookup, set or save: nothing has changed.                   *)
UciRefused ==
    /\ Run
    /\ UNCHANGED <<pc, timer, fileVars, uciVars, docroot>>

(* The save went well and the commit did not: CONFIG_UCI_COMMIT_FAIL.      *)
UciCommitFails(o, content) ==
    /\ Run
    /\ \E stored \in StoredAs(o, content) :
          /\ saved' \in {[saved EXCEPT ![o] = stored], NothingSaved}
          /\ pending' = [pending EXCEPT ![o] = @ \cup {stored}]
    /\ UNCHANGED <<pc, timer, uci, answered, fileVars, docroot>>

(* IPC_CMD_RESTART: in five seconds.                                       *)
RestartCommand ==
    /\ Run
    /\ timer' = TRUE
    /\ UNCHANGED <<pc, fileVars, uciVars, docroot>>

OpenFile ==
    /\ pc = "open"
    /\ pc' = "write"
    /\ disk' = NoSettings /\ kept' = kept \cup {NoSettings}
    /\ UNCHANGED <<tree, child, ran, timer, accepted, confirmed, first, unsaved, lost,
                   uciVars, docroot>>

CloseFile ==
    /\ pc = "write"
    /\ pc' = "idle"
    /\ disk' = tree /\ kept' = kept \cup {tree}
    /\ confirmed' = accepted /\ unsaved' = FALSE
    /\ UNCHANGED <<tree, child, ran, timer, accepted, first, lost, uciVars, docroot>>

(* fopen or fclose fails, which config_local_write does not see.           *)
WriteFails ==
    /\ "write" \in Faults
    /\ pc \in {"open", "write"}
    /\ pc' = "idle"
    /\ confirmed' = accepted /\ unsaved' = TRUE
    /\ UNCHANGED <<disk, kept, tree, child, ran, timer, accepted, first, lost,
                   uciVars, docroot>>

-----------------------------------------------------------------------------
(* The child, and the machine                                              *)

(* server_json: config_refresh, which frees the tree there was.            *)
ServerJson ==
    /\ pc # "off"
    /\ child' = disk
    /\ docroot' = IF docroot = "tree" THEN "freed" ELSE docroot
    /\ UNCHANGED <<disk, kept, tree, pc, ran, timer, accepted, confirmed, first,
                   unsaved, lost, uciVars>>

(* The system writes the file back to its medium.                          *)
WriteBack ==
    /\ pc # "off"
    /\ kept' = {disk}
    /\ UNCHANGED <<pc, ran, timer, disk, tree, child, accepted, confirmed, first,
                   unsaved, lost, uciVars, docroot>>

(* The machine stops with one of these files, and perhaps without what UCI *)
(* has saved; a command that was not answered is forgotten.                *)
Stop(files) ==
    /\ pc' = "off" /\ timer' = FALSE
    /\ disk' \in files /\ kept' = {disk'}
    /\ accepted' = confirmed
    /\ saved' \in {saved, NothingSaved}
    /\ UNCHANGED <<tree, child, ran, confirmed, first, lost, uci, answered, pending,
                   docroot>>

(* ipc_reboot, called from the parent's loop between two commands.         *)
Restart ==
    /\ pc = "idle" /\ timer
    /\ Stop(Synced)
    /\ UNCHANGED unsaved

PowerCut ==
    /\ "power" \in Faults
    /\ pc # "off"
    /\ Stop(kept)
    /\ unsaved' = (unsaved \/ disk' # disk \/ pc = "write")

(* config_start; the child gets a copy, and looks the web root up in it.   *)
Boot ==
    /\ pc = "off"
    /\ pc' = "idle"
    /\ tree' = disk /\ child' = disk
    /\ ReRead
    /\ docroot' \in Webroots(disk)
    /\ UNCHANGED <<disk, kept, ran, timer, accepted, confirmed, first, unsaved,
                   uciVars>>

Next ==
    \/ \E key \in Postable, val \in Values : ConfSet(key, val)
    \/ \E key \in Postable, val \in Values : ConfRefused(key, val)
    \/ \E o \in Options : \E content \in ContentsOf(o) : UciSet(o, content)
    \/ UciRefused
    \/ \E o \in Options : \E content \in ContentsOf(o) : UciCommitFails(o, content)
    \/ RestartCommand
    \/ OpenFile \/ CloseFile \/ WriteFails
    \/ ServerJson \/ WriteBack \/ Restart \/ PowerCut \/ Boot

Spec == Init /\ [][Next]_vars

-----------------------------------------------------------------------------
(* Properties                                                              *)

(* An int is the number posted, or zero for what is none, or what was left *)
(* of a number too big for it where a long is longer than an int.          *)
Setting ==
    {Unset} \cup [type : {"string"}, val : Values \cup {"zero"}]
            \cup [type : {"int"}, val : {"good", "zero"} \cup {v \in {"cut"} : LongIs64}]
            \cup [type : {"float"}, val : {"good", "big", "zero"}]
            \cup [type : {"bool"}, val : {"good"}]

FileTypes ==
    /\ {disk, tree, child, accepted, confirmed, first} \cup kept \subseteq [Keys -> Setting]
    /\ pc \in {"idle", "open", "write", "off"}
    /\ ran \in 0 .. MaxCommands
    /\ timer \in BOOLEAN /\ unsaved \in BOOLEAN /\ lost \in BOOLEAN

UciTypes ==
    /\ {uci, answered} \subseteq [Options -> AllContents]
    /\ saved \in [Options -> {None} \cup AllContents]
    /\ pending \in [Options -> SUBSET AllContents]

WebTypes == docroot \in {"fixed", "tree", "freed"}

(* Every variable holds values of its type: a number that config_set       *)
(* stores is never the limit of strtol or strtod, though it may be zero or *)
(* what the cut to an int has left of it.                                  *)
TypeOK == FileTypes /\ UciTypes /\ WebTypes

(* What config_set adds has the type its getter looks up: a setting of     *)
(* another type has been in the file from the first, through refused       *)
(* values, failed writes and power cuts.                                   *)
AddedIsReadable ==
    \A k \in Keys : tree[k].type \in {"none", LookedUpAs[k], first[k].type}

(* A value is as it was set, or a zero added for a value that was refused. *)
Holds(cfg, set, k) ==
    cfg[k] = set[k] \/ (set[k] = Unset /\ cfg[k].val = "zero")

(* Commands of any kind, refused or not, restarts, and a power cut after   *)
(* the file was written back lose no value that was accepted: the parent   *)
(* holds them all, and between commands the file does.  This stops when    *)
(* the file is read again after a write that failed, a power cut during a  *)
(* write, or one that took back what was not written back yet.             *)
AcceptedIsKept ==
    ~lost => \A k \in Keys :
        /\ pc # "off" => Holds(tree, accepted, k)
        /\ pc = "idle" /\ ~unsaved => Holds(disk, accepted, k)

(* An option holds what it was last set to with success, or a value of     *)
(* which the commit failed since then, and no other (uci_simple_set).      *)
HoldsAnswered(o) == uci[o] \in {answered[o]} \cup pending[o]

(* This is so of every option that is no list, whatever failed in between. *)
UciHoldsAnswered == \A o \in Options \ Lists : HoldsAnswered(o)

-----------------------------------------------------------------------------
(* What the repository says, and the code does not do                      *)

(* "anytime we need current values we'll need to refresh the childs        *)
(* config_t" (config.c:121): after a refresh the child has every setting   *)
(* that was answered Ok, and no value it goes on with, the web root, is    *)
(* one of the tree that was freed.                                         *)
RefreshIsCurrent ==
    [][ServerJson => /\ \A k \in Keys : Holds(child', confirmed, k)
                     /\ docroot' # "freed"]_vars

(* The parent answers a refused value with "Cannot coerce %s into proper   *)
(* type for persistence." (ipc-privileged.c:185): nothing of it persists.  *)
RefusedIsNotSaved ==
    ~lost /\ ~unsaved /\ pc = "idle" => disk = accepted
=============================================================================
