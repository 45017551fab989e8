---------------------------- MODULE SurveyKeyFile ---------------------------
(***************************************************************************)
(* The key table of services/survey-keys.ts: one file, which the server    *)
(* processes each cache together with the version they loaded.  createKey, *)
(* rotateKey and deleteKey run under the file's lock and without an await, *)
(* so each is one step; a reader takes no lock, and looks at the version   *)
(* before it reads the file.                                               *)
(***************************************************************************)
EXTENDS Naturals

CONSTANTS
  Procs, Surveys,
  MaxVersion,    \* bound on the writes
  MaxKeys        \* bound on the keys generated; 0 stands for no key

VARIABLES
  keys,          \* the file: survey -> key
  version,       \* fileVersion: changes with every write
  readable,      \* the file parses
  made,          \* keys generated so far
  cache,         \* process -> its table
  cacheVersion,  \* process -> the version it looked at; 0 when nothing is loaded
  reading,       \* processes between fileVersion and readFileSync
  unsaved        \* process -> surveys its table changed for, without a save

vars == <<keys, version, readable, made, cache, cacheVersion, reading, unsaved>>

NoKeys == [s \in Surveys |-> 0]

Init ==
  /\ keys \in [Surveys -> {0, 1}] /\ version = 1 /\ readable = TRUE
  /\ made = 1
  /\ cache = [p \in Procs |-> NoKeys] /\ cacheVersion = [p \in Procs |-> 0]
  /\ reading = {} /\ unsaved = [p \in Procs |-> {}]

\* A file that does not parse is taken as empty.
Content == IF readable THEN keys ELSE NoKeys

WrongStale(p) == cacheVersion[p] = 0

Stale(p) == cacheVersion[p] # version

-----------------------------------------------------------------------------
(* Readers.                                                                *)

\* load, up to the file.
LookAtVersion(p) ==
  /\ p \notin reading /\ Stale(p)
  /\ cacheVersion' = [cacheVersion EXCEPT ![p] = version]
  /\ reading' = reading \union {p}
  /\ UNCHANGED <<keys, version, readable, made, cache, unsaved>>

ReadFile(p) ==
  /\ p \in reading
  /\ cache' = [cache EXCEPT ![p] = Content]
  /\ unsaved' = [unsaved EXCEPT ![p] = {}]
  /\ reading' = reading \ {p}
  /\ UNCHANGED <<keys, version, readable, made, cacheVersion>>

-----------------------------------------------------------------------------
(* Writers.                                                                *)

\* load, under the lock.
Loaded(p) == IF Stale(p) THEN Content ELSE cache[p]

StillUnsaved(p) == IF Stale(p) THEN {} ELSE unsaved[p]

\* The table changes in memory, then save writes it whole, or throws.
SaveOrThrow(p, s, key) ==
  LET table == [Loaded(p) EXCEPT ![s] = key] IN
  /\ p \notin reading
  /\ cache' = [cache EXCEPT ![p] = table]
  /\ \/ /\ version < MaxVersion
        /\ keys' = table /\ version' = version + 1 /\ readable' = TRUE
        /\ cacheVersion' = [cacheVersion EXCEPT ![p] = version + 1]
        /\ unsaved' = [unsaved EXCEPT ![p] = {}]
     \/ /\ cacheVersion' = [cacheVersion EXCEPT ![p] = version]
        /\ unsaved' = [unsaved EXCEPT ![p] = StillUnsaved(p) \union {s}]
        /\ UNCHANGED <<keys, version, readable>>
  /\ UNCHANGED reading

Fresh == made < MaxKeys /\ made' = made + 1

createKey(p, s) == Loaded(p)[s] = 0 /\ Fresh /\ SaveOrThrow(p, s, made + 1)

rotateKey(p, s) == Loaded(p)[s] # 0 /\ Fresh /\ SaveOrThrow(p, s, made + 1)

deleteKey(p, s) == Loaded(p)[s] # 0 /\ SaveOrThrow(p, s, 0) /\ UNCHANGED made

-----------------------------------------------------------------------------
(* The surroundings.                                                       *)

\* Somebody's edit, or a full disk, leaves a file that does not parse.
Damage ==
  /\ readable /\ version < MaxVersion
  /\ readable' = FALSE /\ version' = version + 1
  /\ UNCHANGED <<keys, made, cache, cacheVersion, reading, unsaved>>

Restart(p) ==
  /\ cache' = [cache EXCEPT ![p] = NoKeys] /\ cacheVersion' = [cacheVersion EXCEPT ![p] = 0]
  /\ unsaved' = [unsaved EXCEPT ![p] = {}]
  /\ reading' = reading \ {p}
  /\ UNCHANGED <<keys, version, readable, made>>

Next ==
  \/ \E p \in Procs : LookAtVersion(p) \/ ReadFile(p) \/ Restart(p)
  \/ \E p \in Procs, s \in Surveys : createKey(p, s) \/ rotateKey(p, s) \/ deleteKey(p, s)
  \/ Damage

Spec == Init /\ [][Next]_vars

-----------------------------------------------------------------------------
(* Properties.                                                             *)

\* Types.
TypeOK ==
  /\ keys \in [Surveys -> 0 .. MaxKeys] /\ version \in 1 .. MaxVersion
  /\ readable \in BOOLEAN /\ made \in 1 .. MaxKeys
  /\ cache \in [Procs -> [Surveys -> 0 .. MaxKeys]]
  /\ cacheVersion \in [Procs -> 0 .. MaxVersion]
  /\ reading \subseteq Procs /\ unsaved \in [Procs -> SUBSET Surveys]

OtherKeysStay ==
  readable /\ keys' # keys =>
    \E p \in Procs, s \in Surveys :
      \A t \in Surveys \ ({s} \union unsaved[p]) : keys'[t] = keys[t]

\* "Reloads when another Passenger process rewrote the file, so a key it
\* created or rotated is seen here on the next request": every writer saves
\* its whole table, and still a step changes the key of one survey in the
\* file; others only where this process had failed to save a change.
KeysAreKept == [][OtherKeysStay]_vars
=============================================================================
