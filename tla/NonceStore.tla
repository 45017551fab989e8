----------------------------- MODULE NonceStore -----------------------------
(***************************************************************************)
(* The replay-protection store (services/nonce-store.ts): several server   *)
(* processes share the file used-nonces.json, each behind a cache it       *)
(* reloads when the identity of the file changed.  The store's functions   *)
(* are synchronous, so a process runs one of them at a time; between       *)
(* processes they interleave at every file operation.  markUsed and        *)
(* releaseNonce hold the file lock, isUsed does not.                       *)
(*                                                                         *)
(* The lock is taken here as mutual exclusion (module FileLock looks       *)
(* inside it); a lock left by a crashed process counts as free, which it   *)
(* becomes once it is stale.  A file version is a number: the stat triple  *)
(* changes with every rename.  Reading the JSON file yields what was last  *)
(* renamed into place.                                                     *)
(***************************************************************************)
EXTENDS Integers

CONSTANTS
  Procs,         \* server processes
  NoProc,        \* the lock is free
  Links,         \* nonce keys
  MaxWrites      \* bound on the number of saves

VARIABLES
  file,          \* [used, version]; version 0: the file does not exist
  cache,         \* process -> [set, version] of its CacheState
  lock,          \* the process that holds the file lock, or NoProc
  pc,            \* where each process is in the function it runs
  op,            \* the function and its argument
  seen,          \* the local `version` of load()
  held,          \* process -> the links it was handed and may give back
  grants,        \* link -> how often it was handed out and not given back
  unsaved        \* the links that some save failed to write

vars == <<file, cache, lock, pc, op, seen, held, grants, unsaved>>

NoCache == -1           \* version of a cache that was never loaded

Kinds == {"isUsed", "markUsed", "releaseNonce"}

Places == {"idle", "lock", "load", "read", "decide", "save", "stat"}

Init ==
  /\ file   = [used |-> {}, version |-> 0]
  /\ cache  = [p \in Procs |-> [set |-> {}, version |-> NoCache]]
  /\ lock   = NoProc
  /\ pc     = [p \in Procs |-> "idle"]
  /\ op     \in [Procs -> {[kind |-> "isUsed", link |-> l] : l \in Links}]
  /\ seen   = [p \in Procs |-> 0]
  /\ held   = [p \in Procs |-> {}]
  /\ grants = [l \in Links |-> 0]
  /\ unsaved = {}

Goto(p, place) == pc' = [pc EXCEPT ![p] = place]

(* The function returns or throws; a lock it holds is released.            *)
Return(p) ==
  /\ Goto(p, "idle")
  /\ lock' = IF lock = p THEN NoProc ELSE lock

------------------------------------------------------------------------------
(* Wrong: markUsed and releaseNonce run without the lock.                  *)
WrongCall(p, kind, link) ==
  /\ pc[p] = "idle"
  /\ kind = "releaseNonce" => link \in held[p]
  /\ op' = [op EXCEPT ![p] = [kind |-> kind, link |-> link]]
  /\ Goto(p, "load")
  /\ UNCHANGED <<file, cache, lock, seen, held, grants, unsaved>>

(* Wrong: a caller gives back a link it was not handed, for instance after *)
(* its markUsed threw.                                                     *)
WrongGiveBack(p, kind, link) ==
  /\ pc[p] = "idle"
  /\ op' = [op EXCEPT ![p] = [kind |-> kind, link |-> link]]
  /\ Goto(p, IF kind = "isUsed" THEN "load" ELSE "lock")
  /\ UNCHANGED <<file, cache, lock, seen, held, grants, unsaved>>

(* A caller enters one of the functions.  claim.ts calls releaseNonce only *)
(* for a link that its own markUsed obtained.                              *)
Call(p, kind, link) ==
  /\ pc[p] = "idle"
  /\ kind = "releaseNonce" => link \in held[p]
  /\ op' = [op EXCEPT ![p] = [kind |-> kind, link |-> link]]
  /\ Goto(p, IF kind = "isUsed" THEN "load" ELSE "lock")
  /\ UNCHANGED <<file, cache, lock, seen, held, grants, unsaved>>

AcquireLock(p) ==
  /\ pc[p] = "lock"
  /\ lock = NoProc
  /\ lock' = p
  /\ Goto(p, "load")
  /\ UNCHANGED <<file, cache, op, seen, held, grants, unsaved>>

(* WAIT_LIMIT_MS passed without the lock: the call throws.                 *)
LockTimeout(p) ==
  /\ pc[p] = "lock"
  /\ lock # NoProc
  /\ Goto(p, "idle")
  /\ UNCHANGED <<file, cache, lock, op, seen, held, grants, unsaved>>

(* Wrong: a cache once loaded is kept.                                     *)
WrongLoadVersion(p) ==
  /\ pc[p] = "load"
  /\ seen' = [seen EXCEPT ![p] = file.version]
  /\ Goto(p, IF cache[p].version # NoCache THEN "decide" ELSE "read")
  /\ UNCHANGED <<file, cache, lock, op, held, grants, unsaved>>

(* load(), first half: the version, and the decision to keep the cache.    *)
LoadVersion(p) ==
  /\ pc[p] = "load"
  /\ seen' = [seen EXCEPT ![p] = file.version]
  /\ Goto(p, IF cache[p].version = file.version THEN "decide" ELSE "read")
  /\ UNCHANGED <<file, cache, lock, op, held, grants, unsaved>>

(* Wrong: the version is taken after the contents, so a cache may carry    *)
(* the version of a write it has not seen.                                 *)
WrongReadFile(p) ==
  /\ pc[p] = "read"
  /\ \/ /\ seen[p] # NoCache
        /\ cache' = [cache EXCEPT ![p] = [set |-> file.used, version |-> NoCache]]
        /\ seen' = [seen EXCEPT ![p] = NoCache]
        /\ UNCHANGED pc
     \/ /\ seen[p] = NoCache
        /\ cache' = [cache EXCEPT ![p].version = file.version]
        /\ Goto(p, "decide")
        /\ UNCHANGED seen
  /\ UNCHANGED <<file, lock, op, held, grants, unsaved>>

(* load(), second half: the contents, filed under the version seen before. *)
ReadFile(p) ==
  /\ pc[p] = "read"
  /\ cache' = [cache EXCEPT ![p] = [set |-> file.used, version |-> seen[p]]]
  /\ Goto(p, "decide")
  /\ UNCHANGED <<file, lock, op, seen, held, grants, unsaved>>

------------------------------------------------------------------------------
(* What each function does with the loaded set.                            *)

IsUsed(p) ==
  /\ pc[p] = "decide"
  /\ op[p].kind = "isUsed"
  /\ Goto(p, "idle")
  /\ UNCHANGED <<file, cache, lock, op, seen, held, grants, unsaved>>

(* markUsed returns false, or adds the link to the cached set; likewise    *)
(* releaseNonce returns, or deletes it.  The set is changed before it is   *)
(* saved.                                                                  *)
Refuse(p) ==
  /\ pc[p] = "decide"
  /\ \/ op[p].kind = "markUsed" /\ op[p].link \in cache[p].set
     \/ op[p].kind = "releaseNonce" /\ op[p].link \notin cache[p].set
  /\ Return(p)
  /\ UNCHANGED <<file, cache, op, seen, held, grants, unsaved>>

Add(p) ==
  /\ pc[p] = "decide"
  /\ op[p].kind = "markUsed"
  /\ op[p].link \notin cache[p].set
  /\ cache' = [cache EXCEPT ![p] = [set |-> cache[p].set \union {op[p].link},
                                    version |-> cache[p].version]]
  /\ Goto(p, "save")
  /\ UNCHANGED <<file, lock, op, seen, held, grants, unsaved>>

Delete(p) ==
  /\ pc[p] = "decide"
  /\ op[p].kind = "releaseNonce"
  /\ op[p].link \in cache[p].set
  /\ cache' = [cache EXCEPT ![p] = [set |-> cache[p].set \ {op[p].link},
                                    version |-> cache[p].version]]
  /\ Goto(p, "save")
  /\ UNCHANGED <<file, lock, op, seen, held, grants, unsaved>>

------------------------------------------------------------------------------
(* save(): the rename makes the new set visible to every process; from     *)
(* there the link counts as handed out, or given back.                     *)

HandOut(p) ==
  /\ grants' = [grants EXCEPT ![op[p].link] = @ + 1]
  /\ held' = [held EXCEPT ![p] = @ \union {op[p].link}]

TakeBack(p) ==
  /\ grants' = [grants EXCEPT ![op[p].link] = @ - 1]
  /\ held' = [held EXCEPT ![p] = @ \ {op[p].link}]

Rename(p) ==
  /\ pc[p] = "save"
  /\ file.version < MaxWrites
  /\ file' = [used |-> cache[p].set, version |-> file.version + 1]
  /\ Goto(p, "stat")
  /\ IF op[p].kind = "markUsed" THEN HandOut(p) ELSE TakeBack(p)
  /\ UNCHANGED <<cache, lock, op, seen, unsaved>>

(* atomicWriteJson throws (disk full, no permission): the file keeps its   *)
(* contents and its version, the cached set keeps the change.  A caller    *)
(* whose releaseNonce throws is done with the link all the same.           *)
SaveFails(p) ==
  /\ pc[p] = "save"
  /\ unsaved' = unsaved \union {op[p].link}
  /\ IF op[p].kind = "releaseNonce" THEN TakeBack(p) ELSE UNCHANGED <<held, grants>>
  /\ Return(p)
  /\ UNCHANGED <<file, cache, op, seen>>

StatFile(p) ==
  /\ pc[p] = "stat"
  /\ cache' = [cache EXCEPT ![p] = [set |-> cache[p].set, version |-> file.version]]
  /\ Return(p)
  /\ UNCHANGED <<file, op, seen, held, grants, unsaved>>

(* The process dies: its memory is gone, so it gives nothing back.         *)
Crash(p) ==
  /\ cache' = [cache EXCEPT ![p] = [set |-> {}, version |-> NoCache]]
  /\ held' = [held EXCEPT ![p] = {}]
  /\ Return(p)
  /\ UNCHANGED <<file, op, seen, grants, unsaved>>

------------------------------------------------------------------------------
Step(p) ==
  \/ AcquireLock(p)
  \/ LockTimeout(p)
  \/ LoadVersion(p)
  \/ ReadFile(p)
  \/ IsUsed(p)
  \/ Refuse(p)
  \/ Add(p)
  \/ Delete(p)
  \/ Rename(p)
  \/ SaveFails(p)
  \/ StatFile(p)
  \/ Crash(p)

Next == \E p \in Procs :
  \/ \E kind \in Kinds, link \in Links : Call(p, kind, link)
  \/ Step(p)

Spec == Init /\ [][Next]_vars

------------------------------------------------------------------------------
(* Properties.                                                             *)

Versions == NoCache .. MaxWrites

(* The types of the file, the caches and the processes.                    *)
TypeOK ==
  /\ file \in [used : SUBSET Links, version : 0..MaxWrites]
  /\ cache \in [Procs -> [set : SUBSET Links, version : Versions]]
  /\ lock \in Procs \union {NoProc}
  /\ pc \in [Procs -> Places]
  /\ op \in [Procs -> [kind : Kinds, link : Links]]
  /\ seen \in [Procs -> Versions]
  /\ held \in [Procs -> SUBSET Links]
  /\ grants \in [Links -> Nat]
  /\ unsaved \subseteq Links

(* "without it two processes could hand the same link to two different     *)
(* wallets": no link is outstanding twice, whatever the interleaving of    *)
(* cached reads, locked writes, give-backs and crashes.                    *)
HandedOnce == \A l \in Links : grants[l] <= 1

(* markUsed returns "false if someone else got there first (i.e. the nonce *)
(* was already used)": a refused link is one that was handed out.          *)
Refusing(p) ==
  pc[p] = "decide" /\ op[p].kind = "markUsed" /\ op[p].link \in cache[p].set

RefusedOnlyIfConsumed == \A p \in Procs : Refusing(p) => grants[op[p].link] >= 1

(* The same, but for the links that a save failed to write.                *)
RefusedHasCause == \A p \in Procs :
  Refusing(p) => grants[op[p].link] >= 1 \/ op[p].link \in unsaved

(* "several Passenger processes share one consistent set": a process whose *)
(* cache has the file's version has the file's set, but for the link it is *)
(* about to save and the links that a save failed to write.                *)
CacheCoherent == \A p \in Procs :
  cache[p].version = file.version =>
    \A l \in Links :
      \/ l \in cache[p].set <=> l \in file.used
      \/ l \in unsaved
      \/ pc[p] = "save" /\ l = op[p].link

(* The file is the abstract register, as far as the saves succeed.         *)
saved == file.used \ unsaved

Register == INSTANCE NonceRegister WITH used <- saved

RegisterStep == [Register!Next]_saved

RegisterSpec == Register!Spec
==============================================================================
