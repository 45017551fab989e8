------------------------------ MODULE FileLock ------------------------------
(***************************************************************************)
(* The lock file of the JSON stores (packages/backend/src/lib/             *)
(* file-lock.ts).  withFileLock runs without a pause in its own process,   *)
(* but every file operation is a step the other processes may come between *)
(* of.  A file stands for an inode together with its mtime, so a reused    *)
(* inode number is a new file.  A live holder is assumed to be done before *)
(* its lock is STALE_LOCK_MS old: only locks nobody holds grow stale.      *)
(***************************************************************************)
EXTENDS Naturals

CONSTANTS
  Processes,    \* the server processes
  Files,        \* the files that may serve as the lock
  NoFile,       \* nothing at a path, or no file open
  CrashAt,      \* the places in the code where a process may crash
  MaxCrashes    \* bound: how many crashes

VARIABLES
  path,         \* the file at lockPath
  stale,        \* the files older than STALE_LOCK_MS
  at,           \* where each process is
  own,          \* the file behind a process's fd
  seen,         \* the file breakIfStale looked at
  grave,        \* the file it moved away
  crashes       \* crashes so far

vars == <<path, stale, at, own, seen, grave, crashes>>

Places ==
  {"idle",      \* outside withFileLock
   "open",      \* about to create the lock
   "look",      \* found it taken, about to stat it
   "take",      \* found it stale, about to rename it away
   "giveBack",  \* renamed a fresh lock, about to link it back
   "bury",      \* about to unlink the grave
   "again",     \* about to retry or to give up
   "in",        \* runs fn under the lock
   "unlink"}    \* saw its own lock in place, about to unlink it
-----------------------------------------------------------------------------
Init ==
  /\ path = NoFile
  /\ stale = {}
  /\ at = [p \in Processes |-> "idle"]
  /\ own = [p \in Processes |-> NoFile]
  /\ seen = [p \in Processes |-> NoFile]
  /\ grave = [p \in Processes |-> NoFile]
  /\ crashes = 0

Go(p, place) == at' = [at EXCEPT ![p] = place]

\* The files something still refers to; any other is one not created yet.
InUse ==
  {path} \union {own[p] : p \in Processes} \union {seen[p] : p \in Processes}
         \union {grave[p] : p \in Processes}

Call(p) ==
  /\ at[p] = "idle"
  /\ Go(p, "open")
  /\ UNCHANGED <<path, stale, own, seen, grave, crashes>>

\* openSync with "wx": creates the file, or fails if there is one.
Create(p) ==
  /\ at[p] = "open"
  /\ path = NoFile
  /\ LET new == CHOOSE f \in Files : f \notin InUse
     IN  /\ path' = new
         /\ own' = [own EXCEPT ![p] = new]
         /\ stale' = stale \ {new}
  /\ Go(p, "in")
  /\ UNCHANGED <<seen, grave, crashes>>

Exists(p) ==
  /\ at[p] = "open"
  /\ path # NoFile
  /\ Go(p, "look")
  /\ UNCHANGED <<path, stale, own, seen, grave, crashes>>

WrongLook(p) ==
  /\ at[p] = "look"
  /\ Go(p, "again")
  /\ UNCHANGED <<path, stale, own, seen, grave, crashes>>

\* breakIfStale's stat: a lock that is gone or fresh is left alone.
Look(p) ==
  /\ at[p] = "look"
  /\ IF path \in stale
     THEN Go(p, "take") /\ seen' = [seen EXCEPT ![p] = path]
     ELSE Go(p, "again") /\ UNCHANGED seen
  /\ UNCHANGED <<path, stale, own, grave, crashes>>

\* Whether the file that was moved is another one than the file looked at.
WrongMovedAnother(p) == FALSE

MovedAnother(p) == path # seen[p]

\* The rename takes whatever is at the path now.
Take(p) ==
  /\ at[p] = "take"
  /\ seen' = [seen EXCEPT ![p] = NoFile]
  /\ IF path = NoFile
     THEN Go(p, "again") /\ UNCHANGED <<path, grave>>
     ELSE /\ path' = NoFile
          /\ grave' = [grave EXCEPT ![p] = path]
          /\ Go(p, IF MovedAnother(p) THEN "giveBack" ELSE "bury")
  /\ UNCHANGED <<stale, own, crashes>>

WrongGiveBack(p) ==
  /\ at[p] = "giveBack"
  /\ Go(p, "bury")
  /\ UNCHANGED <<path, stale, own, seen, grave, crashes>>

\* The link fails if a newer lock already sits there.
GiveBack(p) ==
  /\ at[p] = "giveBack"
  /\ path' = IF path = NoFile THEN grave[p] ELSE path
  /\ Go(p, "bury")
  /\ UNCHANGED <<stale, own, seen, grave, crashes>>

Bury(p) ==
  /\ at[p] = "bury"
  /\ grave' = [grave EXCEPT ![p] = NoFile]
  /\ Go(p, "again")
  /\ UNCHANGED <<path, stale, own, seen, crashes>>

\* The next attempt, or after WAIT_LIMIT_MS an error.
Again(p) ==
  /\ at[p] = "again"
  /\ Go(p, "open") \/ Go(p, "idle")
  /\ UNCHANGED <<path, stale, own, seen, grave, crashes>>

\* fn has returned or thrown, and release looks whose lock is in place.
Leave(p) ==
  /\ at[p] = "in"
  /\ IF path = own[p]
     THEN Go(p, "unlink") /\ UNCHANGED own
     ELSE Go(p, "idle") /\ own' = [own EXCEPT ![p] = NoFile]
  /\ UNCHANGED <<path, stale, seen, grave, crashes>>

WrongUnlink(p) ==
  /\ at[p] = "unlink"
  /\ path' = NoFile
  /\ Go(p, "idle")
  /\ UNCHANGED <<stale, own, seen, grave, crashes>>

Unlink(p) ==
  /\ at[p] = "unlink"
  /\ path' = NoFile
  /\ own' = [own EXCEPT ![p] = NoFile]
  /\ Go(p, "idle")
  /\ UNCHANGED <<stale, seen, grave, crashes>>

\* The process ends; its lock, or its grave, stays behind.
Crash(p) ==
  /\ at[p] \in CrashAt
  /\ crashes < MaxCrashes
  /\ crashes' = crashes + 1
  /\ Go(p, "idle")
  /\ own' = [own EXCEPT ![p] = NoFile]
  /\ seen' = [seen EXCEPT ![p] = NoFile]
  /\ grave' = [grave EXCEPT ![p] = NoFile]
  /\ UNCHANGED <<path, stale>>

\* STALE_LOCK_MS pass over a lock that no live process holds.
Age ==
  /\ path # NoFile
  /\ \A p \in Processes : own[p] # path
  /\ stale' = stale \union {path}
  /\ UNCHANGED <<path, at, own, seen, grave, crashes>>

Step(p) ==
  \/ Call(p) \/ Create(p) \/ Exists(p) \/ Look(p) \/ Take(p) \/ GiveBack(p)
  \/ Bury(p) \/ Again(p) \/ Leave(p) \/ Unlink(p)

Next == (\E p \in Processes : Step(p) \/ Crash(p)) \/ Age

Spec == Init /\ [][Next]_vars

\* The processes run, requests keep asking for the lock, and time passes.
FairSpec == Spec /\ WF_vars(Age) /\ \A p \in Processes : WF_vars(Step(p))
-----------------------------------------------------------------------------
\* The types, and that a process has a file open, judged or moved away
\* exactly where the code still needs it.
TypeOK ==
  /\ path \in Files \union {NoFile}
  /\ stale \subseteq Files
  /\ at \in [Processes -> Places]
  /\ own \in [Processes -> Files \union {NoFile}]
  /\ seen \in [Processes -> Files \union {NoFile}]
  /\ grave \in [Processes -> Files \union {NoFile}]
  /\ crashes \in 0 .. MaxCrashes
  /\ \A p \in Processes :
       /\ own[p] # NoFile <=> at[p] \in {"in", "unlink"}
       /\ seen[p] # NoFile <=> at[p] = "take"
       /\ grave[p] # NoFile <=> at[p] \in {"giveBack", "bury"}

\* "Cross-process mutual exclusion for the JSON stores": fn runs in one
\* process at a time.
MutualExclusion ==
  \A p, q \in Processes : at[p] = "in" /\ at[q] = "in" => p = q

\* A running fn's lock is in place, or in the hands of a process that moved
\* it by mistake and is about to give it back.
HeldLockIsKept ==
  \A p \in Processes : at[p] = "in" =>
    \/ path = own[p]
    \/ \E q \in Processes : at[q] = "giveBack" /\ grave[q] = own[p]

Taken == path # NoFile

\* No lock stays for ever: a crashed holder's lock, and one that was given
\* back to a process that had already left, are broken in the end.
LockComesFree == Taken ~> ~Taken
=============================================================================
