----------------------------- MODULE EventStore -----------------------------
(***************************************************************************)
(* The backend's cache of contract events                                  *)
(* (packages/backend/src/services/json-file-event-store.ts) with the span  *)
(* adaptation of its log source (packages/backend/src/lib/log-reader.ts).  *)
(*                                                                         *)
(* A sync run asks for the chain height, then fetches window after window, *)
(* storing each one with its checkpoint before the next.  Between two      *)
(* awaits of a run anything else may happen: the chain grows, the watchdog *)
(* abandons the run, which lives on as a zombie, another run starts, the   *)
(* process restarts.  Every action is what one run does between two        *)
(* awaits.                                                                 *)
(*                                                                         *)
(* Blocks are counted from the contract's deploy block.  The three event   *)
(* lists hold no entry twice (dropDuplicates), so they are modelled as the *)
(* set of the blocks whose events they hold.  The log source answers       *)
(* completely for the blocks it is asked for; the heights it reports may   *)
(* lag behind the chain.  The await of the role hash, made once per        *)
(* process, is part of the fetch that follows it.                          *)
(***************************************************************************)
EXTENDS Integers

CONSTANTS
  Runs,         \* the runs that may exist at a time, zombies included
  NoRun,        \* no run
  Torn,         \* the contents of a file that does not parse
  EventBlocks,  \* the blocks in which the contract logs an event
  MaxHead,      \* bound: the height at which the chain stops growing
  MaxSpan,      \* the largest block span of a window
  MaxRestarts   \* bound: how often the process restarts

ASSUME NoRunAssumption == NoRun \notin Runs
ASSUME BlocksAssumption == EventBlocks \subseteq Nat \ {0}
ASSUME BoundsAssumption ==
  MaxHead \in Nat /\ MaxSpan \in Nat \ {0} /\ MaxRestarts \in Nat

VARIABLES
  head,         \* the height of the chain
  store,        \* the in-memory store: its checkpoint and its events
  file,         \* what data/events.json holds
  span,         \* the log reader's block span
  at,           \* where each run is: "idle", asking the "height", in a "fetch"
  latest,       \* the height each run works towards
  from, to,     \* the window each run has asked for
  current,      \* the run whose generation is runGeneration, if any
  holder,       \* the lockHolder while `syncing`, if any
  racing,       \* the runs whose runLocked still waits for their runSync
  freshTo,      \* the height that was reached when the cache last counted as fresh
  restarts      \* restarts so far

runVars == <<at, latest, from, to>>
lockVars == <<current, holder, racing>>
vars == <<head, store, file, span, at, latest, from, to, current, holder,
          racing, freshTo, restarts>>
-----------------------------------------------------------------------------
History(n) == {b \in EventBlocks : b <= n}

Prefix(n) == [upto |-> n, events |-> History(n)]

Smaller(a, b) == IF a < b THEN a ELSE b

Larger(a, b) == IF a > b THEN a ELSE b

Init ==
  /\ head = 0
  /\ store = Prefix(0)
  /\ file = Prefix(0)
  /\ span = MaxSpan
  /\ at = [r \in Runs |-> "idle"]
  /\ latest = [r \in Runs |-> 0]
  /\ from = [r \in Runs |-> 0]
  /\ to = [r \in Runs |-> 0]
  /\ current = NoRun
  /\ holder = NoRun
  /\ racing = {}
  /\ freshTo = 0
  /\ restarts = 0
-----------------------------------------------------------------------------
(* How a run ends.  A run that already lost its race (racing) has nobody   *)
(* who listens to its outcome.                                             *)

Leave(r) ==
  /\ at' = [at EXCEPT ![r] = "idle"]
  /\ latest' = [latest EXCEPT ![r] = 0]
  /\ from' = [from EXCEPT ![r] = 0]
  /\ to' = [to EXCEPT ![r] = 0]

WrongLockAfter(r) == NoRun

\* The lock after r gives it up: a force-released lock belongs to another run.
LockAfter(r) == IF holder = r THEN NoRun ELSE holder

\* After an error runGeneration moves past an abandoned run.
GenerationAfterError(r) == IF current = r THEN NoRun ELSE current

WrongSettleError(r) ==
  /\ current' = GenerationAfterError(r)
  /\ racing' = racing \ {r}
  /\ UNCHANGED <<holder, freshTo>>

\* runLocked's catch and finally: the run threw, or its watchdog fired.
SettleError(r) ==
  /\ current' = GenerationAfterError(r)
  /\ holder' = LockAfter(r)
  /\ racing' = racing \ {r}
  /\ UNCHANGED freshTo

\* runLocked's end when runSync answered caughtUp for the height h.
SettleAnswer(r, caughtUp, h) ==
  /\ freshTo' = IF caughtUp THEN h ELSE freshTo
  /\ holder' = LockAfter(r)
  /\ racing' = racing \ {r}
  /\ UNCHANGED current

Finish(r, caughtUp, h) ==
  /\ Leave(r)
  /\ IF r \in racing THEN SettleAnswer(r, caughtUp, h)
                     ELSE UNCHANGED <<lockVars, freshTo>>

Throw(r) ==
  /\ Leave(r)
  /\ IF r \in racing THEN SettleError(r) ELSE UNCHANGED <<lockVars, freshTo>>
-----------------------------------------------------------------------------
(* A run, from one await to the next.                                      *)

WrongWindowEnd(first, width, last) == first + width - 1

WindowEnd(first, width, last) == Smaller(first + width - 1, last)

\* The head of the window loop: the next window, as wide as the span allows.
AskWindow(r, first, last) ==
  /\ at' = [at EXCEPT ![r] = "fetch"]
  /\ latest' = [latest EXCEPT ![r] = last]
  /\ from' = [from EXCEPT ![r] = first]
  /\ to' = [to EXCEPT ![r] = WindowEnd(first, span', last)]
  /\ UNCHANGED <<lockVars, freshTo>>

\* sync: from the interval, a read, a health probe, a write or the retry
\* timer.  A held lock is respected until it is older than the timeout.
Start(r) ==
  /\ at[r] = "idle"
  /\ at' = [at EXCEPT ![r] = "height"]
  /\ current' = r
  /\ holder' = r
  /\ racing' = racing \union {r}
  /\ UNCHANGED <<head, store, file, span, latest, from, to, freshTo, restarts>>

Sync(r) == holder = NoRun /\ Start(r)

ForceRelease(r) == holder # NoRun /\ Start(r)

\* getBlockNumber answers h, which may lag behind the head.
Height(r, h) ==
  /\ at[r] = "height"
  /\ UNCHANGED <<head, store, file, span, restarts>>
  /\ IF store.upto + 1 > h THEN Finish(r, TRUE, h)
                           ELSE AskWindow(r, store.upto + 1, h)

\* The span after a full-span answer: one of several successes may double it.
Spans(r) ==
  {span} \union (IF to[r] - from[r] + 1 < span THEN {} ELSE {Smaller(MaxSpan, 2 * span)})

\* Every source refused the range: the span halves, and the same blocks are
\* asked for again unless the budget is used up or the window was one block.
Rejected(r, outOfTime) ==
  /\ at[r] = "fetch"
  /\ span' = Larger(1, Smaller(span, (to[r] - from[r] + 1) \div 2))
  /\ UNCHANGED <<head, store, file, restarts>>
  /\ IF to[r] = from[r] THEN Throw(r)
     ELSE IF outOfTime THEN Finish(r, FALSE, 0)
     ELSE AskWindow(r, from[r], latest[r])

\* Any other error: a source that fails or does not answer, or the reader's
\* own "superseded" for a run that is no longer current.
CallFails(r) ==
  /\ at[r] # "idle"
  /\ UNCHANGED <<head, store, file, span, restarts>>
  /\ Throw(r)

WrongSuperseded(r) == FALSE

\* A window that a newer run has overtaken changes nothing.
Superseded(r) == current # r

WrongDrop(r) ==
  /\ at[r] = "fetch"
  /\ Superseded(r)
  /\ span' \in Spans(r)
  /\ UNCHANGED <<head, store, file, restarts>>
  /\ Finish(r, TRUE, latest[r])

Drop(r) ==
  /\ at[r] = "fetch"
  /\ Superseded(r)
  /\ span' \in Spans(r)
  /\ UNCHANGED <<head, store, file, restarts>>
  /\ Finish(r, FALSE, 0)

WrongWindowStored(r) ==
  IF to[r] < latest[r] THEN store
  ELSE [upto |-> to[r], events |-> store.events \union History(to[r])]

WindowStored(r) ==
  [upto |-> to[r],
   events |-> store.events \union {b \in EventBlocks : from[r] <= b /\ b <= to[r]}]

\* The events of the window enter the store with its checkpoint.  The run
\* then ends, because it reached its height or ran out of time, or goes on.
Apply(r, outOfTime) ==
  /\ at[r] = "fetch"
  /\ ~ Superseded(r)
  /\ span' \in Spans(r)
  /\ store' = WindowStored(r)
  /\ file' = store'
  /\ UNCHANGED <<head, restarts>>
  /\ IF to[r] = latest[r] THEN Finish(r, TRUE, latest[r])
     ELSE IF outOfTime THEN Finish(r, FALSE, 0)
     ELSE AskWindow(r, to[r] + 1, latest[r])

\* The same, but the file cannot be written: memory is ahead of the disk.
ApplyUnsaved(r) ==
  /\ at[r] = "fetch"
  /\ ~ Superseded(r)
  /\ span' \in Spans(r)
  /\ store' = WindowStored(r)
  /\ UNCHANGED <<head, file, restarts>>
  /\ Throw(r)

\* The race's timer fires first; runSync itself goes on.
Watchdog(r) ==
  /\ at[r] # "idle"
  /\ r \in racing
  /\ SettleError(r)
  /\ UNCHANGED <<head, store, file, span, runVars, restarts>>
-----------------------------------------------------------------------------
(* Outside the runs.                                                       *)

Grow ==
  /\ head < MaxHead
  /\ head' = head + 1
  /\ UNCHANGED <<store, file, span, runVars, lockVars, freshTo, restarts>>

\* Another process of the server saves its own store over the file.
OtherProcessSaves(n) ==
  /\ restarts < MaxRestarts
  /\ file' = Prefix(n)
  /\ UNCHANGED <<head, store, span, runVars, lockVars, freshTo, restarts>>

\* Two processes write the same temporary file and one renames it too early.
FileTorn ==
  /\ restarts < MaxRestarts
  /\ file' = Torn
  /\ UNCHANGED <<head, store, span, runVars, lockVars, freshTo, restarts>>

Load == IF file = Torn THEN Prefix(0) ELSE file

Restart ==
  /\ restarts < MaxRestarts
  /\ restarts' = restarts + 1
  /\ store' = Load
  /\ span' = MaxSpan
  /\ at' = [r \in Runs |-> "idle"]
  /\ latest' = [r \in Runs |-> 0]
  /\ from' = [r \in Runs |-> 0]
  /\ to' = [r \in Runs |-> 0]
  /\ current' = NoRun
  /\ holder' = NoRun
  /\ racing' = {}
  /\ freshTo' = 0
  /\ UNCHANGED <<head, file>>
-----------------------------------------------------------------------------
Step(r) ==
  \/ \E h \in 0 .. head : Height(r, h)
  \/ \E outOfTime \in BOOLEAN : Rejected(r, outOfTime) \/ Apply(r, outOfTime)
  \/ CallFails(r)
  \/ Drop(r)
  \/ ApplyUnsaved(r)

Next ==
  \/ \E r \in Runs : Sync(r) \/ ForceRelease(r) \/ Step(r) \/ Watchdog(r)
  \/ Grow
  \/ \E n \in 0 .. head : OtherProcessSaves(n)
  \/ FileTorn
  \/ Restart

Spec == Init /\ [][Next]_vars

\* The chain produces blocks; a sync is due again and again (the interval);
\* the watchdog's timer fires; a call of a run is answered or given up.  The
\* sources tell the true height and serve a window again and again, not
\* every time: strong fairness for the current run.
Fairness ==
  /\ WF_vars(Grow)
  /\ WF_vars(\E r \in Runs : Sync(r))
  /\ \A r \in Runs : WF_vars(Watchdog(r)) /\ WF_vars(Step(r))
  /\ SF_vars(\E r \in Runs : r = current /\ Height(r, head))
  /\ SF_vars(\E r \in Runs, outOfTime \in BOOLEAN : Apply(r, outOfTime))

FairSpec == Spec /\ Fairness
-----------------------------------------------------------------------------
\* The types; no height, checkpoint or window lies beyond the chain's head.
TypeOK ==
  /\ head \in 0 .. MaxHead
  /\ store \in [upto : 0 .. head, events : SUBSET EventBlocks]
  /\ file \in [upto : 0 .. head, events : SUBSET EventBlocks] \union {Torn}
  /\ span \in 1 .. MaxSpan
  /\ at \in [Runs -> {"idle", "height", "fetch"}]
  /\ latest \in [Runs -> 0 .. head]
  /\ from \in [Runs -> 0 .. head]
  /\ to \in [Runs -> 0 .. head]
  /\ current \in Runs \union {NoRun}
  /\ holder \in Runs \union {NoRun}
  /\ racing \subseteq Runs
  /\ freshTo \in 0 .. head
  /\ restarts \in 0 .. MaxRestarts

\* When the cache counts as fresh at some height (isStale), it holds the
\* history up to that height, whatever runs were abandoned meanwhile.
FreshIsCaughtUp == freshTo <= store.upto

\* Whoever holds the lock will let it go: its runLocked still waits and
\* its run is under way, so an answer, an error or the watchdog ends it.
LockWillBeReleased ==
  holder # NoRun => holder \in racing /\ at[holder] # "idle"

\* Only its holder releases the lock: a run whose lock was force-released
\* does not give away the lock of the run that took over
\* ("Only that run may release the lock").
OnlyHolderReleases ==
  [][holder # NoRun /\ holder' = NoRun => holder \notin racing']_vars

\* The store is the cache its readers are promised: each step extends the
\* history by whole blocks, leaves no gap, and only a restart goes back.
Cache == INSTANCE EventCache WITH
  upto <- store.upto, events <- store.events, starts <- restarts

CacheSpec == Cache!Spec

\* However often runs fail, are abandoned or out of time, the store reaches
\* the head of the chain: progress is kept window by window.
CatchesUp == <>[](store.upto = MaxHead)
=============================================================================
