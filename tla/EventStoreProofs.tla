-------------------------- MODULE EventStoreProofs --------------------------
(***************************************************************************)
(* What EventStore guarantees for every number of runs, every chain and    *)
(* every span.  The inductive invariant IInv says of each part of the      *)
(* state what the next await may rely on: a window lies inside the height  *)
(* its run works towards (RunOK), the lock belongs to a run that is still  *)
(* waited for (LockOK), store and file are whole prefixes of the history   *)
(* (DataOK), and the window of the run whose generation counts starts      *)
(* right after the checkpoint (Continues).  The last part is the one that  *)
(* makes storing a window safe; zombies have no such promise.              *)
(* At the end the other parts of MCProgress (the lock, reads of logs, the  *)
(* server process, the cutover) get their promises from ProcessProofs: a   *)
(* step of the whole is one of the part that runs, or a stutter.           *)
(***************************************************************************)
EXTENDS MCProgress, TLAPS

Window(r) ==
  at[r] = "fetch" =>
    /\ 1 <= from[r] /\ from[r] <= to[r] /\ to[r] <= latest[r]

RunOK ==
  /\ at \in [Runs -> {"idle", "height", "fetch"}]
  /\ latest \in [Runs -> 0 .. head]
  /\ from \in [Runs -> 0 .. head]
  /\ to \in [Runs -> 0 .. head]
  /\ \A r \in Runs : Window(r)

LockOK ==
  /\ current \in Runs \union {NoRun}
  /\ holder \in racing \union {NoRun}
  /\ racing \subseteq Runs
  /\ \A r \in racing : at[r] # "idle"

IsPrefix(s) == \E n \in 0 .. head : s = Prefix(n)

DataOK ==
  /\ head \in 0 .. MaxHead
  /\ IsPrefix(store)
  /\ file = Torn \/ IsPrefix(file)
  /\ span \in 1 .. MaxSpan
  /\ freshTo \in 0 .. head
  /\ restarts \in 0 .. MaxRestarts
  /\ FreshIsCaughtUp

Continues ==
  current \in Runs /\ at[current] = "fetch" => from[current] = store.upto + 1

IInv == RunOK /\ LockOK /\ DataOK /\ Continues
-----------------------------------------------------------------------------
LEMMA PrefixFields ==
  ASSUME NEW s, IsPrefix(s), head \in Nat
  PROVE  s.upto \in 0 .. head /\ s.events = History(s.upto) /\ s = Prefix(s.upto)
BY DEF IsPrefix, Prefix

LEMMA IInvImpliesTypeOK == ASSUME IInv PROVE TypeOK
<1> USE DEF IInv
<1>1. head \in Nat
  BY BoundsAssumption DEF DataOK
<1>2. store \in [upto : 0 .. head, events : SUBSET EventBlocks]
  BY <1>1 DEF DataOK, IsPrefix, Prefix, History
<1>3. file \in [upto : 0 .. head, events : SUBSET EventBlocks] \union {Torn}
  BY <1>1 DEF DataOK, IsPrefix, Prefix, History
<1> QED
  BY <1>2, <1>3 DEF TypeOK, RunOK, LockOK, DataOK

LEMMA InitIInv == ASSUME Init PROVE IInv
<1> USE DEF Init
<1>1. RunOK
  BY DEF RunOK, Window
<1>2. LockOK
  BY DEF LockOK
<1>3. DataOK
  <2>1. head \in 0 .. MaxHead /\ span \in 1 .. MaxSpan /\ restarts \in 0 .. MaxRestarts
    BY BoundsAssumption
  <2>2. IsPrefix(store) /\ IsPrefix(file)
    BY DEF IsPrefix
  <2>3. FreshIsCaughtUp
    BY DEF FreshIsCaughtUp, Prefix
  <2> QED
    BY <2>1, <2>2, <2>3 DEF DataOK
<1>4. Continues
  BY NoRunAssumption DEF Continues
<1> QED
  BY <1>1, <1>2, <1>3, <1>4 DEF IInv
-----------------------------------------------------------------------------
(* What the end of a run, and the head of its loop, do to the parts.       *)

LEMMA LeaveRunOK ==
  ASSUME NEW r \in Runs, RunOK, Leave(r), head' = head, head \in Nat
  PROVE  RunOK'
BY DEF RunOK, Leave, Window

LEMMA WindowEndInRange ==
  ASSUME NEW first \in Nat, NEW width \in Nat, NEW last \in Nat,
         1 <= first, first <= last, 1 <= width
  PROVE  LET end == WindowEnd(first, width, last)
         IN  end \in Nat /\ first <= end /\ end <= last
BY DEF WindowEnd, Smaller

LEMMA AskRunOK ==
  ASSUME NEW r \in Runs, NEW first \in Nat, NEW last \in Nat,
         RunOK, AskWindow(r, first, last), head' = head, head \in Nat,
         1 <= first, first <= last, last <= head,
         span' \in 1 .. MaxSpan
  PROVE  RunOK'
<1>1. span' \in Nat /\ span' >= 1
  BY BoundsAssumption
<1>2. PICK w \in Nat : w = span' /\ w >= 1
  BY <1>1
<1> DEFINE end == WindowEnd(first, w, last)
<1>3. end \in Nat /\ first <= end /\ end <= last
  BY <1>2, WindowEndInRange
<1>4. to' = [to EXCEPT ![r] = end]
  BY <1>2 DEF AskWindow
<1> HIDE DEF end
<1>5. end \in 0 .. head
  BY <1>3
<1> QED
  BY <1>3, <1>4, <1>5 DEF RunOK, AskWindow, Window

LEMMA FinishLock ==
  ASSUME NEW r \in Runs, NEW caughtUp \in BOOLEAN, NEW h,
         RunOK, LockOK, Finish(r, caughtUp, h)
  PROVE  /\ LockOK'
         /\ current' = current
         /\ freshTo' = freshTo \/ (caughtUp /\ freshTo' = h)
         /\ at' = [at EXCEPT ![r] = "idle"]
         /\ from' = [from EXCEPT ![r] = 0]
<1>1. CASE r \in racing
  BY <1>1 DEF Finish, SettleAnswer, LockAfter, Leave, LockOK, RunOK
<1>2. CASE r \notin racing
  BY <1>2 DEF Finish, lockVars, Leave, LockOK, RunOK
<1> QED
  BY <1>1, <1>2

LEMMA ThrowLock ==
  ASSUME NEW r \in Runs, RunOK, LockOK, Throw(r)
  PROVE  /\ LockOK'
         /\ current' = current \/ current' = NoRun
         /\ freshTo' = freshTo
         /\ at' = [at EXCEPT ![r] = "idle"]
         /\ from' = [from EXCEPT ![r] = 0]
<1>1. CASE r \in racing
  BY <1>1 DEF Throw, SettleError, GenerationAfterError, LockAfter, Leave, LockOK, RunOK
<1>2. CASE r \notin racing
  BY <1>2 DEF Throw, lockVars, Leave, LockOK, RunOK
<1> QED
  BY <1>1, <1>2

\* A run that leaves ends its own claim to continue and touches no other's.
LEMMA LeaveContinues ==
  ASSUME NEW r \in Runs, RunOK, Continues,
         at' = [at EXCEPT ![r] = "idle"], from' = [from EXCEPT ![r] = 0],
         current' = current \/ current' = NoRun,
         store'.upto = store.upto \/ current = r
  PROVE  Continues'
BY NoRunAssumption DEF RunOK, Continues

LEMMA SpansInRange ==
  ASSUME NEW r \in Runs, span \in 1 .. MaxSpan
  PROVE  \A s \in Spans(r) : s \in 1 .. MaxSpan
BY BoundsAssumption DEF Spans, Smaller

LEMMA AskLock ==
  ASSUME NEW r \in Runs, NEW first, NEW last, RunOK, LockOK, AskWindow(r, first, last)
  PROVE  LockOK'
BY DEF AskWindow, lockVars, LockOK, RunOK

LEMMA AskContinues ==
  ASSUME NEW r \in Runs, NEW first, NEW last, RunOK, Continues,
         AskWindow(r, first, last),
         store'.upto = store.upto \/ current = r,
         current = r => first = store'.upto + 1
  PROVE  Continues'
BY DEF AskWindow, lockVars, RunOK, Continues

\* What a step that stores nothing has to show of the data.
LEMMA KeepData ==
  ASSUME DataOK, UNCHANGED <<head, store, file, restarts>>,
         span' \in 1 .. MaxSpan, freshTo' \in 0 .. head, freshTo' <= store.upto
  PROVE  DataOK'
BY DEF DataOK, IsPrefix, FreshIsCaughtUp

\* The window of the current run extends the history up to its last block.
LEMMA WindowExtends ==
  ASSUME NEW r \in Runs, IInv, at[r] = "fetch", ~ Superseded(r)
  PROVE  /\ WindowStored(r) = Prefix(to[r])
         /\ to[r] \in 0 .. head
         /\ store.upto < to[r]
<1> USE DEF IInv
<1>1. head \in Nat /\ to[r] \in 0 .. head /\ from[r] \in 0 .. head
  BY BoundsAssumption DEF DataOK, RunOK
<1>2. 1 <= from[r] /\ from[r] <= to[r]
  BY DEF RunOK, Window
<1>3. from[r] = store.upto + 1
  BY DEF Superseded, Continues
<1>4. store.upto \in 0 .. head /\ store.events = History(store.upto)
  BY <1>1, PrefixFields DEF DataOK
<1>5. store.events \union {b \in EventBlocks : from[r] <= b /\ b <= to[r]} = History(to[r])
  <2>1. ASSUME NEW b \in EventBlocks
        PROVE  b <= to[r] <=> b <= store.upto \/ (from[r] <= b /\ b <= to[r])
    <3>1. b \in Nat
      BY BlocksAssumption
    <3> QED
      BY <1>1, <1>2, <1>3, <1>4, <3>1
  <2> QED
    BY <1>4, <2>1 DEF History
<1>6. store.upto < to[r]
  BY <1>1, <1>2, <1>3, <1>4
<1>7. WindowStored(r) = Prefix(to[r])
  BY <1>5 DEF WindowStored, Prefix
<1> QED
  BY <1>1, <1>6, <1>7
-----------------------------------------------------------------------------
(* Every action preserves the invariant.                                   *)

LEMMA StartKeeps == ASSUME IInv, NEW r \in Runs, Start(r) PROVE IInv'
<1> USE DEF IInv, Start
<1>1. RunOK'
  BY DEF RunOK, Window
<1>2. LockOK'
  BY DEF LockOK, RunOK
<1>3. DataOK'
  BY DEF DataOK, IsPrefix, FreshIsCaughtUp
<1>4. Continues'
  BY DEF Continues, RunOK
<1> QED
  BY <1>1, <1>2, <1>3, <1>4

LEMMA HeightKeeps ==
  ASSUME IInv, NEW r \in Runs, NEW h \in 0 .. head, Height(r, h)
  PROVE  IInv'
<1> USE DEF IInv
<1>1. /\ head \in Nat /\ head' = head /\ span' = span /\ span \in 1 .. MaxSpan
      /\ UNCHANGED <<head, store, file, restarts>>
      /\ freshTo \in 0 .. head /\ freshTo <= store.upto
  BY BoundsAssumption DEF Height, DataOK, FreshIsCaughtUp
<1>2. store.upto \in 0 .. head
  BY <1>1, PrefixFields DEF DataOK
<1>3. CASE store.upto + 1 > h
  <2>1. Finish(r, TRUE, h)
    BY <1>3 DEF Height
  <2>2. RunOK'
    BY <1>1, <2>1, LeaveRunOK DEF Finish
  <2>3. LockOK' /\ (freshTo' = freshTo \/ freshTo' = h)
    BY <2>1, FinishLock
  <2>4. freshTo' \in 0 .. head /\ freshTo' <= store.upto
    BY <1>1, <1>2, <1>3, <2>3
  <2>5. DataOK'
    BY <1>1, <2>4, KeepData
  <2>6. Continues'
    BY <1>1, <2>1, FinishLock, LeaveContinues
  <2> QED
    BY <2>2, <2>3, <2>5, <2>6
<1>4. CASE ~(store.upto + 1 > h)
  <2>1. AskWindow(r, store.upto + 1, h)
    BY <1>4 DEF Height
  <2>2. RunOK'
    BY <1>1, <1>2, <1>4, <2>1, AskRunOK
  <2>3. LockOK'
    BY <2>1, AskLock
  <2>4. DataOK'
    BY <1>1, <2>1, KeepData DEF AskWindow
  <2>5. Continues'
    BY <1>1, <2>1, AskContinues
  <2> QED
    BY <2>2, <2>3, <2>4, <2>5
<1> QED
  BY <1>3, <1>4

LEMMA RejectedKeeps ==
  ASSUME IInv, NEW r \in Runs, NEW outOfTime \in BOOLEAN, Rejected(r, outOfTime)
  PROVE  IInv'
<1> USE DEF IInv
<1>1. /\ head \in Nat /\ head' = head
      /\ UNCHANGED <<head, store, file, restarts>>
      /\ freshTo \in 0 .. head /\ freshTo <= store.upto
  BY BoundsAssumption DEF Rejected, DataOK, FreshIsCaughtUp
<1>2. /\ from[r] \in 0 .. head /\ to[r] \in 0 .. head /\ latest[r] \in 0 .. head
      /\ 1 <= from[r] /\ from[r] <= to[r] /\ to[r] <= latest[r]
  BY DEF Rejected, RunOK, Window
<1>3. span' \in 1 .. MaxSpan
  <2>1. span \in 1 .. MaxSpan /\ MaxSpan \in Nat
    BY BoundsAssumption DEF DataOK
  <2>2. to[r] - from[r] + 1 \in Nat
    BY <1>1, <1>2
  <2>3. PICK n \in Nat : n = to[r] - from[r] + 1
    BY <2>2
  <2>4. n \div 2 \in Nat
    BY <2>3
  <2>5. span' = Larger(1, Smaller(span, n \div 2))
    BY <2>3 DEF Rejected
  <2> QED
    BY <2>1, <2>4, <2>5 DEF Larger, Smaller
<1>4. DataOK' \/ ~ (freshTo' = freshTo)
  BY <1>1, <1>3, KeepData
<1>5. CASE to[r] = from[r]
  <2>1. Throw(r)
    BY <1>5 DEF Rejected
  <2>2. RunOK'
    BY <1>1, <2>1, LeaveRunOK DEF Throw
  <2>3. LockOK' /\ freshTo' = freshTo /\ Continues'
    BY <1>1, <2>1, ThrowLock, LeaveContinues
  <2> QED
    BY <1>4, <2>2, <2>3
<1>6. CASE to[r] # from[r] /\ outOfTime
  <2>1. Finish(r, FALSE, 0)
    BY <1>6 DEF Rejected
  <2>2. RunOK'
    BY <1>1, <2>1, LeaveRunOK DEF Finish
  <2>3. LockOK' /\ freshTo' = freshTo /\ Continues'
    BY <1>1, <2>1, FinishLock, LeaveContinues
  <2> QED
    BY <1>4, <2>2, <2>3
<1>7. CASE to[r] # from[r] /\ ~ outOfTime
  <2>1. AskWindow(r, from[r], latest[r])
    BY <1>7 DEF Rejected
  <2>2. from[r] \in Nat /\ latest[r] \in Nat /\ from[r] <= latest[r] /\ latest[r] <= head
    BY <1>1, <1>2
  <2>3. RunOK'
    BY <1>1, <1>2, <1>3, <2>1, <2>2, AskRunOK
  <2>4. LockOK' /\ freshTo' = freshTo
    BY <2>1, AskLock DEF AskWindow
  <2>5. current = r => from[r] = store'.upto + 1
    BY <1>1 DEF Continues, Rejected
  <2>6. Continues'
    BY <1>1, <2>1, <2>5, AskContinues
  <2> QED
    BY <1>4, <2>3, <2>4, <2>6
<1> QED
  BY <1>5, <1>6, <1>7

LEMMA CallFailsKeeps == ASSUME IInv, NEW r \in Runs, CallFails(r) PROVE IInv'
<1> USE DEF IInv
<1>1. /\ head \in Nat /\ head' = head /\ span' \in 1 .. MaxSpan
      /\ UNCHANGED <<head, store, file, restarts>>
      /\ freshTo \in 0 .. head /\ freshTo <= store.upto
      /\ Throw(r)
  BY BoundsAssumption DEF CallFails, DataOK, FreshIsCaughtUp
<1>2. RunOK'
  BY <1>1, LeaveRunOK DEF Throw
<1>3. LockOK' /\ freshTo' = freshTo /\ Continues'
  BY <1>1, ThrowLock, LeaveContinues
<1>4. DataOK'
  BY <1>1, <1>3, KeepData
<1> QED
  BY <1>2, <1>3, <1>4

LEMMA DropKeeps == ASSUME IInv, NEW r \in Runs, Drop(r) PROVE IInv'
<1> USE DEF IInv
<1>1. /\ UNCHANGED <<head, store, file, restarts>>
      /\ span' \in Spans(r)
      /\ Finish(r, FALSE, 0)
  BY DEF Drop
<1>2. head \in Nat /\ freshTo \in 0 .. head /\ freshTo <= store.upto
  BY BoundsAssumption DEF DataOK, FreshIsCaughtUp
<1>3. span' \in 1 .. MaxSpan
  BY <1>1, SpansInRange DEF DataOK
<1>4. RunOK'
  BY <1>1, <1>2, LeaveRunOK DEF Finish
<1>5. LockOK' /\ freshTo' = freshTo /\ Continues'
  BY <1>1, FinishLock, LeaveContinues
<1>6. DataOK'
  BY <1>1, <1>2, <1>3, <1>5, KeepData
<1> QED
  BY <1>4, <1>5, <1>6

\* The data after a window was stored, whether or not it was saved.
LEMMA StoredData ==
  ASSUME IInv, NEW r \in Runs, at[r] = "fetch", ~ Superseded(r),
         store' = WindowStored(r), file' = store' \/ file' = file,
         UNCHANGED <<head, restarts>>, span' \in Spans(r),
         freshTo' = freshTo \/ freshTo' = to[r]
  PROVE  DataOK' /\ store'.upto = to[r]
<1> USE DEF IInv
<1>1. store' = Prefix(to[r]) /\ to[r] \in 0 .. head /\ store.upto < to[r]
  BY WindowExtends
<1>2. head \in Nat /\ freshTo \in 0 .. head /\ freshTo <= store.upto
  BY BoundsAssumption DEF DataOK, FreshIsCaughtUp
<1>3. store.upto \in 0 .. head
  BY <1>2, PrefixFields DEF DataOK
<1>4. store'.upto = to[r]
  BY <1>1 DEF Prefix
<1>5. IsPrefix(store)'
  BY <1>1 DEF IsPrefix, Prefix, History
<1>6. file' = Torn \/ IsPrefix(file)'
  BY <1>5 DEF DataOK, IsPrefix, Prefix, History
<1>7. span' \in 1 .. MaxSpan
  BY SpansInRange DEF DataOK
<1>8. freshTo' \in 0 .. head /\ freshTo' <= store'.upto
  BY <1>1, <1>2, <1>3, <1>4
<1> QED
  BY <1>4, <1>5, <1>6, <1>7, <1>8 DEF DataOK, FreshIsCaughtUp

LEMMA ApplyKeeps ==
  ASSUME IInv, NEW r \in Runs, NEW outOfTime \in BOOLEAN, Apply(r, outOfTime)
  PROVE  IInv'
<1> USE DEF IInv
<1>1. /\ at[r] = "fetch" /\ ~ Superseded(r) /\ current = r
      /\ store' = WindowStored(r) /\ file' = store'
      /\ UNCHANGED <<head, restarts>> /\ span' \in Spans(r)
  BY DEF Apply, Superseded
<1>2. head \in Nat /\ span' \in 1 .. MaxSpan
  BY <1>1, BoundsAssumption, SpansInRange DEF DataOK
<1>3. /\ to[r] \in 0 .. head /\ latest[r] \in 0 .. head
      /\ 1 <= to[r] /\ to[r] <= latest[r]
  BY <1>1, <1>2 DEF RunOK, Window
<1>4. CASE to[r] = latest[r]
  <2>1. Finish(r, TRUE, latest[r])
    BY <1>4 DEF Apply
  <2>2. RunOK'
    BY <1>1, <1>2, <2>1, LeaveRunOK DEF Finish
  <2>3. LockOK' /\ (freshTo' = freshTo \/ freshTo' = to[r]) /\ Continues'
    BY <1>1, <1>4, <2>1, FinishLock, LeaveContinues
  <2> QED
    BY <1>1, <2>2, <2>3, StoredData
<1>5. CASE to[r] # latest[r] /\ outOfTime
  <2>1. Finish(r, FALSE, 0)
    BY <1>5 DEF Apply
  <2>2. RunOK'
    BY <1>1, <1>2, <2>1, LeaveRunOK DEF Finish
  <2>3. LockOK' /\ freshTo' = freshTo /\ Continues'
    BY <1>1, <2>1, FinishLock, LeaveContinues
  <2> QED
    BY <1>1, <2>2, <2>3, StoredData
<1>6. CASE to[r] # latest[r] /\ ~ outOfTime
  <2>1. AskWindow(r, to[r] + 1, latest[r])
    BY <1>6 DEF Apply
  <2>2. /\ to[r] + 1 \in Nat /\ latest[r] \in Nat /\ 1 <= to[r] + 1
        /\ to[r] + 1 <= latest[r] /\ latest[r] <= head
    BY <1>2, <1>3, <1>6
  <2>3. RunOK'
    BY <1>1, <1>2, <2>1, <2>2, AskRunOK
  <2>4. LockOK' /\ freshTo' = freshTo
    BY <2>1, AskLock DEF AskWindow
  <2>5. DataOK' /\ store'.upto = to[r]
    BY <1>1, <2>4, StoredData
  <2>6. Continues'
    BY <1>1, <2>1, <2>5, AskContinues
  <2> QED
    BY <2>3, <2>4, <2>5, <2>6
<1> QED
  BY <1>4, <1>5, <1>6

LEMMA ApplyUnsavedKeeps == ASSUME IInv, NEW r \in Runs, ApplyUnsaved(r) PROVE IInv'
<1> USE DEF IInv
<1>1. /\ at[r] = "fetch" /\ ~ Superseded(r) /\ current = r
      /\ store' = WindowStored(r) /\ file' = file
      /\ UNCHANGED <<head, restarts>> /\ span' \in Spans(r)
      /\ Throw(r)
  BY DEF ApplyUnsaved, Superseded
<1>2. head \in Nat
  BY BoundsAssumption DEF DataOK
<1>3. RunOK'
  BY <1>1, <1>2, LeaveRunOK DEF Throw
<1>4. LockOK' /\ freshTo' = freshTo /\ Continues'
  BY <1>1, ThrowLock, LeaveContinues
<1> QED
  BY <1>1, <1>3, <1>4, StoredData

LEMMA WatchdogKeeps == ASSUME IInv, NEW r \in Runs, Watchdog(r) PROVE IInv'
<1> USE DEF IInv, Watchdog, SettleError, runVars
<1>1. RunOK'
  BY DEF RunOK, Window
<1>2. LockOK'
  BY DEF LockOK, LockAfter, GenerationAfterError
<1>3. DataOK'
  BY DEF DataOK, IsPrefix, FreshIsCaughtUp
<1>4. Continues'
  BY NoRunAssumption DEF Continues, GenerationAfterError
<1> QED
  BY <1>1, <1>2, <1>3, <1>4

LEMMA GrowKeeps == ASSUME IInv, Grow PROVE IInv'
<1> USE DEF IInv, Grow, runVars, lockVars
<1>1. head \in Nat /\ MaxHead \in Nat /\ head' = head + 1 /\ head' \in 0 .. MaxHead
  BY BoundsAssumption DEF DataOK
<1>2. \A n \in 0 .. head : n \in 0 .. head'
  BY <1>1
<1>3. RunOK'
  BY <1>2 DEF RunOK, Window
<1>4. LockOK'
  BY DEF LockOK
<1>5. DataOK'
  BY <1>1, <1>2 DEF DataOK, IsPrefix, Prefix, History, FreshIsCaughtUp
<1>6. Continues'
  BY DEF Continues
<1> QED
  BY <1>3, <1>4, <1>5, <1>6

LEMMA FileKeeps ==
  ASSUME IInv, (\E n \in 0 .. head : OtherProcessSaves(n)) \/ FileTorn
  PROVE  IInv'
<1> USE DEF IInv, OtherProcessSaves, FileTorn, runVars, lockVars
<1>1. RunOK'
  BY DEF RunOK, Window
<1>2. LockOK'
  BY DEF LockOK
<1>3. DataOK'
  BY DEF DataOK, IsPrefix, FreshIsCaughtUp, Prefix, History
<1>4. Continues'
  BY DEF Continues
<1> QED
  BY <1>1, <1>2, <1>3, <1>4

LEMMA RestartKeeps == ASSUME IInv, Restart PROVE IInv'
<1> USE DEF IInv, Restart
<1>1. head \in Nat /\ head' = head
  BY BoundsAssumption DEF DataOK
<1>2. RunOK'
  BY <1>1 DEF RunOK, Window
<1>3. LockOK'
  BY DEF LockOK
<1>4. DataOK'
  <2>1. IsPrefix(store)' /\ store'.upto \in 0 .. head
    <3>1. PICK n \in 0 .. head : store' = Prefix(n)
      <4>1. CASE file = Torn
        BY <1>1, <4>1 DEF Load
      <4>2. CASE file # Torn
        BY <4>2 DEF Load, DataOK, IsPrefix
      <4> QED
        BY <4>1, <4>2
    <3>2. store'.upto = n
      BY <3>1 DEF Prefix
    <3> QED
      BY <1>1, <3>1, <3>2 DEF IsPrefix, Prefix, History
  <2>2. file' = Torn \/ IsPrefix(file)'
    BY DEF DataOK, IsPrefix, Prefix, History
  <2>3. span' \in 1 .. MaxSpan /\ restarts' \in 0 .. MaxRestarts
    BY BoundsAssumption DEF DataOK
  <2> QED
    BY <1>1, <2>1, <2>2, <2>3 DEF DataOK, FreshIsCaughtUp
<1>5. Continues'
  BY NoRunAssumption DEF Continues
<1> QED
  BY <1>2, <1>3, <1>4, <1>5

LEMMA StutterKeeps == ASSUME IInv, UNCHANGED vars PROVE IInv'
BY DEF vars, IInv, RunOK, Window, LockOK, DataOK, IsPrefix, Prefix, History,
       FreshIsCaughtUp, Continues

LEMMA NextKeeps == ASSUME IInv, [Next]_vars PROVE IInv'
<1>1. ASSUME NEW r \in Runs, Sync(r) \/ ForceRelease(r) PROVE IInv'
  BY <1>1, StartKeeps DEF Sync, ForceRelease
<1>2. ASSUME NEW r \in Runs, Step(r) PROVE IInv'
  <2>1. ASSUME NEW outOfTime \in BOOLEAN, Rejected(r, outOfTime) \/ Apply(r, outOfTime)
        PROVE  IInv'
    BY <2>1, RejectedKeeps, ApplyKeeps
  <2> QED
    BY <1>2, <2>1, HeightKeeps, CallFailsKeeps, DropKeeps, ApplyUnsavedKeeps DEF Step
<1> QED
  BY <1>1, <1>2, WatchdogKeeps, GrowKeeps, FileKeeps, RestartKeeps, StutterKeeps DEF Next
-----------------------------------------------------------------------------
THEOREM Invariance == Spec => []IInv
BY InitIInv, NextKeeps, PTL DEF Spec

\* Type correctness of the event store.
THEOREM TypeCorrect == Spec => []TypeOK
BY Invariance, IInvImpliesTypeOK, PTL

\* The cache counts as fresh only at heights it really holds, although
\* abandoned runs settle after the ones that replaced them (runLocked).
THEOREM FreshnessIsTrue == Spec => []FreshIsCaughtUp
<1>1. IInv => FreshIsCaughtUp
  BY DEF IInv, DataOK
<1> QED
  BY <1>1, Invariance, PTL

\* The lock always belongs to a run that will settle, so no error path of
\* runLocked can leave the cache without syncs (`syncing` stuck at true).
THEOREM LockIsNeverLost == Spec => []LockWillBeReleased
<1>1. IInv => LockWillBeReleased
  BY DEF IInv, LockOK, LockWillBeReleased
<1> QED
  BY <1>1, Invariance, PTL

\* A run whose lock was force-released leaves the new holder's lock alone
\* (runLocked's `lockHolder === generation`).
THEOREM OthersLockIsLeftAlone == Spec => OnlyHolderReleases
<1> DEFINE A == holder # NoRun /\ holder' = NoRun => holder \notin racing'
<1>1. ASSUME IInv, [Next]_vars PROVE [A]_vars
  <2>1. ASSUME NEW r \in Runs, NEW caughtUp, NEW h, Finish(r, caughtUp, h) PROVE A
    BY <2>1 DEF Finish, SettleAnswer, LockAfter, lockVars
  <2>2. ASSUME NEW r \in Runs, Throw(r) PROVE A
    BY <2>2 DEF Throw, SettleError, LockAfter, lockVars
  <2>3. ASSUME NEW r \in Runs, NEW first, NEW last, AskWindow(r, first, last) PROVE A
    BY <2>3 DEF AskWindow, lockVars
  <2>4. ASSUME NEW r \in Runs, Sync(r) \/ ForceRelease(r) PROVE A
    BY <2>4, NoRunAssumption DEF Sync, ForceRelease, Start
  <2>5. ASSUME NEW r \in Runs, Step(r) PROVE A
    BY <2>1, <2>2, <2>3, <2>5
       DEF Step, Height, Rejected, Apply, CallFails, Drop, ApplyUnsaved
  <2>6. ASSUME NEW r \in Runs, Watchdog(r) PROVE A
    BY <2>6 DEF Watchdog, SettleError, LockAfter
  <2>7. ASSUME Grow \/ (\E n \in 0 .. head : OtherProcessSaves(n)) \/ FileTorn PROVE A
    BY <2>7 DEF Grow, OtherProcessSaves, FileTorn, lockVars
  <2>8. ASSUME Restart PROVE A
    BY <2>8 DEF Restart
  <2> QED
    BY <1>1, <2>4, <2>5, <2>6, <2>7, <2>8 DEF Next, vars
<1> QED
  BY <1>1, Invariance, PTL DEF Spec, OnlyHolderReleases
-----------------------------------------------------------------------------
(* The refinement: the store is the cache its readers were promised.       *)

LEMMA CacheHistory == \A n : Cache!History(n) = History(n)
BY DEF Cache!History, History

\* A step that stores no window, leaves the chain and does not restart.
LEMMA CacheStutters ==
  ASSUME UNCHANGED <<head, store, restarts>>
  PROVE  UNCHANGED Cache!vars
BY DEF Cache!vars

LEMMA StoringAdvances ==
  ASSUME IInv, NEW r \in Runs, at[r] = "fetch", ~ Superseded(r),
         store' = WindowStored(r), UNCHANGED <<head, restarts>>
  PROVE  Cache!Next
<1>1. store' = Prefix(to[r]) /\ to[r] \in 0 .. head /\ store.upto < to[r]
  BY WindowExtends
<1>2. head \in Nat
  BY BoundsAssumption DEF IInv, DataOK
<1>3. store.upto \in 0 .. head
  BY <1>2, PrefixFields DEF IInv, DataOK
<1>4. store'.upto = to[r] /\ store'.events = History(to[r])
  BY <1>1 DEF Prefix
<1>5. store'.upto \in store.upto + 1 .. head
  BY <1>1, <1>2, <1>3, <1>4
<1> QED
  BY <1>4, <1>5, CacheHistory DEF Cache!Next, Cache!Advance

LEMMA RestartReloads == ASSUME IInv, Restart PROVE Cache!Next
<1>1. IInv'
  BY RestartKeeps
<1>2. head' \in Nat /\ head' = head
  BY <1>1, BoundsAssumption DEF IInv, DataOK, Restart
<1>3. PICK n \in 0 .. head : store' = Prefix(n)
  BY <1>1, <1>2 DEF IInv, DataOK, IsPrefix, Prefix, History
<1> QED
  BY <1>2, <1>3, CacheHistory DEF Restart, Prefix, Cache!Next, Cache!Restart

LEMMA CacheStep == ASSUME IInv, [Next]_vars PROVE [Cache!Next]_(Cache!vars)
<1>1. ASSUME NEW r \in Runs, Sync(r) \/ ForceRelease(r) \/ Watchdog(r)
      PROVE  UNCHANGED Cache!vars
  BY <1>1, CacheStutters DEF Sync, ForceRelease, Start, Watchdog
<1>2. ASSUME NEW r \in Runs, Step(r) PROVE [Cache!Next]_(Cache!vars)
  <2>1. ASSUME NEW h \in 0 .. head, Height(r, h) PROVE UNCHANGED Cache!vars
    BY <2>1, CacheStutters DEF Height
  <2>2. ASSUME NEW outOfTime \in BOOLEAN, Rejected(r, outOfTime)
        PROVE  UNCHANGED Cache!vars
    BY <2>2, CacheStutters DEF Rejected
  <2>3. ASSUME NEW outOfTime \in BOOLEAN, Apply(r, outOfTime) PROVE Cache!Next
    BY <2>3, StoringAdvances DEF Apply
  <2>4. ASSUME CallFails(r) \/ Drop(r) PROVE UNCHANGED Cache!vars
    BY <2>4, CacheStutters DEF CallFails, Drop
  <2>5. ASSUME ApplyUnsaved(r) PROVE Cache!Next
    BY <2>5, StoringAdvances DEF ApplyUnsaved
  <2> QED
    BY <1>2, <2>1, <2>2, <2>3, <2>4, <2>5 DEF Step
<1>3. ASSUME Grow PROVE Cache!Next
  BY <1>3 DEF Grow, Cache!Next, Cache!Grow
<1>4. ASSUME (\E n \in 0 .. head : OtherProcessSaves(n)) \/ FileTorn
      PROVE  UNCHANGED Cache!vars
  BY <1>4, CacheStutters DEF OtherProcessSaves, FileTorn
<1>5. ASSUME Restart PROVE Cache!Next
  BY <1>5, RestartReloads
<1>6. ASSUME UNCHANGED vars PROVE UNCHANGED Cache!vars
  BY <1>6, CacheStutters DEF vars
<1> QED
  BY <1>1, <1>2, <1>3, <1>4, <1>5, <1>6 DEF Next

\* The event store implements EventCache: whatever is abandoned, retried,
\* refused, torn or restarted, readers see the complete history up to the
\* checkpoint, and the checkpoint only moves forward between restarts.
THEOREM StoreImplementsCache == Spec => CacheSpec
<1>1. Init => Cache!Init
  BY CacheHistory DEF Init, Prefix, Cache!Init
<1> QED
  BY <1>1, CacheStep, Invariance, PTL DEF Spec, CacheSpec, Cache!Spec
-----------------------------------------------------------------------------
(* The other parts that MCProgress runs, from the theorems about each of    *)
(* them.  A behaviour is about one part, whose steps are those of its       *)
(* module; so an invariant of the module is one here.                       *)

Proc == INSTANCE ProcessProofs WITH
  Requests <- {1, 2}, phase <- x1, exit <- x2, chain <- x3, listening <- x4, sync <- x5,
  interval <- x6, early <- x7, probes <- x8, waitsAt <- x9,
  Processes <- {p1, p2}, Files <- 1 .. 5, NoFile <- NoFile, CrashAt <- AlmostAnywhere,
  LockCrashes <- 2, path <- x1, stale <- x2, lockAt <- x3, own <- x4, seen <- x5,
  grave <- x6, lockCrashed <- x7,
  Readers <- {1, 2}, Sources <- 2, Limits <- <<1, 3>>, First <- 1, Last <- 4,
  ReadSpan <- 4, GrowAfter <- 2, span <- x1, preferred <- x2, successes <- x3,
  readAt <- x4, whole <- x5, from <- x6, to <- x7, attempt <- x8, source <- x9,
  refused <- x10, got <- x11,
  Accounts <- {d, o, m, a}, Deployer <- d, Lecturers <- {a}, Targets <- {d, o},
  Minters <- {m}, Surveys <- {1, 2}, AdminLists <- {{}, {a}}, Excludes <- {{}},
  MissLimit <- 1, ScriptCrashes <- 2, env <- x1, v1Admins <- x2, v1Granted <- x3,
  v1Revoked <- x4, v1Known <- x5, v1Active <- x6, proxy <- x7, members <- x8,
  queue <- x9, script <- x10, pc <- x11, waiting <- x12, todo <- x13,
  scriptCrashed <- x14

LEMMA PartInit ==
  ASSUME SumInit
  PROVE  /\ Init
         /\ part = "lock" => Lock!Init
         /\ part = "reader" => Reader!Init
         /\ part = "process" => Life!Init
         /\ part = "cutover" => Cut!Init
BY DEF SumInit

LEMMA PartStep ==
  ASSUME [SumNext]_<<part, vars, others>>
  PROVE  /\ UNCHANGED part
         /\ [Next]_vars
         /\ part = "lock" => [Lock!Next]_Lock!vars
         /\ part = "reader" => [Reader!Next]_Reader!vars
         /\ part = "process" => [Life!Next]_Life!vars
         /\ part = "cutover" => [Cut!Next]_Cut!vars
<1>1. UNCHANGED others => /\ UNCHANGED Lock!vars /\ UNCHANGED Reader!vars
                          /\ UNCHANGED Life!vars /\ UNCHANGED Cut!vars
  BY DEF others, Lock!vars, Reader!vars, Reader!readerVars, Reader!readVars, Life!vars, Cut!vars
<1>2. CASE SumNext
  BY <1>1, <1>2 DEF SumNext
<1>3. CASE UNCHANGED <<part, vars, others>>
  BY <1>1, <1>3
<1> QED
  BY <1>2, <1>3

(* The instances in ProcessProofs are the parts of MCProgress.               *)
LEMMA LockIsLock ==
  /\ Lock!Init <=> Proc!Lock!Init
  /\ [Lock!Next]_Lock!vars <=> [Proc!Lock!Next]_Proc!Lock!vars
  /\ Lock!TypeOK <=> Proc!Lock!TypeOK
  /\ Lock!MutualExclusion <=> Proc!Lock!MutualExclusion
  /\ Lock!HeldLockIsKept <=> Proc!Lock!HeldLockIsKept
BY DEF Lock!vars, Lock!Places, Lock!Init, Lock!Go, Lock!InUse, Lock!Call,
   Lock!Create, Lock!Exists, Lock!Look, Lock!MovedAnother, Lock!Take,
   Lock!GiveBack, Lock!Bury, Lock!Again, Lock!Leave, Lock!Unlink, Lock!Crash,
   Lock!Age, Lock!Step, Lock!Next, Lock!TypeOK, Lock!MutualExclusion,
   Lock!HeldLockIsKept, Lock!Taken, Lock!LockComesFree, Proc!Lock!vars,
   Proc!Lock!Places, Proc!Lock!Init, Proc!Lock!Go, Proc!Lock!InUse,
   Proc!Lock!Call, Proc!Lock!Create, Proc!Lock!Exists, Proc!Lock!Look,
   Proc!Lock!MovedAnother, Proc!Lock!Take, Proc!Lock!GiveBack, Proc!Lock!Bury,
   Proc!Lock!Again, Proc!Lock!Leave, Proc!Lock!Unlink, Proc!Lock!Crash,
   Proc!Lock!Age, Proc!Lock!Step, Proc!Lock!Next, Proc!Lock!TypeOK,
   Proc!Lock!MutualExclusion, Proc!Lock!HeldLockIsKept, Proc!Lock!Taken,
   Proc!Lock!LockComesFree

LEMMA ReaderIsReader ==
  /\ Reader!Init <=> Proc!Reader!Init
  /\ [Reader!Next]_Reader!vars <=> [Proc!Reader!Next]_Proc!Reader!vars
  /\ Reader!TypeOK <=> Proc!Reader!TypeOK
  /\ Reader!EachBlockOnce <=> Proc!Reader!EachBlockOnce
  /\ Reader!SpanIsKept <=> Proc!Reader!SpanIsKept
<1>1. \A S : Reader!Min(S) = Proc!Reader!Min(S) /\ Reader!Max(S) = Proc!Reader!Max(S)
  BY DEF Reader!Min, Proc!Reader!Min, Reader!Max, Proc!Reader!Max
<1>2. Reader!Init <=> Proc!Reader!Init
  BY DEF Reader!Init, Reader!NoBlocks, Reader!Blocks,
     Proc!Reader!Init, Proc!Reader!NoBlocks, Proc!Reader!Blocks
<1>3. /\ Reader!TypeOK <=> Proc!Reader!TypeOK
      /\ Reader!EachBlockOnce <=> Proc!Reader!EachBlockOnce
  BY DEF Reader!TypeOK, Reader!EachBlockOnce, Reader!Blocks,
     Proc!Reader!TypeOK, Proc!Reader!EachBlockOnce, Proc!Reader!Blocks
<1>4. Reader!SpanIsKept <=> Proc!Reader!SpanIsKept
  BY <1>1 DEF Reader!SpanIsKept, Proc!Reader!SpanIsKept
<1>5. ASSUME NEW r PROVE Reader!Width(r) = Proc!Reader!Width(r)
  BY DEF Reader!Width, Proc!Reader!Width
<1>6. ASSUME NEW r, NEW first PROVE Reader!Request(r, first) <=> Proc!Reader!Request(r, first)
  BY <1>1 DEF Reader!Request, Proc!Reader!Request
<1>7. ASSUME NEW r PROVE Reader!Throw(r) <=> Proc!Reader!Throw(r)
  BY DEF Reader!Throw, Reader!End, Reader!NoBlocks, Reader!Blocks,
     Proc!Reader!Throw, Proc!Reader!End, Proc!Reader!NoBlocks, Proc!Reader!Blocks
<1>8. ASSUME NEW r PROVE Reader!Begin(r) <=> Proc!Reader!Begin(r)
  BY <1>6 DEF Reader!Begin, Reader!readerVars, Reader!NoBlocks, Reader!Blocks,
     Proc!Reader!Begin, Proc!Reader!readerVars, Proc!Reader!NoBlocks, Proc!Reader!Blocks
<1>9. ASSUME NEW r PROVE Reader!Answers(r) <=> Proc!Reader!Answers(r)
  <2>1. ASSUME NEW n PROVE Reader!RecordSuccess(n) <=> Proc!Reader!RecordSuccess(n)
    BY <1>1 DEF Reader!RecordSuccess, Proc!Reader!RecordSuccess
  <2>2. Reader!Collected(r) = Proc!Reader!Collected(r)
    BY DEF Reader!Collected, Reader!Blocks, Proc!Reader!Collected, Proc!Reader!Blocks
  <2>3. ASSUME NEW place PROVE Reader!End(r, place) <=> Proc!Reader!End(r, place)
    BY DEF Reader!End, Proc!Reader!End
  <2> QED
    BY <1>5, <1>6, <2>1, <2>2, <2>3 DEF Reader!Answers, Proc!Reader!Answers
<1>10. ASSUME NEW r PROVE Reader!Shrink(r) <=> Proc!Reader!Shrink(r)
  BY <1>1, <1>5, <1>6, <1>7 DEF Reader!Shrink, Proc!Reader!Shrink
<1>11. ASSUME NEW r, NEW b PROVE Reader!AskNext(r, b) <=> Proc!Reader!AskNext(r, b)
  BY DEF Reader!AskNext, Reader!readerVars, Proc!Reader!AskNext, Proc!Reader!readerVars
<1>12. ASSUME NEW r PROVE Reader!Step(r) <=> Proc!Reader!Step(r)
  BY <1>5, <1>7, <1>9, <1>10, <1>11
  DEF Reader!Step, Reader!Refuses, Reader!Fails, Reader!GivesUp, Reader!Superseded,
      Reader!readerVars, Proc!Reader!Step, Proc!Reader!Refuses, Proc!Reader!Fails,
      Proc!Reader!GivesUp, Proc!Reader!Superseded, Proc!Reader!readerVars
<1>13. [Reader!Next]_Reader!vars <=> [Proc!Reader!Next]_Proc!Reader!vars
  BY <1>8, <1>12 DEF Reader!Next, Reader!vars, Reader!readerVars, Reader!readVars,
     Proc!Reader!Next, Proc!Reader!vars, Proc!Reader!readerVars, Proc!Reader!readVars
<1> QED
  BY <1>2, <1>3, <1>4, <1>13

LEMMA LifeIsLife ==
  /\ Life!Init <=> Proc!Life!Init
  /\ [Life!Next]_Life!vars <=> [Proc!Life!Next]_Proc!Life!vars
  /\ Life!TypeOK <=> Proc!Life!TypeOK
  /\ Life!StopLeavesNothing <=> Proc!Life!StopLeavesNothing
BY DEF Life!vars, Life!Places, Life!Init, Life!Alive, Life!Process, Life!Store,
   Life!Ends, Life!ChainIdPasses, Life!ChainIdFails, Life!SyncEnds,
   Life!IntervalFires, Life!Moves, Life!Ready, Life!SyncWaited, Life!Answered,
   Life!Diag, Life!ProbesEnd, Life!Probed, Life!ProbesExpire, Life!HangsUp,
   Life!Signal, Life!Waiting, Life!Exits, Life!Forced, Life!RequestStep,
   Life!Next, Life!TypeOK, Life!StopLeavesNothing, Proc!Life!vars,
   Proc!Life!Places, Proc!Life!Init, Proc!Life!Alive, Proc!Life!Process,
   Proc!Life!Store, Proc!Life!Ends, Proc!Life!ChainIdPasses,
   Proc!Life!ChainIdFails, Proc!Life!SyncEnds, Proc!Life!IntervalFires,
   Proc!Life!Moves, Proc!Life!Ready, Proc!Life!SyncWaited, Proc!Life!Answered,
   Proc!Life!Diag, Proc!Life!ProbesEnd, Proc!Life!Probed,
   Proc!Life!ProbesExpire, Proc!Life!HangsUp, Proc!Life!Signal,
   Proc!Life!Waiting, Proc!Life!Exits, Proc!Life!Forced, Proc!Life!RequestStep,
   Proc!Life!Next, Proc!Life!TypeOK, Proc!Life!StopLeavesNothing

LEMMA CutIsCut ==
  /\ Cut!Init <=> Proc!Cut!Init
  /\ [Cut!Next]_Cut!vars <=> [Proc!Cut!Next]_Proc!Cut!vars
  /\ Cut!TypeOK <=> Proc!Cut!TypeOK
  /\ Cut!OwnerIsThere <=> Proc!Cut!OwnerIsThere
BY DEF Cut!vars, Cut!Roles, Cut!Environments, Cut!Init, Cut!V1Changes,
   Cut!RoleAdmin, Cut!Allowed, Cut!MembersAfter, Cut!Mine, Cut!Grant,
   Cut!Revoke, Cut!Enumerated, Cut!Replayed, Cut!PlanAdmins, Cut!Deploy,
   Cut!Finish, Cut!Places, Cut!After, Cut!HandsOver, Cut!Transaction,
   Cut!Needed, Cut!ToDeactivate, Cut!Enter, Cut!SendNow, Cut!Quiet, Cut!Send,
   Cut!Skip, Cut!MigrateOne, Cut!DeactivateOne, Cut!ListDone, Cut!Reverts,
   Cut!Crash, Cut!Run, Cut!Next, Cut!Fairness, Cut!TypeOK, Cut!OwnerIsThere,
   Proc!Cut!vars, Proc!Cut!Roles, Proc!Cut!Environments, Proc!Cut!Init,
   Proc!Cut!V1Changes, Proc!Cut!RoleAdmin, Proc!Cut!Allowed,
   Proc!Cut!MembersAfter, Proc!Cut!Mine, Proc!Cut!Grant, Proc!Cut!Revoke,
   Proc!Cut!Enumerated, Proc!Cut!Replayed, Proc!Cut!PlanAdmins, Proc!Cut!Deploy,
    Proc!Cut!Finish, Proc!Cut!Places, Proc!Cut!After, Proc!Cut!HandsOver,
   Proc!Cut!Transaction, Proc!Cut!Needed, Proc!Cut!ToDeactivate, Proc!Cut!Enter,
    Proc!Cut!SendNow, Proc!Cut!Quiet, Proc!Cut!Send, Proc!Cut!Skip,
   Proc!Cut!MigrateOne, Proc!Cut!DeactivateOne, Proc!Cut!ListDone,
   Proc!Cut!Reverts, Proc!Cut!Crash, Proc!Cut!Run, Proc!Cut!Next,
   Proc!Cut!Fairness, Proc!Cut!TypeOK, Proc!Cut!OwnerIsThere

(* What the theorems about each part need holds of the values in MCProgress. *)
LEMMA PartAssumptions ==
  Proc!LockAssumption /\ Proc!ReaderAssumption /\ Proc!CutoverAssumption
<1>1. Proc!LockAssumption
  <2>1. \A f : \E g \in 1 .. 5 : g # f
    <3> SUFFICES ASSUME NEW f PROVE \E g \in 1 .. 5 : g # f
      OBVIOUS
    <3>1. CASE f = 1
      BY <3>1, 2 \in 1 .. 5
    <3>2. CASE f # 1
      BY <3>2, 1 \in 1 .. 5
    <3> QED
      BY <3>1, <3>2
  <2> QED
    BY <2>1, NoFileAssumption DEF Proc!LockAssumption, AlmostAnywhere
<1>2. Proc!ReaderAssumption
  <2>1. <<1, 3>> \in [1 .. 2 -> Nat]
    OBVIOUS
  <2> QED
    BY <2>1 DEF Proc!ReaderAssumption
<1>3. Proc!CutoverAssumption
  BY DEF Proc!CutoverAssumption
<1> QED
  BY <1>1, <1>2, <1>3

PartsInv ==
  /\ IInv
  /\ part = "lock" => Proc!LockInv
  /\ part = "reader" => Proc!ReaderInv
  /\ part = "process" => Proc!LifeInv
  /\ part = "cutover" => Proc!CutInv

LEMMA PartsInitially == SumInit => PartsInv
<1> SUFFICES ASSUME SumInit PROVE PartsInv
  OBVIOUS
<1>1. IInv
  BY PartInit, InitIInv
<1>2. part = "lock" => Proc!LockInv
  BY PartInit, PartAssumptions, LockIsLock, Proc!LockInit
<1>3. part = "reader" => Proc!ReaderInv
  BY PartInit, PartAssumptions, ReaderIsReader, Proc!ReaderInit
<1>4. part = "process" => Proc!LifeInv
  BY PartInit, LifeIsLife, Proc!LifeInit
<1>5. part = "cutover" => Proc!CutInv
  BY PartInit, PartAssumptions, CutIsCut, Proc!CutInit
<1> QED
  BY <1>1, <1>2, <1>3, <1>4, <1>5 DEF PartsInv

LEMMA PartsStep == PartsInv /\ [SumNext]_<<part, vars, others>> => PartsInv'
<1> SUFFICES ASSUME PartsInv, [SumNext]_<<part, vars, others>> PROVE PartsInv'
  OBVIOUS
<1>1. IInv'
  BY PartStep, NextKeeps DEF PartsInv
<1>2. part = "lock" => Proc!LockInv'
  BY PartStep, PartAssumptions, LockIsLock, Proc!LockStep DEF PartsInv
<1>3. part = "reader" => Proc!ReaderInv'
  BY PartStep, PartAssumptions, ReaderIsReader, Proc!ReaderStep DEF PartsInv
<1>4. part = "process" => Proc!LifeInv'
  BY PartStep, LifeIsLife, Proc!LifeStep DEF PartsInv
<1>5. part = "cutover" => Proc!CutInv'
  BY PartStep, PartAssumptions, CutIsCut, Proc!CutStep DEF PartsInv
<1> QED
  BY <1>1, <1>2, <1>3, <1>4, <1>5, PartStep DEF PartsInv

THEOREM PartsInvariance == FairSumSpec => []PartsInv
BY PartsInitially, PartsStep, PTL DEF FairSumSpec

\* Type correctness of the event store, the lock, reads of logs, the server
\* process and the cutover.
THEOREM PartsTypeCorrect == FairSumSpec => []TypesOK
<1>1. PartsInv => TypesOK
  <2> SUFFICES ASSUME PartsInv PROVE TypesOK
    OBVIOUS
  <2>1. TypeOK
    BY IInvImpliesTypeOK DEF PartsInv
  <2>2. part = "lock" => Lock!TypeOK
    BY LockIsLock DEF PartsInv, Proc!LockInv
  <2>3. part = "reader" => Reader!TypeOK
    BY ReaderIsReader DEF PartsInv, Proc!ReaderInv
  <2>4. part = "process" => Life!TypeOK
    BY LifeIsLife DEF PartsInv, Proc!LifeInv
  <2>5. part = "cutover" => Cut!TypeOK
    BY CutIsCut DEF PartsInv, Proc!CutInv
  <2> QED
    BY <2>1, <2>2, <2>3, <2>4, <2>5 DEF TypesOK
<1> QED
  BY <1>1, PartsInvariance, PTL

\* Of two processes one at a time runs under the file lock, and its lock is
\* not lost (withFileLock, breakIfStale).
THEOREM LockStaysExclusive == FairSumSpec => []LockIsExclusive
<1>1. PartsInv => LockIsExclusive
  BY LockIsLock, Proc!LockFollows DEF PartsInv, LockIsExclusive
<1> QED
  BY <1>1, PartsInvariance, PTL

\* The new contract stays governed wherever a script of the cutover dies, a
\* read of logs has each block once and shrinks the span once, and a process
\* that was told to stop keeps no timer.
THEOREM NothingGetsLost == FairSumSpec => []NothingIsLost
<1>1. PartsInv => NothingIsLost
  <2> SUFFICES ASSUME PartsInv PROVE NothingIsLost
    OBVIOUS
  <2>1. part = "cutover" => Cut!OwnerIsThere
    BY CutIsCut DEF PartsInv, Proc!CutInv
  <2>2. part = "reader" => Reader!EachBlockOnce /\ Reader!SpanIsKept
    BY ReaderIsReader, PartAssumptions, Proc!ReaderFollows DEF PartsInv
  <2>3. part = "process" => Life!StopLeavesNothing
    BY LifeIsLife DEF PartsInv, Proc!LifeInv
  <2> QED
    BY <2>1, <2>2, <2>3 DEF NothingIsLost
<1> QED
  BY <1>1, PartsInvariance, PTL
=============================================================================
