---------------------------- MODULE ProcessProofs ----------------------------
(***************************************************************************)
(* What the parts that run as processes promise, for every value of their  *)
(* constants: the server process, the file lock, reads of logs and the     *)
(* scripts of the cutover.  Each is an instance with variables of its own; *)
(* each section has the inductive invariant behind the promise, the lemma  *)
(* that a step keeps it, one case per action, and the theorem.  Instances  *)
(* bring no assumptions along: what a theorem needs of the constants is    *)
(* its hypothesis.                                                         *)
(***************************************************************************)
EXTENDS Integers, Sequences, FiniteSetTheorems, SequenceTheorems, WellFoundedInduction, TLAPS

\* ServerLife
CONSTANT Requests
VARIABLES phase, exit, chain, listening, sync, interval, early, probes, waitsAt

Life == INSTANCE ServerLife WITH at <- waitsAt

\* FileLock
CONSTANTS Processes, Files, NoFile, CrashAt, LockCrashes
VARIABLES path, stale, lockAt, own, seen, grave, lockCrashed

Lock == INSTANCE FileLock WITH at <- lockAt, crashes <- lockCrashed, MaxCrashes <- LockCrashes

\* LogReader
CONSTANTS Readers, Sources, Limits, First, Last, ReadSpan, GrowAfter
VARIABLES span, preferred, successes, readAt, whole, from, to, attempt, source, refused, got

Reader == INSTANCE LogReader WITH at <- readAt, MaxSpan <- ReadSpan

\* Cutover
CONSTANTS Accounts, Deployer, Lecturers, Targets, Minters, Surveys, AdminLists, Excludes,
          MissLimit, ScriptCrashes
VARIABLES env, v1Admins, v1Granted, v1Revoked, v1Known, v1Active, proxy, members, queue,
          script, pc, waiting, todo, scriptCrashed

Cut == INSTANCE Cutover WITH MaxCrashes <- ScriptCrashes, crashes <- scriptCrashed

-----------------------------------------------------------------------------
(* ServerLife: one server process from its start to its end.               *)

\* A signal that comes while the first sync is under way is remembered as
\* such, for as long as that sync, which sets the interval when it ends.
LifeInv ==
  /\ Life!TypeOK
  /\ phase = "stopping" /\ sync = "first" => early
  /\ Life!StopLeavesNothing

LEMMA LifeInit == Life!Init => LifeInv
BY DEF Life!Init, LifeInv, Life!TypeOK, Life!StopLeavesNothing, Life!Places

LEMMA LifeStep == ASSUME LifeInv, [Life!Next]_Life!vars PROVE LifeInv'
<1>0. /\ Life!TypeOK
      /\ phase = "stopping" /\ sync = "first" => early
      /\ phase = "stopping" /\ interval => early
  BY DEF LifeInv, Life!StopLeavesNothing
<1> USE DEF Life!TypeOK, Life!Alive, Life!Process, Life!Store
\* What requests, probes and the chain do leaves the store's sync alone, or
\* starts one.
<1>1. ASSUME UNCHANGED <<phase, interval, early>>,
             sync' = sync \/ sync' # "first",
             Life!TypeOK'
      PROVE  LifeInv'
  <2>1. phase' = "stopping" /\ sync' = "first" => early'
    BY <1>0, <1>1
  <2>2. phase' = "stopping" /\ interval' => early'
    BY <1>0, <1>1
  <2> QED
    BY <1>1, <2>1, <2>2 DEF LifeInv, Life!StopLeavesNothing
<1>2. ASSUME NEW how \in {"clean", "forced", "wrong chain"}, Life!Ends(how) PROVE LifeInv'
  <2>1. Life!TypeOK'
    BY <1>0, <1>2 DEF Life!Ends, Life!Places
  <2>2. phase' # "stopping"
    BY <1>2 DEF Life!Ends
  <2> QED
    BY <2>1, <2>2 DEF LifeInv, Life!StopLeavesNothing
<1>3. CASE Life!ChainIdPasses
  BY <1>0, <1>1, <1>3 DEF Life!ChainIdPasses
<1>4. CASE Life!ChainIdFails
  BY <1>2, <1>4 DEF Life!ChainIdFails
<1>5. CASE Life!SyncEnds
  <2>1. Life!TypeOK'
    BY <1>0, <1>5 DEF Life!SyncEnds
  <2>2. phase' = "stopping" /\ interval' => early'
    <3>1. UNCHANGED <<phase, early>> /\ interval' = (interval \/ sync = "first")
      BY <1>5 DEF Life!SyncEnds
    <3> QED
      BY <1>0, <3>1
  <2>3. sync' # "first"
    BY <1>5 DEF Life!SyncEnds
  <2> QED
    BY <2>1, <2>2, <2>3 DEF LifeInv, Life!StopLeavesNothing
<1>6. CASE Life!IntervalFires
  BY <1>0, <1>1, <1>6 DEF Life!IntervalFires
<1>7. ASSUME NEW r \in Requests, Life!RequestStep(r) PROVE LifeInv'
  <2> USE DEF Life!Moves, Life!Places
  <2>1. CASE Life!Ready(r)
    <3>1. UNCHANGED <<phase, interval, early>> /\ (sync' = sync \/ sync' = "under way")
      BY <2>1 DEF Life!Ready
    <3>2. Life!TypeOK'
      BY <1>0, <2>1, <3>1 DEF Life!Ready
    <3> QED
      BY <1>1, <3>1, <3>2
  <2>2. CASE Life!SyncWaited(r) \/ Life!Answered(r)
    BY <1>0, <1>1, <2>2 DEF Life!SyncWaited, Life!Answered
  <2>3. CASE Life!Diag(r)
    BY <1>0, <1>1, <2>3 DEF Life!Diag
  <2>4. CASE Life!Probed(r) \/ Life!HangsUp(r)
    BY <1>0, <1>1, <2>4 DEF Life!Probed, Life!HangsUp
  <2> QED
    BY <1>7, <2>1, <2>2, <2>3, <2>4 DEF Life!RequestStep
<1>8. CASE Life!ProbesEnd \/ Life!ProbesExpire
  BY <1>0, <1>1, <1>8 DEF Life!ProbesEnd, Life!ProbesExpire
<1>9. CASE Life!Signal
  <2>1. Life!TypeOK'
    BY <1>0, <1>9 DEF Life!Signal
  <2>2. ~interval'
    BY <1>9 DEF Life!Signal
  <2>3. sync' = "first" => early'
    <3>1. early' = (early \/ sync = "first") /\ sync' = sync
      BY <1>9 DEF Life!Signal
    <3> QED
      BY <3>1
  <2> QED
    BY <2>1, <2>2, <2>3 DEF LifeInv, Life!StopLeavesNothing
<1>10. CASE Life!Exits \/ Life!Forced
  BY <1>2, <1>10 DEF Life!Exits, Life!Forced
<1>11. CASE UNCHANGED Life!vars
  BY <1>0, <1>1, <1>11 DEF Life!vars
<1> QED
  BY <1>3, <1>4, <1>5, <1>6, <1>7, <1>8, <1>9, <1>10, <1>11 DEF Life!Next

(* A process that was told to stop keeps no timer that holds it, but for    *)
(* one whose signal came during its first sync.                             *)
THEOREM StoppedKeepsNoTimer == Life!Spec => [](Life!TypeOK /\ Life!StopLeavesNothing)
<1>1. Life!Init => LifeInv
  BY LifeInit
<1>2. LifeInv /\ [Life!Next]_Life!vars => LifeInv'
  BY LifeStep
<1>3. LifeInv => Life!TypeOK /\ Life!StopLeavesNothing
  BY DEF LifeInv
<1> QED
  BY <1>1, <1>2, <1>3, PTL DEF Life!Spec

-----------------------------------------------------------------------------
(* FileLock: two processes, as many files and crashes as one likes.  With a *)
(* third process, or a crash between moving a fresh lock away and giving it *)
(* back, the promise is not kept.                                           *)

LockAssumption ==
  /\ \A p, q, r \in Processes : p = q \/ q = r \/ p = r
  /\ NoFile \notin Files /\ \A f : \E g \in Files : g # f
  /\ CrashAt \intersect {"idle", "giveBack"} = {}
  /\ LockCrashes \in Nat

\* The lock of the process p is in place, or q has moved it by mistake and no
\* other has come in its place.
Moved(p, q) == lockAt[q] = "giveBack" /\ grave[q] = own[p] /\ path = NoFile

\* A lock that somebody holds is not stale, what somebody means to take away
\* is, and only one process holds one.
LockInv ==
  /\ Lock!TypeOK
  /\ \A p \in Processes : own[p] # NoFile => own[p] \notin stale
  /\ \A p \in Processes : seen[p] # NoFile => seen[p] \in stale
  /\ \A p \in Processes : own[p] # NoFile =>
       path = own[p] \/ \E q \in Processes : Moved(p, q)
  /\ \A p, q \in Processes : own[p] # NoFile /\ own[q] # NoFile => p = q

LEMMA LockInit == LockAssumption /\ Lock!Init => LockInv
BY DEF LockAssumption, Lock!Init, LockInv, Lock!TypeOK, Lock!Places

LEMMA LockStep ==
  ASSUME LockAssumption, LockInv, [Lock!Next]_Lock!vars
  PROVE  LockInv'
<1> USE DEF LockInv, Lock!TypeOK, Lock!Places, Lock!Go
<1>1. ASSUME NEW p \in Processes, Lock!Call(p) PROVE LockInv'
  BY <1>1 DEF Lock!Call, Moved
<1>2. ASSUME NEW p \in Processes, Lock!Create(p) PROVE LockInv'
  <2> DEFINE new == CHOOSE f \in Files : f \notin Lock!InUse
  <2>1. lockAt[p] = "open" /\ path = NoFile /\ own[p] = NoFile /\ seen[p] = NoFile /\ grave[p] = NoFile
    BY <1>2 DEF Lock!Create
  <2>2. new \in Files /\ new \notin Lock!InUse
    <3>1. PICK other : Lock!InUse \subseteq {NoFile, other}
      <4>1. CASE \E q \in Processes : q # p
        <5>1. PICK q \in Processes : q # p
          BY <4>1
        <5>2. Processes = {p, q}
          BY <5>1 DEF LockAssumption
        <5>3. PICK other : {own[q], seen[q], grave[q]} \subseteq {NoFile, other}
          <6>1. CASE own[q] # NoFile
            <7>1. seen[q] = NoFile /\ grave[q] = NoFile
              BY <6>1
            <7> QED
              BY <7>1
          <6>2. CASE own[q] = NoFile /\ seen[q] # NoFile
            <7>1. grave[q] = NoFile
              BY <6>2
            <7> QED
              BY <6>2, <7>1
          <6>3. CASE own[q] = NoFile /\ seen[q] = NoFile
            BY <6>3
          <6> QED
            BY <6>1, <6>2, <6>3
        <5> QED
          BY <2>1, <5>2, <5>3 DEF Lock!InUse
      <4>2. CASE \A q \in Processes : q = p
        BY <2>1, <4>2 DEF Lock!InUse
      <4> QED
        BY <4>1, <4>2
    <3>2. PICK f \in Files : f # other
      BY DEF LockAssumption
    <3>3. f \notin Lock!InUse
      BY <3>1, <3>2 DEF LockAssumption
    <3> QED
      BY <3>2, <3>3
  <2>3. /\ path' = new /\ own' = [own EXCEPT ![p] = new] /\ stale' = stale \ {new}
        /\ lockAt' = [lockAt EXCEPT ![p] = "in"] /\ UNCHANGED <<seen, grave, lockCrashed>>
    BY <1>2 DEF Lock!Create
  <2> HIDE DEF new
  <2>4. \A q \in Processes : own[q] = NoFile
    <3> SUFFICES ASSUME NEW q \in Processes, own[q] # NoFile PROVE FALSE
      OBVIOUS
    <3>1. PICK r \in Processes : Moved(q, r)
      BY <2>1
    <3>2. lockAt[r] = "giveBack" /\ lockAt[q] \in {"in", "unlink"}
      BY <3>1 DEF Moved
    <3> QED
      BY <2>1, <3>2 DEF LockAssumption
  <2>5. \A q \in Processes : seen[q] # new
    BY <2>2 DEF Lock!InUse
  <2>6. \A q \in Processes : own'[q] = IF q = p THEN new ELSE NoFile
    BY <2>3, <2>4
  <2>7. new # NoFile
    BY <2>2 DEF LockAssumption
  <2>8. Lock!TypeOK'
    BY <2>1, <2>2, <2>3, <2>4, <2>7
  <2>9. \A q \in Processes : own'[q] # NoFile => own'[q] \notin stale'
    BY <2>3, <2>6
  <2>10. \A q \in Processes : seen'[q] # NoFile => seen'[q] \in stale'
    BY <2>3, <2>5
  <2> QED
    BY <2>3, <2>6, <2>8, <2>9, <2>10
<1>3. ASSUME NEW p \in Processes, Lock!Exists(p) PROVE LockInv'
  BY <1>3 DEF Lock!Exists, Moved
<1>4. ASSUME NEW p \in Processes, Lock!Look(p) PROVE LockInv'
  BY <1>4 DEF Lock!Look, Moved, LockAssumption
<1>5. ASSUME NEW p \in Processes, Lock!Take(p) PROVE LockInv'
  BY <1>5 DEF Lock!Take, Lock!MovedAnother, Moved
<1>6. ASSUME NEW p \in Processes, Lock!GiveBack(p) PROVE LockInv'
  BY <1>6 DEF Lock!GiveBack, Moved, LockAssumption
<1>7. ASSUME NEW p \in Processes, Lock!Bury(p) PROVE LockInv'
  BY <1>7 DEF Lock!Bury, Moved
<1>8. ASSUME NEW p \in Processes, Lock!Again(p) PROVE LockInv'
  BY <1>8 DEF Lock!Again, Moved
<1>9. ASSUME NEW p \in Processes, Lock!Leave(p) PROVE LockInv'
  BY <1>9 DEF Lock!Leave, Moved
<1>10. ASSUME NEW p \in Processes, Lock!Unlink(p) PROVE LockInv'
  BY <1>10 DEF Lock!Unlink, Moved
<1>11. ASSUME NEW p \in Processes, Lock!Crash(p) PROVE LockInv'
  BY <1>11 DEF Lock!Crash, Moved, LockAssumption
<1>12. CASE Lock!Age
  BY <1>12 DEF Lock!Age, Moved
<1>13. CASE UNCHANGED Lock!vars
  BY <1>13 DEF Lock!vars, Moved
<1> QED
  BY <1>1, <1>2, <1>3, <1>4, <1>5, <1>6, <1>7, <1>8, <1>9, <1>10, <1>11, <1>12, <1>13
  DEF Lock!Next, Lock!Step

LEMMA LockFollows == ASSUME LockInv PROVE Lock!MutualExclusion /\ Lock!HeldLockIsKept
BY DEF LockInv, Lock!TypeOK, Lock!MutualExclusion, Lock!HeldLockIsKept, Moved

(* Of two processes one at a time runs under the lock, and its lock is not  *)
(* lost, however stale locks are broken and holders crash.                  *)
THEOREM LockExcludes ==
  ASSUME LockAssumption
  PROVE  Lock!Spec => [](Lock!TypeOK /\ Lock!MutualExclusion /\ Lock!HeldLockIsKept)
<1>1. Lock!Init => LockInv
  BY LockInit
<1>2. LockInv /\ [Lock!Next]_Lock!vars => LockInv'
  BY LockStep
<1>3. LockInv => Lock!TypeOK /\ Lock!MutualExclusion /\ Lock!HeldLockIsKept
  BY LockFollows DEF LockInv
<1> QED
  BY <1>1, <1>2, <1>3, PTL DEF Lock!Spec

-----------------------------------------------------------------------------
(* LogReader: reads that share a span and a preferred source.              *)

ReaderAssumption ==
  /\ Sources \in Nat \ {0} /\ Limits \in [1 .. Sources -> Nat]
  /\ First \in Int /\ Last \in Int /\ First <= Last
  /\ ReadSpan \in Nat \ {0} /\ GrowAfter \in Nat \ {0}

LEMMA SmallerOfTwo ==
  ASSUME NEW i \in Int, NEW j \in Int
  PROVE  Reader!Min({i, j}) = IF i <= j THEN i ELSE j
<1> DEFINE small == IF i <= j THEN i ELSE j
<1>1. small \in {i, j} /\ \A y \in {i, j} : small <= y
  OBVIOUS
<1>2. \A x \in {i, j} : (\A y \in {i, j} : x <= y) => x = small
  OBVIOUS
<1> HIDE DEF small
<1>3. Reader!Min({i, j}) = small
  BY <1>1, <1>2 DEF Reader!Min
<1> QED
  BY <1>3 DEF small

LEMMA LargerOfTwo ==
  ASSUME NEW i \in Int, NEW j \in Int
  PROVE  Reader!Max({i, j}) = IF i >= j THEN i ELSE j
<1> DEFINE large == IF i >= j THEN i ELSE j
<1>1. large \in {i, j} /\ \A y \in {i, j} : large >= y
  OBVIOUS
<1>2. \A x \in {i, j} : (\A y \in {i, j} : x >= y) => x = large
  OBVIOUS
<1> HIDE DEF large
<1>3. Reader!Max({i, j}) = large
  BY <1>1, <1>2 DEF Reader!Max
<1> QED
  BY <1>3 DEF large

\* The widest range that no source refuses.
Narrowest == Reader!Min({Limits[i] : i \in 1 .. Sources})

(* A set of naturals has a least element: the shortest of the intervals from *)
(* zero to its elements ends in one.                                         *)
LEMMA LeastNatural ==
  ASSUME NEW S, S \subseteq Nat, S # {}
  PROVE  \E least \in S : \A y \in S : least <= y
<1> DEFINE T == {0 .. n : n \in S}
<1>1. T \subseteq FiniteSubsetsOf(Nat)
  <2> SUFFICES ASSUME NEW n \in S PROVE 0 .. n \in FiniteSubsetsOf(Nat)
    OBVIOUS
  <2>1. IsFiniteSet(0 .. n)
    BY FS_Interval
  <2>2. 0 .. n \subseteq Nat
    OBVIOUS
  <2> QED
    BY <2>1, <2>2 DEF FiniteSubsetsOf
<1>2. T # {}
  OBVIOUS
<1>3. PICK x \in T : \A y \in T : <<y, x>> \notin StrictSubsetOrdering(Nat)
  <2> HIDE DEF T
  <2> QED
    BY <1>1, <1>2, FS_StrictSubsetOrderingWellFounded, WFMin
<1>4. PICK n \in S : x = 0 .. n
  OBVIOUS
<1>5. ASSUME NEW m \in S, ~ (n <= m) PROVE FALSE
  <2>1. 0 .. m \in T /\ 0 .. m \subseteq 0 .. n /\ 0 .. m # 0 .. n
    <3>1. n \in 0 .. n /\ n \notin 0 .. m
      BY <1>5
    <3> QED
      BY <1>5, <3>1
  <2>2. <<0 .. m, x>> \in StrictSubsetOrdering(Nat)
    BY <1>4, <2>1 DEF StrictSubsetOrdering
  <2> QED
    BY <1>3, <2>1, <2>2
<1> QED
  BY <1>5

LEMMA NarrowestIsLeast ==
  ASSUME ReaderAssumption
  PROVE  Narrowest \in Nat /\ \A i \in 1 .. Sources : Narrowest <= Limits[i]
<1> DEFINE S == {Limits[i] : i \in 1 .. Sources}
<1>1. S \subseteq Nat
  BY DEF ReaderAssumption
<1>2. Limits[1] \in S
  BY DEF ReaderAssumption
<1>3. Narrowest \in S /\ \A y \in S : Narrowest <= y
  <2> HIDE DEF S
  <2>1. \E least \in S : \A y \in S : least <= y
    BY <1>1, <1>2, LeastNatural
  <2> QED
    BY <2>1 DEF Narrowest, Reader!Min, S
<1> QED
  BY <1>1, <1>3

\* A read asks for a range it has nothing of yet; a source that refused it
\* refused more than all sources answer.
ReadFits(r) ==
  /\ readAt[r] = "asking" =>
       /\ from[r] <= to[r]
       /\ \A b \in Reader!Blocks : got[r][b] = IF b < from[r] THEN 1 ELSE 0
  /\ readAt[r] = "done" /\ whole[r] => \A b \in Reader!Blocks : got[r][b] = 1
  /\ refused[r] => Reader!Width(r) > Narrowest

\* The span was never shrunk, or no further than half of what all answer.
SpanFits == span = ReadSpan \/ 2 * span >= Narrowest

ReaderInv == Reader!TypeOK /\ SpanFits /\ \A r \in Readers : ReadFits(r)

LEMMA ReaderInit == ReaderAssumption /\ Reader!Init => ReaderInv
<1> SUFFICES ASSUME ReaderAssumption, Reader!Init PROVE ReaderInv
  OBVIOUS
<1>1. Reader!TypeOK
  BY DEF ReaderAssumption, Reader!Init, Reader!TypeOK, Reader!Blocks, Reader!NoBlocks
<1>2. SpanFits
  BY DEF Reader!Init, SpanFits
<1>3. ASSUME NEW r \in Readers PROVE ReadFits(r)
  <2>1. readAt[r] = "idle" /\ refused[r] = FALSE
    BY DEF Reader!Init
  <2> QED
    BY <2>1 DEF ReadFits
<1> QED
  BY <1>1, <1>2, <1>3 DEF ReaderInv

\* What a step of one read leaves alone of the others.
OthersStay(r) ==
  \A q \in Readers \ {r} :
    /\ readAt'[q] = readAt[q] /\ whole'[q] = whole[q] /\ from'[q] = from[q] /\ to'[q] = to[q]
    /\ refused'[q] = refused[q] /\ got'[q] = got[q]

LEMMA OthersFit ==
  ASSUME NEW r \in Readers, OthersStay(r), \A q \in Readers : ReadFits(q), ReadFits(r)'
  PROVE  \A q \in Readers : ReadFits(q)'
<1> SUFFICES ASSUME NEW q \in Readers, q # r PROVE ReadFits(q)'
  OBVIOUS
<1>1. ReadFits(q)
  OBVIOUS
<1>2. /\ readAt'[q] = readAt[q] /\ from'[q] = from[q] /\ to'[q] = to[q] /\ got'[q] = got[q]
  BY DEF OthersStay
<1>3. whole'[q] = whole[q] /\ refused'[q] = refused[q]
  BY DEF OthersStay
<1>4. Narrowest' = Narrowest
  BY DEF Narrowest, Reader!Min
<1>5. readAt'[q] = "done" /\ whole'[q] => readAt[q] = "done" /\ whole[q]
  BY <1>2, <1>3
<1>6. refused'[q] => refused[q]
  BY <1>3
<1> QED
  BY <1>1, <1>2, <1>4, <1>5, <1>6 DEF ReadFits, Reader!Width, Reader!Blocks

\* The variables of a request.
RequestTypes ==
  /\ from \in [Readers -> Reader!Blocks] /\ to \in [Readers -> Reader!Blocks]
  /\ attempt \in [Readers -> 0 .. Sources - 1] /\ source \in [Readers -> 0 .. Sources - 1]
  /\ refused \in [Readers -> BOOLEAN]

(* Where a request that starts at first ends.                                *)
LEMMA RangeEnd ==
  ASSUME ReaderAssumption, NEW first \in First .. Last, NEW width \in 1 .. ReadSpan
  PROVE  Reader!Min({first + width - 1, Last}) \in first .. Last
<1>1. /\ First \in Int /\ Last \in Int /\ ReadSpan \in Int
  BY DEF ReaderAssumption
<1>2. first \in Int /\ width \in Int /\ First <= first /\ first <= Last /\ 1 <= width
  BY <1>1
<1>3. Reader!Min({first + width - 1, Last})
        = IF first + width - 1 <= Last THEN first + width - 1 ELSE Last
  BY <1>1, <1>2, SmallerOfTwo
<1> QED
  BY <1>1, <1>2, <1>3

LEMMA Requested ==
  ASSUME ReaderAssumption, RequestTypes, NEW r \in Readers, NEW first \in First .. Last,
         span' \in 1 .. ReadSpan, preferred' \in 0 .. Sources - 1, Reader!Request(r, first)
  PROVE  /\ RequestTypes'
         /\ from'[r] = first /\ first <= to'[r] /\ refused'[r] = FALSE
         /\ \A q \in Readers \ {r} :
              from'[q] = from[q] /\ to'[q] = to[q] /\ refused'[q] = refused[q]
<1>1. PICK end \in First .. Last : end = Reader!Min({first + span' - 1, Last}) /\ first <= end
  <2>1. Reader!Min({first + span' - 1, Last}) \in first .. Last
    BY RangeEnd
  <2>2. First \in Int /\ Last \in Int
    BY DEF ReaderAssumption
  <2> QED
    BY <2>1, <2>2
<1>2. /\ from' = [from EXCEPT ![r] = first] /\ to' = [to EXCEPT ![r] = end]
      /\ attempt' = [attempt EXCEPT ![r] = 0] /\ source' = [source EXCEPT ![r] = preferred']
      /\ refused' = [refused EXCEPT ![r] = FALSE]
  BY <1>1 DEF Reader!Request
<1>3. 0 \in 0 .. Sources - 1
  BY DEF ReaderAssumption
<1>4. RequestTypes'
  BY <1>1, <1>2, <1>3 DEF RequestTypes, Reader!Blocks
<1> QED
  BY <1>1, <1>2, <1>4 DEF RequestTypes

LEMMA Ended ==
  ASSUME ReaderAssumption, Reader!TypeOK, NEW r \in Readers, NEW place \in {"idle", "done"},
         Reader!End(r, place)
  PROVE  /\ RequestTypes' /\ readAt' \in [Readers -> {"idle", "asking", "done"}]
         /\ readAt'[r] = place /\ refused'[r] = FALSE
         /\ \A q \in Readers \ {r} : readAt'[q] = readAt[q] /\
              from'[q] = from[q] /\ to'[q] = to[q] /\ refused'[q] = refused[q]
<1>1. 0 \in 0 .. Sources - 1 /\ First \in First .. Last
  BY DEF ReaderAssumption
<1> QED
  BY <1>1 DEF Reader!End, Reader!TypeOK, RequestTypes, Reader!Blocks

LEMMA Thrown ==
  ASSUME ReaderAssumption, ReaderInv, NEW r \in Readers, Reader!Throw(r),
         span' \in 1 .. ReadSpan, preferred' \in 0 .. Sources - 1, successes' \in 0 .. GrowAfter,
         UNCHANGED whole, SpanFits'
  PROVE  ReaderInv'
<1>1. Reader!End(r, "idle") /\ got' = [got EXCEPT ![r] = Reader!NoBlocks]
  BY DEF Reader!Throw
<1>2. Reader!TypeOK
  BY DEF ReaderInv
<1>3. /\ RequestTypes' /\ readAt' \in [Readers -> {"idle", "asking", "done"}]
      /\ readAt'[r] = "idle" /\ refused'[r] = FALSE
      /\ \A q \in Readers \ {r} : readAt'[q] = readAt[q] /\
              from'[q] = from[q] /\ to'[q] = to[q] /\ refused'[q] = refused[q]
  BY <1>1, <1>2, Ended
<1>4. got' \in [Readers -> [Reader!Blocks -> Nat]]
  BY <1>1, <1>2 DEF Reader!TypeOK, Reader!NoBlocks
<1>5. Reader!TypeOK'
  BY <1>2, <1>3, <1>4 DEF Reader!TypeOK, RequestTypes, Reader!Blocks
<1>6. OthersStay(r)
  BY <1>1, <1>2, <1>3 DEF OthersStay, Reader!TypeOK
<1>7. ReadFits(r)'
  BY <1>3 DEF ReadFits
<1> QED
  BY <1>5, <1>6, <1>7, OthersFit DEF ReaderInv

LEMMA Asked ==
  ASSUME ReaderAssumption, ReaderInv, NEW r \in Readers, NEW first \in First .. Last,
         Reader!Request(r, first), readAt'[r] = "asking",
         readAt' \in [Readers -> {"idle", "asking", "done"}], whole' \in [Readers -> BOOLEAN],
         \A q \in Readers \ {r} : readAt'[q] = readAt[q] /\ whole'[q] = whole[q] /\ got'[q] = got[q],
         got' \in [Readers -> [Reader!Blocks -> Nat]],
         \A b \in Reader!Blocks : got'[r][b] = IF b < first THEN 1 ELSE 0,
         span' \in 1 .. ReadSpan, preferred' \in 0 .. Sources - 1, successes' \in 0 .. GrowAfter,
         SpanFits'
  PROVE  ReaderInv'
<1>1. RequestTypes
  BY DEF ReaderInv, Reader!TypeOK, RequestTypes
<1>2. /\ RequestTypes'
      /\ from'[r] = first /\ first <= to'[r] /\ refused'[r] = FALSE
      /\ \A q \in Readers \ {r} : from'[q] = from[q] /\ to'[q] = to[q] /\ refused'[q] = refused[q]
  BY <1>1, Requested
<1>3. Reader!TypeOK'
  BY <1>2 DEF Reader!TypeOK, RequestTypes, Reader!Blocks
<1>4. OthersStay(r)
  BY <1>2 DEF OthersStay
<1>5. ReadFits(r)'
  BY <1>2 DEF ReadFits, Reader!Blocks
<1> QED
  BY <1>3, <1>4, <1>5, OthersFit DEF ReaderInv

LEMMA Nexts ==
  ASSUME ReaderAssumption, ReaderInv, NEW r \in Readers, NEW b \in BOOLEAN,
         readAt[r] = "asking", Reader!AskNext(r, b), b => Reader!Width(r) > Narrowest
  PROVE  ReaderInv'
<1>1. /\ attempt[r] + 1 < Sources
      /\ attempt' = [attempt EXCEPT ![r] = attempt[r] + 1]
      /\ source' = [source EXCEPT ![r] = (preferred + attempt[r] + 1) % Sources]
      /\ refused' = [refused EXCEPT ![r] = b]
      /\ UNCHANGED <<span, preferred, successes, readAt, whole, from, to, got>>
  BY DEF Reader!AskNext, Reader!readerVars
<1>2. Reader!TypeOK /\ SpanFits /\ \A q \in Readers : ReadFits(q)
  BY DEF ReaderInv
<1>3. attempt[r] + 1 \in 0 .. Sources - 1 /\ (preferred + attempt[r] + 1) % Sources \in 0 .. Sources - 1
  <2>1. attempt[r] \in Nat /\ preferred \in Nat /\ Sources \in Nat \ {0}
    BY <1>2 DEF Reader!TypeOK, ReaderAssumption
  <2> QED
    BY <1>1, <2>1
<1>4. Reader!TypeOK'
  BY <1>1, <1>2, <1>3 DEF Reader!TypeOK
<1>5. OthersStay(r)
  BY <1>1, <1>2 DEF OthersStay, Reader!TypeOK
<1>6. ReadFits(r)'
  <2>1. refused'[r] = b /\ UNCHANGED Narrowest
    BY <1>1, <1>2 DEF Reader!TypeOK, Narrowest, Reader!Min
  <2> QED
    BY <1>1, <1>2, <2>1 DEF ReadFits, Reader!Width
<1>7. SpanFits'
  BY <1>1, <1>2 DEF SpanFits, Narrowest, Reader!Min
<1> QED
  BY <1>4, <1>5, <1>6, <1>7, OthersFit DEF ReaderInv

LEMMA Shrunk ==
  ASSUME ReaderAssumption, ReaderInv, NEW r \in Readers,
         readAt[r] = "asking", Reader!Shrink(r), Reader!Width(r) > Narrowest
  PROVE  ReaderInv'
<1>0. Reader!TypeOK /\ \A q \in Readers : ReadFits(q)
  BY DEF ReaderInv
<1>1. /\ span' = Reader!Max({1, Reader!Min({span, Reader!Width(r) \div 2})})
      /\ successes' = 0 /\ UNCHANGED <<preferred, whole>>
      /\ \/ Reader!Request(r, from[r]) /\ UNCHANGED <<readAt, got>>
         \/ Reader!Throw(r)
  BY DEF Reader!Shrink
<1>2. /\ span \in 1 .. ReadSpan /\ span \in Int /\ Narrowest \in Nat /\ ReadSpan \in Nat
      /\ from[r] \in First .. Last /\ from[r] \in Int /\ to[r] \in Int
  BY <1>0, NarrowestIsLeast DEF Reader!TypeOK, ReaderAssumption, Reader!Blocks
<1>3. span' \in 1 .. ReadSpan /\ (span' = span \/ 2 * span' >= Narrowest)
  <2> DEFINE half == Reader!Width(r) \div 2
             small == Reader!Min({span, half})
  <2>1. half \in Int /\ 2 * half >= Narrowest
    BY <1>2 DEF Reader!Width
  <2> HIDE DEF half
  <2>2. small = IF span <= half THEN span ELSE half
    BY <1>2, <2>1, SmallerOfTwo
  <2>3. small \in Int
    BY <1>2, <2>1, <2>2
  <2>4. span' = IF 1 >= small THEN 1 ELSE small
    BY <1>1, <2>3, LargerOfTwo DEF half
  <2> HIDE DEF small
  <2> QED
    BY <1>2, <2>1, <2>2, <2>3, <2>4
<1>4. SpanFits'
  <2>1. UNCHANGED Narrowest
    BY DEF Narrowest, Reader!Min
  <2> QED
    BY <1>2, <1>3, <2>1 DEF ReaderInv, SpanFits
<1>5. preferred' \in 0 .. Sources - 1 /\ successes' \in 0 .. GrowAfter
  BY <1>0, <1>1 DEF Reader!TypeOK, ReaderAssumption
<1>6. CASE Reader!Throw(r)
  BY <1>1, <1>3, <1>4, <1>5, <1>6, Thrown
<1>7. CASE Reader!Request(r, from[r]) /\ UNCHANGED <<readAt, got>>
  <2>1. \A b \in Reader!Blocks : got'[r][b] = IF b < from[r] THEN 1 ELSE 0
    BY <1>0, <1>7 DEF ReadFits
  <2>2. /\ readAt'[r] = "asking" /\ readAt' \in [Readers -> {"idle", "asking", "done"}]
        /\ whole' \in [Readers -> BOOLEAN] /\ got' \in [Readers -> [Reader!Blocks -> Nat]]
    BY <1>0, <1>1, <1>7 DEF Reader!TypeOK
  <2>3. \A q \in Readers \ {r} : readAt'[q] = readAt[q] /\ whole'[q] = whole[q] /\ got'[q] = got[q]
    BY <1>1, <1>7
  <2> QED
    BY <1>2, <1>3, <1>4, <1>5, <1>7, <2>1, <2>2, <2>3, Asked
<1> QED
  BY <1>1, <1>6, <1>7

LEMMA TwiceGrows ==
  ASSUME NEW i \in Int, NEW j \in Int, NEW least \in Int, j >= i, 2 * i >= least
  PROVE  2 * j >= least
OBVIOUS

LEMMA Collects ==
  ASSUME ReaderAssumption, ReaderInv, NEW r \in Readers, Reader!Answers(r)
  PROVE  ReaderInv'
<1>0. Reader!TypeOK /\ SpanFits /\ \A q \in Readers : ReadFits(q)
  BY DEF ReaderInv
<1>1. /\ readAt[r] = "asking"
      /\ preferred' = source[r] /\ Reader!RecordSuccess(Reader!Width(r))
      /\ got' = [got EXCEPT ![r] = Reader!Collected(r)]
      /\ UNCHANGED whole
      /\ \/ whole[r] /\ to[r] < Last /\ Reader!Request(r, to[r] + 1) /\ UNCHANGED readAt
         \/ ~(whole[r] /\ to[r] < Last) /\ Reader!End(r, "done")
  BY DEF Reader!Answers
<1>2. /\ span \in 1 .. ReadSpan /\ span \in Int /\ ReadSpan \in Nat \ {0}
      /\ from[r] \in First .. Last /\ to[r] \in First .. Last
      /\ First \in Int /\ Last \in Int /\ First <= Last
      /\ GrowAfter \in Nat \ {0} /\ successes \in 0 .. GrowAfter
  BY <1>0 DEF Reader!TypeOK, ReaderAssumption, Reader!Blocks
<1>3. span' \in 1 .. ReadSpan /\ span' >= span /\ successes' \in 0 .. GrowAfter
  <2>1. Reader!Min({ReadSpan, span * 2}) = IF ReadSpan <= span * 2 THEN ReadSpan ELSE span * 2
    BY <1>2, SmallerOfTwo
  <2>2. CASE span >= ReadSpan \/ Reader!Width(r) < span
    BY <1>1, <1>2, <2>2 DEF Reader!RecordSuccess
  <2>3. CASE ~(span >= ReadSpan \/ Reader!Width(r) < span) /\ successes + 1 >= GrowAfter
    <3>1. span' = (IF ReadSpan <= span * 2 THEN ReadSpan ELSE span * 2) /\ successes' = 0
      BY <1>1, <2>1, <2>3 DEF Reader!RecordSuccess
    <3> QED
      BY <1>2, <3>1
  <2>4. CASE ~(span >= ReadSpan \/ Reader!Width(r) < span) /\ ~(successes + 1 >= GrowAfter)
    <3>1. span' = span /\ successes' = successes + 1
      BY <1>1, <2>4 DEF Reader!RecordSuccess
    <3> QED
      BY <1>2, <2>4, <3>1
  <2> QED
    BY <2>2, <2>3, <2>4
<1>4. SpanFits'
  <2>1. UNCHANGED Narrowest /\ Narrowest \in Nat
    BY NarrowestIsLeast DEF Narrowest, Reader!Min
  <2>2. span' \in Int
    BY <1>2, <1>3
  <2>3. CASE span = ReadSpan
    BY <1>2, <1>3, <2>2, <2>3 DEF SpanFits
  <2>4. CASE 2 * span >= Narrowest
    <3>1. span \in Int /\ span' \in Int /\ Narrowest \in Int /\ span' >= span
      BY <1>2, <1>3, <2>1, <2>2
    <3>2. 2 * span' >= Narrowest
      BY <2>4, <3>1, TwiceGrows
    <3> QED
      BY <2>1, <3>2 DEF SpanFits
  <2> QED
    BY <1>0, <2>3, <2>4 DEF SpanFits
<1>5. preferred' \in 0 .. Sources - 1
  BY <1>0, <1>1 DEF Reader!TypeOK
<1>6. /\ got' \in [Readers -> [Reader!Blocks -> Nat]]
      /\ \A b \in Reader!Blocks : got'[r][b] = got[r][b] + (IF b \in from[r] .. to[r] THEN 1 ELSE 0)
      /\ \A q \in Readers \ {r} : got'[q] = got[q]
  <2>1. Reader!Collected(r) \in [Reader!Blocks -> Nat]
    BY <1>0 DEF Reader!TypeOK, Reader!Collected
  <2>2. got'[r] = Reader!Collected(r)
    BY <1>0, <1>1 DEF Reader!TypeOK
  <2> QED
    BY <1>0, <1>1, <2>1, <2>2 DEF Reader!TypeOK, Reader!Collected
<1>7. \A b \in Reader!Blocks : got'[r][b] = IF b < to[r] + 1 THEN 1 ELSE 0
  <2> SUFFICES ASSUME NEW b \in Reader!Blocks PROVE got'[r][b] = IF b < to[r] + 1 THEN 1 ELSE 0
    OBVIOUS
  <2>1. from[r] <= to[r] /\ got[r][b] = IF b < from[r] THEN 1 ELSE 0
    BY <1>0, <1>1 DEF ReadFits
  <2>2. b \in Int
    BY <1>2 DEF Reader!Blocks
  <2> QED
    BY <1>2, <1>6, <2>1, <2>2
<1>8. CASE whole[r] /\ to[r] < Last /\ Reader!Request(r, to[r] + 1) /\ UNCHANGED readAt
  <2>1. to[r] + 1 \in First .. Last
    BY <1>2, <1>8
  <2>2. /\ readAt'[r] = "asking" /\ readAt' \in [Readers -> {"idle", "asking", "done"}]
        /\ whole' \in [Readers -> BOOLEAN]
    BY <1>0, <1>1, <1>8 DEF Reader!TypeOK
  <2>3. \A q \in Readers \ {r} : readAt'[q] = readAt[q] /\ whole'[q] = whole[q] /\ got'[q] = got[q]
    BY <1>1, <1>6, <1>8
  <2> QED
    BY <1>3, <1>4, <1>5, <1>6, <1>7, <1>8, <2>1, <2>2, <2>3, Asked
<1>9. CASE ~(whole[r] /\ to[r] < Last) /\ Reader!End(r, "done")
  <2>1. /\ RequestTypes' /\ readAt' \in [Readers -> {"idle", "asking", "done"}]
        /\ readAt'[r] = "done" /\ refused'[r] = FALSE
        /\ \A q \in Readers \ {r} : readAt'[q] = readAt[q] /\
              from'[q] = from[q] /\ to'[q] = to[q] /\ refused'[q] = refused[q]
    BY <1>0, <1>9, Ended
  <2>2. Reader!TypeOK'
    BY <1>0, <1>1, <1>3, <1>5, <1>6, <2>1 DEF Reader!TypeOK, RequestTypes, Reader!Blocks
  <2>3. OthersStay(r)
    BY <1>1, <1>6, <2>1 DEF OthersStay
  <2>4. whole[r] => \A b \in Reader!Blocks : got'[r][b] = 1
    BY <1>2, <1>7, <1>9 DEF Reader!Blocks
  <2>5. ReadFits(r)'
    BY <1>1, <2>1, <2>4 DEF ReadFits, Reader!Blocks
  <2> QED
    BY <1>4, <2>2, <2>3, <2>5, OthersFit DEF ReaderInv
<1> QED
  BY <1>1, <1>8, <1>9

LEMMA ReaderStep ==
  ASSUME ReaderAssumption, ReaderInv, [Reader!Next]_Reader!vars
  PROVE  ReaderInv'
<1>0. Reader!TypeOK /\ SpanFits /\ \A q \in Readers : ReadFits(q)
  BY DEF ReaderInv
<1>1. ASSUME NEW r \in Readers, Reader!Begin(r) PROVE ReaderInv'
  <2>1. PICK w \in BOOLEAN : whole' = [whole EXCEPT ![r] = w]
    BY <1>1 DEF Reader!Begin
  <2>2. /\ readAt' = [readAt EXCEPT ![r] = "asking"] /\ got' = [got EXCEPT ![r] = Reader!NoBlocks]
        /\ UNCHANGED <<span, preferred, successes>> /\ Reader!Request(r, First)
    BY <1>1 DEF Reader!Begin, Reader!readerVars
  <2>3. /\ readAt' \in [Readers -> {"idle", "asking", "done"}] /\ readAt'[r] = "asking"
        /\ got' \in [Readers -> [Reader!Blocks -> Nat]] /\ got'[r] = Reader!NoBlocks
        /\ \A q \in Readers \ {r} : readAt'[q] = readAt[q] /\ got'[q] = got[q]
    BY <1>0, <2>2 DEF Reader!TypeOK, Reader!NoBlocks
  <2>4. whole' \in [Readers -> BOOLEAN] /\ \A q \in Readers \ {r} : whole'[q] = whole[q]
    BY <1>0, <2>1 DEF Reader!TypeOK
  <2>5. First \in First .. Last /\ \A b \in Reader!Blocks : got'[r][b] = IF b < First THEN 1 ELSE 0
    BY <2>3 DEF ReaderAssumption, Reader!Blocks, Reader!NoBlocks
  <2>6. /\ span' \in 1 .. ReadSpan /\ preferred' \in 0 .. Sources - 1
        /\ successes' \in 0 .. GrowAfter
    BY <1>0, <2>2 DEF Reader!TypeOK
  <2>7. SpanFits'
    BY <1>0, <2>2 DEF SpanFits, Narrowest, Reader!Min
  <2> QED
    BY <2>2, <2>3, <2>4, <2>5, <2>6, <2>7, Asked
<1>2. ASSUME NEW r \in Readers, readAt[r] = "asking", Reader!Width(r) > Limits[source[r] + 1]
      PROVE  Reader!Width(r) > Narrowest
  <2>1. source[r] + 1 \in 1 .. Sources
    BY <1>0 DEF Reader!TypeOK, ReaderAssumption
  <2>2. Narrowest <= Limits[source[r] + 1] /\ Narrowest \in Nat /\ Limits[source[r] + 1] \in Nat
    BY <2>1, NarrowestIsLeast DEF ReaderAssumption
  <2>3. Reader!Width(r) \in Int
    BY <1>0 DEF Reader!TypeOK, Reader!Width, Reader!Blocks, ReaderAssumption
  <2> QED
    BY <1>2, <2>2, <2>3
<1>3. ASSUME NEW r \in Readers, Reader!Refuses(r) PROVE ReaderInv'
  <2>1. readAt[r] = "asking" /\ Reader!Width(r) > Limits[source[r] + 1]
        /\ (Reader!AskNext(r, TRUE) \/ Reader!Shrink(r))
    BY <1>3 DEF Reader!Refuses
  <2> QED
    BY <1>2, <2>1, Nexts, Shrunk
<1>4. ASSUME NEW r \in Readers, Reader!Throw(r), UNCHANGED <<span, preferred, successes, whole>>
      PROVE  ReaderInv'
  <2>1. SpanFits'
    BY <1>0, <1>4 DEF SpanFits, Narrowest, Reader!Min
  <2>2. /\ span' \in 1 .. ReadSpan /\ preferred' \in 0 .. Sources - 1
        /\ successes' \in 0 .. GrowAfter
    BY <1>0, <1>4 DEF Reader!TypeOK
  <2> QED
    BY <1>4, <2>1, <2>2, Thrown
<1>5. ASSUME NEW r \in Readers, Reader!Fails(r) PROVE ReaderInv'
  <2>1. /\ readAt[r] = "asking"
        /\ \/ Reader!AskNext(r, refused[r])
           \/ refused[r] /\ Reader!Shrink(r)
           \/ Reader!Throw(r) /\ UNCHANGED <<span, preferred, successes, whole>>
    BY <1>5 DEF Reader!Fails, Reader!GivesUp, Reader!readerVars
  <2>2. (refused[r] => Reader!Width(r) > Narrowest) /\ refused[r] \in BOOLEAN
    BY <1>0 DEF ReadFits, Reader!TypeOK
  <2>3. CASE Reader!AskNext(r, refused[r])
    BY <2>1, <2>2, <2>3, Nexts
  <2>4. CASE refused[r] /\ Reader!Shrink(r)
    BY <2>1, <2>2, <2>4, Shrunk
  <2>5. CASE Reader!Throw(r) /\ UNCHANGED <<span, preferred, successes, whole>>
    BY <1>4, <2>5
  <2> QED
    BY <2>1, <2>3, <2>4, <2>5
<1>6. ASSUME NEW r \in Readers, Reader!Superseded(r) PROVE ReaderInv'
  BY <1>4, <1>6 DEF Reader!Superseded, Reader!readerVars
<1>7. CASE UNCHANGED Reader!vars
  <2>1. UNCHANGED <<span, preferred, successes, readAt, whole, from, to, attempt, source, refused, got>>
    BY <1>7 DEF Reader!vars, Reader!readerVars, Reader!readVars
  <2>2. Reader!TypeOK' /\ SpanFits'
    BY <1>0, <2>1 DEF Reader!TypeOK, SpanFits, Narrowest, Reader!Min
  <2>3. ASSUME NEW r \in Readers PROVE ReadFits(r)'
    BY <1>0, <2>1 DEF ReadFits, Reader!Width, Narrowest, Reader!Min
  <2> QED
    BY <2>2, <2>3 DEF ReaderInv
<1> QED
  BY <1>1, <1>3, <1>5, <1>6, <1>7, Collects DEF Reader!Next, Reader!Step

LEMMA ReaderFollows ==
  ASSUME ReaderAssumption, ReaderInv
  PROVE  Reader!EachBlockOnce /\ Reader!SpanIsKept
<1>1. Reader!EachBlockOnce
  BY DEF ReaderInv, ReadFits, Reader!EachBlockOnce
<1>2. Reader!SpanIsKept
  <2>1. Narrowest \in Nat /\ ReadSpan \in Nat \ {0} /\ span \in 1 .. ReadSpan
    BY NarrowestIsLeast DEF ReaderAssumption, ReaderInv, Reader!TypeOK
  <2>2. Reader!Min({ReadSpan, Narrowest + 1})
          = IF ReadSpan <= Narrowest + 1 THEN ReadSpan ELSE Narrowest + 1
    BY <2>1, SmallerOfTwo
  <2>3. 2 * span >= Reader!Min({ReadSpan, Narrowest + 1}) - 1
    BY <2>1, <2>2 DEF ReaderInv, SpanFits
  <2> QED
    BY <2>3 DEF Reader!SpanIsKept, Narrowest
<1> QED
  BY <1>1, <1>2

(* A read collects each block once, however the span changes under it, and  *)
(* the span is not shrunk below half of what every source answers.          *)
THEOREM ReadsAreWhole ==
  ASSUME ReaderAssumption
  PROVE  Reader!Spec => [](Reader!TypeOK /\ Reader!EachBlockOnce /\ Reader!SpanIsKept)
<1>1. Reader!Init => ReaderInv
  BY ReaderInit
<1>2. ReaderInv /\ [Reader!Next]_Reader!vars => ReaderInv'
  BY ReaderStep
<1>3. ReaderInv => Reader!TypeOK /\ Reader!EachBlockOnce /\ Reader!SpanIsKept
  BY ReaderFollows DEF ReaderInv
<1> QED
  BY <1>1, <1>2, <1>3, PTL DEF Reader!Spec

-----------------------------------------------------------------------------
(* Cutover: scripts that die anywhere and leave transactions behind.       *)

CutoverAssumption ==
  /\ Deployer \in Accounts /\ Lecturers \subseteq Accounts
  /\ Targets \subseteq Accounts /\ Minters \subseteq Accounts
  /\ \A list \in AdminLists : list \subseteq Accounts
  /\ ScriptCrashes \in Nat

Transactions ==
  [do : {"grant", "revoke", "renounce", "deactivate"},
   role : {"DEFAULT_ADMIN", "ADMIN", "MINTER", "none"}, to : Accounts \union Surveys]

TargetHas(role) == env.target \in members[role]

\* Mined at any time, the transaction t takes the deployer's role only where
\* the target has it.
Harmless(t) ==
  \/ t.do = "deactivate"
  \/ t.do = "grant" /\ t.role \in Cut!Roles /\ t.to \in Accounts
  \/ t.do = "revoke" /\ t.role = "MINTER" /\ t.to = Deployer
  \/ /\ t.do = "revoke" /\ t.role = "ADMIN" /\ t.to = Deployer
     /\ Cut!HandsOver /\ TargetHas("ADMIN")
  \/ /\ t.do = "renounce" /\ t.role = "DEFAULT_ADMIN" /\ t.to = Deployer
     /\ Cut!HandsOver /\ TargetHas("DEFAULT_ADMIN")

AfterAdmin == {"grantMinter", "revokeMinter", "relayer", "dropAdmin", "dropDefault", "done"}
AfterDefault == AfterAdmin \union {"grantAdmin"}

\* The script waits for the target's grant of a role.
Awaits(role) == waiting /\ queue[Len(queue)] = Cut!Grant(role, env.target)

\* A script that is past a grant has seen the target with the role, or waits
\* for that very grant.
ScriptFits ==
  /\ pc \in AfterDefault =>
       TargetHas("DEFAULT_ADMIN") \/ (pc = "grantAdmin" /\ Awaits("DEFAULT_ADMIN"))
  /\ pc \in AfterAdmin =>
       TargetHas("ADMIN") \/ (pc = "grantMinter" /\ Awaits("ADMIN"))

CutInv ==
  /\ Cut!TypeOK /\ waiting \in BOOLEAN
  /\ queue \in Seq(Transactions) /\ \A i \in 1 .. Len(queue) : Harmless(queue[i])
  /\ Len(queue) <= scriptCrashed + (IF waiting THEN 1 ELSE 0)
  /\ ~proxy => pc = "idle" /\ queue = <<>>
  /\ Cut!OwnerIsThere
  /\ ScriptFits

LEMMA PlaceNames ==
  /\ {Cut!Places[i] : i \in 1 .. 10} =
       {"migrate", "deactivate", "grantDefault"} \union AfterDefault
  /\ \A place : (\E i \in 3 .. 9 : place = Cut!Places[i]) <=>
       place \in {"grantDefault", "grantAdmin", "grantMinter", "revokeMinter", "relayer",
                  "dropAdmin", "dropDefault"}
<1>1. 1 .. 10 = {1, 2, 3, 4, 5, 6, 7, 8, 9, 10} /\ 3 .. 9 = {3, 4, 5, 6, 7, 8, 9}
  OBVIOUS
<1>2. /\ Cut!Places[1] = "migrate" /\ Cut!Places[2] = "deactivate"
      /\ Cut!Places[3] = "grantDefault" /\ Cut!Places[4] = "grantAdmin"
      /\ Cut!Places[5] = "grantMinter" /\ Cut!Places[6] = "revokeMinter"
      /\ Cut!Places[7] = "relayer" /\ Cut!Places[8] = "dropAdmin"
      /\ Cut!Places[9] = "dropDefault" /\ Cut!Places[10] = "done"
  BY DEF Cut!Places
<1>3. {Cut!Places[i] : i \in 1 .. 10} =
        {"migrate", "deactivate", "grantDefault"} \union AfterDefault
  <2>1. \A i \in 1 .. 10 :
          Cut!Places[i] \in {"migrate", "deactivate", "grantDefault"} \union AfterDefault
    BY <1>1, <1>2 DEF AfterDefault, AfterAdmin
  <2>2. ASSUME NEW x \in {"migrate", "deactivate", "grantDefault"} \union AfterDefault
        PROVE  \E i \in 1 .. 10 : x = Cut!Places[i]
    BY <1>1, <1>2, Zenon DEF AfterDefault, AfterAdmin
  <2> QED
    BY <2>1, <2>2, Zenon
<1>4. ASSUME NEW place
      PROVE  (\E i \in 3 .. 9 : place = Cut!Places[i]) <=>
       place \in {"grantDefault", "grantAdmin", "grantMinter", "revokeMinter", "relayer",
                  "dropAdmin", "dropDefault"}
  BY <1>1, <1>2, Zenon
<1> QED
  BY <1>3, <1>4

LEMMA Afters ==
  /\ Cut!After("migrate") = "deactivate" /\ Cut!After("deactivate") = "grantDefault"
  /\ Cut!After("grantDefault") = "grantAdmin" /\ Cut!After("grantAdmin") = "grantMinter"
  /\ Cut!After("grantMinter") = "revokeMinter" /\ Cut!After("revokeMinter") = "relayer"
  /\ Cut!After("relayer") = "dropAdmin" /\ Cut!After("dropAdmin") = "dropDefault"
  /\ Cut!After("dropDefault") = "done"
<1>1. ASSUME NEW n \in 1 .. 9 PROVE Cut!After(Cut!Places[n]) = Cut!Places[n + 1]
  <2>1. \A i \in 1 .. 9 : Cut!Places[i] = Cut!Places[n] => i = n
    BY DEF Cut!Places
  <2>2. (CHOOSE i \in 1 .. 9 : Cut!Places[i] = Cut!Places[n]) = n
    BY <2>1
  <2> QED
    BY <2>2 DEF Cut!After
<1>2. /\ Cut!Places[1] = "migrate" /\ Cut!Places[2] = "deactivate"
      /\ Cut!Places[3] = "grantDefault" /\ Cut!Places[4] = "grantAdmin"
      /\ Cut!Places[5] = "grantMinter" /\ Cut!Places[6] = "revokeMinter"
      /\ Cut!Places[7] = "relayer" /\ Cut!Places[8] = "dropAdmin"
      /\ Cut!Places[9] = "dropDefault" /\ Cut!Places[10] = "done"
  BY DEF Cut!Places
<1>3. \A n \in {1, 2, 3, 4, 5, 6, 7, 8, 9} : Cut!After(Cut!Places[n]) = Cut!Places[n + 1]
  BY <1>1
<1>4. 1 + 1 = 2 /\ 2 + 1 = 3 /\ 3 + 1 = 4 /\ 4 + 1 = 5 /\ 5 + 1 = 6 /\ 6 + 1 = 7 /\ 7 + 1 = 8
      /\ 8 + 1 = 9 /\ 9 + 1 = 10
  OBVIOUS
<1> QED
  BY <1>2, <1>3, <1>4, Zenon

LEMMA CutInit == CutoverAssumption /\ Cut!Init => CutInv
<1> SUFFICES ASSUME CutoverAssumption, Cut!Init PROVE CutInv
  OBVIOUS
<1>1. /\ queue = <<>> /\ pc = "idle" /\ waiting = FALSE /\ waiting \in BOOLEAN /\ proxy = FALSE /\ scriptCrashed = 0
      /\ env \in Cut!Environments
  BY DEF Cut!Init
<1>2. Cut!TypeOK
  <2>1. /\ v1Admins = {Deployer} /\ v1Granted = {Deployer} /\ v1Revoked = {}
        /\ v1Known \in SUBSET Surveys /\ v1Active = v1Known /\ script = "none" /\ todo = {}
        /\ members = [r \in Cut!Roles |-> {}]
    BY DEF Cut!Init
  <2>2. members \in [Cut!Roles -> SUBSET Accounts]
    BY <2>1
  <2>3. scriptCrashed \in 0 .. ScriptCrashes /\ Len(queue) <= ScriptCrashes + 1
    BY <1>1 DEF CutoverAssumption
  <2> QED
    BY <1>1, <2>1, <2>2, <2>3 DEF Cut!TypeOK, CutoverAssumption
<1>3. ScriptFits
  BY <1>1 DEF ScriptFits, AfterDefault, AfterAdmin
<1> QED
  BY <1>1, <1>2, <1>3 DEF CutInv, Cut!OwnerIsThere

(* What the oldest transaction does to the roles.                           *)
LEMMA RolesAfter ==
  ASSUME CutoverAssumption, members \in [Cut!Roles -> SUBSET Accounts], NEW t, Harmless(t),
         members' = Cut!MembersAfter(t), UNCHANGED env
  PROVE  /\ members' \in [Cut!Roles -> SUBSET Accounts]
         /\ \A r \in Cut!Roles : env.target \in Targets =>
              (r # "MINTER" /\ TargetHas(r) => TargetHas(r)')
         /\ \A r \in {"ADMIN", "DEFAULT_ADMIN"} :
              members[r] \intersect {Deployer, env.target} # {} =>
                members'[r] \intersect {Deployer, env.target} # {}
         /\ \A r \in Cut!Roles :
              t = Cut!Grant(r, env.target) /\ Cut!Allowed(t) => TargetHas(r)'
<1> USE DEF Cut!Roles, TargetHas, Cut!HandsOver
<1>1. CASE t.do = "deactivate" \/ ~Cut!Allowed(t)
  <2>1. members' = members
    BY <1>1 DEF Cut!MembersAfter
  <2>2. \A r \in Cut!Roles : t = Cut!Grant(r, env.target) => t.do = "grant"
    BY DEF Cut!Grant
  <2> QED
    BY <1>1, <2>1, <2>2
<1>2. CASE ~(t.do = "deactivate" \/ ~Cut!Allowed(t)) /\ t.do = "grant"
  <2>1. members' = [members EXCEPT ![t.role] = members[t.role] \union {t.to}]
    BY <1>2 DEF Cut!MembersAfter
  <2>2. t.role \in Cut!Roles /\ t.to \in Accounts
    BY <1>2 DEF Harmless
  <2>3. \A r \in Cut!Roles : members'[r] = IF r = t.role THEN members[r] \union {t.to} ELSE members[r]
    BY <2>1, <2>2
  <2>4. members' \in [Cut!Roles -> SUBSET Accounts]
    BY <2>1, <2>2
  <2>5. \A r \in Cut!Roles : t = Cut!Grant(r, env.target) => t.role = r /\ t.to = env.target
    BY DEF Cut!Grant
  <2> QED
    BY <2>3, <2>4, <2>5
<1>3. CASE ~(t.do = "deactivate" \/ ~Cut!Allowed(t)) /\ t.do # "grant"
  <2>1. members' = [members EXCEPT ![t.role] = members[t.role] \ {t.to}]
    BY <1>3 DEF Cut!MembersAfter
  <2>2. t.role \in Cut!Roles /\ t.to = Deployer
        /\ (t.role # "MINTER" => env.target # Deployer /\ env.target \in members[t.role])
    BY <1>3 DEF Harmless
  <2>3. \A r \in Cut!Roles : members'[r] = IF r = t.role THEN members[r] \ {Deployer} ELSE members[r]
    BY <2>1, <2>2
  <2>4. members' \in [Cut!Roles -> SUBSET Accounts]
    BY <2>1, <2>2
  <2>5. \A r \in Cut!Roles : t # Cut!Grant(r, env.target)
    BY <1>3 DEF Cut!Grant
  <2> QED
    BY <2>2, <2>3, <2>4, <2>5
<1> QED
  BY <1>1, <1>2, <1>3

LEMMA MineStep ==
  ASSUME CutoverAssumption, CutInv, Cut!Mine
  PROVE  CutInv'
<1> DEFINE t == Head(queue)
           own2 == waiting /\ Len(queue) = 1
           fails == own2 /\ ~Cut!Allowed(t) /\ t.do # "deactivate"
<1>0. /\ Cut!TypeOK /\ waiting \in BOOLEAN /\ ScriptFits /\ Cut!OwnerIsThere
      /\ queue \in Seq(Transactions) /\ \A i \in 1 .. Len(queue) : Harmless(queue[i])
      /\ Len(queue) <= scriptCrashed + (IF waiting THEN 1 ELSE 0)
      /\ ~proxy => pc = "idle" /\ queue = <<>>
  BY DEF CutInv
<1>1. /\ queue # <<>> /\ queue' = Tail(queue)
      /\ waiting' = (waiting /\ ~own2)
      /\ members' = Cut!MembersAfter(t)
      /\ v1Active' = (IF t.do = "deactivate" /\ Cut!Allowed(t) THEN v1Active \ {t.to} ELSE v1Active)
      /\ pc' = (IF fails THEN "idle" ELSE pc)
      /\ todo' = (IF fails THEN {} ELSE todo)
      /\ UNCHANGED <<env, v1Admins, v1Granted, v1Revoked, v1Known, proxy, script, scriptCrashed>>
  BY DEF Cut!Mine
<1>2. /\ Len(queue) \in Nat \ {0} /\ t = queue[1]
      /\ queue' \in Seq(Transactions) /\ Len(queue') = Len(queue) - 1
      /\ \A i \in 1 .. Len(queue') : i + 1 \in 1 .. Len(queue) /\ queue'[i] = queue[i + 1]
  BY <1>0, <1>1, HeadTailProperties, LenProperties, EmptySeq
<1>3. Harmless(t)
  BY <1>0, <1>2
<1>4. /\ members \in [Cut!Roles -> SUBSET Accounts] /\ env.target \in Targets
      /\ waiting \in BOOLEAN /\ scriptCrashed \in 0 .. ScriptCrashes /\ ScriptCrashes \in Nat
  BY <1>0 DEF Cut!TypeOK, Cut!Environments, CutoverAssumption
<1> HIDE DEF t
<1>5. /\ members' \in [Cut!Roles -> SUBSET Accounts]
      /\ \A r \in {"ADMIN", "DEFAULT_ADMIN"} : TargetHas(r) => TargetHas(r)'
      /\ \A r \in {"ADMIN", "DEFAULT_ADMIN"} :
           /\ members[r] \intersect {Deployer, env.target} # {} =>
                members'[r] \intersect {Deployer, env.target} # {}
           /\ t = Cut!Grant(r, env.target) /\ Cut!Allowed(t) => TargetHas(r)'
  <2>1. "ADMIN" \in Cut!Roles /\ "DEFAULT_ADMIN" \in Cut!Roles
    BY DEF Cut!Roles
  <2>2. \A r \in {"ADMIN", "DEFAULT_ADMIN"} : r \in Cut!Roles /\ r # "MINTER"
    BY <2>1
  <2> QED
    BY <1>1, <1>3, <1>4, <2>2, RolesAfter
<1>6. (\A i \in 1 .. Len(queue) : Harmless(queue[i]))'
  <2>1. ASSUME NEW x, Harmless(x) PROVE Harmless(x)'
    BY <1>1, <1>5, <2>1 DEF Harmless, Cut!HandsOver, Cut!Roles
  <2> QED
    BY <1>0, <1>2, <2>1
<1>7. Cut!OwnerIsThere'
  BY <1>0, <1>1, <1>5 DEF Cut!OwnerIsThere
<1>8. Len(queue') <= scriptCrashed' + (IF waiting' THEN 1 ELSE 0) /\ (waiting' => queue' # <<>>)
  <2>1. CASE own2
    <3>1. Len(queue') = 0 /\ ~waiting'
      <4>1. ~waiting'
        BY <1>1, <2>1
      <4> QED
        BY <1>2, <2>1, <4>1
    <3> QED
      BY <1>1, <1>4, <3>1
  <2>2. CASE ~own2
    <3>1. waiting' = waiting
      BY <1>1, <1>4, <2>2
    <3>2. waiting => Len(queue') # 0
      BY <1>2, <2>2
    <3>3. waiting => queue' # <<>>
      BY <1>2, <3>2, EmptySeq
    <3>4. Len(queue') <= scriptCrashed + (IF waiting THEN 1 ELSE 0)
      BY <1>0, <1>2, <1>4
    <3>5. CASE waiting
      BY <1>1, <3>1, <3>3, <3>4, <3>5
    <3>6. CASE ~waiting
      BY <1>1, <3>1, <3>4, <3>6
    <3> QED
      BY <3>5, <3>6
  <2> QED
    BY <2>1, <2>2
<1>9. Cut!TypeOK'
  <2>1. Len(queue') <= ScriptCrashes + 1
    BY <1>0, <1>2 DEF Cut!TypeOK, CutoverAssumption
  <2>2. todo' \subseteq Accounts \union Surveys
    BY <1>0, <1>1 DEF Cut!TypeOK
  <2>3. pc' \in {"idle"} \union {Cut!Places[i] : i \in 1 .. 10}
    BY <1>0, <1>1 DEF Cut!TypeOK
  <2>4. v1Active' \subseteq v1Known
    BY <1>0, <1>1 DEF Cut!TypeOK
  <2> QED
    BY <1>0, <1>1, <1>5, <1>8, <2>1, <2>2, <2>3, <2>4 DEF Cut!TypeOK
<1>10. ScriptFits'
  <2>1. CASE fails
    BY <1>1, <2>1 DEF ScriptFits, AfterDefault, AfterAdmin
  <2>2. ASSUME ~fails, NEW r \in {"ADMIN", "DEFAULT_ADMIN"}, Awaits(r)
        PROVE  TargetHas(r)' \/ Awaits(r)'
    <3>1. waiting /\ queue[Len(queue)] = Cut!Grant(r, env.target)
      BY <2>2 DEF Awaits
    <3>2. CASE Len(queue) = 1
      <4>1. t = Cut!Grant(r, env.target) /\ t.do = "grant"
        BY <1>2, <3>1, <3>2 DEF Cut!Grant
      <4>2. Cut!Allowed(t)
        BY <2>2, <3>1, <3>2, <4>1
      <4> QED
        BY <1>5, <4>1, <4>2
    <3>3. CASE Len(queue) # 1
      <4>1. Len(queue') \in 1 .. Len(queue') /\ Len(queue') + 1 = Len(queue)
        BY <1>2, <3>3
      <4>2. queue'[Len(queue')] = Cut!Grant(r, env'.target)
        BY <1>1, <1>2, <3>1, <4>1 DEF Cut!Grant
      <4>3. waiting'
        BY <1>1, <3>1, <3>3
      <4> QED
        BY <4>2, <4>3 DEF Awaits, Cut!Grant
    <3> QED
      BY <3>2, <3>3
  <2>3. CASE ~fails
    <3>1. pc' = pc
      BY <1>1, <2>3
    <3>2. pc \in AfterDefault =>
            TargetHas("DEFAULT_ADMIN")' \/ (pc = "grantAdmin" /\ Awaits("DEFAULT_ADMIN")')
      <4>1. Awaits("DEFAULT_ADMIN") => TargetHas("DEFAULT_ADMIN")' \/ Awaits("DEFAULT_ADMIN")'
        BY <2>2, <2>3
      <4>2. TargetHas("DEFAULT_ADMIN") => TargetHas("DEFAULT_ADMIN")'
        BY <1>5
      <4> QED
        BY <1>0, <4>1, <4>2 DEF ScriptFits
    <3>3. pc \in AfterAdmin => TargetHas("ADMIN")' \/ (pc = "grantMinter" /\ Awaits("ADMIN")')
      <4>1. Awaits("ADMIN") => TargetHas("ADMIN")' \/ Awaits("ADMIN")'
        BY <2>2, <2>3
      <4>2. TargetHas("ADMIN") => TargetHas("ADMIN")'
        BY <1>5
      <4> QED
        BY <1>0, <4>1, <4>2 DEF ScriptFits
    <3> QED
      BY <3>1, <3>2, <3>3 DEF ScriptFits, AfterDefault, AfterAdmin
  <2> QED
    BY <2>1, <2>3
<1> QED
  BY <1>0, <1>1, <1>2, <1>6, <1>7, <1>8, <1>9, <1>10 DEF CutInv

(* A step of a script that sends nothing.                                   *)
LEMMA QuietStep ==
  ASSUME CutoverAssumption, CutInv,
         UNCHANGED <<env, v1Admins, v1Granted, v1Revoked, v1Known, v1Active, proxy, members,
                     queue, script, waiting, scriptCrashed>>,
         pc' \in {Cut!Places[i] : i \in 1 .. 10} \union {"idle"},
         todo' \subseteq Accounts \union Surveys, ~proxy => pc' = "idle", ScriptFits'
  PROVE  CutInv'
<1>0. /\ Cut!TypeOK /\ waiting \in BOOLEAN /\ Cut!OwnerIsThere
      /\ queue \in Seq(Transactions) /\ \A i \in 1 .. Len(queue) : Harmless(queue[i])
      /\ Len(queue) <= scriptCrashed + (IF waiting THEN 1 ELSE 0)
      /\ ~proxy => queue = <<>>
  BY DEF CutInv
<1>1. Cut!TypeOK'
  BY <1>0 DEF Cut!TypeOK
<1>2. Cut!OwnerIsThere'
  BY <1>0 DEF Cut!OwnerIsThere
<1>3. (\A i \in 1 .. Len(queue) : Harmless(queue[i]))'
  BY <1>0 DEF Harmless, Cut!HandsOver, Cut!Roles, TargetHas
<1>4. waiting' = waiting /\ queue' = queue /\ scriptCrashed' = scriptCrashed /\ proxy' = proxy
  OBVIOUS
<1>5. (Len(queue) <= scriptCrashed + (IF waiting THEN 1 ELSE 0))'
  BY <1>0, <1>4
<1>6. (~proxy => pc = "idle" /\ queue = <<>>)'
  BY <1>0, <1>4
<1>7. waiting' \in BOOLEAN /\ queue' \in Seq(Transactions)
  BY <1>0, <1>4
<1> QED
  BY <1>1, <1>2, <1>3, <1>5, <1>6, <1>7 DEF CutInv

(* A step that sends the transaction t.                                     *)
LEMMA SendStep ==
  ASSUME CutoverAssumption, CutInv, NEW t \in Transactions, Harmless(t), Cut!SendNow(t), proxy,
         pc' \in {Cut!Places[i] : i \in 1 .. 10},
         todo' \subseteq Accounts \union Surveys,
         queue' = Append(queue, t) /\ waiting' => ScriptFits'
  PROVE  CutInv'
<1>0. /\ Cut!TypeOK /\ waiting \in BOOLEAN /\ Cut!OwnerIsThere
      /\ queue \in Seq(Transactions) /\ \A i \in 1 .. Len(queue) : Harmless(queue[i])
      /\ Len(queue) <= scriptCrashed + (IF waiting THEN 1 ELSE 0)
  BY DEF CutInv
<1>1. /\ ~waiting /\ queue' = Append(queue, t) /\ waiting' = TRUE
      /\ UNCHANGED <<env, v1Admins, v1Granted, v1Revoked, v1Known, v1Active, proxy, members,
                     script, scriptCrashed>>
  BY DEF Cut!SendNow
<1>2. /\ queue' \in Seq(Transactions) /\ Len(queue') = Len(queue) + 1
      /\ \A i \in 1 .. Len(queue) : queue'[i] = queue[i]
      /\ queue'[Len(queue) + 1] = t /\ Len(queue) \in Nat
  BY <1>0, <1>1, AppendProperties, LenProperties
<1>3. (\A i \in 1 .. Len(queue) : Harmless(queue[i]))'
  <2>1. ASSUME NEW x, Harmless(x) PROVE Harmless(x)'
    BY <1>1, <2>1 DEF Harmless, Cut!HandsOver, Cut!Roles, TargetHas
  <2>2. \A i \in 1 .. Len(queue') : i \in 1 .. Len(queue) \/ i = Len(queue) + 1
    BY <1>2
  <2>3. \A i \in 1 .. Len(queue') : Harmless(queue'[i])
    BY <1>0, <1>2, <2>2
  <2> QED
    BY <2>1, <2>3
<1>4. Len(queue) <= scriptCrashed /\ scriptCrashed \in 0 .. ScriptCrashes /\ ScriptCrashes \in Nat
  BY <1>0, <1>1 DEF Cut!TypeOK, CutoverAssumption
<1>5. (Len(queue) <= scriptCrashed + (IF waiting THEN 1 ELSE 0))' /\ Len(queue') <= ScriptCrashes + 1
  BY <1>1, <1>2, <1>4
<1>6. queue' # <<>>
  BY <1>2, EmptySeq
<1>7. Cut!TypeOK'
  BY <1>0, <1>1, <1>5, <1>6 DEF Cut!TypeOK
<1>8. Cut!OwnerIsThere'
  BY <1>0, <1>1 DEF Cut!OwnerIsThere
<1>9. waiting' \in BOOLEAN /\ proxy'
  BY <1>1
<1>10. ScriptFits'
  BY <1>1
<1> QED
  BY <1>2, <1>3, <1>5, <1>7, <1>8, <1>9, <1>10 DEF CutInv

(* What a place of the script leaves to the next one.                       *)
LEMMA OnlyTarget ==
  ASSUME CutInv, proxy, ~Cut!HandsOver
  PROVE  TargetHas("ADMIN") /\ TargetHas("DEFAULT_ADMIN")
<1>1. Cut!OwnerIsThere
  BY DEF CutInv
<1>2. \A r \in {"ADMIN", "DEFAULT_ADMIN"} : members[r] \intersect {Deployer, env.target} # {}
  BY <1>1 DEF Cut!OwnerIsThere
<1> QED
  BY <1>2 DEF Cut!HandsOver, TargetHas

LEMMA PlaceStep ==
  ASSUME CutoverAssumption, CutInv,
         NEW place \in {"grantDefault", "grantAdmin", "grantMinter", "revokeMinter", "relayer",
                        "dropAdmin", "dropDefault"},
         Cut!Send(place) \/ Cut!Skip(place)
  PROVE  CutInv'
<1>0. /\ Cut!TypeOK /\ ScriptFits /\ (~proxy => pc = "idle")
      /\ env.target \in Accounts /\ env.minter \in Accounts /\ Deployer \in Accounts
  BY DEF CutInv, Cut!TypeOK, Cut!Environments, CutoverAssumption
<1>1. /\ pc = place /\ ~waiting /\ pc' = Cut!After(place) /\ UNCHANGED <<env, members>>
      /\ todo' = {}
  <2>1. Cut!After(place) # "deactivate"
    BY Afters
  <2> QED
    BY <2>1 DEF Cut!Send, Cut!Skip, Cut!SendNow, Cut!Quiet, Cut!Enter
<1>2. proxy
  BY <1>0, <1>1
<1>3. pc' \in {"grantDefault"} \union AfterDefault /\ pc' \in {Cut!Places[i] : i \in 1 .. 10}
  BY <1>1, Afters, PlaceNames DEF AfterDefault, AfterAdmin
<1>4. /\ place \in AfterDefault => TargetHas("DEFAULT_ADMIN")
      /\ place \in AfterAdmin => TargetHas("ADMIN")
  BY <1>0, <1>1 DEF ScriptFits, Awaits
<1>5. UNCHANGED <<TargetHas("DEFAULT_ADMIN"), TargetHas("ADMIN")>>
  BY <1>1 DEF TargetHas
<1>6. /\ pc' \in AfterDefault => place \in AfterDefault \/ (place = "grantDefault" /\ pc' = "grantAdmin")
      /\ pc' \in AfterAdmin => place \in AfterAdmin \/ (place = "grantAdmin" /\ pc' = "grantMinter")
  BY <1>1, Afters DEF AfterDefault, AfterAdmin
<1>7. CASE Cut!Skip(place)
  <2>1. UNCHANGED <<env, v1Admins, v1Granted, v1Revoked, v1Known, v1Active, proxy, members,
                    queue, script, waiting, scriptCrashed>> /\ ~Cut!Needed(place)
    BY <1>7 DEF Cut!Skip, Cut!Quiet
  <2>2. place = "grantDefault" => TargetHas("DEFAULT_ADMIN")
    BY <1>2, <2>1, OnlyTarget DEF Cut!Needed, Cut!Transaction, Cut!Grant, TargetHas
  <2>3. place = "grantAdmin" => TargetHas("ADMIN")
    BY <1>2, <2>1, OnlyTarget DEF Cut!Needed, Cut!Transaction, Cut!Grant, TargetHas
  <2>4. ScriptFits'
    BY <1>4, <1>5, <1>6, <2>2, <2>3 DEF ScriptFits, AfterDefault, AfterAdmin
  <2> QED
    BY <1>1, <1>2, <1>3, <2>1, <2>4, QuietStep
<1>8. CASE Cut!Send(place)
  <2> DEFINE t == Cut!Transaction(place)
  <2>1. Cut!SendNow(t) /\ Cut!Needed(place)
    BY <1>8 DEF Cut!Send
  <2>2. t \in Transactions /\ Harmless(t)
    <3>1. CASE place \in {"grantDefault", "grantAdmin", "grantMinter", "relayer"}
      <4>1. \E role \in Cut!Roles, to2 \in Accounts : t = Cut!Grant(role, to2)
        BY <1>0, <3>1 DEF Cut!Transaction, Cut!Roles
      <4> QED
        BY <4>1 DEF Cut!Grant, Transactions, Harmless, Cut!Roles
    <3>2. CASE place = "revokeMinter"
      BY <1>0, <3>2 DEF Cut!Transaction, Cut!Revoke, Transactions, Harmless
    <3>3. CASE place = "dropAdmin"
      <4>1. t = [do |-> "revoke", role |-> "ADMIN", to |-> Deployer]
        BY <3>3 DEF Cut!Transaction, Cut!Revoke
      <4>2. Cut!HandsOver /\ TargetHas("ADMIN")
        BY <1>4, <2>1, <3>3 DEF Cut!Needed, AfterAdmin
      <4> QED
        BY <1>0, <4>1, <4>2 DEF Transactions, Harmless
    <3>4. CASE place = "dropDefault"
      <4>1. t = [do |-> "renounce", role |-> "DEFAULT_ADMIN", to |-> Deployer]
        BY <3>4 DEF Cut!Transaction
      <4>2. Cut!HandsOver /\ TargetHas("DEFAULT_ADMIN")
        BY <1>4, <2>1, <3>4 DEF Cut!Needed, AfterAdmin, AfterDefault
      <4> QED
        BY <1>0, <4>1, <4>2 DEF Transactions, Harmless
    <3> QED
      BY <3>1, <3>2, <3>3, <3>4
  <2>3. ASSUME queue' = Append(queue, t), waiting' PROVE ScriptFits'
    <3>1. queue'[Len(queue')] = t
      <4>1. queue \in Seq(Transactions)
        BY DEF CutInv
      <4> QED
        BY <2>2, <2>3, <4>1, AppendProperties
    <3>2. place = "grantDefault" => Awaits("DEFAULT_ADMIN")'
      <4> SUFFICES ASSUME place = "grantDefault" PROVE Awaits("DEFAULT_ADMIN")'
        OBVIOUS
      <4>1. t = Cut!Grant("DEFAULT_ADMIN", env'.target)
        BY <1>1 DEF Cut!Transaction
      <4> QED
        BY <2>3, <3>1, <4>1 DEF Awaits, Cut!Grant
    <3>3. place = "grantAdmin" => Awaits("ADMIN")'
      <4> SUFFICES ASSUME place = "grantAdmin" PROVE Awaits("ADMIN")'
        OBVIOUS
      <4>1. t = Cut!Grant("ADMIN", env'.target)
        BY <1>1 DEF Cut!Transaction
      <4> QED
        BY <2>3, <3>1, <4>1 DEF Awaits, Cut!Grant
    <3> QED
      BY <1>4, <1>5, <1>6, <3>2, <3>3 DEF ScriptFits, AfterDefault, AfterAdmin
  <2> HIDE DEF t
  <2> QED
    BY <1>1, <1>2, <1>3, <2>1, <2>2, <2>3, SendStep
<1> QED
  BY <1>7, <1>8

LEMMA CutStep ==
  ASSUME CutoverAssumption, CutInv, [Cut!Next]_Cut!vars
  PROVE  CutInv'
<1>0. /\ Cut!TypeOK /\ waiting \in BOOLEAN /\ ScriptFits /\ Cut!OwnerIsThere
      /\ queue \in Seq(Transactions) /\ \A i \in 1 .. Len(queue) : Harmless(queue[i])
      /\ Len(queue) <= scriptCrashed + (IF waiting THEN 1 ELSE 0)
      /\ ~proxy => pc = "idle" /\ queue = <<>>
  BY DEF CutInv
<1>1. /\ {"migrate", "deactivate", "grantDefault"} \subseteq {Cut!Places[i] : i \in 1 .. 10}
      /\ {"idle", "migrate", "deactivate", "grantDefault"} \intersect AfterDefault = {}
      /\ AfterAdmin \subseteq AfterDefault
  BY PlaceNames DEF AfterDefault, AfterAdmin
<1>2. ASSUME NEW a \in Lecturers, Cut!V1Changes(a) PROVE CutInv'
  <2>1. /\ UNCHANGED <<env, v1Known, v1Active, proxy, members, queue, script, pc, waiting, todo,
                      scriptCrashed>>
        /\ pc = "idle" /\ a \in Accounts
    BY <1>2 DEF Cut!V1Changes, CutoverAssumption
  <2>2. Cut!TypeOK'
    BY <1>0, <1>2, <2>1 DEF Cut!TypeOK, Cut!V1Changes
  <2>3. (\A i \in 1 .. Len(queue) : Harmless(queue[i]))'
    BY <1>0, <2>1 DEF Harmless, Cut!HandsOver, Cut!Roles, TargetHas
  <2>4. ScriptFits' /\ Cut!OwnerIsThere'
    BY <1>0, <1>1, <2>1 DEF ScriptFits, Cut!OwnerIsThere
  <2>5. /\ waiting' \in BOOLEAN /\ queue' \in Seq(Transactions)
        /\ (Len(queue) <= scriptCrashed + (IF waiting THEN 1 ELSE 0))'
        /\ (~proxy => pc = "idle" /\ queue = <<>>)'
    <3>1. waiting' = waiting /\ queue' = queue /\ scriptCrashed' = scriptCrashed
          /\ proxy' = proxy /\ pc' = pc
      BY <2>1
    <3> QED
      BY <1>0, <3>1
  <2> QED
    BY <2>2, <2>3, <2>4, <2>5 DEF CutInv
<1>3. CASE Cut!Deploy
  <2>1. /\ pc = "idle" /\ ~proxy /\ script' = "deploy" /\ pc' = "migrate" /\ proxy' = TRUE
        /\ members' = [r \in Cut!Roles |-> {Deployer}]
        /\ todo' = Cut!PlanAdmins \ env.exclude
        /\ UNCHANGED <<env, v1Admins, v1Granted, v1Revoked, v1Known, v1Active, queue, waiting,
                      scriptCrashed>>
    BY <1>3 DEF Cut!Deploy
  <2>2. queue = <<>> /\ queue' = <<>>
    BY <1>0, <2>1
  <2>3. members' \in [Cut!Roles -> SUBSET Accounts]
        /\ \A r \in {"ADMIN", "DEFAULT_ADMIN"} : Deployer \in members'[r]
    BY <2>1 DEF CutoverAssumption, Cut!Roles
  <2>4. todo' \subseteq Accounts
    BY <1>0, <2>1 DEF Cut!TypeOK, Cut!PlanAdmins, Cut!Replayed
  <2>5. Cut!TypeOK'
    BY <1>0, <1>1, <2>1, <2>3, <2>4 DEF Cut!TypeOK
  <2>6. ScriptFits' /\ Cut!OwnerIsThere'
    BY <1>1, <2>1, <2>3 DEF ScriptFits, Cut!OwnerIsThere
  <2>7. \A i \in 1 .. Len(queue') : FALSE
    BY <2>2
  <2>8. waiting' = waiting /\ scriptCrashed' = scriptCrashed
    BY <2>1
  <2>9. (\A i \in 1 .. Len(queue) : Harmless(queue[i]))'
    BY <2>7
  <2>10. /\ waiting' \in BOOLEAN /\ queue' \in Seq(Transactions)
         /\ (Len(queue) <= scriptCrashed + (IF waiting THEN 1 ELSE 0))'
    BY <1>0, <2>1, <2>8
  <2> QED
    BY <2>1, <2>5, <2>6, <2>9, <2>10 DEF CutInv
<1>4. CASE Cut!Finish
  <2>1. /\ pc = "idle" /\ proxy /\ script' = "finish" /\ pc' = "migrate"
        /\ todo' = ((env.admins \intersect v1Admins) \ {Deployer}) \ members["ADMIN"]
        /\ UNCHANGED <<env, v1Admins, v1Granted, v1Revoked, v1Known, v1Active, proxy, members,
                      queue, waiting, scriptCrashed>>
    BY <1>4 DEF Cut!Finish
  <2>2. Cut!TypeOK'
    BY <1>0, <1>1, <2>1 DEF Cut!TypeOK
  <2>3. (\A i \in 1 .. Len(queue) : Harmless(queue[i]))'
    BY <1>0, <2>1 DEF Harmless, Cut!HandsOver, Cut!Roles, TargetHas
  <2>4. ScriptFits' /\ Cut!OwnerIsThere'
    BY <1>0, <1>1, <2>1 DEF ScriptFits, Cut!OwnerIsThere
  <2>5. /\ waiting' \in BOOLEAN /\ queue' \in Seq(Transactions) /\ proxy'
        /\ (Len(queue) <= scriptCrashed + (IF waiting THEN 1 ELSE 0))'
    <3>1. waiting' = waiting /\ queue' = queue /\ scriptCrashed' = scriptCrashed
          /\ proxy' = proxy
      BY <2>1
    <3> QED
      BY <1>0, <2>1, <3>1
  <2> QED
    BY <2>2, <2>3, <2>4, <2>5 DEF CutInv
<1>5. ASSUME NEW place, pc' = place, place \in {"idle", "migrate", "deactivate", "grantDefault"},
             Cut!Quiet, ~proxy => place = "idle", todo' \subseteq Accounts \union Surveys
      PROVE  CutInv'
  <2>1. ScriptFits'
    BY <1>1, <1>5 DEF ScriptFits
  <2>2. pc' \in {Cut!Places[i] : i \in 1 .. 10} \union {"idle"}
    BY <1>1, <1>5
  <2> QED
    BY <1>5, <2>1, <2>2, QuietStep DEF Cut!Quiet
<1>6. CASE Cut!ListDone
  <2>1. pc' \in {"deactivate", "grantDefault"}
    BY <1>6, Afters DEF Cut!ListDone, Cut!Enter
  <2>2. todo' \subseteq Surveys
    BY <1>0, <1>6 DEF Cut!ListDone, Cut!Enter, Cut!ToDeactivate, Cut!Enumerated, Cut!TypeOK
  <2>3. pc # "idle" /\ Cut!Quiet
    BY <1>6 DEF Cut!ListDone
  <2> QED
    BY <1>0, <1>5, <2>1, <2>2, <2>3
<1>7. CASE Cut!Reverts
  BY <1>5, <1>7 DEF Cut!Reverts
<1>8. ASSUME NEW a \in Accounts, Cut!MigrateOne(a) PROVE CutInv'
  <2>1. /\ pc = "migrate" /\ pc' = pc /\ todo' = todo \ {a} /\ Cut!SendNow(Cut!Grant("ADMIN", a))
    BY <1>8 DEF Cut!MigrateOne
  <2>2. Cut!Grant("ADMIN", a) \in Transactions /\ Harmless(Cut!Grant("ADMIN", a))
    BY DEF Cut!Grant, Transactions, Harmless, Cut!Roles
  <2>3. todo' \subseteq Accounts \union Surveys
    BY <1>0, <2>1 DEF Cut!TypeOK
  <2>4. ScriptFits'
    BY <1>1, <2>1 DEF ScriptFits
  <2> QED
    BY <1>0, <1>1, <2>1, <2>2, <2>3, <2>4, SendStep
<1>9. ASSUME NEW id \in Surveys, Cut!DeactivateOne(id) PROVE CutInv'
  <2> DEFINE t == [do |-> "deactivate", role |-> "none", to |-> id]
  <2>1. pc = "deactivate" /\ pc' = pc /\ todo' = todo \ {id} /\ (Cut!Quiet \/ Cut!SendNow(t))
    BY <1>9 DEF Cut!DeactivateOne
  <2>2. t \in Transactions /\ Harmless(t)
    BY DEF Transactions, Harmless
  <2>3. todo' \subseteq Accounts \union Surveys
    BY <1>0, <2>1 DEF Cut!TypeOK
  <2>4. ScriptFits'
    BY <1>1, <2>1 DEF ScriptFits
  <2> HIDE DEF t
  <2>5. CASE Cut!Quiet
    BY <1>0, <1>5, <2>1, <2>3, <2>5
  <2>6. CASE Cut!SendNow(t)
    BY <1>0, <1>1, <2>1, <2>2, <2>3, <2>4, <2>6, SendStep
  <2> QED
    BY <2>1, <2>5, <2>6
<1>10. ASSUME NEW i \in 3 .. 9, Cut!Send(Cut!Places[i]) \/ Cut!Skip(Cut!Places[i]) PROVE CutInv'
  <2>1. PICK place : place = Cut!Places[i]
    OBVIOUS
  <2>2. place \in {"grantDefault", "grantAdmin", "grantMinter", "revokeMinter", "relayer",
                  "dropAdmin", "dropDefault"}
    BY <2>1, PlaceNames
  <2> QED
    BY <1>10, <2>1, <2>2, PlaceStep
<1>11. CASE Cut!Crash
  <2>1. /\ scriptCrashed < ScriptCrashes /\ scriptCrashed' = scriptCrashed + 1
        /\ pc' = "idle" /\ todo' = {} /\ waiting' = FALSE
        /\ UNCHANGED <<env, v1Admins, v1Granted, v1Revoked, v1Known, v1Active, proxy, members,
                      queue, script>>
    BY <1>11 DEF Cut!Crash
  <2>2. scriptCrashed \in Nat /\ ScriptCrashes \in Nat /\ Len(queue) \in Nat
    BY <1>0, LenProperties DEF Cut!TypeOK, CutoverAssumption
  <2>3. Len(queue) <= scriptCrashed + 1
    BY <1>0, <2>2
  <2>4. Cut!TypeOK'
    BY <1>0, <2>1, <2>2 DEF Cut!TypeOK
  <2>5. (\A i \in 1 .. Len(queue) : Harmless(queue[i]))'
    BY <1>0, <2>1 DEF Harmless, Cut!HandsOver, Cut!Roles, TargetHas
  <2>6. ScriptFits' /\ Cut!OwnerIsThere'
    BY <1>0, <1>1, <2>1 DEF ScriptFits, Cut!OwnerIsThere
  <2>7. queue' = queue /\ proxy' = proxy /\ waiting' = FALSE
    BY <2>1
  <2>8. (Len(queue) <= scriptCrashed + (IF waiting THEN 1 ELSE 0))'
    BY <2>1, <2>2, <2>3, <2>7
  <2>9. waiting' \in BOOLEAN
    BY <2>7
  <2>10. queue' \in Seq(Transactions) /\ (~proxy' => pc' = "idle" /\ queue' = <<>>)
    <3>1. queue' = queue /\ proxy' = proxy /\ pc' = "idle"
      BY <2>1
    <3> QED
      BY <1>0, <3>1
  <2> QED
    BY <2>4, <2>5, <2>6, <2>8, <2>9, <2>10 DEF CutInv
<1>12. CASE UNCHANGED Cut!vars
  <2>1. UNCHANGED <<env, v1Admins, v1Granted, v1Revoked, v1Known, v1Active, proxy, members,
                    queue, script, waiting, scriptCrashed, pc, todo>>
    BY <1>12 DEF Cut!vars
  <2>2. ScriptFits'
    BY <1>0, <2>1 DEF ScriptFits, TargetHas, Awaits, Cut!Grant
  <2>3. pc' \in {Cut!Places[i] : i \in 1 .. 10} \union {"idle"} /\ todo' \subseteq Accounts \union Surveys
    BY <1>0, <2>1 DEF Cut!TypeOK
  <2> QED
    BY <1>0, <2>1, <2>2, <2>3, QuietStep
<1> QED
  BY <1>2, <1>3, <1>4, <1>6, <1>7, <1>8, <1>9, <1>10, <1>11, <1>12, MineStep
  DEF Cut!Next, Cut!Run

(* Wherever the scripts die and whatever they had sent, the deployer or the *)
(* target holds each of the roles that govern the new contract.             *)
THEOREM ContractIsGoverned ==
  ASSUME CutoverAssumption
  PROVE  Cut!Spec => [](Cut!TypeOK /\ Cut!OwnerIsThere)
<1>1. Cut!Init => CutInv
  BY CutInit
<1>2. CutInv /\ [Cut!Next]_Cut!vars => CutInv'
  BY CutStep
<1>3. CutInv => Cut!TypeOK /\ Cut!OwnerIsThere
  BY DEF CutInv
<1> QED
  BY <1>1, <1>2, <1>3, PTL DEF Cut!Spec

=============================================================================
