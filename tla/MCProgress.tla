----------------------------- MODULE MCProgress -----------------------------
(***************************************************************************)
(* The components something of which must happen in the end: the event     *)
(* store, the file lock, the cutover to V2, reads of logs and the server   *)
(* process.  They share no variable; Init picks the part the behaviour is  *)
(* about.  x1, x2, ... are the variables of FileLock, Cutover, LogReader   *)
(* or ServerLife, in the order they are declared.                          *)
(*                                                                         *)
(* The event store has a chain of three blocks, of which the last two hold *)
(* events, windows of at most two blocks, one restart, and room for a run  *)
(* and a zombie.  Processes may crash anywhere but between moving a fresh  *)
(* lock away by mistake and giving it back.                                *)
(***************************************************************************)
EXTENDS EventStore

CONSTANTS r1, r2, NoFile, p1, p2, d, o, m, a

VARIABLES
  part,
  x1, x2, x3, x4, x5, x6, x7, x8, x9, x10, x11, x12, x13, x14

MCRuns == {r1, r2}
MCEventBlocks == {2, 3}

ASSUME NoFileAssumption == NoFile \notin 1 .. 5

AlmostAnywhere == {"open", "look", "take", "bury", "again", "in", "unlink"}

Lock == INSTANCE FileLock WITH
  Processes <- {p1, p2}, Files <- 1 .. 5, NoFile <- NoFile, CrashAt <- AlmostAnywhere,
  MaxCrashes <- 2, path <- x1, stale <- x2, at <- x3, own <- x4, seen <- x5,
  grave <- x6, crashes <- x7

Cut == INSTANCE Cutover WITH
  Accounts <- {d, o, m, a}, Deployer <- d, Lecturers <- {a}, Targets <- {d, o},
  Minters <- {m}, Surveys <- {1, 2}, AdminLists <- {{}, {a}}, Excludes <- {{}},
  MissLimit <- 1, MaxCrashes <- 2, env <- x1, v1Admins <- x2, v1Granted <- x3,
  v1Revoked <- x4, v1Known <- x5, v1Active <- x6, proxy <- x7, members <- x8,
  queue <- x9, script <- x10, pc <- x11, waiting <- x12, todo <- x13, crashes <- x14

Reader == INSTANCE LogReader WITH
  Readers <- {1, 2}, Sources <- 2, Limits <- <<1, 3>>, First <- 1, Last <- 4,
  MaxSpan <- 4, GrowAfter <- 2, span <- x1, preferred <- x2, successes <- x3, at <- x4,
  whole <- x5, from <- x6, to <- x7, attempt <- x8, source <- x9, refused <- x10,
  got <- x11

Life == INSTANCE ServerLife WITH
  Requests <- {1, 2}, phase <- x1, exit <- x2, chain <- x3, listening <- x4, sync <- x5,
  interval <- x6, early <- x7, probes <- x8, at <- x9

others == <<x1, x2, x3, x4, x5, x6, x7, x8, x9, x10, x11, x12, x13, x14>>
fileLockVars == <<x1, x2, x3, x4, x5, x6, x7>>
logReaderVars == <<x1, x2, x3, x4, x5, x6, x7, x8, x9, x10, x11>>
processVars == <<x1, x2, x3, x4, x5, x6, x7, x8, x9>>

SumInit ==
  \/ /\ part = "events" /\ Init
     /\ x1 = 0 /\ x2 = 0 /\ x3 = 0 /\ x4 = 0 /\ x5 = 0 /\ x6 = 0 /\ x7 = 0 /\ x8 = 0 /\ x9 = 0 /\ x10 = 0 /\ x11 = 0 /\ x12 = 0 /\ x13 = 0 /\ x14 = 0
  \/ /\ part = "lock" /\ Lock!Init /\ Init
     /\ x8 = 0 /\ x9 = 0 /\ x10 = 0 /\ x11 = 0 /\ x12 = 0 /\ x13 = 0 /\ x14 = 0
  \/ /\ part = "reader" /\ Reader!Init /\ Init
     /\ x12 = 0 /\ x13 = 0 /\ x14 = 0
  \/ /\ part = "process" /\ Life!Init /\ Init
     /\ x10 = 0 /\ x11 = 0 /\ x12 = 0 /\ x13 = 0 /\ x14 = 0
  \/ /\ part = "cutover" /\ Cut!Init /\ Init

SumNext ==
  /\ UNCHANGED part
  /\ \/ part = "events" /\ Next /\ UNCHANGED others
     \/ /\ part = "lock" /\ Lock!Next /\ UNCHANGED vars
        /\ UNCHANGED <<x8, x9, x10, x11, x12, x13, x14>>
     \/ /\ part = "reader" /\ Reader!Next /\ UNCHANGED vars
        /\ UNCHANGED <<x12, x13, x14>>
     \/ /\ part = "process" /\ UNCHANGED vars
        /\ \/ Life!Next /\ UNCHANGED <<x10, x11, x12, x13, x14>>
           \/ ~Life!Alive /\ UNCHANGED others
     \/ /\ part = "cutover" /\ UNCHANGED vars
        /\ \/ Cut!Next
           \/ Cut!CutOver /\ UNCHANGED others

\* The fairness each module states, for the part that moves.
SumFairness ==
  /\ WF_vars(part = "events" /\ Grow)
  /\ WF_vars(part = "events" /\ \E r \in Runs : Sync(r))
  /\ \A r \in Runs :
       /\ WF_vars(part = "events" /\ Watchdog(r))
       /\ WF_vars(part = "events" /\ Step(r))
  /\ SF_vars(part = "events" /\ \E r \in Runs : r = current /\ Height(r, head))
  /\ SF_vars(part = "events" /\ \E r \in Runs, outOfTime \in BOOLEAN : Apply(r, outOfTime))
  /\ WF_fileLockVars(part = "lock" /\ Lock!Age)
  /\ \A p \in {p1, p2} : WF_fileLockVars(part = "lock" /\ Lock!Step(p))
  /\ \A r \in {1, 2} :
       /\ WF_logReaderVars(part = "reader" /\ Reader!Step(r))
       /\ WF_processVars(part = "process" /\ Life!SyncWaited(r))
       /\ WF_processVars(part = "process" /\ Life!Answered(r))
  /\ WF_processVars(part = "process" /\ (Life!Exits \/ Life!Forced))
  /\ WF_others(part = "cutover" /\ Cut!Mine)
  /\ WF_others(part = "cutover" /\ Cut!Run)

FairSumSpec == SumInit /\ [][SumNext]_<<part, vars, others>> /\ SumFairness

-----------------------------------------------------------------------------
(* Properties, of the modules that define them.                            *)

\* Types of all parts.
TypesOK ==
  /\ TypeOK
  /\ part = "lock" => Lock!TypeOK
  /\ part = "cutover" => Cut!TypeOK
  /\ part = "reader" => Reader!TypeOK
  /\ part = "process" => Life!TypeOK

\* One process runs under the file lock, whose lock is not lost meanwhile.
LockIsExclusive == part = "lock" => Lock!MutualExclusion /\ Lock!HeldLockIsKept

\* A lock that is left behind comes free.
LockComesFree == (part = "lock" /\ Lock!Taken) ~> (part = "lock" => ~Lock!Taken)

\* Wherever a script of the cutover dies, somebody can govern the contract;
\* a read collects each block once, and the span is not shrunk twice for one
\* refusal; a process that was told to stop keeps no timer.
NothingIsLost ==
  /\ part = "cutover" => Cut!OwnerIsThere
  /\ part = "reader" => Reader!EachBlockOnce /\ Reader!SpanIsKept
  /\ part = "process" => Life!StopLeavesNothing

\* Something is not done yet: a read or a request (they are interchangeable,
\* so it is enough to follow the first), the end of the process, the cutover.
Pending ==
  \/ part = "reader" /\ Reader!Asking(1)
  \/ part = "process" /\ (Life!Asked(1) \/ Life!Stopping)
  \/ part = "cutover" /\ ~Cut!CutOver

\* A read ends; a health request is answered; a process that was told to stop
\* ends; the cutover gets through in the end.
WorkEnds == Pending ~> ~Pending

\* The event store reaches the head of the chain.
StoreCatchesUp == <>[](part = "events" => store.upto = MaxHead)
=============================================================================
