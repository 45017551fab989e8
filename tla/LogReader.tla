----------------------------- MODULE LogReader ------------------------------
(***************************************************************************)
(* AdaptiveLogReader of lib/log-reader.ts: reads of a range of blocks that *)
(* share one span and one preferred source.  A read runs alone between two *)
(* answers; what it waits for, the answer of one source, may be the logs,  *)
(* the refusal of so wide a range, or an error.                            *)
(***************************************************************************)
EXTENDS FiniteSetsExt, Integers

CONSTANTS
  Readers,       \* reads that may be under way at a time
  Sources,       \* how many sources there are
  Limits,        \* the widest range each source answers, from source 0 on
  First, Last,   \* the blocks to read
  MaxSpan,
  GrowAfter      \* successes before the span is doubled

VARIABLES
  span, preferred, successes,
  at,            \* where each read is: "idle", "asking", "done"
  whole,         \* it is a read(), not a readOnce()
  from, to,      \* the range it asks for
  attempt,       \* how many sources failed it
  source,        \* the source it asks
  refused,       \* one of them refused the range (rangeRejected)
  got            \* read -> block -> how often its logs were collected

readerVars == <<span, preferred, successes>>
readVars == <<at, whole, from, to, attempt, source, refused, got>>
vars == <<readerVars, readVars>>

Blocks == First .. Last
NoBlocks == [b \in Blocks |-> 0]

Init ==
  /\ span = MaxSpan /\ preferred = 0 /\ successes = 0
  /\ at = [r \in Readers |-> "idle"] /\ whole = [r \in Readers |-> FALSE]
  /\ from = [r \in Readers |-> First] /\ to = [r \in Readers |-> First]
  /\ attempt = [r \in Readers |-> 0] /\ source = [r \in Readers |-> 0]
  /\ refused = [r \in Readers |-> FALSE]
  /\ got = [r \in Readers |-> NoBlocks]

Width(r) == to[r] - from[r] + 1

\* The next request of the loop: span and preferred as they are by now.
Request(r, first) ==
  /\ from' = [from EXCEPT ![r] = first]
  /\ to' = [to EXCEPT ![r] = Min({first + span' - 1, Last})]
  /\ attempt' = [attempt EXCEPT ![r] = 0]
  /\ source' = [source EXCEPT ![r] = preferred']
  /\ refused' = [refused EXCEPT ![r] = FALSE]

\* read, or readOnce for a window of the event store.
Begin(r) ==
  /\ at[r] # "asking" /\ at' = [at EXCEPT ![r] = "asking"]
  /\ \E w \in BOOLEAN : whole' = [whole EXCEPT ![r] = w]
  /\ UNCHANGED readerVars
  /\ got' = [got EXCEPT ![r] = NoBlocks]
  /\ Request(r, First)

\* The read returns ("done") or throws.
End(r, place) ==
  /\ at' = [at EXCEPT ![r] = place]
  /\ from' = [from EXCEPT ![r] = First] /\ to' = [to EXCEPT ![r] = First]
  /\ attempt' = [attempt EXCEPT ![r] = 0] /\ source' = [source EXCEPT ![r] = 0]
  /\ refused' = [refused EXCEPT ![r] = FALSE]

Throw(r) == End(r, "idle") /\ got' = [got EXCEPT ![r] = NoBlocks]

\* recordSuccess: only full-span requests count.
RecordSuccess(requested) ==
  IF span >= MaxSpan \/ requested < span THEN UNCHANGED <<span, successes>>
  ELSE IF successes + 1 >= GrowAfter
       THEN span' = Min({MaxSpan, span * 2}) /\ successes' = 0
       ELSE successes' = successes + 1 /\ UNCHANGED span

WrongCollected(r) == [b \in Blocks |-> got[r][b] + IF b \in from[r] .. Min({from[r] + span - 1, Last}) THEN 1 ELSE 0]

Collected(r) == [b \in Blocks |-> got[r][b] + IF b \in from[r] .. to[r] THEN 1 ELSE 0]

Answers(r) ==
  /\ at[r] = "asking" /\ Width(r) <= Limits[source[r] + 1]
  /\ preferred' = source[r]
  /\ RecordSuccess(Width(r))
  /\ got' = [got EXCEPT ![r] = Collected(r)]
  /\ IF whole[r] /\ to[r] < Last THEN Request(r, to[r] + 1) /\ UNCHANGED at ELSE End(r, "done")
  /\ UNCHANGED whole

AskNext(r, r_refused) ==
  /\ attempt[r] + 1 < Sources
  /\ attempt' = [attempt EXCEPT ![r] = @ + 1]
  /\ source' = [source EXCEPT ![r] = (preferred + attempt[r] + 1) % Sources]
  /\ refused' = [refused EXCEPT ![r] = r_refused]
  /\ UNCHANGED <<readerVars, at, whole, from, to, got>>

\* Every attempt failed, one with a refusal: the span is halved, relative to
\* the range that was refused, and read asks again for the same blocks.
Shrink(r) ==
  /\ attempt[r] + 1 = Sources
  /\ span' = Max({1, Min({span, Width(r) \div 2})})
  /\ successes' = 0 /\ UNCHANGED preferred
  /\ IF whole[r] /\ to[r] > from[r] THEN Request(r, from[r]) /\ UNCHANGED <<at, got>> ELSE Throw(r)
  /\ UNCHANGED whole

Refuses(r) ==
  /\ at[r] = "asking" /\ Width(r) > Limits[source[r] + 1]
  /\ AskNext(r, TRUE) \/ Shrink(r)

GivesUp(r) ==
  /\ attempt[r] + 1 = Sources /\ ~refused[r]
  /\ Throw(r) /\ UNCHANGED <<readerVars, whole>>

\* An error, or no answer in time.
Fails(r) ==
  /\ at[r] = "asking"
  /\ AskNext(r, refused[r]) \/ (refused[r] /\ Shrink(r)) \/ GivesUp(r)

\* shouldStop, before the next source is asked.
Superseded(r) ==
  /\ at[r] = "asking" /\ Throw(r)
  /\ UNCHANGED <<readerVars, whole>>

Step(r) == Answers(r) \/ Refuses(r) \/ Fails(r) \/ Superseded(r)

Next == \E r \in Readers : Begin(r) \/ Step(r)

Spec == Init /\ [][Next]_vars

\* A source answers or its time is up.
FairSpec == Spec /\ \A r \in Readers : WF_vars(Step(r))

-----------------------------------------------------------------------------
(* Properties.                                                             *)

\* Types.
TypeOK ==
  /\ span \in 1 .. MaxSpan /\ preferred \in 0 .. Sources - 1 /\ successes \in 0 .. GrowAfter
  /\ at \in [Readers -> {"idle", "asking", "done"}] /\ whole \in [Readers -> BOOLEAN]
  /\ from \in [Readers -> Blocks] /\ to \in [Readers -> Blocks]
  /\ attempt \in [Readers -> 0 .. Sources - 1] /\ source \in [Readers -> 0 .. Sources - 1]
  /\ refused \in [Readers -> BOOLEAN] /\ got \in [Readers -> [Blocks -> Nat]]

\* However the span changes under a read, by its own requests or another's,
\* a read has collected each block before the range it asks for once, and
\* none that follows; the result of a whole read has them all.
EachBlockOnce ==
  \A r \in Readers, b \in Blocks :
    /\ at[r] = "asking" => got[r][b] = IF b < from[r] THEN 1 ELSE 0
    /\ at[r] = "done" /\ whole[r] => got[r][b] = 1

\* "parallel callers that were all refused the same span shrink it once, not
\* once each": the span stays at half or more of the narrowest range that
\* can be refused.
SpanIsKept ==
  2 * span >= Min({MaxSpan, Min({Limits[i] : i \in 1 .. Sources}) + 1}) - 1

Asking(r) == at[r] = "asking"

\* A read ends, though the span it is refused for may grow again meanwhile.
ReadsEnd == \A r \in Readers : Asking(r) ~> ~Asking(r)
=============================================================================
