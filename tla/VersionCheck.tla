---------------------------- MODULE VersionCheck ----------------------------
(***************************************************************************)
(* Points in fractions while the proxy changes from V2 to V3, in           *)
(* services/blockchain.ts: supportsFractionalPoints asks whether it runs   *)
(* V3, kept for good once it is so and for Recheck otherwise, and what     *)
(* reads points or registers a fractional survey takes its path by the     *)
(* answer.  Any of them may be asking at once, and their answers cross.    *)
(***************************************************************************)
EXTENDS FiniteSets, Integers

CONSTANTS
  Recheck,       \* FRACTIONAL_RECHECK_MS
  ReadTime,      \* the longest one read of the contract takes
  Centi,         \* the points that are read or registered, in hundredths
  MaxCalls,      \* bound on the calls under way
  MaxTime        \* bound on the clock

VARIABLES
  now,
  upgradedAt,    \* when the proxy got V3, or Never
  support,       \* fractionalSupport: [value, checkedAt]; checkedAt Never for none
  calls          \* under way: [task, at, since, v3, failed]

vars == <<now, upgradedAt, support, calls>>

Never == -1

\* "read": getSurveyInfo, getTotalPoints, getSurveyPoints.
\* "register": POST /surveys for a survey worth Centi.
CallStates == [task : {"read", "register"}, at : {"asking", "calling"}, since : 0 .. MaxTime,
               v3 : BOOLEAN, failed : BOOLEAN]

Init ==
  /\ now = 0 /\ upgradedAt \in {Never, 0}
  /\ support = [value |-> FALSE, checkedAt |-> Never] /\ calls = {}

WrongKnown == support.checkedAt # Never

\* The cached answer is used.
Known == support.checkedAt # Never /\ (support.value \/ now - support.checkedAt < Recheck)

isFractional == Centi % 100 # 0

\* A fractional survey is refused unless the proxy runs V3
\* (FRACTIONAL_POINTS_UNSUPPORTED).
Goes(task, v3) == task = "read" \/ v3 \/ ~isFractional

Calling(task, v3, failed) ==
  IF Goes(task, v3)
  THEN {[task |-> task, at |-> "calling", since |-> now, v3 |-> v3, failed |-> failed]}
  ELSE {}

Begin(task) ==
  /\ Known /\ Cardinality(calls) < MaxCalls
  /\ calls' = calls \union Calling(task, support.value, FALSE)
  /\ UNCHANGED <<now, upgradedAt, support>>

Check(task) ==
  /\ ~Known /\ Cardinality(calls) < MaxCalls
  /\ calls' = calls \union {[task |-> task, at |-> "asking", since |-> now,
                             v3 |-> upgradedAt # Never, failed |-> FALSE]}
  /\ UNCHANGED <<now, upgradedAt, support>>

Answers(c) ==
  /\ c.at = "asking"
  /\ support' = [value |-> c.v3, checkedAt |-> now]
  /\ calls' = (calls \ {c}) \union Calling(c.task, c.v3, FALSE)
  /\ UNCHANGED <<now, upgradedAt>>

\* The version is "unknown": the call takes the way of V2, nothing is kept.
Fails(c) ==
  /\ c.at = "asking"
  /\ calls' = (calls \ {c}) \union Calling(c.task, FALSE, TRUE)
  /\ UNCHANGED <<now, upgradedAt, support>>

\* What a read returns: the views of V2 drop what is not a whole point.
\* Registered is Centi, by registerSurveyCenti or by registerSurvey.
Points(c) == IF c.task = "register" \/ c.v3 THEN Centi ELSE (Centi \div 100) * 100

\* The function is only in V3.
NeedsV3(c) == IF c.task = "register" THEN isFractional ELSE c.v3

Returns(c) ==
  /\ c.at = "calling"
  /\ calls' = calls \ {c}
  /\ UNCHANGED <<now, upgradedAt, support>>

Upgrade ==
  /\ upgradedAt = Never /\ upgradedAt' = now
  /\ UNCHANGED <<now, support, calls>>

Tick ==
  /\ now < MaxTime /\ \A c \in calls : now < c.since + ReadTime
  /\ now' = now + 1
  /\ UNCHANGED <<upgradedAt, support, calls>>

Next ==
  \/ \E task \in {"read", "register"} : Begin(task) \/ Check(task)
  \/ \E c \in calls : Answers(c) \/ Fails(c) \/ Returns(c)
  \/ Upgrade \/ Tick

Spec == Init /\ [][Next]_vars

-----------------------------------------------------------------------------
(* Properties.                                                             *)

\* Types.
TypeOK ==
  /\ now \in 0 .. MaxTime /\ upgradedAt \in Never .. MaxTime
  /\ support \in [value : BOOLEAN, checkedAt : Never .. MaxTime]
  /\ calls \subseteq CallStates

\* "a negative one is re-checked every 5 minutes so the backend picks up a
\* proxy upgrade without a restart": V3 is taken for V2 no longer than that,
\* and the time of one read, after the upgrade, although a negative answer
\* that is late may replace a positive one.
UpgradeIsSeen ==
  Known /\ upgradedAt # Never => support.value \/ now < upgradedAt + Recheck + ReadTime

\* "deploying the backend and upgrading the proxy can happen in either
\* order": no function of V3 is called on V2, and points are exact but for
\* the time it may take to see the upgrade, and a check that failed.
PathFits ==
  \A c \in calls : c.at = "calling" =>
    /\ NeedsV3(c) => upgradedAt # Never
    /\ \/ Points(c) = Centi \/ c.failed \/ upgradedAt = Never
       \/ now < upgradedAt + Recheck + 2 * ReadTime
=============================================================================
