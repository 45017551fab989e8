----------------------------- MODULE SurveyCache ----------------------------
(***************************************************************************)
(* The survey list the server keeps for a while: services/survey-cache.ts. *)
(* It is filled across awaits, by as many requests at once as come, while  *)
(* the chain moves on and writes invalidate the list.                      *)
(***************************************************************************)
EXTENDS Integers

CONSTANTS
  Surveys,
  Fills,         \* requests that may be filling the list at a time
  Ttl,           \* cacheTtlMs
  FillTime,      \* the longest a fill takes
  MaxTime        \* bound on the clock

VARIABLES
  now,
  chain,         \* survey -> "none", "active" or "inactive"
  changedAt,     \* survey -> when that last changed, or Never
  cachedSurveys, \* the list, or NoList
  cacheExpiry,
  started,       \* fill -> when it began, or Never
  got            \* fill -> what it has loaded: survey -> state or "unread"

listVars == <<chain, changedAt, cachedSurveys, cacheExpiry, started, got>>
vars == <<now, listVars>>

Never == -1
NoList == [s \in Surveys |-> "unread"]
States == {"none", "active", "inactive"}

Init ==
  /\ now = 0
  /\ chain \in [Surveys -> States] /\ changedAt = [s \in Surveys |-> Never]
  /\ cachedSurveys = NoList /\ cacheExpiry = 0
  /\ started = [f \in Fills |-> Never] /\ got = [f \in Fills |-> NoList]

-----------------------------------------------------------------------------
(* The survey list.                                                        *)

WrongServed == cachedSurveys # NoList

\* The list is served from the cache.
Served == cachedSurveys # NoList /\ now < cacheExpiry

\* Ids come from the events and the key table; a survey in neither is not
\* looked at.
StartFill(f) ==
  /\ started[f] = Never /\ ~Served
  /\ started' = [started EXCEPT ![f] = now]
  /\ \E unknown \in SUBSET {s \in Surveys : chain[s] = "none"} :
       got' = [got EXCEPT ![f] = [s \in Surveys |-> IF s \in unknown THEN "none" ELSE "unread"]]
  /\ UNCHANGED <<now, chain, changedAt, cachedSurveys, cacheExpiry>>

\* Promise.all: the surveys are read at moments of their own.
loadSurvey(f, s) ==
  /\ started[f] # Never /\ got[f][s] = "unread"
  /\ got' = [got EXCEPT ![f][s] = chain[s]]
  /\ UNCHANGED <<now, chain, changedAt, cachedSurveys, cacheExpiry, started>>

Ends(f) ==
  /\ started' = [started EXCEPT ![f] = Never]
  /\ got' = [got EXCEPT ![f] = NoList]

Store(f) ==
  /\ started[f] # Never /\ \A s \in Surveys : got[f][s] # "unread"
  /\ cachedSurveys' = got[f] /\ cacheExpiry' = now + Ttl
  /\ Ends(f)
  /\ UNCHANGED <<now, chain, changedAt>>

Fails(f) ==
  /\ started[f] # Never
  /\ Ends(f)
  /\ UNCHANGED <<now, chain, changedAt, cachedSurveys, cacheExpiry>>

\* A write is mined, through this process or not.
Mined(s, state) ==
  /\ chain[s] # state /\ state # "none"
  /\ chain' = [chain EXCEPT ![s] = state]
  /\ changedAt' = [changedAt EXCEPT ![s] = now]
  /\ UNCHANGED <<now, cachedSurveys, cacheExpiry, started, got>>

\* A route of this process has the receipt of its write.
invalidateCache ==
  /\ cachedSurveys' = NoList /\ cacheExpiry' = 0
  /\ UNCHANGED <<now, chain, changedAt, started, got>>

-----------------------------------------------------------------------------

\* Reads are given up after FillTime.
Tick ==
  /\ now < MaxTime
  /\ \A f \in Fills : started[f] # Never => now < started[f] + FillTime
  /\ now' = now + 1
  /\ UNCHANGED listVars

Next ==
  \/ \E f \in Fills : StartFill(f) \/ Store(f) \/ Fails(f)
  \/ \E f \in Fills, s \in Surveys : loadSurvey(f, s)
  \/ \E s \in Surveys, state \in States : Mined(s, state)
  \/ invalidateCache
  \/ Tick

Spec == Init /\ [][Next]_vars

-----------------------------------------------------------------------------
(* Properties.                                                             *)

\* Types.
TypeOK ==
  /\ now \in 0 .. MaxTime
  /\ chain \in [Surveys -> States] /\ changedAt \in [Surveys -> Never .. MaxTime]
  /\ cachedSurveys \in [Surveys -> States \union {"unread"}] /\ cacheExpiry \in 0 .. MaxTime + Ttl
  /\ started \in [Fills -> Never .. MaxTime]
  /\ got \in [Fills -> [Surveys -> States \union {"unread"}]]

Since(time, span) == time # Never /\ now < time + span

\* What is served was true a cache lifetime and the time of a fill ago at
\* most, survey by survey, whichever fills overlap and whatever a write
\* invalidates in between.
ListIsRecent ==
  Served => \A s \in Surveys : cachedSurveys[s] = chain[s] \/ Since(changedAt[s], Ttl + FillTime)
=============================================================================
