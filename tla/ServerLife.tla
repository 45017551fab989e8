----------------------------- MODULE ServerLife -----------------------------
(***************************************************************************)
(* One server process from its start to its end: server.ts, start and stop *)
(* of the event store, and the requests of routes/health.ts, which wait    *)
(* for a sync, for the chain or for a round of probes.  Node.js ends a     *)
(* process when nothing is left to wait for; timers that are unref'd do    *)
(* not count.  A process that was killed has no steps left.                *)
(***************************************************************************)
EXTENDS FiniteSets, Naturals

CONSTANT Requests

VARIABLES
  phase,         \* "running", "stopping", "exited"
  exit,          \* how it ended: "none", "clean", "forced", "wrong chain"
  chain,         \* validateChainId: "asked", "right"
  listening,     \* the HTTP server takes requests
  sync,          \* "first" (start awaits it), "under way", "none"
  interval,      \* the event store's syncInterval is set
  early,         \* a signal came during the first sync
  probes,        \* probeRound: "none", "under way", "done"
  at             \* where each request is

vars == <<phase, exit, chain, listening, sync, interval, early, probes, at>>

Places == {"idle", "syncing", "asking", "probing"}

Init ==
  /\ phase = "running" /\ exit = "none"
  /\ chain = "asked" /\ listening = TRUE
  /\ sync = "first" /\ interval = FALSE /\ early = FALSE
  /\ probes = "none" /\ at = [r \in Requests |-> "idle"]

Alive == phase # "exited"
Process == <<phase, exit, chain, listening>>
Store == <<sync, interval, early>>

Ends(how) ==
  /\ phase' = "exited" /\ exit' = how /\ listening' = FALSE
  /\ sync' = "none" /\ interval' = FALSE /\ probes' = "none"
  /\ at' = [r \in Requests |-> "idle"]
  /\ UNCHANGED <<chain, early>>

-----------------------------------------------------------------------------
(* Start.                                                                  *)

ChainIdPasses ==
  /\ Alive /\ chain = "asked" /\ chain' = "right"
  /\ UNCHANGED <<phase, exit, listening, Store, probes, at>>

\* Another chain, or no answer: process.exit(1).
ChainIdFails == Alive /\ chain = "asked" /\ Ends("wrong chain")

\* A sync that fails ends, too.  After the first the interval is set, also
\* when stop() was called meanwhile.
SyncEnds ==
  /\ Alive /\ sync # "none" /\ sync' = "none"
  /\ interval' = (interval \/ sync = "first")
  /\ UNCHANGED <<Process, early, probes, at>>

IntervalFires ==
  /\ Alive /\ interval /\ sync = "none" /\ sync' = "under way"
  /\ UNCHANGED <<Process, interval, early, probes, at>>

-----------------------------------------------------------------------------
(* Requests for the health of the process.                                 *)

Moves(r, place) == at' = [at EXCEPT ![r] = place]

\* checkReady: a stale store is synced first, by the sync that is under way
\* or a new one; a fresh one is not.
Ready(r) ==
  /\ listening /\ at[r] = "idle"
  /\ \/ /\ Moves(r, "syncing")
        /\ sync' = (IF sync = "none" THEN "under way" ELSE sync)
        /\ UNCHANGED <<interval, early>>
     \/ Moves(r, "asking") /\ UNCHANGED Store
  /\ UNCHANGED <<Process, probes>>

\* The sync ends or ten seconds are over.
SyncWaited(r) ==
  /\ at[r] = "syncing" /\ Moves(r, "asking")
  /\ UNCHANGED <<Process, Store, probes>>

\* The height and the network are there, or eight seconds over: 200 or 503.
Answered(r) ==
  /\ at[r] = "asking" /\ Moves(r, "idle")
  /\ UNCHANGED <<Process, Store, probes>>

\* /diag: all who ask within a minute share one round (probeAll).
Diag(r) ==
  /\ listening /\ at[r] = "idle"
  /\ Moves(r, "probing")
  /\ probes' = IF probes = "none" THEN "under way" ELSE probes
  /\ UNCHANGED <<Process, Store>>

\* probeRpc limits the wait for a response, not for its body: a round may
\* never end.
ProbesEnd ==
  /\ probes = "under way" /\ probes' = "done"
  /\ UNCHANGED <<Process, Store, at>>

Probed(r) ==
  /\ at[r] = "probing" /\ probes # "under way" /\ Moves(r, "idle")
  /\ UNCHANGED <<Process, Store, probes>>

\* PROBE_CACHE_MS is over.  (A round that hangs for longer than that is
\* followed by a new one, which hangs or ends for those who ask then.)
ProbesExpire ==
  /\ probes = "done" /\ probes' = "none"
  /\ UNCHANGED <<Process, Store, at>>

\* The client goes away.
HangsUp(r) ==
  /\ at[r] # "idle" /\ Moves(r, "idle")
  /\ UNCHANGED <<Process, Store, probes>>

-----------------------------------------------------------------------------
(* Stop.                                                                   *)

WrongSignal ==
  /\ Alive
  /\ phase' = "stopping" /\ listening' = FALSE
  /\ early' = (early \/ sync = "first")
  /\ UNCHANGED <<exit, chain, sync, interval, probes, at>>

\* shutdown, on SIGTERM and SIGINT, however often: no more requests, no
\* more syncs but the one under way, no more polls of the balance.
Signal ==
  /\ Alive
  /\ phase' = "stopping" /\ listening' = FALSE
  /\ interval' = FALSE
  /\ early' = (early \/ sync = "first")
  /\ UNCHANGED <<exit, chain, sync, probes, at>>

Waiting ==
  \/ sync # "none" \/ interval \/ chain = "asked" \/ probes = "under way"
  \/ \E r \in Requests : at[r] # "idle"

Exits == phase = "stopping" /\ ~Waiting /\ Ends("clean")

\* Ten seconds after the signal.
Forced == phase = "stopping" /\ Waiting /\ Ends("forced")

RequestStep(r) ==
  Ready(r) \/ SyncWaited(r) \/ Answered(r) \/ Diag(r) \/ Probed(r) \/ HangsUp(r)

Next ==
  \/ ChainIdPasses \/ ChainIdFails \/ SyncEnds \/ IntervalFires
  \/ \E r \in Requests : RequestStep(r)
  \/ ProbesEnd \/ ProbesExpire
  \/ Signal \/ Exits \/ Forced

Spec == Init /\ [][Next]_vars

\* Timers fire: the ten seconds of the shutdown, the ten and the eight of a
\* health request; a sync ends (EventStore); the process ends when it can.
FairSpec ==
  /\ Spec
  /\ WF_vars(Exits \/ Forced)
  /\ \A r \in Requests : WF_vars(SyncWaited(r)) /\ WF_vars(Answered(r))

-----------------------------------------------------------------------------
(* Properties.                                                             *)

\* Types.
TypeOK ==
  /\ phase \in {"running", "stopping", "exited"}
  /\ exit \in {"none", "clean", "forced", "wrong chain"}
  /\ chain \in {"asked", "right"} /\ listening \in BOOLEAN
  /\ sync \in {"first", "under way", "none"} /\ interval \in BOOLEAN /\ early \in BOOLEAN
  /\ probes \in {"none", "under way", "done"}
  /\ at \in [Requests -> Places]

\* A process that was told to stop keeps no timer that would hold it, but
\* for one whose signal came during its first sync: that one sets its
\* interval after stop() and has to be forced out.
StopLeavesNothing == phase = "stopping" /\ interval => early

Stopping == phase = "stopping"
Asked(r) == at[r] \in {"syncing", "asking"}

\* A process that was told to stop ends.
StopEnds == Stopping ~> ~Stopping

\* "so the whole probe stays well under the 30 s an uptime monitor
\* typically allows": a health request is answered, or dies with the
\* process, also when the store or the chain does not answer.
ReadyIsAnswered == \A r \in Requests : Asked(r) ~> ~Asked(r)
=============================================================================
