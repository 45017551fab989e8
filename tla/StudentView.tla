---------------------------- MODULE StudentView -----------------------------
(***************************************************************************)
(* What a student sees of the points: the data of pages/points.tsx, the    *)
(* PointsExplorer below it, GET /points/:wallet of routes/points.ts, which *)
(* puts the history of the event store beside a total read live, and the   *)
(* reads of hooks/use-blockchain.ts.  Every award is one point; the RPCs   *)
(* are taken to agree on the head of the chain.                            *)
(***************************************************************************)
EXTENDS Integers

CONSTANTS
  Wallets, NoWallet,
  Requests,      \* requests for points that may be under way
  MaxPoints      \* bound on a wallet's points

VARIABLES
  points,        \* wallet -> its points on the chain
  awards,        \* wallet -> how often the chain awarded it a point
  stored,        \* wallet -> its awards in the event store
  ready,         \* the store is ready (isReady)
  wallet,        \* the wallet in the browser
  total,         \* totalPoints: [wallet, n]
  history,       \* [wallet, n]: its entries, a point each
  found,         \* the explorer: [wallet, n, entries]
  request        \* request -> [step, by, wallet, entries, n]

chain == <<points, awards, stored, ready>>
page == <<wallet, total, history, found>>
vars == <<chain, page, request>>

None == [wallet |-> NoWallet, n |-> 0]
NotFound == [wallet |-> NoWallet, n |-> 0, entries |-> 0]
NoRequest == [step |-> "none", by |-> "page", wallet |-> NoWallet, entries |-> 0, n |-> 0]

Init ==
  /\ points = [w \in Wallets |-> 0] /\ awards = points /\ stored = points
  /\ ready \in BOOLEAN
  /\ wallet = NoWallet /\ total = None /\ history = None
  /\ found = NotFound
  /\ request = [r \in Requests |-> NoRequest]

-----------------------------------------------------------------------------
(* The chain and the event store.                                          *)

Award(w) ==
  /\ awards[w] < MaxPoints
  /\ points' = [points EXCEPT ![w] = @ + 1] /\ awards' = [awards EXCEPT ![w] = @ + 1]
  /\ UNCHANGED <<stored, ready, page, request>>

\* removePoints: the history keeps the award.
Revoke(w) ==
  /\ points[w] > 0
  /\ points' = [points EXCEPT ![w] = @ - 1]
  /\ UNCHANGED <<awards, stored, ready, page, request>>

Sync ==
  /\ stored # awards \/ ~ready
  /\ stored' = awards /\ ready' = TRUE
  /\ UNCHANGED <<points, awards, page, request>>

-----------------------------------------------------------------------------
(* GET /points/:wallet.                                                    *)

Asks(r, by, w) ==
  /\ request[r] = NoRequest
  /\ request' = [request EXCEPT ![r] = [NoRequest EXCEPT !.step = "asked", !.by = by, !.wallet = w]]

\* getPointsAwardedByWallet, getPointsAwardedEvents
FromStore(w) == stored[w]
FromChain(w) == awards[w]

\* The history: the event store's, or before it is ready the chain's.
RouteLists(r) ==
  /\ request[r].step = "asked"
  /\ \E n \in 0 .. MaxPoints :
       /\ n = IF ready THEN FromStore(request[r].wallet) ELSE FromChain(request[r].wallet)
       /\ request' = [request EXCEPT ![r] = [request[r] EXCEPT !.step = "listed", !.entries = n]]
  /\ UNCHANGED <<chain, page>>

WrongRouteTotals(r) ==
  /\ request[r].step = "listed"
  /\ request' = [request EXCEPT ![r] =
       [request[r] EXCEPT !.step = "answered", !.n = request[r].entries,
                          !.entries = awards[request[r].wallet]]]
  /\ UNCHANGED <<chain, page>>

\* Then the total, live.
RouteTotals(r) ==
  /\ request[r].step = "listed"
  /\ request' = [request EXCEPT ![r] =
       [request[r] EXCEPT !.step = "answered", !.n = points[request[r].wallet]]]
  /\ UNCHANGED <<chain, page>>

-----------------------------------------------------------------------------
(* The page.                                                               *)

\* A wallet is created, imported over another one, or connected: the effect
\* fetches its data.
Loads(r, w) ==
  /\ wallet # w /\ wallet' = w
  /\ Asks(r, "page", w)
  /\ UNCHANGED <<chain, total, history, found>>

\* resetWalletState.
Reset ==
  /\ wallet # NoWallet /\ wallet' = NoWallet
  /\ total' = None /\ history' = None
  /\ UNCHANGED <<chain, found, request>>

\* The answer is shown, whatever wallet is there by now.
Loaded(r) ==
  /\ request[r].step = "answered" /\ request[r].by = "page"
  /\ total' = [wallet |-> request[r].wallet, n |-> request[r].n]
  /\ history' = [wallet |-> request[r].wallet, n |-> request[r].entries]
  /\ request' = [request EXCEPT ![r] = NoRequest]
  /\ UNCHANGED <<chain, wallet, found>>

\* The search of the explorer.
Explore(r, w) ==
  /\ Asks(r, "explorer", w)
  /\ UNCHANGED <<chain, page>>

Explored(r) ==
  /\ request[r].step = "answered" /\ request[r].by = "explorer"
  /\ found' = [wallet |-> request[r].wallet, n |-> request[r].n, entries |-> request[r].entries]
  /\ request' = [request EXCEPT ![r] = NoRequest]
  /\ UNCHANGED <<chain, wallet, total, history>>

Fails(r) ==
  /\ request[r] # NoRequest
  /\ request' = [request EXCEPT ![r] = NoRequest]
  /\ UNCHANGED <<chain, page>>

\* What PointsOverview, ClaimHistory and PointsExplorer show.
Overview == total.n
ClaimHistory == history.n
Explorer == [n |-> found.n, entries |-> found.entries]

Next ==
  \/ \E w \in Wallets : Award(w) \/ Revoke(w)
  \/ Sync \/ Reset
  \/ \E r \in Requests :
       \/ RouteLists(r) \/ RouteTotals(r) \/ Loaded(r) \/ Explored(r) \/ Fails(r)
       \/ \E w \in Wallets : Loads(r, w) \/ Explore(r, w)

Spec == Init /\ [][Next]_vars

-----------------------------------------------------------------------------
(* Properties.                                                             *)

Amounts == 0 .. MaxPoints
Somebody == Wallets \union {NoWallet}

\* Types.
TypeOK ==
  /\ points \in [Wallets -> Amounts] /\ stored \in [Wallets -> Amounts]
  /\ awards \in [Wallets -> Amounts] /\ ready \in BOOLEAN
  /\ wallet \in Somebody
  /\ total \in [wallet : Somebody, n : Amounts] /\ history \in [wallet : Somebody, n : Amounts]
  /\ found \in [wallet : Somebody, n : Amounts, entries : Amounts]
  /\ request \in [Requests -> [step : {"none", "asked", "listed", "answered"},
                               by : {"page", "explorer"}, wallet : Somebody,
                               entries : Amounts, n : Amounts]]

Revoked(w) == w \in Wallets /\ points[w] < awards[w]

\* Total and history stand side by side, are of the same wallet, and the
\* total covers the history unless a point was revoked: though the store
\* behind the one lags behind the chain behind the other, and points are
\* awarded while the answer is put together.
TotalCoversHistory ==
  /\ total.wallet = history.wallet
  /\ ClaimHistory <= Overview \/ Revoked(total.wallet)
  /\ Explorer.entries <= Explorer.n \/ Revoked(found.wallet)
=============================================================================
