----------------------------- MODULE PageProofs ------------------------------
(***************************************************************************)
(* What the pages promise, for every value of their constants.  Every page *)
(* is an instance with variables of its own.  Each section has the         *)
(* inductive invariant behind the promise, the lemma that a step keeps it, *)
(* one case per action, and what follows from it.  Instances bring no      *)
(* assumptions along: what a theorem needs of the constants is its         *)
(* hypothesis.                                                             *)
(***************************************************************************)
EXTENDS FiniteSetTheorems, WellFoundedInduction, TLAPS

LEMMA FirstNumbers ==
  ASSUME NEW n \in Nat
  PROVE  IsFiniteSet(1 .. n) /\ Cardinality(1 .. n) = n
BY FS_Interval

-----------------------------------------------------------------------------
(* StudentView: the total covers the history unless a point was revoked.    *)
(* Behind it: the history a request has listed is no more than what the     *)
(* chain has awarded by now, and points fall short of that by revocations   *)
(* alone, for good.                                                         *)

CONSTANTS Students, NoStudent, PointReads, MaxPoints
VARIABLES points, awards, stored, ready, student, total, history, found, request

View == INSTANCE StudentView WITH
  Wallets <- Students, NoWallet <- NoStudent, Requests <- PointReads, wallet <- student

ViewAssumption == MaxPoints \in Nat

\* What a request holds; an answer is of one wallet, and covered.
RequestInv(q) ==
  /\ q \in [step : {"none", "asked", "listed", "answered"}, by : {"page", "explorer"},
            wallet : View!Somebody, entries : View!Amounts, n : View!Amounts]
  /\ q.step # "none" => q.wallet \in Students
  /\ q.step = "listed" => q.entries <= awards[q.wallet]
  /\ q.step = "answered" => q.entries <= q.n \/ View!Revoked(q.wallet)

ChainInv ==
  /\ points \in [Students -> View!Amounts] /\ stored \in [Students -> View!Amounts]
  /\ awards \in [Students -> View!Amounts] /\ ready \in BOOLEAN
  /\ \A w \in Students : points[w] <= awards[w] /\ stored[w] <= awards[w]

PageInv ==
  /\ student \in View!Somebody
  /\ total \in [wallet : View!Somebody, n : View!Amounts]
  /\ history \in [wallet : View!Somebody, n : View!Amounts]
  /\ found \in [wallet : View!Somebody, n : View!Amounts, entries : View!Amounts]
  /\ View!TotalCoversHistory

RequestsInv ==
  /\ request = [r \in PointReads |-> request[r]]
  /\ \A r \in PointReads : RequestInv(request[r])

ViewInv == ChainInv /\ PageInv /\ RequestsInv

LEMMA ViewInit == ASSUME ViewAssumption, View!Init PROVE ViewInv
<1>1. 0 \in View!Amounts /\ NoStudent \in View!Somebody /\ 0 <= 0
  BY DEF ViewAssumption, View!Amounts, View!Somebody
<1>2. ChainInv
  BY <1>1 DEF View!Init, ChainInv
<1>3. PageInv
  BY <1>1 DEF View!Init, PageInv, View!None, View!NotFound, View!TotalCoversHistory,
     View!ClaimHistory, View!Overview, View!Explorer
<1>4. RequestInv(View!NoRequest)
  BY <1>1 DEF RequestInv, View!NoRequest
<1>5. RequestsInv
  BY <1>4 DEF View!Init, RequestsInv
<1> QED
  BY <1>2, <1>3, <1>5 DEF ViewInv

(* The chain awards and revokes: what fell short stays short, and what the  *)
(* chain has awarded only grows.                                            *)
ChainMoves ==
  /\ \A w \in Students : View!Revoked(w) => View!Revoked(w)'
  /\ \A w \in Students : awards[w] \in View!Amounts /\ awards'[w] \in View!Amounts
                         /\ awards[w] <= awards'[w]

LEMMA AmountsAreNumbers == View!Amounts \subseteq Int
  BY DEF View!Amounts

LEMMA RequestKept ==
  ASSUME ChainMoves, NEW q, RequestInv(q)
  PROVE  RequestInv(q)'
<1>1. q.step = "listed" => q.entries <= awards'[q.wallet]
  <2> SUFFICES ASSUME q.step = "listed" PROVE q.entries <= awards'[q.wallet]
    OBVIOUS
  <2>1. /\ q.wallet \in Students /\ q.entries \in View!Amounts /\ q.entries <= awards[q.wallet]
        /\ awards[q.wallet] \in View!Amounts /\ awards'[q.wallet] \in View!Amounts
        /\ awards[q.wallet] <= awards'[q.wallet]
    BY DEF RequestInv, ChainMoves
  <2> QED
    BY <2>1 DEF View!Amounts
<1> QED
  BY <1>1 DEF RequestInv, ChainMoves, View!Somebody, View!Amounts

LEMMA ScreenKept ==
  ASSUME PageInv, ChainMoves, UNCHANGED View!page
  PROVE  PageInv'
<1>1. \A w : View!Revoked(w) => View!Revoked(w)'
  BY DEF ChainMoves, View!Revoked
<1> QED
  BY <1>1 DEF PageInv, View!page, View!TotalCoversHistory, View!ClaimHistory, View!Overview,
     View!Explorer, View!Somebody, View!Amounts

\* Awards, revocations and the sync of the store.
LEMMA ChainStep ==
  ASSUME ViewAssumption, ViewInv,
         \/ \E w \in Students : View!Award(w) \/ View!Revoke(w)
         \/ View!Sync
  PROVE  ViewInv'
<1> USE DEF ViewInv, ChainInv
<1>1. UNCHANGED View!page /\ UNCHANGED request
  BY DEF View!Award, View!Revoke, View!Sync
<1>2. /\ \A w \in Students : /\ points[w] \in View!Amounts /\ awards[w] \in View!Amounts
                             /\ stored[w] \in View!Amounts
      /\ View!Amounts = 0 .. MaxPoints
  BY DEF View!Amounts
<1>3. ChainInv' /\ ChainMoves
  <2>1. ASSUME NEW w \in Students, View!Award(w) PROVE ChainInv' /\ ChainMoves
    <3>1. points[w] <= awards[w] /\ awards[w] < MaxPoints
      BY <2>1 DEF View!Award
    <3>2. points[w] + 1 \in View!Amounts /\ awards[w] + 1 \in View!Amounts
      BY <1>2, <3>1 DEF ViewAssumption
    <3>3. /\ \A v \in Students \ {w} : points'[v] = points[v] /\ awards'[v] = awards[v]
          /\ points'[w] = points[w] + 1 /\ awards'[w] = awards[w] + 1
          /\ stored' = stored /\ ready' = ready
      BY <2>1 DEF View!Award
    <3>4. points' \in [Students -> View!Amounts] /\ awards' \in [Students -> View!Amounts]
      BY <2>1, <3>2 DEF View!Award
    <3>5. /\ points[w] + 1 <= awards[w] + 1 /\ stored[w] <= awards[w] + 1
          /\ awards[w] <= awards[w] + 1 /\ (points[w] < awards[w] => points[w] + 1 < awards[w] + 1)
      BY <1>2, <3>1
    <3>6. ChainInv'
      BY <3>3, <3>4, <3>5 DEF View!Amounts
    <3>7. \A v \in Students : awards[v] <= awards[v]
      BY <1>2
    <3>8. ChainMoves
      BY <1>2, <3>2, <3>3, <3>5, <3>7 DEF ChainMoves, View!Revoked
    <3> QED
      BY <3>6, <3>8
  <2>2. ASSUME NEW w \in Students, View!Revoke(w) PROVE ChainInv' /\ ChainMoves
    <3>1. /\ \A v \in Students \ {w} : points'[v] = points[v]
          /\ points'[w] = points[w] - 1 /\ points[w] > 0
          /\ awards' = awards /\ stored' = stored /\ ready' = ready
      BY <2>2 DEF View!Revoke
    <3>2. /\ points[w] - 1 \in View!Amounts /\ points[w] - 1 <= awards[w]
          /\ points[w] - 1 < awards[w]
      <4>1. points[w] \in 0 .. MaxPoints /\ awards[w] \in 0 .. MaxPoints /\ MaxPoints \in Nat
            /\ points[w] <= awards[w] /\ points[w] > 0
        BY <1>2, <3>1 DEF ViewAssumption
      <4> QED
        BY <1>2, <4>1
    <3>3. points' \in [Students -> View!Amounts]
      BY <2>2, <3>2 DEF View!Revoke
    <3>4. ChainInv'
      BY <3>1, <3>2, <3>3 DEF View!Amounts
    <3>5. \A v \in Students : awards[v] <= awards[v]
      BY <1>2
    <3>6. ChainMoves
      BY <1>2, <3>1, <3>2, <3>5 DEF ChainMoves, View!Revoked
    <3> QED
      BY <3>4, <3>6
  <2>3. CASE View!Sync
    <3>1. points' = points /\ awards' = awards /\ stored' = awards /\ ready' = TRUE
      BY <2>3 DEF View!Sync
    <3>2. \A v \in Students : awards[v] <= awards[v]
      BY <1>2
    <3> QED
      BY <1>2, <3>1, <3>2 DEF ChainMoves, View!Revoked, View!Amounts
  <2> QED
    BY <2>1, <2>2, <2>3
<1>4. RequestsInv'
  BY <1>1, <1>3, RequestKept DEF RequestsInv
<1> QED
  BY <1>1, <1>3, <1>4, ScreenKept

(* A step that leaves the chain alone changes one request.                 *)
LEMMA RequestSet ==
  ASSUME ViewInv, UNCHANGED View!chain, NEW r \in PointReads, NEW q, RequestInv(q),
         request' = [request EXCEPT ![r] = q]
  PROVE  ChainInv' /\ RequestsInv'
<1>1. ChainInv'
  BY DEF ViewInv, ChainInv, View!chain, View!Amounts
<1>2. \A x : RequestInv(x) => RequestInv(x)'
  BY DEF RequestInv, View!chain, View!Revoked, View!Somebody, View!Amounts
<1>3. \A u \in PointReads : request'[u] = IF u = r THEN q ELSE request[u]
  BY DEF ViewInv, RequestsInv
<1>4. request' = [u \in PointReads |-> request'[u]]
  BY DEF ViewInv, RequestsInv
<1>5. \A u \in PointReads : RequestInv(request'[u])
  BY <1>3 DEF ViewInv, RequestsInv
<1>6. \A u \in PointReads : RequestInv(request[u])'
  BY <1>5 DEF RequestInv, View!chain, View!Revoked, View!Somebody, View!Amounts
<1> QED
  BY <1>1, <1>4, <1>6 DEF RequestsInv


\* GET /points/:wallet: the history, then the total, live.
LEMMA RouteStep ==
  ASSUME ViewAssumption, ViewInv, NEW r \in PointReads, View!RouteLists(r) \/ View!RouteTotals(r)
  PROVE  ViewInv'
<1> DEFINE q == request[r]
<1>1. RequestInv(q) /\ UNCHANGED View!chain /\ UNCHANGED View!page
  BY DEF ViewInv, RequestsInv, View!RouteLists, View!RouteTotals
<1>2. \A w \in Students : /\ points[w] \in View!Amounts /\ awards[w] \in View!Amounts
                          /\ stored[w] \in View!Amounts /\ points[w] <= awards[w]
                          /\ stored[w] <= awards[w] /\ awards[w] <= awards[w]
  BY DEF ViewInv, ChainInv, View!Amounts
<1>3. PICK next : RequestInv(next) /\ request' = [request EXCEPT ![r] = next]
  <2>1. CASE View!RouteLists(r)
    <3>1. PICK n \in 0 .. MaxPoints :
            /\ n = (IF ready THEN View!FromStore(q.wallet) ELSE View!FromChain(q.wallet))
            /\ request' = [request EXCEPT ![r] = [q EXCEPT !.step = "listed", !.entries = n]]
      BY <2>1 DEF View!RouteLists
    <3>2. q.step = "asked" /\ q.wallet \in Students /\ n \in View!Amounts
      BY <1>1, <2>1 DEF View!RouteLists, RequestInv, View!Amounts
    <3>3. n <= awards[q.wallet]
      BY <1>2, <3>1, <3>2 DEF View!FromStore, View!FromChain
    <3>4. RequestInv([q EXCEPT !.step = "listed", !.entries = n])
      BY <1>1, <3>2, <3>3 DEF RequestInv
    <3> QED
      BY <3>1, <3>4
  <2>2. CASE View!RouteTotals(r)
    <3>1. request' = [request EXCEPT ![r] = [q EXCEPT !.step = "answered", !.n = points[q.wallet]]]
      BY <2>2 DEF View!RouteTotals
    <3>2. q.step = "listed" /\ q.wallet \in Students /\ q.entries <= awards[q.wallet]
          /\ q.entries \in View!Amounts
      BY <1>1, <2>2 DEF View!RouteTotals, RequestInv
    <3>3. q.entries <= points[q.wallet] \/ View!Revoked(q.wallet)
      BY <1>2, <3>2 DEF View!Revoked, View!Amounts
    <3>4. RequestInv([q EXCEPT !.step = "answered", !.n = points[q.wallet]])
      BY <1>1, <1>2, <3>2, <3>3 DEF RequestInv
    <3> QED
      BY <3>1, <3>4
  <2> QED
    BY <2>1, <2>2
<1>4. ChainInv' /\ RequestsInv'
  BY <1>1, <1>3, RequestSet
<1>5. PageInv'
  BY <1>1 DEF ViewInv, PageInv, View!page, View!chain, View!TotalCoversHistory, View!ClaimHistory,
     View!Overview, View!Explorer, View!Revoked, View!Somebody, View!Amounts
<1> QED
  BY <1>4, <1>5 DEF ViewInv

\* Asking, and giving up.
LEMMA AskStep ==
  ASSUME ViewAssumption, ViewInv, NEW r \in PointReads,
         \/ \E w \in Students : View!Loads(r, w) \/ View!Explore(r, w)
         \/ View!Fails(r)
  PROVE  ViewInv'
<1>1. UNCHANGED View!chain /\ UNCHANGED <<total, history, found>> /\ student' \in View!Somebody
  BY DEF View!Loads, View!Explore, View!Fails, View!page, View!Somebody, ViewInv, PageInv
<1>2. 0 \in View!Amounts /\ NoStudent \in View!Somebody
  BY DEF ViewAssumption, View!Amounts, View!Somebody
<1>3. RequestInv(View!NoRequest)
  BY <1>2 DEF RequestInv, View!NoRequest
<1>4. PICK next : RequestInv(next) /\ request' = [request EXCEPT ![r] = next]
  <2>1. ASSUME NEW w \in Students, NEW by \in {"page", "explorer"}, View!Asks(r, by, w)
        PROVE  \E q : RequestInv(q) /\ request' = [request EXCEPT ![r] = q]
    <3>1. RequestInv([View!NoRequest EXCEPT !.step = "asked", !.by = by, !.wallet = w])
      BY <1>2 DEF RequestInv, View!NoRequest, View!Somebody
    <3> QED
      BY <2>1, <3>1 DEF View!Asks
  <2> QED
    BY <1>3, <2>1 DEF View!Loads, View!Explore, View!Fails
<1>5. ChainInv' /\ RequestsInv'
  BY <1>1, <1>4, RequestSet
<1>6. PageInv'
  BY <1>1 DEF ViewInv, PageInv, View!chain, View!TotalCoversHistory, View!ClaimHistory,
     View!Overview, View!Explorer, View!Revoked, View!Somebody, View!Amounts
<1> QED
  BY <1>5, <1>6 DEF ViewInv

\* An answer is shown.
LEMMA ShowStep ==
  ASSUME ViewAssumption, ViewInv, NEW r \in PointReads, View!Loaded(r) \/ View!Explored(r)
  PROVE  ViewInv'
<1> DEFINE q == request[r]
<1>1. /\ UNCHANGED View!chain /\ student' = student
      /\ request' = [request EXCEPT ![r] = View!NoRequest]
  BY DEF View!Loaded, View!Explored
<1>2. 0 \in View!Amounts /\ NoStudent \in View!Somebody
  BY DEF ViewAssumption, View!Amounts, View!Somebody
<1>3. RequestInv(View!NoRequest)
  BY <1>2 DEF RequestInv, View!NoRequest
<1>4. ChainInv' /\ RequestsInv'
  BY <1>1, <1>3, RequestSet
<1>5. /\ q.wallet \in Students /\ q.n \in View!Amounts /\ q.entries \in View!Amounts
      /\ q.entries <= q.n \/ View!Revoked(q.wallet)
  BY DEF ViewInv, RequestsInv, RequestInv, View!Loaded, View!Explored
<1>6. CASE View!Loaded(r)
  <2>1. /\ total' = [wallet |-> q.wallet, n |-> q.n] /\ found' = found
        /\ history' = [wallet |-> q.wallet, n |-> q.entries]
    BY <1>6 DEF View!Loaded
  <2>2. View!TotalCoversHistory'
    BY <1>1, <1>5, <2>1 DEF ViewInv, PageInv, View!TotalCoversHistory, View!ClaimHistory,
       View!Overview, View!Explorer, View!Revoked, View!chain
  <2> HIDE DEF q
  <2>3. PageInv'
    BY <1>1, <1>5, <2>1, <2>2 DEF ViewInv, PageInv, View!Somebody, View!Amounts
  <2> QED
    BY <1>4, <2>3 DEF ViewInv
<1>7. CASE View!Explored(r)
  <2>1. /\ total' = total /\ history' = history
        /\ found' = [wallet |-> q.wallet, n |-> q.n, entries |-> q.entries]
    BY <1>7 DEF View!Explored
  <2>2. View!TotalCoversHistory'
    BY <1>1, <1>5, <2>1 DEF ViewInv, PageInv, View!TotalCoversHistory, View!ClaimHistory,
       View!Overview, View!Explorer, View!Revoked, View!chain
  <2> HIDE DEF q
  <2>3. PageInv'
    BY <1>1, <1>5, <2>1, <2>2 DEF ViewInv, PageInv, View!Somebody, View!Amounts
  <2> QED
    BY <1>4, <2>3 DEF ViewInv
<1> QED
  BY <1>6, <1>7

LEMMA ResetStep == ASSUME ViewAssumption, ViewInv, View!Reset PROVE ViewInv'
<1>1. 0 \in View!Amounts /\ NoStudent \in View!Somebody /\ 0 <= 0
  BY DEF ViewAssumption, View!Amounts, View!Somebody
<1>2. ChainInv'
  BY DEF ViewInv, ChainInv, View!Reset, View!chain, View!Amounts
<1>3. RequestsInv'
  BY DEF ViewInv, RequestsInv, RequestInv, View!Reset, View!chain, View!Revoked, View!Somebody,
     View!Amounts
<1>4. PageInv'
  BY <1>1 DEF ViewInv, PageInv, View!Reset, View!chain, View!None, View!TotalCoversHistory,
     View!ClaimHistory, View!Overview, View!Explorer, View!Revoked, View!Somebody, View!Amounts
<1> QED
  BY <1>2, <1>3, <1>4 DEF ViewInv

LEMMA ViewStep ==
  ASSUME ViewAssumption, ViewInv, [View!Next]_View!vars
  PROVE  ViewInv'
<1>1. CASE UNCHANGED View!vars
  <2>1. ChainInv'
    BY <1>1 DEF ViewInv, ChainInv, View!vars, View!chain, View!Amounts
  <2>2. RequestsInv'
    BY <1>1 DEF ViewInv, RequestsInv, RequestInv, View!vars, View!chain, View!Revoked,
       View!Somebody, View!Amounts
  <2>3. PageInv'
    BY <1>1 DEF ViewInv, PageInv, View!vars, View!chain, View!page, View!TotalCoversHistory,
       View!ClaimHistory, View!Overview, View!Explorer, View!Revoked, View!Somebody, View!Amounts
  <2> QED
    BY <2>1, <2>2, <2>3 DEF ViewInv
<1> QED
  BY <1>1, ChainStep, RouteStep, AskStep, ShowStep, ResetStep DEF View!Next

LEMMA ViewFollows == ASSUME ViewInv PROVE View!TypeOK /\ View!TotalCoversHistory
<1>1. request \in [PointReads -> [step : {"none", "asked", "listed", "answered"},
                              by : {"page", "explorer"}, wallet : View!Somebody,
                              entries : View!Amounts, n : View!Amounts]]
  BY DEF ViewInv, RequestsInv, RequestInv
<1> QED
  BY <1>1 DEF ViewInv, ChainInv, PageInv, View!TypeOK

(* Though the store behind the history lags behind the chain behind the     *)
(* total, and points are awarded while the answer is put together, the      *)
(* total covers the history of the same wallet, unless a point was revoked. *)
THEOREM TotalStaysCovering ==
  ASSUME ViewAssumption
  PROVE  View!Spec => [](View!TypeOK /\ View!TotalCoversHistory)
<1>1. View!Init => ViewInv
  BY ViewInit
<1>2. ViewInv /\ [View!Next]_View!vars => ViewInv'
  BY ViewStep
<1>3. ViewInv => View!TypeOK /\ View!TotalCoversHistory
  BY ViewFollows
<1> QED
  BY <1>1, <1>2, <1>3, PTL DEF View!Spec

-----------------------------------------------------------------------------
(* ClaimPage: a claim the page calls successful was paid, by its own link.  *)
(* Behind it: what a page waits for is the claim it sent with its link, an  *)
(* answer of success follows the payment, and no payment is undone.         *)

CONSTANTS Pages, ClaimLinks, Wallets, Selectable, Claims, Nothing
VARIABLES
  link, pageWallet, selected, currentStep, loading, error, signing, waiting, claim, served,
  spent, paid

Claim == INSTANCE ClaimPage WITH
  Links <- ClaimLinks, Accounts <- Selectable, wallet <- pageWallet

ClaimAssumption == Nothing \notin Claims /\ Nothing \notin Wallets /\ Selectable \subseteq Wallets

ServedSteps == {"unsent", "sent", "accepted", "unsure", "ok", "refused"}

PageTypes ==
  /\ link \in [Pages -> ClaimLinks]
  /\ pageWallet \in [Pages -> Wallets \union {Nothing}]
  /\ selected \in Selectable
  /\ currentStep \in [Pages -> {"wallet", "sign", "submit", "done"}]
  /\ loading \in [Pages -> BOOLEAN] /\ error \in [Pages -> BOOLEAN]
  /\ signing \in [Pages -> Wallets \union {Nothing}]
  /\ waiting \in [Pages -> Claims \union {Nothing}]

\* A page that is loading either has its claim signed or waits for the
\* answer.
LoadingInv ==
  \A p \in Pages :
    /\ loading[p] <=> signing[p] # Nothing \/ waiting[p] # Nothing
    /\ signing[p] = Nothing \/ waiting[p] = Nothing

SentClaims == [link : ClaimLinks, wallet : Wallets, signer : Wallets]

ServerInv ==
  /\ claim \in [Claims -> SentClaims \union {Claim!Unsent}]
  /\ served \in [Claims -> ServedSteps]
  /\ spent \in [ClaimLinks -> Wallets \union {Nothing}]
  /\ paid \subseteq ClaimLinks \X Wallets
  /\ \A c \in Claims : served[c] # "unsent" => claim[c] \in SentClaims
  /\ \A c \in Claims : served[c] = "ok" => <<claim[c].link, claim[c].wallet>> \in paid

WaitingInv ==
  \A p \in Pages :
    waiting[p] # Nothing => served[waiting[p]] # "unsent" /\ claim[waiting[p]].link = link[p]

ClaimInv == PageTypes /\ LoadingInv /\ ServerInv /\ WaitingInv

LEMMA ClaimInit == ASSUME ClaimAssumption, Claim!Init PROVE ClaimInv
<1>1. PageTypes /\ LoadingInv /\ WaitingInv
  BY DEF Claim!Init, PageTypes, LoadingInv, WaitingInv
<1>2. ServerInv
  BY DEF Claim!Init, Claim!Ledger!Init, ServerInv, ServedSteps
<1> QED
  BY <1>1, <1>2 DEF ClaimInv

(* The steps of a page, with what they say of success.                     *)
Promise == Claim!PaidWhenShown

LEMMA ServerStays ==
  ASSUME ServerInv, UNCHANGED <<claim, served, spent, paid>>
  PROVE  ServerInv'
  BY DEF ServerInv, SentClaims, ServedSteps, Claim!Unsent

LEMMA PageStepKeeps ==
  ASSUME ClaimAssumption, ClaimInv, NEW p \in Pages,
         \/ \E w \in Wallets : Claim!WalletThere(p, w)
         \/ Claim!Submit(p) \/ Claim!SignFails(p) \/ Claim!AnswerLost(p) \/ Claim!Reload(p)
  PROVE  ClaimInv' /\ Promise
<1>1. UNCHANGED <<link, selected, Claim!serverVars>>
  BY DEF Claim!WalletThere, Claim!Submit, Claim!SignFails, Claim!AnswerLost, Claim!Reload,
     Claim!serverVars
<1>2. PageTypes'
  <2> USE <1>1 DEF ClaimInv, PageTypes
  <2>1. ASSUME NEW w \in Wallets, Claim!WalletThere(p, w) PROVE PageTypes'
    BY <2>1 DEF Claim!WalletThere
  <2>2. CASE Claim!Submit(p)
    BY <2>2 DEF Claim!Submit
  <2>3. CASE Claim!SignFails(p) \/ Claim!AnswerLost(p)
    BY <2>3 DEF Claim!SignFails, Claim!AnswerLost, Claim!Failed
  <2>4. CASE Claim!Reload(p)
    BY <2>4 DEF Claim!Reload
  <2> QED
    BY <2>1, <2>2, <2>3, <2>4
<1>3. LoadingInv'
  BY DEF ClaimInv, PageTypes, LoadingInv, Claim!WalletThere, Claim!Submit, Claim!SignFails,
     Claim!AnswerLost, Claim!Reload, Claim!Failed
<1>4. waiting' = waiting \/ waiting' = [waiting EXCEPT ![p] = Nothing]
  BY DEF Claim!WalletThere, Claim!Submit, Claim!SignFails, Claim!AnswerLost, Claim!Reload
<1>5. WaitingInv'
  BY <1>1, <1>4 DEF ClaimInv, PageTypes, WaitingInv, Claim!serverVars
<1>6. currentStep' = currentStep \/
        \E s \in {"wallet", "sign"} : currentStep' = [currentStep EXCEPT ![p] = s]
  BY DEF Claim!WalletThere, Claim!Submit, Claim!SignFails, Claim!AnswerLost, Claim!Reload,
     Claim!Failed
<1>7. Promise
  BY <1>6 DEF ClaimInv, PageTypes, Promise, Claim!PaidWhenShown, Claim!SuccessShown
<1>8. ServerInv'
  BY <1>1, ServerStays DEF ClaimInv, Claim!serverVars
<1> QED
  BY <1>2, <1>3, <1>5, <1>7, <1>8 DEF ClaimInv

LEMMA SendKeeps ==
  ASSUME ClaimAssumption, ClaimInv, NEW p \in Pages, NEW c \in Claims, Claim!Send(p, c)
  PROVE  ClaimInv' /\ Promise
<1> DEFINE new == [link |-> link[p], wallet |-> signing[p], signer |-> Claim!Signer(p)]
<1>1. /\ signing[p] \in Wallets /\ link[p] \in ClaimLinks /\ waiting[p] = Nothing
      /\ served[c] = "unsent"
      /\ Claim!Signer(p) \in Wallets /\ c # Nothing
  BY DEF Claim!Send, ClaimInv, PageTypes, LoadingInv, ClaimAssumption, Claim!Signer
<1>2. new \in SentClaims /\ new.link = link[p]
  BY <1>1 DEF SentClaims
<1>3. /\ claim' = [claim EXCEPT ![c] = new] /\ served' = [served EXCEPT ![c] = "sent"]
      /\ UNCHANGED <<link, pageWallet, loading, error, selected, spent, paid>>
      /\ waiting' = [waiting EXCEPT ![p] = c] /\ signing' = [signing EXCEPT ![p] = Nothing]
      /\ currentStep' = [currentStep EXCEPT ![p] = "submit"]
  BY DEF Claim!Send
<1> HIDE DEF new
<1>4. PageTypes' /\ LoadingInv'
  <2>1. PageTypes'
    BY <1>1, <1>3 DEF ClaimInv, PageTypes
  <2>2. loading[p]
    BY <1>1, <1>3 DEF ClaimInv, LoadingInv, Claim!Send
  <2>3. LoadingInv'
    BY <1>1, <1>3, <2>2 DEF ClaimInv, PageTypes, LoadingInv
  <2> QED
    BY <2>1, <2>3
<1>5. /\ claim'[c] = new /\ served'[c] = "sent"
      /\ \A d \in Claims \ {c} : claim'[d] = claim[d] /\ served'[d] = served[d]
      /\ claim' \in [Claims -> SentClaims \union {Claim!Unsent}]
      /\ served' \in [Claims -> ServedSteps]
  BY <1>2, <1>3 DEF ClaimInv, ServerInv, ServedSteps
<1>6. ServerInv'
  <2>1. \A d \in Claims : served'[d] # "unsent" => claim'[d] \in SentClaims
    BY <1>2, <1>5 DEF ClaimInv, ServerInv
  <2>2. \A d \in Claims : served'[d] = "ok" => <<claim'[d].link, claim'[d].wallet>> \in paid'
    BY <1>3, <1>5 DEF ClaimInv, ServerInv
  <2> QED
    BY <1>3, <1>5, <2>1, <2>2 DEF ClaimInv, ServerInv, SentClaims, Claim!Unsent, ServedSteps
<1>7. WaitingInv'
  <2> SUFFICES ASSUME NEW q \in Pages, waiting'[q] # Nothing
               PROVE  served'[waiting'[q]] # "unsent" /\ claim'[waiting'[q]].link = link'[q]
    BY DEF WaitingInv
  <2>1. CASE q = p
    BY <1>1, <1>2, <1>3, <1>5, <2>1 DEF ClaimInv, PageTypes
  <2>2. CASE q # p
    <3>1. waiting'[q] = waiting[q] /\ waiting[q] \in Claims /\ link'[q] = link[q]
      BY <1>3, <2>2 DEF ClaimInv, PageTypes
    <3>2. served[waiting[q]] # "unsent" /\ claim[waiting[q]].link = link[q]
      BY <3>1 DEF ClaimInv, WaitingInv
    <3> QED
      BY <1>1, <1>5, <3>1, <3>2
  <2> QED
    BY <2>1, <2>2
<1>8. Promise
  BY <1>3 DEF ClaimInv, PageTypes, Promise, Claim!PaidWhenShown, Claim!SuccessShown
<1> QED
  BY <1>4, <1>6, <1>7, <1>8 DEF ClaimInv

LEMMA ArriveKeeps ==
  ASSUME ClaimAssumption, ClaimInv, NEW p \in Pages, Claim!Arrives(p)
  PROVE  ClaimInv' /\ Promise
<1>1. UNCHANGED <<link, pageWallet, signing, selected, Claim!serverVars>>
      /\ waiting[p] \in Claims /\ waiting' = [waiting EXCEPT ![p] = Nothing]
      /\ loading' = [loading EXCEPT ![p] = FALSE]
  BY DEF Claim!Arrives, Claim!Failed, ClaimInv, PageTypes
<1>2. /\ \/ error' = error \/ error' = [error EXCEPT ![p] = TRUE]
      /\ \/ currentStep' = [currentStep EXCEPT ![p] = "sign"]
         \/ currentStep' = [currentStep EXCEPT ![p] = "done"] /\ served[waiting[p]] = "ok"
  BY DEF Claim!Arrives, Claim!Failed
<1>3. PageTypes'
  BY <1>1, <1>2 DEF ClaimInv, PageTypes
<1>4. LoadingInv'
  BY <1>1 DEF ClaimInv, PageTypes, LoadingInv, Claim!Arrives
<1>5. WaitingInv'
  BY <1>1 DEF ClaimInv, PageTypes, WaitingInv, Claim!serverVars
<1>6. Promise
  <2>1. served[waiting[p]] = "ok" => <<link[p], claim[waiting[p]].wallet>> \in paid
    BY <1>1 DEF ClaimInv, ServerInv, WaitingInv, Claim!Arrives
  <2>2. \A q \in Pages \ {p} : currentStep'[q] = currentStep[q]
    BY <1>2 DEF ClaimInv, PageTypes
  <2>3. currentStep'[p] = "done" => served[waiting[p]] = "ok"
    BY <1>2 DEF ClaimInv, PageTypes
  <2> QED
    BY <2>1, <2>2, <2>3 DEF Promise, Claim!PaidWhenShown, Claim!SuccessShown
<1>7. ServerInv'
  BY <1>1, ServerStays DEF ClaimInv, Claim!serverVars
<1> QED
  BY <1>3, <1>4, <1>5, <1>6, <1>7 DEF ClaimInv

LEMMA SwitchKeeps ==
  ASSUME ClaimAssumption, ClaimInv, NEW a \in Selectable, Claim!SwitchAccount(a)
  PROVE  ClaimInv' /\ Promise
<1>1. /\ UNCHANGED <<link, currentStep, loading, error, signing, waiting, Claim!serverVars>>
      /\ selected' = a
      /\ pageWallet' = [p \in Pages |-> IF pageWallet[p] \in Selectable THEN a ELSE pageWallet[p]]
  BY DEF Claim!SwitchAccount
<1>2. PageTypes'
  BY <1>1 DEF ClaimAssumption, ClaimInv, PageTypes
<1>3. LoadingInv' /\ WaitingInv'
  BY <1>1 DEF ClaimInv, LoadingInv, WaitingInv, Claim!serverVars
<1>4. ServerInv'
  BY <1>1, ServerStays DEF ClaimInv, Claim!serverVars
<1>5. Promise
  BY <1>1 DEF Promise, Claim!PaidWhenShown, Claim!SuccessShown
<1> QED
  BY <1>2, <1>3, <1>4, <1>5 DEF ClaimInv

LEMMA ServeKeeps ==
  ASSUME ClaimAssumption, ClaimInv, NEW c \in Claims, Claim!ServerStep(c)
  PROVE  ClaimInv' /\ Promise
<1>1. UNCHANGED Claim!pageVars /\ UNCHANGED <<selected, claim>>
  BY DEF Claim!ServerStep, Claim!Accept, Claim!Refuse, Claim!GiveBack, Claim!Pay, Claim!Confirm,
     Claim!GiveUp
<1>2. /\ served[c] # "unsent" /\ claim[c] \in SentClaims
      /\ \/ served' = served
         \/ \E s \in {"accepted", "refused", "unsure", "ok"} : served' = [served EXCEPT ![c] = s]
      /\ \A d \in Claims : served'[d] = "ok" => <<claim[d].link, claim[d].wallet>> \in paid
  <2>1. served[c] # "unsent" /\ claim[c] \in SentClaims
    BY DEF Claim!ServerStep, Claim!Accept, Claim!Refuse, Claim!GiveBack, Claim!Pay, Claim!Confirm,
       Claim!GiveUp, ClaimInv, ServerInv
  <2>2. CASE Claim!Confirm(c)
    BY <2>1, <2>2 DEF Claim!Confirm, Claim!Answer, ClaimInv, ServerInv
  <2>3. CASE Claim!Pay(c)
    BY <2>1, <2>3 DEF Claim!Pay, ClaimInv, ServerInv
  <2>4. CASE Claim!Accept(c) \/ Claim!Refuse(c) \/ Claim!GiveBack(c) \/ Claim!GiveUp(c)
    <3>1. PICK s \in {"accepted", "refused", "unsure"} : served' = [served EXCEPT ![c] = s]
      BY <2>4 DEF Claim!Accept, Claim!Refuse, Claim!GiveBack, Claim!GiveUp, Claim!Answer
    <3> QED
      BY <2>1, <3>1 DEF ClaimInv, ServerInv
  <2> QED
    BY <2>2, <2>3, <2>4 DEF Claim!ServerStep
<1>3. paid \subseteq paid' /\ paid' \subseteq ClaimLinks \X Wallets
  <2>1. claim[c].link \in ClaimLinks /\ claim[c].wallet \in Wallets
    BY <1>2 DEF SentClaims
  <2> QED
    BY <2>1 DEF Claim!ServerStep, Claim!Accept, Claim!Refuse, Claim!GiveBack, Claim!Pay,
       Claim!Confirm, Claim!GiveUp, Claim!Ledger!Pay, ClaimInv, ServerInv
<1>4. spent' \in [ClaimLinks -> Wallets \union {Nothing}]
  <2>1. claim[c].link \in ClaimLinks /\ claim[c].wallet \in Wallets
    BY <1>2 DEF SentClaims
  <2> QED
    BY <2>1 DEF Claim!ServerStep, Claim!Accept, Claim!Refuse, Claim!GiveBack, Claim!Pay,
       Claim!Confirm, Claim!GiveUp, ClaimInv, ServerInv
<1>5. served' \in [Claims -> ServedSteps]
      /\ \A d \in Claims : served'[d] # "unsent" <=> served[d] # "unsent"
  BY <1>2 DEF ClaimInv, ServerInv, ServedSteps
<1>6. ServerInv'
  BY <1>1, <1>2, <1>3, <1>4, <1>5 DEF ClaimInv, ServerInv, SentClaims, Claim!Unsent, ServedSteps
<1>7. PageTypes' /\ LoadingInv'
  BY <1>1 DEF ClaimInv, PageTypes, LoadingInv, Claim!pageVars
<1>8. WaitingInv'
  BY <1>1, <1>5 DEF ClaimInv, PageTypes, WaitingInv, Claim!pageVars
<1>9. Promise
  BY <1>1 DEF Promise, Claim!PaidWhenShown, Claim!SuccessShown, Claim!pageVars
<1> QED
  BY <1>6, <1>7, <1>8, <1>9 DEF ClaimInv

LEMMA ClaimStep ==
  ASSUME ClaimAssumption, ClaimInv, [Claim!Next]_Claim!vars
  PROVE  ClaimInv' /\ Claim!PaidWhenShown
<1>1. CASE UNCHANGED Claim!vars
  <2>1. PageTypes' /\ LoadingInv' /\ WaitingInv'
    BY <1>1 DEF ClaimInv, PageTypes, LoadingInv, WaitingInv, Claim!vars, Claim!pageVars,
       Claim!serverVars
  <2>2. ServerInv'
    BY <1>1, ServerStays DEF ClaimInv, Claim!vars, Claim!serverVars
  <2>3. Promise
    BY <1>1 DEF Promise, Claim!PaidWhenShown, Claim!SuccessShown, Claim!vars, Claim!pageVars
  <2> QED
    BY <2>1, <2>2, <2>3 DEF ClaimInv, Promise
<1>2. ASSUME NEW p \in Pages, Claim!PageStep(p) PROVE ClaimInv' /\ Promise
  BY <1>2, PageStepKeeps, SendKeeps, ArriveKeeps DEF Claim!PageStep
<1> QED
  BY <1>1, <1>2, SwitchKeeps, ServeKeeps DEF Claim!Next, Promise

LEMMA ClaimFollows == ASSUME ClaimInv PROVE Claim!TypeOK
  BY DEF ClaimInv, PageTypes, LoadingInv, ServerInv, ServedSteps, Claim!TypeOK

(* A page shows success only where the wallet named in its message was paid *)
(* by its very link: not to the second of two tabs, to a retry that lost    *)
(* against the first attempt, or for an account MetaMask switched to.       *)
THEOREM SuccessStaysPaid ==
  ASSUME ClaimAssumption
  PROVE  Claim!Spec => Claim!SuccessWasPaid
<1>1. Claim!Init => ClaimInv
  BY ClaimInit
<1>2. ClaimInv /\ [Claim!Next]_Claim!vars => ClaimInv' /\ [Claim!PaidWhenShown]_Claim!vars
  BY ClaimStep
<1> QED
  BY <1>1, <1>2, PTL DEF Claim!Spec, Claim!SuccessWasPaid

-----------------------------------------------------------------------------
(* WalletPage: a wallet made here is kept only after its words were typed.  *)
(* Behind it: what is asked for has VerifyCount words whenever a creation   *)
(* is open, and what is confirmed covers it.                                *)

CONSTANTS Tabs, Drafts, Known, Accounts, NoWallet, Positions, VerifyCount
VARIABLES
  storage, account, made, typed, tabWallet, tabDialog, creationStep, pendingWallet,
  verifyIndices, keyRevealed, connecting, claimReturn

Setup == INSTANCE WalletPage WITH
  wallet <- tabWallet, dialog <- tabDialog, step <- creationStep

SetupAssumption ==
  /\ Drafts \intersect Known = {} /\ Drafts \intersect Accounts = {}
  /\ NoWallet \notin Drafts
  /\ IsFiniteSet(Positions) /\ VerifyCount \in 0 .. Cardinality(Positions)

TabTypes ==
  /\ tabDialog \in [Tabs -> {"none", "create", "import", "delete", "reveal"}]
  /\ keyRevealed \in [Tabs -> BOOLEAN] /\ connecting \in [Tabs -> BOOLEAN]
  /\ claimReturn \in [Tabs -> BOOLEAN]
  /\ account \in Accounts \union {NoWallet}

\* A creation under way is of a draft, and asks for enough of its words.
CreationInv ==
  /\ made \subseteq Drafts
  /\ creationStep \in [Tabs -> {"idle", "reveal", "verify"}]
  /\ pendingWallet \in [Tabs -> Drafts \union {NoWallet}]
  /\ verifyIndices \in [Tabs -> SUBSET Positions]
  /\ \A t \in Tabs : creationStep[t] = "idle" <=> pendingWallet[t] = NoWallet
  /\ \A t \in Tabs : creationStep[t] # "idle" => verifyIndices[t] \in Setup!AskFor

Typed(w) == Setup!Cardinality(typed[w]) >= VerifyCount

\* What may be kept.
Keepable(w) == w \in Setup!SomeWallets /\ (w \in Drafts => Typed(w))

KeptInv ==
  /\ typed \in [Drafts -> SUBSET Positions]
  /\ Keepable(storage)
  /\ tabWallet \in [Tabs -> Setup!SomeWallets]
  /\ \A t \in Tabs : Keepable(tabWallet[t])

SetupInv == TabTypes /\ CreationInv /\ KeptInv

LEMMA SetupInit == ASSUME SetupAssumption, Setup!Init PROVE SetupInv
<1>1. TabTypes
  BY DEF Setup!Init, TabTypes
<1>2. CreationInv
  BY DEF Setup!Init, CreationInv
<1>3. KeptInv
  BY DEF SetupAssumption, Setup!Init, KeptInv, Keepable, Setup!SomeWallets
<1> QED
  BY <1>1, <1>2, <1>3 DEF SetupInv

(* As many words as were asked for.                                        *)
LEMMA EnoughWords ==
  ASSUME SetupAssumption, NEW asked \in Setup!AskFor, NEW right \in SUBSET Positions,
         asked \subseteq right
  PROVE  Setup!Cardinality(right) >= VerifyCount
<1>1. \A S : Setup!Cardinality(S) = Cardinality(S)
  BY DEF Setup!Cardinality, Cardinality, Setup!IsFiniteSet, IsFiniteSet
<1>2. Cardinality(asked) = VerifyCount
  BY <1>1 DEF Setup!AskFor
<1>3. IsFiniteSet(right)
  BY FS_Subset DEF SetupAssumption
<1>4. Cardinality(asked) <= Cardinality(right)
  BY <1>3, FS_Subset
<1>5. IsFiniteSet(asked)
  BY <1>3, FS_Subset
<1>6. Cardinality(asked) \in Nat /\ Cardinality(right) \in Nat
  BY <1>3, <1>5, FS_CardinalityType
<1> QED
  BY <1>1, <1>2, <1>4, <1>6

LEMMA AllWords ==
  ASSUME SetupAssumption
  PROVE  Setup!Cardinality(Positions) >= VerifyCount
<1>1. \A S : Setup!Cardinality(S) = Cardinality(S)
  BY DEF Setup!Cardinality, Cardinality, Setup!IsFiniteSet, IsFiniteSet
<1>2. Cardinality(Positions) \in Nat
  BY FS_CardinalityType DEF SetupAssumption
<1> QED
  BY <1>1, <1>2 DEF SetupAssumption

(* A creation ends.                                                        *)
LEMMA CreationEnds ==
  ASSUME CreationInv, NEW t \in Tabs, Setup!NoCreation(t), made' = made
  PROVE  CreationInv'
<1>1. /\ creationStep' \in [Tabs -> {"idle", "reveal", "verify"}]
      /\ pendingWallet' \in [Tabs -> Drafts \union {NoWallet}]
      /\ verifyIndices' \in [Tabs -> SUBSET Positions]
  BY DEF CreationInv, Setup!NoCreation
<1>2. /\ creationStep'[t] = "idle" /\ pendingWallet'[t] = NoWallet
      /\ \A u \in Tabs \ {t} : /\ creationStep'[u] = creationStep[u]
                               /\ pendingWallet'[u] = pendingWallet[u]
                               /\ verifyIndices'[u] = verifyIndices[u]
  BY DEF CreationInv, Setup!NoCreation
<1>3. Setup!AskFor' = Setup!AskFor
  BY DEF Setup!AskFor
<1> QED
  BY <1>1, <1>2, <1>3 DEF CreationInv

(* A wallet that may be kept is adopted.                                   *)
LEMMA AdoptKeeps ==
  ASSUME SetupInv, NEW t \in Tabs, NEW w, NEW closes \in BOOLEAN, Setup!Adopt(t, w, closes),
         Keepable(w)', typed' \in [Drafts -> SUBSET Positions],
         \A d \in Drafts : Typed(d) => Typed(d)'
  PROVE  /\ KeptInv'
         /\ tabDialog' \in [Tabs -> {"none", "create", "import", "delete", "reveal"}]
         /\ claimReturn' \in [Tabs -> BOOLEAN]
<1>1. storage' = w /\ tabWallet' = [tabWallet EXCEPT ![t] = w]
  BY DEF Setup!Adopt
<1>2. w \in Setup!SomeWallets /\ Setup!SomeWallets' = Setup!SomeWallets
  BY DEF Keepable, Setup!SomeWallets
<1>3. tabWallet' \in [Tabs -> Setup!SomeWallets] /\ tabWallet'[t] = w
      /\ \A u \in Tabs \ {t} : tabWallet'[u] = tabWallet[u]
  BY <1>1, <1>2 DEF SetupInv, KeptInv
<1>4. \A u \in Tabs : Keepable(tabWallet[u])' 
  <2> SUFFICES ASSUME NEW u \in Tabs PROVE Keepable(tabWallet[u])'
    OBVIOUS
  <2>1. CASE u = t
    BY <1>3, <2>1 DEF Keepable
  <2>2. CASE u # t
    BY <1>2, <1>3, <2>2 DEF SetupInv, KeptInv, Keepable
  <2> QED
    BY <2>1, <2>2
<1>5. KeptInv'
  BY <1>1, <1>2, <1>3, <1>4 DEF KeptInv, Keepable
<1>6. claimReturn' \in [Tabs -> BOOLEAN]
  BY DEF Setup!Adopt, SetupInv, TabTypes
<1>7. tabDialog' = tabDialog \/ tabDialog' = [tabDialog EXCEPT ![t] = "none"]
  BY DEF Setup!Adopt
<1>8. tabDialog' \in [Tabs -> {"none", "create", "import", "delete", "reveal"}]
  BY <1>7 DEF SetupInv, TabTypes
<1> QED
  BY <1>5, <1>6, <1>8

(* What is kept stays, where nothing is adopted.                           *)
LEMMA KeptStays ==
  ASSUME KeptInv, UNCHANGED <<storage, typed, tabWallet>>
  PROVE  KeptInv'
  BY DEF KeptInv, Keepable, Typed, Setup!SomeWallets

LEMMA CreationStays ==
  ASSUME CreationInv, UNCHANGED <<made, creationStep, pendingWallet, verifyIndices>>
  PROVE  CreationInv'
  BY DEF CreationInv, Setup!AskFor

\* The steps that only open, close, show or hide.
LEMMA ScreenStep ==
  ASSUME SetupInv, NEW t \in Tabs,
         \/ \E which \in {"create", "import"} : Setup!OpenSetupDialog(t, which)
         \/ \E which \in {"import", "delete", "reveal"} : Setup!OpenCardDialog(t, which)
         \/ Setup!CloseDialog(t) \/ Setup!RevealConfirm(t) \/ Setup!HideKey(t)
         \/ Setup!ConnectAsk(t) \/ Setup!ConnectRefused(t)
  PROVE  SetupInv'
<1>1. UNCHANGED <<storage, account, made, typed, tabWallet, Setup!creationVars, claimReturn>>
  BY DEF Setup!OpenSetupDialog, Setup!OpenCardDialog, Setup!CloseDialog, Setup!RevealConfirm,
     Setup!HideKey, Setup!ConnectAsk, Setup!ConnectRefused
<1>2. /\ tabDialog' \in [Tabs -> {"none", "create", "import", "delete", "reveal"}]
      /\ keyRevealed' \in [Tabs -> BOOLEAN] /\ connecting' \in [Tabs -> BOOLEAN]
  BY DEF SetupInv, TabTypes, Setup!OpenSetupDialog, Setup!OpenCardDialog, Setup!CloseDialog,
     Setup!RevealConfirm, Setup!HideKey, Setup!ConnectAsk, Setup!ConnectRefused
<1>3. TabTypes'
  BY <1>1, <1>2 DEF SetupInv, TabTypes
<1> QED
  BY <1>1, <1>3, KeptStays, CreationStays DEF SetupInv, Setup!creationVars

\* Creating a wallet.
LEMMA CreateStep ==
  ASSUME SetupAssumption, SetupInv, NEW t \in Tabs,
         \/ \E draft \in Drafts, indices \in Setup!AskFor : Setup!CreateConfirm(t, draft, indices)
         \/ Setup!RevealContinue(t)
         \/ \E indices \in Setup!AskFor : Setup!VerifyBack(t, indices)
         \/ Setup!AbortCreation(t)
  PROVE  SetupInv'
<1>1. CASE Setup!AbortCreation(t)
  <2>1. UNCHANGED <<storage, account, made, typed, tabWallet, tabDialog, keyRevealed, connecting,
                    claimReturn>>
    BY <1>1 DEF Setup!AbortCreation
  <2>2. CreationInv'
    BY <1>1, <2>1, CreationEnds DEF Setup!AbortCreation, SetupInv
  <2>3. TabTypes'
    BY <2>1 DEF SetupInv, TabTypes
  <2> QED
    BY <2>1, <2>2, <2>3, KeptStays DEF SetupInv
<1>2. ASSUME NEW draft \in Drafts, NEW indices \in Setup!AskFor,
             Setup!CreateConfirm(t, draft, indices)
      PROVE  SetupInv'
  <2>1. UNCHANGED <<storage, account, typed, tabWallet, keyRevealed, connecting, claimReturn>>
    BY <1>2 DEF Setup!CreateConfirm
  <2>2. tabDialog' \in [Tabs -> {"none", "create", "import", "delete", "reveal"}]
    BY <1>2 DEF Setup!CreateConfirm, Setup!StartCreation, SetupInv, TabTypes
  <2>3. indices \in SUBSET Positions /\ Setup!AskFor' = Setup!AskFor /\ draft # NoWallet
    BY DEF Setup!AskFor, SetupAssumption
  <2>4. /\ made' \subseteq Drafts
        /\ creationStep' = [creationStep EXCEPT ![t] = "reveal"]
        /\ pendingWallet' = [pendingWallet EXCEPT ![t] = draft]
        /\ verifyIndices' = [verifyIndices EXCEPT ![t] = indices]
    BY <1>2 DEF Setup!CreateConfirm, Setup!StartCreation, SetupInv, CreationInv
  <2>5. CreationInv'
    BY <2>3, <2>4 DEF SetupInv, CreationInv
  <2>6. TabTypes'
    BY <2>1, <2>2 DEF SetupInv, TabTypes
  <2> QED
    BY <2>1, <2>5, <2>6, KeptStays DEF SetupInv
<1>3. ASSUME \/ Setup!RevealContinue(t)
             \/ \E indices \in Setup!AskFor : Setup!VerifyBack(t, indices)
      PROVE  SetupInv'
  <2>1. UNCHANGED <<storage, account, made, typed, tabWallet, tabDialog, pendingWallet, keyRevealed,
                    connecting, claimReturn>>
    BY <1>3 DEF Setup!RevealContinue, Setup!VerifyBack
  <2>2. Setup!AskFor' = Setup!AskFor /\ Setup!AskFor \subseteq SUBSET Positions
    BY DEF Setup!AskFor
  <2>3. PICK next \in {"reveal", "verify"} :
          /\ creationStep[t] # "idle"
          /\ creationStep' = [creationStep EXCEPT ![t] = next]
    BY <1>3 DEF Setup!RevealContinue, Setup!VerifyBack
  <2>4. verifyIndices' = verifyIndices \/
          \E indices \in Setup!AskFor : verifyIndices' = [verifyIndices EXCEPT ![t] = indices]
    BY <1>3 DEF Setup!RevealContinue, Setup!VerifyBack
  <2>5. CreationInv'
    BY <2>1, <2>2, <2>3, <2>4 DEF SetupInv, CreationInv
  <2>6. TabTypes'
    BY <2>1 DEF SetupInv, TabTypes
  <2> QED
    BY <2>1, <2>5, <2>6, KeptStays DEF SetupInv
<1> QED
  BY <1>1, <1>2, <1>3

\* The creation is confirmed: enough words were typed right.
LEMMA VerifyStep ==
  ASSUME SetupAssumption, SetupInv, NEW t \in Tabs, NEW right \in SUBSET Positions,
         Setup!VerifyConfirm(t, right)
  PROVE  SetupInv'
<1>1. PICK draft \in Drafts : draft = pendingWallet[t] /\ verifyIndices[t] \in Setup!AskFor
  BY DEF SetupInv, CreationInv, Setup!VerifyConfirm
<1>2. Setup!Cardinality(right) >= VerifyCount
  BY <1>1, EnoughWords DEF Setup!VerifyConfirm, Setup!WordsRight
<1>3. typed' = [typed EXCEPT ![draft] = right] /\ typed \in [Drafts -> SUBSET Positions]
  BY <1>1 DEF Setup!VerifyConfirm, SetupInv, KeptInv
<1>4. typed' \in [Drafts -> SUBSET Positions] /\ typed'[draft] = right
      /\ \A d \in Drafts \ {draft} : typed'[d] = typed[d]
  BY <1>1, <1>3
<1>5. \A d \in Drafts : Typed(d) => Typed(d)'
  BY <1>2, <1>4 DEF Typed
<1>6. Keepable(draft)'
  BY <1>1, <1>2, <1>4 DEF Keepable, Typed, Setup!SomeWallets
<1>7. KeptInv' /\ tabDialog' \in [Tabs -> {"none", "create", "import", "delete", "reveal"}]
      /\ claimReturn' \in [Tabs -> BOOLEAN]
  BY <1>1, <1>4, <1>5, <1>6, AdoptKeeps DEF Setup!VerifyConfirm
<1>8. CreationInv'
  BY CreationEnds DEF Setup!VerifyConfirm, SetupInv
<1> QED
  BY <1>7, <1>8 DEF Setup!VerifyConfirm, SetupInv, TabTypes

\* A phrase or key that somebody has written down is imported.
LEMMA ImportStep ==
  ASSUME SetupAssumption, SetupInv, NEW t \in Tabs, NEW w \in Known \union Drafts,
         Setup!ImportConfirm(t, w)
  PROVE  SetupInv'
<1>1. typed \in [Drafts -> SUBSET Positions] /\ Setup!Cardinality(Positions) >= VerifyCount
  BY AllWords DEF SetupInv, KeptInv
<1>2. typed' = IF w \in Drafts THEN [typed EXCEPT ![w] = Positions] ELSE typed
  BY DEF Setup!ImportConfirm
<1>3. typed' \in [Drafts -> SUBSET Positions]
      /\ \A d \in Drafts : typed'[d] = IF d = w THEN Positions ELSE typed[d]
  BY <1>1, <1>2
<1>4. \A d \in Drafts : Typed(d) => Typed(d)'
  BY <1>1, <1>3 DEF Typed
<1>5. Keepable(w)'
  BY <1>1, <1>3 DEF Keepable, Typed, Setup!SomeWallets
<1>6. KeptInv' /\ tabDialog' \in [Tabs -> {"none", "create", "import", "delete", "reveal"}]
      /\ claimReturn' \in [Tabs -> BOOLEAN]
  BY <1>3, <1>4, <1>5, AdoptKeeps DEF Setup!ImportConfirm
<1>7. CreationInv'
  BY CreationStays DEF Setup!ImportConfirm, Setup!creationVars, SetupInv
<1> QED
  BY <1>6, <1>7 DEF Setup!ImportConfirm, SetupInv, TabTypes

\* A wallet is removed from a page, or its page is reloaded.
LEMMA RemoveStep ==
  ASSUME SetupAssumption, SetupInv, NEW t \in Tabs,
         \/ Setup!DeleteConfirm(t) \/ Setup!Disconnect(t)
         \/ \E fromClaim \in BOOLEAN : Setup!Reload(t, fromClaim)
  PROVE  SetupInv'
<1>1. PICK w \in {NoWallet, storage} :
        /\ tabWallet' = [tabWallet EXCEPT ![t] = w] /\ storage' \in {w, storage}
        /\ typed' = typed /\ account' = account /\ made' = made
  BY DEF Setup!DeleteConfirm, Setup!Disconnect, Setup!Remove, Setup!Reload
<1>2. Keepable(w) /\ Keepable(storage)
  BY <1>1 DEF SetupInv, KeptInv, Keepable, Setup!SomeWallets, SetupAssumption
<1>3. Keepable(w)' /\ Keepable(storage)'
  BY <1>1, <1>2 DEF Keepable, Typed, Setup!SomeWallets
<1>4. tabWallet' \in [Tabs -> Setup!SomeWallets] /\ Setup!SomeWallets' = Setup!SomeWallets
      /\ \A u \in Tabs : tabWallet'[u] \in {w, tabWallet[u]}
  BY <1>1, <1>2 DEF SetupInv, KeptInv, Keepable, Setup!SomeWallets
<1>5. ASSUME NEW u \in Tabs PROVE Keepable(tabWallet[u])'
  BY <1>1, <1>2, <1>4 DEF SetupInv, KeptInv, Keepable, Typed
<1>6. KeptInv'
  BY <1>1, <1>3, <1>4, <1>5 DEF SetupInv, KeptInv
<1>7. TabTypes'
  BY DEF SetupInv, TabTypes, Setup!DeleteConfirm, Setup!Disconnect, Setup!Remove, Setup!Reload
<1>8. Setup!NoCreation(t) \/ UNCHANGED Setup!creationVars
  BY DEF Setup!DeleteConfirm, Setup!Disconnect, Setup!Remove, Setup!Reload
<1>9. CreationInv'
  BY <1>1, <1>8, CreationEnds, CreationStays DEF SetupInv, Setup!creationVars
<1> QED
  BY <1>6, <1>7, <1>9 DEF SetupInv

\* MetaMask.
LEMMA AccountStep ==
  ASSUME SetupAssumption, SetupInv,
         \/ \E t \in Tabs, a \in Accounts : Setup!ConnectApproved(t, a)
         \/ \E a \in Accounts \union {NoWallet} : Setup!AccountsChanged(a)
  PROVE  SetupInv'
<1>1. ASSUME NEW t \in Tabs, NEW a \in Accounts, Setup!ConnectApproved(t, a) PROVE SetupInv'
  <2>1. typed' = typed /\ typed \in [Drafts -> SUBSET Positions]
    BY <1>1 DEF Setup!ConnectApproved, SetupInv, KeptInv
  <2>2. Keepable(a)' /\ \A d \in Drafts : Typed(d) => Typed(d)'
    BY <2>1 DEF Keepable, Typed, Setup!SomeWallets, SetupAssumption
  <2>3. KeptInv' /\ tabDialog' \in [Tabs -> {"none", "create", "import", "delete", "reveal"}]
        /\ claimReturn' \in [Tabs -> BOOLEAN]
    BY <1>1, <2>1, <2>2, AdoptKeeps DEF Setup!ConnectApproved
  <2>4. CreationInv'
    BY <1>1, CreationEnds, CreationStays DEF Setup!ConnectApproved, SetupInv, Setup!creationVars
  <2> QED
    BY <1>1, <2>3, <2>4 DEF Setup!ConnectApproved, SetupInv, TabTypes
<1>2. ASSUME NEW a \in Accounts \union {NoWallet}, Setup!AccountsChanged(a) PROVE SetupInv'
  <2>1. /\ UNCHANGED <<made, typed, tabDialog, Setup!creationVars, keyRevealed, connecting,
                       claimReturn>>
        /\ account' = a
        /\ storage' \in {a, storage}
        /\ tabWallet' = [t \in Tabs |-> IF t \in {u \in Tabs : tabWallet[u] \in Accounts}
                                        THEN a ELSE tabWallet[t]]
    BY <1>2 DEF Setup!AccountsChanged
  <2>2. Keepable(a) /\ Keepable(storage)
    BY DEF SetupInv, KeptInv, Keepable, Setup!SomeWallets, SetupAssumption
  <2>3. \A w : Keepable(w) => Keepable(w)'
    BY <2>1 DEF Keepable, Typed, Setup!SomeWallets
  <2>4. \A t \in Tabs : tabWallet'[t] \in {a, tabWallet[t]}
    BY <2>1
  <2>5. \A t \in Tabs : Keepable(tabWallet[t])'
    <3> SUFFICES ASSUME NEW t \in Tabs PROVE Keepable(tabWallet[t])'
      OBVIOUS
    <3> QED
      BY <2>1, <2>2, <2>4 DEF SetupInv, KeptInv, Keepable, Typed, Setup!SomeWallets
  <2>6. tabWallet' \in [Tabs -> Setup!SomeWallets'] 
    BY <2>1, <2>2 DEF SetupInv, KeptInv, Keepable, Setup!SomeWallets
  <2>7. Keepable(storage)'
    BY <2>1, <2>2 DEF Keepable, Typed, Setup!SomeWallets
  <2>8. KeptInv'
    BY <2>1, <2>5, <2>6, <2>7 DEF SetupInv, KeptInv
  <2>9. TabTypes'
    BY <2>1 DEF SetupInv, TabTypes
  <2> QED
    BY <2>1, <2>8, <2>9, CreationStays DEF SetupInv, Setup!creationVars
<1> QED
  BY <1>1, <1>2

LEMMA SetupStep ==
  ASSUME SetupAssumption, SetupInv, [Setup!Next]_Setup!vars
  PROVE  SetupInv'
<1>1. ASSUME NEW t \in Tabs, Setup!PageStep(t) PROVE SetupInv'
  BY <1>1, ScreenStep, CreateStep, VerifyStep, ImportStep, RemoveStep, AccountStep
     DEF Setup!PageStep
<1>2. CASE \E a \in Accounts \union {NoWallet} : Setup!AccountsChanged(a)
  BY <1>2, AccountStep
<1>3. CASE UNCHANGED Setup!vars
  <2>1. TabTypes'
    BY <1>3 DEF Setup!vars, Setup!pageVars, SetupInv, TabTypes
  <2> QED
    BY <1>3, <2>1, KeptStays, CreationStays DEF Setup!vars, Setup!pageVars, Setup!creationVars,
       SetupInv
<1> QED
  BY <1>1, <1>2, <1>3 DEF Setup!Next

LEMMA SetupFollows == ASSUME SetupInv PROVE Setup!TypeOK /\ Setup!SavedWasVerified
<1>1. Setup!TypeOK
  BY DEF SetupInv, TabTypes, CreationInv, KeptInv, Keepable, Setup!TypeOK
<1>2. Setup!SavedWasVerified
  BY DEF SetupInv, KeptInv, Keepable, Typed, Setup!SavedWasVerified
<1> QED
  BY <1>1, <1>2

(* Whatever is cancelled, gone back to or reloaded in which tab, a wallet   *)
(* made here is in localStorage, or on a page, only after enough of its     *)
(* words were typed.                                                        *)
THEOREM SavedStaysVerified ==
  ASSUME SetupAssumption
  PROVE  Setup!Spec => [](Setup!TypeOK /\ Setup!SavedWasVerified)
<1>1. Setup!Init => SetupInv
  BY SetupInit
<1>2. SetupInv /\ [Setup!Next]_Setup!vars => SetupInv'
  BY SetupStep
<1>3. SetupInv => Setup!TypeOK /\ Setup!SavedWasVerified
  BY SetupFollows
<1> QED
  BY <1>1, <1>2, <1>3, PTL DEF Setup!Spec

-----------------------------------------------------------------------------
(* PhraseReveal: no word is shown in a closed dialog or a hidden tab.       *)

CONSTANTS Fingers, Words, NoCallback, Callbacks, HoldTime
VARIABLES
  expanded, pressing, asked, running, holdStart, holdRaf, open, hidden, showAll, revealed,
  hideTimer, clipboard, clipTimer

Reveal == INSTANCE PhraseReveal WITH Nobody <- NoCallback

RevealAssumption ==
  NoCallback \notin Words /\ NoCallback \notin Callbacks /\ HoldTime \in Nat

\* Beside the types: what shows words is on only in the open, visible dialog.
RevealInv ==
  /\ Reveal!TypeOK
  /\ showAll \/ revealed # NoCallback => open /\ ~hidden
  /\ hideTimer = (IF showAll THEN NoCallback ELSE revealed)

FrameKinds == {"free", "start", "tick"}

(* What asking for a frame, and cancelling one, leave of the callbacks.    *)
LEMMA FrameAsked ==
  ASSUME NEW left \in [Callbacks -> FrameKinds], NEW kind \in FrameKinds \ {"free"},
         Reveal!AskFrame(kind, left)
  PROVE  /\ asked' \in [Callbacks -> FrameKinds] /\ holdRaf' \in Callbacks
         /\ \A c \in Callbacks : left[c] # "free" => asked'[c] # "free"
<1> DEFINE new == CHOOSE c \in Callbacks : left[c] = "free" /\ c # holdRaf
<1>1. new \in Callbacks
  BY DEF Reveal!AskFrame
<1>2. asked' = [left EXCEPT ![new] = kind] /\ holdRaf' = new
  BY DEF Reveal!AskFrame
<1> HIDE DEF new
<1> QED
  BY <1>1, <1>2 DEF FrameKinds

LEMMA FrameCancelled ==
  ASSUME NEW left \in [Callbacks -> FrameKinds]
  PROVE  Reveal!Cancelled(left) \in [Callbacks -> FrameKinds]
  BY DEF Reveal!Cancelled, FrameKinds

(* The dialog's part of the invariant, and the part of the hold.           *)
DialogInv ==
  /\ showAll \in BOOLEAN /\ open \in BOOLEAN /\ hidden \in BOOLEAN /\ clipTimer \in BOOLEAN
  /\ revealed \in Words \union {NoCallback} /\ clipboard \in {"phrase", "other"}
  /\ showAll \/ revealed # NoCallback => open /\ ~hidden
  /\ hideTimer = (IF showAll THEN NoCallback ELSE revealed)

HoldInv ==
  /\ expanded \in BOOLEAN /\ pressing \subseteq Fingers
  /\ asked \in [Callbacks -> FrameKinds]
  /\ running \subseteq {c \in Callbacks : asked[c] # "free"}
  /\ holdStart \in 0 .. HoldTime + 1
  /\ holdRaf \in Callbacks \union {NoCallback}

LEMMA RevealParts == RevealInv <=> DialogInv /\ HoldInv
  BY DEF RevealInv, Reveal!TypeOK, Reveal!Unset, DialogInv, HoldInv, FrameKinds

LEMMA RevealInit == ASSUME RevealAssumption, Reveal!Init PROVE RevealInv
<1>1. DialogInv
  BY DEF Reveal!Init, DialogInv
<1>2. asked \in [Callbacks -> FrameKinds] /\ running = {} /\ holdStart \in 0 .. HoldTime + 1
  BY DEF RevealAssumption, Reveal!Init, Reveal!Unset, FrameKinds
<1>3. HoldInv
  BY <1>2 DEF Reveal!Init, HoldInv
<1> QED
  BY <1>1, <1>3, RevealParts

LEMMA DialogStep ==
  ASSUME RevealAssumption, DialogInv, HoldInv, [Reveal!Next]_Reveal!vars
  PROVE  DialogInv'
<1> USE DEF DialogInv
<1>1. ASSUME NEW f \in Fingers, Reveal!PointerDown(f) \/ Reveal!PointerUp(f) PROVE DialogInv'
  BY <1>1 DEF Reveal!PointerDown, Reveal!PointerUp, Reveal!dialogVars, Reveal!clipVars
<1>2. ASSUME NEW c \in Callbacks, Reveal!StartHold(c) \/ Reveal!TickHold(c) PROVE DialogInv'
  <2>1. UNCHANGED <<hidden, showAll, revealed, hideTimer, clipboard, clipTimer>>
    BY <1>2 DEF Reveal!StartHold, Reveal!TickHold, Reveal!dialogVars, Reveal!clipVars
  <2>2. open' = open \/ open' = TRUE
    <3>1. Reveal!StartHold(c) => open' = open
      BY DEF Reveal!StartHold
    <3>2. Reveal!TickHold(c) => open' = open \/ open' = TRUE
      BY DEF Reveal!TickHold, Reveal!AskFrame
    <3> QED
      BY <1>2, <3>1, <3>2
  <2> QED
    BY <2>1, <2>2
<1>3. CASE Reveal!FrameBegins \/ Reveal!ToggleExpanded
  BY <1>3 DEF Reveal!FrameBegins, Reveal!ToggleExpanded, Reveal!dialogVars, Reveal!clipVars
<1>4. ASSUME NEW w \in Words, Reveal!WordClick(w) PROVE DialogInv'
  BY <1>4 DEF Reveal!WordClick, Reveal!Show, Reveal!clipVars
<1>5. CASE Reveal!ToggleShowAll \/ Reveal!AutoHide
  BY <1>5 DEF Reveal!ToggleShowAll, Reveal!AutoHide, Reveal!Show, Reveal!clipVars
<1>6. CASE Reveal!TabHidden \/ Reveal!TabShown \/ Reveal!Close
  BY <1>6 DEF Reveal!TabHidden, Reveal!TabShown, Reveal!Close, Reveal!Cover, Reveal!Show,
     Reveal!dialogVars, Reveal!clipVars
<1>7. CASE Reveal!CopyAll \/ Reveal!ClearClipboard
  <2>1. UNCHANGED <<open, hidden, showAll, revealed, hideTimer>>
    BY <1>7 DEF Reveal!CopyAll, Reveal!ClearClipboard, Reveal!dialogVars
  <2>2. clipboard' \in {"phrase", "other"} /\ clipTimer' \in BOOLEAN
    BY <1>7 DEF Reveal!CopyAll, Reveal!ClearClipboard
  <2> QED
    BY <2>1, <2>2
<1>8. CASE UNCHANGED Reveal!vars
  BY <1>8 DEF Reveal!vars, Reveal!dialogVars, Reveal!clipVars
<1> QED
  BY <1>1, <1>2, <1>3, <1>4, <1>5, <1>6, <1>7, <1>8 DEF Reveal!Next

LEMMA HoldStep ==
  ASSUME RevealAssumption, HoldInv, [Reveal!Next]_Reveal!vars
  PROVE  HoldInv'
<1> USE DEF HoldInv
<1>1. ASSUME NEW f \in Fingers, Reveal!PointerDown(f) PROVE HoldInv'
  <2>1. running' = {} /\ expanded' = expanded /\ holdStart' = holdStart
        /\ pressing' = pressing \union {f}
    BY <1>1 DEF Reveal!PointerDown, Reveal!Idle
  <2>2. asked' \in [Callbacks -> FrameKinds] /\ holdRaf' \in Callbacks \union {NoCallback}
    BY <1>1, FrameAsked DEF Reveal!PointerDown, FrameKinds
  <2> QED
    BY <2>1, <2>2
<1>2. ASSUME NEW f \in Fingers, Reveal!PointerUp(f) PROVE HoldInv'
  <2>1. running' = {} /\ expanded' = expanded /\ pressing' = pressing \ {f}
    BY <1>2 DEF Reveal!PointerUp, Reveal!Idle
  <2>2. asked' \in [Callbacks -> FrameKinds] /\ holdRaf' \in Callbacks \union {NoCallback}
        /\ holdStart' \in 0 .. HoldTime + 1
    BY <1>2, FrameCancelled DEF Reveal!PointerUp, Reveal!Unset, RevealAssumption
  <2> QED
    BY <2>1, <2>2
<1>3. ASSUME NEW c \in Callbacks, Reveal!StartHold(c) PROVE HoldInv'
  <2>1. [asked EXCEPT ![c] = "free"] \in [Callbacks -> FrameKinds]
    BY DEF FrameKinds
  <2>2. /\ asked' \in [Callbacks -> FrameKinds] /\ holdRaf' \in Callbacks
        /\ \A d \in Callbacks : [asked EXCEPT ![c] = "free"][d] # "free" => asked'[d] # "free"
    BY <1>3, <2>1, FrameAsked DEF Reveal!StartHold, FrameKinds
  <2>3. \A d \in running' : asked'[d] # "free"
    BY <1>3, <2>2 DEF Reveal!StartHold
  <2> QED
    BY <1>3, <2>2, <2>3 DEF Reveal!StartHold, RevealAssumption
<1>4. ASSUME NEW c \in Callbacks, Reveal!TickHold(c) PROVE HoldInv'
  <2> DEFINE left == [asked EXCEPT ![c] = "free"]
  <2>1. left \in [Callbacks -> FrameKinds] /\ \A d \in running \ {c} : left[d] # "free"
    BY DEF FrameKinds
  <2>2. UNCHANGED <<expanded, pressing>> /\ c \in running
    BY <1>4 DEF Reveal!TickHold
  <2>3. CASE holdStart = HoldTime + 1
    <3>1. asked' = left /\ running' = running \ {c} /\ UNCHANGED <<holdStart, holdRaf>>
      BY <1>4, <2>3 DEF Reveal!TickHold, Reveal!Unset, RevealAssumption
    <3> QED
      BY <2>1, <2>2, <3>1
  <2>4. CASE holdStart < HoldTime
    <3>1. Reveal!AskFrame("tick", left) /\ running' = running \ {c} /\ UNCHANGED holdStart
      BY <1>4, <2>4 DEF Reveal!TickHold, Reveal!Unset, RevealAssumption
    <3> HIDE DEF left
    <3>2. /\ asked' \in [Callbacks -> FrameKinds] /\ holdRaf' \in Callbacks
          /\ \A d \in Callbacks : left[d] # "free" => asked'[d] # "free"
      BY <2>1, <3>1, FrameAsked DEF FrameKinds
    <3> QED
      BY <2>1, <2>2, <3>1, <3>2
  <2>5. CASE holdStart = HoldTime
    <3>1. /\ asked' = Reveal!Cancelled(left) /\ holdRaf' = NoCallback
          /\ running' = {d \in running \ {c} : asked'[d] # "free"}
          /\ holdStart' = HoldTime + 1
      BY <1>4, <2>5 DEF Reveal!TickHold, Reveal!Unset, RevealAssumption
    <3> HIDE DEF left
    <3>2. asked' \in [Callbacks -> FrameKinds]
      BY <2>1, <3>1, FrameCancelled
    <3> QED
      BY <2>2, <3>1, <3>2 DEF RevealAssumption
  <2> QED
    BY <2>3, <2>4, <2>5 DEF RevealAssumption
<1>5. CASE Reveal!FrameBegins
  BY <1>5 DEF Reveal!FrameBegins, RevealAssumption
<1>6. CASE Reveal!ToggleExpanded
  BY <1>6 DEF Reveal!ToggleExpanded
<1>7. ASSUME NEW w \in Words, Reveal!WordClick(w) PROVE HoldInv'
  BY <1>7 DEF Reveal!WordClick, Reveal!holdVars
<1>8. CASE Reveal!ToggleShowAll \/ Reveal!AutoHide \/ Reveal!TabHidden \/ Reveal!TabShown
  BY <1>8 DEF Reveal!ToggleShowAll, Reveal!AutoHide, Reveal!TabHidden, Reveal!TabShown,
     Reveal!holdVars
<1>9. CASE Reveal!Close \/ Reveal!CopyAll \/ Reveal!ClearClipboard
  BY <1>9 DEF Reveal!Close, Reveal!CopyAll, Reveal!ClearClipboard, Reveal!holdVars
<1>10. CASE UNCHANGED Reveal!vars
  BY <1>10 DEF Reveal!vars, Reveal!holdVars
<1> QED
  BY <1>1, <1>2, <1>3, <1>4, <1>5, <1>6, <1>7, <1>8, <1>9, <1>10 DEF Reveal!Next

LEMMA RevealStep ==
  ASSUME RevealAssumption, RevealInv, [Reveal!Next]_Reveal!vars
  PROVE  RevealInv'
<1>1. DialogInv /\ HoldInv
  BY RevealParts
<1>2. DialogInv' /\ HoldInv'
  BY <1>1, DialogStep, HoldStep
<1>3. RevealInv' <=> DialogInv' /\ HoldInv'
  BY DEF RevealInv, Reveal!TypeOK, Reveal!Unset, DialogInv, HoldInv, FrameKinds
<1> QED
  BY <1>2, <1>3

LEMMA RevealFollows ==
  ASSUME RevealAssumption, RevealInv
  PROVE  Reveal!TypeOK /\ Reveal!WordsAreCovered
  BY DEF RevealAssumption, RevealInv, Reveal!WordsAreCovered, Reveal!Visible

(* Whatever was pressed, clicked or hidden when, no word of the phrase is   *)
(* shown in a closed dialog or a hidden tab, and a word that is shown alone *)
(* has the timer.                                                           *)
THEOREM WordsStayCovered ==
  ASSUME RevealAssumption
  PROVE  Reveal!Spec => [](Reveal!TypeOK /\ Reveal!WordsAreCovered)
<1>1. Reveal!Init => RevealInv
  BY RevealInit
<1>2. RevealInv /\ [Reveal!Next]_Reveal!vars => RevealInv'
  BY RevealStep
<1>3. RevealInv => Reveal!TypeOK /\ Reveal!WordsAreCovered
  BY RevealFollows
<1> QED
  BY <1>1, <1>2, <1>3, PTL DEF Reveal!Spec

-----------------------------------------------------------------------------
(* RoleForm: the list that ends a role change shows it.  Behind it: of the  *)
(* fetches under way one at most follows the change, it is asked after the  *)
(* sync, and until it ends nothing changes the roles again.                 *)

CONSTANTS RoleWallets, Mine, Minter, Labels, Blank, Fetches, Saves
VARIABLES admins, known, labels, list, fetch, view, role, editing, save

Roles == INSTANCE RoleForm WITH Wallets <- RoleWallets

RoleAssumption == Mine \in RoleWallets /\ Minter \in RoleWallets

FetchSteps == {"none", "asked", "answered"}

FormTypes ==
  /\ admins \subseteq RoleWallets /\ known \subseteq RoleWallets
  /\ labels \in [RoleWallets -> Roles!Texts]
  /\ list \in Roles!Entries
  /\ fetch \in [Fetches -> [step : FetchSteps, entries : Roles!Entries, after : BOOLEAN]]
  /\ view \in [loading : BOOLEAN, error : BOOLEAN]
  /\ role \in [step : {"none", "sent", "done", "listing"}, kind : {"add", "remove"},
               about : RoleWallets, synced : BOOLEAN]

EditTypes ==
  /\ editing \in RoleWallets \union {Blank}
  /\ save \in [Saves -> [step : {"none", "sent", "done"}, row : RoleWallets, text : Roles!Texts]]

\* A set of wallets in which the change shows.
Shows(wallets) == role.about \in wallets <=> role.kind = "add"

ChangeInv ==
  /\ role.step \in {"done", "listing"} => Shows(admins) /\ (role.synced => known = admins)
  /\ \A f \in Fetches :
       fetch[f].after =>
         /\ role.step = "listing"
         /\ fetch[f].step = "answered" /\ role.synced => Shows(fetch[f].entries.wallets)
         /\ \A g \in Fetches : fetch[g].after => g = f

RoleInv == FormTypes /\ EditTypes /\ ChangeInv

LEMMA RoleConstants ==
  ASSUME RoleAssumption
  PROVE  /\ Roles!NoList \in Roles!Entries
         /\ Roles!NoFetch \in [step : FetchSteps, entries : Roles!Entries, after : BOOLEAN]
         /\ \A x \in BOOLEAN :
              Roles!Asking(x) \in [step : FetchSteps, entries : Roles!Entries, after : BOOLEAN]
         /\ Roles!NoRole \in [step : {"none", "sent", "done", "listing"}, kind : {"add", "remove"},
                              about : RoleWallets, synced : BOOLEAN]
         /\ Roles!NoSave \in [step : {"none", "sent", "done"}, row : RoleWallets,
                              text : Roles!Texts]
         /\ Roles!NoFetch.after = FALSE /\ Roles!NoFetch.step = "none"
         /\ \A x \in BOOLEAN : Roles!Asking(x).after = x /\ Roles!Asking(x).step = "asked"
         /\ Roles!NoRole.step = "none"
<1>1. Roles!NoList \in Roles!Entries
  BY DEF Roles!NoList, Roles!Entries, Roles!Texts
<1> QED
  BY <1>1 DEF RoleAssumption, Roles!NoFetch, Roles!Asking, Roles!NoRole, Roles!NoSave, Roles!Texts,
     FetchSteps

LEMMA RoleInit == ASSUME RoleAssumption, Roles!Init PROVE RoleInv
<1>1. PICK f \in Fetches : fetch = [g \in Fetches |-> IF g = f THEN Roles!Asking(FALSE)
                                                      ELSE Roles!NoFetch]
  BY DEF Roles!Init
<1>2. /\ fetch \in [Fetches -> [step : FetchSteps, entries : Roles!Entries, after : BOOLEAN]]
      /\ \A g \in Fetches : ~fetch[g].after
  BY <1>1, RoleConstants
<1>3. labels \in [RoleWallets -> Roles!Texts]
  BY DEF Roles!Init, Roles!Texts
<1>4. FormTypes
  BY <1>2, <1>3, RoleConstants DEF Roles!Init, FormTypes, RoleAssumption
<1>5. EditTypes
  BY RoleConstants DEF Roles!Init, EditTypes, Roles!NoEdit
<1>6. ChangeInv
  BY <1>2, RoleConstants DEF Roles!Init, ChangeInv
<1> QED
  BY <1>4, <1>5, <1>6 DEF RoleInv

LEMMA EditStays == ASSUME EditTypes, UNCHANGED <<editing, save>> PROVE EditTypes'
  BY DEF EditTypes, Roles!Texts

LEMMA FormStays ==
  ASSUME FormTypes, UNCHANGED <<admins, known, fetch, role>>,
         labels' \in [RoleWallets -> Roles!Texts], list' \in Roles!Entries,
         view' \in [loading : BOOLEAN, error : BOOLEAN]
  PROVE  FormTypes'
  BY DEF FormTypes, FetchSteps, Roles!Entries, Roles!Texts

LEMMA ChangeStays == ASSUME ChangeInv, UNCHANGED <<admins, known, fetch, role>> PROVE ChangeInv'
  BY DEF ChangeInv, Shows

(* A fetch starts: of the list alone, or as the end of a role change.       *)
LEMMA RetryKeeps ==
  ASSUME RoleAssumption, RoleInv, NEW f \in Fetches, Roles!Retry(f)
  PROVE  RoleInv' /\ Roles!ListedAfterChange
<1>1. /\ UNCHANGED <<admins, known, labels, list, role, editing, save>>
      /\ fetch[f] = Roles!NoFetch
      /\ fetch' = [fetch EXCEPT ![f] = Roles!Asking(FALSE)]
      /\ view' = [loading |-> TRUE, error |-> FALSE]
  BY DEF Roles!Retry, Roles!Asks, Roles!server
<1>2. fetch' \in [Fetches -> [step : FetchSteps, entries : Roles!Entries, after : BOOLEAN]]
      /\ ~fetch'[f].after /\ \A g \in Fetches \ {f} : fetch'[g] = fetch[g]
  BY <1>1, RoleConstants DEF RoleInv, FormTypes
<1>3. FormTypes'
  BY <1>1, <1>2 DEF RoleInv, FormTypes, Roles!Entries, Roles!Texts, FetchSteps
<1>4. ChangeInv'
  BY <1>1, <1>2 DEF RoleInv, ChangeInv, Shows
<1>5. Roles!ListedAfterChange
  BY <1>1, RoleConstants DEF Roles!ListedAfterChange
<1> QED
  BY <1>1, <1>3, <1>4, <1>5, EditStays DEF RoleInv

LEMMA RefetchKeeps ==
  ASSUME RoleAssumption, RoleInv, NEW f \in Fetches, Roles!Refetches(f)
  PROVE  RoleInv' /\ Roles!ListedAfterChange
<1>1. /\ UNCHANGED <<admins, known, labels, list, editing, save>>
      /\ fetch[f] = Roles!NoFetch
      /\ fetch' = [fetch EXCEPT ![f] = Roles!Asking(TRUE)]
      /\ view' = [loading |-> TRUE, error |-> FALSE]
      /\ role.step = "done" /\ role' = [role EXCEPT !.step = "listing"]
  BY DEF Roles!Refetches, Roles!Asks, Roles!server
<1>2. fetch' \in [Fetches -> [step : FetchSteps, entries : Roles!Entries, after : BOOLEAN]]
      /\ fetch'[f].after /\ fetch'[f].step = "asked"
      /\ \A g \in Fetches \ {f} : fetch'[g] = fetch[g]
  BY <1>1, RoleConstants DEF RoleInv, FormTypes
<1>3. \A g \in Fetches : ~fetch[g].after
  BY <1>1 DEF RoleInv, ChangeInv
<1>4. /\ role' \in [step : {"none", "sent", "done", "listing"}, kind : {"add", "remove"},
                    about : RoleWallets, synced : BOOLEAN]
      /\ role'.step = "listing" /\ role'.about = role.about /\ role'.kind = role.kind
      /\ role'.synced = role.synced
  BY <1>1 DEF RoleInv, FormTypes
<1>5. FormTypes'
  BY <1>1, <1>2, <1>4 DEF RoleInv, FormTypes, Roles!Entries, Roles!Texts, FetchSteps
<1>6. ChangeInv'
  <2>1. Shows(admins)' /\ (role'.synced => known' = admins')
    BY <1>1, <1>4 DEF RoleInv, ChangeInv, Shows
  <2>2. \A g \in Fetches : fetch'[g].after => g = f
    BY <1>2, <1>3
  <2> QED
    BY <1>2, <1>4, <2>1, <2>2 DEF ChangeInv
<1>7. Roles!ListedAfterChange
  BY <1>1 DEF Roles!ListedAfterChange
<1> QED
  BY <1>1, <1>5, <1>6, <1>7, EditStays DEF RoleInv

(* The server lists what the event store knows.                            *)
LEMMA ListsKeeps ==
  ASSUME RoleAssumption, RoleInv, NEW f \in Fetches, Roles!Lists(f)
  PROVE  RoleInv' /\ Roles!ListedAfterChange
<1> DEFINE new == [step |-> "answered", after |-> fetch[f].after,
                   entries |-> [wallets |-> known, labels |-> labels]]
<1>1. /\ UNCHANGED <<admins, known, labels, list, view, role, editing, save>>
      /\ fetch' = [fetch EXCEPT ![f] = new]
  BY DEF Roles!Lists, Roles!server
<1>2. /\ new \in [step : FetchSteps, entries : Roles!Entries, after : BOOLEAN]
      /\ new.after = fetch[f].after /\ new.entries.wallets = known
  BY DEF RoleInv, FormTypes, Roles!Entries, FetchSteps
<1> HIDE DEF new
<1>3. fetch' \in [Fetches -> [step : FetchSteps, entries : Roles!Entries, after : BOOLEAN]]
      /\ fetch'[f] = new /\ \A g \in Fetches \ {f} : fetch'[g] = fetch[g]
  BY <1>1, <1>2 DEF RoleInv, FormTypes
<1>4. FormTypes'
  BY <1>1, <1>3 DEF RoleInv, FormTypes, Roles!Entries, Roles!Texts, FetchSteps
<1>5. \A g \in Fetches : fetch'[g].after <=> fetch[g].after
  BY <1>2, <1>3
<1>6. fetch[f].after /\ role.synced => Shows(known)
  BY DEF RoleInv, ChangeInv, Shows
<1>7. ChangeInv'
  BY <1>1, <1>2, <1>3, <1>5, <1>6 DEF RoleInv, ChangeInv, Shows
<1>8. Roles!ListedAfterChange
  BY <1>1, RoleConstants DEF Roles!ListedAfterChange
<1> QED
  BY <1>1, <1>4, <1>7, <1>8, EditStays DEF RoleInv

(* A fetch ends, with the list or without; what follows a role change ends  *)
(* the change.                                                              *)
LEMMA FetchEnds ==
  ASSUME RoleAssumption, RoleInv, NEW f \in Fetches, Roles!Ends(f),
         UNCHANGED <<admins, known, labels, editing, save>>,
         list' \in Roles!Entries, view' \in [loading : BOOLEAN, error : BOOLEAN]
  PROVE  RoleInv'
<1>1. fetch' \in [Fetches -> [step : FetchSteps, entries : Roles!Entries, after : BOOLEAN]]
      /\ ~fetch'[f].after /\ \A g \in Fetches \ {f} : fetch'[g] = fetch[g]
  BY RoleConstants DEF Roles!Ends, RoleInv, FormTypes
<1>2. role' = (IF fetch[f].after THEN Roles!NoRole ELSE role)
  BY DEF Roles!Ends
<1>3. FormTypes'
  BY <1>1, <1>2, RoleConstants DEF RoleInv, FormTypes, Roles!Entries, Roles!Texts, FetchSteps
<1>4. ChangeInv'
  <2>1. CASE fetch[f].after
    <3>1. role'.step = "none" /\ \A g \in Fetches : ~fetch'[g].after
      BY <1>1, <1>2, <2>1, RoleConstants DEF RoleInv, ChangeInv
    <3> QED
      BY <3>1 DEF ChangeInv
  <2>2. CASE ~fetch[f].after
    BY <1>1, <1>2, <2>2 DEF RoleInv, ChangeInv, Shows
  <2> QED
    BY <2>1, <2>2
<1> QED
  BY <1>3, <1>4, EditStays DEF RoleInv

LEMMA ListedKeeps ==
  ASSUME RoleAssumption, RoleInv, NEW f \in Fetches, Roles!Listed(f) \/ Roles!ListFails(f)
  PROVE  RoleInv' /\ Roles!ListedAfterChange
<1>1. CASE Roles!Listed(f)
  <2>1. /\ UNCHANGED <<admins, known, labels, editing, save>> /\ Roles!Ends(f)
        /\ list' = fetch[f].entries /\ view' = [view EXCEPT !.loading = FALSE]
        /\ fetch[f].step = "answered"
    BY <1>1 DEF Roles!Listed, Roles!server
  <2>2. list' \in Roles!Entries /\ view' \in [loading : BOOLEAN, error : BOOLEAN]
    BY <2>1 DEF RoleInv, FormTypes
  <2>3. RoleInv'
    BY <2>1, <2>2, FetchEnds
  <2>4. Roles!ListedAfterChange
    <3> SUFFICES ASSUME role.step = "listing", role' = Roles!NoRole, role.synced
                 PROVE  Roles!Changed(role.about)
      BY DEF Roles!ListedAfterChange
    <3>1. fetch[f].after
      BY <2>1, RoleConstants DEF Roles!Ends
    <3>2. Shows(list'.wallets)
      BY <2>1, <3>1 DEF RoleInv, ChangeInv, Shows
    <3>3. role.kind \in {"add", "remove"}
      BY DEF RoleInv, FormTypes
    <3> QED
      BY <3>2, <3>3 DEF Shows, Roles!Changed
  <2> QED
    BY <2>3, <2>4
<1>2. CASE Roles!ListFails(f)
  <2>1. /\ UNCHANGED <<admins, known, labels, list, editing, save>> /\ Roles!Ends(f)
        /\ view' = [loading |-> FALSE, error |-> TRUE]
    BY <1>2 DEF Roles!ListFails, Roles!server
  <2>2. list' \in Roles!Entries /\ view' \in [loading : BOOLEAN, error : BOOLEAN] /\ view'.error
    BY <2>1 DEF RoleInv, FormTypes
  <2>3. RoleInv'
    BY <2>1, <2>2, FetchEnds
  <2> QED
    BY <2>2, <2>3 DEF Roles!ListedAfterChange
<1> QED
  BY <1>1, <1>2

(* A role change is asked for, done on the chain, or refused; the store may *)
(* catch up.                                                                *)
LEMMA AskedKeeps ==
  ASSUME RoleAssumption, RoleInv,
         \/ \E w \in RoleWallets : Roles!Add(w) \/ Roles!Remove(w)
         \/ Roles!RoleFails
  PROVE  RoleInv' /\ Roles!ListedAfterChange
<1>1. UNCHANGED <<admins, known, labels, list, fetch, view, editing, save>>
  BY DEF Roles!Add, Roles!Remove, Roles!RoleFails, Roles!server
<1>2. /\ role.step \in {"none", "sent"} /\ role'.step \in {"none", "sent"}
      /\ role' \in [step : {"none", "sent", "done", "listing"}, kind : {"add", "remove"},
                    about : RoleWallets, synced : BOOLEAN]
  <2>1. ASSUME NEW w \in RoleWallets, NEW kind \in {"add", "remove"}, Roles!Asked(kind, w)
        PROVE  /\ role'.step = "sent"
               /\ role' \in [step : {"none", "sent", "done", "listing"}, kind : {"add", "remove"},
                             about : RoleWallets, synced : BOOLEAN]
    BY <2>1 DEF Roles!Asked, Roles!NoRole
  <2> QED
    BY <2>1, RoleConstants DEF Roles!Add, Roles!Remove, Roles!RoleFails
<1>3. FormTypes'
  BY <1>1, <1>2 DEF RoleInv, FormTypes, Roles!Entries, Roles!Texts, FetchSteps
<1>4. ChangeInv'
  BY <1>1, <1>2 DEF RoleInv, ChangeInv
<1>5. Roles!ListedAfterChange
  BY <1>2 DEF Roles!ListedAfterChange
<1> QED
  BY <1>1, <1>3, <1>4, <1>5, EditStays DEF RoleInv

LEMMA ChangedKeeps ==
  ASSUME RoleAssumption, RoleInv, Roles!RoleChanges
  PROVE  RoleInv' /\ Roles!ListedAfterChange
<1>1. /\ UNCHANGED <<labels, list, fetch, view, editing, save>>
      /\ role.step = "sent" /\ (role.about \in admins) = (role.kind = "remove")
      /\ admins' = IF role.kind = "add" THEN admins \union {role.about} ELSE admins \ {role.about}
  BY DEF Roles!RoleChanges
<1>2. PICK synced \in BOOLEAN :
        /\ known' = IF synced THEN admins' ELSE known
        /\ role' = [role EXCEPT !.step = "done", !.synced = synced]
  BY DEF Roles!RoleChanges
<1>3. /\ role' \in [step : {"none", "sent", "done", "listing"}, kind : {"add", "remove"},
                    about : RoleWallets, synced : BOOLEAN]
      /\ role'.about = role.about /\ role'.kind = role.kind /\ role'.synced = synced
      /\ role'.step = "done" /\ role.about \in RoleWallets /\ role.kind \in {"add", "remove"}
  BY <1>2 DEF RoleInv, FormTypes
<1>4. FormTypes'
  BY <1>1, <1>2, <1>3 DEF RoleInv, FormTypes, Roles!Entries, Roles!Texts, FetchSteps
<1>5. Shows(admins)' /\ (role'.synced => known' = admins')
  BY <1>1, <1>2, <1>3 DEF Shows
<1>6. \A g \in Fetches : ~fetch[g].after
  BY <1>1 DEF RoleInv, ChangeInv
<1>7. ChangeInv'
  BY <1>1, <1>5, <1>6 DEF ChangeInv
<1>8. Roles!ListedAfterChange
  BY <1>1 DEF Roles!ListedAfterChange
<1> QED
  BY <1>1, <1>4, <1>7, <1>8, EditStays DEF RoleInv

LEMMA SyncKeeps ==
  ASSUME RoleAssumption, RoleInv, Roles!Sync
  PROVE  RoleInv' /\ Roles!ListedAfterChange
<1>1. UNCHANGED <<admins, labels, list, fetch, view, role, editing, save>> /\ known' = admins
  BY DEF Roles!Sync, Roles!page
<1>2. FormTypes'
  BY <1>1 DEF RoleInv, FormTypes, Roles!Entries, Roles!Texts, FetchSteps
<1>3. ChangeInv'
  BY <1>1 DEF RoleInv, ChangeInv, Shows
<1>4. Roles!ListedAfterChange
  BY <1>1, RoleConstants DEF Roles!ListedAfterChange
<1> QED
  BY <1>1, <1>2, <1>3, <1>4, EditStays DEF RoleInv

(* Labels change nothing of a role.                                        *)
LEMMA LabelKeeps ==
  ASSUME RoleAssumption, RoleInv,
         \/ \E w \in RoleWallets : Roles!StartEditing(w)
         \/ Roles!CancelEditing
         \/ \E s \in Saves, text \in Roles!Texts : Roles!Save(s, text)
         \/ \E s \in Saves : Roles!SetLabel(s) \/ Roles!SetLabelFails(s) \/ Roles!LabelSaved(s)
  PROVE  RoleInv' /\ Roles!ListedAfterChange
<1>1. UNCHANGED <<admins, known, fetch, view, role>>
  BY DEF Roles!StartEditing, Roles!CancelEditing, Roles!Save, Roles!SetLabel, Roles!SetLabelFails,
     Roles!LabelSaved, Roles!server
<1>2. ASSUME NEW s \in Saves PROVE save[s].row \in RoleWallets /\ save[s].text \in Roles!Texts
  BY DEF RoleInv, EditTypes
<1>3. labels' \in [RoleWallets -> Roles!Texts] /\ list' \in Roles!Entries
  <2>1. ASSUME NEW s \in Saves
        PROVE  /\ [labels EXCEPT ![save[s].row] = save[s].text] \in [RoleWallets -> Roles!Texts]
               /\ [list EXCEPT !.labels = [list.labels EXCEPT ![save[s].row] = save[s].text]]
                    \in Roles!Entries
    BY <1>2 DEF RoleInv, FormTypes, Roles!Entries
  <2>2. /\ labels \in [RoleWallets -> Roles!Texts] /\ list \in Roles!Entries
    BY DEF RoleInv, FormTypes
  <2>3. ASSUME NEW s \in Saves, Roles!SetLabel(s) \/ Roles!SetLabelFails(s)
        PROVE  /\ labels' \in {labels, [labels EXCEPT ![save[s].row] = save[s].text]}
               /\ list' = list
    BY <2>3 DEF Roles!SetLabel, Roles!SetLabelFails
  <2>4. ASSUME NEW s \in Saves, Roles!LabelSaved(s)
        PROVE  /\ labels' = labels
               /\ list' \in {list, [list EXCEPT !.labels =
                                      [list.labels EXCEPT ![save[s].row] = save[s].text]]}
    BY <2>4 DEF Roles!LabelSaved, Roles!server
  <2>5. ASSUME \/ \E w \in RoleWallets : Roles!StartEditing(w)
               \/ Roles!CancelEditing
               \/ \E s \in Saves, text \in Roles!Texts : Roles!Save(s, text)
        PROVE  labels' = labels /\ list' = list
    BY <2>5 DEF Roles!StartEditing, Roles!CancelEditing, Roles!Save, Roles!server
  <2> QED
    BY <2>1, <2>2, <2>3, <2>4, <2>5
<1>4. EditTypes'
  <2> USE DEF RoleInv, EditTypes
  <2>1. ASSUME NEW w \in RoleWallets, Roles!StartEditing(w) PROVE EditTypes'
    BY <2>1 DEF Roles!StartEditing, Roles!Texts
  <2>2. CASE Roles!CancelEditing
    BY <2>2 DEF Roles!CancelEditing, Roles!NoEdit, Roles!Texts
  <2>3. ASSUME NEW s \in Saves, NEW text \in Roles!Texts, Roles!Save(s, text) PROVE EditTypes'
    <3>1. editing \in RoleWallets /\ editing' = editing
      BY <2>3 DEF Roles!Save, Roles!NoEdit
    <3>2. save' = [save EXCEPT ![s] = [step |-> "sent", row |-> editing, text |-> text]]
      BY <2>3 DEF Roles!Save
    <3> QED
      BY <3>1, <3>2 DEF Roles!Texts
  <2>4. ASSUME NEW s \in Saves, Roles!SetLabel(s) \/ Roles!SetLabelFails(s) \/ Roles!LabelSaved(s)
        PROVE  EditTypes'
    <3>1. editing' \in RoleWallets \union {Blank}
      BY <2>4 DEF Roles!SetLabel, Roles!SetLabelFails, Roles!LabelSaved, Roles!NoEdit
    <3>2. save' = [save EXCEPT ![s] = Roles!NoSave]
          \/ save' = [save EXCEPT ![s] = [save[s] EXCEPT !.step = "done"]]
      BY <2>4 DEF Roles!SetLabel, Roles!SetLabelFails, Roles!LabelSaved
    <3>3. /\ Roles!NoSave \in [step : {"none", "sent", "done"}, row : RoleWallets,
                             text : Roles!Texts]
          /\ [save[s] EXCEPT !.step = "done"] \in
               [step : {"none", "sent", "done"}, row : RoleWallets, text : Roles!Texts]
      BY RoleConstants
    <3>4. save' \in [Saves -> [step : {"none", "sent", "done"}, row : RoleWallets,
                              text : Roles!Texts]]
      BY <3>2, <3>3
    <3>5. Roles!Texts' = Roles!Texts
      BY DEF Roles!Texts
    <3> QED
      BY <3>1, <3>4, <3>5
  <2> QED
    BY <2>1, <2>2, <2>3, <2>4
<1>5. Roles!ListedAfterChange
  BY <1>1, RoleConstants DEF Roles!ListedAfterChange
<1>6. view' \in [loading : BOOLEAN, error : BOOLEAN]
  BY <1>1 DEF RoleInv, FormTypes
<1> QED
  BY <1>1, <1>3, <1>4, <1>5, <1>6, FormStays, ChangeStays DEF RoleInv

LEMMA RoleStep ==
  ASSUME RoleAssumption, RoleInv, [Roles!Next]_Roles!vars
  PROVE  RoleInv' /\ Roles!ListedAfterChange
<1>1. CASE UNCHANGED Roles!vars
  <2>1. UNCHANGED <<admins, known, labels, list, fetch, view, role, editing, save>>
    BY <1>1 DEF Roles!vars, Roles!server, Roles!page
  <2>2. Roles!ListedAfterChange
    BY <2>1, RoleConstants DEF Roles!ListedAfterChange
  <2>3. FormTypes'
    BY <2>1, FormStays DEF RoleInv, FormTypes
  <2> QED
    BY <2>1, <2>2, <2>3, EditStays, ChangeStays DEF RoleInv
<1> QED
  BY <1>1, RetryKeeps, RefetchKeeps, ListsKeeps, ListedKeeps, AskedKeeps, ChangedKeeps, SyncKeeps,
     LabelKeeps DEF Roles!Next

LEMMA RoleFollows == ASSUME RoleInv PROVE Roles!TypeOK
  BY DEF RoleInv, FormTypes, EditTypes, FetchSteps, Roles!TypeOK

(* The list that ends a role change shows it, whatever other fetch is under *)
(* way, if the server's sync was not given up.                              *)
THEOREM ChangeStaysListed ==
  ASSUME RoleAssumption
  PROVE  Roles!Spec => Roles!ChangeIsListed
<1>1. Roles!Init => RoleInv
  BY RoleInit
<1>2. RoleInv /\ [Roles!Next]_Roles!vars => RoleInv' /\ [Roles!ListedAfterChange]_Roles!vars
  BY RoleStep
<1> QED
  BY <1>1, <1>2, PTL DEF Roles!Spec, Roles!ChangeIsListed

-----------------------------------------------------------------------------
(* SubmissionForm: the action is asked for the wallet the dialog was opened *)
(* for.  Behind it: a dialog that was opened with nothing under way keeps   *)
(* the result it was opened for, because no search starts under a dialog    *)
(* and success closes it before the mark is read again.                     *)

CONSTANTS MarkWallets, NoMark, Others
VARIABLES submitted, result, search, dialog, action, other

Mark == INSTANCE SubmissionForm WITH Wallets <- MarkWallets, Nothing <- NoMark

OpenedInv ==
  dialog # Mark!NoDialog /\ ~dialog.searching =>
    search = Mark!NoSearch /\ result.wallet = dialog.about /\ action.step # "reading"

MarkedInv ==
  /\ result = Mark!NoResult \/ result.wallet \in MarkWallets
  /\ dialog # Mark!NoDialog => result.wallet \in MarkWallets
  /\ search.step # "none" => search.wallet \in MarkWallets
  /\ action.step # "none" => action.wallet \in MarkWallets
  /\ \A o \in Others : other[o] # Mark!NoAction => other[o].wallet \in MarkWallets

MarkInv == Mark!TypeOK /\ MarkedInv /\ OpenedInv

MarkSteps == {"none", "sent", "checked", "marked", "reading"}

LEMMA MarkConstants ==
  /\ Mark!NoAction \in Mark!Actions /\ Mark!NoAction.step = "none"
  /\ Mark!NoSearch \in [step : {"none", "asked", "answered"},
                        wallet : MarkWallets \union {NoMark}, mark : BOOLEAN]
  /\ Mark!NoSearch.step = "none"
  /\ Mark!NoDialog \in [kind : Mark!Kinds, about : MarkWallets \union {NoMark},
                        searching : BOOLEAN]
  BY DEF Mark!NoAction, Mark!Actions, Mark!Kinds, Mark!NoSearch, Mark!NoDialog

LEMMA MarkInit == ASSUME Mark!Init PROVE MarkInv
<1>1. Mark!TypeOK
  BY MarkConstants DEF Mark!Init, Mark!TypeOK, Mark!NoResult
<1>2. MarkedInv /\ OpenedInv
  BY MarkConstants DEF Mark!Init, MarkedInv, OpenedInv
<1> QED
  BY <1>1, <1>2 DEF MarkInv

(* The search.                                                             *)
LEMMA SearchKeeps ==
  ASSUME MarkInv,
         \/ \E w \in MarkWallets : Mark!Search(w)
         \/ Mark!Reads \/ Mark!Found \/ Mark!SearchFails
  PROVE  MarkInv' /\ Mark!AskedAsOpened
<1> USE DEF MarkInv, Mark!TypeOK
<1>1. UNCHANGED <<submitted, dialog, action, other>>
  BY DEF Mark!Search, Mark!Reads, Mark!Found, Mark!SearchFails
<1>0. Mark!AskedAsOpened
  BY <1>1 DEF Mark!AskedAsOpened
<1>2. ASSUME NEW w \in MarkWallets, Mark!Search(w) PROVE MarkInv'
  <2>1. search' \in [step : {"none", "asked", "answered"},
                     wallet : MarkWallets \union {NoMark}, mark : BOOLEAN]
        /\ search'.wallet = w /\ result' = result /\ dialog = Mark!NoDialog
    BY <1>2 DEF Mark!Search, Mark!NoSearch
  <2> QED
    BY <1>1, <2>1 DEF MarkedInv, OpenedInv, Mark!Kinds, Mark!Actions
<1>3. CASE Mark!Reads
  <2>1. search' \in [step : {"none", "asked", "answered"},
                     wallet : MarkWallets \union {NoMark}, mark : BOOLEAN]
        /\ search'.wallet = search.wallet /\ result' = result /\ search.step = "asked"
    <3>1. PICK mark : /\ mark = (search.wallet \in submitted)
                      /\ search' = [search EXCEPT !.step = "answered", !.mark = mark]
      BY <1>3 DEF Mark!Reads
    <3>2. mark \in BOOLEAN
      BY <3>1
    <3> QED
      BY <1>3, <3>1, <3>2 DEF Mark!Reads
  <2>2. OpenedInv'
    BY <1>0, <1>1, <2>1, MarkConstants DEF OpenedInv
  <2> QED
    BY <1>0, <1>1, <2>1, <2>2 DEF MarkedInv, Mark!Kinds, Mark!Actions
<1>4. CASE Mark!Found
  <2>1. /\ result'.wallet = search.wallet /\ search.step = "answered" /\ search' = Mark!NoSearch
        /\ result' \in [wallet : MarkWallets \union {NoMark}, mark : BOOLEAN]
    BY <1>4 DEF Mark!Found
  <2>2. OpenedInv'
    BY <1>0, <1>1, <2>1, MarkConstants DEF OpenedInv
  <2> QED
    BY <1>0, <1>1, <2>1, <2>2, MarkConstants DEF MarkedInv, Mark!Kinds, Mark!Actions
<1>5. CASE Mark!SearchFails
  <2>1. search' = Mark!NoSearch /\ result' = result
    BY <1>5 DEF Mark!SearchFails
  <2> QED
    BY <1>0, <1>1, <2>1, MarkConstants DEF MarkedInv, OpenedInv, Mark!Kinds, Mark!Actions
<1> QED
  BY <1>0, <1>2, <1>3, <1>4, <1>5

(* The dialog.                                                             *)
LEMMA DialogKeeps ==
  ASSUME MarkInv, Mark!Open \/ Mark!Close
  PROVE  MarkInv' /\ Mark!AskedAsOpened
<1> USE DEF MarkInv, Mark!TypeOK
<1>1. UNCHANGED <<submitted, result, search, action, other>>
  BY DEF Mark!Open, Mark!Close
<1>0. Mark!AskedAsOpened
  BY <1>1 DEF Mark!AskedAsOpened
<1>2. CASE Mark!Open
  <2>1. /\ result # Mark!NoResult /\ dialog'.about = result.wallet
        /\ dialog'.searching = (search # Mark!NoSearch \/ action # Mark!NoAction)
        /\ dialog' \in [kind : Mark!Kinds, about : MarkWallets \union {NoMark},
                        searching : BOOLEAN]
    BY <1>2 DEF Mark!Open, Mark!Kinds
  <2>2. OpenedInv'
    BY <1>0, <1>1, <2>1, MarkConstants DEF OpenedInv
  <2> QED
    BY <1>0, <1>1, <2>1, <2>2 DEF MarkedInv, Mark!Kinds, Mark!Actions
<1>3. CASE Mark!Close
  <2>1. dialog' = Mark!NoDialog
    BY <1>3 DEF Mark!Close
  <2> QED
    BY <1>0, <1>1, <2>1, MarkConstants DEF MarkedInv, OpenedInv, Mark!Kinds, Mark!Actions
<1> QED
  BY <1>2, <1>3

LEMMA AfterStays ==
  ASSUME NEW S \in SUBSET MarkWallets, NEW a \in Mark!Actions, a.wallet \in MarkWallets
  PROVE  (IF a.kind = "mark" THEN S \union {a.wallet} ELSE S \ {a.wallet}) \subseteq MarkWallets
  OBVIOUS

(* The action, from the click to the mark read again.                      *)
LEMMA ActionKeeps ==
  ASSUME MarkInv,
         Mark!Confirm \/ Mark!Checked \/ Mark!Marked \/ Mark!Succeeds \/ Mark!ActionFails
  PROVE  MarkInv' /\ Mark!AskedAsOpened
<1> USE DEF MarkInv, Mark!TypeOK
<1>1. UNCHANGED <<result, search, other>>
  BY DEF Mark!Confirm, Mark!Checked, Mark!Marked, Mark!Succeeds, Mark!ActionFails
<1>2. dialog' = dialog \/ dialog' = Mark!NoDialog
  BY DEF Mark!Confirm, Mark!Checked, Mark!Marked, Mark!Succeeds, Mark!ActionFails
<1>3. action' \in Mark!Actions /\ (action'.step # "none" => action'.wallet \in MarkWallets)
  <2>1. CASE Mark!Confirm
    BY <2>1 DEF Mark!Confirm, Mark!Actions, MarkedInv
  <2>2. ASSUME NEW s \in MarkSteps, action' = [action EXCEPT !.step = s], action.step # "none"
        PROVE  action' \in Mark!Actions /\ action'.wallet \in MarkWallets
    BY <2>2 DEF Mark!Actions, MarkedInv, MarkSteps
  <2>3. CASE Mark!ActionFails
    BY <2>3, MarkConstants DEF Mark!ActionFails
  <2> QED
    BY <2>1, <2>2, <2>3 DEF Mark!Checked, Mark!Marked, Mark!Succeeds, MarkSteps
<1>4. submitted' \subseteq MarkWallets
  <2>1. CASE Mark!Marked
    <3>1. action.wallet \in MarkWallets
      BY <2>1 DEF Mark!Marked, MarkedInv
    <3> QED
      BY <2>1, <3>1, AfterStays DEF Mark!Marked, Mark!After
  <2> QED
    BY <2>1 DEF Mark!Confirm, Mark!Checked, Mark!Succeeds, Mark!ActionFails
<1>5. OpenedInv'
  <2>1. CASE dialog' = Mark!NoDialog
    BY <2>1 DEF OpenedInv, Mark!NoDialog
  <2>2. CASE dialog' # Mark!NoDialog
    <3>1. dialog' = dialog /\ action'.step # "reading"
      BY <1>2, <2>2, MarkConstants DEF Mark!Confirm, Mark!Checked, Mark!Marked, Mark!Succeeds,
         Mark!ActionFails, Mark!Actions
    <3> QED
      BY <1>1, <3>1 DEF OpenedInv, Mark!NoDialog, Mark!NoSearch
  <2> QED
    BY <2>1, <2>2
<1>6. MarkedInv'
  BY <1>1, <1>2, <1>3 DEF MarkedInv, Mark!NoDialog, Mark!NoResult, Mark!NoAction
<1>7. Mark!TypeOK'
  BY <1>1, <1>2, <1>3, <1>4, MarkConstants DEF Mark!Kinds, Mark!Actions
<1>8. Mark!AskedAsOpened
  <2> SUFFICES ASSUME action = Mark!NoAction, action' # Mark!NoAction
               PROVE  dialog.searching \/ action'.wallet = dialog.about
    BY DEF Mark!AskedAsOpened
  <2>1. Mark!Confirm
    BY MarkConstants DEF Mark!Checked, Mark!Marked, Mark!Succeeds, Mark!ActionFails
  <2> QED
    BY <2>1 DEF Mark!Confirm, OpenedInv
<1> QED
  BY <1>5, <1>6, <1>7, <1>8

LEMMA UpdatedKeeps ==
  ASSUME MarkInv, Mark!Updated
  PROVE  MarkInv' /\ Mark!AskedAsOpened
<1> USE DEF MarkInv, Mark!TypeOK
<1>1. /\ UNCHANGED <<submitted, search, dialog, other>> /\ action' = Mark!NoAction
      /\ action.step = "reading" /\ result'.wallet = action.wallet
      /\ result' \in [wallet : MarkWallets \union {NoMark}, mark : BOOLEAN]
  BY DEF Mark!Updated, Mark!Actions
<1>2. OpenedInv'
  BY <1>1 DEF OpenedInv
<1>3. MarkedInv'
  BY <1>1, MarkConstants DEF MarkedInv
<1>4. Mark!TypeOK'
  BY <1>1, MarkConstants DEF Mark!Kinds, Mark!Actions
<1>5. Mark!AskedAsOpened
  BY <1>1 DEF Mark!AskedAsOpened
<1> QED
  BY <1>2, <1>3, <1>4, <1>5

(* The other dashboards.                                                   *)
LEMMA OthersKeep ==
  ASSUME MarkInv, NEW o \in Others,
         \/ \E kind \in {"mark", "unmark"}, w \in MarkWallets : Mark!OtherStarts(o, kind, w)
         \/ Mark!OtherEnds(o)
  PROVE  MarkInv' /\ Mark!AskedAsOpened
<1> USE DEF MarkInv, Mark!TypeOK
<1>1. UNCHANGED <<result, search, dialog, action>>
  BY DEF Mark!OtherStarts, Mark!OtherEnds
<1>2. PICK new \in Mark!Actions : /\ new # Mark!NoAction => new.wallet \in MarkWallets
                                  /\ other' = [other EXCEPT ![o] = new]
  <2>1. ASSUME NEW kind \in {"mark", "unmark"}, NEW w \in MarkWallets
        PROVE  /\ [step |-> "checked", kind |-> kind, wallet |-> w] \in Mark!Actions
               /\ [step |-> "checked", kind |-> kind, wallet |-> w].wallet \in MarkWallets
    BY DEF Mark!Actions, Mark!Kinds
  <2>2. CASE Mark!OtherEnds(o)
    BY <2>2, MarkConstants DEF Mark!OtherEnds
  <2> QED
    BY <2>1, <2>2 DEF Mark!OtherStarts
<1>3. submitted' \subseteq MarkWallets
  <2>1. CASE Mark!OtherEnds(o)
    <3>1. other[o] \in Mark!Actions /\ other[o] # Mark!NoAction
      BY <2>1 DEF Mark!OtherEnds
    <3>2. other[o].wallet \in MarkWallets
      BY <3>1 DEF MarkedInv
    <3> QED
      BY <2>1, <3>1, <3>2, AfterStays DEF Mark!OtherEnds, Mark!After
  <2> QED
    BY <2>1 DEF Mark!OtherStarts
<1>4. OpenedInv'
  BY <1>1 DEF OpenedInv
<1>5. MarkedInv'
  BY <1>1, <1>2 DEF MarkedInv, Mark!NoResult, Mark!NoDialog, Mark!NoAction
<1>6. Mark!TypeOK'
  BY <1>1, <1>2, <1>3 DEF Mark!Kinds, Mark!Actions
<1>7. Mark!AskedAsOpened
  BY <1>1 DEF Mark!AskedAsOpened
<1> QED
  BY <1>4, <1>5, <1>6, <1>7

LEMMA MarkStep ==
  ASSUME MarkInv, [Mark!Next]_Mark!vars
  PROVE  MarkInv' /\ Mark!AskedAsOpened
<1>1. CASE UNCHANGED Mark!vars
  BY <1>1 DEF Mark!vars, MarkInv, Mark!TypeOK, MarkedInv, OpenedInv, Mark!AskedAsOpened,
     Mark!NoResult, Mark!NoDialog, Mark!NoSearch, Mark!Kinds, Mark!Actions
<1> QED
  BY <1>1, SearchKeeps, DialogKeeps, ActionKeeps, UpdatedKeeps, OthersKeep DEF Mark!Next

LEMMA MarkFollows == ASSUME MarkInv PROVE Mark!TypeOK
  BY DEF MarkInv

(* What is confirmed is asked for the wallet the dialog was opened for,     *)
(* unless a search or an earlier action was under way by then.              *)
THEOREM ConfirmedStaysOpened == Mark!Spec => Mark!ConfirmedIsOpened
<1>1. Mark!Init => MarkInv
  BY MarkInit
<1>2. MarkInv /\ [Mark!Next]_Mark!vars => MarkInv' /\ [Mark!AskedAsOpened]_Mark!vars
  BY MarkStep
<1> QED
  BY <1>1, <1>2, PTL DEF Mark!Spec, Mark!ConfirmedIsOpened

-----------------------------------------------------------------------------
(* AwardForm: what is shown when the award button works is of the wallet   *)
(* that will be paid.  Behind it: only the lookup of the address typed last *)
(* counts, while it runs the button does not work, and from the dialog on   *)
(* the address stays.                                                       *)

CONSTANTS Addresses, NoAddress, AwardSurveys, NoSurvey
VARIABLES active, awarded, picked, address, previewLookups, preview, previewLoading, awardStep

Form == INSTANCE AwardForm WITH
  Blank <- NoAddress, Surveys <- AwardSurveys, paid <- awarded, lookups <- previewLookups,
  step <- awardStep

FormInv ==
  /\ Form!TypeOK
  /\ \A l \in previewLookups : l.live => l.of = address /\ previewLoading
  /\ preview.claimed \subseteq Form!ClaimedBy(preview.of)
  /\ ~previewLoading => preview = Form!NoPreview \/ preview.of = address
  /\ awardStep # "edit" => address \in Addresses /\ picked \in AwardSurveys /\ ~previewLoading

LEMMA FormInit == ASSUME NoAddress \notin Addresses, Form!Init PROVE FormInv
  BY DEF Form!Init, FormInv, Form!TypeOK, Form!NoPreview, Form!Steps, Form!ClaimedBy

(* A new address cancels the lookups under way.                            *)
LEMMA TypedAnew ==
  ASSUME FormInv, NEW a \in Addresses \union {NoAddress}, Form!Typed(a)
  PROVE  /\ address' = a
         /\ previewLookups' \subseteq [of : Addresses, live : BOOLEAN]
         /\ \A l \in previewLookups' : l.live => l.of = a /\ previewLoading'
         /\ preview' = preview \/ preview' = Form!NoPreview
         /\ ~previewLoading' => preview' = Form!NoPreview
         /\ previewLoading' \in BOOLEAN
<1>1. previewLookups \subseteq [of : Addresses, live : BOOLEAN] /\ previewLoading \in BOOLEAN
  BY DEF FormInv, Form!TypeOK
<1>2. \A l \in previewLookups : /\ [l EXCEPT !.live = FALSE] \in [of : Addresses, live : BOOLEAN]
                                /\ ~[l EXCEPT !.live = FALSE].live
  BY <1>1
<1>3. a # NoAddress => [of |-> a, live |-> TRUE] \in [of : Addresses, live : BOOLEAN]
  OBVIOUS
<1>4. previewLookups' \subseteq [of : Addresses, live : BOOLEAN]
  BY <1>2, <1>3 DEF Form!Typed
<1>5. \A l \in previewLookups' : l.live => l = [of |-> a, live |-> TRUE] /\ a # NoAddress
  BY <1>2 DEF Form!Typed
<1>6. previewLoading' \in BOOLEAN /\ (previewLoading' <=> a # NoAddress \/ previewLoading)
  BY <1>1 DEF Form!Typed
<1> QED
  BY <1>4, <1>5, <1>6 DEF Form!Typed

(* An award is never taken back here, so what was read of an address stays *)
(* claimed.                                                                *)
LEMMA ClaimsGrow ==
  ASSUME FormInv, awarded \subseteq awarded', preview' = preview \/ preview' = Form!NoPreview
  PROVE  (preview.claimed \subseteq Form!ClaimedBy(preview.of))'
<1>1. CASE preview' = preview
  BY <1>1 DEF FormInv, Form!ClaimedBy
<1>2. CASE preview' = Form!NoPreview
  BY <1>2 DEF Form!NoPreview
<1> QED
  BY <1>1, <1>2

LEMMA FormStep == ASSUME FormInv, [Form!Next]_Form!vars PROVE FormInv'
<1> USE DEF FormInv
<1>1. ASSUME NEW s \in AwardSurveys, Form!ListChanges(s) \/ Form!Pick(s) PROVE FormInv'
  BY <1>1 DEF Form!ListChanges, Form!Pick, Form!TypeOK, Form!ClaimedBy, Form!NoPreview
<1>2. ASSUME NEW a \in Addresses \union {NoAddress}, Form!Type(a) PROVE FormInv'
  <2>1. Form!TypeOK'
    BY <1>2, TypedAnew DEF Form!Type, Form!TypeOK, Form!NoPreview
  <2>2. (preview.claimed \subseteq Form!ClaimedBy(preview.of))'
    BY <1>2, TypedAnew, ClaimsGrow DEF Form!Type
  <2> QED
    BY <1>2, <2>1, <2>2, TypedAnew DEF Form!Type, Form!NoPreview
<1>3. ASSUME NEW l \in previewLookups, Form!PreviewAnswers(l) PROVE FormInv'
  <2>1. l \in [of : Addresses, live : BOOLEAN] /\ Form!Took(l).of = l.of
        /\ Form!Took(l).claimed = Form!ClaimedBy(l.of)
        /\ Form!ClaimedBy(l.of) \subseteq AwardSurveys
        /\ Form!Took(l) \in [of : Addresses \union {NoAddress}, claimed : SUBSET AwardSurveys]
    BY DEF Form!TypeOK, Form!Took, Form!ClaimedBy
  <2>2. \A x : Form!ClaimedBy(x)' = Form!ClaimedBy(x)
    BY <1>3 DEF Form!PreviewAnswers, Form!ClaimedBy
  <2>3. CASE l.live
    <3>1. preview' = Form!Took(l) /\ previewLoading' = FALSE /\ l.of = address
      BY <1>3, <2>3 DEF Form!PreviewAnswers
    <3>2. \A m \in previewLookups' : ~m.live
      <4> SUFFICES ASSUME NEW m \in previewLookups', m.live PROVE FALSE
        BY DEF Form!TypeOK
      <4>1. m \in previewLookups /\ m # l
        BY <1>3 DEF Form!PreviewAnswers
      <4>2. m \in [of : Addresses, live : BOOLEAN] /\ m.live = TRUE /\ l.live = TRUE /\ m.of = l.of
        BY <2>1, <2>3, <3>1, <4>1 DEF Form!TypeOK
      <4> QED
        BY <2>1, <4>1, <4>2
    <3> QED
      BY <1>3, <2>1, <2>2, <3>1, <3>2 DEF Form!PreviewAnswers, Form!TypeOK
  <2>4. CASE ~l.live
    BY <1>3, <2>2, <2>4 DEF Form!PreviewAnswers, Form!TypeOK
  <2> QED
    BY <2>3, <2>4
<1>4. ASSUME NEW l \in previewLookups, Form!PreviewFails(l) PROVE FormInv'
  <2>1. l \in [of : Addresses, live : BOOLEAN]
    BY DEF Form!TypeOK
  <2>2. \A x : Form!ClaimedBy(x)' = Form!ClaimedBy(x)
    BY <1>4 DEF Form!PreviewFails, Form!ClaimedBy
  <2>3. CASE l.live
    <3>1. preview' = Form!NoPreview /\ previewLoading' = FALSE /\ l.of = address
      BY <1>4, <2>3 DEF Form!PreviewFails
    <3>2. \A m \in previewLookups' : ~m.live
      <4> SUFFICES ASSUME NEW m \in previewLookups', m.live PROVE FALSE
        BY DEF Form!TypeOK
      <4>1. m \in previewLookups /\ m # l
        BY <1>4 DEF Form!PreviewFails
      <4>2. m \in [of : Addresses, live : BOOLEAN] /\ m.live = TRUE /\ l.live = TRUE /\ m.of = l.of
        BY <2>1, <2>3, <3>1, <4>1 DEF Form!TypeOK
      <4> QED
        BY <2>1, <4>1, <4>2
    <3> QED
      BY <1>4, <3>1, <3>2 DEF Form!PreviewFails, Form!TypeOK, Form!NoPreview
  <2>4. CASE ~l.live
    BY <1>4, <2>2, <2>4 DEF Form!PreviewFails, Form!TypeOK
  <2> QED
    BY <2>3, <2>4
<1>5. CASE Form!OpenConfirm \/ Form!Cancel \/ Form!Confirm
  BY <1>5 DEF Form!OpenConfirm, Form!Cancel, Form!Confirm, Form!CanAward, Form!TypeOK, Form!Steps,
     Form!ClaimedBy, Form!NoPreview
<1>6. CASE Form!Failed \/ Form!Awarded
  <2>1. address \in Addresses /\ picked \in AwardSurveys /\ awarded \subseteq awarded'
        /\ awarded' \subseteq [to : Addresses, survey : AwardSurveys]
    BY <1>6 DEF Form!Failed, Form!Awarded, Form!TypeOK
  <2>2. CASE Form!Failed
    <3>1. (preview.claimed \subseteq Form!ClaimedBy(preview.of))'
      BY <2>1, <2>2, ClaimsGrow DEF Form!Failed
    <3> QED
      BY <2>1, <2>2, <3>1 DEF Form!Failed, Form!TypeOK, Form!Steps, Form!NoPreview
  <2>3. CASE Form!Awarded
    <3>1. (preview.claimed \subseteq Form!ClaimedBy(preview.of))'
      BY <2>1, <2>3, ClaimsGrow, TypedAnew DEF Form!Awarded
    <3>2. Form!TypeOK'
      BY <2>1, <2>3, TypedAnew DEF Form!Awarded, Form!TypeOK, Form!NoPreview, Form!Steps
    <3> QED
      BY <2>3, <3>1, <3>2, TypedAnew DEF Form!Awarded, Form!NoPreview
  <2> QED
    BY <1>6, <2>2, <2>3
<1>7. CASE UNCHANGED Form!vars
  BY <1>7 DEF Form!vars, Form!TypeOK, Form!ClaimedBy, Form!NoPreview
<1> QED
  BY <1>1, <1>2, <1>3, <1>4, <1>5, <1>6, <1>7 DEF Form!Next

LEMMA FormFollows == ASSUME FormInv PROVE Form!TypeOK /\ Form!PreviewIsOfTheAddress
  BY DEF FormInv, Form!PreviewIsOfTheAddress, Form!CanAward, Form!NoPreview, Form!TypeOK

(* The late answer about an address typed before is not what the admin     *)
(* confirms.                                                               *)
THEOREM PreviewIsOfThePaid ==
  ASSUME NoAddress \notin Addresses
  PROVE  Form!Spec => [](Form!TypeOK /\ Form!PreviewIsOfTheAddress)
<1>1. Form!Init => FormInv
  BY FormInit
<1>2. FormInv /\ [Form!Next]_Form!vars => FormInv'
  BY FormStep
<1>3. FormInv => Form!TypeOK /\ Form!PreviewIsOfTheAddress
  BY FormFollows
<1> QED
  BY <1>1, <1>2, <1>3, PTL DEF Form!Spec

-----------------------------------------------------------------------------
(* AdminPage: the dashboard opens for a wallet only on an answer about its  *)
(* role.  Behind it: an accepted answer is about the wallet shown, since    *)
(* whatever shows another wallet starts the check anew.                     *)

CONSTANTS GateWallets, NoOne
VARIABLES
  gateWallet, gateAdmins, adminCheck, roleLookups, checkOf, authenticated, authFailed,
  loggedOut, authStep, authFor, cookie, call, leaving

Gate == INSTANCE AdminPage WITH
  Wallets <- GateWallets, Nobody <- NoOne, wallet <- gateWallet, admins <- gateAdmins,
  lookups <- roleLookups

GateInv ==
  /\ Gate!TypeOK
  /\ adminCheck = "admin" => checkOf = gateWallet

LEMMA GateInit == ASSUME NoOne \notin GateWallets, Gate!Init PROVE GateInv
<1>1. \A w \in GateWallets : [of |-> w, live |-> TRUE] \in [of : GateWallets, live : BOOLEAN]
  OBVIOUS
<1>2. /\ roleLookups \subseteq [of : GateWallets, live : BOOLEAN]
      /\ \A l \in roleLookups : l.of = gateWallet
  <2>1. CASE gateWallet = NoOne
    BY <2>1 DEF Gate!Init
  <2>2. CASE gateWallet \in GateWallets
    <3>1. roleLookups = {[of |-> gateWallet, live |-> TRUE]}
      BY <2>2 DEF Gate!Init
    <3> QED
      BY <1>1, <2>2, <3>1
  <2> QED
    BY <2>1, <2>2 DEF Gate!Init
<1> QED
  BY <1>2 DEF Gate!Init, GateInv, Gate!TypeOK

(* Starting a lookup cancels those under way.                              *)
LEMMA LookupStarts ==
  ASSUME GateInv, NEW w \in GateWallets \union {NoOne}, gateWallet' = w, Gate!StartLookup(w)
  PROVE  /\ adminCheck' = "loading"
         /\ roleLookups' \subseteq [of : GateWallets, live : BOOLEAN]
         /\ \A l \in roleLookups' : l.live => l.of = w
<1> DEFINE cancelled == {[l EXCEPT !.live = FALSE] : l \in roleLookups}
           new == IF w = NoOne THEN {} ELSE {[of |-> w, live |-> TRUE]}
<1>1. roleLookups \subseteq [of : GateWallets, live : BOOLEAN]
  BY DEF GateInv, Gate!TypeOK
<1>2. cancelled \subseteq [of : GateWallets, live : BOOLEAN] /\ \A l \in cancelled : ~l.live
  BY <1>1
<1>3. new \subseteq [of : GateWallets, live : BOOLEAN] /\ \A l \in new : l.of = w
  <2>1. CASE w = NoOne
    BY <2>1
  <2>2. CASE w \in GateWallets
    <3>1. new \subseteq {[of |-> w, live |-> TRUE]}
      OBVIOUS
    <3>2. [of |-> w, live |-> TRUE] \in [of : GateWallets, live : BOOLEAN]
          /\ [of |-> w, live |-> TRUE].of = w
      BY <2>2
    <3>3. \A l \in new : l = [of |-> w, live |-> TRUE]
      BY <3>1
    <3> HIDE DEF new
    <3> QED
      BY <3>2, <3>3
  <2> QED
    BY <2>1, <2>2
<1>4. adminCheck' = "loading" /\ roleLookups' = cancelled \union new
  BY DEF Gate!StartLookup
<1> QED
  BY <1>2, <1>3, <1>4

LEMMA GateStep == ASSUME GateInv, [Gate!Next]_Gate!vars PROVE GateInv'
<1> USE DEF GateInv
<1>1. ASSUME NEW w \in GateWallets \union {NoOne}, Gate!ShowWallet(w) PROVE GateInv'
  BY <1>1, LookupStarts DEF Gate!ShowWallet, Gate!netVars, Gate!TypeOK
<1>2. ASSUME NEW w \in GateWallets, Gate!RoleChanges(w) PROVE GateInv'
  BY <1>2 DEF Gate!RoleChanges, Gate!roleVars, Gate!authVars, Gate!netVars, Gate!TypeOK
<1>3. ASSUME NEW l \in roleLookups, Gate!LookupAnswers(l) \/ Gate!LookupFails(l) PROVE GateInv'
  BY <1>3 DEF Gate!LookupAnswers, Gate!LookupFails, Gate!authVars, Gate!netVars, Gate!TypeOK
<1>4. CASE Gate!RetryCheck
  BY <1>4, LookupStarts DEF Gate!RetryCheck, Gate!authVars, Gate!netVars, Gate!TypeOK
<1>5. CASE Gate!RetryAuth \/ Gate!AutoAuth
  BY <1>5 DEF Gate!RetryAuth, Gate!AutoAuth, Gate!HandleAuth, Gate!roleVars, Gate!netVars,
     Gate!TypeOK
<1>6. CASE Gate!SessionAnswers \/ Gate!Signs \/ Gate!LoggedIn \/ Gate!AuthFails
  BY <1>6 DEF Gate!SessionAnswers, Gate!Signs, Gate!LoggedIn, Gate!AuthFails, Gate!roleVars,
     Gate!netVars, Gate!TypeOK
<1>7. CASE Gate!SessionExpires \/ Gate!Call \/ Gate!CallReturns
  BY <1>7 DEF Gate!SessionExpires, Gate!Call, Gate!CallReturns, Gate!roleVars, Gate!authVars,
     Gate!TypeOK
<1>8. CASE Gate!Logout \/ Gate!LogoutReturns
  BY <1>8 DEF Gate!Logout, Gate!LogoutReturns, Gate!roleVars, Gate!authVars, Gate!TypeOK
<1>9. CASE UNCHANGED Gate!vars
  BY <1>9 DEF Gate!vars, Gate!roleVars, Gate!authVars, Gate!netVars, Gate!TypeOK
<1> QED
  BY <1>1, <1>2, <1>3, <1>4, <1>5, <1>6, <1>7, <1>8, <1>9 DEF Gate!Next, Gate!Event

LEMMA GateFollows == ASSUME GateInv PROVE Gate!TypeOK /\ Gate!DashboardOfAdmin
  BY DEF GateInv, Gate!DashboardOfAdmin, Gate!Dashboard

(* The late answer about the account MetaMask showed before does not open  *)
(* the dashboard.                                                          *)
THEOREM DashboardIsOfAdmin ==
  ASSUME NoOne \notin GateWallets
  PROVE  Gate!Spec => [](Gate!TypeOK /\ Gate!DashboardOfAdmin)
<1>1. Gate!Init => GateInv
  BY GateInit
<1>2. GateInv /\ [Gate!Next]_Gate!vars => GateInv'
  BY GateStep
<1>3. GateInv => Gate!TypeOK /\ Gate!DashboardOfAdmin
  BY GateFollows
<1> QED
  BY <1>1, <1>2, <1>3, PTL DEF Gate!Spec

-----------------------------------------------------------------------------
(* SurveyDesk: the banner of the template dialog is true.  Behind it: a     *)
(* survey stays registered, so that a list as old as before the last change *)
(* names none that is not, and a rotated key stays rotated.                 *)

CONSTANTS Ids, NoDialog, MaxCalls
VARIABLES server, before, rotated, surveys, openFor, busy, callStep, freshMode, formId

Desk == INSTANCE SurveyDesk WITH None <- NoDialog, dialog <- openFor, step <- callStep

DeskAssumption == NoDialog \notin Ids /\ \E n \in Nat : Ids = 1 .. n

RowDialogs == Desk!Dialogs \ {"register"}

DeskTypes ==
  /\ server \in Desk!Lists /\ before \in Desk!Lists /\ surveys \in Desk!Lists
  /\ rotated \subseteq Ids /\ formId \in Nat
  /\ openFor \in [Desk!Dialogs -> Ids \union {NoDialog} \union Nat]
  /\ \A d \in RowDialogs : openFor[d] \in Ids \union {NoDialog}
  /\ openFor["register"] \in {NoDialog, formId}
  /\ freshMode \in {"none", "registered", "regenerated"}

CallTypes ==
  /\ busy \in [Desk!Dialogs -> Ids \union {NoDialog}]
  /\ callStep \in [Desk!Dialogs -> {"idle", "call", "list"}]
  /\ \A d \in Desk!Dialogs : busy[d] = NoDialog <=> callStep[d] = "idle"

DeskInv ==
  /\ DeskTypes
  /\ CallTypes
  /\ \A i \in Ids : before[i] # "none" => server[i] # "none"
  /\ Desk!BannerIsTrue

(* The largest of some ids, by the least distance from above.              *)
LEMMA LargestId ==
  ASSUME NEW n \in Nat, NEW S, S \subseteq 1 .. n, S # {}
  PROVE  Desk!Max(S) \in S
<1> DEFINE T == {n - x : x \in S}
<1>1. T \subseteq Nat /\ T # {}
  <2>1. \A x \in S : x \in 1 .. n
    OBVIOUS
  <2>2. \A x \in 1 .. n : n - x \in Nat
    OBVIOUS
  <2>3. T \subseteq Nat
    BY <2>1, <2>2
  <2>4. T # {}
    OBVIOUS
  <2> QED
    BY <2>3, <2>4
<1> HIDE DEF T
<1>2. PICK m \in T : \A y \in T : ~(<<y, m>> \in OpToRel(<, Nat))
  BY <1>1, NatLessThanWellFounded, WFMin
<1>3. \A y \in T : ~(y < m)
  BY <1>1, <1>2 DEF OpToRel
<1>4. PICK x \in S : m = n - x
  BY <1>2 DEF T
<1>5. \A y \in S : x >= y
  <2> SUFFICES ASSUME NEW y \in S PROVE x >= y
    OBVIOUS
  <2>1. n - y \in T
    BY DEF T
  <2>2. ~(n - y < n - x)
    BY <1>3, <1>4, <2>1
  <2>3. x \in Nat /\ y \in Nat
    OBVIOUS
  <2> QED
    BY <2>2, <2>3
<1> QED
  BY <1>5 DEF Desk!Max

LEMMA NextIdIsNumber ==
  ASSUME DeskAssumption, NEW rows \in Desk!Lists
  PROVE  Desk!NextSurveyId(rows) \in Nat
<1>1. PICK n \in Nat : Ids = 1 .. n
  BY DEF DeskAssumption
<1> DEFINE ids == {i \in Ids : rows[i] # "none"}
<1>0. Desk!NextSurveyId(rows) = IF ids = {} THEN 1 ELSE Desk!Max(ids) + 1
  BY DEF Desk!NextSurveyId
<1>2. CASE ids = {}
  <2> HIDE DEF ids
  <2> QED
    BY <1>0, <1>2
<1>3. CASE ids # {}
  <2>1. Desk!Max(ids) \in ids /\ ids \subseteq Nat
    BY <1>1, <1>3, LargestId
  <2>2. Desk!NextSurveyId(rows) = Desk!Max(ids) + 1
    BY <1>0, <1>3
  <2> HIDE DEF ids
  <2>3. Desk!Max(ids) \in Nat
    BY <2>1
  <2> QED
    BY <2>2, <2>3
<1> QED
  BY <1>2, <1>3

LEMMA DeskInit == ASSUME DeskAssumption, Desk!Init PROVE DeskInv
<1>1. DeskTypes
  BY DEF Desk!Init, DeskTypes, Desk!Lists, Desk!Dialogs, RowDialogs
<1>2. CallTypes
  BY DEF Desk!Init, CallTypes, Desk!Dialogs
<1> QED
  BY <1>1, <1>2 DEF Desk!Init, DeskInv, Desk!BannerIsTrue, Desk!Dialogs

(* A call ends.                                                            *)
LEMMA CallEnds ==
  ASSUME CallTypes, NEW d \in Desk!Dialogs, Desk!Idle(d)
  PROVE  CallTypes'
  BY DEF CallTypes, Desk!Idle, Desk!Dialogs

LEMMA CallStays == ASSUME CallTypes, UNCHANGED <<busy, callStep>> PROVE CallTypes'
  BY DEF CallTypes, Desk!Dialogs

(* A survey changes its state on the server; the lists shown do not.        *)
LEMMA ServerChanges ==
  ASSUME DeskTypes, NEW i \in Ids, NEW state \in {"active", "inactive"}, Desk!Becomes(i, state)
  PROVE  /\ server' \in Desk!Lists /\ before' \in Desk!Lists
         /\ \A j \in Ids : server[j] # "none" => server'[j] # "none"
         /\ \A j \in Ids : before'[j] # "none" => server'[j] # "none"
  BY DEF DeskTypes, Desk!Becomes, Desk!Lists

\* Opening and closing.
LEMMA OpenStep ==
  ASSUME DeskAssumption, DeskInv,
         \/ \E d \in Desk!Dialogs, i \in Ids : Desk!Open(d, i)
         \/ Desk!OpenRegister
         \/ \E i \in Ids : Desk!EditId(i)
         \/ \E d \in Desk!Dialogs : Desk!Close(d)
  PROVE  DeskInv'
<1> USE DEF DeskInv, DeskTypes, Desk!Dialogs, RowDialogs
<1>1. ASSUME NEW d \in Desk!Dialogs, NEW i \in Ids, Desk!Open(d, i) PROVE DeskInv'
  <2>1. UNCHANGED <<server, before, rotated, surveys, busy, callStep, formId>>
        /\ d \in RowDialogs
        /\ openFor' = [openFor EXCEPT ![d] = i]
        /\ freshMode' = (IF d = "template" THEN "none" ELSE freshMode)
    BY <1>1 DEF Desk!Open, Desk!Offered
  <2>2. DeskTypes'
    BY <2>1 DEF Desk!Lists
  <2>3. Desk!BannerIsTrue'
    BY <2>1 DEF Desk!BannerIsTrue
  <2> QED
    BY <2>1, <2>2, <2>3, CallStays
<1>2. CASE Desk!OpenRegister
  <2>1. UNCHANGED <<server, before, rotated, surveys, busy, callStep, freshMode>>
        /\ formId' \in Nat
        /\ openFor' = [openFor EXCEPT !["register"] = formId']
    BY <1>2, NextIdIsNumber DEF Desk!OpenRegister
  <2>2. DeskTypes'
    BY <2>1 DEF Desk!Lists
  <2>3. Desk!BannerIsTrue'
    BY <2>1 DEF Desk!BannerIsTrue
  <2> QED
    BY <2>1, <2>2, <2>3, CallStays
<1>3. ASSUME NEW i \in Ids, Desk!EditId(i) PROVE DeskInv'
  <2>1. UNCHANGED <<server, before, rotated, surveys, busy, callStep, freshMode>>
        /\ formId' = i /\ i \in Nat
        /\ openFor' = [openFor EXCEPT !["register"] = i]
    BY <1>3 DEF Desk!EditId, DeskAssumption
  <2>2. DeskTypes'
    BY <2>1 DEF Desk!Lists
  <2>3. Desk!BannerIsTrue'
    BY <2>1 DEF Desk!BannerIsTrue
  <2> QED
    BY <2>1, <2>2, <2>3, CallStays
<1>4. ASSUME NEW d \in Desk!Dialogs, Desk!Close(d) PROVE DeskInv'
  <2>1. UNCHANGED <<server, before, rotated, surveys, busy, callStep, formId>>
        /\ openFor' = [openFor EXCEPT ![d] = NoDialog]
        /\ freshMode' = (IF d = "template" THEN "none" ELSE freshMode)
    BY <1>4 DEF Desk!Close
  <2>2. DeskTypes'
    BY <2>1 DEF Desk!Lists
  <2>3. Desk!BannerIsTrue'
    BY <2>1 DEF Desk!BannerIsTrue
  <2> QED
    BY <2>1, <2>2, <2>3, CallStays
<1> QED
  BY <1>1, <1>2, <1>3, <1>4

\* A call starts, fails, or ends with nothing but its dialog.
LEMMA CallStep ==
  ASSUME DeskAssumption, DeskInv,
         \/ \E d \in Desk!Dialogs : Desk!Confirm(d) \/ Desk!CallFails(d)
         \/ Desk!Downloaded
  PROVE  DeskInv'
<1>1. UNCHANGED <<server, before, rotated, surveys, openFor, freshMode, formId>>
  BY DEF Desk!Confirm, Desk!CallFails, Desk!Downloaded
<1>2. CallTypes'
  <2>1. ASSUME NEW d \in Desk!Dialogs, Desk!Confirm(d) PROVE CallTypes'
    <3>1. openFor[d] \in Ids /\ busy' = [busy EXCEPT ![d] = openFor[d]]
          /\ callStep' = [callStep EXCEPT ![d] = "call"]
      BY <2>1 DEF Desk!Confirm, DeskInv, DeskTypes, RowDialogs
    <3> QED
      BY <3>1 DEF DeskInv, CallTypes, DeskAssumption
  <2>2. ASSUME NEW d \in Desk!Dialogs, Desk!CallFails(d) PROVE CallTypes'
    BY <2>2, CallEnds DEF Desk!CallFails, DeskInv
  <2>3. CASE Desk!Downloaded
    BY <2>3, CallEnds DEF Desk!Downloaded, DeskInv, Desk!Dialogs
  <2> QED
    BY <2>1, <2>2, <2>3
<1>3. DeskTypes'
  BY <1>1 DEF DeskInv, DeskTypes, Desk!Lists
<1> QED
  BY <1>1, <1>2, <1>3 DEF DeskInv, Desk!BannerIsTrue

\* The server does what was asked for.
LEMMA ServedStep ==
  ASSUME DeskAssumption, DeskInv,
         \/ Desk!Deactivated \/ Desk!Regenerated \/ Desk!Registered
         \/ \E i \in Ids : Desk!Reactivate(i)
  PROVE  DeskInv'
<1> USE DEF DeskInv
<1>1. CASE Desk!Deactivated
  <2>1. busy["deactivate"] \in Ids
    BY <1>1 DEF Desk!Deactivated, CallTypes, Desk!Dialogs
  <2>2. /\ server' \in Desk!Lists /\ before' \in Desk!Lists
        /\ \A j \in Ids : server[j] # "none" => server'[j] # "none"
        /\ \A j \in Ids : before'[j] # "none" => server'[j] # "none"
    BY <1>1, <2>1, ServerChanges DEF Desk!Deactivated
  <2>3. UNCHANGED <<rotated, surveys, busy, freshMode, formId>>
        /\ openFor' = [openFor EXCEPT !["deactivate"] = NoDialog]
        /\ callStep["deactivate"] = "call"
        /\ callStep' = [callStep EXCEPT !["deactivate"] = "list"]
    BY <1>1 DEF Desk!Deactivated
  <2>4. DeskTypes'
    BY <2>2, <2>3 DEF DeskTypes, Desk!Dialogs, RowDialogs, Desk!Lists
  <2>5. CallTypes'
    BY <2>3 DEF CallTypes, Desk!Dialogs
  <2>6. Desk!BannerIsTrue'
    BY <2>2, <2>3 DEF DeskTypes, Desk!Dialogs, RowDialogs, Desk!BannerIsTrue
  <2> QED
    BY <2>2, <2>4, <2>5, <2>6
<1>2. CASE Desk!Regenerated
  <2>1. busy["regenerate"] \in Ids /\ UNCHANGED <<server, before, surveys, formId>>
        /\ rotated' = rotated \union {busy["regenerate"]} /\ freshMode' = "regenerated"
        /\ openFor' = [openFor EXCEPT !["template"] = busy["regenerate"],
                                      !["regenerate"] = NoDialog]
    BY <1>2 DEF Desk!Regenerated, CallTypes, Desk!Dialogs
  <2>2. DeskTypes'
    BY <2>1 DEF DeskTypes, Desk!Dialogs, RowDialogs, Desk!Lists
  <2>3. CallTypes'
    BY <1>2, CallEnds DEF Desk!Regenerated, Desk!Dialogs
  <2>4. Desk!BannerIsTrue'
    BY <2>1 DEF DeskTypes, Desk!Dialogs, Desk!BannerIsTrue
  <2> QED
    BY <2>1, <2>2, <2>3, <2>4
<1>3. CASE Desk!Registered
  <2>1. busy["register"] \in Ids
    BY <1>3 DEF Desk!Registered, CallTypes, Desk!Dialogs
  <2>2. /\ server' \in Desk!Lists /\ before' \in Desk!Lists
        /\ \A j \in Ids : server[j] # "none" => server'[j] # "none"
        /\ \A j \in Ids : before'[j] # "none" => server'[j] # "none"
    BY <1>3, <2>1, ServerChanges DEF Desk!Registered
  <2>3. UNCHANGED <<rotated, surveys, openFor, busy, freshMode, formId>>
        /\ callStep["register"] = "call"
        /\ callStep' = [callStep EXCEPT !["register"] = "list"]
    BY <1>3 DEF Desk!Registered
  <2>4. DeskTypes'
    BY <2>2, <2>3 DEF DeskTypes, Desk!Lists
  <2>5. CallTypes'
    BY <2>3 DEF CallTypes, Desk!Dialogs
  <2>6. Desk!BannerIsTrue'
    BY <2>2, <2>3 DEF DeskTypes, Desk!Dialogs, RowDialogs, Desk!BannerIsTrue
  <2> QED
    BY <2>2, <2>4, <2>5, <2>6
<1>4. ASSUME NEW i \in Ids, Desk!Reactivate(i) PROVE DeskInv'
  <2>2. /\ server' \in Desk!Lists /\ before' \in Desk!Lists
        /\ \A j \in Ids : server[j] # "none" => server'[j] # "none"
        /\ \A j \in Ids : before'[j] # "none" => server'[j] # "none"
    BY <1>4, ServerChanges DEF Desk!Reactivate
  <2>3. UNCHANGED <<rotated, surveys, openFor, busy, callStep, freshMode, formId>>
    BY <1>4 DEF Desk!Reactivate
  <2>4. DeskTypes'
    BY <2>2, <2>3 DEF DeskTypes, Desk!Lists
  <2>5. Desk!BannerIsTrue'
    BY <2>2, <2>3 DEF DeskTypes, Desk!Dialogs, RowDialogs, Desk!BannerIsTrue
  <2> QED
    BY <2>2, <2>3, <2>4, <2>5, CallStays
<1> QED
  BY <1>1, <1>2, <1>3, <1>4

\* A list arrives, perhaps as old as before the last change.
LEMMA ListStep ==
  ASSUME DeskAssumption, DeskInv, NEW rows \in {server, before},
         Desk!Refresh(rows) \/ Desk!AfterRegister(rows) \/ Desk!SecondListFails(rows)
  PROVE  DeskInv'
<1> USE DEF DeskInv
<1>1. rows \in Desk!Lists /\ \A i \in Ids : rows[i] # "none" => server[i] # "none"
  BY DEF DeskTypes
<1>2. Desk!NextSurveyId(rows) \in Nat
  BY <1>1, NextIdIsNumber
<1>3. CASE Desk!Refresh(rows) \/ Desk!SecondListFails(rows)
  <2>1. UNCHANGED <<server, before, rotated, freshMode>> /\ Desk!Listed(rows)
    BY <1>3 DEF Desk!Refresh, Desk!SecondListFails
  <2>2. DeskTypes' /\ openFor'["template"] = openFor["template"]
    <3>1. CASE UNCHANGED <<formId, openFor>>
      BY <1>1, <2>1, <3>1 DEF Desk!Listed, DeskTypes, Desk!Lists, Desk!Dialogs, RowDialogs
    <3>2. CASE formId' = Desk!NextSurveyId(rows)
               /\ openFor' = [openFor EXCEPT !["register"] = formId']
      BY <1>1, <1>2, <2>1, <3>2 DEF Desk!Listed, DeskTypes, Desk!Lists, Desk!Dialogs, RowDialogs
    <3> QED
      BY <2>1, <3>1, <3>2 DEF Desk!Listed
  <2>3. CallTypes'
    BY <1>3, CallEnds, CallStays DEF Desk!Refresh, Desk!SecondListFails, Desk!Dialogs
  <2> QED
    BY <2>1, <2>2, <2>3 DEF Desk!BannerIsTrue
<1>4. CASE Desk!AfterRegister(rows)
  <2>1. UNCHANGED <<server, before, rotated>> /\ surveys' = rows
        /\ formId' = Desk!NextSurveyId(rows) /\ busy["register"] \in Ids
    BY <1>4 DEF Desk!AfterRegister, CallTypes, Desk!Dialogs
  <2>2. CallTypes'
    BY <1>4, CallEnds DEF Desk!AfterRegister, Desk!Dialogs
  <2>3. CASE rows[busy["register"]] # "none"
    <3>1. openFor' = [openFor EXCEPT !["template"] = busy["register"], !["register"] = NoDialog]
          /\ freshMode' = "registered"
      BY <1>4, <2>3 DEF Desk!AfterRegister
    <3>2. DeskTypes'
      BY <1>1, <1>2, <2>1, <3>1 DEF DeskTypes, Desk!Lists, Desk!Dialogs, RowDialogs
    <3>3. Desk!BannerIsTrue'
      BY <1>1, <2>1, <2>3, <3>1 DEF DeskTypes, Desk!Dialogs, Desk!BannerIsTrue
    <3> QED
      BY <2>1, <2>2, <3>2, <3>3
  <2>4. CASE rows[busy["register"]] = "none"
    <3>1. openFor' = [openFor EXCEPT !["register"] = NoDialog] /\ freshMode' = freshMode
      BY <1>4, <2>4 DEF Desk!AfterRegister
    <3>2. DeskTypes'
      BY <1>1, <1>2, <2>1, <3>1 DEF DeskTypes, Desk!Lists, Desk!Dialogs, RowDialogs
    <3>3. Desk!BannerIsTrue'
      BY <2>1, <3>1 DEF DeskTypes, Desk!Dialogs, Desk!BannerIsTrue
    <3> QED
      BY <2>1, <2>2, <3>2, <3>3
  <2> QED
    BY <2>3, <2>4
<1> QED
  BY <1>3, <1>4

LEMMA DeskStep ==
  ASSUME DeskAssumption, DeskInv, [Desk!Next]_Desk!vars
  PROVE  DeskInv'
<1>1. CASE UNCHANGED Desk!vars
  <2>1. DeskTypes' /\ CallTypes'
    BY <1>1, CallStays DEF Desk!vars, DeskInv, DeskTypes, Desk!Lists
  <2> QED
    BY <1>1, <2>1 DEF Desk!vars, DeskInv, Desk!BannerIsTrue
<1> QED
  BY <1>1, OpenStep, CallStep, ServedStep, ListStep DEF Desk!Next

LEMMA DeskFollows ==
  ASSUME DeskInv
  PROVE  Desk!TypeOK /\ Desk!BannerIsTrue
<1>1. \A d \in Desk!Dialogs : openFor[d] \in Ids \union {NoDialog, formId}
  BY DEF DeskInv, DeskTypes, RowDialogs
<1> QED
  BY <1>1 DEF DeskInv, DeskTypes, CallTypes, Desk!TypeOK

(* The banner is true, also when the dialog that asked for the change was   *)
(* closed and opened for another survey while the call was under way.       *)
THEOREM BannerStaysTrue ==
  ASSUME DeskAssumption
  PROVE  Desk!Spec => [](Desk!TypeOK /\ Desk!BannerIsTrue)
<1>1. Desk!Init => DeskInv
  BY DeskInit
<1>2. DeskInv /\ [Desk!Next]_Desk!vars => DeskInv'
  BY DeskStep
<1>3. DeskInv => Desk!TypeOK /\ Desk!BannerIsTrue
  BY DeskFollows
<1> QED
  BY <1>1, <1>2, <1>3, PTL DEF Desk!Spec

=============================================================================
