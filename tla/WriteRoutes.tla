---------------------------- MODULE WriteRoutes -----------------------------
(***************************************************************************)
(* The routes that write to the chain, together with the contract they     *)
(* write to: POST /claim and, under /surveys, register, deactivate,        *)
(* reactivate, revoke, award and key/rotate.                               *)
(*                                                                         *)
(* A request is one run of its handler.  It stops at every await, and      *)
(* between two of its steps any other request, the chain or a crash of its *)
(* process may come in.  What runs between two awaits is one step.         *)
(* Requests of all server processes share the nonce file, the key file     *)
(* (both written under a lock, see NonceStore and FileLock) and the chain. *)
(*                                                                         *)
(* A transaction belongs to the request that sent it.  Transactions are    *)
(* mined in any order: the order of the minter's account nonces is left    *)
(* out.  The checks of a claim that need no shared state (shapes, age and  *)
(* signature of the message, claim.ts 146-216) only turn requests away and *)
(* are left out; so is the event cache, refreshed before the response.     *)
(***************************************************************************)
EXTENDS Integers, FiniteSets

CONSTANTS
  Address, ZeroAddress, SurveyIds, PointInputs, CentiInputs, ClaimLimits,
                 \* of the contract (module SurveyPoints)
  Server,        \* the backend's wallet, holder of ADMIN_ROLE and MINTER_ROLE
  Wallets,       \* the participants' wallets
  Links,         \* claim links: the `${surveyId}:${nonce}` keys
  SurveyOf,      \* link -> the survey it is for
  Requests,      \* runs of a handler
  Kinds,         \* the routes in use
  MaxKeys        \* bound on the keys that are generated

AllKinds == {"claim", "award", "revoke", "deactivate", "reactivate", "register", "rotate"}

ASSUME RouteAssumption ==
  /\ Server \in Address \ {ZeroAddress}
  /\ Wallets \subseteq Address \ {ZeroAddress}
  /\ SurveyOf \in [Links -> SurveyIds \ {0}]
  /\ Kinds \subseteq AllKinds
  /\ MaxKeys \in Nat \ {0}

VARIABLES
  points, maxClaims, claimCount, active, registered, surveyCenti, claimed,
  surveyPoints, surveyCentiOf, totalPoints, totalCenti, members, adminCount,
  submitted,     \* of the contract
  keys,          \* survey -> generation of its HMAC key, 0 if it has none
  nextKey,       \* generation of the last key that was generated
  issued,        \* link -> generation its token was made with, 0 before that
  used,          \* the consumed links (module NonceRegister)
  pc,            \* request -> the await it has reached
  req,           \* request -> its route and its parameters
  tx,            \* request -> what became of its transaction
  answer         \* request -> its response

Contract == INSTANCE SurveyPoints
Nonces   == INSTANCE NonceRegister

contractVars == <<points, maxClaims, claimCount, active, registered, surveyCenti, claimed,
                  surveyPoints, surveyCentiOf, totalPoints, totalCenti, members, adminCount,
                  submitted>>
keyVars == <<keys, nextKey>>
vars    == <<contractVars, keyVars, issued, used, pc, req, tx, answer>>

Places == {"idle", "lookup", "verify", "query", "mark", "prepare", "key", "send", "wait", "done"}

Fates == {"none", "pending", "mined", "reverted"}

Answers == {"none", "ok", "refused", "keyExists", "notSent", "error", "lost"}

(* What a request may ask, by route.                                       *)
Parameters ==
  [kind : {"claim"}, wallet : Wallets, link : Links]
    \union [kind : {"award", "revoke"}, wallet : Wallets, survey : SurveyIds \ {0}]
    \union [kind : {"deactivate", "reactivate", "rotate"}, survey : SurveyIds \ {0}]
    \union [kind : {"register"}, survey : SurveyIds \ {0},
            centi : {c \in CentiInputs : c > 0 /\ c <= Contract!MaxCentiPoints},
            limit : ClaimLimits]

------------------------------------------------------------------------------
(* The contract after deployment, with the surveys in `there` registered   *)
(* by earlier requests, one point each.                                    *)
ContractWith(there, limit) ==
  /\ points        = [id \in SurveyIds |-> IF id \in there THEN 1 ELSE 0]
  /\ maxClaims     = [id \in SurveyIds |-> IF id \in there THEN limit ELSE 0]
  /\ claimCount    = [id \in SurveyIds |-> 0]
  /\ active        = there
  /\ registered    = there
  /\ surveyCenti   = [id \in SurveyIds |-> 0]
  /\ claimed       = {}
  /\ surveyPoints  = [p \in Contract!Pairs |-> 0]
  /\ surveyCentiOf = [p \in Contract!Pairs |-> 0]
  /\ totalPoints   = [w \in Address |-> 0]
  /\ totalCenti    = [w \in Address |-> 0]
  /\ members       = [r \in Contract!Roles |-> {Server}]
  /\ adminCount    = 1
  /\ submitted     = {}

Init ==
  /\ \E there \in SUBSET (SurveyIds \ {0}), limit \in ClaimLimits :
       /\ ContractWith(there, limit)
       /\ keys = [id \in SurveyIds |-> IF id \in there THEN 1 ELSE 0]
  /\ nextKey = 1
  /\ issued  = [l \in Links |-> 0]
  /\ Nonces!Init
  /\ pc      = [r \in Requests |-> "idle"]
  /\ req     \in [Requests -> {p \in Parameters : p.kind \in Kinds}]
  /\ tx      = [r \in Requests |-> "none"]
  /\ answer  = [r \in Requests |-> "none"]

------------------------------------------------------------------------------
Goto(r, place) ==
  /\ pc' = [pc EXCEPT ![r] = place]
  /\ UNCHANGED answer

Respond(r, a) ==
  /\ pc' = [pc EXCEPT ![r] = "done"]
  /\ answer' = [answer EXCEPT ![r] = a]

At(r, place, kinds) == pc[r] = place /\ req[r].kind \in kinds

Awards == {"claim", "award"}

Survey(r) == IF req[r].kind = "claim" THEN SurveyOf[req[r].link] ELSE req[r].survey

(* GET /claim/launch: a fresh nonce, signed with the survey's current key. *)
Launch(l) ==
  /\ issued[l] = 0
  /\ keys[SurveyOf[l]] # 0
  /\ issued' = [issued EXCEPT ![l] = keys[SurveyOf[l]]]
  /\ UNCHANGED <<contractVars, keyVars, used, pc, req, tx, answer>>

(* The handler starts; only the revocation asks the chain nothing first.   *)
Arrive(r) ==
  /\ pc[r] = "idle"
  /\ Goto(r, IF req[r].kind = "revoke" THEN "send" ELSE "lookup")
  /\ UNCHANGED <<contractVars, keyVars, issued, used, req, tx>>

------------------------------------------------------------------------------
(* getSurveyInfo, and what each route makes of its answer.                 *)
Welcome(r) ==
  /\ req[r].kind = "register" <=> Survey(r) \notin registered
  /\ req[r].kind \in Awards \union {"deactivate"} => Survey(r) \in active

AfterLookup(r) ==
  IF req[r].kind = "claim" THEN "verify"
  ELSE IF req[r].kind = "award" THEN "query"
  ELSE IF req[r].kind \in {"register", "rotate"} THEN "key"
  ELSE "send"

Lookup(r) ==
  /\ pc[r] = "lookup"
  /\ IF Welcome(r) THEN Goto(r, AfterLookup(r)) ELSE Respond(r, "refused")
  /\ UNCHANGED <<contractVars, keyVars, issued, used, req, tx>>

(* A read of the chain fails for good: 500, and nothing was done.          *)
ReadFails(r) ==
  /\ pc[r] \in {"lookup", "query"}
  /\ Respond(r, "error")
  /\ UNCHANGED <<contractVars, keyVars, issued, used, req, tx>>

(* Wrong: any token passes as long as the survey has a key.                *)
WrongVerify(r) ==
  /\ pc[r] = "verify"
  /\ LET link == req[r].link
     IN  IF keys[SurveyOf[link]] = 0 THEN Respond(r, "error")
         ELSE IF link \in used THEN Respond(r, "refused")
         ELSE Goto(r, "query")
  /\ UNCHANGED <<contractVars, keyVars, issued, used, req, tx>>

(* Between two awaits: the survey's key, the token, and the first look at  *)
(* the nonce store.                                                        *)
Verify(r) ==
  /\ pc[r] = "verify"
  /\ LET link == req[r].link
     IN  IF keys[SurveyOf[link]] = 0 THEN Respond(r, "error")
         ELSE IF issued[link] # keys[SurveyOf[link]] \/ link \in used THEN Respond(r, "refused")
         ELSE Goto(r, "query")
  /\ UNCHANGED <<contractVars, keyVars, issued, used, req, tx>>

(* hasClaimed.                                                             *)
Query(r) ==
  /\ pc[r] = "query"
  /\ IF <<req[r].wallet, Survey(r)>> \in claimed THEN Respond(r, "refused")
     ELSE Goto(r, IF req[r].kind = "claim" THEN "mark" ELSE "prepare")
  /\ UNCHANGED <<contractVars, keyVars, issued, used, req, tx>>

(* Wrong: the link is marked whatever the first look at the store missed.  *)
WrongMark(r) ==
  /\ pc[r] = "mark"
  /\ used' = used \union {req[r].link}
  /\ Goto(r, "prepare")
  /\ UNCHANGED <<contractVars, keyVars, issued, req, tx>>

(* markUsed, which decides.                                                *)
Mark(r) ==
  /\ pc[r] = "mark"
  /\ \/ Nonces!Consume(req[r].link) /\ Goto(r, "prepare")
     \/ req[r].link \in used /\ Respond(r, "refused") /\ UNCHANGED used
  /\ UNCHANGED <<contractVars, keyVars, issued, req, tx>>

(* markUsed throws: the lock could not be had.                             *)
MarkThrows(r) ==
  /\ pc[r] = "mark"
  /\ Respond(r, "error")
  /\ UNCHANGED <<contractVars, keyVars, issued, used, req, tx>>

------------------------------------------------------------------------------
(* awardPoints of blockchain.ts, before the broadcast: balance, fees and   *)
(* the gas estimate, which executes the call.                              *)
Prepare(r) ==
  /\ pc[r] = "prepare"
  /\ Contract!AwardAllowed(Server, req[r].wallet, Survey(r))
  /\ Goto(r, "send")
  /\ UNCHANGED <<contractVars, keyVars, issued, used, req, tx>>

(* One of them throws: the error carries notSent, and a claim gives its    *)
(* link back, unless the lock of the nonce file cannot be had.             *)
PrepareFails(r) ==
  /\ pc[r] = "prepare"
  /\ \/ req[r].kind = "claim" /\ Nonces!GiveBack(req[r].link)
     \/ UNCHANGED used
  /\ Respond(r, "notSent")
  /\ UNCHANGED <<contractVars, keyVars, issued, req, tx>>

(* Wrong: createKey overwrites a key that is already there.                *)
WrongCreateKey(r) ==
  /\ At(r, "key", {"register"})
  /\ nextKey < MaxKeys
  /\ nextKey' = nextKey + 1
  /\ keys' = [keys EXCEPT ![Survey(r)] = nextKey + 1]
  /\ Goto(r, "send")
  /\ UNCHANGED <<contractVars, issued, used, req, tx>>

(* A registration stores the survey's key before it sends the transaction. *)
CreateKey(r) ==
  /\ At(r, "key", {"register"})
  /\ nextKey < MaxKeys
  /\ keys[Survey(r)] = 0
  /\ nextKey' = nextKey + 1
  /\ keys' = [keys EXCEPT ![Survey(r)] = nextKey + 1]
  /\ Goto(r, "send")
  /\ UNCHANGED <<contractVars, issued, used, req, tx>>

(* createKey throws: there is a key, or the lock could not be had.         *)
KeyExists(r) ==
  /\ At(r, "key", {"register"})
  /\ Respond(r, "keyExists")
  /\ UNCHANGED <<contractVars, keyVars, issued, used, req, tx>>

(* Wrong: the new key is one that was handed out before.                   *)
WrongRotateKey(r) ==
  /\ At(r, "key", {"rotate"})
  /\ nextKey < MaxKeys
  /\ keys' = [keys EXCEPT ![Survey(r)] = nextKey + 1]
  /\ Respond(r, "ok")
  /\ UNCHANGED <<contractVars, nextKey, issued, used, req, tx>>

(* rotateKey, or createKey when the survey has none.                       *)
RotateKey(r) ==
  /\ At(r, "key", {"rotate"})
  /\ nextKey < MaxKeys
  /\ nextKey' = nextKey + 1
  /\ keys' = [keys EXCEPT ![Survey(r)] = nextKey + 1]
  /\ Respond(r, "ok")
  /\ UNCHANGED <<contractVars, issued, used, req, tx>>

RotateThrows(r) ==
  /\ At(r, "key", {"rotate"})
  /\ Respond(r, "error")
  /\ UNCHANGED <<contractVars, keyVars, issued, used, req, tx>>

------------------------------------------------------------------------------
(* Broadcast and receipt.                                                  *)

(* The contract call resolves with a transaction.  For the routes without  *)
(* an estimate of their own the library estimates here; the state may have *)
(* changed before the broadcast, so nothing is asked of it.                *)
Send(r) ==
  /\ pc[r] = "send"
  /\ tx' = [tx EXCEPT ![r] = "pending"]
  /\ Goto(r, "wait")
  /\ UNCHANGED <<contractVars, keyVars, issued, used, req>>

(* The handler's error path after the point where nothing is certain any   *)
(* more: a registration deletes the key it stored, if it gets the lock.    *)
Abort(r) ==
  /\ Respond(r, "error")
  /\ \/ req[r].kind = "register" /\ keys' = [keys EXCEPT ![Survey(r)] = 0]
     \/ UNCHANGED keys
  /\ UNCHANGED <<contractVars, nextKey, issued, req>>

(* Wrong: every failure to send counts as not sent.                        *)
WrongSendFails(r) ==
  /\ pc[r] = "send"
  /\ tx' \in {tx, [tx EXCEPT ![r] = "pending"]}
  /\ Respond(r, "notSent")
  /\ IF req[r].kind = "claim" THEN Nonces!GiveBack(req[r].link) ELSE UNCHANGED used
  /\ UNCHANGED <<contractVars, keyVars, issued, req>>

(* The call throws, with or without the transaction having reached a node. *)
SendFails(r) ==
  /\ pc[r] = "send"
  /\ tx' \in {tx, [tx EXCEPT ![r] = "pending"]}
  /\ Abort(r)
  /\ UNCHANGED used

(* Wrong: waits for a successful receipt only.                             *)
WrongReceipt(r) ==
  /\ pc[r] = "wait"
  /\ tx[r] = "mined"
  /\ Respond(r, "ok")
  /\ UNCHANGED <<contractVars, keyVars, issued, used, req, tx>>

(* tx.wait() resolves with the receipt; it throws for a reverted call.     *)
Receipt(r) ==
  /\ pc[r] = "wait"
  /\ \/ /\ tx[r] = "mined"
        /\ Respond(r, "ok")
        /\ UNCHANGED <<contractVars, keyVars, issued, req>>
     \/ tx[r] = "reverted" /\ Abort(r)
  /\ UNCHANGED <<used, tx>>

(* tx.wait() throws for another reason, or there is no receipt.            *)
WaitFails(r) ==
  /\ pc[r] = "wait"
  /\ Abort(r)
  /\ UNCHANGED <<used, tx>>

(* The process of the request dies.                                        *)
Crash(r) ==
  /\ pc[r] \notin {"idle", "done"}
  /\ Respond(r, "lost")
  /\ UNCHANGED <<contractVars, keyVars, issued, used, req, tx>>

------------------------------------------------------------------------------
(* The chain.                                                              *)

Execute(r) ==
  LET id == Survey(r)
  IN  \/ req[r].kind \in Awards /\ Contract!AwardPoints(Server, req[r].wallet, id)
      \/ req[r].kind = "revoke" /\ Contract!RevokePoints(Server, req[r].wallet, id)
      \/ req[r].kind = "deactivate" /\ Contract!DeactivateSurvey(Server, id)
      \/ req[r].kind = "reactivate" /\ Contract!ReactivateSurvey(Server, id)
      \/ /\ req[r].kind = "register"
         /\ IF req[r].centi % 100 = 0
              THEN Contract!RegisterSurvey(Server, id, req[r].centi \div 100, req[r].limit)
              ELSE Contract!RegisterSurveyCenti(Server, id, req[r].centi, req[r].limit)

Mine(r) ==
  /\ tx[r] = "pending"
  /\ tx' = [tx EXCEPT ![r] = "mined"]
  /\ Execute(r)
  /\ UNCHANGED <<keyVars, issued, used, pc, req, answer>>

(* The call reverts in the block: its guard fails there, or the gas, set   *)
(* from an earlier estimate, runs out.                                     *)
Revert(r) ==
  /\ tx[r] = "pending"
  /\ tx' = [tx EXCEPT ![r] = "reverted"]
  /\ UNCHANGED <<contractVars, keyVars, issued, used, pc, req, answer>>

------------------------------------------------------------------------------
(* What the handler does while nothing it calls fails without a reason.    *)
Advance(r) ==
  \/ Lookup(r)
  \/ Verify(r)
  \/ Query(r)
  \/ Mark(r)
  \/ Prepare(r)
  \/ PrepareFails(r)
  \/ CreateKey(r)
  \/ KeyExists(r)
  \/ RotateKey(r)
  \/ RotateThrows(r)
  \/ Send(r)
  \/ Receipt(r)

Failure(r) ==
  \/ ReadFails(r)
  \/ MarkThrows(r)
  \/ SendFails(r)
  \/ WaitFails(r)
  \/ Crash(r)

Block(r) == Mine(r) \/ Revert(r)

Next ==
  \/ \E l \in Links : Launch(l)
  \/ \E r \in Requests : Arrive(r) \/ Advance(r) \/ Failure(r) \/ Block(r)

Spec == Init /\ [][Next]_vars

(* The event loop resumes a handler whose await has come back, and the     *)
(* chain takes up every transaction it was sent.                           *)
Fairness == \A r \in Requests : WF_vars(Advance(r)) /\ WF_vars(Block(r))

FairSpec == Spec /\ Fairness

------------------------------------------------------------------------------
(* Properties.                                                             *)

(* Every variable has its type; a key in use was generated.                *)
TypeOK ==
  /\ nextKey \in 1..MaxKeys
  /\ keys \in [SurveyIds -> 0..nextKey]
  /\ issued \in [Links -> 0..nextKey]
  /\ used \subseteq Links
  /\ pc \in [Requests -> Places]
  /\ req \in [Requests -> Parameters]
  /\ tx \in [Requests -> Fates]
  /\ answer \in [Requests -> Answers]

Claims(link) == {r \in Requests : req[r].kind = "claim" /\ req[r].link = link}

(* "so two concurrent requests cannot both send one": whatever fails or    *)
(* crashes on the way, a link never stands behind two transactions.        *)
OneTxPerLink == \A link \in Links : \A r, q \in Claims(link) :
  tx[r] # "none" /\ tx[q] # "none" => r = q

(* "once broadcast it may still be mined, and the link must stay spent":   *)
(* the link of a transaction that was broadcast is never available again.  *)
SentLinkIsSpent == \A link \in Links : \A r \in Claims(link) :
  tx[r] # "none" => link \in used

(* A claim that reached the chain came with a link the backend launched,   *)
(* also when keys were rotated, deleted and created again meanwhile.       *)
SentLinkWasLaunched == \A link \in Links : \A r \in Claims(link) :
  tx[r] # "none" => issued[link] # 0

(* "Errors carry notSent: true when they happened before broadcasting.     *)
(* Only then is it certain that no transaction can still be mined": the    *)
(* response tells the truth about the chain, at any later time too.        *)
AnswerIsTrue == \A r \in Requests :
  /\ answer[r] \in {"refused", "keyExists", "notSent"} => tx[r] = "none"
  /\ answer[r] = "ok" /\ req[r].kind # "rotate" => tx[r] = "mined"

Mined(kinds, w, id) == {r \in Requests :
  /\ tx[r] = "mined"
  /\ req[r].kind \in kinds
  /\ req[r].wallet = w
  /\ Survey(r) = id}

(* A wallet that two links, or a link and an award by hand, race for is    *)
(* credited once: mined awards minus mined revocations is its claim flag.  *)
CreditedOnce == \A w \in Wallets, id \in SurveyIds :
  Cardinality(Mined(Awards, w, id)) - Cardinality(Mined({"revoke"}, w, id))
    = IF <<w, id>> \in claimed THEN 1 ELSE 0

(* A registration that was answered with success keeps its key: no other   *)
(* registration that fails later takes it away.                            *)
AnsweredRegistrationHasKey == \A r \in Requests :
  answer[r] = "ok" /\ req[r].kind = "register" => keys[Survey(r)] # 0

(* "Generate it before the on-chain TX so a successful registration always *)
(* has a matching key."                                                    *)
RegisteredHasKey == \A id \in registered : keys[id] # 0

Registering(id) == {r \in Requests :
  req[r].kind = "register" /\ Survey(r) = id /\ (pc[r] \notin {"idle", "done"} \/ tx[r] = "pending")}

(* "A leftover HMAC key exists from a previous failed registration. Use    *)
(* POST /key/rotate to roll it before retrying": a rotation that meets a   *)
(* leftover key is let through.                                            *)
LeftoverKeyCanBeRotated == \A r \in Requests :
  (/\ At(r, "lookup", {"rotate"})
   /\ keys[Survey(r)] # 0
   /\ Registering(Survey(r)) = {}) => Welcome(r)

(* Every request is answered, or dies with its process.                    *)
Answered == \A r \in Requests : pc[r] # "idle" ~> pc[r] = "done"

(* The claim flow is the ledger of links: a mined claim pays its link.     *)
Paid == {<<req[r].link, req[r].wallet>> :
           r \in {q \in Requests : req[q].kind = "claim" /\ tx[q] = "mined"}}

Ledger == INSTANCE LinkLedger WITH paid <- Paid

LedgerSpec == Ledger!Spec
==============================================================================
