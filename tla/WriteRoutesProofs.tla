-------------------------- MODULE WriteRoutesProofs --------------------------
(***************************************************************************)
(* Theorems about the write routes for any number of requests, wallets,    *)
(* links and surveys.  Three invariants are inductive together: the types, *)
(* who stands behind a consumed link, and which registration a key is for. *)
(***************************************************************************)
EXTENDS WriteRoutes, FiniteSetTheorems, TLAPS

(* A claim holds its link from markUsed on; it lets go of it only by       *)
(* giving it back, and never once a transaction was handed to the RPC.     *)
Holds(r) ==
  /\ req[r].kind = "claim"
  /\ pc[r] \in {"prepare", "send", "wait"} \/ tx[r] # "none"

(* Nothing is on the chain before the send, and no answer before the end.  *)
Stages == \A r \in Requests :
  /\ pc[r] \notin {"wait", "done"} => tx[r] = "none"
  /\ pc[r] # "done" => answer[r] = "none"
  /\ pc[r] \in {"verify", "mark"} => req[r].kind = "claim"
  /\ pc[r] \in {"query", "prepare"} => req[r].kind \in Awards

HeldLinks ==
  /\ \A r \in Requests : Holds(r) => req[r].link \in used
  /\ \A r, q \in Requests : Holds(r) /\ Holds(q) /\ req[r].link = req[q].link => r = q

(* A registration keeps its key from createKey on, for good once it was    *)
(* answered with success.                                                  *)
Keeps(r) ==
  /\ req[r].kind = "register"
  /\ pc[r] \in {"send", "wait"} \/ answer[r] = "ok"

KeptKeys ==
  /\ \A r \in Requests : Keeps(r) => keys[Survey(r)] # 0
  /\ \A r, q \in Requests : Keeps(r) /\ Keeps(q) /\ Survey(r) = Survey(q) => r = q

LEMMA SurveyType ==
  ASSUME req \in [Requests -> Parameters], NEW r \in Requests
  PROVE  Survey(r) \in SurveyIds
<1>1. req[r] \in Parameters
  OBVIOUS
<1>2. CASE req[r].kind = "claim"
  <2>1. req[r].link \in Links
    BY <1>1, <1>2 DEF Parameters
  <2> QED
    BY <1>2, <2>1, RouteAssumption DEF Survey
<1>3. CASE req[r].kind # "claim"
  <2>1. req[r].survey \in SurveyIds
    BY <1>1, <1>3 DEF Parameters
  <2> QED
    BY <1>3, <2>1 DEF Survey
<1> QED
  BY <1>2, <1>3

LEMMA LinkType ==
  ASSUME req \in [Requests -> Parameters], NEW r \in Requests, req[r].kind = "claim"
  PROVE  req[r].link \in Links /\ req[r].wallet \in Wallets
<1>1. req[r] \in Parameters
  OBVIOUS
<1> QED
  BY <1>1 DEF Parameters

------------------------------------------------------------------------------
(* Types.                                                                  *)

LEMMA InitType == ASSUME Init PROVE TypeOK
<1>0. /\ nextKey = 1
      /\ issued = [l \in Links |-> 0]
      /\ used = {}
      /\ pc = [r \in Requests |-> "idle"]
      /\ tx = [r \in Requests |-> "none"]
      /\ answer = [r \in Requests |-> "none"]
      /\ req \in [Requests -> {p \in Parameters : p.kind \in Kinds}]
      /\ \E there \in SUBSET (SurveyIds \ {0}) :
           keys = [id \in SurveyIds |-> IF id \in there THEN 1 ELSE 0]
  BY DEF Init, Nonces!Init
<1>1. nextKey \in 1..MaxKeys
  BY <1>0, RouteAssumption
<1>2. keys \in [SurveyIds -> 0..nextKey] /\ issued \in [Links -> 0..nextKey]
  BY <1>0
<1>3. req \in [Requests -> Parameters]
  BY <1>0
<1>4. pc \in [Requests -> Places] /\ tx \in [Requests -> Fates] /\ answer \in [Requests -> Answers]
  BY <1>0 DEF Places, Fates, Answers
<1> QED
  BY <1>0, <1>1, <1>2, <1>3, <1>4 DEF TypeOK

(* A response or a new place keeps the two functions of the handler typed. *)
LEMMA MoveType ==
  ASSUME TypeOK, NEW r \in Requests, NEW a \in Answers, NEW place \in Places,
         Respond(r, a) \/ Goto(r, place)
  PROVE  pc' \in [Requests -> Places] /\ answer' \in [Requests -> Answers]
<1>1. CASE Respond(r, a)
  BY <1>1 DEF TypeOK, Respond, Places
<1>2. CASE Goto(r, place)
  BY <1>2 DEF TypeOK, Goto
<1> QED
  BY <1>1, <1>2

LEMMA NewKeyType ==
  ASSUME TypeOK, NEW id \in SurveyIds, nextKey < MaxKeys, nextKey' = nextKey + 1,
         keys' = [keys EXCEPT ![id] = nextKey + 1], issued' = issued
  PROVE  /\ nextKey' \in 1..MaxKeys
         /\ keys' \in [SurveyIds -> 0..nextKey']
         /\ issued' \in [Links -> 0..nextKey']
<1>1. nextKey \in Nat /\ nextKey >= 1 /\ MaxKeys \in Nat
  BY RouteAssumption DEF TypeOK
<1>2. 0..nextKey \subseteq 0..nextKey' /\ nextKey + 1 \in 0..nextKey'
  BY <1>1
<1> QED
  BY <1>1, <1>2 DEF TypeOK

LEMMA AbortType ==
  ASSUME TypeOK, NEW r \in Requests, Abort(r)
  PROVE  /\ pc' \in [Requests -> Places]
         /\ answer' \in [Requests -> Answers]
         /\ keys' \in [SurveyIds -> 0..nextKey]
         /\ nextKey' = nextKey /\ issued' = issued /\ req' = req
<1>1. Survey(r) \in SurveyIds
  BY SurveyType DEF TypeOK
<1>2. 0 \in 0..nextKey
  BY DEF TypeOK
<1>3. keys' \in [SurveyIds -> 0..nextKey]
  BY <1>1, <1>2 DEF TypeOK, Abort
<1>4. Respond(r, "error") /\ "error" \in Answers /\ "done" \in Places
  BY DEF Abort, Answers, Places
<1>5. pc' \in [Requests -> Places] /\ answer' \in [Requests -> Answers]
  BY <1>4, MoveType
<1> QED
  BY <1>3, <1>5 DEF Abort

LEMMA StepType ==
  ASSUME TypeOK, Stages, [Next]_vars
  PROVE  TypeOK'
<1> USE DEF keyVars
<1>0. /\ "none" \in Answers /\ "ok" \in Answers /\ "refused" \in Answers
      /\ "keyExists" \in Answers /\ "notSent" \in Answers /\ "error" \in Answers
      /\ "lost" \in Answers
      /\ "lookup" \in Places /\ "verify" \in Places /\ "query" \in Places
      /\ "mark" \in Places /\ "prepare" \in Places /\ "key" \in Places
      /\ "send" \in Places /\ "wait" \in Places
      /\ "pending" \in Fates /\ "mined" \in Fates /\ "reverted" \in Fates
  BY DEF Answers, Places, Fates
<1>1. CASE UNCHANGED vars
  BY <1>1 DEF vars, TypeOK
<1>2. ASSUME NEW l \in Links, Launch(l) PROVE TypeOK'
  <2>1. SurveyOf[l] \in SurveyIds
    BY RouteAssumption
  <2>2. issued' \in [Links -> 0..nextKey]
    BY <1>2, <2>1 DEF Launch, TypeOK
  <2> QED
    BY <1>2, <2>2 DEF Launch, TypeOK
<1>3. ASSUME NEW r \in Requests,
             Arrive(r) \/ Lookup(r) \/ ReadFails(r) \/ Verify(r) \/ Query(r)
               \/ MarkThrows(r) \/ Prepare(r) \/ KeyExists(r) \/ RotateThrows(r) \/ Crash(r)
      PROVE  TypeOK'
  <2>1. UNCHANGED <<keyVars, issued, used, req, tx>>
    BY <1>3 DEF Arrive, Lookup, ReadFails, Verify, Query, MarkThrows, Prepare, KeyExists,
       RotateThrows, Crash
  <2>2. \E place \in Places, a \in Answers : Goto(r, place) \/ Respond(r, a)
    BY <1>0, <1>3 DEF Arrive, Lookup, AfterLookup, ReadFails, Verify, Query, MarkThrows, Prepare,
       KeyExists, RotateThrows, Crash
  <2>3. pc' \in [Requests -> Places] /\ answer' \in [Requests -> Answers]
    BY <2>2, MoveType
  <2> QED
    BY <2>1, <2>3 DEF TypeOK
<1>4. ASSUME NEW r \in Requests, Mark(r) \/ PrepareFails(r) PROVE TypeOK'
  <2>1. UNCHANGED <<keyVars, issued, req, tx>>
    BY <1>4 DEF Mark, PrepareFails
  <2>2. \E place \in Places, a \in Answers : Goto(r, place) \/ Respond(r, a)
    BY <1>0, <1>4 DEF Mark, PrepareFails
  <2>3. pc' \in [Requests -> Places] /\ answer' \in [Requests -> Answers]
    BY <2>2, MoveType
  <2>4. used' \subseteq Links
    <3>1. CASE used' = used \/ Nonces!GiveBack(req[r].link)
      BY <3>1 DEF TypeOK, Nonces!GiveBack
    <3>2. CASE Mark(r) /\ Nonces!Consume(req[r].link)
      <4>1. req[r].kind = "claim"
        BY <1>4, <3>2 DEF Stages, Mark
      <4> QED
        BY <3>2, <4>1, LinkType DEF TypeOK, Nonces!Consume
    <3> QED
      BY <1>4, <3>1, <3>2 DEF Mark, PrepareFails
  <2> QED
    BY <2>1, <2>3, <2>4 DEF TypeOK
<1>5. ASSUME NEW r \in Requests, CreateKey(r) \/ RotateKey(r) PROVE TypeOK'
  <2>1. UNCHANGED <<used, req, tx>> /\ issued' = issued
    BY <1>5 DEF CreateKey, RotateKey
  <2>2. \E place \in Places, a \in Answers : Goto(r, place) \/ Respond(r, a)
    BY <1>0, <1>5 DEF CreateKey, RotateKey
  <2>3. pc' \in [Requests -> Places] /\ answer' \in [Requests -> Answers]
    BY <2>2, MoveType
  <2>4. Survey(r) \in SurveyIds
    BY SurveyType DEF TypeOK
  <2>5. nextKey < MaxKeys /\ nextKey' = nextKey + 1
        /\ keys' = [keys EXCEPT ![Survey(r)] = nextKey + 1]
    BY <1>5 DEF CreateKey, RotateKey
  <2>6. /\ nextKey' \in 1..MaxKeys
        /\ keys' \in [SurveyIds -> 0..nextKey']
        /\ issued' \in [Links -> 0..nextKey']
    BY <2>1, <2>4, <2>5, NewKeyType
  <2> QED
    BY <2>1, <2>3, <2>6 DEF TypeOK
<1>6. ASSUME NEW r \in Requests, Send(r) \/ Mine(r) \/ Revert(r) PROVE TypeOK'
  <2>1. UNCHANGED <<keyVars, issued, used, req>>
    BY <1>6 DEF Send, Mine, Revert
  <2>2. tx' \in [Requests -> Fates]
    BY <1>0, <1>6 DEF Send, Mine, Revert, TypeOK
  <2>3. pc' \in [Requests -> Places] /\ answer' \in [Requests -> Answers]
    BY <1>0, <1>6, MoveType DEF Send, Mine, Revert, TypeOK
  <2> QED
    BY <2>1, <2>2, <2>3 DEF TypeOK
<1>7. ASSUME NEW r \in Requests, SendFails(r) \/ WaitFails(r) \/ Receipt(r) PROVE TypeOK'
  <2>1. used' = used /\ tx' \in [Requests -> Fates]
    BY <1>0, <1>7 DEF SendFails, WaitFails, Receipt, TypeOK
  <2>2. CASE Abort(r)
    BY <2>1, <2>2, AbortType DEF TypeOK
  <2>3. CASE Respond(r, "ok") /\ UNCHANGED <<contractVars, keyVars, issued, used, req>>
    <3>1. pc' \in [Requests -> Places] /\ answer' \in [Requests -> Answers]
      BY <1>0, <2>3, MoveType
    <3> QED
      BY <2>1, <2>3, <3>1 DEF TypeOK
  <2> QED
    BY <1>7, <2>2, <2>3 DEF SendFails, WaitFails, Receipt
<1> QED
  BY <1>1, <1>2, <1>3, <1>4, <1>5, <1>6, <1>7 DEF Next, Advance, Failure, Block

------------------------------------------------------------------------------
(* A step concerns one request: it fixes the parameters of all requests    *)
(* and leaves the place, the transaction and the answer of the others.     *)
LEMMA OthersStay ==
  ASSUME TypeOK, NEW r \in Requests, Arrive(r) \/ Advance(r) \/ Failure(r) \/ Block(r)
  PROVE  /\ req' = req
         /\ \A q \in Requests \ {r} : pc'[q] = pc[q] /\ tx'[q] = tx[q] /\ answer'[q] = answer[q]
<1>1. req' = req
  BY DEF Arrive, Advance, Failure, Block, Lookup, ReadFails, Verify, Query, Mark, MarkThrows, Prepare,
     PrepareFails, CreateKey, KeyExists, RotateKey, RotateThrows, Send, SendFails, Receipt,
     WaitFails, Crash, Mine, Revert, Abort
<1>2. \/ pc' = pc /\ answer' = answer
      \/ \E place : Goto(r, place)
      \/ \E a : Respond(r, a)
  BY DEF Arrive, Advance, Failure, Block, Lookup, ReadFails, Verify, Query, Mark, MarkThrows, Prepare,
     PrepareFails, CreateKey, KeyExists, RotateKey, RotateThrows, Send, SendFails, Receipt,
     WaitFails, Crash, Mine, Revert, Abort
<1>3. tx' = tx \/ \E fate : tx' = [tx EXCEPT ![r] = fate]
  BY DEF Arrive, Advance, Failure, Block, Lookup, ReadFails, Verify, Query, Mark, MarkThrows, Prepare,
     PrepareFails, CreateKey, KeyExists, RotateKey, RotateThrows, Send, SendFails, Receipt,
     WaitFails, Crash, Mine, Revert, Abort
<1>4. \A q \in Requests \ {r} : tx'[q] = tx[q]
  BY <1>3 DEF TypeOK
<1>5. \A q \in Requests \ {r} : pc'[q] = pc[q] /\ answer'[q] = answer[q]
  BY <1>2 DEF TypeOK, Goto, Respond
<1> QED
  BY <1>1, <1>4, <1>5

(* What a step does to its own request.                                    *)
LEMMA OwnStep ==
  ASSUME TypeOK, Stages, NEW r \in Requests, Arrive(r) \/ Advance(r) \/ Failure(r) \/ Block(r)
  PROVE  \/ /\ pc[r] \notin {"send", "wait", "done"} /\ tx'[r] = tx[r]
            /\ \/ /\ pc'[r] \in {"lookup", "key", "send"} /\ answer'[r] = answer[r]
               \/ /\ pc'[r] \in {"verify", "mark"} /\ req[r].kind = "claim"
                  /\ answer'[r] = answer[r]
               \/ /\ pc'[r] \in {"query", "prepare"} /\ req[r].kind \in Awards
                  /\ answer'[r] = answer[r]
               \/ /\ pc'[r] = "done"
                  /\ answer'[r] # "ok" \/ req[r].kind = "rotate"
         \/ /\ pc[r] = "send" /\ tx'[r] \in {tx[r], "pending"}
            /\ \/ pc'[r] = "wait" /\ answer'[r] = answer[r]
               \/ pc'[r] = "done" /\ answer'[r] \in {"error", "lost"}
         \/ /\ pc[r] = "wait" /\ tx'[r] = tx[r] /\ pc'[r] = "done"
            /\ \/ answer'[r] \in {"error", "lost"}
               \/ answer'[r] = "ok" /\ tx[r] = "mined"
         \/ /\ tx[r] = "pending" /\ tx'[r] \in {"mined", "reverted"}
            /\ pc'[r] = pc[r] /\ answer'[r] = answer[r]
<1> USE DEF TypeOK
<1>1. CASE Arrive(r) \/ Lookup(r)
  BY <1>1 DEF Arrive, Lookup, AfterLookup, Goto, Respond, Awards
<1>2. CASE ReadFails(r) \/ MarkThrows(r)
  BY <1>2 DEF ReadFails, MarkThrows, Respond
<1>3. CASE Verify(r) \/ Mark(r)
  BY <1>3 DEF Verify, Mark, Goto, Respond, Stages, Awards
<1>4. CASE Query(r) \/ Prepare(r) \/ PrepareFails(r)
  BY <1>4 DEF Query, Prepare, PrepareFails, Goto, Respond, Stages, Awards
<1>5. CASE CreateKey(r) \/ KeyExists(r) \/ RotateKey(r) \/ RotateThrows(r)
  BY <1>5 DEF CreateKey, KeyExists, RotateKey, RotateThrows, At, Goto, Respond
<1>6. CASE Send(r)
  BY <1>6 DEF Send, Goto
<1>7. CASE SendFails(r)
  BY <1>7 DEF SendFails, Abort, Respond
<1>8. CASE Receipt(r) \/ WaitFails(r)
  BY <1>8 DEF Receipt, WaitFails, Abort, Respond
<1>9. CASE Crash(r)
  BY <1>9 DEF Crash, Respond
<1>10. CASE Mine(r) \/ Revert(r)
  BY <1>10 DEF Mine, Revert
<1> QED
  BY <1>1, <1>2, <1>3, <1>4, <1>5, <1>6, <1>7, <1>8, <1>9, <1>10 DEF Advance, Failure, Block

(* What a step does to the consumed links.                                 *)
LEMMA LinkStep ==
  ASSUME TypeOK, Stages, NEW r \in Requests, Arrive(r) \/ Advance(r) \/ Failure(r) \/ Block(r)
  PROVE  \/ /\ req[r].kind = "claim" /\ req[r].link \notin used
            /\ used' = used \union {req[r].link}
         \/ /\ req[r].kind = "claim" /\ Holds(r)
            /\ used' = used \ {req[r].link}
            /\ pc'[r] = "done" /\ tx'[r] = "none"
         \/ used' = used /\ (Holds(r)' => Holds(r))
<1>1. req' = req
  BY OthersStay
<1>2. CASE Mark(r)
  <2>1. req[r].kind = "claim"
    BY <1>2 DEF Mark, Stages
  <2>2. CASE Nonces!Consume(req[r].link)
    BY <2>1, <2>2 DEF Nonces!Consume
  <2>3. CASE used' = used /\ Respond(r, "refused")
    <3>1. pc'[r] = "done" /\ tx' = tx /\ tx[r] = "none"
      BY <1>2, <2>3 DEF Mark, Respond, Stages, TypeOK
    <3> QED
      BY <1>1, <2>3, <3>1 DEF Holds
  <2> QED
    BY <1>2, <2>2, <2>3 DEF Mark
<1>3. CASE PrepareFails(r)
  <2>1. pc[r] = "prepare" /\ pc'[r] = "done" /\ tx'[r] = "none"
    BY <1>3 DEF PrepareFails, Respond, Stages, TypeOK
  <2>2. CASE req[r].kind = "claim" /\ Nonces!GiveBack(req[r].link)
    BY <2>1, <2>2 DEF Holds, Nonces!GiveBack
  <2>3. CASE used' = used
    BY <1>1, <2>1, <2>3 DEF Holds
  <2> QED
    BY <1>3, <2>2, <2>3 DEF PrepareFails
<1>4. CASE ~Mark(r) /\ ~PrepareFails(r)
  <2>1. used' = used
    BY <1>4 DEF Arrive, Advance, Failure, Block, Lookup, ReadFails, Verify, Query, MarkThrows, Prepare,
       CreateKey, KeyExists, RotateKey, RotateThrows, Send, SendFails, Receipt, WaitFails, Crash,
       Mine, Revert
  <2>2. CASE Query(r)
    BY <1>1, <2>1, <2>2 DEF Query, Goto, Respond, Holds, TypeOK
  <2>3. CASE CreateKey(r) \/ Lookup(r) \/ Arrive(r)
    BY <1>1, <2>1, <2>3 DEF CreateKey, Lookup, AfterLookup, Arrive, Goto, Respond, At, Holds, TypeOK
  <2>4. CASE ~Query(r) /\ ~CreateKey(r) /\ ~Lookup(r) /\ ~Arrive(r)
    BY <1>1, <1>4, <2>1, <2>4 DEF Advance, Failure, Block, ReadFails, Verify, MarkThrows, Prepare,
       KeyExists, RotateKey, RotateThrows, Send, SendFails, Receipt, WaitFails, Crash, Mine, Revert,
       Abort, Goto, Respond, Holds, TypeOK
  <2> QED
    BY <2>2, <2>3, <2>4
<1> QED
  BY <1>2, <1>3, <1>4

(* What a step does to the keys.                                           *)
LEMMA KeyStep ==
  ASSUME TypeOK, Stages, NEW r \in Requests, Arrive(r) \/ Advance(r) \/ Failure(r) \/ Block(r)
  PROVE  \/ keys[Survey(r)] = 0 /\ \E k \in Nat \ {0} : keys' = [keys EXCEPT ![Survey(r)] = k]
         \/ /\ Keeps(r)' => Keeps(r)
            /\ \E k \in Nat \ {0} : keys' = [keys EXCEPT ![Survey(r)] = k]
         \/ Keeps(r) /\ ~Keeps(r)' /\ keys' = [keys EXCEPT ![Survey(r)] = 0]
         \/ keys' = keys /\ (Keeps(r)' => Keeps(r))
<1>1. req' = req
  BY OthersStay
<1>2. nextKey \in Nat /\ nextKey + 1 \in Nat \ {0}
  BY RouteAssumption DEF TypeOK
<1>3. CASE CreateKey(r)
  BY <1>2, <1>3 DEF CreateKey
<1>4. CASE RotateKey(r)
  <2>1. ~Keeps(r)'
    BY <1>1, <1>4 DEF RotateKey, At, Keeps
  <2> QED
    BY <1>2, <1>4, <2>1 DEF RotateKey
<1>5. CASE Abort(r) /\ pc[r] \in {"send", "wait"}
  <2>1. pc'[r] = "done" /\ answer'[r] = "error"
    BY <1>5 DEF Abort, Respond, TypeOK
  <2>2. ~Keeps(r)'
    BY <1>1, <2>1 DEF Keeps
  <2> QED
    BY <1>5, <2>2 DEF Abort, Keeps
<1>6. CASE Receipt(r) /\ Respond(r, "ok") /\ keys' = keys
  BY <1>1, <1>6 DEF Receipt, Respond, Keeps, TypeOK
<1>7. CASE Arrive(r) \/ Lookup(r) \/ ReadFails(r) \/ Verify(r) \/ Query(r)
  BY <1>1, <1>7 DEF Arrive, Lookup, AfterLookup, ReadFails, Verify, Query, keyVars, Goto, Respond,
     Keeps, Stages, TypeOK
<1>8. CASE Mark(r) \/ MarkThrows(r) \/ Prepare(r) \/ PrepareFails(r)
  BY <1>1, <1>8 DEF Mark, MarkThrows, Prepare, PrepareFails, keyVars, Goto, Respond, Keeps, Stages,
     Awards, TypeOK
<1>9. CASE KeyExists(r) \/ RotateThrows(r) \/ Send(r) \/ Crash(r) \/ Mine(r) \/ Revert(r)
  BY <1>1, <1>9 DEF KeyExists, RotateThrows, Send, Crash, Mine, Revert, keyVars, Goto, Respond,
     Keeps, TypeOK
<1> QED
  BY <1>3, <1>4, <1>5, <1>6, <1>7, <1>8, <1>9 DEF Advance, Failure, Block, SendFails, WaitFails,
     Receipt, keyVars

------------------------------------------------------------------------------
(* The invariant and its parts.                                            *)

IInv == TypeOK /\ Stages /\ HeldLinks /\ KeptKeys /\ AnswerIsTrue

LEMMA InitIInv == ASSUME Init PROVE IInv
<1>1. TypeOK
  BY InitType
<1>2. /\ pc = [r \in Requests |-> "idle"]
      /\ tx = [r \in Requests |-> "none"]
      /\ answer = [r \in Requests |-> "none"]
  BY DEF Init
<1> QED
  BY <1>1, <1>2 DEF IInv, Stages, HeldLinks, Holds, KeptKeys, Keeps, AnswerIsTrue

LEMMA StagesStep ==
  ASSUME TypeOK, Stages, NEW r \in Requests, Arrive(r) \/ Advance(r) \/ Failure(r) \/ Block(r)
  PROVE  Stages'
<1>1. /\ req' = req
      /\ \A q \in Requests \ {r} : pc'[q] = pc[q] /\ tx'[q] = tx[q] /\ answer'[q] = answer[q]
  BY OthersStay
<1>2. /\ pc'[r] \notin {"wait", "done"} => tx'[r] = "none"
      /\ pc'[r] # "done" => answer'[r] = "none"
      /\ pc'[r] \in {"verify", "mark"} => req[r].kind = "claim"
      /\ pc'[r] \in {"query", "prepare"} => req[r].kind \in Awards
  BY OwnStep DEF Stages
<1> QED
  BY <1>1, <1>2 DEF Stages

LEMMA AnswerStep ==
  ASSUME TypeOK, Stages, AnswerIsTrue, NEW r \in Requests,
         Arrive(r) \/ Advance(r) \/ Failure(r) \/ Block(r)
  PROVE  AnswerIsTrue'
<1>1. /\ req' = req
      /\ \A q \in Requests \ {r} : pc'[q] = pc[q] /\ tx'[q] = tx[q] /\ answer'[q] = answer[q]
  BY OthersStay
<1>2. /\ answer'[r] \in {"refused", "keyExists", "notSent"} => tx'[r] = "none"
      /\ answer'[r] = "ok" /\ req[r].kind # "rotate" => tx'[r] = "mined"
  BY OwnStep DEF Stages, AnswerIsTrue
<1> QED
  BY <1>1, <1>2 DEF AnswerIsTrue

LEMMA HeldStep ==
  ASSUME TypeOK, Stages, HeldLinks, NEW r \in Requests,
         Arrive(r) \/ Advance(r) \/ Failure(r) \/ Block(r)
  PROVE  HeldLinks'
<1>1. /\ req' = req
      /\ \A q \in Requests \ {r} : pc'[q] = pc[q] /\ tx'[q] = tx[q] /\ answer'[q] = answer[q]
  BY OthersStay
<1>2. \A q \in Requests \ {r} : Holds(q)' <=> Holds(q)
  BY <1>1 DEF Holds
<1>3. CASE /\ req[r].kind = "claim" /\ req[r].link \notin used
           /\ used' = used \union {req[r].link}
  BY <1>1, <1>2, <1>3 DEF HeldLinks
<1>4. CASE /\ req[r].kind = "claim" /\ Holds(r)
           /\ used' = used \ {req[r].link}
           /\ pc'[r] = "done" /\ tx'[r] = "none"
  <2>1. ~Holds(r)'
    BY <1>4 DEF Holds
  <2> QED
    BY <1>1, <1>2, <1>4, <2>1 DEF HeldLinks
<1>5. CASE used' = used /\ (Holds(r)' => Holds(r))
  BY <1>1, <1>2, <1>5 DEF HeldLinks
<1> QED
  BY <1>3, <1>4, <1>5, LinkStep

LEMMA KeptStep ==
  ASSUME TypeOK, Stages, KeptKeys, NEW r \in Requests,
         Arrive(r) \/ Advance(r) \/ Failure(r) \/ Block(r)
  PROVE  KeptKeys'
<1>1. /\ req' = req
      /\ \A q \in Requests \ {r} : pc'[q] = pc[q] /\ tx'[q] = tx[q] /\ answer'[q] = answer[q]
  BY OthersStay
<1>2. \A q \in Requests : Survey(q)' = Survey(q) /\ Survey(q) \in SurveyIds
  BY <1>1, SurveyType DEF Survey, TypeOK
<1>3. \A q \in Requests \ {r} : Keeps(q)' <=> Keeps(q)
  BY <1>1 DEF Keeps
<1>4. keys \in [SurveyIds -> Nat]
  BY RouteAssumption DEF TypeOK
<1>5. CASE /\ keys[Survey(r)] = 0
           /\ \E k \in Nat \ {0} : keys' = [keys EXCEPT ![Survey(r)] = k]
  BY <1>2, <1>3, <1>4, <1>5 DEF KeptKeys
<1>6. CASE /\ Keeps(r)' => Keeps(r)
           /\ \E k \in Nat \ {0} : keys' = [keys EXCEPT ![Survey(r)] = k]
  BY <1>2, <1>3, <1>4, <1>6 DEF KeptKeys
<1>7. CASE Keeps(r) /\ ~Keeps(r)' /\ keys' = [keys EXCEPT ![Survey(r)] = 0]
  BY <1>2, <1>3, <1>4, <1>7 DEF KeptKeys
<1>8. CASE keys' = keys /\ (Keeps(r)' => Keeps(r))
  BY <1>2, <1>3, <1>4, <1>8 DEF KeptKeys
<1> QED
  BY <1>5, <1>6, <1>7, <1>8, KeyStep

LEMMA StepIInv == ASSUME IInv, [Next]_vars PROVE IInv'
<1> USE DEF IInv
<1>1. TypeOK'
  BY StepType
<1>2. CASE UNCHANGED <<keys, used, pc, req, tx, answer>>
  BY <1>1, <1>2 DEF Stages, HeldLinks, Holds, KeptKeys, Keeps, Survey, AnswerIsTrue
<1>3. ASSUME NEW r \in Requests, Arrive(r) \/ Advance(r) \/ Failure(r) \/ Block(r)
      PROVE  IInv'
  BY <1>1, <1>3, StagesStep, HeldStep, KeptStep, AnswerStep
<1> QED
  BY <1>2, <1>3 DEF Next, Launch, vars, keyVars

THEOREM Invariance == Spec => []IInv
<1>1. Init => IInv
  BY InitIInv
<1>2. IInv /\ [Next]_vars => IInv'
  BY StepIInv
<1> QED
  BY <1>1, <1>2, PTL DEF Spec

------------------------------------------------------------------------------
(* The variables of the routes are of their types, and a key in use is one *)
(* that was generated.                                                     *)
THEOREM TypeCorrect == Spec => []TypeOK
<1>1. IInv => TypeOK
  BY DEF IInv
<1> QED
  BY <1>1, Invariance, PTL

(* Whatever requests race for a link, fail or crash, at most one of them   *)
(* ever hands a transaction to the RPC.                                    *)
THEOREM LinksSendOnce == Spec => []OneTxPerLink
<1>1. IInv => OneTxPerLink
  BY DEF IInv, HeldLinks, Holds, OneTxPerLink, Claims
<1> QED
  BY <1>1, Invariance, PTL

(* The link of a broadcast claim is never available again.                 *)
THEOREM SentLinksStaySpent == Spec => []SentLinkIsSpent
<1>1. IInv => SentLinkIsSpent
  BY DEF IInv, HeldLinks, Holds, SentLinkIsSpent, Claims
<1> QED
  BY <1>1, Invariance, PTL

(* notSent and every 4xx answer mean that nothing is mined later, success  *)
(* means that the transaction is mined.                                    *)
THEOREM AnswersAreTrue == Spec => []AnswerIsTrue
<1>1. IInv => AnswerIsTrue
  BY DEF IInv
<1> QED
  BY <1>1, Invariance, PTL

(* No registration takes away the key of one that succeeded.               *)
THEOREM AnsweredRegistrationKeepsKey == Spec => []AnsweredRegistrationHasKey
<1>1. IInv => AnsweredRegistrationHasKey
  BY DEF IInv, KeptKeys, Keeps, AnsweredRegistrationHasKey
<1> QED
  BY <1>1, Invariance, PTL

------------------------------------------------------------------------------
(* Where the tokens come from.                                             *)

(* A claim whose token was accepted, or that was sent.                     *)
Accepted(r) ==
  /\ req[r].kind = "claim"
  /\ pc[r] \in {"query", "mark", "prepare", "send", "wait"} \/ tx[r] # "none"

AcceptedWereLaunched == \A r \in Requests : Accepted(r) => issued[req[r].link] # 0

(* Keys have generations from 1 on, and a launch happens once.             *)
LEMMA LaunchesStay ==
  ASSUME TypeOK, [Next]_vars
  PROVE  \A l \in Links : issued[l] # 0 => issued'[l] # 0
<1>1. CASE issued' = issued
  BY <1>1
<1>2. ASSUME NEW l \in Links, Launch(l)
      PROVE  \A k \in Links : issued[k] # 0 => issued'[k] # 0
  BY <1>2 DEF Launch, TypeOK
<1>3. ASSUME NEW r \in Requests, Arrive(r) \/ Advance(r) \/ Failure(r) \/ Block(r)
      PROVE  issued' = issued
  BY <1>3 DEF Arrive, Advance, Failure, Block, Lookup, ReadFails, Verify, Query, Mark, MarkThrows,
     Prepare, PrepareFails, CreateKey, KeyExists, RotateKey, RotateThrows, Send, SendFails, Receipt,
     WaitFails, Crash, Mine, Revert, Abort
<1> QED
  BY <1>1, <1>2, <1>3 DEF Next, vars

(* Only Verify lets a claim in, and it compares with a key that is there.  *)
LEMMA AcceptStep ==
  ASSUME TypeOK, Stages, NEW r \in Requests, Arrive(r) \/ Advance(r) \/ Failure(r) \/ Block(r)
  PROVE  Accepted(r)' => Accepted(r) \/ issued[req[r].link] # 0
<1>1. req' = req
  BY OthersStay
<1>2. CASE Verify(r)
  BY <1>1, <1>2 DEF Verify, Respond, Goto, Accepted, Stages, TypeOK
<1>3. CASE Arrive(r) \/ Lookup(r) \/ ReadFails(r) \/ CreateKey(r)
  BY <1>1, <1>3 DEF Arrive, Lookup, AfterLookup, ReadFails, CreateKey, At, Goto, Respond, Accepted,
     TypeOK
<1>4. CASE pc[r] \in {"query", "mark", "prepare", "send", "wait"} \/ tx[r] # "none"
  BY <1>1, <1>4 DEF Accepted
<1>5. CASE KeyExists(r) \/ RotateKey(r) \/ RotateThrows(r) \/ Crash(r)
  BY <1>1, <1>5 DEF KeyExists, RotateKey, RotateThrows, Crash, At, Respond, Accepted, TypeOK
<1> QED
  BY <1>2, <1>3, <1>4, <1>5 DEF Advance, Failure, Block, Query, Mark, MarkThrows, Prepare,
     PrepareFails, Send, SendFails, Receipt, WaitFails, Mine, Revert

LEMMA AcceptedStep ==
  ASSUME TypeOK, Stages, AcceptedWereLaunched, [Next]_vars
  PROVE  AcceptedWereLaunched'
<1>1. \A l \in Links : issued[l] # 0 => issued'[l] # 0
  BY LaunchesStay
<1>2. \A r \in Requests : req[r].kind = "claim" => req[r].link \in Links
  BY LinkType DEF TypeOK
<1>3. CASE UNCHANGED <<pc, req, tx>>
  BY <1>1, <1>2, <1>3 DEF AcceptedWereLaunched, Accepted
<1>4. ASSUME NEW r \in Requests, Arrive(r) \/ Advance(r) \/ Failure(r) \/ Block(r)
      PROVE  AcceptedWereLaunched'
  <2>1. /\ req' = req
        /\ \A q \in Requests \ {r} : pc'[q] = pc[q] /\ tx'[q] = tx[q]
    BY <1>4, OthersStay
  <2>2. Accepted(r)' => issued[req[r].link] # 0
    BY <1>4, AcceptStep DEF AcceptedWereLaunched
  <2>3. \A q \in Requests \ {r} : Accepted(q)' => Accepted(q)
    BY <2>1 DEF Accepted
  <2>4. \A q \in Requests : Accepted(q)' => req[q].kind = "claim" /\ issued[req[q].link] # 0
    BY <2>1, <2>2, <2>3 DEF AcceptedWereLaunched, Accepted
  <2> QED
    BY <1>1, <1>2, <2>1, <2>4 DEF AcceptedWereLaunched
<1> QED
  BY <1>3, <1>4 DEF Next, Launch, vars

(* A transaction of a claim stands behind a launch, whatever was rotated,  *)
(* deleted or created again in between.                                    *)
THEOREM SentLinksWereLaunched == Spec => []SentLinkWasLaunched
<1>1. Init => AcceptedWereLaunched
  BY DEF Init, AcceptedWereLaunched, Accepted
<1>2. IInv /\ AcceptedWereLaunched /\ [Next]_vars => AcceptedWereLaunched'
  BY AcceptedStep DEF IInv
<1>3. AcceptedWereLaunched => SentLinkWasLaunched
  BY DEF AcceptedWereLaunched, Accepted, SentLinkWasLaunched, Claims
<1> QED
  BY <1>1, <1>2, <1>3, Invariance, PTL DEF Spec

------------------------------------------------------------------------------
(* What is credited.                                                       *)

LEMMA MinedFinite ==
  ASSUME IsFiniteSet(Requests), NEW kinds, NEW w, NEW id
  PROVE  IsFiniteSet(Mined(kinds, w, id)) /\ Cardinality(Mined(kinds, w, id)) \in Nat
<1>1. Mined(kinds, w, id) \in SUBSET Requests
  BY DEF Mined
<1> QED
  BY <1>1, FS_Subset, FS_CardinalityType

(* A transaction that is mined now counts for its own route, wallet and    *)
(* survey only.                                                            *)
LEMMA MinedAdds ==
  ASSUME TypeOK, NEW r \in Requests, Mine(r), NEW kinds, NEW w, NEW id, IsFiniteSet(Requests)
  PROVE  Cardinality(Mined(kinds, w, id))' =
           IF req[r].kind \in kinds /\ req[r].wallet = w /\ Survey(r) = id
             THEN Cardinality(Mined(kinds, w, id)) + 1
             ELSE Cardinality(Mined(kinds, w, id))
<1>1. req' = req /\ tx' = [tx EXCEPT ![r] = "mined"] /\ tx[r] = "pending"
  BY DEF Mine
<1>2. \A q \in Requests : Survey(q)' = Survey(q) /\ (tx'[q] = "mined" <=> q = r \/ tx[q] = "mined")
  BY <1>1 DEF Survey, TypeOK
<1>3. r \notin Mined(kinds, w, id)
  BY <1>1 DEF Mined
<1>4. CASE req[r].kind \in kinds /\ req[r].wallet = w /\ Survey(r) = id
  <2>1. Mined(kinds, w, id)' = Mined(kinds, w, id) \cup {r}
    BY <1>1, <1>2, <1>4 DEF Mined
  <2>2. Cardinality(Mined(kinds, w, id) \cup {r}) = Cardinality(Mined(kinds, w, id)) + 1
    BY <1>3, MinedFinite, FS_AddElement
  <2> QED
    BY <1>4, <2>1, <2>2
<1>5. CASE ~(req[r].kind \in kinds /\ req[r].wallet = w /\ Survey(r) = id)
  <2>1. Mined(kinds, w, id)' = Mined(kinds, w, id)
    BY <1>1, <1>2, <1>5 DEF Mined
  <2> QED
    BY <1>5, <2>1
<1> QED
  BY <1>4, <1>5

(* A step that mines nothing credits nothing.                              *)
LEMMA NothingMined ==
  ASSUME TypeOK, Stages, [Next]_vars, ~(\E r \in Requests : Mine(r))
  PROVE  /\ claimed' = claimed
         /\ \A kinds, w, id : Mined(kinds, w, id)' = Mined(kinds, w, id)
<1>1. CASE UNCHANGED vars
  BY <1>1 DEF vars, contractVars, Mined, Survey
<1>2. ASSUME NEW l \in Links, Launch(l)
      PROVE  claimed' = claimed /\ req' = req /\ tx' = tx
  BY <1>2 DEF Launch, contractVars
<1>3. ASSUME NEW r \in Requests, Arrive(r) \/ Advance(r) \/ Failure(r) \/ Revert(r)
      PROVE  /\ claimed' = claimed /\ req' = req
             /\ \A q \in Requests : tx'[q] = "mined" <=> tx[q] = "mined"
  <2>1. claimed' = claimed
    BY <1>3 DEF Arrive, Advance, Failure, Lookup, ReadFails, Verify, Query, Mark, MarkThrows,
       Prepare, PrepareFails, CreateKey, KeyExists, RotateKey, RotateThrows, Send, SendFails,
       Receipt, WaitFails, Crash, Revert, Abort, contractVars
  <2>2. /\ req' = req
        /\ \A q \in Requests \ {r} : tx'[q] = tx[q]
    BY <1>3, OthersStay DEF Block
  <2>3. CASE tx'[r] = tx[r]
    BY <2>1, <2>2, <2>3
  <2>4. CASE tx'[r] # tx[r]
    <3>1. Send(r) \/ SendFails(r) \/ Revert(r)
      BY <1>3, <2>4 DEF Arrive, Advance, Failure, Lookup, ReadFails, Verify, Query, Mark, MarkThrows,
         Prepare, PrepareFails, CreateKey, KeyExists, RotateKey, RotateThrows, Receipt, WaitFails,
         Crash
    <3>2. tx[r] # "mined" /\ tx'[r] # "mined"
      BY <2>4, <3>1 DEF Send, SendFails, Revert, Stages, TypeOK
    <3> QED
      BY <2>1, <2>2, <3>2
  <2> QED
    BY <2>3, <2>4
<1>4. /\ claimed' = claimed /\ req' = req
      /\ \A q \in Requests : tx'[q] = "mined" <=> tx[q] = "mined"
  BY <1>1, <1>2, <1>3 DEF Next, Block, vars, contractVars
<1> QED
  BY <1>4 DEF Mined, Survey

(* Mining is what credits: an award only where the flag is down, a         *)
(* revocation only where it is up.                                         *)
LEMMA CreditStep ==
  ASSUME IsFiniteSet(Requests), TypeOK, CreditedOnce, NEW r \in Requests, Mine(r)
  PROVE  CreditedOnce'
<1> DEFINE pair == <<req[r].wallet, Survey(r)>>
<1> DEFINE credit(w, id) ==
      Cardinality(Mined(Awards, w, id)) - Cardinality(Mined({"revoke"}, w, id))
<1>1. \A w \in Wallets, id \in SurveyIds : credit(w, id) = IF <<w, id>> \in claimed THEN 1 ELSE 0
  BY DEF CreditedOnce
<1>2. \A w, id : /\ Cardinality(Mined(Awards, w, id)) \in Nat
                 /\ Cardinality(Mined({"revoke"}, w, id)) \in Nat
  BY MinedFinite
<1>3. \A w, id : Cardinality(Mined(Awards, w, id))' =
        IF req[r].kind \in Awards /\ req[r].wallet = w /\ Survey(r) = id
          THEN Cardinality(Mined(Awards, w, id)) + 1 ELSE Cardinality(Mined(Awards, w, id))
  BY MinedAdds
<1>4. \A w, id : Cardinality(Mined({"revoke"}, w, id))' =
        IF req[r].kind \in {"revoke"} /\ req[r].wallet = w /\ Survey(r) = id
          THEN Cardinality(Mined({"revoke"}, w, id)) + 1
          ELSE Cardinality(Mined({"revoke"}, w, id))
  BY MinedAdds
<1>5. \/ req[r].kind \in Awards /\ pair \notin claimed /\ claimed' = claimed \union {pair}
      \/ req[r].kind = "revoke" /\ pair \in claimed /\ claimed' = claimed \ {pair}
      \/ req[r].kind \notin Awards \union {"revoke"} /\ claimed' = claimed
  <2>1. CASE req[r].kind \in Awards /\ Contract!AwardPoints(Server, req[r].wallet, Survey(r))
    BY <2>1 DEF Contract!AwardPoints, Contract!AwardAllowed
  <2>2. CASE req[r].kind = "revoke" /\ Contract!RevokePoints(Server, req[r].wallet, Survey(r))
    BY <2>2 DEF Contract!RevokePoints
  <2>3. CASE /\ req[r].kind \in {"deactivate", "reactivate"}
             /\ \/ Contract!DeactivateSurvey(Server, Survey(r))
                \/ Contract!ReactivateSurvey(Server, Survey(r))
    BY <2>3 DEF Awards, Contract!DeactivateSurvey, Contract!ReactivateSurvey
  <2>4. CASE /\ req[r].kind = "register"
             /\ \/ Contract!RegisterSurvey(Server, Survey(r), req[r].centi \div 100, req[r].limit)
                \/ Contract!RegisterSurveyCenti(Server, Survey(r), req[r].centi, req[r].limit)
    BY <2>4 DEF Awards, Contract!RegisterSurvey, Contract!RegisterSurveyCenti,
       Contract!RegisterWhole, Contract!RegisterFraction, Contract!WriteSurvey
  <2> QED
    BY <2>1, <2>2, <2>3, <2>4 DEF Mine, Execute
<1>6. ASSUME NEW w \in Wallets, NEW id \in SurveyIds
      PROVE  (Cardinality(Mined(Awards, w, id)) - Cardinality(Mined({"revoke"}, w, id))
               = IF <<w, id>> \in claimed THEN 1 ELSE 0)'
  <2>1. CASE req[r].wallet = w /\ Survey(r) = id
    BY <1>1, <1>2, <1>3, <1>4, <1>5, <2>1 DEF Awards
  <2>2. CASE ~(req[r].wallet = w /\ Survey(r) = id)
    <3>1. <<w, id>> # pair
      BY <2>2
    <3>2. <<w, id>> \in claimed' <=> <<w, id>> \in claimed
      BY <1>5, <3>1
    <3> QED
      BY <1>1, <1>2, <1>3, <1>4, <2>2, <3>2
  <2> QED
    BY <2>1, <2>2
<1> QED
  BY <1>6 DEF CreditedOnce

(* For each wallet and survey, mined awards minus mined revocations is the *)
(* claim flag: never two credits, however many requests were under way.    *)
THEOREM WalletsCreditedOnce ==
  ASSUME IsFiniteSet(Requests)
  PROVE  Spec => []CreditedOnce
<1>1. Init => CreditedOnce
  <2>1. SUFFICES ASSUME Init PROVE CreditedOnce
    OBVIOUS
  <2>2. claimed = {} /\ tx = [r \in Requests |-> "none"]
    BY <2>1 DEF Init, ContractWith
  <2>3. \A kinds, w, id : Mined(kinds, w, id) = {}
    BY <2>2 DEF Mined
  <2> QED
    BY <2>2, <2>3, FS_EmptySet DEF CreditedOnce
<1>2. IInv /\ CreditedOnce /\ [Next]_vars => CreditedOnce'
  <2>1. SUFFICES ASSUME IInv, CreditedOnce, [Next]_vars PROVE CreditedOnce'
    OBVIOUS
  <2>2. CASE \E r \in Requests : Mine(r)
    BY <2>1, <2>2, CreditStep DEF IInv
  <2>3. CASE ~(\E r \in Requests : Mine(r))
    <3>1. claimed' = claimed /\ \A kinds, w, id : Mined(kinds, w, id)' = Mined(kinds, w, id)
      BY <2>1, <2>3, NothingMined DEF IInv
    <3>2. ASSUME NEW w \in Wallets, NEW id \in SurveyIds
          PROVE  (Cardinality(Mined(Awards, w, id)) - Cardinality(Mined({"revoke"}, w, id))
                   = IF <<w, id>> \in claimed THEN 1 ELSE 0)'
      <4>1. /\ Mined(Awards, w, id)' = Mined(Awards, w, id)
            /\ Mined({"revoke"}, w, id)' = Mined({"revoke"}, w, id)
        BY <3>1
      <4> QED
        BY <2>1, <3>1, <4>1 DEF CreditedOnce
    <3> QED
      BY <3>2 DEF CreditedOnce
  <2> QED
    BY <2>2, <2>3
<1> QED
  BY <1>1, <1>2, Invariance, PTL DEF Spec

------------------------------------------------------------------------------
(* Refinement: the claim flow implements the ledger of links.              *)

LEMMA LedgerStep ==
  ASSUME IInv, [Next]_vars
  PROVE  [Ledger!Next]_Paid
<1>1. CASE UNCHANGED <<req, tx>>
  BY <1>1 DEF Paid
<1>2. ASSUME NEW r \in Requests, Arrive(r) \/ Advance(r) \/ Failure(r) \/ Block(r)
      PROVE  [Ledger!Next]_Paid
  <2>1. /\ req' = req
        /\ \A q \in Requests \ {r} : tx'[q] = tx[q]
    BY <1>2, OthersStay DEF IInv
  <2>2. CASE req[r].kind = "claim" /\ tx[r] # "mined" /\ tx'[r] = "mined"
    <3> DEFINE link == req[r].link
    <3> DEFINE wallet == req[r].wallet
    <3>1. link \in Links /\ wallet \in Wallets
      BY <2>2, LinkType DEF IInv, TypeOK
    <3>2. tx[r] = "pending"
      BY <1>2, <2>2, OwnStep DEF IInv, Stages
    <3>3. ASSUME NEW w \in Wallets PROVE <<link, w>> \notin Paid
      <4>1. SUFFICES ASSUME <<link, w>> \in Paid PROVE FALSE
        OBVIOUS
      <4>2. PICK q \in Requests : req[q].kind = "claim" /\ tx[q] = "mined" /\ req[q].link = link
        BY <4>1 DEF Paid
      <4> QED
        BY <2>2, <3>2, <4>2 DEF IInv, HeldLinks, Holds
    <3>4. Paid' = Paid \union {<<link, wallet>>}
      BY <2>1, <2>2 DEF Paid
    <3> QED
      BY <3>1, <3>3, <3>4 DEF Ledger!Next, Ledger!Pay
  <2>3. CASE req[r].kind = "claim" /\ (tx[r] = "mined" <=> tx'[r] = "mined")
    BY <2>1, <2>3 DEF Paid
  <2>4. CASE req[r].kind # "claim"
    BY <2>1, <2>4 DEF Paid
  <2>5. tx[r] = "mined" => tx'[r] = "mined"
    BY <1>2, OwnStep DEF IInv, Stages
  <2> QED
    BY <2>2, <2>3, <2>4, <2>5
<1> QED
  BY <1>1, <1>2 DEF Next, Launch, vars

(* Seen through Paid, the routes, the crashes and the chain are the ledger *)
(* in which a link pays one wallet, once.                                  *)
THEOREM ClaimsImplementLedger == Spec => LedgerSpec
<1>1. Init => Ledger!Init
  BY DEF Init, Ledger!Init, Paid
<1>2. IInv /\ [Next]_vars => [Ledger!Next]_Paid
  BY LedgerStep
<1> QED
  BY <1>1, <1>2, Invariance, PTL DEF Spec, LedgerSpec, Ledger!Spec
==============================================================================
