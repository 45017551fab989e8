------------------------------ MODULE ClaimPage -----------------------------
(***************************************************************************)
(* Claiming from the browser: pages/claim.tsx with hooks/use-wallet.ts,    *)
(* the signing of lib/wallet.ts and apiFetch.  A page sends a claim, the   *)
(* answer may be lost, and the student may try again or open the link in   *)
(* another tab while the first claim is still at work.  The server is      *)
(* taken as what WriteRoutes shows of it: a link is consumed by one        *)
(* request, pays its wallet once, may be given back if nothing was sent,   *)
(* and an error does not tell whether the transaction will still be mined. *)
(***************************************************************************)
EXTENDS Naturals

CONSTANTS
  Pages,         \* browser tabs on the claim page
  Links,         \* claim links of one survey
  Wallets,       \* local wallets and accounts of MetaMask
  Accounts,      \* those of MetaMask
  Claims,        \* claim requests sent: a bound
  Nothing

VARIABLES
  link,          \* page -> its link
  wallet,        \* page -> the wallet it shows, or Nothing
  selected,      \* the account MetaMask signs with
  currentStep, loading, error,
  signing,       \* page -> the wallet named in the message being signed
  waiting,       \* page -> the claim whose answer it waits for
  claim,         \* claim -> [link, wallet, signer] as sent
  served,        \* claim -> where the server is with it
  spent,         \* link -> the wallet that consumed it, or Nothing
  paid           \* pairs <<link, wallet>> that were paid

Ledger == INSTANCE LinkLedger

pageVars == <<link, wallet, currentStep, loading, error, signing, waiting>>
serverVars == <<claim, served, spent, paid>>
vars == <<pageVars, selected, serverVars>>

Unsent == [link |-> Nothing, wallet |-> Nothing, signer |-> Nothing]

Init ==
  /\ link \in [Pages -> Links]
  /\ wallet = [p \in Pages |-> Nothing]
  /\ selected \in Accounts
  /\ currentStep = [p \in Pages |-> "wallet"]
  /\ loading = [p \in Pages |-> FALSE]
  /\ error = [p \in Pages |-> FALSE]
  /\ signing = [p \in Pages |-> Nothing]
  /\ waiting = [p \in Pages |-> Nothing]
  /\ claim = [c \in Claims |-> Unsent]
  /\ served = [c \in Claims |-> "unsent"]
  /\ spent = [l \in Links |-> Nothing]
  /\ Ledger!Init

-----------------------------------------------------------------------------
(* The page.                                                               *)

\* loadWallet, or the way back from the points page, which sets up a wallet;
\* the effect moves on to signing.
WalletThere(p, w) ==
  /\ currentStep[p] = "wallet"
  /\ w \in Accounts => w = selected
  /\ wallet' = [wallet EXCEPT ![p] = w]
  /\ currentStep' = [currentStep EXCEPT ![p] = "sign"]
  /\ UNCHANGED <<link, loading, error, signing, waiting, selected, serverVars>>

\* handleSign up to the signature.  The button is disabled while it loads.
Submit(p) ==
  /\ currentStep[p] = "sign" /\ ~loading[p] /\ wallet[p] # Nothing
  /\ loading' = [loading EXCEPT ![p] = TRUE]
  /\ error' = [error EXCEPT ![p] = FALSE]
  /\ signing' = [signing EXCEPT ![p] = wallet[p]]
  /\ UNCHANGED <<link, wallet, currentStep, waiting, selected, serverVars>>

\* Who signs: the local key, or the account MetaMask has selected by then.
Signer(p) == IF signing[p] \in Accounts THEN selected ELSE signing[p]

\* The rest of handleSign up to the answer; c is a claim not sent before.
Send(p, c) ==
  /\ signing[p] # Nothing
  /\ served[c] = "unsent"
  /\ claim' = [claim EXCEPT ![c] =
                 [link |-> link[p], wallet |-> signing[p], signer |-> Signer(p)]]
  /\ served' = [served EXCEPT ![c] = "sent"]
  /\ waiting' = [waiting EXCEPT ![p] = c]
  /\ signing' = [signing EXCEPT ![p] = Nothing]
  /\ currentStep' = [currentStep EXCEPT ![p] = "submit"]
  /\ UNCHANGED <<link, wallet, loading, error, selected, spent, paid>>

\* The catch and the finally of handleSign.
Failed(p) ==
  /\ error' = [error EXCEPT ![p] = TRUE]
  /\ currentStep' = [currentStep EXCEPT ![p] = "sign"]
  /\ loading' = [loading EXCEPT ![p] = FALSE]

\* The signature is refused, or not there within 60 seconds.
SignFails(p) ==
  /\ signing[p] # Nothing
  /\ Failed(p)
  /\ signing' = [signing EXCEPT ![p] = Nothing]
  /\ UNCHANGED <<link, wallet, waiting, selected, serverVars>>

WrongArrives(p) ==
  /\ waiting[p] # Nothing /\ served[waiting[p]] \in {"ok", "refused"}
  /\ currentStep' = [currentStep EXCEPT ![p] = "done"]
  /\ loading' = [loading EXCEPT ![p] = FALSE]
  /\ waiting' = [waiting EXCEPT ![p] = Nothing]
  /\ UNCHANGED <<link, wallet, error, signing, selected, serverVars>>

\* The answer of apiFetch: the result, or an ApiRequestError.
Arrives(p) ==
  /\ waiting[p] # Nothing /\ served[waiting[p]] \in {"ok", "refused"}
  /\ IF served[waiting[p]] = "ok"
     THEN /\ currentStep' = [currentStep EXCEPT ![p] = "done"]
          /\ loading' = [loading EXCEPT ![p] = FALSE]
          /\ UNCHANGED error
     ELSE Failed(p)
  /\ waiting' = [waiting EXCEPT ![p] = Nothing]
  /\ UNCHANGED <<link, wallet, signing, selected, serverVars>>

\* The connection breaks, before or after the server did its work.
AnswerLost(p) ==
  /\ waiting[p] # Nothing
  /\ Failed(p)
  /\ waiting' = [waiting EXCEPT ![p] = Nothing]
  /\ UNCHANGED <<link, wallet, signing, selected, serverVars>>

\* The tab is reloaded or closed; what it sent goes on.
Reload(p) ==
  /\ wallet' = [wallet EXCEPT ![p] = Nothing]
  /\ currentStep' = [currentStep EXCEPT ![p] = "wallet"]
  /\ loading' = [loading EXCEPT ![p] = FALSE]
  /\ error' = [error EXCEPT ![p] = FALSE]
  /\ signing' = [signing EXCEPT ![p] = Nothing]
  /\ waiting' = [waiting EXCEPT ![p] = Nothing]
  /\ UNCHANGED <<link, selected, serverVars>>

\* accountsChanged: the pages with an account for their wallet show the new
\* one, also while they wait for the signature of the old one.
SwitchAccount(a) ==
  /\ a # selected
  /\ selected' = a
  /\ wallet' = [p \in Pages |-> IF wallet[p] \in Accounts THEN a ELSE wallet[p]]
  /\ UNCHANGED <<link, currentStep, loading, error, signing, waiting, serverVars>>

-----------------------------------------------------------------------------
(* The server.                                                             *)

\* The message must be signed by the wallet it names, the link unused, the
\* wallet without a claim for the survey.
Welcome(c) ==
  /\ claim[c].signer = claim[c].wallet
  /\ spent[claim[c].link] = Nothing
  /\ \A l \in Links : <<l, claim[c].wallet>> \notin paid

Accept(c) ==
  /\ served[c] = "sent" /\ Welcome(c)
  /\ spent' = [spent EXCEPT ![claim[c].link] = claim[c].wallet]
  /\ served' = [served EXCEPT ![c] = "accepted"]
  /\ UNCHANGED <<pageVars, selected, claim, paid>>

Answer(c, a) == served' = [served EXCEPT ![c] = a]

\* Turned away, or any error before the link is consumed.
Refuse(c) ==
  /\ served[c] = "sent"
  /\ Answer(c, "refused")
  /\ UNCHANGED <<pageVars, selected, claim, spent, paid>>

\* Nothing was sent to the chain: the link is given back.
GiveBack(c) ==
  /\ served[c] = "accepted" /\ <<claim[c].link, claim[c].wallet>> \notin paid
  /\ spent' = [spent EXCEPT ![claim[c].link] = Nothing]
  /\ Answer(c, "refused")
  /\ UNCHANGED <<pageVars, selected, claim, paid>>

\* The transaction is mined, also after the request was given up on.
Pay(c) ==
  /\ served[c] = "accepted" \/ served[c] = "unsure"
  /\ \A l \in Links : <<l, claim[c].wallet>> \notin paid
  /\ Ledger!Pay(claim[c].link, claim[c].wallet)
  /\ UNCHANGED <<pageVars, selected, claim, served, spent>>

Confirm(c) ==
  /\ served[c] = "accepted" /\ <<claim[c].link, claim[c].wallet>> \in paid
  /\ Answer(c, "ok")
  /\ UNCHANGED <<pageVars, selected, claim, spent, paid>>

\* Waiting for the transaction fails, or the process ends: the page hears
\* an error or nothing, and the transaction is still on its way.
GiveUp(c) ==
  /\ served[c] = "accepted"
  /\ Answer(c, "unsure")
  /\ UNCHANGED <<pageVars, selected, claim, spent, paid>>

PageStep(p) ==
  \/ \E w \in Wallets : WalletThere(p, w)
  \/ Submit(p)
  \/ \E c \in Claims : Send(p, c)
  \/ SignFails(p) \/ Arrives(p) \/ AnswerLost(p) \/ Reload(p)

ServerStep(c) ==
  Accept(c) \/ Refuse(c) \/ GiveBack(c) \/ Pay(c) \/ Confirm(c) \/ GiveUp(c)

Next ==
  \/ \E p \in Pages : PageStep(p)
  \/ \E a \in Accounts : SwitchAccount(a)
  \/ \E c \in Claims : ServerStep(c)

Spec == Init /\ [][Next]_vars

-----------------------------------------------------------------------------
(* Properties.                                                             *)

\* Types.
TypeOK ==
  /\ link \in [Pages -> Links]
  /\ wallet \in [Pages -> Wallets \union {Nothing}]
  /\ selected \in Accounts
  /\ currentStep \in [Pages -> {"wallet", "sign", "submit", "done"}]
  /\ loading \in [Pages -> BOOLEAN] /\ error \in [Pages -> BOOLEAN]
  /\ signing \in [Pages -> Wallets \union {Nothing}]
  /\ waiting \in [Pages -> Claims \union {Nothing}]
  /\ \A p \in Pages : loading[p] <=> signing[p] # Nothing \/ waiting[p] # Nothing
  /\ served \in [Claims -> {"unsent", "sent", "accepted", "unsure", "ok", "refused"}]
  /\ spent \in [Links -> Wallets \union {Nothing}]
  /\ paid \subseteq Links \X Wallets

SuccessShown(p) == currentStep'[p] = "done" /\ currentStep[p] # "done"

PaidWhenShown ==
  \A p \in Pages : SuccessShown(p) => <<link[p], claim[waiting[p]].wallet>> \in paid

\* A page shows success only to a student whose wallet, the one named in the
\* message when the button was pressed, was paid by this very link: never to
\* the second of two tabs, to a retry that lost against the first attempt,
\* or for an account MetaMask switched to while the claim was signed.
SuccessWasPaid == [][PaidWhenShown]_vars
=============================================================================
