----------------------------- MODULE WalletPage -----------------------------
(***************************************************************************)
(* The wallet of a student: the points page (pages/points.tsx), its        *)
(* dialogs, hooks/use-wallet.ts and lib/wallet.ts.  Every browser tab has  *)
(* a page of its own; the tabs share localStorage, and the accounts of     *)
(* MetaMask.  The words of a phrase are positions; the form tests of a     *)
(* phrase or key that is not one are left out.                             *)
(***************************************************************************)
EXTENDS FiniteSets, Naturals

CONSTANTS
  Tabs,
  Drafts,        \* wallets createWallet may come up with
  Known,         \* wallets whose keys the student has from elsewhere
  Accounts,      \* accounts of MetaMask
  NoWallet,
  Positions,     \* the positions of a phrase's words
  VerifyCount    \* how many are asked for

VARIABLES
  storage,       \* localStorage
  account,       \* the account MetaMask shows to the site, or NoWallet
  made,          \* the drafts made so far
  typed,         \* draft -> the positions typed right when it was last confirmed
  wallet,        \* tab -> the page's wallet
  dialog,        \* tab -> the open dialog
  step,          \* tab -> creationStep
  pendingWallet, verifyIndices,
  keyRevealed,
  connecting,    \* tab -> whether it waits for MetaMask
  claimReturn    \* tab -> whether it came from a claim

creationVars == <<step, pendingWallet, verifyIndices>>
pageVars == <<wallet, dialog, creationVars, keyRevealed, connecting, claimReturn>>
vars == <<storage, account, made, typed, pageVars>>

SomeWallets == Drafts \union Known \union Accounts \union {NoWallet}

AskFor == {p \in SUBSET Positions : Cardinality(p) = VerifyCount}

Init ==
  /\ storage \in Known \union {NoWallet}
  /\ account = NoWallet
  /\ made = {}
  /\ typed = [w \in Drafts |-> {}]
  /\ wallet = [t \in Tabs |-> storage]
  /\ dialog = [t \in Tabs |-> "none"]
  /\ step = [t \in Tabs |-> "idle"]
  /\ pendingWallet = [t \in Tabs |-> NoWallet]
  /\ verifyIndices = [t \in Tabs |-> {}]
  /\ keyRevealed = [t \in Tabs |-> FALSE]
  /\ connecting = [t \in Tabs |-> FALSE]
  /\ claimReturn \in {c \in [Tabs -> BOOLEAN] : storage # NoWallet => \A t \in Tabs : ~c[t]}

\* abortCreation, and the end of a creation.
NoCreation(t) ==
  /\ step' = [step EXCEPT ![t] = "idle"]
  /\ pendingWallet' = [pendingWallet EXCEPT ![t] = NoWallet]
  /\ verifyIndices' = [verifyIndices EXCEPT ![t] = {}]

\* saveWallet and setWallet; a page that was opened from a claim goes back
\* there at once, and whatever was open on it is gone.
Adopt(t, w, closes) ==
  /\ storage' = w
  /\ wallet' = [wallet EXCEPT ![t] = w]
  /\ claimReturn' = [claimReturn EXCEPT ![t] = FALSE]
  /\ dialog' = IF claimReturn[t] \/ closes THEN [dialog EXCEPT ![t] = "none"] ELSE dialog

-----------------------------------------------------------------------------
(* Creating a wallet: information, phrase, three of its words.             *)

\* WalletSetup shows its buttons to a page without a wallet; while a step
\* of the creation is shown, its dialog covers the page.
SetupShown(t) == wallet[t] = NoWallet /\ dialog[t] = "none" /\ step[t] = "idle"

CardShown(t) == wallet[t] # NoWallet /\ dialog[t] = "none" /\ step[t] = "idle"

OpenSetupDialog(t, which) ==
  /\ SetupShown(t)
  /\ dialog' = [dialog EXCEPT ![t] = which]
  /\ UNCHANGED <<storage, account, made, typed, wallet, creationVars, keyRevealed, connecting,
                 claimReturn>>

CloseDialog(t) ==
  /\ dialog[t] # "none"
  /\ dialog' = [dialog EXCEPT ![t] = "none"]
  /\ UNCHANGED <<storage, account, made, typed, wallet, creationVars, keyRevealed, connecting,
                 claimReturn>>

\* handleCreateConfirm.
StartCreation(t, draft, indices) ==
  /\ made' = made \union {draft}
  /\ pendingWallet' = [pendingWallet EXCEPT ![t] = draft]
  /\ verifyIndices' = [verifyIndices EXCEPT ![t] = indices]
  /\ dialog' = [dialog EXCEPT ![t] = "none"]
  /\ step' = [step EXCEPT ![t] = "reveal"]

\* CreateWalletDialog, once all three boxes are ticked.
CreateConfirm(t, draft, indices) ==
  /\ dialog[t] = "create"
  /\ draft \in Drafts \ made
  /\ StartCreation(t, draft, indices)
  /\ UNCHANGED <<storage, account, typed, wallet, keyRevealed, connecting, claimReturn>>

WrongRevealContinue(t) ==
  /\ step[t] = "reveal"
  /\ step' = [step EXCEPT ![t] = "verify"]
  /\ Adopt(t, pendingWallet[t], FALSE)
  /\ UNCHANGED <<account, made, typed, pendingWallet, verifyIndices, keyRevealed, connecting>>

\* handleRevealContinue.
RevealContinue(t) ==
  /\ step[t] = "reveal"
  /\ step' = [step EXCEPT ![t] = "verify"]
  /\ UNCHANGED <<storage, account, made, typed, wallet, dialog, pendingWallet, verifyIndices,
                 keyRevealed, connecting, claimReturn>>

\* handleBack and handleVerifyBack: other words the next time.
VerifyBack(t, indices) ==
  /\ step[t] = "verify"
  /\ step' = [step EXCEPT ![t] = "reveal"]
  /\ verifyIndices' = [verifyIndices EXCEPT ![t] = indices]
  /\ UNCHANGED <<storage, account, made, typed, wallet, dialog, pendingWallet, keyRevealed,
                 connecting, claimReturn>>

\* Escape, or a click outside, in the dialog of either step.
AbortCreation(t) ==
  /\ step[t] # "idle"
  /\ NoCreation(t)
  /\ UNCHANGED <<storage, account, made, typed, wallet, dialog, keyRevealed, connecting,
                 claimReturn>>

\* handleConfirm of the verify dialog compares the words asked for.
WordsRight(t, right) == verifyIndices[t] \subseteq right

\* The words at the positions in right were typed right; a wrong word
\* leaves everything as it is.
VerifyConfirm(t, right) ==
  /\ step[t] = "verify"
  /\ WordsRight(t, right)
  /\ typed' = [typed EXCEPT ![pendingWallet[t]] = right]
  /\ Adopt(t, pendingWallet[t], FALSE)
  /\ NoCreation(t)
  /\ UNCHANGED <<account, made, keyRevealed, connecting>>

-----------------------------------------------------------------------------
(* Importing, showing and deleting.                                        *)

\* handleImport and handleImportMnemonic.  The phrase of a draft can be
\* imported by who wrote it down, also when the creation was given up.
ImportConfirm(t, w) ==
  /\ dialog[t] = "import"
  /\ w \in Known \union made
  /\ typed' = IF w \in Drafts THEN [typed EXCEPT ![w] = Positions] ELSE typed
  /\ Adopt(t, w, TRUE)
  /\ UNCHANGED <<account, made, creationVars, keyRevealed, connecting>>

\* The buttons of the card of a local wallet.
OpenCardDialog(t, which) ==
  /\ CardShown(t) /\ wallet[t] \notin Accounts
  /\ which = "reveal" => ~keyRevealed[t]
  /\ dialog' = [dialog EXCEPT ![t] = which]
  /\ UNCHANGED <<storage, account, made, typed, wallet, creationVars, keyRevealed, connecting,
                 claimReturn>>

\* The key is shown once three boxes are ticked.
RevealConfirm(t) ==
  /\ dialog[t] = "reveal"
  /\ keyRevealed' = [keyRevealed EXCEPT ![t] = TRUE]
  /\ dialog' = [dialog EXCEPT ![t] = "none"]
  /\ UNCHANGED <<storage, account, made, typed, wallet, creationVars, connecting, claimReturn>>

HideKey(t) ==
  /\ CardShown(t) /\ wallet[t] \notin Accounts /\ keyRevealed[t]
  /\ keyRevealed' = [keyRevealed EXCEPT ![t] = FALSE]
  /\ UNCHANGED <<storage, account, made, typed, wallet, dialog, creationVars, connecting,
                 claimReturn>>

\* resetWalletState, and no dialog is left.
Remove(t) ==
  /\ storage' = NoWallet
  /\ wallet' = [wallet EXCEPT ![t] = NoWallet]
  /\ keyRevealed' = [keyRevealed EXCEPT ![t] = FALSE]
  /\ dialog' = [dialog EXCEPT ![t] = "none"]
  /\ UNCHANGED <<account, made, typed, creationVars, connecting, claimReturn>>

DeleteConfirm(t) == dialog[t] = "delete" /\ Remove(t)

\* handleDisconnect; nothing asks first.
Disconnect(t) == CardShown(t) /\ wallet[t] \in Accounts /\ Remove(t)

-----------------------------------------------------------------------------
(* MetaMask.                                                               *)

ConnectAsk(t) ==
  /\ Accounts # {}
  /\ SetupShown(t) /\ ~connecting[t]
  /\ connecting' = [connecting EXCEPT ![t] = TRUE]
  /\ UNCHANGED <<storage, account, made, typed, wallet, dialog, creationVars, keyRevealed,
                 claimReturn>>

\* The student answers the popup, whatever the page shows by then.
ConnectApproved(t, a) ==
  /\ connecting[t]
  /\ account \in {NoWallet, a}
  /\ account' = a
  /\ connecting' = [connecting EXCEPT ![t] = FALSE]
  /\ Adopt(t, a, FALSE)
  /\ IF claimReturn[t] THEN NoCreation(t) ELSE UNCHANGED creationVars
  /\ UNCHANGED <<made, typed, keyRevealed>>

ConnectRefused(t) ==
  /\ connecting[t]
  /\ connecting' = [connecting EXCEPT ![t] = FALSE]
  /\ UNCHANGED <<storage, account, made, typed, wallet, dialog, creationVars, keyRevealed,
                 claimReturn>>

\* handleAccountsChanged, in every page that has an account for its wallet.
AccountsChanged(a) ==
  /\ account # NoWallet /\ a # account
  /\ account' = a
  /\ LET told == {t \in Tabs : wallet[t] \in Accounts}
         changed == {t \in told : wallet[t] # a}
     IN  /\ wallet' = [t \in Tabs |-> IF t \in told THEN a ELSE wallet[t]]
         /\ storage' = IF changed # {} THEN a ELSE storage
  /\ UNCHANGED <<made, typed, dialog, creationVars, keyRevealed, connecting, claimReturn>>

\* The tab is closed or reloaded: the page starts from localStorage.
Reload(t, fromClaim) ==
  /\ wallet' = [wallet EXCEPT ![t] = storage]
  /\ dialog' = [dialog EXCEPT ![t] = "none"]
  /\ NoCreation(t)
  /\ keyRevealed' = [keyRevealed EXCEPT ![t] = FALSE]
  /\ connecting' = [connecting EXCEPT ![t] = FALSE]
  /\ claimReturn' = [claimReturn EXCEPT ![t] = fromClaim /\ storage = NoWallet]
  /\ UNCHANGED <<storage, account, made, typed>>

PageStep(t) ==
  \/ \E which \in {"create", "import"} : OpenSetupDialog(t, which)
  \/ \E which \in {"import", "delete", "reveal"} : OpenCardDialog(t, which)
  \/ CloseDialog(t)
  \/ \E draft \in Drafts, indices \in AskFor : CreateConfirm(t, draft, indices)
  \/ RevealContinue(t)
  \/ \E indices \in AskFor : VerifyBack(t, indices)
  \/ AbortCreation(t)
  \/ \E right \in SUBSET Positions : VerifyConfirm(t, right)
  \/ \E w \in Known \union Drafts : ImportConfirm(t, w)
  \/ RevealConfirm(t) \/ HideKey(t) \/ DeleteConfirm(t) \/ Disconnect(t)
  \/ ConnectAsk(t) \/ ConnectRefused(t)
  \/ \E a \in Accounts : ConnectApproved(t, a)
  \/ \E fromClaim \in BOOLEAN : Reload(t, fromClaim)

Next ==
  \/ \E t \in Tabs : PageStep(t)
  \/ \E a \in Accounts \union {NoWallet} : AccountsChanged(a)

Spec == Init /\ [][Next]_vars

-----------------------------------------------------------------------------
(* Properties.                                                             *)

\* Types.
TypeOK ==
  /\ storage \in SomeWallets
  /\ account \in Accounts \union {NoWallet}
  /\ made \subseteq Drafts
  /\ typed \in [Drafts -> SUBSET Positions]
  /\ wallet \in [Tabs -> SomeWallets]
  /\ dialog \in [Tabs -> {"none", "create", "import", "delete", "reveal"}]
  /\ step \in [Tabs -> {"idle", "reveal", "verify"}]
  /\ pendingWallet \in [Tabs -> Drafts \union {NoWallet}]
  /\ verifyIndices \in [Tabs -> SUBSET Positions]
  /\ \A t \in Tabs : step[t] = "idle" <=> pendingWallet[t] = NoWallet
  /\ keyRevealed \in [Tabs -> BOOLEAN]
  /\ connecting \in [Tabs -> BOOLEAN]
  /\ claimReturn \in [Tabs -> BOOLEAN]

\* "If they cancel or close the browser tab, nothing is persisted",
\* "abandoning the flow midway never leaves an unverified wallet stranded in
\* localStorage": a wallet made here is in localStorage, or on a page, only
\* after as many of its words as are asked for were typed, whatever was
\* cancelled, gone back to or reloaded in which tab before.
SavedWasVerified ==
  \A w \in Drafts :
    w \in {storage} \union {wallet[t] : t \in Tabs} => Cardinality(typed[w]) >= VerifyCount
=============================================================================
