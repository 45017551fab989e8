--------------------------- MODULE SubmissionForm ---------------------------
(***************************************************************************)
(* The search for a wallet's submission mark and the dialog that sets or   *)
(* removes it (components/admin/submission-management.tsx), with the       *)
(* routes of routes/wallets.ts.  Answers may arrive in any order.          *)
(***************************************************************************)
EXTENDS Naturals

CONSTANTS
  Wallets,
  Nothing,       \* no result, no dialog
  Others         \* requests of other dashboards that may be under way

VARIABLES
  submitted,     \* the wallets that are marked on the chain
  result,        \* the wallet the page shows, and the mark it read for it
  search,        \* the search under way: [step, wallet, mark]
  dialog,        \* confirmAction: [kind, about, searching]
  action,        \* the action under way: [step, kind, wallet]
  other          \* request -> [step, kind, wallet], another admin's

vars == <<submitted, result, search, dialog, action, other>>

NoResult == [wallet |-> Nothing, mark |-> FALSE]
NoSearch == [step |-> "none", wallet |-> Nothing, mark |-> FALSE]
NoDialog == [kind |-> Nothing, about |-> Nothing, searching |-> FALSE]
NoAction == [step |-> "none", kind |-> Nothing, wallet |-> Nothing]

Init ==
  /\ submitted \in SUBSET Wallets
  /\ result = NoResult /\ search = NoSearch /\ dialog = NoDialog /\ action = NoAction
  /\ other = [o \in Others |-> NoAction]

\* handleSearch; the button and the field are out of reach of a dialog.
Search(w) ==
  /\ dialog = NoDialog /\ search = NoSearch
  /\ search' = [NoSearch EXCEPT !.step = "asked", !.wallet = w]
  /\ UNCHANGED <<submitted, result, dialog, action, other>>

\* GET /:address/submitted
Reads ==
  /\ search.step = "asked"
  /\ search' = [search EXCEPT !.step = "answered", !.mark = search.wallet \in submitted]
  /\ UNCHANGED <<submitted, result, dialog, action, other>>

Found ==
  /\ search.step = "answered"
  /\ result' = [wallet |-> search.wallet, mark |-> search.mark]
  /\ search' = NoSearch
  /\ UNCHANGED <<submitted, dialog, action, other>>

\* The error is shown beside the result that was there before.
SearchFails ==
  /\ search # NoSearch /\ search' = NoSearch
  /\ UNCHANGED <<submitted, result, dialog, action, other>>

\* The button of the result, whatever search is under way.
Open ==
  /\ dialog = NoDialog /\ result # NoResult
  /\ dialog' = [kind |-> IF result.mark THEN "unmark" ELSE "mark", about |-> result.wallet,
                searching |-> search # NoSearch \/ action # NoAction]
  /\ UNCHANGED <<submitted, result, search, action, other>>

\* Escape and a click beside it close the dialog also while the action is
\* under way.
Close ==
  /\ dialog # NoDialog /\ dialog' = NoDialog
  /\ UNCHANGED <<submitted, result, search, action, other>>

WrongConfirm ==
  /\ dialog # NoDialog /\ action = NoAction
  /\ \E w \in Wallets : action' = [step |-> "sent", kind |-> dialog.kind, wallet |-> w]
  /\ UNCHANGED <<submitted, result, search, dialog, other>>

\* handleConfirm: for the result as it is at the click.
Confirm ==
  /\ dialog # NoDialog /\ action = NoAction
  /\ action' = [step |-> "sent", kind |-> dialog.kind, wallet |-> result.wallet]
  /\ UNCHANGED <<submitted, result, search, dialog, other>>

\* ALREADY_SUBMITTED, NOT_SUBMITTED
Fits(a) == (a.wallet \in submitted) = (a.kind = "unmark")

After(a) == IF a.kind = "mark" THEN submitted \union {a.wallet} ELSE submitted \ {a.wallet}

\* The routes read the mark before they send.
Checked ==
  /\ action.step = "sent" /\ Fits(action)
  /\ action' = [action EXCEPT !.step = "checked"]
  /\ UNCHANGED <<submitted, result, search, dialog, other>>

\* The transaction is mined; the contract, too, refuses what is so already.
Marked ==
  /\ action.step = "checked" /\ Fits(action)
  /\ submitted' = After(action)
  /\ action' = [action EXCEPT !.step = "marked"]
  /\ UNCHANGED <<result, search, dialog, other>>

\* Success closes the dialog; the mark of the wallet of the click is read
\* again.
Succeeds ==
  /\ action.step = "marked"
  /\ dialog' = NoDialog
  /\ action' = [action EXCEPT !.step = "reading"]
  /\ UNCHANGED <<submitted, result, search, other>>

Updated ==
  /\ action.step = "reading"
  /\ result' = [wallet |-> action.wallet, mark |-> action.wallet \in submitted]
  /\ action' = NoAction
  /\ UNCHANGED <<submitted, search, dialog, other>>

\* Refused or failed, or the second read fails; the dialog stays.
ActionFails ==
  /\ action # NoAction /\ action' = NoAction
  /\ UNCHANGED <<submitted, result, search, dialog, other>>

\* Another dashboard does the same.
OtherStarts(o, kind, w) ==
  /\ other[o] = NoAction
  /\ Fits([kind |-> kind, wallet |-> w])
  /\ other' = [other EXCEPT ![o] = [step |-> "checked", kind |-> kind, wallet |-> w]]
  /\ UNCHANGED <<submitted, result, search, dialog, action>>

OtherEnds(o) ==
  /\ other[o] # NoAction
  /\ submitted' = IF Fits(other[o]) THEN After(other[o]) ELSE submitted
  /\ other' = [other EXCEPT ![o] = NoAction]
  /\ UNCHANGED <<result, search, dialog, action>>

Next ==
  \/ \E w \in Wallets : Search(w)
  \/ Reads \/ Found \/ SearchFails \/ Open \/ Close \/ Confirm
  \/ Checked \/ Marked \/ Succeeds \/ Updated \/ ActionFails
  \/ \E o \in Others, kind \in {"mark", "unmark"}, w \in Wallets : OtherStarts(o, kind, w)
  \/ \E o \in Others : OtherEnds(o)

Spec == Init /\ [][Next]_vars

-----------------------------------------------------------------------------
(* Properties.                                                             *)

Kinds == {"mark", "unmark", Nothing}
Actions == [step : {"none", "sent", "checked", "marked", "reading"}, kind : Kinds,
            wallet : Wallets \union {Nothing}]

\* Types.
TypeOK ==
  /\ submitted \subseteq Wallets
  /\ result \in [wallet : Wallets \union {Nothing}, mark : BOOLEAN]
  /\ search \in [step : {"none", "asked", "answered"}, wallet : Wallets \union {Nothing},
                 mark : BOOLEAN]
  /\ dialog \in [kind : Kinds, about : Wallets \union {Nothing}, searching : BOOLEAN]
  /\ action \in Actions /\ other \in [Others -> Actions]

AskedAsOpened ==
  action = NoAction /\ action' # NoAction => dialog.searching \/ action'.wallet = dialog.about

\* What is confirmed is asked for the wallet the dialog was opened for, unless
\* a search was under way by then (or the answer to an earlier action): its
\* answer replaces the result under the open dialog.
ConfirmedIsOpened == [][AskedAsOpened]_vars
=============================================================================
