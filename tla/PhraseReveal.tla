---------------------------- MODULE PhraseReveal ----------------------------
(***************************************************************************)
(* Showing the recovery phrase of a wallet: the button of the wallet card  *)
(* that has to be held down (components/points/wallet-card.tsx), and the   *)
(* dialog it opens (MnemonicRevealDialog in wallet-dialogs.tsx).  The hold *)
(* is counted in animation frames; the callbacks of a frame run one after  *)
(* the other, and no other event comes between them.  The timers of the    *)
(* dialog may go off at any time after they were set.                      *)
(***************************************************************************)
EXTENDS Naturals

CONSTANTS
  Fingers,       \* pointers that can press the button
  Words,         \* the words of the phrase
  Nobody,        \* no word, no callback
  Callbacks,     \* requests for an animation frame
  HoldTime       \* HOLD_TO_REVEAL_MS, in frames

VARIABLES
  expanded,      \* whether the card shows the button
  pressing,      \* the pointers that pressed the button and are still down
  asked,         \* callback -> "start", "tick" or "free"
  running,       \* the callbacks the current frame has still to run
  holdStart,     \* frames since holdStartRef was set, or Unset
  holdRaf,       \* holdRafRef
  open,          \* whether the dialog is open
  hidden,        \* whether the browser tab is
  showAll, revealed,
  hideTimer,     \* the word whose timer runs
  clipboard, clipTimer

holdVars == <<expanded, pressing, asked, running, holdStart, holdRaf>>
dialogVars == <<showAll, revealed, hideTimer>>
clipVars == <<clipboard, clipTimer>>
vars == <<holdVars, open, hidden, dialogVars, clipVars>>

Unset == HoldTime + 1

Init ==
  /\ expanded = FALSE
  /\ pressing = {}
  /\ asked = [c \in Callbacks |-> "free"]
  /\ running = {}
  /\ holdStart = Unset
  /\ holdRaf = Nobody
  /\ open = FALSE
  /\ hidden = FALSE
  /\ showAll = FALSE
  /\ revealed = Nobody
  /\ hideTimer = Nobody
  /\ clipboard = "other"
  /\ clipTimer = FALSE

\* Between two frames.
Idle == running = {}

-----------------------------------------------------------------------------
(* Holding the button.                                                     *)

\* requestAnimationFrame.
AskFrame(kind, left) ==
  LET new == CHOOSE c \in Callbacks : left[c] = "free" /\ c # holdRaf
  IN  /\ \E c \in Callbacks : left[c] = "free" /\ c # holdRaf
      /\ asked' = [left EXCEPT ![new] = kind]
      /\ holdRaf' = new

\* What cancelHold leaves of the callbacks asked for.
Cancelled(left) ==
  IF holdRaf = Nobody THEN left ELSE [left EXCEPT ![holdRaf] = "free"]

\* The button is there for the phrase of a local wallet, in the open card.
HoldButtonShown == expanded /\ ~open

\* onPointerDown: handleHoldStart.
PointerDown(f) ==
  /\ Idle /\ HoldButtonShown /\ ~hidden
  /\ f \notin pressing
  /\ pressing' = pressing \union {f}
  /\ IF holdStart = Unset THEN AskFrame("start", asked) ELSE UNCHANGED <<asked, holdRaf>>
  /\ UNCHANGED <<expanded, running, holdStart, open, hidden, dialogVars, clipVars>>

\* onPointerUp, onPointerLeave, onPointerCancel: cancelHold, if the button
\* is still there to hear of it.
PointerUp(f) ==
  /\ Idle /\ f \in pressing
  /\ pressing' = pressing \ {f}
  /\ IF expanded
     THEN asked' = Cancelled(asked) /\ holdRaf' = Nobody /\ holdStart' = Unset
     ELSE UNCHANGED <<asked, holdRaf, holdStart>>
  /\ UNCHANGED <<expanded, running, open, hidden, dialogVars, clipVars>>

\* The next frame, 1/HoldTime of the hold later.
FrameBegins ==
  /\ Idle /\ ~hidden
  /\ running' = {c \in Callbacks : asked[c] # "free"}
  /\ running' # {}
  /\ holdStart' = IF holdStart < HoldTime THEN holdStart + 1 ELSE holdStart
  /\ UNCHANGED <<expanded, pressing, asked, holdRaf, open, hidden, dialogVars, clipVars>>

\* The callback of handleHoldStart sets the start and ticks at once.
StartHold(c) ==
  /\ c \in running /\ asked[c] = "start"
  /\ holdStart' = 0
  /\ AskFrame("tick", [asked EXCEPT ![c] = "free"])
  /\ running' = running \ {c}
  /\ UNCHANGED <<expanded, pressing, open, hidden, dialogVars, clipVars>>

\* tickHold.
TickHold(c) ==
  /\ c \in running /\ asked[c] = "tick"
  /\ LET left == [asked EXCEPT ![c] = "free"]
     IN  CASE holdStart = Unset ->
                asked' = left /\ running' = running \ {c} /\ UNCHANGED <<holdStart, holdRaf, open>>
           [] holdStart < HoldTime ->
                AskFrame("tick", left) /\ running' = running \ {c} /\ UNCHANGED <<holdStart, open>>
           [] OTHER ->
                /\ asked' = Cancelled(left)
                /\ running' = {d \in running \ {c} : asked'[d] # "free"}
                /\ holdRaf' = Nobody
                /\ holdStart' = Unset
                /\ open' = TRUE
  /\ UNCHANGED <<expanded, pressing, hidden, dialogVars, clipVars>>

\* The Manage button folds the card; the hold is not told.
ToggleExpanded ==
  /\ Idle /\ ~open /\ ~hidden
  /\ expanded' = ~expanded
  /\ UNCHANGED <<pressing, asked, running, holdStart, holdRaf, open, hidden, dialogVars, clipVars>>

-----------------------------------------------------------------------------
(* The dialog.                                                             *)

\* A word of the grid is legible.
Visible(w) == showAll \/ revealed = w

\* The effect on [revealedSingle, showAll]: the timer is that of the one
\* word shown, if there is one.
Show(all, word) ==
  /\ showAll' = all
  /\ revealed' = word
  /\ hideTimer' = IF all THEN Nobody ELSE word

WordClick(w) ==
  /\ Idle /\ open /\ ~hidden /\ ~showAll
  /\ Show(FALSE, IF revealed = w THEN Nobody ELSE w)
  /\ UNCHANGED <<holdVars, open, hidden, clipVars>>

ToggleShowAll ==
  /\ Idle /\ open /\ ~hidden
  /\ Show(~showAll, Nobody)
  /\ UNCHANGED <<holdVars, open, hidden, clipVars>>

AutoHide ==
  /\ Idle /\ hideTimer # Nobody
  /\ Show(showAll, Nobody)
  /\ UNCHANGED <<holdVars, open, hidden, clipVars>>

Cover == Show(FALSE, Nobody)

\* handleVisibility; it listens while the dialog is open.
TabHidden ==
  /\ Idle /\ ~hidden
  /\ hidden' = TRUE
  /\ IF open THEN Cover ELSE UNCHANGED dialogVars
  /\ UNCHANGED <<holdVars, open, clipVars>>

TabShown ==
  /\ hidden
  /\ hidden' = FALSE
  /\ UNCHANGED <<holdVars, open, dialogVars, clipVars>>

WrongClose ==
  /\ Idle /\ open /\ ~hidden
  /\ open' = FALSE
  /\ Show(showAll, Nobody)
  /\ UNCHANGED <<holdVars, hidden, clipVars>>

\* The close button, Escape, a click outside, and the effect on open.
Close ==
  /\ Idle /\ open /\ ~hidden
  /\ open' = FALSE
  /\ Cover
  /\ UNCHANGED <<holdVars, hidden, clipVars>>

\* handleCopyAll; the browser may refuse.
CopyAll ==
  /\ Idle /\ open /\ ~hidden
  /\ clipboard' = "phrase"
  /\ clipTimer' = TRUE
  /\ UNCHANGED <<holdVars, open, hidden, dialogVars>>

\* The clearing is refused when the page has no clipboard rights any more.
ClearClipboard ==
  /\ Idle /\ clipTimer
  /\ clipTimer' = FALSE
  /\ clipboard' \in {clipboard, "other"}
  /\ UNCHANGED <<holdVars, open, hidden, dialogVars>>

Next ==
  \/ \E f \in Fingers : PointerDown(f) \/ PointerUp(f)
  \/ \E c \in Callbacks : StartHold(c) \/ TickHold(c)
  \/ FrameBegins \/ ToggleExpanded
  \/ \E w \in Words : WordClick(w)
  \/ ToggleShowAll \/ AutoHide \/ TabHidden \/ TabShown \/ Close
  \/ CopyAll \/ ClearClipboard

Spec == Init /\ [][Next]_vars

-----------------------------------------------------------------------------
(* Properties.                                                             *)

\* Types.
TypeOK ==
  /\ expanded \in BOOLEAN /\ open \in BOOLEAN /\ hidden \in BOOLEAN
  /\ pressing \subseteq Fingers
  /\ asked \in [Callbacks -> {"free", "start", "tick"}]
  /\ running \subseteq {c \in Callbacks : asked[c] # "free"}
  /\ holdStart \in 0 .. Unset
  /\ holdRaf \in Callbacks \union {Nobody}
  /\ showAll \in BOOLEAN /\ clipTimer \in BOOLEAN
  /\ revealed \in Words \union {Nobody} /\ hideTimer \in Words \union {Nobody}
  /\ clipboard \in {"phrase", "other"}

\* "Tab switch re-blurs every word immediately", "each open word auto-hides
\* after 30 s", and a dialog that is opened again starts covered: whatever
\* was clicked, no word is shown in a closed dialog or a hidden tab, and the
\* timer that runs is the one of the word that is shown.
WordsAreCovered ==
  /\ (\E w \in Words : Visible(w)) => open /\ ~hidden
  /\ ~showAll => hideTimer = revealed
=============================================================================
