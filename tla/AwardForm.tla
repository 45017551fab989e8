------------------------------ MODULE AwardForm -----------------------------
(***************************************************************************)
(* The form that gives a wallet the points of a survey by hand:            *)
(* components/admin/award-points.tsx.  Every address the admin types is    *)
(* looked up; the lookups of addresses typed before may answer at any      *)
(* time.                                                                   *)
(***************************************************************************)
CONSTANTS
  Addresses,     \* valid ones
  Blank,         \* what is not one
  Surveys,
  NoSurvey

VARIABLES
  active,        \* the active surveys of the list the page passes in
  paid,          \* the awards on the chain: [to, survey]
  picked,        \* the survey selected
  address,       \* what is typed
  lookups,       \* lookups under way: [of, live]; cancelled ones are not live
  preview,       \* what the last answer said: [of, claimed]
  previewLoading,
  step           \* "edit", "confirm", or "submitting" in the dialog

vars == <<active, paid, picked, address, lookups, preview, previewLoading, step>>

NoPreview == [of |-> Blank, claimed |-> {}]
Steps == {"edit", "confirm", "submitting"}

ClaimedBy(a) == {s \in Surveys : [to |-> a, survey |-> s] \in paid}

Init ==
  /\ active \in SUBSET Surveys
  /\ paid \in SUBSET [to : Addresses, survey : Surveys]
  /\ picked = NoSurvey /\ address = Blank
  /\ lookups = {} /\ preview = NoPreview /\ previewLoading = FALSE
  /\ step = "edit"

CanAward ==
  /\ picked \in active /\ address # Blank
  /\ picked \notin preview.claimed /\ ~previewLoading

\* The list is read again, or an admin elsewhere changes a survey.
ListChanges(s) ==
  /\ active' = IF s \in active THEN active \ {s} ELSE active \union {s}
  /\ UNCHANGED <<paid, picked, address, lookups, preview, previewLoading, step>>

Pick(s) ==
  /\ step = "edit" /\ picked' = s
  /\ UNCHANGED <<active, paid, address, lookups, preview, previewLoading, step>>

\* The effect: the cleanup cancels what is under way, a valid address is
\* looked up, anything else clears the preview.
Typed(a) ==
  /\ address' = a
  /\ lookups' = {[l EXCEPT !.live = FALSE] : l \in lookups}
                  \union (IF a = Blank THEN {} ELSE {[of |-> a, live |-> TRUE]})
  /\ preview' = (IF a = Blank THEN NoPreview ELSE preview)
  /\ previewLoading' = (a # Blank \/ previewLoading)

Type(a) ==
  /\ step = "edit" /\ a # address
  /\ Typed(a)
  /\ UNCHANGED <<active, paid, picked, step>>

Took(l) == [of |-> l.of, claimed |-> ClaimedBy(l.of)]

WrongPreviewAnswers(l) ==
  /\ l \in lookups /\ lookups' = lookups \ {l}
  /\ preview' = Took(l) /\ previewLoading' = FALSE
  /\ UNCHANGED <<active, paid, picked, address, step>>

PreviewAnswers(l) ==
  /\ l \in lookups /\ lookups' = lookups \ {l}
  /\ IF l.live THEN preview' = Took(l) /\ previewLoading' = FALSE
               ELSE UNCHANGED <<preview, previewLoading>>
  /\ UNCHANGED <<active, paid, picked, address, step>>

PreviewFails(l) ==
  /\ l \in lookups /\ lookups' = lookups \ {l}
  /\ IF l.live THEN preview' = NoPreview /\ previewLoading' = FALSE
               ELSE UNCHANGED <<preview, previewLoading>>
  /\ UNCHANGED <<active, paid, picked, address, step>>

OpenConfirm ==
  /\ step = "edit" /\ CanAward /\ step' = "confirm"
  /\ UNCHANGED <<active, paid, picked, address, lookups, preview, previewLoading>>

Cancel ==
  /\ step = "confirm" /\ step' = "edit"
  /\ UNCHANGED <<active, paid, picked, address, lookups, preview, previewLoading>>

Confirm ==
  /\ step = "confirm" /\ CanAward /\ step' = "submitting"
  /\ UNCHANGED <<active, paid, picked, address, lookups, preview, previewLoading>>

\* The wallet declines, or the server refuses: the dialog stays.  The server
\* may also have paid before its answer was lost.
Failed ==
  /\ step = "submitting" /\ step' = "confirm"
  /\ paid' \in {paid, paid \union {[to |-> address, survey |-> picked]}}
  /\ UNCHANGED <<active, picked, address, lookups, preview, previewLoading>>

\* The contract pays a wallet once per survey.
Awarded ==
  /\ step = "submitting"
  /\ [to |-> address, survey |-> picked] \notin paid
  /\ paid' = paid \union {[to |-> address, survey |-> picked]}
  /\ step' = "edit"
  /\ Typed(Blank)
  /\ UNCHANGED <<active, picked>>

Next ==
  \/ \E s \in Surveys : ListChanges(s) \/ Pick(s)
  \/ \E a \in Addresses \union {Blank} : Type(a)
  \/ \E l \in lookups : PreviewAnswers(l) \/ PreviewFails(l)
  \/ OpenConfirm \/ Cancel \/ Confirm \/ Failed \/ Awarded

Spec == Init /\ [][Next]_vars

-----------------------------------------------------------------------------
(* Properties.                                                             *)

\* Types.
TypeOK ==
  /\ active \subseteq Surveys /\ paid \subseteq [to : Addresses, survey : Surveys]
  /\ picked \in Surveys \union {NoSurvey} /\ address \in Addresses \union {Blank}
  /\ lookups \subseteq [of : Addresses, live : BOOLEAN]
  /\ preview \in [of : Addresses \union {Blank}, claimed : SUBSET Surveys]
  /\ previewLoading \in BOOLEAN /\ step \in Steps

\* "so the admin sees whose balance they are adding to before signing": when
\* the award button works, what is shown is of the wallet that will be paid,
\* whatever lookups of other addresses are still to answer.
PreviewIsOfTheAddress ==
  CanAward \/ step = "submitting" =>
    preview.of \in {address, Blank} /\ preview.claimed \subseteq ClaimedBy(address)
=============================================================================
