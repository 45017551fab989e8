------------------------------ MODULE SurveyDesk ----------------------------
(***************************************************************************)
(* The surveys of the dashboard: the handlers of pages/admin.tsx, with     *)
(* survey-table, register-survey-dialog and the dialogs that deactivate,   *)
(* regenerate and download.  Every dialog closes on Escape or a click      *)
(* beside it even while its call is under way, and may then be opened for  *)
(* another survey; the answer still comes.  A list that arrives may be as  *)
(* old as before the last change: the server caches it.                    *)
(***************************************************************************)
EXTENDS FiniteSets, FiniteSetsExt, Naturals

CONSTANTS
  Ids,           \* survey ids: 1..n
  None,
  MaxCalls       \* bound on the calls under way at once

VARIABLES
  server,        \* survey -> "none", "active" or "inactive"
  before,        \* the list before the server's last change
  rotated,       \* surveys whose key was rotated
  surveys,       \* the list shown
  dialog,        \* dialog -> the survey it is open for, or None
  busy,          \* dialog -> the survey its call under way is about, or None
  step,          \* dialog -> "idle", "call", or "list" when the lists follow
  freshMode,     \* why the template dialog opened
  formId         \* the id in the form of the register dialog

vars == <<server, before, rotated, surveys, dialog, busy, step, freshMode, formId>>

Dialogs == {"deactivate", "regenerate", "template", "register"}
Lists == [Ids -> {"none", "active", "inactive"}]

\* The id the form proposes.
NextSurveyId(list) ==
  LET ids == {i \in Ids : list[i] # "none"} IN
  IF ids = {} THEN 1 ELSE Max(ids) + 1

Init ==
  /\ server \in {l \in Lists : l[1] # "none"} /\ before = server /\ rotated = {}
  /\ surveys = [i \in Ids |-> "none"]
  /\ dialog = [d \in Dialogs |-> None] /\ busy = [d \in Dialogs |-> None]
  /\ step = [d \in Dialogs |-> "idle"]
  /\ freshMode = "none" /\ formId = 1

-----------------------------------------------------------------------------
(* Opening and closing.                                                    *)

\* The menu of a row offers what fits the survey's state in the list.
Offered(d, i) ==
  \/ d \in {"regenerate", "template"} /\ surveys[i] # "none"
  \/ d = "deactivate" /\ surveys[i] = "active"

Modal == \A d \in Dialogs : dialog[d] = None

Open(d, i) ==
  /\ Modal /\ Offered(d, i)
  /\ dialog' = [dialog EXCEPT ![d] = i]
  /\ freshMode' = (IF d = "template" THEN "none" ELSE freshMode)
  /\ UNCHANGED <<server, before, rotated, surveys, busy, step, formId>>

\* The register dialog is open for the survey its form names.
OpenRegister ==
  /\ Modal
  /\ formId' = NextSurveyId(surveys)
  /\ dialog' = [dialog EXCEPT !["register"] = formId']
  /\ UNCHANGED <<server, before, rotated, surveys, busy, step, freshMode>>

EditId(i) ==
  /\ dialog["register"] # None
  /\ formId' = i
  /\ dialog' = [dialog EXCEPT !["register"] = i]
  /\ UNCHANGED <<server, before, rotated, surveys, busy, step, freshMode>>

Close(d) ==
  /\ dialog[d] # None
  /\ dialog' = [dialog EXCEPT ![d] = None]
  /\ freshMode' = (IF d = "template" THEN "none" ELSE freshMode)
  /\ UNCHANGED <<server, before, rotated, surveys, busy, step, formId>>

-----------------------------------------------------------------------------
(* The calls.                                                              *)

\* The confirming button, disabled while this dialog's call is under way,
\* whichever survey that is about.
Confirm(d) ==
  /\ dialog[d] # None /\ step[d] = "idle"
  /\ Cardinality({e \in Dialogs : step[e] # "idle"}) < MaxCalls
  /\ d = "register" => dialog[d] \in Ids
  /\ busy' = [busy EXCEPT ![d] = dialog[d]]
  /\ step' = [step EXCEPT ![d] = "call"]
  /\ UNCHANGED <<server, before, rotated, surveys, dialog, freshMode, formId>>

Becomes(i, state) ==
  /\ server' = [server EXCEPT ![i] = state]
  /\ before' = server

Idle(d) ==
  /\ busy' = [busy EXCEPT ![d] = None]
  /\ step' = [step EXCEPT ![d] = "idle"]

\* handleDeactivateConfirm closes the dialog that is open by then.
Deactivated ==
  /\ step["deactivate"] = "call" /\ server[busy["deactivate"]] = "active"
  /\ Becomes(busy["deactivate"], "inactive")
  /\ dialog' = [dialog EXCEPT !["deactivate"] = None]
  /\ step' = [step EXCEPT !["deactivate"] = "list"]
  /\ UNCHANGED <<rotated, surveys, busy, freshMode, formId>>

WrongRegenerated ==
  /\ step["regenerate"] = "call" /\ server[busy["regenerate"]] # "none"
  /\ rotated' = rotated \union {busy["regenerate"]}
  /\ dialog' = [dialog EXCEPT !["template"] = dialog["regenerate"], !["regenerate"] = None]
  /\ freshMode' = "regenerated"
  /\ Idle("regenerate")
  /\ UNCHANGED <<server, before, surveys, formId>>

\* handleRegenerateConfirm: the template dialog opens for the survey that
\* was confirmed.
Regenerated ==
  /\ step["regenerate"] = "call" /\ server[busy["regenerate"]] # "none"
  /\ rotated' = rotated \union {busy["regenerate"]}
  /\ dialog' = [dialog EXCEPT !["template"] = busy["regenerate"], !["regenerate"] = None]
  /\ freshMode' = "regenerated"
  /\ Idle("regenerate")
  /\ UNCHANGED <<server, before, surveys, formId>>

Downloaded ==
  /\ step["template"] = "call"
  /\ Idle("template")
  /\ UNCHANGED <<server, before, rotated, surveys, dialog, freshMode, formId>>

\* The contract turns down an id that is taken.
Registered ==
  /\ step["register"] = "call" /\ server[busy["register"]] = "none"
  /\ Becomes(busy["register"], "active")
  /\ step' = [step EXCEPT !["register"] = "list"]
  /\ UNCHANGED <<rotated, surveys, dialog, busy, freshMode, formId>>

\* Refused, or the answer is lost; also the signature before a rotation.
CallFails(d) ==
  /\ step[d] = "call"
  /\ Idle(d)
  /\ UNCHANGED <<server, before, rotated, surveys, dialog, freshMode, formId>>

Reactivate(i) ==
  /\ Modal /\ surveys[i] = "inactive" /\ server[i] = "inactive"
  /\ Becomes(i, "active")
  /\ UNCHANGED <<rotated, surveys, dialog, busy, step, freshMode, formId>>

\* fetchSurveys; an open register form is reset when its proposal changes.
Listed(list) ==
  /\ surveys' = list
  /\ IF dialog["register"] # None /\ NextSurveyId(list) # NextSurveyId(surveys)
     THEN formId' = NextSurveyId(list) /\ dialog' = [dialog EXCEPT !["register"] = formId']
     ELSE UNCHANGED <<formId, dialog>>

Refresh(list) ==
  /\ step["register"] # "list"
  /\ Listed(list)
  /\ IF step["deactivate"] = "list" THEN Idle("deactivate") ELSE UNCHANGED <<busy, step>>
  /\ UNCHANGED <<server, before, rotated, freshMode>>

\* The rest of handleRegister: the template dialog opens for the new survey
\* if a second list has it; the register dialog closes.
AfterRegister(list) ==
  /\ step["register"] = "list"
  /\ surveys' = list /\ formId' = NextSurveyId(list)
  /\ IF list[busy["register"]] # "none"
     THEN /\ dialog' = [dialog EXCEPT !["template"] = busy["register"], !["register"] = None]
          /\ freshMode' = "registered"
     ELSE dialog' = [dialog EXCEPT !["register"] = None] /\ UNCHANGED freshMode
  /\ Idle("register")
  /\ UNCHANGED <<server, before, rotated>>

\* That list fails: the registration, which is done, is reported as failed,
\* and the dialog stays, its form proposing the next id.
SecondListFails(list) ==
  /\ step["register"] = "list"
  /\ Listed(list)
  /\ Idle("register")
  /\ UNCHANGED <<server, before, rotated, freshMode>>

Next ==
  \/ \E i \in Ids : EditId(i) \/ Reactivate(i)
  \/ \E d \in Dialogs, i \in Ids : Open(d, i)
  \/ OpenRegister
  \/ \E d \in Dialogs : Close(d) \/ Confirm(d) \/ CallFails(d)
  \/ Deactivated \/ Regenerated \/ Downloaded \/ Registered
  \/ \E list \in {server, before} : Refresh(list) \/ AfterRegister(list) \/ SecondListFails(list)

Spec == Init /\ [][Next]_vars

-----------------------------------------------------------------------------
(* Properties.                                                             *)

\* Types.
TypeOK ==
  /\ {server, before, surveys} \subseteq Lists
  /\ rotated \subseteq Ids
  /\ formId \in Nat /\ dialog["register"] \in {None, formId}
  /\ \A d \in Dialogs : dialog[d] \in Ids \union {None, formId} /\ (busy[d] = None <=> step[d] = "idle")
  /\ step \in [Dialogs -> {"idle", "call", "list"}]
  /\ freshMode \in {"none", "registered", "regenerated"}

\* The banner of the template dialog is true: the survey it names was just
\* registered, or had its key rotated, also when the dialog that asked for
\* it was closed and opened for another survey while the call was under way.
BannerIsTrue ==
  dialog["template"] # None =>
    /\ freshMode = "registered" => server[dialog["template"]] # "none"
    /\ freshMode = "regenerated" => dialog["template"] \in rotated
=============================================================================
