------------------------------ MODULE RoleForm ------------------------------
(***************************************************************************)
(* The role management of the dashboard                                    *)
(* (components/admin/role-management.tsx), with the routes it calls (GET   *)
(* /, add, remove and PUT /label of routes/admin.ts) and the labels of     *)
(* services/admin-labels.ts.  Answers may arrive in any order.             *)
(***************************************************************************)
EXTENDS FiniteSets, Naturals

CONSTANTS
  Wallets,
  Mine,          \* the wallet of the page
  Minter,
  Labels,        \* what may be typed
  Blank,         \* no label
  Fetches,       \* fetches of the list that may be under way
  Saves          \* saves that may be under way

VARIABLES
  admins,        \* on the chain
  known,         \* what the event store makes of it
  labels,        \* wallet -> label, on the server
  list,          \* the page's entries: [wallets, labels]
  fetch,         \* fetch -> [step, entries, after]; after: after a role change
  view,          \* loadingAdmins, adminsError
  role,          \* the role change under way: [step, kind, about, synced]; synced: the sync
                 \* that followed was not given up
  editing,       \* the row whose label is edited, or Blank
  save           \* save -> [step, row, text]

Texts == Labels \union {Blank}

server == <<admins, known, labels>>
page == <<list, fetch, view, role, editing, save>>
vars == <<server, page>>

NoList == [wallets |-> {}, labels |-> [w \in Wallets |-> Blank]]
NoFetch == [step |-> "none", entries |-> NoList, after |-> FALSE]
Asking(after) == [step |-> "asked", entries |-> NoList, after |-> after]
NoRole == [step |-> "none", kind |-> "add", about |-> Mine, synced |-> FALSE]
NoEdit == Blank
NoSave == [step |-> "none", row |-> Mine, text |-> Blank]

\* The mount fetches the list.
Init ==
  /\ admins = {Mine, Minter} /\ known = admins
  /\ labels = [w \in Wallets |-> Blank]
  /\ list = NoList
  /\ \E f \in Fetches : fetch = [g \in Fetches |-> IF g = f THEN Asking(FALSE) ELSE NoFetch]
  /\ view = [loading |-> TRUE, error |-> FALSE]
  /\ role = NoRole /\ editing = NoEdit /\ save = [s \in Saves |-> NoSave]

-----------------------------------------------------------------------------
(* fetchAdmins.                                                            *)

Asks(f, after) ==
  /\ fetch[f] = NoFetch
  /\ fetch' = [fetch EXCEPT ![f] = Asking(after)]
  /\ view' = [loading |-> TRUE, error |-> FALSE]

\* The retry that is offered beside an error.
Retry(f) ==
  /\ view.error /\ ~view.loading
  /\ Asks(f, FALSE)
  /\ UNCHANGED <<server, list, role, editing, save>>

\* GET /: what the event store knows, with the labels (buildEntries).
Lists(f) ==
  /\ fetch[f].step = "asked"
  /\ fetch' = [fetch EXCEPT ![f] = [step |-> "answered", after |-> fetch[f].after,
                                    entries |-> [wallets |-> known, labels |-> labels]]]
  /\ UNCHANGED <<server, list, view, role, editing, save>>

\* The fetch after a role change is part of it.
Ends(f) ==
  /\ fetch' = [fetch EXCEPT ![f] = NoFetch]
  /\ role' = IF fetch[f].after THEN NoRole ELSE role

Listed(f) ==
  /\ fetch[f].step = "answered"
  /\ Ends(f)
  /\ list' = fetch[f].entries /\ view' = [view EXCEPT !.loading = FALSE]
  /\ UNCHANGED <<server, editing, save>>

ListFails(f) ==
  /\ fetch[f] # NoFetch
  /\ Ends(f)
  /\ view' = [loading |-> FALSE, error |-> TRUE]
  /\ UNCHANGED <<server, list, editing, save>>

\* The rows are shown.
Shown == ~view.loading /\ ~view.error

-----------------------------------------------------------------------------
(* handleAddAdmin and handleRemoveAdmin.                                   *)

Asked(kind, w) == role' = [NoRole EXCEPT !.step = "sent", !.kind = kind, !.about = w]

\* The address is typed in; the message names it.
Add(w) ==
  /\ role = NoRole /\ Asked("add", w)
  /\ UNCHANGED <<server, list, fetch, view, editing, save>>

\* canRemove
Removable(w) ==
  w \in list.wallets /\ Shown /\ editing # w /\ w # Minter /\ w # Mine

Remove(w) ==
  /\ role = NoRole /\ Removable(w) /\ Asked("remove", w)
  /\ UNCHANGED <<server, list, fetch, view, editing, save>>

\* POST /add, POST /remove (AdminApi); the sync that follows is given up
\* after a few seconds.
RoleChanges ==
  /\ role.step = "sent"
  /\ (role.about \in admins) = (role.kind = "remove")
  /\ role.kind = "remove" => role.about # Minter
  /\ admins' = IF role.kind = "add" THEN admins \union {role.about} ELSE admins \ {role.about}
  /\ \E synced \in BOOLEAN :
       /\ known' = IF synced THEN admins' ELSE known
       /\ role' = [role EXCEPT !.step = "done", !.synced = synced]
  /\ UNCHANGED <<labels, list, fetch, view, editing, save>>

\* Success: the list is fetched again.
Refetches(f) ==
  /\ role.step = "done" /\ Asks(f, TRUE)
  /\ role' = [role EXCEPT !.step = "listing"]
  /\ UNCHANGED <<server, list, editing, save>>

RoleFails ==
  /\ role.step = "sent" /\ role' = NoRole
  /\ UNCHANGED <<server, list, fetch, view, editing, save>>

Sync ==
  /\ known # admins /\ known' = admins
  /\ UNCHANGED <<admins, labels, page>>

-----------------------------------------------------------------------------
(* Labels.                                                                 *)

StartEditing(w) ==
  /\ w \in list.wallets /\ Shown /\ editing # w
  /\ editing' = w
  /\ UNCHANGED <<server, list, fetch, view, role, save>>

CancelEditing ==
  /\ editing # NoEdit /\ Shown /\ editing' = NoEdit
  /\ UNCHANGED <<server, list, fetch, view, role, save>>

\* What the field holds is saved.  The button is disabled while a save is
\* under way, the Enter key is not.
Save(s, text) ==
  /\ editing # NoEdit /\ Shown /\ save[s] = NoSave
  /\ save' = [save EXCEPT ![s] = [step |-> "sent", row |-> editing, text |-> text]]
  /\ UNCHANGED <<server, list, fetch, view, role, editing>>

\* setLabel; a blank label removes the entry.
SetLabel(s) ==
  /\ save[s].step = "sent"
  /\ labels' = [labels EXCEPT ![save[s].row] = save[s].text]
  /\ save' = [save EXCEPT ![s].step = "done"]
  /\ UNCHANGED <<admins, known, list, fetch, view, role, editing>>

\* An error; when the file could not be written the cached label has changed
\* all the same.
SetLabelFails(s) ==
  /\ save[s].step = "sent"
  /\ labels' \in {labels, [labels EXCEPT ![save[s].row] = save[s].text]}
  /\ save' = [save EXCEPT ![s] = NoSave]
  /\ UNCHANGED <<admins, known, list, fetch, view, role, editing>>

\* The row shows its new label, and cancelEditing ends the editing, of
\* whatever row.
LabelSaved(s) ==
  /\ save[s].step = "done"
  /\ list' = IF save[s].row \in list.wallets
             THEN [list EXCEPT !.labels = [list.labels EXCEPT ![save[s].row] = save[s].text]]
             ELSE list
  /\ editing' = NoEdit
  /\ save' = [save EXCEPT ![s] = NoSave]
  /\ UNCHANGED <<server, fetch, view, role>>

Next ==
  \/ \E f \in Fetches : Retry(f) \/ Lists(f) \/ Listed(f) \/ ListFails(f) \/ Refetches(f)
  \/ \E w \in Wallets : Add(w) \/ Remove(w) \/ StartEditing(w)
  \/ RoleChanges \/ RoleFails \/ Sync
  \/ CancelEditing
  \/ \E s \in Saves, text \in Texts : Save(s, text)
  \/ \E s \in Saves : SetLabel(s) \/ SetLabelFails(s) \/ LabelSaved(s)

Spec == Init /\ [][Next]_vars

-----------------------------------------------------------------------------
(* Properties.                                                             *)

Entries == [wallets : SUBSET Wallets, labels : [Wallets -> Texts]]

\* Types.
TypeOK ==
  /\ admins \subseteq Wallets /\ known \subseteq Wallets
  /\ labels \in [Wallets -> Texts]
  /\ list \in Entries
  /\ fetch \in [Fetches -> [step : {"none", "asked", "answered"}, entries : Entries,
                         after : BOOLEAN]]
  /\ view \in [loading : BOOLEAN, error : BOOLEAN]
  /\ role \in [step : {"none", "sent", "done", "listing"}, kind : {"add", "remove"}, about : Wallets,
              synced : BOOLEAN]
  /\ editing \in Wallets \union {Blank}
  /\ save \in [Saves -> [step : {"none", "sent", "done"}, row : Wallets, text : Texts]]

Changed(w) == IF role.kind = "add" THEN w \in list'.wallets ELSE w \notin list'.wallets

ListedAfterChange ==
  role.step = "listing" /\ role' = NoRole /\ ~view'.error /\ role.synced => Changed(role.about)

\* "the path that fixes the 'I just added an admin and they don't show up'":
\* the list that ends a role change shows it, whatever other fetch is under
\* way, if the server's sync was not given up.
ChangeIsListed == [][ListedAfterChange]_vars
=============================================================================
