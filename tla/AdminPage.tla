------------------------------ MODULE AdminPage -----------------------------
(***************************************************************************)
(* The gate of the admin page: pages/admin.tsx with admin-auth-gate.tsx,   *)
(* the wallet of hooks/use-wallet.ts and the session calls of use-api.     *)
(* The page looks the role of its wallet up on chain, reuses the running   *)
(* session of that wallet or signs in, and shows the dashboard.  MetaMask  *)
(* may switch the wallet, and the session may end, between any two steps.  *)
(* One tab; the cookie is the browser's and outlives a reload.             *)
(***************************************************************************)
CONSTANTS
  Wallets,       \* accounts of MetaMask
  Nobody

VARIABLES
  wallet,        \* the account the page shows, or Nobody
  admins,        \* those with the admin role on chain
  adminCheck,
  lookups,       \* role lookups under way: [of, live]; cancelled ones are not live
  checkOf,       \* the wallet the last accepted lookup was about
  authenticated, authFailed, loggedOut,
  authStep,      \* where handleAuth waits; authLoading is authStep # "idle"
  authFor,       \* the wallet handleAuth was started for
  cookie,        \* the wallet of the session cookie, or Nobody
  call,          \* a call of the dashboard under way
  leaving        \* the logout call is under way

roleVars == <<adminCheck, lookups, checkOf>>
authVars == <<authenticated, authFailed, loggedOut, authStep, authFor>>
netVars == <<cookie, call, leaving>>
vars == <<wallet, admins, roleVars, authVars, netVars>>

\* The early return of the page, seen from the other side.
Dashboard == wallet # Nobody /\ adminCheck = "admin" /\ authenticated

\* The effect that signs in by itself is due.
AutoAuthDue ==
  /\ adminCheck = "admin" /\ ~authenticated /\ authStep = "idle"
  /\ ~loggedOut /\ ~authFailed

\* A role lookup for w; the cleanup of the effect cancels the ones before.
StartLookup(w) ==
  /\ adminCheck' = "loading"
  /\ lookups' = {[l EXCEPT !.live = FALSE] : l \in lookups}
                  \union (IF w = Nobody THEN {} ELSE {[of |-> w, live |-> TRUE]})

Init ==
  /\ wallet \in Wallets \union {Nobody}
  /\ admins \in SUBSET Wallets
  /\ adminCheck = "loading"
  /\ lookups = (IF wallet = Nobody THEN {} ELSE {[of |-> wallet, live |-> TRUE]})
  /\ checkOf = Nobody
  /\ authenticated = FALSE /\ authFailed = FALSE /\ loggedOut = FALSE
  /\ authStep = "idle" /\ authFor = Nobody
  /\ cookie \in Wallets \union {Nobody}
  /\ call = "none" /\ leaving = FALSE

-----------------------------------------------------------------------------
(* The wallet and its role.                                                *)

\* accountsChanged, or the connect button of the gate: both effects run.
ShowWallet(w) ==
  /\ w # wallet
  /\ wallet' = w
  /\ StartLookup(w)
  /\ authenticated' = FALSE
  /\ UNCHANGED <<admins, checkOf, authFailed, loggedOut, authStep, authFor, netVars>>

WrongLookupAnswers(l) ==
  /\ lookups' = lookups \ {l}
  /\ adminCheck' = (IF l.of \in admins THEN "admin" ELSE "denied")
  /\ checkOf' = l.of
  /\ UNCHANGED <<wallet, admins, authVars, netVars>>

LookupAnswers(l) ==
  /\ lookups' = lookups \ {l}
  /\ IF l.live
     THEN /\ adminCheck' = (IF l.of \in admins THEN "admin" ELSE "denied")
          /\ checkOf' = l.of
     ELSE UNCHANGED <<adminCheck, checkOf>>
  /\ UNCHANGED <<wallet, admins, authVars, netVars>>

LookupFails(l) ==
  /\ lookups' = lookups \ {l}
  /\ adminCheck' = (IF l.live THEN "error" ELSE adminCheck)
  /\ UNCHANGED <<wallet, admins, checkOf, authVars, netVars>>

\* The button of the gate after a failed lookup.
RetryCheck ==
  /\ wallet # Nobody /\ adminCheck = "error"
  /\ StartLookup(wallet)
  /\ UNCHANGED <<wallet, admins, checkOf, authVars, netVars>>

\* Somebody gives or takes the role.
RoleChanges(w) ==
  /\ admins' = (admins \ {w}) \union ({w} \ admins)
  /\ UNCHANGED <<wallet, roleVars, authVars, netVars>>

-----------------------------------------------------------------------------
(* Signing in.                                                             *)

\* handleAuth up to its first await.
HandleAuth ==
  /\ authStep' = "session" /\ authFor' = wallet
  /\ authFailed' = FALSE
  /\ UNCHANGED <<wallet, admins, roleVars, authenticated, netVars>>

AutoAuth == AutoAuthDue /\ HandleAuth /\ UNCHANGED loggedOut

\* The gate's button after a refusal or a logout.
RetryAuth ==
  /\ wallet # Nobody /\ adminCheck = "admin" /\ ~authenticated
  /\ loggedOut \/ authFailed
  /\ loggedOut' = FALSE
  /\ HandleAuth

\* getAdminSession: the session of the wallet handleAuth was started for is
\* reused; else the challenge is fetched.
SessionAnswers ==
  /\ authStep = "session"
  /\ IF cookie = authFor
     THEN authenticated' = TRUE /\ authStep' = "idle" /\ authFor' = Nobody
     ELSE authStep' = "sign" /\ UNCHANGED <<authenticated, authFor>>
  /\ UNCHANGED <<wallet, admins, roleVars, authFailed, loggedOut, netVars>>

\* MetaMask signs for the account selected by then; only the one that the
\* challenge names gets past the server.
Signs ==
  /\ authStep = "sign" /\ wallet = authFor
  /\ authStep' = "login"
  /\ UNCHANGED <<wallet, admins, roleVars, authenticated, authFailed, loggedOut, authFor, netVars>>

LoggedIn ==
  /\ authStep = "login" /\ authFor \in admins
  /\ cookie' = authFor
  /\ authenticated' = TRUE
  /\ authStep' = "idle" /\ authFor' = Nobody
  /\ UNCHANGED <<wallet, admins, roleVars, authFailed, loggedOut, call, leaving>>

\* The catch: a refused or late signature, a refused login, a lost answer,
\* perhaps of a login that set the cookie.
AuthFails ==
  /\ authStep # "idle"
  /\ authFailed' = TRUE
  /\ authStep' = "idle" /\ authFor' = Nobody
  /\ cookie' \in {cookie} \union (IF authStep = "login" THEN {authFor} \intersect admins ELSE {})
  /\ UNCHANGED <<wallet, admins, roleVars, authenticated, loggedOut, call, leaving>>

-----------------------------------------------------------------------------
(* The session.                                                            *)

SessionExpires ==
  /\ cookie # Nobody
  /\ cookie' = Nobody
  /\ UNCHANGED <<wallet, admins, roleVars, authVars, call, leaving>>

Call ==
  /\ Dashboard /\ call = "none"
  /\ call' = (IF cookie = Nobody THEN "unauthorized" ELSE "served")
  /\ UNCHANGED <<wallet, admins, roleVars, authVars, cookie, leaving>>

\* reportError and handleSessionExpired, also for a call of a dashboard that
\* is gone.
CallReturns ==
  /\ call # "none"
  /\ call' = "none"
  /\ authenticated' = (authenticated /\ call # "unauthorized")
  /\ UNCHANGED <<wallet, admins, roleVars, authFailed, loggedOut, authStep, authFor, cookie, leaving>>

\* handleLogout; whether the call clears the cookie is not waited for.
Logout ==
  /\ Dashboard
  /\ authenticated' = FALSE /\ loggedOut' = TRUE
  /\ leaving' = TRUE
  /\ UNCHANGED <<wallet, admins, roleVars, authFailed, authStep, authFor, cookie, call>>

LogoutReturns ==
  /\ leaving
  /\ leaving' = FALSE
  /\ cookie' \in {cookie, Nobody}
  /\ UNCHANGED <<wallet, admins, roleVars, authVars, call>>

\* React runs the effects of a render before it renders again.
Event ==
  \/ \E w \in Wallets \union {Nobody} : ShowWallet(w)
  \/ \E w \in Wallets : RoleChanges(w)
  \/ \E l \in lookups : LookupAnswers(l) \/ LookupFails(l)
  \/ RetryCheck \/ RetryAuth
  \/ SessionAnswers \/ Signs \/ LoggedIn \/ AuthFails
  \/ SessionExpires \/ Call \/ CallReturns \/ Logout \/ LogoutReturns

Next == AutoAuth \/ (~AutoAuthDue /\ Event)

Spec == Init /\ [][Next]_vars

-----------------------------------------------------------------------------
(* Properties.                                                             *)

\* Types; at most one lookup counts, that of the wallet shown.
TypeOK ==
  /\ {wallet, checkOf, authFor, cookie} \subseteq Wallets \union {Nobody}
  /\ admins \subseteq Wallets
  /\ adminCheck \in {"loading", "admin", "denied", "error"}
  /\ lookups \subseteq [of : Wallets, live : BOOLEAN]
  /\ \A l \in lookups : l.live => l.of = wallet
  /\ {authenticated, authFailed, loggedOut, leaving} \subseteq BOOLEAN
  /\ authStep \in {"idle", "session", "sign", "login"}
  /\ call \in {"none", "served", "unauthorized"}

\* The dashboard opens for a wallet only on an answer about that wallet's
\* role: the late answer about the account MetaMask showed before, which the
\* effect cancels, does not count.
DashboardOfAdmin == Dashboard => checkOf = wallet

\* pages/admin.tsx says that a session belongs to one wallet and that
\* switching wallets needs a new sign-in: the dashboard of a wallet does not
\* work on the session of another.
SessionIsOfTheWallet == Dashboard => cookie \in {wallet, Nobody}
=============================================================================
