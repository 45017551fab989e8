------------------------------ MODULE AdminApi ------------------------------
(***************************************************************************)
(* Who gets in at the admin routes, and the routes that change a role:     *)
(* middleware/auth.ts, services/admin-session.ts, routes/auth.ts and       *)
(* routes/admin.ts of one server process.  A request runs alone from one   *)
(* await to the next; in between the chain, the clock and the other        *)
(* requests move.  Times are whole units of one clock; the signer's clock  *)
(* may be up to Skew ahead or behind.  Signatures and tokens cannot be     *)
(* forged, so a request carries one that exists; the tests of an input's   *)
(* form are left out.                                                      *)
(***************************************************************************)
EXTENDS FiniteSets, Integers

CONSTANTS
  Wallets,
  Minter,        \* the wallet of the backend, an admin
  Requests,      \* requests that may be under way at a time
  Signatures,    \* signatures a wallet may come to make
  RoleCache,     \* ROLE_CACHE_MS
  MaxAge,        \* maxMessageAgeMs
  Skew,          \* how far a message may lie in the future
  Margin,        \* how long past MaxAge a used signature is remembered
  Ttl,           \* LOGIN_CHALLENGE_TTL_MS
  SessionTime,   \* adminSessionHours
  MaxSessions,   \* bound on the sessions open at a time
  LookupTime,    \* the longest a read of the role takes
  MaxTime        \* bound on the clock

ASSUME TimeAssumption ==
  /\ {RoleCache, MaxAge, Skew, Margin, Ttl, SessionTime, MaxSessions, LookupTime, MaxTime}
       \subseteq Nat
  /\ RoleCache > 0

\* What the values in auth.ts are chosen for: a used signature is remembered
\* until no request that passed the age test can still be waiting.
ASSUME MarginAssumption == Skew + LookupTime <= Margin

ASSUME MinterAssumption == Minter \in Wallets

VARIABLES
  now,
  admins,        \* the holders of ADMIN_ROLE on the chain
  lostAt,        \* wallet -> when it last lost the role, or Never
  roleCache,     \* wallet -> [value, at], the cached answer
  message,       \* signature -> what was signed
  usedUntil,     \* signature -> until when it is remembered as used, or Never
  sessions,      \* session tokens in the browsers: [wallet, exp]
  at,            \* where each request is
  job,           \* its [route, who, sig, about]
  asked,         \* when it asked the chain
  answer,        \* what the chain said, or "none"
  admitted       \* signature -> how often it let a request in (since the start)

chainVars == <<admins, lostAt>>
authVars == <<roleCache, message, usedUntil, sessions, admitted>>
reqVars == <<at, job, asked, answer>>
vars == <<now, chainVars, authVars, reqVars>>

Never == -1
NoSig == "no signature"

RoleRoutes == {"add", "remove"}
Routes == RoleRoutes \union {"other", "login", "whoami"}

\* "asked": the middleware waits for the role; "in": the handler runs, or
\* waits for its read of the target's role; "sent": for its transaction.
Places == {"idle", "asked", "in", "sent"}

Unsigned == [kind |-> "none", by |-> Minter, about |-> Minter, ts |-> 0]
Messages == [kind : RoleRoutes \union {"login"}, by : Wallets, about : Wallets, ts : Int]

NoJob == [route |-> "other", who |-> Minter, sig |-> NoSig, about |-> Minter]

Init ==
  /\ now = 0
  /\ admins \in {a \in SUBSET Wallets : Minter \in a}
  /\ lostAt = [w \in Wallets |-> Never]
  /\ roleCache = [w \in Wallets |-> [value |-> FALSE, at |-> Never]]
  /\ message = [s \in Signatures |-> Unsigned]
  /\ usedUntil = [s \in Signatures |-> Never]
  /\ sessions = {}
  /\ at = [r \in Requests |-> "idle"]
  /\ job = [r \in Requests |-> NoJob]
  /\ asked = [r \in Requests |-> 0]
  /\ answer = [r \in Requests |-> "none"]
  /\ admitted = [s \in Signatures |-> 0]

-----------------------------------------------------------------------------
(* Wallets sign.                                                           *)

\* createLoginChallenge stamps the message with the server's clock; the
\* action messages carry the signer's.
Sign(s, kind, by, about, ts) ==
  /\ message[s] = Unsigned
  /\ IF kind = "login" THEN ts = now /\ about = by ELSE ts \in now - Skew .. now + Skew
  /\ message' = [message EXCEPT ![s] = [kind |-> kind, by |-> by, about |-> about, ts |-> ts]]
  /\ UNCHANGED <<now, chainVars, roleCache, usedUntil, sessions, admitted, reqVars>>

-----------------------------------------------------------------------------
(* The way in.                                                             *)

\* The request is answered.
Leave(r) ==
  /\ at' = [at EXCEPT ![r] = "idle"]
  /\ job' = [job EXCEPT ![r] = NoJob]
  /\ asked' = [asked EXCEPT ![r] = 0]
  /\ answer' = [answer EXCEPT ![r] = "none"]

Ask(r, route, who, sig, about) ==
  /\ at' = [at EXCEPT ![r] = "asked"]
  /\ job' = [job EXCEPT ![r] = [route |-> route, who |-> who, sig |-> sig, about |-> about]]
  /\ asked' = [asked EXCEPT ![r] = now]
  /\ answer' = [answer EXCEPT ![r] = "none"]

\* readSession: the token has not expired.
Good(token) == token.exp > now

\* issueSession
NewSession(w) == [wallet |-> w, exp |-> now + SessionTime]

WrongFresh(w) == roleCache[w].at # Never

\* isAdminCached, the test of the cached answer.
Fresh(w) == roleCache[w].at # Never /\ now - roleCache[w].at < RoleCache

\* requireAdmin with a session whose role is in the cache: in, or refused.
SessionHit(r, token) ==
  /\ at[r] = "idle"
  /\ token \in sessions /\ Good(token)
  /\ Fresh(token.wallet) /\ roleCache[token.wallet].value
  /\ at' = [at EXCEPT ![r] = "in"]
  /\ job' = [job EXCEPT ![r] =
               [route |-> "other", who |-> token.wallet, sig |-> NoSig, about |-> Minter]]
  /\ UNCHANGED <<now, chainVars, authVars, asked, answer>>

\* requireAdmin with a session, and GET /session, which caches nothing.
SessionAsks(r, token, route) ==
  /\ at[r] = "idle"
  /\ token \in sessions /\ Good(token)
  /\ route = "whoami" \/ ~Fresh(token.wallet)
  /\ Ask(r, route, token.wallet, NoSig, Minter)
  /\ UNCHANGED <<now, chainVars, authVars>>

InTime(s) == now - message[s].ts \in -Skew .. MaxAge

\* verifySignedRequest up to its await.  requireAdmin takes any action
\* message, requireAdminAction one that names the action and its target.
SignedAsks(r, s, route) ==
  /\ at[r] = "idle"
  /\ message[s].kind \in RoleRoutes
  /\ route \in {"other", message[s].kind}
  /\ InTime(s)
  /\ Ask(r, route, message[s].by, s, message[s].about)
  /\ UNCHANGED <<now, chainVars, authVars>>

WrongForgotten(s) == ~(usedUntil[s] # Never /\ usedUntil[s] - Margin >= now)

\* consumeActionSignature and consumeLoginNonce forget what expired before
\* they look.
Forgotten(s) == ~(usedUntil[s] # Never /\ usedUntil[s] >= now)

\* POST /login: verifyLogin consumes the nonce, then the role is read.
LoginAsks(r, s) ==
  /\ at[r] = "idle"
  /\ message[s].kind = "login"
  /\ now - message[s].ts <= Ttl
  /\ Forgotten(s)
  /\ usedUntil' = [usedUntil EXCEPT ![s] = message[s].ts + Ttl]
  /\ Ask(r, "login", message[s].by, s, message[s].by)
  /\ UNCHANGED <<now, chainVars, roleCache, message, sessions, admitted>>

\* The node evaluates hasRole at some moment before its answer arrives.
NodeAnswers(r) ==
  /\ at[r] = "asked" /\ answer[r] = "none"
  /\ answer' = [answer EXCEPT ![r] = IF job[r].who \in admins THEN "yes" ELSE "no"]
  /\ UNCHANGED <<now, chainVars, authVars, at, job, asked>>

SessionRequest(r) == job[r].route = "other" /\ job[r].sig = NoSig

Remember(r) ==
  roleCache' = IF SessionRequest(r)
               THEN [roleCache EXCEPT ![job[r].who] = [value |-> answer[r] = "yes", at |-> now]]
               ELSE roleCache

LetIn(r) ==
  /\ at' = [at EXCEPT ![r] = "in"]
  /\ admitted' = IF job[r].route \in RoleRoutes \union {"login"}
                 THEN [admitted EXCEPT ![job[r].sig] = @ + 1]
                 ELSE admitted

\* A session request, a signed read, GET /session and a login go on.
RoleConfirmed(r) ==
  /\ at[r] = "asked" /\ answer[r] = "yes"
  /\ job[r].route \notin RoleRoutes
  /\ Remember(r)
  /\ LetIn(r)
  /\ job[r].route = "login" => Cardinality(sessions) < MaxSessions
  /\ sessions' = IF job[r].route = "login"
                 THEN sessions \union {NewSession(job[r].who)}
                 ELSE sessions
  /\ UNCHANGED <<now, chainVars, message, usedUntil, job, asked, answer>>

\* consumeActionSignature, after the role.
ActionConfirmed(r) ==
  /\ at[r] = "asked" /\ answer[r] = "yes"
  /\ job[r].route \in RoleRoutes
  /\ Forgotten(job[r].sig)
  /\ usedUntil' = [usedUntil EXCEPT ![job[r].sig] = now + MaxAge + Margin]
  /\ LetIn(r)
  /\ UNCHANGED <<now, chainVars, roleCache, message, sessions, job, asked, answer>>

\* FORBIDDEN, SIGNATURE_USED, or the lookup failed.
Refused(r) ==
  /\ at[r] = "asked"
  /\ \/ answer[r] = "no" /\ Remember(r)
     \/ /\ answer[r] = "yes" /\ job[r].route \in RoleRoutes
        /\ ~Forgotten(job[r].sig) /\ UNCHANGED roleCache
     \/ answer[r] = "none" /\ UNCHANGED roleCache
  /\ Leave(r)
  /\ UNCHANGED <<now, chainVars, message, usedUntil, sessions, admitted>>

-----------------------------------------------------------------------------
(* The handlers that change a role.                                        *)

\* The other routes answer; remove refuses the minter; the read of the
\* target shows that there is nothing to do.
Done(r) ==
  /\ at[r] = "in"
  /\ job[r].route \in RoleRoutes /\ job[r].about # Minter =>
       (job[r].about \in admins) = (job[r].route = "add")
  /\ Leave(r)
  /\ UNCHANGED <<now, chainVars, authVars>>

\* What isAdmin said of the target may be out of date when the transaction
\* is mined.
Send(r) ==
  /\ at[r] = "in"
  /\ job[r].route \in RoleRoutes
  /\ (job[r].about \in admins) = (job[r].route = "remove")
  /\ job[r].route = "remove" => job[r].about # Minter
  /\ at' = [at EXCEPT ![r] = "sent"]
  /\ UNCHANGED <<now, chainVars, authVars, job, asked, answer>>

\* That read or the transaction fails.
Fails(r) ==
  /\ at[r] \in {"in", "sent"}
  /\ Leave(r)
  /\ UNCHANGED <<now, chainVars, authVars>>

\* The contract's addAdmin and removeAdmin, called by the minter.
Mined(r) ==
  /\ at[r] = "sent"
  /\ Minter \in admins
  /\ admins' = IF job[r].route = "add" THEN admins \union {job[r].about} ELSE admins \ {job[r].about}
  /\ lostAt' = IF job[r].about \in admins \ admins' THEN [lostAt EXCEPT ![job[r].about] = now] ELSE lostAt
  /\ Leave(r)
  /\ UNCHANGED <<now, authVars>>

-----------------------------------------------------------------------------
(* The surroundings.                                                       *)

\* Another admin's wallet, or a script, changes a role on the chain.
Outside(w) ==
  /\ w # Minter
  /\ IF w \in admins THEN admins' = admins \ {w} /\ lostAt' = [lostAt EXCEPT ![w] = now]
                     ELSE admins' = admins \union {w} /\ UNCHANGED lostAt
  /\ UNCHANGED <<now, authVars, reqVars>>

\* POST /logout clears the cookie; the token itself stays good.
Logout(token) ==
  /\ token \in sessions
  /\ sessions' = sessions \ {token}
  /\ UNCHANGED <<now, chainVars, roleCache, message, usedUntil, admitted, reqVars>>

\* Nothing of this is on disk but the secret the tokens are signed with.
Restart ==
  /\ roleCache' = [w \in Wallets |-> [value |-> FALSE, at |-> Never]]
  /\ usedUntil' = [s \in Signatures |-> Never]
  /\ admitted' = [s \in Signatures |-> 0]
  /\ at' = [r \in Requests |-> "idle"]
  /\ job' = [r \in Requests |-> NoJob]
  /\ asked' = [r \in Requests |-> 0]
  /\ answer' = [r \in Requests |-> "none"]
  /\ UNCHANGED <<now, chainVars, message, sessions>>

\* A lookup comes back, or is given up, within LookupTime.
Tick ==
  /\ now < MaxTime
  /\ \A r \in Requests : at[r] = "asked" => now < asked[r] + LookupTime
  /\ now' = now + 1
  /\ UNCHANGED <<chainVars, authVars, reqVars>>

HandlerStep(r) ==
  \/ \E token \in sessions :
       \/ SessionHit(r, token)
       \/ \E route \in {"other", "whoami"} : SessionAsks(r, token, route)
  \/ \E s \in Signatures, route \in RoleRoutes \union {"other"} : SignedAsks(r, s, route)
  \/ \E s \in Signatures : LoginAsks(r, s)
  \/ NodeAnswers(r) \/ RoleConfirmed(r) \/ ActionConfirmed(r) \/ Refused(r)
  \/ Done(r) \/ Send(r) \/ Mined(r) \/ Fails(r)

Next ==
  \/ \E r \in Requests : HandlerStep(r)
  \/ \E s \in Signatures, kind \in RoleRoutes \union {"login"}, by, about \in Wallets,
        ts \in now - Skew .. now + Skew : Sign(s, kind, by, about, ts)
  \/ \E w \in Wallets : Outside(w)
  \/ \E token \in sessions : Logout(token)
  \/ Restart
  \/ Tick

Spec == Init /\ [][Next]_vars

-----------------------------------------------------------------------------
(* Properties.                                                             *)

\* Types.
TypeOK ==
  /\ now \in 0 .. MaxTime
  /\ Minter \in admins /\ admins \subseteq Wallets
  /\ lostAt \in [Wallets -> Nat \union {Never}]
  /\ roleCache \in [Wallets -> [value : BOOLEAN, at : Nat \union {Never}]]
  /\ message \in [Signatures -> Messages \union {Unsigned}]
  /\ usedUntil \in [Signatures -> Nat \union {Never}]
  /\ sessions \subseteq [wallet : Wallets, exp : Nat]
  /\ at \in [Requests -> Places]
  /\ job \in [Requests -> [route : Routes, who : Wallets, sig : Signatures \union {NoSig},
                           about : Wallets]]
  /\ asked \in [Requests -> Nat]
  /\ answer \in [Requests -> {"none", "yes", "no"}]
  /\ admitted \in [Signatures -> Nat]

HeldWithin(w, time) == w \in admins \/ (lostAt[w] # Never /\ now <= lostAt[w] + time)

\* "The on-chain ADMIN_ROLE is re-checked, cached for a minute, so a revoked
\* admin loses access within that minute": a request gets in only for a
\* wallet that held the role within the minute and the time of one lookup,
\* with a signature, a login or GET /session within the time of a lookup.
\* Lookups under way when the role is lost, and answers that arrive out of
\* order, are what could stretch this.
LetInRecently ==
  [][\A r \in Requests :
       at'[r] = "in" /\ at[r] # "in" =>
         HeldWithin(job'[r].who,
           LookupTime + IF job'[r].route = "other" /\ job'[r].sig = NoSig
                        THEN RoleCache - 1 ELSE 0)]_vars

\* "Action signatures are single-use", "Login nonces are single-use per
\* process": in one life of the process a signature lets one request in, also
\* when several carry it at once and when it is tried again at the end of
\* its time.
SignedOnce == \A s \in Signatures : admitted[s] <= 1
=============================================================================
