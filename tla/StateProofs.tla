----------------------------- MODULE StateProofs -----------------------------
(***************************************************************************)
(* The admin routes, for any wallets, requests and times: a signature lets *)
(* one request in, and a wallet that lost the role is let in for no longer *)
(* than the cache and one lookup take.  Then what the other parts that     *)
(* MCState runs promise, from the theorems about each of them.             *)
(***************************************************************************)
EXTENDS MCState, TLAPS


TimeTypes ==
  /\ RoleCache \in Nat \ {0} /\ MaxAge \in Nat /\ Skew \in Nat /\ Margin \in Nat
  /\ Ttl \in Nat /\ SessionTime \in Nat /\ LookupTime \in Nat /\ MaxTime \in Nat

LEMMA Times == TimeTypes /\ Skew + LookupTime <= Margin /\ Minter \in Wallets
  BY TimeAssumption, MarginAssumption, MinterAssumption DEF TimeTypes

(* What a request that waits for the role carries.                         *)
LookupOK(r) ==
  at[r] = "asked" =>
    /\ asked[r] <= now /\ now <= asked[r] + LookupTime
    /\ answer[r] = "yes" =>
         \/ job[r].who \in admins
         \/ lostAt[job[r].who] # Never /\ asked[r] <= lostAt[job[r].who]

CarriesOK(r) ==
  /\ at[r] = "asked" /\ job[r].route \in RoleRoutes =>
       /\ job[r].sig \in Signatures
       /\ message[job[r].sig].kind \in RoleRoutes
       /\ asked[r] <= message[job[r].sig].ts + MaxAge
  /\ at[r] = "asked" /\ job[r].route = "login" =>
       /\ job[r].sig \in Signatures
       /\ message[job[r].sig].kind = "login"
       /\ usedUntil[job[r].sig] # Never /\ admitted[job[r].sig] = 0
  /\ at[r] = "sent" =>
       /\ job[r].route \in RoleRoutes
       /\ job[r].route = "remove" => job[r].about # Minter

LoginsAlone ==
  \A r, q \in Requests :
    /\ at[r] = "asked" /\ job[r].route = "login"
    /\ at[q] = "asked" /\ job[q].route = "login"
    /\ job[r].sig = job[q].sig
    => r = q

(* How long a used signature is remembered.                                *)
SignatureOK(s) ==
  /\ admitted[s] <= 1
  /\ usedUntil[s] = Never => admitted[s] = 0
  /\ message[s].kind = "none" => usedUntil[s] = Never
  /\ message[s].kind # "none" => message[s].ts <= now + Skew
  /\ message[s].kind \in RoleRoutes /\ usedUntil[s] # Never =>
       usedUntil[s] >= message[s].ts + MaxAge + LookupTime
  /\ message[s].kind = "login" =>
       /\ message[s].ts \in Nat
       /\ usedUntil[s] # Never => usedUntil[s] = message[s].ts + Ttl

CachedOK(w) ==
  /\ roleCache[w].at <= now
  /\ roleCache[w].at # Never /\ roleCache[w].value =>
       \/ w \in admins
       \/ lostAt[w] # Never /\ roleCache[w].at <= lostAt[w] + LookupTime

LookupsOK == \A r \in Requests : LookupOK(r)
RequestsOK == \A r \in Requests : CarriesOK(r)
SignaturesOK == \A s \in Signatures : SignatureOK(s)
CacheOK == \A w \in Wallets : CachedOK(w)

AuthInv == TypeOK /\ LookupsOK /\ RequestsOK /\ LoginsAlone /\ SignaturesOK /\ CacheOK

-----------------------------------------------------------------------------

LEMMA InitAuth == ASSUME Init PROVE AuthInv
<1>1. TypeOK
  <2>1. now \in 0 .. MaxTime /\ Minter \in admins /\ admins \subseteq Wallets
    BY Times DEF Init, TimeTypes
  <2>2. roleCache \in [Wallets -> [value : BOOLEAN, at : Nat \union {Never}]]
    BY DEF Init
  <2>3. /\ lostAt \in [Wallets -> Nat \union {Never}]
        /\ usedUntil \in [Signatures -> Nat \union {Never}]
        /\ message \in [Signatures -> Messages \union {Unsigned}]
        /\ sessions \subseteq [wallet : Wallets, exp : Nat]
        /\ asked \in [Requests -> Nat] /\ admitted \in [Signatures -> Nat]
    BY DEF Init
  <2>4. /\ at \in [Requests -> Places] /\ answer \in [Requests -> {"none", "yes", "no"}]
        /\ NoJob \in [route : Routes, who : Wallets, sig : Signatures \union {NoSig}, about : Wallets]
    BY Times DEF Init, Places, NoJob, Routes
  <2>5. job \in [Requests -> [route : Routes, who : Wallets, sig : Signatures \union {NoSig},
                             about : Wallets]]
    BY <2>4 DEF Init
  <2> QED
    BY <2>1, <2>2, <2>3, <2>4, <2>5 DEF TypeOK
<1>2. LookupsOK /\ RequestsOK /\ LoginsAlone
  BY DEF Init, LookupsOK, RequestsOK, LoginsAlone, LookupOK, CarriesOK
<1>3. SignaturesOK
  BY DEF Init, SignaturesOK, SignatureOK, Unsigned, RoleRoutes, Never
<1>4. CacheOK
  BY DEF Init, CacheOK, CachedOK, Never
<1> QED
  BY <1>1, <1>2, <1>3, <1>4 DEF AuthInv

(* A request that is answered, and nothing else.                           *)
LEMMA LeaveKeeps ==
  ASSUME AuthInv, NEW r \in Requests, Leave(r), UNCHANGED <<now, chainVars, authVars>>
  PROVE  AuthInv'
<1> USE DEF chainVars, authVars
<1>1. TypeOK'
  BY Times DEF AuthInv, TypeOK, Leave, NoJob, NoSig, Routes, RoleRoutes, Places
<1>2. LookupsOK' /\ RequestsOK' /\ LoginsAlone'
  BY DEF AuthInv, TypeOK, LookupsOK, RequestsOK, LoginsAlone, LookupOK, CarriesOK, Leave
<1>3. SignaturesOK' /\ CacheOK'
  BY DEF AuthInv, SignaturesOK, SignatureOK, CacheOK, CachedOK
<1> QED
  BY <1>1, <1>2, <1>3 DEF AuthInv

LEMMA SignKeeps ==
  ASSUME AuthInv, NEW s \in Signatures, NEW kind \in RoleRoutes \union {"login"},
         NEW by \in Wallets, NEW about \in Wallets, NEW ts \in now - Skew .. now + Skew,
         Sign(s, kind, by, about, ts)
  PROVE  AuthInv'
<1> USE DEF chainVars, reqVars
<1>1. now \in Nat /\ Skew \in Nat /\ ts \in Int /\ ts <= now + Skew /\ (kind = "login" => ts = now)
  BY Times DEF AuthInv, TypeOK, TimeTypes, Sign
<1>2. /\ message[s] = Unsigned /\ message[s].kind = "none"
      /\ message' = [message EXCEPT ![s] = [kind |-> kind, by |-> by, about |-> about, ts |-> ts]]
      /\ UNCHANGED <<now, admins, lostAt, roleCache, usedUntil, sessions, admitted, at, job, asked, answer>>
  BY DEF Sign, Unsigned
<1>3. TypeOK'
  BY <1>1, <1>2 DEF AuthInv, TypeOK, Messages
<1>4. LookupsOK' /\ LoginsAlone' /\ CacheOK'
  BY <1>2 DEF AuthInv, LookupsOK, LookupOK, LoginsAlone, CacheOK, CachedOK
<1>5. \A q \in Signatures \ {s} : message'[q] = message[q]
  BY <1>2 DEF AuthInv, TypeOK
<1>6. message'[s].kind = kind /\ message'[s].ts = ts
  BY <1>2 DEF AuthInv, TypeOK
<1>7. usedUntil[s] = Never /\ admitted[s] = 0
  BY <1>2 DEF AuthInv, SignaturesOK, SignatureOK
<1>8. RequestsOK'
  <2> SUFFICES ASSUME NEW r \in Requests PROVE CarriesOK(r)'
    BY DEF RequestsOK
  <2>1. CarriesOK(r)
    BY DEF AuthInv, RequestsOK
  <2>2. at[r] = "asked" /\ job[r].route \in RoleRoutes \union {"login"} => job[r].sig # s
    BY <1>2, <2>1 DEF CarriesOK, RoleRoutes
  <2> QED
    BY <1>2, <1>5, <2>1, <2>2 DEF CarriesOK
<1>9. SignaturesOK'
  <2>1. SignatureOK(s)'
    BY <1>1, <1>2, <1>6, <1>7 DEF SignatureOK, RoleRoutes, Never
  <2>2. ASSUME NEW q \in Signatures \ {s} PROVE SignatureOK(q)'
    BY <1>2, <1>5, <2>2 DEF AuthInv, SignaturesOK, SignatureOK
  <2> QED
    BY <2>1, <2>2 DEF SignaturesOK
<1> QED
  BY <1>3, <1>4, <1>8, <1>9 DEF AuthInv

(* A request starts to wait for the role.                                  *)
LEMMA AskKeeps ==
  ASSUME AuthInv, NEW r \in Requests, at[r] = "idle",
         NEW route \in Routes, NEW who \in Wallets, NEW sig \in Signatures \union {NoSig},
         NEW about \in Wallets, Ask(r, route, who, sig, about),
         UNCHANGED <<now, chainVars, authVars>>,
         route # "login",
         route \in RoleRoutes => /\ sig \in Signatures /\ message[sig].kind \in RoleRoutes
                                 /\ InTime(sig)
  PROVE  AuthInv'
<1> USE DEF chainVars, authVars
<1>1. TypeOK'
  BY DEF AuthInv, TypeOK, Ask, Places
<1>2. /\ at'[r] = "asked" /\ asked'[r] = now /\ answer'[r] = "none"
      /\ job'[r].route = route /\ job'[r].who = who /\ job'[r].sig = sig
      /\ \A q \in Requests \ {r} : /\ at'[q] = at[q] /\ job'[q] = job[q]
                                   /\ asked'[q] = asked[q] /\ answer'[q] = answer[q]
  BY DEF AuthInv, TypeOK, Ask
<1>3. LookupsOK'
  BY <1>2, Times DEF AuthInv, TypeOK, TimeTypes, LookupsOK, LookupOK
<1>4. CarriesOK(r)'
  <2>1. route \in RoleRoutes => now <= message[sig].ts + MaxAge
    <3> SUFFICES ASSUME route \in RoleRoutes PROVE now <= message[sig].ts + MaxAge
      OBVIOUS
    <3>1. message[sig].ts \in Int
      BY DEF AuthInv, TypeOK, Messages, Unsigned
    <3>2. now \in Nat /\ MaxAge \in Nat /\ Skew \in Nat /\ now - message[sig].ts \in -Skew .. MaxAge
      BY Times DEF AuthInv, TypeOK, TimeTypes, InTime
    <3> QED
      BY <3>1, <3>2
  <2> QED
    BY <1>2, <2>1 DEF CarriesOK
<1>5. RequestsOK'
  BY <1>2, <1>4 DEF AuthInv, RequestsOK, CarriesOK
<1>6. LoginsAlone'
  BY <1>2 DEF AuthInv, LoginsAlone
<1>7. SignaturesOK' /\ CacheOK'
  BY DEF AuthInv, SignaturesOK, SignatureOK, CacheOK, CachedOK
<1> QED
  BY <1>1, <1>3, <1>5, <1>6, <1>7 DEF AuthInv

LEMMA LoginAsksKeeps ==
  ASSUME AuthInv, NEW r \in Requests, NEW s \in Signatures, LoginAsks(r, s)
  PROVE  AuthInv'
<1> DEFINE until == message[s].ts + Ttl
<1>1. /\ message[s].kind = "login" /\ message[s].ts \in Nat /\ message[s].by \in Wallets
      /\ now \in Nat /\ Ttl \in Nat
  BY Times DEF AuthInv, TypeOK, TimeTypes, LoginAsks, SignaturesOK, SignatureOK, Messages, Unsigned
<1>2. /\ usedUntil' = [usedUntil EXCEPT ![s] = until] /\ until \in Nat /\ until # Never
      /\ UNCHANGED <<now, admins, lostAt, roleCache, message, sessions, admitted>>
      /\ at' = [at EXCEPT ![r] = "asked"] /\ asked' = [asked EXCEPT ![r] = now]
      /\ answer' = [answer EXCEPT ![r] = "none"]
      /\ job' = [job EXCEPT ![r] = [route |-> "login", who |-> message[s].by, sig |-> s,
                                    about |-> message[s].by]]
  BY <1>1 DEF LoginAsks, Ask, chainVars, Never
<1>3. now <= until /\ (usedUntil[s] # Never => usedUntil[s] < now)
  BY <1>1 DEF LoginAsks, Forgotten, AuthInv, TypeOK, Never
<1>4. usedUntil[s] = Never /\ admitted[s] = 0
  BY <1>1, <1>2, <1>3 DEF AuthInv, SignaturesOK, SignatureOK
<1> HIDE DEF until
<1>5. TypeOK'
  BY <1>1, <1>2 DEF AuthInv, TypeOK, Places, Routes
<1>6. /\ at'[r] = "asked" /\ asked'[r] = now /\ answer'[r] = "none"
      /\ job'[r].route = "login" /\ job'[r].sig = s
      /\ \A q \in Requests \ {r} : /\ at'[q] = at[q] /\ job'[q] = job[q]
                                   /\ asked'[q] = asked[q] /\ answer'[q] = answer[q]
      /\ usedUntil'[s] = until
      /\ \A t \in Signatures \ {s} : usedUntil'[t] = usedUntil[t]
  BY <1>2 DEF AuthInv, TypeOK
<1>7. \A q \in Requests : at[q] = "asked" /\ job[q].route = "login" => job[q].sig # s
  BY <1>4 DEF AuthInv, RequestsOK, CarriesOK
<1>8. LookupsOK'
  BY <1>1, <1>2, <1>6, Times DEF AuthInv, TimeTypes, LookupsOK, LookupOK
<1>9. RequestsOK'
  <2>1. CarriesOK(r)'
    BY <1>1, <1>2, <1>4, <1>6 DEF CarriesOK, RoleRoutes
  <2>2. ASSUME NEW q \in Requests \ {r} PROVE CarriesOK(q)'
    BY <1>2, <1>6, <1>7, <2>2 DEF AuthInv, RequestsOK, CarriesOK
  <2> QED
    BY <2>1, <2>2 DEF RequestsOK
<1>10. LoginsAlone'
  BY <1>6, <1>7 DEF AuthInv, LoginsAlone
<1>11. SignaturesOK'
  <2>1. SignatureOK(s)'
    BY <1>1, <1>2, <1>4, <1>6 DEF AuthInv, SignaturesOK, SignatureOK, RoleRoutes, until
  <2>2. ASSUME NEW t \in Signatures \ {s} PROVE SignatureOK(t)'
    BY <1>2, <1>6, <2>2 DEF AuthInv, SignaturesOK, SignatureOK
  <2> QED
    BY <2>1, <2>2 DEF SignaturesOK
<1>12. CacheOK'
  BY <1>2 DEF AuthInv, CacheOK, CachedOK
<1> QED
  BY <1>5, <1>8, <1>9, <1>10, <1>11, <1>12 DEF AuthInv

LEMMA NodeAnswersKeeps ==
  ASSUME AuthInv, NEW r \in Requests, NodeAnswers(r)
  PROVE  AuthInv'
<1> USE DEF chainVars, authVars
<1>1. TypeOK'
  BY DEF AuthInv, TypeOK, NodeAnswers
<1>2. LookupsOK'
  <2>1. answer'[r] = "yes" => job[r].who \in admins
    BY DEF AuthInv, TypeOK, NodeAnswers
  <2>2. \A q \in Requests \ {r} : answer'[q] = answer[q]
    BY DEF AuthInv, TypeOK, NodeAnswers
  <2>3. UNCHANGED <<now, admins, lostAt, at, job, asked>>
    BY DEF NodeAnswers
  <2> QED
    BY <2>1, <2>2, <2>3 DEF AuthInv, LookupsOK, LookupOK
<1>3. RequestsOK' /\ LoginsAlone'
  BY DEF AuthInv, NodeAnswers, RequestsOK, CarriesOK, LoginsAlone
<1>4. SignaturesOK' /\ CacheOK'
  BY DEF AuthInv, NodeAnswers, SignaturesOK, SignatureOK, CacheOK, CachedOK
<1> QED
  BY <1>1, <1>2, <1>3, <1>4 DEF AuthInv

LEMMA SessionHitKeeps ==
  ASSUME AuthInv, NEW r \in Requests, NEW token \in sessions, SessionHit(r, token)
  PROVE  AuthInv'
<1> USE DEF chainVars, authVars
<1>0. token.wallet \in Wallets /\ Minter \in Wallets
  BY Times DEF AuthInv, TypeOK
<1>1. TypeOK'
  BY <1>0 DEF AuthInv, TypeOK, SessionHit, Places, Routes
<1>2. LookupsOK' /\ RequestsOK' /\ LoginsAlone'
  BY DEF AuthInv, TypeOK, SessionHit, LookupsOK, RequestsOK, LoginsAlone, LookupOK, CarriesOK
<1>3. SignaturesOK' /\ CacheOK'
  BY DEF AuthInv, SessionHit, SignaturesOK, SignatureOK, CacheOK, CachedOK
<1> QED
  BY <1>1, <1>2, <1>3 DEF AuthInv

(* What the answer of a lookup says of the cache.                          *)
LEMMA RememberKeeps ==
  ASSUME AuthInv, NEW r \in Requests, at[r] = "asked", Remember(r),
         UNCHANGED <<now, chainVars>>
  PROVE  /\ roleCache' \in [Wallets -> [value : BOOLEAN, at : Nat \union {Never}]]
         /\ CacheOK'
<1> USE DEF chainVars
<1>1. PICK who \in Wallets : who = job[r].who
  BY DEF AuthInv, TypeOK
<1>2. CASE SessionRequest(r)
  <2> DEFINE said == [value |-> answer[r] = "yes", at |-> now]
  <2>1. roleCache' = [roleCache EXCEPT ![who] = said]
    BY <1>1, <1>2 DEF Remember
  <2>2. said \in [value : BOOLEAN, at : Nat \union {Never}] /\ said.at = now
    BY DEF AuthInv, TypeOK
  <2>3. said.value => answer[r] = "yes"
    OBVIOUS
  <2> HIDE DEF said
  <2>4. roleCache' \in [Wallets -> [value : BOOLEAN, at : Nat \union {Never}]]
    BY <2>1, <2>2 DEF AuthInv, TypeOK
  <2>5. roleCache'[who] = said /\ \A w \in Wallets \ {who} : roleCache'[w] = roleCache[w]
    BY <2>1 DEF AuthInv, TypeOK
  <2>6. answer[r] = "yes" =>
          \/ who \in admins
          \/ lostAt[who] # Never /\ now <= lostAt[who] + LookupTime
    <3>1. /\ asked[r] \in Nat /\ LookupTime \in Nat /\ now \in Nat
          /\ now <= asked[r] + LookupTime /\ lostAt[who] \in Nat \union {Never}
      BY Times DEF AuthInv, TypeOK, TimeTypes, LookupsOK, LookupOK
    <3>2. answer[r] = "yes" => \/ who \in admins
                               \/ lostAt[who] # Never /\ asked[r] <= lostAt[who]
      BY <1>1 DEF AuthInv, LookupsOK, LookupOK
    <3> QED
      BY <3>1, <3>2 DEF Never
  <2>7. CachedOK(who)'
    <3>1. roleCache'[who].value => answer[r] = "yes"
      BY <2>3, <2>5
    <3>2. roleCache'[who].at = now
      BY <2>2, <2>5
    <3>3. now' = now /\ now \in Nat /\ UNCHANGED <<admins, lostAt>>
      BY DEF AuthInv, TypeOK
    <3> QED
      BY <2>6, <3>1, <3>2, <3>3 DEF CachedOK
  <2>8. ASSUME NEW w \in Wallets \ {who} PROVE CachedOK(w)'
    BY <2>5, <2>8 DEF AuthInv, CacheOK, CachedOK
  <2> QED
    BY <2>4, <2>7, <2>8 DEF CacheOK
<1>3. CASE ~SessionRequest(r)
  BY <1>3 DEF Remember, AuthInv, TypeOK, CacheOK, CachedOK
<1> QED
  BY <1>2, <1>3

LEMMA RoleConfirmedKeeps ==
  ASSUME AuthInv, NEW r \in Requests, RoleConfirmed(r)
  PROVE  AuthInv'
<1>1. /\ at[r] = "asked" /\ job[r].route \in Routes \ RoleRoutes
      /\ at' = [at EXCEPT ![r] = "in"]
      /\ UNCHANGED <<now, admins, lostAt, message, usedUntil, job, asked, answer>>
  BY DEF RoleConfirmed, LetIn, chainVars, AuthInv, TypeOK
<1>2. /\ roleCache' \in [Wallets -> [value : BOOLEAN, at : Nat \union {Never}]]
      /\ CacheOK'
  BY <1>1, RememberKeeps DEF RoleConfirmed
<1>3. sessions' \subseteq [wallet : Wallets, exp : Nat]
  <2>1. NewSession(job[r].who) \in [wallet : Wallets, exp : Nat]
    BY Times DEF AuthInv, TypeOK, TimeTypes, NewSession
  <2> QED
    BY <2>1 DEF RoleConfirmed, AuthInv, TypeOK
<1>4. job[r].route = "login" => /\ job[r].sig \in Signatures /\ admitted[job[r].sig] = 0
                                /\ usedUntil[job[r].sig] # Never
  BY <1>1 DEF AuthInv, RequestsOK, CarriesOK
<1>5. CASE job[r].route = "login"
  <2>0. PICK s \in Signatures : s = job[r].sig /\ admitted[s] = 0 /\ usedUntil[s] # Never
    BY <1>4, <1>5
  <2>1. admitted' = [admitted EXCEPT ![s] = 1]
    <3>1. admitted' = [admitted EXCEPT ![s] = admitted[s] + 1]
      BY <1>5, <2>0 DEF RoleConfirmed, LetIn
    <3>2. admitted[s] + 1 = 1
      BY <2>0
    <3> QED
      BY <3>1, <3>2
  <2>2. TypeOK'
    <3>1. admitted' \in [Signatures -> Nat]
      BY <2>1 DEF AuthInv, TypeOK
    <3> QED
      BY <1>1, <1>2, <1>3, <3>1 DEF AuthInv, TypeOK, Places
  <2>3. /\ admitted'[s] = 1 /\ at'[r] = "in"
        /\ \A q \in Requests \ {r} : at'[q] = at[q]
        /\ \A t \in Signatures \ {s} : admitted'[t] = admitted[t]
    BY <1>1, <2>1 DEF AuthInv, TypeOK
  <2>4. LookupsOK' /\ LoginsAlone'
    BY <1>1, <2>3 DEF AuthInv, LookupsOK, LookupOK, LoginsAlone
  <2>5. \A q \in Requests \ {r} : at[q] = "asked" /\ job[q].route = "login" =>
          job[q].sig # s
    BY <1>1, <1>5, <2>0 DEF AuthInv, LoginsAlone
  <2>6. RequestsOK'
    BY <1>1, <2>3, <2>5 DEF AuthInv, RequestsOK, CarriesOK
  <2>7. SignaturesOK'
    <3>1. SignatureOK(s)'
      BY <1>1, <2>0, <2>3 DEF AuthInv, SignaturesOK, SignatureOK
    <3>2. ASSUME NEW t \in Signatures \ {s} PROVE SignatureOK(t)'
      BY <1>1, <2>3, <3>2 DEF AuthInv, SignaturesOK, SignatureOK
    <3> QED
      BY <3>1, <3>2 DEF SignaturesOK
  <2> QED
    BY <1>2, <2>2, <2>4, <2>6, <2>7 DEF AuthInv
<1>6. CASE job[r].route # "login"
  <2>1. admitted' = admitted
    BY <1>1, <1>6 DEF RoleConfirmed, LetIn
  <2>2. TypeOK'
    BY <1>1, <1>2, <1>3, <2>1 DEF AuthInv, TypeOK, Places
  <2>3. at'[r] = "in" /\ \A q \in Requests \ {r} : at'[q] = at[q]
    BY <1>1 DEF AuthInv, TypeOK
  <2>4. LookupsOK' /\ LoginsAlone' /\ RequestsOK'
    BY <1>1, <2>1, <2>3 DEF AuthInv, LookupsOK, LookupOK, LoginsAlone, RequestsOK, CarriesOK
  <2>5. SignaturesOK'
    BY <1>1, <2>1 DEF AuthInv, SignaturesOK, SignatureOK
  <2> QED
    BY <1>2, <2>2, <2>4, <2>5 DEF AuthInv
<1> QED
  BY <1>5, <1>6

(* The signature of an action that gets in was not used before: whoever    *)
(* used it did so too late for this request's age test.                    *)
LEMMA UnusedBefore ==
  ASSUME AuthInv, NEW r \in Requests, at[r] = "asked", job[r].route \in RoleRoutes,
         NEW s \in Signatures, s = job[r].sig, Forgotten(s)
  PROVE  usedUntil[s] = Never /\ admitted[s] = 0
<1>1. /\ now \in Nat /\ asked[r] \in Nat /\ usedUntil[s] \in Nat \union {Never}
      /\ MaxAge \in Nat /\ LookupTime \in Nat /\ message[s].ts \in Int
  BY Times DEF AuthInv, TypeOK, TimeTypes, Messages, Unsigned
<1>2. message[s].kind \in RoleRoutes /\ asked[r] <= message[s].ts + MaxAge
  BY DEF AuthInv, RequestsOK, CarriesOK
<1>3. now <= asked[r] + LookupTime
  BY DEF AuthInv, LookupsOK, LookupOK
<1>4. usedUntil[s] # Never => usedUntil[s] >= message[s].ts + MaxAge + LookupTime
  BY <1>2 DEF AuthInv, SignaturesOK, SignatureOK
<1>5. usedUntil[s] # Never => usedUntil[s] < now
  BY <1>1 DEF Forgotten
<1>6. usedUntil[s] = Never
  BY <1>1, <1>2, <1>3, <1>4, <1>5
<1> QED
  BY <1>6 DEF AuthInv, SignaturesOK, SignatureOK

LEMMA ActionConfirmedKeeps ==
  ASSUME AuthInv, NEW r \in Requests, ActionConfirmed(r)
  PROVE  AuthInv'
<1> DEFINE until == now + MaxAge + Margin
<1>1. PICK s \in Signatures :
        s = job[r].sig /\ message[s].kind \in RoleRoutes /\ usedUntil[s] = Never /\ admitted[s] = 0
  BY UnusedBefore DEF ActionConfirmed, AuthInv, RequestsOK, CarriesOK
<1>2. /\ at[r] = "asked" /\ job[r].route \in RoleRoutes
      /\ at' = [at EXCEPT ![r] = "in"]
      /\ usedUntil' = [usedUntil EXCEPT ![s] = until]
      /\ UNCHANGED <<now, admins, lostAt, roleCache, message, sessions, job, asked, answer>>
  BY <1>1 DEF ActionConfirmed, LetIn, chainVars
<1>3. admitted' = [admitted EXCEPT ![s] = 1]
  <2>1. admitted' = [admitted EXCEPT ![s] = admitted[s] + 1]
    BY <1>1, <1>2 DEF ActionConfirmed, LetIn
  <2>2. admitted[s] + 1 = 1
    BY <1>1
  <2> QED
    BY <2>1, <2>2
<1>4. until \in Nat /\ until # Never /\ until >= message[s].ts + MaxAge + LookupTime
  <2>1. /\ now \in Nat /\ MaxAge \in Nat /\ Margin \in Nat /\ Skew \in Nat /\ LookupTime \in Nat
        /\ message[s].ts \in Int /\ Skew + LookupTime <= Margin
    BY Times DEF AuthInv, TypeOK, TimeTypes, Messages, Unsigned
  <2>2. message[s].ts <= now + Skew
    BY <1>1 DEF AuthInv, SignaturesOK, SignatureOK, RoleRoutes
  <2> QED
    BY <2>1, <2>2 DEF Never
<1> HIDE DEF until
<1>5. TypeOK'
  <2>1. admitted' \in [Signatures -> Nat] /\ usedUntil' \in [Signatures -> Nat \union {Never}]
    BY <1>2, <1>3, <1>4 DEF AuthInv, TypeOK
  <2> QED
    BY <1>2, <2>1 DEF AuthInv, TypeOK, Places
<1>6. /\ admitted'[s] = 1 /\ usedUntil'[s] = until /\ at'[r] = "in"
      /\ \A q \in Requests \ {r} : at'[q] = at[q]
      /\ \A t \in Signatures \ {s} : admitted'[t] = admitted[t] /\ usedUntil'[t] = usedUntil[t]
  BY <1>2, <1>3 DEF AuthInv, TypeOK
<1>7. LookupsOK' /\ LoginsAlone'
  BY <1>2, <1>6 DEF AuthInv, LookupsOK, LookupOK, LoginsAlone
<1>8. RequestsOK'
  <2> SUFFICES ASSUME NEW q \in Requests PROVE CarriesOK(q)'
    BY DEF RequestsOK
  <2>1. CarriesOK(q)
    BY DEF AuthInv, RequestsOK
  <2>2. at[q] = "asked" /\ job[q].route = "login" => job[q].sig # s
    BY <1>1, <2>1 DEF CarriesOK, RoleRoutes
  <2> QED
    BY <1>2, <1>6, <2>1, <2>2 DEF CarriesOK
<1>9. SignaturesOK'
  <2>1. SignatureOK(s)'
    BY <1>1, <1>2, <1>4, <1>6 DEF AuthInv, SignaturesOK, SignatureOK, RoleRoutes
  <2>2. ASSUME NEW t \in Signatures \ {s} PROVE SignatureOK(t)'
    BY <1>2, <1>6, <2>2 DEF AuthInv, SignaturesOK, SignatureOK
  <2> QED
    BY <2>1, <2>2 DEF SignaturesOK
<1>10. CacheOK'
  BY <1>2 DEF AuthInv, CacheOK, CachedOK
<1> QED
  BY <1>5, <1>7, <1>8, <1>9, <1>10 DEF AuthInv

LEMMA RefusedKeeps ==
  ASSUME AuthInv, NEW r \in Requests, Refused(r)
  PROVE  AuthInv'
<1> USE DEF chainVars
<1>1. /\ at[r] = "asked" /\ Leave(r)
      /\ UNCHANGED <<now, admins, lostAt, message, usedUntil, sessions, admitted>>
  BY DEF Refused
<1>2. /\ roleCache' \in [Wallets -> [value : BOOLEAN, at : Nat \union {Never}]]
      /\ CacheOK'
  <2>1. CASE Remember(r)
    BY <1>1, <2>1, RememberKeeps
  <2>2. CASE UNCHANGED roleCache
    BY <1>1, <2>2 DEF AuthInv, TypeOK, CacheOK, CachedOK
  <2> QED
    BY <2>1, <2>2 DEF Refused
<1>3. TypeOK'
  BY <1>1, <1>2, Times DEF AuthInv, TypeOK, Leave, NoJob, NoSig, Routes, RoleRoutes, Places
<1>4. LookupsOK' /\ RequestsOK' /\ LoginsAlone'
  BY <1>1 DEF AuthInv, TypeOK, LookupsOK, RequestsOK, LoginsAlone, LookupOK, CarriesOK, Leave
<1>5. SignaturesOK'
  BY <1>1 DEF AuthInv, SignaturesOK, SignatureOK
<1> QED
  BY <1>2, <1>3, <1>4, <1>5 DEF AuthInv

LEMMA SendKeeps ==
  ASSUME AuthInv, NEW r \in Requests, Send(r)
  PROVE  AuthInv'
<1> USE DEF chainVars, authVars
<1>1. TypeOK'
  BY DEF AuthInv, TypeOK, Send, Places
<1>2. LookupsOK' /\ RequestsOK' /\ LoginsAlone'
  BY DEF AuthInv, TypeOK, Send, LookupsOK, RequestsOK, LoginsAlone, LookupOK, CarriesOK
<1>3. SignaturesOK' /\ CacheOK'
  BY DEF AuthInv, Send, SignaturesOK, SignatureOK, CacheOK, CachedOK
<1> QED
  BY <1>1, <1>2, <1>3 DEF AuthInv

(* A wallet that held the role at a time holds it still, or lost it later. *)
HeldAt(w, time) == w \in admins \/ (lostAt[w] # Never /\ time <= lostAt[w])

LEMMA RoleChanges ==
  ASSUME AuthInv, NEW about \in Wallets, now' = now,
         \/ admins' = admins \union {about} /\ lostAt' = lostAt
         \/ admins' = admins \ {about} /\ lostAt' = [lostAt EXCEPT ![about] = now]
  PROVE  /\ lostAt' \in [Wallets -> Nat \union {Never}] /\ admins' \subseteq Wallets
         /\ \A w \in Wallets, time \in Int : time <= now /\ HeldAt(w, time) =>
              w \in admins' \/ (lostAt'[w] # Never /\ time <= lostAt'[w])
  BY DEF AuthInv, TypeOK, HeldAt, Never

LEMMA CacheSurvives ==
  ASSUME AuthInv, now' = now, UNCHANGED roleCache,
         \A w \in Wallets, time \in Int : time <= now /\ HeldAt(w, time) =>
           w \in admins' \/ (lostAt'[w] # Never /\ time <= lostAt'[w]),
         lostAt' \in [Wallets -> Nat \union {Never}]
  PROVE  CacheOK'
<1> SUFFICES ASSUME NEW w \in Wallets PROVE CachedOK(w)'
  BY DEF CacheOK
<1> DEFINE time == roleCache[w].at - LookupTime
<1>1. /\ roleCache[w].at \in Nat \union {Never} /\ LookupTime \in Nat /\ now \in Nat
      /\ lostAt[w] \in Nat \union {Never} /\ lostAt'[w] \in Nat \union {Never}
  BY Times DEF AuthInv, TypeOK, TimeTypes
<1>2. CachedOK(w)
  BY DEF AuthInv, CacheOK
<1>3. time \in Int /\ time <= now
  BY <1>1, <1>2 DEF CachedOK, Never
<1>4. roleCache[w].at # Never /\ roleCache[w].value => HeldAt(w, time)
  BY <1>1, <1>2 DEF CachedOK, HeldAt, Never
<1>5. roleCache[w].at # Never /\ roleCache[w].value =>
        w \in admins' \/ (lostAt'[w] # Never /\ time <= lostAt'[w])
  BY <1>3, <1>4
<1>6. roleCache[w].at # Never /\ roleCache[w].value =>
        w \in admins' \/ (lostAt'[w] # Never /\ roleCache[w].at <= lostAt'[w] + LookupTime)
  BY <1>1, <1>5 DEF Never
<1> QED
  BY <1>2, <1>6 DEF CachedOK

LEMMA LookupsSurvive ==
  ASSUME AuthInv, now' = now, UNCHANGED reqVars,
         \A w \in Wallets, time \in Int : time <= now /\ HeldAt(w, time) =>
           w \in admins' \/ (lostAt'[w] # Never /\ time <= lostAt'[w])
  PROVE  LookupsOK'
<1> SUFFICES ASSUME NEW r \in Requests PROVE LookupOK(r)'
  BY DEF LookupsOK
<1>1. asked[r] \in Nat /\ job[r].who \in Wallets
  BY DEF AuthInv, TypeOK
<1>2. LookupOK(r)
  BY DEF AuthInv, LookupsOK
<1>3. at[r] = "asked" /\ answer[r] = "yes" => asked[r] <= now /\ HeldAt(job[r].who, asked[r])
  BY <1>2 DEF LookupOK, HeldAt
<1> QED
  BY <1>1, <1>2, <1>3 DEF LookupOK, reqVars

LEMMA OutsideKeeps ==
  ASSUME AuthInv, NEW w \in Wallets, Outside(w)
  PROVE  AuthInv'
<1>1. /\ w # Minter /\ UNCHANGED <<now, reqVars, roleCache, message, usedUntil, sessions, admitted>>
      /\ \/ admins' = admins \union {w} /\ lostAt' = lostAt
         \/ admins' = admins \ {w} /\ lostAt' = [lostAt EXCEPT ![w] = now]
  BY DEF Outside, authVars
<1>2. /\ lostAt' \in [Wallets -> Nat \union {Never}] /\ admins' \subseteq Wallets
      /\ \A u \in Wallets, time \in Int : time <= now /\ HeldAt(u, time) =>
           u \in admins' \/ (lostAt'[u] # Never /\ time <= lostAt'[u])
  BY <1>1, RoleChanges
<1>3. TypeOK'
  <2>1. Minter \in admins'
    BY <1>1 DEF AuthInv, TypeOK
  <2> QED
    BY <1>1, <1>2, <2>1 DEF AuthInv, TypeOK, reqVars
<1>4. CacheOK' /\ LookupsOK'
  BY <1>1, <1>2, CacheSurvives, LookupsSurvive
<1>5. RequestsOK' /\ LoginsAlone' /\ SignaturesOK'
  BY <1>1 DEF AuthInv, RequestsOK, CarriesOK, LoginsAlone, SignaturesOK, SignatureOK, reqVars
<1> QED
  BY <1>3, <1>4, <1>5 DEF AuthInv

LEMMA MinedKeeps ==
  ASSUME AuthInv, NEW r \in Requests, Mined(r)
  PROVE  AuthInv'
<1>1. PICK about \in Wallets : about = job[r].about
  BY DEF AuthInv, TypeOK
<1>2. /\ at[r] = "sent" /\ Leave(r)
      /\ UNCHANGED <<now, roleCache, message, usedUntil, sessions, admitted>>
      /\ admins' = IF job[r].route = "add" THEN admins \union {about} ELSE admins \ {about}
      /\ lostAt' = IF about \in admins \ admins' THEN [lostAt EXCEPT ![about] = now] ELSE lostAt
  BY <1>1 DEF Mined, authVars
<1>3. Minter \in admins'
  BY <1>1, <1>2 DEF AuthInv, TypeOK, RequestsOK, CarriesOK, RoleRoutes
<1>4. /\ lostAt' \in [Wallets -> Nat \union {Never}] /\ admins' \subseteq Wallets
      /\ \A u \in Wallets, time \in Int : time <= now /\ HeldAt(u, time) =>
           u \in admins' \/ (lostAt'[u] # Never /\ time <= lostAt'[u])
  <2>1. CASE about \in admins \ admins'
    <3>1. admins' = admins \ {about} /\ lostAt' = [lostAt EXCEPT ![about] = now]
      BY <1>2, <2>1
    <3> QED
      BY <1>2, <3>1, RoleChanges
  <2>2. CASE about \notin admins \ admins'
    <3>1. lostAt' = lostAt /\ admins \subseteq admins' /\ admins' \subseteq admins \union {about}
      BY <1>2, <2>2
    <3> QED
      BY <3>1 DEF AuthInv, TypeOK, HeldAt
  <2> QED
    BY <2>1, <2>2
<1>5. TypeOK'
  BY <1>2, <1>3, <1>4, Times DEF AuthInv, TypeOK, Leave, NoJob, NoSig, Routes, RoleRoutes, Places
<1>6. CacheOK'
  BY <1>2, <1>4, CacheSurvives
<1>7. LookupsOK'
  <2> SUFFICES ASSUME NEW q \in Requests PROVE LookupOK(q)'
    BY DEF LookupsOK
  <2>1. asked[q] \in Nat /\ job[q].who \in Wallets /\ LookupOK(q)
    BY DEF AuthInv, TypeOK, LookupsOK
  <2>2. at[q] = "asked" /\ answer[q] = "yes" => asked[q] <= now /\ HeldAt(job[q].who, asked[q])
    BY <2>1 DEF LookupOK, HeldAt
  <2>3. CASE q = r
    BY <1>2, <2>3 DEF AuthInv, TypeOK, LookupOK, Leave
  <2>4. CASE q # r
    <3>1. at'[q] = at[q] /\ job'[q] = job[q] /\ asked'[q] = asked[q] /\ answer'[q] = answer[q]
      BY <1>2, <2>4 DEF AuthInv, TypeOK, Leave
    <3> QED
      BY <1>2, <1>4, <2>1, <2>2, <3>1 DEF LookupOK
  <2> QED
    BY <2>3, <2>4
<1>8. RequestsOK' /\ LoginsAlone'
  BY <1>2 DEF AuthInv, TypeOK, RequestsOK, CarriesOK, LoginsAlone, Leave
<1>9. SignaturesOK'
  BY <1>2 DEF AuthInv, SignaturesOK, SignatureOK
<1> QED
  BY <1>5, <1>6, <1>7, <1>8, <1>9 DEF AuthInv

LEMMA LogoutKeeps ==
  ASSUME AuthInv, NEW token \in sessions, Logout(token)
  PROVE  AuthInv'
<1> USE DEF chainVars, reqVars
<1>1. TypeOK'
  BY DEF AuthInv, TypeOK, Logout
<1>2. LookupsOK' /\ RequestsOK' /\ LoginsAlone'
  BY DEF AuthInv, Logout, LookupsOK, RequestsOK, LoginsAlone, LookupOK, CarriesOK
<1>3. SignaturesOK' /\ CacheOK'
  BY DEF AuthInv, Logout, SignaturesOK, SignatureOK, CacheOK, CachedOK
<1> QED
  BY <1>1, <1>2, <1>3 DEF AuthInv

LEMMA RestartKeeps ==
  ASSUME AuthInv, Restart
  PROVE  AuthInv'
<1> USE DEF chainVars
<1>1. TypeOK'
  <2>1. roleCache' \in [Wallets -> [value : BOOLEAN, at : Nat \union {Never}]]
    BY DEF Restart
  <2>2. /\ usedUntil' \in [Signatures -> Nat \union {Never}] /\ admitted' \in [Signatures -> Nat]
        /\ asked' \in [Requests -> Nat]
    BY DEF Restart
  <2>3. /\ at' \in [Requests -> Places] /\ answer' \in [Requests -> {"none", "yes", "no"}]
        /\ NoJob \in [route : Routes, who : Wallets, sig : Signatures \union {NoSig}, about : Wallets]
    BY Times DEF Restart, Places, NoJob, Routes
  <2>4. job' \in [Requests -> [route : Routes, who : Wallets, sig : Signatures \union {NoSig},
                              about : Wallets]]
    BY <2>3 DEF Restart
  <2>5. UNCHANGED <<now, admins, lostAt, message, sessions>>
    BY DEF Restart
  <2> QED
    BY <2>1, <2>2, <2>3, <2>4, <2>5 DEF AuthInv, TypeOK
<1>2. LookupsOK' /\ RequestsOK' /\ LoginsAlone'
  BY DEF Restart, LookupsOK, RequestsOK, LoginsAlone, LookupOK, CarriesOK
<1>3. SignaturesOK'
  <2> SUFFICES ASSUME NEW s \in Signatures PROVE SignatureOK(s)'
    BY DEF SignaturesOK
  <2>1. usedUntil'[s] = Never /\ admitted'[s] = 0 /\ UNCHANGED <<now, message>>
    BY DEF Restart
  <2> QED
    BY <2>1 DEF AuthInv, SignaturesOK, SignatureOK
<1>4. CacheOK'
  <2> SUFFICES ASSUME NEW w \in Wallets PROVE CachedOK(w)'
    BY DEF CacheOK
  <2>1. roleCache'[w].at = Never /\ now' = now /\ now \in Nat
    BY DEF Restart, AuthInv, TypeOK
  <2> QED
    BY <2>1 DEF CachedOK, Never
<1> QED
  BY <1>1, <1>2, <1>3, <1>4 DEF AuthInv

LEMMA TickKeeps ==
  ASSUME AuthInv, Tick
  PROVE  AuthInv'
<1> USE DEF chainVars, authVars, reqVars
<1>1. /\ now \in Nat /\ now' = now + 1 /\ now < MaxTime /\ MaxTime \in Nat /\ LookupTime \in Nat
      /\ Skew \in Nat
  BY Times DEF AuthInv, TypeOK, TimeTypes, Tick
<1>2. TypeOK'
  BY <1>1 DEF AuthInv, TypeOK, Tick
<1>3. LookupsOK'
  BY <1>1 DEF AuthInv, TypeOK, Tick, LookupsOK, LookupOK
<1>4. RequestsOK' /\ LoginsAlone'
  BY DEF AuthInv, Tick, RequestsOK, CarriesOK, LoginsAlone
<1>5. SignaturesOK'
  <2> SUFFICES ASSUME NEW s \in Signatures PROVE SignatureOK(s)'
    BY DEF SignaturesOK
  <2>1. message[s].ts \in Int /\ SignatureOK(s)
    BY DEF AuthInv, TypeOK, SignaturesOK, Messages, Unsigned
  <2> QED
    BY <1>1, <2>1 DEF Tick, SignatureOK
<1>6. CacheOK'
  BY <1>1 DEF AuthInv, TypeOK, Tick, CacheOK, CachedOK, Never
<1> QED
  BY <1>2, <1>3, <1>4, <1>5, <1>6 DEF AuthInv

LEMMA HandlerKeeps ==
  ASSUME AuthInv, NEW r \in Requests, HandlerStep(r)
  PROVE  AuthInv'
<1>1. ASSUME NEW token \in sessions, NEW route \in {"other", "whoami"},
             SessionAsks(r, token, route)
      PROVE AuthInv'
  <2>1. token.wallet \in Wallets /\ Minter \in Wallets
    BY Times DEF AuthInv, TypeOK
  <2>2. route \in Routes \ (RoleRoutes \union {"login"})
    BY DEF Routes, RoleRoutes
  <2> QED
    BY <1>1, <2>1, <2>2, AskKeeps DEF SessionAsks, RoleRoutes
<1>2. ASSUME NEW s \in Signatures, NEW route \in RoleRoutes \union {"other"},
             SignedAsks(r, s, route)
      PROVE AuthInv'
  <2>1. message[s].by \in Wallets /\ message[s].about \in Wallets
    BY Times DEF AuthInv, TypeOK, Messages, Unsigned
  <2>2. route \in Routes /\ route # "login"
    BY DEF Routes, RoleRoutes
  <2> QED
    BY <1>2, <2>1, <2>2, AskKeeps DEF SignedAsks
<1>3. CASE Done(r) \/ Fails(r)
  BY <1>3, LeaveKeeps DEF Done, Fails
<1> QED
  BY <1>1, <1>2, <1>3, SessionHitKeeps, LoginAsksKeeps, NodeAnswersKeeps, RoleConfirmedKeeps,
     ActionConfirmedKeeps, RefusedKeeps, SendKeeps, MinedKeeps DEF HandlerStep

LEMMA NextAuth ==
  ASSUME AuthInv, [Next]_vars
  PROVE  AuthInv'
<1>1. CASE Next
  BY <1>1, HandlerKeeps, SignKeeps, OutsideKeeps, LogoutKeeps, RestartKeeps, TickKeeps DEF Next
<1>2. CASE UNCHANGED vars
  <2> USE <1>2 DEF vars, chainVars, authVars, reqVars
  <2>1. TypeOK'
    BY DEF AuthInv, TypeOK
  <2>2. LookupsOK' /\ RequestsOK' /\ LoginsAlone'
    BY DEF AuthInv, LookupsOK, RequestsOK, LoginsAlone, LookupOK, CarriesOK
  <2>3. SignaturesOK' /\ CacheOK'
    BY DEF AuthInv, SignaturesOK, SignatureOK, CacheOK, CachedOK
  <2> QED
    BY <2>1, <2>2, <2>3 DEF AuthInv
<1> QED
  BY <1>1, <1>2

(* Every request, signature and cached role is of its type, and the        *)
(* wallet that sends the transactions stays an admin.                      *)
THEOREM AuthTypes == Spec => []TypeOK
<1>1. Init => AuthInv
  BY InitAuth
<1>2. AuthInv /\ [Next]_vars => AuthInv'
  BY NextAuth
<1>3. AuthInv => TypeOK
  BY DEF AuthInv
<1> QED
  BY <1>1, <1>2, <1>3, PTL DEF Spec

(* In one life of the process a signature lets one request in: the role is *)
(* read between the test of its age and its use, and a used signature is   *)
(* remembered until no request that passed the test can still be waiting.  *)
THEOREM SignaturesOnce == Spec => []SignedOnce
<1>1. Init => AuthInv
  BY InitAuth
<1>2. AuthInv /\ [Next]_vars => AuthInv'
  BY NextAuth
<1>3. AuthInv => SignedOnce
  BY DEF AuthInv, SignaturesOK, SignatureOK, SignedOnce
<1> QED
  BY <1>1, <1>2, <1>3, PTL DEF Spec

-----------------------------------------------------------------------------

RecentStep ==
  \A r \in Requests :
    at'[r] = "in" /\ at[r] # "in" =>
      HeldWithin(job'[r].who,
        LookupTime + IF job'[r].route = "other" /\ job'[r].sig = NoSig THEN RoleCache - 1 ELSE 0)

LEMMA HeldLonger ==
  ASSUME AuthInv, NEW w \in Wallets, HeldWithin(w, LookupTime), NEW more \in Nat
  PROVE  HeldWithin(w, LookupTime + more)
<1>1. lostAt[w] \in Nat \union {Never} /\ now \in Nat /\ LookupTime \in Nat
  BY Times DEF AuthInv, TypeOK, TimeTypes
<1> QED
  BY <1>1 DEF HeldWithin, Never

(* An answer of yes is at most one lookup old.                             *)
LEMMA AnswerIsRecent ==
  ASSUME AuthInv, NEW r \in Requests, at[r] = "asked", answer[r] = "yes"
  PROVE  HeldWithin(job[r].who, LookupTime)
<1>1. PICK w \in Wallets : w = job[r].who
  BY DEF AuthInv, TypeOK
<1>2. /\ lostAt[w] \in Nat \union {Never} /\ now \in Nat /\ LookupTime \in Nat /\ asked[r] \in Nat
      /\ now <= asked[r] + LookupTime
      /\ w \in admins \/ (lostAt[w] # Never /\ asked[r] <= lostAt[w])
  BY <1>1, Times DEF AuthInv, TypeOK, TimeTypes, LookupsOK, LookupOK
<1> QED
  BY <1>1, <1>2 DEF HeldWithin, Never

LEMMA HitIsRecent ==
  ASSUME AuthInv, NEW w \in Wallets, Fresh(w), roleCache[w].value
  PROVE  HeldWithin(w, LookupTime + (RoleCache - 1))
<1>1. /\ lostAt[w] \in Nat \union {Never} /\ now \in Nat /\ LookupTime \in Nat
      /\ roleCache[w].at \in Nat \union {Never} /\ RoleCache \in Nat
  BY Times DEF AuthInv, TypeOK, TimeTypes
<1>2. roleCache[w].at # Never /\ now - roleCache[w].at < RoleCache
  BY DEF Fresh
<1>3. w \in admins \/ (lostAt[w] # Never /\ roleCache[w].at <= lostAt[w] + LookupTime)
  BY <1>2 DEF AuthInv, CacheOK, CachedOK
<1> QED
  BY <1>1, <1>2, <1>3 DEF HeldWithin, Never

LEMMA NextIsRecent ==
  ASSUME AuthInv, [Next]_vars
  PROVE  RecentStep
<1> SUFFICES ASSUME NEW r \in Requests, at'[r] = "in", at[r] # "in"
             PROVE  HeldWithin(job'[r].who,
                      LookupTime + IF job'[r].route = "other" /\ job'[r].sig = NoSig
                                   THEN RoleCache - 1 ELSE 0)
  BY DEF RecentStep
<1>1. at \in [Requests -> Places] /\ job \in [Requests -> [route : Routes, who : Wallets,
         sig : Signatures \union {NoSig}, about : Wallets]]
  BY DEF AuthInv, TypeOK
<1>2. PICK q \in Requests : HandlerStep(q)
  BY DEF Next, Sign, Outside, Logout, Restart, Tick, reqVars, vars
<1>3. ASSUME NEW token \in sessions, SessionHit(r, token)
      PROVE  HeldWithin(job'[r].who,
               LookupTime + IF job'[r].route = "other" /\ job'[r].sig = NoSig
                            THEN RoleCache - 1 ELSE 0)
  <2>1. PICK w \in Wallets : w = token.wallet
    BY DEF AuthInv, TypeOK
  <2>2. HeldWithin(w, LookupTime + (RoleCache - 1))
    BY <1>3, <2>1, HitIsRecent DEF SessionHit
  <2>3. job'[r] = [route |-> "other", who |-> w, sig |-> NoSig, about |-> Minter]
    BY <1>1, <1>3, <2>1 DEF SessionHit
  <2> QED
    BY <2>2, <2>3
<1>4. ASSUME RoleConfirmed(r) \/ ActionConfirmed(r)
      PROVE  HeldWithin(job'[r].who,
               LookupTime + IF job'[r].route = "other" /\ job'[r].sig = NoSig
                            THEN RoleCache - 1 ELSE 0)
  <2>1. at[r] = "asked" /\ answer[r] = "yes" /\ job' = job
    BY <1>4 DEF RoleConfirmed, ActionConfirmed
  <2>2. PICK w \in Wallets : w = job[r].who
    BY <1>1
  <2>3. HeldWithin(w, LookupTime)
    BY <2>1, <2>2, AnswerIsRecent
  <2>4. RoleCache - 1 \in Nat /\ 0 \in Nat
    BY Times DEF TimeTypes
  <2>5. HeldWithin(w, LookupTime + (RoleCache - 1)) /\ HeldWithin(w, LookupTime + 0)
    BY <2>3, <2>4, HeldLonger
  <2> QED
    BY <2>1, <2>2, <2>5
<1>5. \/ \E token \in sessions : SessionHit(r, token)
      \/ RoleConfirmed(r) \/ ActionConfirmed(r)
  <2>1. q = r
    <3>1. CASE \E token \in sessions : SessionHit(q, token)
      BY <1>1, <3>1 DEF SessionHit
    <3>2. CASE at' = [at EXCEPT ![q] = "asked"]
      BY <1>1, <3>2
    <3>3. CASE at' = [at EXCEPT ![q] = "idle"]
      BY <1>1, <3>3
    <3>4. CASE at' = [at EXCEPT ![q] = "in"]
      BY <1>1, <3>4
    <3>5. CASE at' = [at EXCEPT ![q] = "sent"]
      BY <1>1, <3>5
    <3>6. CASE at' = at
      BY <3>6
    <3> QED
      BY <1>2, <3>1, <3>2, <3>3, <3>4, <3>5, <3>6 DEF HandlerStep, SessionAsks, SignedAsks, LoginAsks,
         NodeAnswers, RoleConfirmed, ActionConfirmed, Refused, Done, Send, Mined, Fails, Ask, LetIn, Leave
  <2>2. at'[r] \in {"asked", "idle", "sent"} \/ at' = at => FALSE
    OBVIOUS
  <2> QED
    BY <1>1, <1>2, <2>1, <2>2 DEF HandlerStep, SessionAsks, SignedAsks, LoginAsks,
       NodeAnswers, Refused, Done, Send, Mined, Fails, Ask, Leave
<1> QED
  BY <1>3, <1>4, <1>5

(* Who lost the role is let in at most the cache's minute and one lookup   *)
(* later, without the cache one lookup later, whatever the order in which  *)
(* the lookups' answers and the changes of the role arrive.                *)
THEOREM RoleIsRecent == Spec => LetInRecently
<1>1. Init => AuthInv
  BY InitAuth
<1>2. AuthInv /\ [Next]_vars => AuthInv'
  BY NextAuth
<1>3. AuthInv /\ [Next]_vars => [RecentStep]_vars
  BY NextIsRecent
<1>4. RecentStep <=>
        \A r \in Requests :
          at'[r] = "in" /\ at[r] # "in" =>
            HeldWithin(job'[r].who,
              LookupTime + IF job'[r].route = "other" /\ job'[r].sig = NoSig
                           THEN RoleCache - 1 ELSE 0)
  BY DEF RecentStep
<1> QED
  BY <1>1, <1>2, <1>3, <1>4, PTL DEF Spec, LetInRecently
-----------------------------------------------------------------------------
(* The parts of MCState.  A behaviour is about one part, whose steps are    *)
(* those of its module; so an invariant of the module is one here.          *)

LEMMA PartInit ==
  ASSUME SumInit
  PROVE  /\ part = "nonces" => Nonces!Init
         /\ part = "keys" => Keys!Init
         /\ part = "list" => List!Init
         /\ part = "version" => Version!Init
         /\ part = "sender" => Sender!Init
         /\ part = "funds" => Funds!Init
BY DEF SumInit

LEMMA PartStep ==
  ASSUME [SumNext]_<<vars, state>>
  PROVE  /\ UNCHANGED part
         /\ part = "nonces" => [Nonces!Next]_Nonces!vars
         /\ part = "keys" => [Keys!Next]_Keys!vars
         /\ part = "list" => [List!Next]_List!vars
         /\ part = "version" => [Version!Next]_Version!vars
         /\ part = "sender" => [Sender!Next]_Sender!vars
         /\ part = "funds" => [Funds!Next]_Funds!vars
<1>1. CASE SumNext
  BY <1>1 DEF SumNext
<1>2. CASE UNCHANGED <<vars, state>>
  BY <1>2 DEF state, Nonces!vars, Keys!vars, List!vars, List!listVars, Version!vars, Sender!vars,
     Funds!vars, Funds!funds, Funds!monitor
<1> QED
  BY <1>1, <1>2

Srv == INSTANCE ServerProofs WITH
  Procs <- Requests, Surveys <- {1, 2}, MaxVersion <- 4, MaxKeys <- 3, keys <- x1,
  version <- x2, readable <- x3, made <- x4, cache <- x5, cacheVersion <- x6,
  reading <- x7, unsaved <- x8,
  Senders <- {Server}, Calls <- Calls, Unread <- Unread, Rejected <- Rejected,
  MaxNonce <- 4, mined <- x1, pool <- x2, countRead <- x3, reserved <- x4,
  writeAt <- x5, offset <- x6, lost <- x7,
  Writes <- Requests, Floor <- 3, FeeCap <- 1, TipCap <- 1, MaxFee <- 2, MaxBalance <- 5,
  Cooldown <- 2, balance <- x1, baseFee <- x2, tip <- x3, payAt <- x4, offer <- x5,
  warned <- x6, polled <- x7, status <- x8,
  Listed <- {1}, Fills <- Requests, Ttl <- 2, FillTime <- 1, MaxTime <- 5, listNow <- x1,
  chain <- x2, changedAt <- x3, cachedSurveys <- x4, cacheExpiry <- x5, started <- x6,
  got <- x7,
  Recheck <- 2, ReadTime <- 2, Centi <- 125, MaxCalls <- 2, LastTick <- 7,
  versionNow <- x1, upgradedAt <- x2, support <- x3, calls <- x4

(* The instances in ServerProofs are the parts of MCState.                   *)
LEMMA SenderIsTx ==
  /\ Sender!Init <=> Srv!Tx!Init
  /\ [Sender!Next]_Sender!vars <=> [Srv!Tx!Next]_Srv!Tx!vars
  /\ Sender!NoncesFit <=> Srv!Tx!NoncesFit
<1>1. \A S : Sender!Cardinality(S) = Srv!Tx!Cardinality(S)
  BY DEF Sender!Cardinality, Srv!Tx!Cardinality
<1>2. Sender!Init <=> Srv!Tx!Init
  BY DEF Sender!Init, Srv!Tx!Init
<1>3. Sender!NoncesFit <=> Srv!Tx!NoncesFit
  BY <1>1 DEF Sender!NoncesFit, Sender!ReservedBy, Sender!Taken, Sender!NonceOf,
     Srv!Tx!NoncesFit, Srv!Tx!ReservedBy, Srv!Tx!Taken, Srv!Tx!NonceOf
<1>4. [Sender!Next]_Sender!vars <=> [Srv!Tx!Next]_Srv!Tx!vars
  <2>1. ASSUME NEW p, NEW c PROVE Sender!Reserve(p, c) <=> Srv!Tx!Reserve(p, c)
    BY <1>1 DEF Sender!Reserve, Sender!Moves, Srv!Tx!Reserve, Srv!Tx!Moves
  <2>2. Sender!Pending = Srv!Tx!Pending
    BY DEF Sender!Pending, Srv!Tx!Pending
  <2>3. ASSUME NEW p, NEW c PROVE Sender!Write(p, c) <=> Srv!Tx!Write(p, c)
    BY <2>1 DEF Sender!Write, Sender!Checks, Sender!CheckFails, Sender!Broadcast, Sender!SendFails,
       Sender!Moves, Sender!Taken, Sender!NonceOf, Sender!Forget,
       Srv!Tx!Write, Srv!Tx!Checks, Srv!Tx!CheckFails, Srv!Tx!Broadcast, Srv!Tx!SendFails,
       Srv!Tx!Moves, Srv!Tx!Taken, Srv!Tx!NonceOf, Srv!Tx!Forget
  <2>4. ASSUME NEW p PROVE Sender!ReadCount(p) <=> Srv!Tx!ReadCount(p)
    BY <2>2 DEF Sender!ReadCount, Srv!Tx!ReadCount
  <2>5. ASSUME NEW p PROVE Sender!Restart(p) <=> Srv!Tx!Restart(p)
    BY DEF Sender!Restart, Srv!Tx!Restart
  <2>6. ASSUME NEW tx PROVE Sender!Mine(tx) <=> Srv!Tx!Mine(tx)
    BY DEF Sender!Mine, Sender!Awaited, Sender!NonceOf, Sender!Forget,
       Srv!Tx!Mine, Srv!Tx!Awaited, Srv!Tx!NonceOf, Srv!Tx!Forget
  <2> QED
    BY <2>3, <2>4, <2>5, <2>6 DEF Sender!Next, Sender!vars, Srv!Tx!Next, Srv!Tx!vars
<1> QED
  BY <1>2, <1>3, <1>4

LEMMA FundsIsFund ==
  /\ Funds!Init <=> Srv!Fund!Init
  /\ [Funds!Next]_Funds!vars <=> [Srv!Fund!Next]_Srv!Fund!vars
  /\ Funds!FloorHolds <=> Srv!Fund!FloorHolds
  /\ Funds!LowIsWarned <=> Srv!Fund!LowIsWarned
  /\ Funds!PromiseIsKept <=> Srv!Fund!PromiseIsKept
<1>1. \A S : Funds!Cardinality(S) = Srv!Fund!Cardinality(S)
  BY DEF Funds!Cardinality, Srv!Fund!Cardinality
<1> QED
  BY <1>1 DEF Funds!funds, Funds!monitor, Funds!vars, Funds!WarnBalance,
     Funds!NoOffer, Funds!NoStatus, Funds!Least, Funds!Most, Funds!Init,
     Funds!Allow, Funds!Overrides, Funds!Price, Funds!Send, Funds!Forget,
     Funds!Fails, Funds!Cost, Funds!Mine, Funds!Market, Funds!Refill,
     Funds!Poll, Funds!PollFails, Funds!ReadBalance, Funds!ReadPrice,
     Funds!Shown, Funds!Usable, Funds!ClaimsRemaining, Funds!Next,
     Funds!UnderWay, Funds!FloorHolds, Funds!LowIsWarned, Funds!PromiseIsKept,
     Srv!Fund!funds, Srv!Fund!monitor, Srv!Fund!vars, Srv!Fund!WarnBalance,
     Srv!Fund!NoOffer, Srv!Fund!NoStatus, Srv!Fund!Least, Srv!Fund!Most,
     Srv!Fund!Init, Srv!Fund!Allow, Srv!Fund!Overrides, Srv!Fund!Price,
     Srv!Fund!Send, Srv!Fund!Forget, Srv!Fund!Fails, Srv!Fund!Cost,
     Srv!Fund!Mine, Srv!Fund!Market, Srv!Fund!Refill, Srv!Fund!Poll,
     Srv!Fund!PollFails, Srv!Fund!ReadBalance, Srv!Fund!ReadPrice,
     Srv!Fund!Shown, Srv!Fund!Usable, Srv!Fund!ClaimsRemaining, Srv!Fund!Next,
     Srv!Fund!UnderWay, Srv!Fund!FloorHolds, Srv!Fund!LowIsWarned,
     Srv!Fund!PromiseIsKept

LEMMA ListIsLst ==
  /\ List!Init <=> Srv!Lst!Init
  /\ [List!Next]_List!vars <=> [Srv!Lst!Next]_Srv!Lst!vars
  /\ List!ListIsRecent <=> Srv!Lst!ListIsRecent
BY DEF List!listVars, List!vars, List!Never, List!NoList, List!States,
   List!Init, List!Served, List!StartFill, List!loadSurvey, List!Ends,
   List!Store, List!Fails, List!Mined, List!invalidateCache, List!Tick,
   List!Next, List!Since, List!ListIsRecent, Srv!Lst!listVars, Srv!Lst!vars,
   Srv!Lst!Never, Srv!Lst!NoList, Srv!Lst!States, Srv!Lst!Init, Srv!Lst!Served,
   Srv!Lst!StartFill, Srv!Lst!loadSurvey, Srv!Lst!Ends, Srv!Lst!Store,
   Srv!Lst!Fails, Srv!Lst!Mined, Srv!Lst!invalidateCache, Srv!Lst!Tick,
   Srv!Lst!Next, Srv!Lst!Since, Srv!Lst!ListIsRecent

LEMMA VersionIsVer ==
  /\ Version!Init <=> Srv!Ver!Init
  /\ [Version!Next]_Version!vars <=> [Srv!Ver!Next]_Srv!Ver!vars
  /\ Version!UpgradeIsSeen <=> Srv!Ver!UpgradeIsSeen
  /\ Version!PathFits <=> Srv!Ver!PathFits
<1>1. \A S : Version!Cardinality(S) = Srv!Ver!Cardinality(S)
  BY DEF Version!Cardinality, Srv!Ver!Cardinality
<1> QED
  BY <1>1 DEF Version!vars, Version!Never, Version!CallStates, Version!Init,
     Version!Known, Version!isFractional, Version!Goes, Version!Calling,
     Version!Begin, Version!Check, Version!Answers, Version!Fails,
     Version!Points, Version!NeedsV3, Version!Returns, Version!Upgrade,
     Version!Tick, Version!Next, Version!UpgradeIsSeen, Version!PathFits,
     Srv!Ver!vars, Srv!Ver!Never, Srv!Ver!CallStates, Srv!Ver!Init,
     Srv!Ver!Known, Srv!Ver!isFractional, Srv!Ver!Goes, Srv!Ver!Calling,
     Srv!Ver!Begin, Srv!Ver!Check, Srv!Ver!Answers, Srv!Ver!Fails,
     Srv!Ver!Points, Srv!Ver!NeedsV3, Srv!Ver!Returns, Srv!Ver!Upgrade,
     Srv!Ver!Tick, Srv!Ver!Next, Srv!Ver!UpgradeIsSeen, Srv!Ver!PathFits

LEMMA KeysIsSrv ==
  /\ Keys!Init <=> Srv!Init
  /\ [Keys!Next]_Keys!vars <=> [Srv!Next]_Srv!vars
  /\ Keys!OtherKeysStay <=> Srv!OtherKeysStay
BY DEF Keys!vars, Keys!NoKeys, Keys!Init, Keys!Content, Keys!Stale,
   Keys!LookAtVersion, Keys!ReadFile, Keys!Loaded, Keys!StillUnsaved,
   Keys!SaveOrThrow, Keys!Fresh, Keys!createKey, Keys!rotateKey, Keys!deleteKey,
    Keys!Damage, Keys!Restart, Keys!Next, Keys!OtherKeysStay, Srv!vars,
   Srv!NoKeys, Srv!Init, Srv!Content, Srv!Stale, Srv!LookAtVersion,
   Srv!ReadFile, Srv!Loaded, Srv!StillUnsaved, Srv!SaveOrThrow, Srv!Fresh,
   Srv!createKey, Srv!rotateKey, Srv!deleteKey, Srv!Damage, Srv!Restart,
   Srv!Next, Srv!OtherKeysStay

(* What the theorems about each part need holds of the values in MCState.    *)
LEMMA PartAssumptions ==
  Srv!SenderAssumption /\ Srv!FundsAssumption /\ Srv!ListAssumption /\ Srv!VersionAssumption
<1>1. /\ \A S : IsFiniteSet(S) => Srv!IsFiniteSet(S)
  BY DEF IsFiniteSet, Srv!IsFiniteSet
<1> QED
  BY <1>1, MarksAssumption DEF Srv!SenderAssumption, Srv!FundsAssumption, Srv!ListAssumption,
     Srv!VersionAssumption

SendingInv ==
  /\ part = "sender" => Srv!SenderInv
  /\ part = "funds" => Srv!FundsInv

LEMMA SendingKept ==
  /\ SumInit => SendingInv
  /\ SendingInv /\ [SumNext]_<<vars, state>> => SendingInv'
<1>1. SumInit => SendingInv
  <2> SUFFICES ASSUME SumInit PROVE SendingInv
    OBVIOUS
  <2>1. part = "sender" => Srv!Tx!Init
    BY PartInit, SenderIsTx
  <2>2. part = "funds" => Srv!Fund!Init
    BY PartInit, FundsIsFund
  <2> QED
    BY <2>1, <2>2, PartAssumptions, Srv!SenderInit, Srv!FundsInit DEF SendingInv
<1>2. SendingInv /\ [SumNext]_<<vars, state>> => SendingInv'
  <2> SUFFICES ASSUME SendingInv, [SumNext]_<<vars, state>> PROVE SendingInv'
    OBVIOUS
  <2>1. part = "sender" => [Srv!Tx!Next]_Srv!Tx!vars
    BY PartStep, SenderIsTx
  <2>2. part = "funds" => [Srv!Fund!Next]_Srv!Fund!vars
    BY PartStep, FundsIsFund
  <2>3. part = "sender" => Srv!SenderInv'
    BY <2>1, PartAssumptions, Srv!SenderStep DEF SendingInv
  <2>4. part = "funds" => Srv!FundsInv'
    BY <2>2, PartAssumptions, Srv!FundsStep DEF SendingInv
  <2> QED
    BY <2>3, <2>4, PartStep DEF SendingInv
<1> QED
  BY <1>1, <1>2

(* The transactions of one process get nonces that fit, and the writes that  *)
(* pass the balance check together cannot spend the floor.                   *)
THEOREM SendingStaysSafe == SumSpec => []SendingIsSafe
<1>1. SendingInv => SendingIsSafe
  <2> SUFFICES ASSUME SendingInv PROVE SendingIsSafe
    OBVIOUS
  <2>1. part = "sender" => Srv!Tx!NoncesFit
    BY PartAssumptions, Srv!NoncesFitFollows DEF SendingInv
  <2>2. part = "funds" => Srv!Fund!FloorHolds /\ Srv!Fund!LowIsWarned /\ Srv!Fund!PromiseIsKept
    BY PartAssumptions, Srv!PromiseFollows DEF SendingInv, Srv!FundsInv
  <2> QED
    BY <2>1, <2>2, SenderIsTx, FundsIsFund DEF SendingIsSafe
<1> QED
  BY <1>1, SendingKept, PTL DEF SumSpec

RecentInv ==
  /\ part = "list" => Srv!ListInv
  /\ part = "version" => Srv!VersionInv

LEMMA RecentKept ==
  /\ SumInit => RecentInv
  /\ RecentInv /\ [SumNext]_<<vars, state>> => RecentInv'
<1>1. SumInit => RecentInv
  <2> SUFFICES ASSUME SumInit PROVE RecentInv
    OBVIOUS
  <2>1. part = "list" => Srv!Lst!Init
    BY PartInit, ListIsLst
  <2>2. part = "version" => Srv!Ver!Init
    BY PartInit, VersionIsVer
  <2> QED
    BY <2>1, <2>2, PartAssumptions, Srv!ListInit, Srv!VersionInit DEF RecentInv
<1>2. RecentInv /\ [SumNext]_<<vars, state>> => RecentInv'
  <2> SUFFICES ASSUME RecentInv, [SumNext]_<<vars, state>> PROVE RecentInv'
    OBVIOUS
  <2>1. part = "list" => [Srv!Lst!Next]_Srv!Lst!vars
    BY PartStep, ListIsLst
  <2>2. part = "version" => [Srv!Ver!Next]_Srv!Ver!vars
    BY PartStep, VersionIsVer
  <2>3. part = "list" => Srv!ListInv'
    BY <2>1, PartAssumptions, Srv!ListStep DEF RecentInv
  <2>4. part = "version" => Srv!VersionInv'
    BY <2>2, PartAssumptions, Srv!VersionStep DEF RecentInv
  <2> QED
    BY <2>3, <2>4, PartStep DEF RecentInv
<1> QED
  BY <1>1, <1>2

(* The cached list and the cached version are of late.                       *)
THEOREM CachesStayRecent == SumSpec => []CachedIsRecent
<1>1. RecentInv => CachedIsRecent
  <2> SUFFICES ASSUME RecentInv PROVE CachedIsRecent
    OBVIOUS
  <2>1. part = "list" => Srv!Lst!ListIsRecent
    BY PartAssumptions, Srv!ListFollows DEF RecentInv
  <2>2. part = "version" => Srv!Ver!UpgradeIsSeen /\ Srv!Ver!PathFits
    BY PartAssumptions, Srv!VersionFollows DEF RecentInv
  <2> QED
    BY <2>1, <2>2, ListIsLst, VersionIsVer DEF CachedIsRecent
<1> QED
  BY <1>1, RecentKept, PTL DEF SumSpec

FileInv == part = "keys" => Srv!KeyInv

(* A write of the key file changes one survey's key, or what its process had *)
(* failed to save.                                                           *)
THEOREM KeysStayKept == SumSpec => KeysAreKept
<1>1. SumInit => FileInv
  BY PartInit, KeysIsSrv, Srv!InitTables DEF FileInv
<1>2. FileInv /\ [SumNext]_<<vars, state>> => FileInv' /\ [part = "keys" => Keys!OtherKeysStay]_state
  <2> SUFFICES ASSUME FileInv, [SumNext]_<<vars, state>>
               PROVE  FileInv' /\ [part = "keys" => Keys!OtherKeysStay]_state
    OBVIOUS
  <2>1. part = "keys" => [Srv!Next]_Srv!vars
    BY PartStep, KeysIsSrv
  <2>2. part = "keys" => Srv!KeyInv' /\ (Srv!OtherKeysStay \/ UNCHANGED Srv!vars)
    BY <2>1, Srv!NextTables DEF FileInv
  <2>3. UNCHANGED Srv!vars => Keys!OtherKeysStay
    BY DEF Srv!vars, Keys!OtherKeysStay
  <2>4. part = "keys" => Keys!OtherKeysStay
    BY <2>2, <2>3, KeysIsSrv
  <2> QED
    BY <2>2, <2>4, PartStep DEF FileInv
<1> QED
  BY <1>1, <1>2, PTL DEF SumSpec, KeysAreKept

Nce == INSTANCE NonceStoreProofs WITH
  Procs <- Requests, NoProc <- NoProc, Links <- Links, MaxWrites <- 3, file <- x1,
  cache <- x2, lock <- x3, pc <- x4, op <- x5, seen <- x6, held <- x7, grants <- x8,
  unsaved <- x9

LEMMA NoncesIsNce ==
  /\ Nonces!Init <=> Nce!Init
  /\ [Nonces!Next]_Nonces!vars <=> [Nce!Next]_Nce!vars
  /\ Nonces!HandedOnce <=> Nce!HandedOnce
  /\ Nonces!CacheCoherent <=> Nce!CacheCoherent
  /\ Nonces!RefusedHasCause <=> Nce!RefusedHasCause
  /\ Nonces!Register!Init <=> Nce!Register!Init
  /\ Nonces!RegisterStep <=> Nce!RegisterStep
  /\ Nce!NoProcIsNone
<1>1. /\ Nonces!Init <=> Nce!Init
      /\ [Nonces!Next]_Nonces!vars <=> [Nce!Next]_Nce!vars
  BY DEF Nonces!vars, Nonces!NoCache, Nonces!Kinds, Nonces!Places, Nonces!Init,
     Nonces!Goto, Nonces!Return, Nonces!Call, Nonces!AcquireLock,
     Nonces!LockTimeout, Nonces!LoadVersion, Nonces!ReadFile, Nonces!IsUsed,
     Nonces!Refuse, Nonces!Add, Nonces!Delete, Nonces!HandOut, Nonces!TakeBack,
     Nonces!Rename, Nonces!SaveFails, Nonces!StatFile, Nonces!Crash,
     Nonces!Step, Nonces!Next, Nce!vars, Nce!NoCache, Nce!Kinds, Nce!Places,
     Nce!Init, Nce!Goto, Nce!Return, Nce!Call, Nce!AcquireLock, Nce!LockTimeout,
      Nce!LoadVersion, Nce!ReadFile, Nce!IsUsed, Nce!Refuse, Nce!Add,
     Nce!Delete, Nce!HandOut, Nce!TakeBack, Nce!Rename, Nce!SaveFails,
     Nce!StatFile, Nce!Crash, Nce!Step, Nce!Next
<1>2. /\ Nonces!HandedOnce <=> Nce!HandedOnce
      /\ Nonces!CacheCoherent <=> Nce!CacheCoherent
      /\ Nonces!RefusedHasCause <=> Nce!RefusedHasCause
  BY DEF Nonces!HandedOnce, Nonces!CacheCoherent, Nonces!RefusedHasCause, Nonces!Refusing,
     Nce!HandedOnce, Nce!CacheCoherent, Nce!RefusedHasCause, Nce!Refusing
<1>3. /\ Nonces!Register!Init <=> Nce!Register!Init
      /\ Nonces!RegisterStep <=> Nce!RegisterStep
  BY DEF Nonces!Register!Init, Nonces!RegisterStep, Nonces!saved, Nonces!Register!Next,
     Nonces!Register!Consume, Nonces!Register!GiveBack,
     Nce!Register!Init, Nce!RegisterStep, Nce!saved, Nce!Register!Next,
     Nce!Register!Consume, Nce!Register!GiveBack
<1> QED
  BY <1>1, <1>2, <1>3, MarksAssumption DEF Nce!NoProcIsNone

NoncesInv == part = "nonces" => Nce!StoreInv

LEMMA NoncesKept ==
  /\ SumInit => NoncesInv
  /\ NoncesInv /\ [SumNext]_<<vars, state>> => NoncesInv'
<1>1. SumInit => NoncesInv
  BY PartInit, NoncesIsNce, Nce!InitStore DEF NoncesInv
<1>2. ASSUME NoncesInv, [SumNext]_<<vars, state>> PROVE NoncesInv'
  BY <1>2, PartStep, NoncesIsNce, Nce!NextStore DEF NoncesInv
<1> QED
  BY <1>1, <1>2

(* A claim link is handed to one claim at a time.                            *)
THEOREM LinksGoOnce == SumSpec => []HandedOnce
<1>1. NoncesInv => HandedOnce
  BY NoncesIsNce DEF NoncesInv, HandedOnce, Nce!StoreInv, Nce!StoreTypes, Nce!HandedOnce
<1> QED
  BY <1>1, NoncesKept, PTL DEF SumSpec

(* A nonce cache under the file's version is the file's, and a refused link  *)
(* was handed out.                                                           *)
THEOREM NonceCachesCohere == SumSpec => []CacheCoherent
<1>1. NoncesInv => CacheCoherent
  <2> SUFFICES ASSUME NoncesInv, part = "nonces" PROVE Nce!CacheCoherent /\ Nce!RefusedHasCause
    BY NoncesIsNce DEF CacheCoherent
  <2>1. Nce!CacheCoherent
    BY DEF NoncesInv, Nce!StoreInv, Nce!Coherent, Nce!CacheCoherent
  <2> QED
    BY <2>1, Nce!RefusalFollows DEF NoncesInv
<1> QED
  BY <1>1, NoncesKept, PTL DEF SumSpec

(* The nonce file, as far as its saves succeed, is the register of consumed  *)
(* links.                                                                    *)
THEOREM FileIsTheRegister == SumSpec => RegisterSpec
<1>1. SumInit => (part = "nonces" => Nonces!Register!Init)
  BY PartInit, NoncesIsNce DEF Nce!Init, Nce!Register!Init, Nce!saved
<1>2. NoncesInv /\ [SumNext]_<<vars, state>> => [part = "nonces" => Nonces!RegisterStep]_state
  <2> SUFFICES ASSUME NoncesInv, [SumNext]_<<vars, state>>, part = "nonces" PROVE Nce!RegisterStep
    BY NoncesIsNce
  <2> QED
    BY PartStep, NoncesIsNce, Nce!FileIsRegister DEF NoncesInv, Nce!RegisterStep
<1> QED
  BY <1>1, <1>2, NoncesKept, PTL DEF SumSpec, RegisterSpec

-----------------------------------------------------------------------------
(* The pages.                                                                *)
Pg == INSTANCE PageProofs WITH
  Students <- {a}, NoStudent <- Nothing, PointReads <- Requests, MaxPoints <- 1,
  points <- x1, awards <- x2, stored <- x3, ready <- x4, student <- x5, total <- x6,
  history <- x7, found <- x8, request <- x9,
  Pages <- Requests, ClaimLinks <- {link}, Wallets <- {known, a, b}, Selectable <- {a, b},
  Claims <- Requests, Nothing <- Nothing, link <- x1, pageWallet <- x2, selected <- x3,
  currentStep <- x4, loading <- x5, error <- x6, signing <- x7, waiting <- x8,
  claim <- x9, served <- x10, spent <- x11, paid <- x12,
  Tabs <- Requests, Drafts <- {drawn}, Known <- {known}, Accounts <- {a},
  NoWallet <- Nothing, Positions <- {1, 2}, VerifyCount <- 1, storage <- x1,
  account <- x2, made <- x3, typed <- x4, tabWallet <- x5, tabDialog <- x6,
  creationStep <- x7, pendingWallet <- x8, verifyIndices <- x9, keyRevealed <- x10,
  connecting <- x11, claimReturn <- x12,
  Fingers <- Requests, Words <- {1, 2}, NoCallback <- 0, Callbacks <- 1 .. 3, HoldTime <- 2,
  expanded <- x1, pressing <- x2, asked <- x3, running <- x4, holdStart <- x5,
  holdRaf <- x6, open <- x7, hidden <- x8, showAll <- x9, revealed <- x10,
  hideTimer <- x11, clipboard <- x12, clipTimer <- x13,
  RoleWallets <- {a, b}, Mine <- a, Minter <- a, Labels <- {}, Blank <- Nothing,
  Fetches <- Requests, Saves <- {1}, admins <- x1, known <- x2, labels <- x3,
  list <- x4, fetch <- x5, view <- x6, role <- x7, editing <- x8, save <- x9,
  MarkWallets <- {a, b}, NoMark <- Nothing, Others <- {1}, submitted <- x1, result <- x2,
  search <- x3, dialog <- x4, action <- x5, other <- x6,
  Addresses <- {a, b}, NoAddress <- Nothing, AwardSurveys <- {1}, NoSurvey <- 0, active <- x1,
  awarded <- x2, picked <- x3, address <- x4, previewLookups <- x5, preview <- x6,
  previewLoading <- x7, awardStep <- x8,
  GateWallets <- {a, b}, NoOne <- Nothing, gateWallet <- x1, gateAdmins <- x2,
  adminCheck <- x3, roleLookups <- x4, checkOf <- x5, authenticated <- x6, authFailed <- x7,
  loggedOut <- x8, authStep <- x9, authFor <- x10, cookie <- x11, call <- x12, leaving <- x13,
  Ids <- {1, 2}, NoDialog <- Nothing, MaxCalls <- 2, server <- x1, before <- x2,
  rotated <- x3, surveys <- x4, openFor <- x5, busy <- x6, callStep <- x7, freshMode <- x8,
  formId <- x9

LEMMA ScreenInit ==
  ASSUME SumInit
  PROVE  /\ part = "points" => View!Init
         /\ part = "roles" => Roles!Init
         /\ part = "mark" => Mark!Init
         /\ part = "phrase" => Phrase!Init
         /\ part = "wallet" => Setup!Init
         /\ part = "claim" => Claim!Init
         /\ part = "admin page" => Page!Init
         /\ part = "desk" => Desk!Init
         /\ part = "award" => Award!Init
BY DEF SumInit

LEMMA ScreenStep ==
  ASSUME [SumNext]_<<vars, state>>
  PROVE  /\ UNCHANGED part
         /\ part = "points" => [View!Next]_View!vars
         /\ part = "roles" => [Roles!Next]_Roles!vars
         /\ part = "mark" => [Mark!Next]_Mark!vars
         /\ part = "phrase" => [Phrase!Next]_Phrase!vars
         /\ part = "wallet" => [Setup!Next]_Setup!vars
         /\ part = "claim" => [Claim!Next]_Claim!vars
         /\ part = "admin page" => [Page!Next]_Page!vars
         /\ part = "desk" => [Desk!Next]_Desk!vars
         /\ part = "award" => [Award!Next]_Award!vars
<1>1. CASE SumNext
  BY <1>1 DEF SumNext
<1>2. CASE UNCHANGED <<vars, state>>
  <2>1. UNCHANGED <<part, x1, x2, x3, x4, x5, x6, x7, x8, x9, x10, x11, x12, x13>>
    BY <1>2 DEF state
  <2> QED
    BY <2>1 DEF View!vars, View!page, View!chain, Roles!vars, Roles!page, Roles!server,
       Mark!vars, Phrase!vars, Phrase!clipVars, Phrase!dialogVars, Phrase!holdVars, Setup!vars,
       Setup!pageVars, Setup!creationVars, Claim!vars, Claim!serverVars, Claim!pageVars,
       Page!vars, Page!netVars, Page!authVars, Page!roleVars, Desk!vars, Award!vars
<1> QED
  BY <1>1, <1>2

LEMMA ViewIsPg ==
  /\ View!Init <=> Pg!View!Init
  /\ [View!Next]_View!vars <=> [Pg!View!Next]_Pg!View!vars
  /\ View!TypeOK <=> Pg!View!TypeOK
  /\ View!TotalCoversHistory <=> Pg!View!TotalCoversHistory
BY DEF View!chain, View!page, View!vars, View!None, View!NotFound,
   View!NoRequest, View!Init, View!Award, View!Revoke, View!Sync, View!Asks,
   View!FromStore, View!FromChain, View!RouteLists, View!RouteTotals,
   View!Loads, View!Reset, View!Loaded, View!Explore, View!Explored, View!Fails,
    View!Overview, View!ClaimHistory, View!Explorer, View!Next, View!Amounts,
   View!Somebody, View!Revoked, View!TypeOK, View!TotalCoversHistory,
   Pg!View!chain, Pg!View!page, Pg!View!vars, Pg!View!None, Pg!View!NotFound,
   Pg!View!NoRequest, Pg!View!Init, Pg!View!Award, Pg!View!Revoke, Pg!View!Sync,
    Pg!View!Asks, Pg!View!FromStore, Pg!View!FromChain, Pg!View!RouteLists,
   Pg!View!RouteTotals, Pg!View!Loads, Pg!View!Reset, Pg!View!Loaded,
   Pg!View!Explore, Pg!View!Explored, Pg!View!Fails, Pg!View!Overview,
   Pg!View!ClaimHistory, Pg!View!Explorer, Pg!View!Next, Pg!View!Amounts,
   Pg!View!Somebody, Pg!View!Revoked, Pg!View!TypeOK, Pg!View!TotalCoversHistory

LEMMA RolesIsPg ==
  /\ Roles!Init <=> Pg!Roles!Init
  /\ [Roles!Next]_Roles!vars <=> [Pg!Roles!Next]_Pg!Roles!vars
  /\ Roles!TypeOK <=> Pg!Roles!TypeOK
  /\ Roles!ListedAfterChange <=> Pg!Roles!ListedAfterChange
BY DEF Roles!Texts, Roles!server, Roles!page, Roles!vars, Roles!NoList,
   Roles!NoFetch, Roles!Asking, Roles!NoRole, Roles!NoEdit, Roles!NoSave,
   Roles!Init, Roles!Asks, Roles!Retry, Roles!Lists, Roles!Ends, Roles!Listed,
   Roles!ListFails, Roles!Shown, Roles!Asked, Roles!Add, Roles!Removable,
   Roles!Remove, Roles!RoleChanges, Roles!Refetches, Roles!RoleFails,
   Roles!Sync, Roles!StartEditing, Roles!CancelEditing, Roles!Save,
   Roles!SetLabel, Roles!SetLabelFails, Roles!LabelSaved, Roles!Next,
   Roles!TypeOK, Roles!Entries, Roles!Changed, Roles!ListedAfterChange,
   Pg!Roles!Texts, Pg!Roles!server, Pg!Roles!page, Pg!Roles!vars,
   Pg!Roles!NoList, Pg!Roles!NoFetch, Pg!Roles!Asking, Pg!Roles!NoRole,
   Pg!Roles!NoEdit, Pg!Roles!NoSave, Pg!Roles!Init, Pg!Roles!Asks,
   Pg!Roles!Retry, Pg!Roles!Lists, Pg!Roles!Ends, Pg!Roles!Listed,
   Pg!Roles!ListFails, Pg!Roles!Shown, Pg!Roles!Asked, Pg!Roles!Add,
   Pg!Roles!Removable, Pg!Roles!Remove, Pg!Roles!RoleChanges,
   Pg!Roles!Refetches, Pg!Roles!RoleFails, Pg!Roles!Sync, Pg!Roles!StartEditing,
    Pg!Roles!CancelEditing, Pg!Roles!Save, Pg!Roles!SetLabel,
   Pg!Roles!SetLabelFails, Pg!Roles!LabelSaved, Pg!Roles!Next, Pg!Roles!TypeOK,
   Pg!Roles!Entries, Pg!Roles!Changed, Pg!Roles!ListedAfterChange

LEMMA MarkIsPg ==
  /\ Mark!Init <=> Pg!Mark!Init
  /\ [Mark!Next]_Mark!vars <=> [Pg!Mark!Next]_Pg!Mark!vars
  /\ Mark!TypeOK <=> Pg!Mark!TypeOK
  /\ Mark!AskedAsOpened <=> Pg!Mark!AskedAsOpened
BY DEF Mark!vars, Mark!NoResult, Mark!NoSearch, Mark!NoDialog, Mark!NoAction,
   Mark!Init, Mark!Search, Mark!Reads, Mark!Found, Mark!SearchFails, Mark!Open,
   Mark!Close, Mark!Confirm, Mark!Fits, Mark!After, Mark!Checked, Mark!Marked,
   Mark!Succeeds, Mark!Updated, Mark!ActionFails, Mark!OtherStarts,
   Mark!OtherEnds, Mark!Next, Mark!Kinds, Mark!Actions, Mark!TypeOK,
   Mark!AskedAsOpened, Pg!Mark!vars, Pg!Mark!NoResult, Pg!Mark!NoSearch,
   Pg!Mark!NoDialog, Pg!Mark!NoAction, Pg!Mark!Init, Pg!Mark!Search,
   Pg!Mark!Reads, Pg!Mark!Found, Pg!Mark!SearchFails, Pg!Mark!Open,
   Pg!Mark!Close, Pg!Mark!Confirm, Pg!Mark!Fits, Pg!Mark!After, Pg!Mark!Checked,
    Pg!Mark!Marked, Pg!Mark!Succeeds, Pg!Mark!Updated, Pg!Mark!ActionFails,
   Pg!Mark!OtherStarts, Pg!Mark!OtherEnds, Pg!Mark!Next, Pg!Mark!Kinds,
   Pg!Mark!Actions, Pg!Mark!TypeOK, Pg!Mark!AskedAsOpened

LEMMA PhraseIsPg ==
  /\ Phrase!Init <=> Pg!Reveal!Init
  /\ [Phrase!Next]_Phrase!vars <=> [Pg!Reveal!Next]_Pg!Reveal!vars
  /\ Phrase!TypeOK <=> Pg!Reveal!TypeOK
  /\ Phrase!WordsAreCovered <=> Pg!Reveal!WordsAreCovered
BY DEF Phrase!holdVars, Phrase!dialogVars, Phrase!clipVars, Phrase!vars,
   Phrase!Unset, Phrase!Init, Phrase!Idle, Phrase!AskFrame, Phrase!Cancelled,
   Phrase!HoldButtonShown, Phrase!PointerDown, Phrase!PointerUp,
   Phrase!FrameBegins, Phrase!StartHold, Phrase!TickHold, Phrase!ToggleExpanded,
    Phrase!Visible, Phrase!Show, Phrase!WordClick, Phrase!ToggleShowAll,
   Phrase!AutoHide, Phrase!Cover, Phrase!TabHidden, Phrase!TabShown,
   Phrase!Close, Phrase!CopyAll, Phrase!ClearClipboard, Phrase!Next,
   Phrase!TypeOK, Phrase!WordsAreCovered, Pg!Reveal!holdVars,
   Pg!Reveal!dialogVars, Pg!Reveal!clipVars, Pg!Reveal!vars, Pg!Reveal!Unset,
   Pg!Reveal!Init, Pg!Reveal!Idle, Pg!Reveal!AskFrame, Pg!Reveal!Cancelled,
   Pg!Reveal!HoldButtonShown, Pg!Reveal!PointerDown, Pg!Reveal!PointerUp,
   Pg!Reveal!FrameBegins, Pg!Reveal!StartHold, Pg!Reveal!TickHold,
   Pg!Reveal!ToggleExpanded, Pg!Reveal!Visible, Pg!Reveal!Show,
   Pg!Reveal!WordClick, Pg!Reveal!ToggleShowAll, Pg!Reveal!AutoHide,
   Pg!Reveal!Cover, Pg!Reveal!TabHidden, Pg!Reveal!TabShown, Pg!Reveal!Close,
   Pg!Reveal!CopyAll, Pg!Reveal!ClearClipboard, Pg!Reveal!Next,
   Pg!Reveal!TypeOK, Pg!Reveal!WordsAreCovered

LEMMA SetupIsPg ==
  /\ Setup!Init <=> Pg!Setup!Init
  /\ [Setup!Next]_Setup!vars <=> [Pg!Setup!Next]_Pg!Setup!vars
  /\ Setup!TypeOK <=> Pg!Setup!TypeOK
  /\ Setup!SavedWasVerified <=> Pg!Setup!SavedWasVerified
<1>0. \A S : Setup!Cardinality(S) = Pg!Setup!Cardinality(S)
  BY DEF Setup!Cardinality, Pg!Setup!Cardinality
<1>1. Setup!AskFor = Pg!Setup!AskFor
  BY <1>0 DEF Setup!AskFor, Pg!Setup!AskFor
<1>2. /\ Setup!Init <=> Pg!Setup!Init
      /\ Setup!TypeOK <=> Pg!Setup!TypeOK
  BY <1>1 DEF Setup!creationVars, Setup!pageVars, Setup!vars, Setup!SomeWallets,
      Setup!Init, Setup!NoCreation, Setup!Adopt, Setup!SetupShown,
     Setup!CardShown, Setup!OpenSetupDialog, Setup!CloseDialog,
     Setup!StartCreation, Setup!CreateConfirm, Setup!RevealContinue,
     Setup!VerifyBack, Setup!AbortCreation, Setup!WordsRight,
     Setup!VerifyConfirm, Setup!ImportConfirm, Setup!OpenCardDialog,
     Setup!RevealConfirm, Setup!HideKey, Setup!Remove, Setup!DeleteConfirm,
     Setup!Disconnect, Setup!ConnectAsk, Setup!ConnectApproved,
     Setup!ConnectRefused, Setup!AccountsChanged, Setup!Reload, Setup!PageStep,
     Setup!Next, Setup!TypeOK, Pg!Setup!creationVars, Pg!Setup!pageVars,
     Pg!Setup!vars, Pg!Setup!SomeWallets, Pg!Setup!Init, Pg!Setup!NoCreation,
     Pg!Setup!Adopt, Pg!Setup!SetupShown, Pg!Setup!CardShown,
     Pg!Setup!OpenSetupDialog, Pg!Setup!CloseDialog, Pg!Setup!StartCreation,
     Pg!Setup!CreateConfirm, Pg!Setup!RevealContinue, Pg!Setup!VerifyBack,
     Pg!Setup!AbortCreation, Pg!Setup!WordsRight, Pg!Setup!VerifyConfirm,
     Pg!Setup!ImportConfirm, Pg!Setup!OpenCardDialog, Pg!Setup!RevealConfirm,
     Pg!Setup!HideKey, Pg!Setup!Remove, Pg!Setup!DeleteConfirm,
     Pg!Setup!Disconnect, Pg!Setup!ConnectAsk, Pg!Setup!ConnectApproved,
     Pg!Setup!ConnectRefused, Pg!Setup!AccountsChanged, Pg!Setup!Reload,
     Pg!Setup!PageStep, Pg!Setup!Next, Pg!Setup!TypeOK
<1>3. Setup!SavedWasVerified <=> Pg!Setup!SavedWasVerified
  BY <1>0 DEF Setup!SavedWasVerified, Pg!Setup!SavedWasVerified
<1>4. ASSUME NEW t PROVE Setup!PageStep(t) <=> Pg!Setup!PageStep(t)
  BY <1>1 DEF Setup!creationVars, Setup!pageVars, Setup!vars, Setup!SomeWallets,
      Setup!Init, Setup!NoCreation, Setup!Adopt, Setup!SetupShown,
     Setup!CardShown, Setup!OpenSetupDialog, Setup!CloseDialog,
     Setup!StartCreation, Setup!CreateConfirm, Setup!RevealContinue,
     Setup!VerifyBack, Setup!AbortCreation, Setup!WordsRight,
     Setup!VerifyConfirm, Setup!ImportConfirm, Setup!OpenCardDialog,
     Setup!RevealConfirm, Setup!HideKey, Setup!Remove, Setup!DeleteConfirm,
     Setup!Disconnect, Setup!ConnectAsk, Setup!ConnectApproved,
     Setup!ConnectRefused, Setup!AccountsChanged, Setup!Reload, Setup!PageStep,
     Setup!Next, Pg!Setup!creationVars, Pg!Setup!pageVars, Pg!Setup!vars,
     Pg!Setup!SomeWallets, Pg!Setup!Init, Pg!Setup!NoCreation, Pg!Setup!Adopt,
     Pg!Setup!SetupShown, Pg!Setup!CardShown, Pg!Setup!OpenSetupDialog,
     Pg!Setup!CloseDialog, Pg!Setup!StartCreation, Pg!Setup!CreateConfirm,
     Pg!Setup!RevealContinue, Pg!Setup!VerifyBack, Pg!Setup!AbortCreation,
     Pg!Setup!WordsRight, Pg!Setup!VerifyConfirm, Pg!Setup!ImportConfirm,
     Pg!Setup!OpenCardDialog, Pg!Setup!RevealConfirm, Pg!Setup!HideKey,
     Pg!Setup!Remove, Pg!Setup!DeleteConfirm, Pg!Setup!Disconnect,
     Pg!Setup!ConnectAsk, Pg!Setup!ConnectApproved, Pg!Setup!ConnectRefused,
     Pg!Setup!AccountsChanged, Pg!Setup!Reload, Pg!Setup!PageStep, Pg!Setup!Next
<1>5. [Setup!Next]_Setup!vars <=> [Pg!Setup!Next]_Pg!Setup!vars
  BY <1>1, <1>4 DEF Setup!creationVars, Setup!pageVars, Setup!vars,
     Setup!SomeWallets, Setup!Init, Setup!NoCreation, Setup!Adopt,
     Setup!SetupShown, Setup!CardShown, Setup!OpenSetupDialog,
     Setup!CloseDialog, Setup!StartCreation, Setup!CreateConfirm,
     Setup!RevealContinue, Setup!VerifyBack, Setup!AbortCreation,
     Setup!WordsRight, Setup!VerifyConfirm, Setup!ImportConfirm,
     Setup!OpenCardDialog, Setup!RevealConfirm, Setup!HideKey, Setup!Remove,
     Setup!DeleteConfirm, Setup!Disconnect, Setup!ConnectAsk,
     Setup!ConnectApproved, Setup!ConnectRefused, Setup!AccountsChanged,
     Setup!Reload, Setup!Next, Pg!Setup!creationVars, Pg!Setup!pageVars,
     Pg!Setup!vars, Pg!Setup!SomeWallets, Pg!Setup!Init, Pg!Setup!NoCreation,
     Pg!Setup!Adopt, Pg!Setup!SetupShown, Pg!Setup!CardShown,
     Pg!Setup!OpenSetupDialog, Pg!Setup!CloseDialog, Pg!Setup!StartCreation,
     Pg!Setup!CreateConfirm, Pg!Setup!RevealContinue, Pg!Setup!VerifyBack,
     Pg!Setup!AbortCreation, Pg!Setup!WordsRight, Pg!Setup!VerifyConfirm,
     Pg!Setup!ImportConfirm, Pg!Setup!OpenCardDialog, Pg!Setup!RevealConfirm,
     Pg!Setup!HideKey, Pg!Setup!Remove, Pg!Setup!DeleteConfirm,
     Pg!Setup!Disconnect, Pg!Setup!ConnectAsk, Pg!Setup!ConnectApproved,
     Pg!Setup!ConnectRefused, Pg!Setup!AccountsChanged, Pg!Setup!Reload,
     Pg!Setup!Next
<1> QED
  BY <1>2, <1>3, <1>5

LEMMA ClaimIsPg ==
  /\ Claim!Init <=> Pg!Claim!Init
  /\ [Claim!Next]_Claim!vars <=> [Pg!Claim!Next]_Pg!Claim!vars
  /\ Claim!TypeOK <=> Pg!Claim!TypeOK
  /\ Claim!PaidWhenShown <=> Pg!Claim!PaidWhenShown
BY DEF Claim!pageVars, Claim!serverVars, Claim!vars, Claim!Unsent, Claim!Init,
   Claim!WalletThere, Claim!Submit, Claim!Signer, Claim!Send, Claim!Failed,
   Claim!SignFails, Claim!Arrives, Claim!AnswerLost, Claim!Reload,
   Claim!SwitchAccount, Claim!Welcome, Claim!Accept, Claim!Answer, Claim!Refuse,
    Claim!GiveBack, Claim!Pay, Claim!Confirm, Claim!GiveUp, Claim!PageStep,
   Claim!ServerStep, Claim!Next, Claim!Ledger!Init, Claim!Ledger!Pay,
   Claim!SuccessShown, Claim!TypeOK, Claim!PaidWhenShown, Pg!Claim!pageVars,
   Pg!Claim!serverVars, Pg!Claim!vars, Pg!Claim!Unsent, Pg!Claim!Init,
   Pg!Claim!WalletThere, Pg!Claim!Submit, Pg!Claim!Signer, Pg!Claim!Send,
   Pg!Claim!Failed, Pg!Claim!SignFails, Pg!Claim!Arrives, Pg!Claim!AnswerLost,
   Pg!Claim!Reload, Pg!Claim!SwitchAccount, Pg!Claim!Welcome, Pg!Claim!Accept,
   Pg!Claim!Answer, Pg!Claim!Refuse, Pg!Claim!GiveBack, Pg!Claim!Pay,
   Pg!Claim!Confirm, Pg!Claim!GiveUp, Pg!Claim!PageStep, Pg!Claim!ServerStep,
   Pg!Claim!Next, Pg!Claim!Ledger!Init, Pg!Claim!Ledger!Pay,
   Pg!Claim!SuccessShown, Pg!Claim!TypeOK, Pg!Claim!PaidWhenShown

LEMMA PageIsPg ==
  /\ Page!Init <=> Pg!Gate!Init
  /\ [Page!Next]_Page!vars <=> [Pg!Gate!Next]_Pg!Gate!vars
  /\ Page!TypeOK <=> Pg!Gate!TypeOK
  /\ Page!DashboardOfAdmin <=> Pg!Gate!DashboardOfAdmin
BY DEF Page!roleVars, Page!authVars, Page!netVars, Page!vars, Page!Dashboard,
   Page!AutoAuthDue, Page!StartLookup, Page!Init, Page!ShowWallet,
   Page!LookupAnswers, Page!LookupFails, Page!RetryCheck, Page!RoleChanges,
   Page!HandleAuth, Page!AutoAuth, Page!RetryAuth, Page!SessionAnswers,
   Page!Signs, Page!LoggedIn, Page!AuthFails, Page!SessionExpires, Page!Call,
   Page!CallReturns, Page!Logout, Page!LogoutReturns, Page!Event, Page!Next,
   Page!TypeOK, Page!DashboardOfAdmin, Pg!Gate!roleVars, Pg!Gate!authVars,
   Pg!Gate!netVars, Pg!Gate!vars, Pg!Gate!Dashboard, Pg!Gate!AutoAuthDue,
   Pg!Gate!StartLookup, Pg!Gate!Init, Pg!Gate!ShowWallet, Pg!Gate!LookupAnswers,
    Pg!Gate!LookupFails, Pg!Gate!RetryCheck, Pg!Gate!RoleChanges,
   Pg!Gate!HandleAuth, Pg!Gate!AutoAuth, Pg!Gate!RetryAuth,
   Pg!Gate!SessionAnswers, Pg!Gate!Signs, Pg!Gate!LoggedIn, Pg!Gate!AuthFails,
   Pg!Gate!SessionExpires, Pg!Gate!Call, Pg!Gate!CallReturns, Pg!Gate!Logout,
   Pg!Gate!LogoutReturns, Pg!Gate!Event, Pg!Gate!Next, Pg!Gate!TypeOK,
   Pg!Gate!DashboardOfAdmin

LEMMA DeskIsPg ==
  /\ Desk!Init <=> Pg!Desk!Init
  /\ [Desk!Next]_Desk!vars <=> [Pg!Desk!Next]_Pg!Desk!vars
  /\ Desk!TypeOK <=> Pg!Desk!TypeOK
  /\ Desk!BannerIsTrue <=> Pg!Desk!BannerIsTrue
<1>1. /\ \A S : Desk!Cardinality(S) = Pg!Desk!Cardinality(S)
      /\ \A S : Desk!Max(S) = Pg!Desk!Max(S)
  BY DEF Desk!Cardinality, Pg!Desk!Cardinality, Desk!Max, Pg!Desk!Max
<1> QED
  BY <1>1 DEF Desk!vars, Desk!Dialogs, Desk!Lists, Desk!NextSurveyId, Desk!Init,
      Desk!Offered, Desk!Modal, Desk!Open, Desk!OpenRegister, Desk!EditId,
     Desk!Close, Desk!Confirm, Desk!Becomes, Desk!Idle, Desk!Deactivated,
     Desk!Regenerated, Desk!Downloaded, Desk!Registered, Desk!CallFails,
     Desk!Reactivate, Desk!Listed, Desk!Refresh, Desk!AfterRegister,
     Desk!SecondListFails, Desk!Next, Desk!TypeOK, Desk!BannerIsTrue,
     Pg!Desk!vars, Pg!Desk!Dialogs, Pg!Desk!Lists, Pg!Desk!NextSurveyId,
     Pg!Desk!Init, Pg!Desk!Offered, Pg!Desk!Modal, Pg!Desk!Open,
     Pg!Desk!OpenRegister, Pg!Desk!EditId, Pg!Desk!Close, Pg!Desk!Confirm,
     Pg!Desk!Becomes, Pg!Desk!Idle, Pg!Desk!Deactivated, Pg!Desk!Regenerated,
     Pg!Desk!Downloaded, Pg!Desk!Registered, Pg!Desk!CallFails,
     Pg!Desk!Reactivate, Pg!Desk!Listed, Pg!Desk!Refresh, Pg!Desk!AfterRegister,
      Pg!Desk!SecondListFails, Pg!Desk!Next, Pg!Desk!TypeOK,
     Pg!Desk!BannerIsTrue

LEMMA AwardIsPg ==
  /\ Award!Init <=> Pg!Form!Init
  /\ [Award!Next]_Award!vars <=> [Pg!Form!Next]_Pg!Form!vars
  /\ Award!TypeOK <=> Pg!Form!TypeOK
  /\ Award!PreviewIsOfTheAddress <=> Pg!Form!PreviewIsOfTheAddress
BY DEF Award!vars, Award!NoPreview, Award!Steps, Award!ClaimedBy, Award!Init,
   Award!CanAward, Award!ListChanges, Award!Pick, Award!Typed, Award!Type,
   Award!Took, Award!PreviewAnswers, Award!PreviewFails, Award!OpenConfirm,
   Award!Cancel, Award!Confirm, Award!Failed, Award!Awarded, Award!Next,
   Award!TypeOK, Award!PreviewIsOfTheAddress, Pg!Form!vars, Pg!Form!NoPreview,
   Pg!Form!Steps, Pg!Form!ClaimedBy, Pg!Form!Init, Pg!Form!CanAward,
   Pg!Form!ListChanges, Pg!Form!Pick, Pg!Form!Typed, Pg!Form!Type, Pg!Form!Took,
    Pg!Form!PreviewAnswers, Pg!Form!PreviewFails, Pg!Form!OpenConfirm,
   Pg!Form!Cancel, Pg!Form!Confirm, Pg!Form!Failed, Pg!Form!Awarded,
   Pg!Form!Next, Pg!Form!TypeOK, Pg!Form!PreviewIsOfTheAddress


(* What the theorems about the pages need holds of the values in MCState.    *)
LEMMA ScreenAssumptions ==
  /\ Pg!ViewAssumption /\ Pg!RoleAssumption /\ Pg!RevealAssumption /\ Pg!SetupAssumption
  /\ Pg!ClaimAssumption /\ Pg!DeskAssumption
  /\ Nothing \notin {a, b}
<1>1. Nothing \notin {1, 2} /\ \E n \in Nat : {1, 2} = 1 .. n
  <2>1. {1, 2} = 1 .. 2 /\ 2 \in Nat
    OBVIOUS
  <2> QED
    BY <2>1, MarksAssumption
<1>2. {drawn} \intersect {known} = {} /\ {drawn} \intersect {a} = {} /\ Nothing \notin {drawn}
  BY MarksAssumption
<1>3. Nothing \notin Requests /\ Nothing \notin {known, a, b} /\ Nothing \notin {a, b}
  BY MarksAssumption
<1>4. Pg!ViewAssumption /\ Pg!RoleAssumption /\ Pg!RevealAssumption
  BY DEF Pg!ViewAssumption, Pg!RoleAssumption, Pg!RevealAssumption
<1>5. Pg!SetupAssumption
  <2>1. {1, 2} = 1 .. 2 /\ Pg!IsFiniteSet(1 .. 2) /\ Pg!Cardinality(1 .. 2) = 2
    BY Pg!FirstNumbers
  <2>2. Pg!IsFiniteSet({1, 2}) /\ Pg!Cardinality({1, 2}) = 2
    BY <2>1
  <2> QED
    BY <1>2, <2>2 DEF Pg!SetupAssumption
<1>6. Pg!ClaimAssumption /\ Pg!DeskAssumption
  BY <1>1, <1>3 DEF Pg!ClaimAssumption, Pg!DeskAssumption
<1> QED
  BY <1>3, <1>4, <1>5, <1>6

(* The invariants behind what the pages promise.                             *)
ScreensInv ==
  /\ part = "points" => Pg!ViewInv
  /\ part = "roles" => Pg!RoleInv
  /\ part = "mark" => Pg!MarkInv
  /\ part = "phrase" => Pg!RevealInv
  /\ part = "wallet" => Pg!SetupInv
  /\ part = "claim" => Pg!ClaimInv
  /\ part = "admin page" => Pg!GateInv
  /\ part = "desk" => Pg!DeskInv
  /\ part = "award" => Pg!FormInv

LEMMA ScreensStart == ASSUME SumInit PROVE ScreensInv
<1>1. /\ part = "points" => Pg!View!Init
      /\ part = "roles" => Pg!Roles!Init
      /\ part = "mark" => Pg!Mark!Init
      /\ part = "phrase" => Pg!Reveal!Init
      /\ part = "wallet" => Pg!Setup!Init
      /\ part = "claim" => Pg!Claim!Init
      /\ part = "admin page" => Pg!Gate!Init
      /\ part = "desk" => Pg!Desk!Init
      /\ part = "award" => Pg!Form!Init
  BY ScreenInit, ViewIsPg, RolesIsPg, MarkIsPg, PhraseIsPg, SetupIsPg, ClaimIsPg, PageIsPg,
     DeskIsPg, AwardIsPg
<1> QED
  BY <1>1, ScreenAssumptions, Pg!ViewInit, Pg!RoleInit, Pg!MarkInit, Pg!RevealInit, Pg!SetupInit,
     Pg!ClaimInit, Pg!GateInit, Pg!DeskInit, Pg!FormInit DEF ScreensInv

LEMMA ScreensKeep ==
  ASSUME ScreensInv, [SumNext]_<<vars, state>>
  PROVE  /\ ScreensInv'
         /\ part = "claim" => Claim!PaidWhenShown
         /\ part = "roles" => Roles!ListedAfterChange
         /\ part = "mark" => Mark!AskedAsOpened
<1>1. part' = part
  BY ScreenStep
<1>2. part = "points" => Pg!ViewInv'
  BY ScreenStep, ViewIsPg, ScreenAssumptions, Pg!ViewStep DEF ScreensInv
<1>3. part = "roles" => Pg!RoleInv' /\ Roles!ListedAfterChange
  BY ScreenStep, RolesIsPg, ScreenAssumptions, Pg!RoleStep DEF ScreensInv
<1>4. part = "mark" => Pg!MarkInv' /\ Mark!AskedAsOpened
  BY ScreenStep, MarkIsPg, Pg!MarkStep DEF ScreensInv
<1>5. part = "phrase" => Pg!RevealInv'
  BY ScreenStep, PhraseIsPg, ScreenAssumptions, Pg!RevealStep DEF ScreensInv
<1>6. part = "wallet" => Pg!SetupInv'
  BY ScreenStep, SetupIsPg, ScreenAssumptions, Pg!SetupStep DEF ScreensInv
<1>7. part = "claim" => Pg!ClaimInv' /\ Claim!PaidWhenShown
  BY ScreenStep, ClaimIsPg, ScreenAssumptions, Pg!ClaimStep DEF ScreensInv
<1>8. part = "admin page" => Pg!GateInv'
  BY ScreenStep, PageIsPg, Pg!GateStep DEF ScreensInv
<1>9. part = "desk" => Pg!DeskInv'
  BY ScreenStep, DeskIsPg, ScreenAssumptions, Pg!DeskStep DEF ScreensInv
<1>10. part = "award" => Pg!FormInv'
  BY ScreenStep, AwardIsPg, Pg!FormStep DEF ScreensInv
<1> QED
  BY <1>1, <1>2, <1>3, <1>4, <1>5, <1>6, <1>7, <1>8, <1>9, <1>10 DEF ScreensInv

LEMMA ScreensFollow ==
  ASSUME ScreensInv
  PROVE  /\ part = "points" => View!TypeOK /\ View!TotalCoversHistory
         /\ part = "roles" => Roles!TypeOK
         /\ part = "mark" => Mark!TypeOK
         /\ part = "phrase" => Phrase!TypeOK /\ Phrase!WordsAreCovered
         /\ part = "wallet" => Setup!TypeOK /\ Setup!SavedWasVerified
         /\ part = "claim" => Claim!TypeOK
         /\ part = "admin page" => Page!TypeOK /\ Page!DashboardOfAdmin
         /\ part = "desk" => Desk!TypeOK /\ Desk!BannerIsTrue
         /\ part = "award" => Award!TypeOK /\ Award!PreviewIsOfTheAddress
<1>1. /\ part = "points" => Pg!View!TypeOK /\ Pg!View!TotalCoversHistory
      /\ part = "roles" => Pg!Roles!TypeOK
      /\ part = "mark" => Pg!Mark!TypeOK
      /\ part = "phrase" => Pg!Reveal!TypeOK /\ Pg!Reveal!WordsAreCovered
      /\ part = "wallet" => Pg!Setup!TypeOK /\ Pg!Setup!SavedWasVerified
      /\ part = "claim" => Pg!Claim!TypeOK
      /\ part = "admin page" => Pg!Gate!TypeOK /\ Pg!Gate!DashboardOfAdmin
      /\ part = "desk" => Pg!Desk!TypeOK /\ Pg!Desk!BannerIsTrue
      /\ part = "award" => Pg!Form!TypeOK /\ Pg!Form!PreviewIsOfTheAddress
  BY ScreenAssumptions, Pg!ViewFollows, Pg!RoleFollows, Pg!MarkFollows, Pg!RevealFollows,
     Pg!SetupFollows, Pg!ClaimFollows, Pg!GateFollows, Pg!DeskFollows, Pg!FormFollows
     DEF ScreensInv
<1> QED
  BY <1>1, ViewIsPg, RolesIsPg, MarkIsPg, PhraseIsPg, SetupIsPg, ClaimIsPg, PageIsPg, DeskIsPg,
     AwardIsPg

LEMMA ScreensHold ==
  /\ SumInit => ScreensInv
  /\ ScreensInv /\ [SumNext]_<<vars, state>> => ScreensInv'
BY ScreensStart, ScreensKeep

(* What a page shows is so: covered words, a verified wallet, the banner,    *)
(* the total.                                                                *)
THEOREM ScreensStayTrue == SumSpec => []ScreensAreTrue
<1>1. ScreensInv => ScreensAreTrue
  BY ScreensFollow DEF ScreensAreTrue
<1> QED
  BY <1>1, ScreensHold, PTL DEF SumSpec

(* Neither the dashboard nor the award form takes an answer about another    *)
(* wallet for one about its own.                                             *)
THEOREM LateAnswersDecideNothing == SumSpec => []LateAnswersCountForNothing
<1>1. ScreensInv => LateAnswersCountForNothing
  BY ScreensFollow DEF LateAnswersCountForNothing
<1> QED
  BY <1>1, ScreensHold, PTL DEF SumSpec

(* Success is shown of a paid claim, the list after a role change shows it,  *)
(* what is confirmed is what the dialog was opened for.                      *)
THEOREM StepsStayFitting == SumSpec => StepsFitTheScreen
<1>1. ScreensInv /\ [SumNext]_<<vars, state>> =>
        [/\ part = "claim" => Claim!PaidWhenShown
         /\ part = "roles" => Roles!ListedAfterChange
         /\ part = "mark" => Mark!AskedAsOpened]_state
  BY ScreensKeep
<1> QED
  BY <1>1, ScreensHold, PTL DEF SumSpec, StepsFitTheScreen


LEMMA TypesAreTheirs ==
  /\ Nonces!TypeOK <=> Nce!TypeOK
  /\ Keys!TypeOK <=> Srv!TypeOK
  /\ Sender!TypeOK <=> Srv!Tx!TypeOK
  /\ Funds!TypeOK <=> Srv!Fund!TypeOK
  /\ List!TypeOK <=> Srv!Lst!TypeOK
  /\ Version!TypeOK <=> Srv!Ver!TypeOK
<1>1. Nonces!TypeOK <=> Nce!TypeOK
  BY DEF Nonces!TypeOK, Nonces!Versions, Nonces!Places, Nonces!Kinds, Nonces!NoCache,
     Nce!TypeOK, Nce!Versions, Nce!Places, Nce!Kinds, Nce!NoCache
<1>2. Keys!TypeOK <=> Srv!TypeOK
  BY DEF Keys!TypeOK, Srv!TypeOK
<1>3. Sender!TypeOK <=> Srv!Tx!TypeOK
  BY DEF Sender!TypeOK, Sender!Places, Srv!Tx!TypeOK, Srv!Tx!Places
<1>4. Funds!TypeOK <=> Srv!Fund!TypeOK
  BY DEF Funds!TypeOK, Srv!Fund!TypeOK
<1>5. List!TypeOK <=> Srv!Lst!TypeOK
  BY DEF List!TypeOK, List!States, List!Never, Srv!Lst!TypeOK, Srv!Lst!States, Srv!Lst!Never
<1>6. Version!TypeOK <=> Srv!Ver!TypeOK
  BY DEF Version!TypeOK, Version!CallStates, Version!Never, Srv!Ver!TypeOK, Srv!Ver!CallStates,
     Srv!Ver!Never
<1> QED
  BY <1>1, <1>2, <1>3, <1>4, <1>5, <1>6

\* Beyond the invariants of the parts: the admin API's while it moves or
\* rests, and the bounds of the counters of the nonce file, the key file and
\* the sender, which hold also where a promise about them is not made.
TypesInv ==
  /\ AuthInv
  /\ NoncesInv /\ (part = "nonces" => Nce!VersionsOK)
  /\ part = "keys" => Srv!TypeOK
  /\ part = "sender" => Srv!TxTypes
  /\ SendingInv /\ RecentInv /\ ScreensInv

LEMMA Limits == Srv!KeyLimits /\ 3 \in Nat
  BY DEF Srv!KeyLimits

LEMMA TypesStart == ASSUME SumInit PROVE TypesInv
<1>1. Init
  <2>1. Init \/ AdminRests
    BY DEF SumInit
  <2>2. AdminRests => Init
    BY Times DEF AdminRests, Init
  <2> QED
    BY <2>1, <2>2
<1>2. part = "nonces" => Nce!VersionsOK
  BY PartInit, NoncesIsNce, Limits, Nce!InitVersions
<1>3. part = "keys" => Srv!TypeOK
  BY PartInit, KeysIsSrv, Limits, Srv!KeyTypesInit
<1>4. part = "sender" => Srv!TxTypes
  BY PartInit, SenderIsTx, PartAssumptions, Srv!TxTypesInit
<1> QED
  BY <1>1, <1>2, <1>3, <1>4, InitAuth, NoncesKept, SendingKept, RecentKept, ScreensHold DEF TypesInv

LEMMA TypesKeep == ASSUME TypesInv, [SumNext]_<<vars, state>> PROVE TypesInv'
<1>1. AuthInv'
  <2>1. [Next]_vars
    BY DEF SumNext
  <2> QED
    BY <2>1, NextAuth DEF TypesInv
<1>2. part = "nonces" => Nce!VersionsOK'
  BY PartStep, NoncesIsNce, Limits, Nce!NextVersions DEF TypesInv, NoncesInv, Nce!StoreInv
<1>3. part = "keys" => Srv!TypeOK'
  BY PartStep, KeysIsSrv, Limits, Srv!KeyTypesStep DEF TypesInv
<1>4. part = "sender" => Srv!TxTypes'
  BY PartStep, SenderIsTx, PartAssumptions, Srv!TxTypesStep DEF TypesInv
<1>5. part' = part
  BY PartStep
<1>6. NoncesInv' /\ SendingInv' /\ RecentInv' /\ ScreensInv'
  BY NoncesKept, SendingKept, RecentKept, ScreensHold DEF TypesInv
<1> QED
  BY <1>1, <1>2, <1>3, <1>4, <1>5, <1>6 DEF TypesInv

(* The types of every part, whichever moves.                                 *)
THEOREM TypesStayOK == SumSpec => []TypesOK
<1>1. SumInit => TypesInv
  BY TypesStart
<1>2. TypesInv /\ [SumNext]_<<vars, state>> => TypesInv'
  BY TypesKeep
<1>3. TypesInv => TypesOK
  <2> SUFFICES ASSUME TypesInv PROVE TypesOK
    OBVIOUS
  <2>1. TypeOK
    BY DEF TypesInv, AuthInv
  <2>2. part = "nonces" => Nce!TypeOK
    BY Nce!StoreTypesFollow DEF TypesInv, NoncesInv
  <2>3. /\ part = "keys" => Srv!TypeOK
        /\ part = "sender" => Srv!Tx!TypeOK
        /\ part = "funds" => Srv!Fund!TypeOK
        /\ part = "list" => Srv!Lst!TypeOK
        /\ part = "version" => Srv!Ver!TypeOK
    BY DEF TypesInv, SendingInv, RecentInv, Srv!TxTypes, Srv!FundsInv, Srv!ListInv, Srv!VersionInv
  <2>4. ScreensInv
    BY DEF TypesInv
  <2> QED
    BY <2>1, <2>2, <2>3, <2>4, TypesAreTheirs, ScreensFollow DEF TypesOK
<1> QED
  BY <1>1, <1>2, <1>3, PTL DEF SumSpec
=============================================================================
