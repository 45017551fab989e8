----------------------------- MODULE ServerProofs ----------------------------
(***************************************************************************)
(* What the services of the server promise, for every value of their       *)
(* constants.  SurveyKeyFile is extended; the others are instances with    *)
(* variables of their own.  Each section has the inductive invariant       *)
(* behind the promise, the lemma that a step keeps it, one case per        *)
(* action, and the theorem.  Instances bring no assumptions along: what a  *)
(* theorem needs of the constants is its hypothesis.                       *)
(***************************************************************************)
EXTENDS SurveyKeyFile, FiniteSetTheorems, TLAPS

\* TxSender
CONSTANTS Senders, Calls, Unread, Rejected, MaxNonce
VARIABLES mined, pool, countRead, reserved, writeAt, offset, lost

Tx == INSTANCE TxSender WITH
  Procs <- Senders, base <- countRead, delta <- reserved, at <- writeAt, nonce <- offset

\* MinterFunds
CONSTANTS Writes, Floor, FeeCap, TipCap, MaxFee, MaxBalance, Cooldown
VARIABLES balance, baseFee, tip, payAt, offer, warned, polled, status

Fund == INSTANCE MinterFunds WITH base <- baseFee, at <- payAt

\* SurveyCache
CONSTANTS Listed, Fills, Ttl, FillTime, MaxTime
VARIABLES listNow, chain, changedAt, cachedSurveys, cacheExpiry, started, got

Lst == INSTANCE SurveyCache WITH Surveys <- Listed, now <- listNow

\* VersionCheck
CONSTANTS Recheck, ReadTime, Centi, MaxCalls, LastTick
VARIABLES versionNow, upgradedAt, support, calls

Ver == INSTANCE VersionCheck WITH now <- versionNow, MaxTime <- LastTick

-----------------------------------------------------------------------------
(* SurveyKeyFile: a write of the key file changes one survey's key, for any *)
(* processes and surveys.  The invariant behind it: a table whose version   *)
(* is the file's is the file's, but for what its process failed to save.     *)

Tables == [Surveys -> Nat]

KeyTypes ==
  /\ keys \in Tables /\ version \in Nat \ {0} /\ readable \in BOOLEAN /\ made \in Nat
  /\ cache \in [Procs -> Tables] /\ cacheVersion \in [Procs -> Nat]
  /\ reading \subseteq Procs /\ unsaved \in [Procs -> SUBSET Surveys]

Agrees(p) ==
  readable /\ p \notin reading /\ cacheVersion[p] = version =>
    \A t \in Surveys \ unsaved[p] : cache[p][t] = keys[t]

TablesAgree == \A p \in Procs : cacheVersion[p] <= version /\ Agrees(p)

KeyInv == KeyTypes /\ TablesAgree

(* What a writer starts from, under the lock.                              *)
LEMMA LoadedTable ==
  ASSUME KeyInv, NEW p \in Procs, p \notin reading
  PROVE  /\ Loaded(p) \in Tables
         /\ StillUnsaved(p) \subseteq Surveys
         /\ readable => \A t \in Surveys \ StillUnsaved(p) : Loaded(p)[t] = keys[t]
<1>1. Content \in Tables /\ (readable => Content = keys)
  BY DEF KeyInv, KeyTypes, Content, NoKeys, Tables
<1>2. CASE Stale(p)
  BY <1>1, <1>2 DEF Loaded, StillUnsaved
<1>3. CASE ~Stale(p)
  BY <1>1, <1>3 DEF KeyInv, KeyTypes, TablesAgree, Agrees, Loaded, StillUnsaved, Stale
<1> QED
  BY <1>2, <1>3

(* The table a writer leaves behind, saved or not.                         *)
LEMMA SaveKeeps ==
  ASSUME KeyInv, NEW p \in Procs, NEW s \in Surveys, NEW key \in Nat, made' \in Nat,
         SaveOrThrow(p, s, key)
  PROVE  KeyInv' /\ OtherKeysStay
<1> DEFINE table == [Loaded(p) EXCEPT ![s] = key]
<1>0. /\ p \notin reading /\ reading' = reading
      /\ cache' = [cache EXCEPT ![p] = table]
  BY DEF SaveOrThrow
<1>1. /\ Loaded(p) \in Tables
      /\ StillUnsaved(p) \subseteq Surveys
      /\ readable => \A t \in Surveys \ StillUnsaved(p) : Loaded(p)[t] = keys[t]
  BY <1>0, LoadedTable
<1>2. /\ table \in Tables /\ \A t \in Surveys \ {s} : table[t] = Loaded(p)[t]
      /\ cache' \in [Procs -> Tables] /\ cache'[p] = table
      /\ \A q \in Procs \ {p} : cache'[q] = cache[q]
  BY <1>0, <1>1 DEF KeyInv, KeyTypes, Tables
<1> HIDE DEF table
<1>3. CASE /\ keys' = table /\ version' = version + 1 /\ readable' = TRUE
           /\ cacheVersion' = [cacheVersion EXCEPT ![p] = version + 1]
           /\ unsaved' = [unsaved EXCEPT ![p] = {}]
  <2>1. KeyTypes'
    BY <1>0, <1>2, <1>3 DEF KeyInv, KeyTypes
  <2>2. TablesAgree'
    BY <1>0, <1>2, <1>3 DEF KeyInv, KeyTypes, TablesAgree, Agrees
  <2>3. StillUnsaved(p) \subseteq unsaved[p]
    BY DEF StillUnsaved
  <2>4. OtherKeysStay
    BY <1>1, <1>2, <1>3, <2>3 DEF OtherKeysStay
  <2> QED
    BY <2>1, <2>2, <2>4 DEF KeyInv
<1>4. CASE /\ cacheVersion' = [cacheVersion EXCEPT ![p] = version]
           /\ unsaved' = [unsaved EXCEPT ![p] = StillUnsaved(p) \union {s}]
           /\ UNCHANGED <<keys, version, readable>>
  <2>1. KeyTypes'
    BY <1>0, <1>1, <1>2, <1>4 DEF KeyInv, KeyTypes
  <2>2. unsaved'[p] = StillUnsaved(p) \union {s} /\ \A q \in Procs \ {p} : unsaved'[q] = unsaved[q]
    BY <1>4 DEF KeyInv, KeyTypes
  <2>3. Agrees(p)'
    BY <1>1, <1>2, <1>4, <2>2 DEF Agrees
  <2>4. TablesAgree'
    BY <1>0, <1>2, <1>4, <2>2, <2>3 DEF KeyInv, KeyTypes, TablesAgree, Agrees
  <2>5. OtherKeysStay
    BY <1>4 DEF OtherKeysStay
  <2> QED
    BY <2>1, <2>4, <2>5 DEF KeyInv
<1> QED
  BY <1>3, <1>4 DEF SaveOrThrow, table

LEMMA InitTables == ASSUME Init PROVE KeyInv
  BY DEF Init, NoKeys, KeyInv, KeyTypes, TablesAgree, Agrees, Tables

LEMMA NextTables ==
  ASSUME KeyInv, [Next]_vars
  PROVE  KeyInv' /\ (OtherKeysStay \/ UNCHANGED vars)
<1>1. ASSUME NEW p \in Procs, LookAtVersion(p) PROVE KeyInv' /\ OtherKeysStay
  BY <1>1 DEF LookAtVersion, KeyInv, KeyTypes, TablesAgree, Agrees, OtherKeysStay
<1>2. ASSUME NEW p \in Procs, ReadFile(p) PROVE KeyInv' /\ OtherKeysStay
  <2>1. Content \in Tables /\ (readable => Content = keys)
    BY DEF KeyInv, KeyTypes, Content, NoKeys, Tables
  <2>2. KeyTypes' /\ OtherKeysStay
    BY <1>2, <2>1 DEF ReadFile, KeyInv, KeyTypes, OtherKeysStay
  <2>3. Agrees(p)'
    BY <1>2, <2>1 DEF ReadFile, KeyInv, KeyTypes, Agrees
  <2>4. ASSUME NEW q \in Procs \ {p} PROVE Agrees(q)'
    BY <1>2, <2>4 DEF ReadFile, KeyInv, KeyTypes, TablesAgree, Agrees
  <2> QED
    BY <1>2, <2>2, <2>3, <2>4 DEF ReadFile, KeyInv, TablesAgree
<1>3. ASSUME NEW p \in Procs, Restart(p) PROVE KeyInv' /\ OtherKeysStay
  <2>1. KeyTypes' /\ OtherKeysStay
    BY <1>3 DEF Restart, KeyInv, KeyTypes, NoKeys, Tables, OtherKeysStay
  <2>2. TablesAgree'
    BY <1>3 DEF Restart, KeyInv, KeyTypes, TablesAgree, Agrees
  <2> QED
    BY <2>1, <2>2 DEF KeyInv
<1>4. ASSUME NEW p \in Procs, NEW s \in Surveys, createKey(p, s) \/ rotateKey(p, s)
      PROVE KeyInv' /\ OtherKeysStay
  <2>1. made + 1 \in Nat /\ made' = made + 1 /\ SaveOrThrow(p, s, made + 1)
    BY <1>4 DEF createKey, rotateKey, Fresh, KeyInv, KeyTypes
  <2> QED
    BY <2>1, SaveKeeps
<1>5. ASSUME NEW p \in Procs, NEW s \in Surveys, deleteKey(p, s)
      PROVE KeyInv' /\ OtherKeysStay
  <2>1. made' \in Nat /\ SaveOrThrow(p, s, 0)
    BY <1>5 DEF deleteKey, KeyInv, KeyTypes
  <2> QED
    BY <2>1, SaveKeeps
<1>6. CASE Damage
  <2>1. /\ version' = version + 1 /\ readable' = FALSE
        /\ UNCHANGED <<keys, made, cache, cacheVersion, reading, unsaved>>
    BY <1>6 DEF Damage
  <2>2. KeyTypes'
    <3>1. readable' \in BOOLEAN
      BY <2>1
    <3> QED
      BY <2>1, <3>1 DEF KeyInv, KeyTypes
  <2>3. OtherKeysStay
    BY <2>1 DEF OtherKeysStay
  <2>4. \A p \in Procs : Agrees(p)'
    BY <1>6 DEF Damage, Agrees
  <2>5. \A p \in Procs : cacheVersion'[p] <= version'
    BY <1>6 DEF Damage, KeyInv, KeyTypes, TablesAgree
  <2> QED
    BY <2>2, <2>3, <2>4, <2>5 DEF KeyInv, TablesAgree
<1>7. CASE UNCHANGED vars
  BY <1>7 DEF vars, KeyInv, KeyTypes, TablesAgree, Agrees
<1>8. CASE Next
  BY <1>1, <1>2, <1>3, <1>4, <1>5, <1>6, <1>8 DEF Next
<1> QED
  BY <1>7, <1>8

(* However the processes write, each from a table of its own: a step       *)
(* changes one survey's key in the file, or what its process had failed to *)
(* save before.                                                            *)
THEOREM OneKeyAtATime == Spec => KeysAreKept
<1>1. Init => KeyInv
  BY InitTables
<1>2. KeyInv /\ [Next]_vars => KeyInv'
  BY NextTables
<1>3. KeyInv /\ [Next]_vars => [OtherKeysStay]_vars
  BY NextTables
<1> QED
  BY <1>1, <1>2, <1>3, PTL DEF Spec, KeysAreKept

KeyLimits == MaxVersion \in Nat \ {0} /\ MaxKeys \in Nat \ {0}

LEMMA KeyTypesInit == ASSUME KeyLimits, Init PROVE TypeOK
  BY DEF KeyLimits, Init, NoKeys, TypeOK

LEMMA KeyTypesStep == ASSUME KeyLimits, TypeOK, [Next]_vars PROVE TypeOK'
<1> DEFINE Limited == [Surveys -> 0 .. MaxKeys]
<1>0. /\ MaxVersion \in Nat /\ MaxKeys \in Nat /\ version \in Nat /\ made \in Nat
      /\ version >= 1 /\ version <= MaxVersion /\ made >= 1
      /\ Content \in Limited /\ NoKeys \in Limited /\ readable \in BOOLEAN
  BY DEF KeyLimits, TypeOK, Content, NoKeys
<1>1. ASSUME NEW p \in Procs, NEW s \in Surveys, NEW key \in 0 .. MaxKeys, SaveOrThrow(p, s, key),
             made' \in 1 .. MaxKeys
      PROVE  TypeOK'
  <2> DEFINE table == [Loaded(p) EXCEPT ![s] = key]
  <2>1. table \in Limited
    BY <1>0 DEF Loaded, TypeOK
  <2>2. StillUnsaved(p) \subseteq Surveys
    BY DEF StillUnsaved, TypeOK
  <2>3. cache' = [cache EXCEPT ![p] = table] /\ reading' = reading
    BY <1>1 DEF SaveOrThrow
  <2>4. \/ /\ keys' = table /\ version < MaxVersion /\ version' = version + 1 /\ readable' = TRUE
           /\ cacheVersion' = [cacheVersion EXCEPT ![p] = version + 1]
           /\ unsaved' = [unsaved EXCEPT ![p] = {}]
        \/ /\ cacheVersion' = [cacheVersion EXCEPT ![p] = version]
           /\ unsaved' = [unsaved EXCEPT ![p] = StillUnsaved(p) \union {s}]
           /\ UNCHANGED <<keys, version, readable>>
    BY <1>1 DEF SaveOrThrow
  <2> HIDE DEF table
  <2>5. cache' \in [Procs -> Limited] /\ keys' \in Limited
    BY <2>1, <2>3, <2>4 DEF TypeOK
  <2>6. version' \in 1 .. MaxVersion /\ cacheVersion' \in [Procs -> 0 .. MaxVersion]
    BY <1>0, <2>4 DEF TypeOK
  <2>7. unsaved' \in [Procs -> SUBSET Surveys]
    BY <2>2, <2>4 DEF TypeOK
  <2>8. readable' \in BOOLEAN
    BY <1>0, <2>4
  <2> QED
    BY <1>1, <2>3, <2>5, <2>6, <2>7, <2>8 DEF TypeOK
<1>2. ASSUME NEW p \in Procs, NEW s \in Surveys, createKey(p, s) \/ rotateKey(p, s) PROVE TypeOK'
  <2>1. made' \in 1 .. MaxKeys /\ made + 1 \in 0 .. MaxKeys /\ SaveOrThrow(p, s, made + 1)
    BY <1>0, <1>2 DEF createKey, rotateKey, Fresh
  <2> QED
    BY <1>1, <2>1
<1>3. ASSUME NEW p \in Procs, NEW s \in Surveys, deleteKey(p, s) PROVE TypeOK'
  <2>1. made' \in 1 .. MaxKeys /\ 0 \in 0 .. MaxKeys /\ SaveOrThrow(p, s, 0)
    BY <1>0, <1>3 DEF deleteKey, TypeOK
  <2> QED
    BY <1>1, <2>1
<1>4. ASSUME NEW p \in Procs, LookAtVersion(p) PROVE TypeOK'
  <2>1. cacheVersion' \in [Procs -> 0 .. MaxVersion]
    BY <1>0, <1>4 DEF LookAtVersion, TypeOK
  <2> QED
    BY <1>4, <2>1 DEF LookAtVersion, TypeOK
<1>5. ASSUME NEW p \in Procs, ReadFile(p) PROVE TypeOK'
  <2>1. cache' \in [Procs -> Limited]
    BY <1>0, <1>5 DEF ReadFile, TypeOK
  <2> QED
    BY <1>5, <2>1 DEF ReadFile, TypeOK
<1>6. ASSUME NEW p \in Procs, Restart(p) PROVE TypeOK'
  <2>1. cache' \in [Procs -> Limited] /\ cacheVersion' \in [Procs -> 0 .. MaxVersion]
    BY <1>0, <1>6 DEF Restart, TypeOK
  <2> QED
    BY <1>6, <2>1 DEF Restart, TypeOK
<1>7. CASE Damage
  <2>1. version' \in 1 .. MaxVersion
    BY <1>0, <1>7 DEF Damage
  <2>2. readable' \in BOOLEAN
    BY <1>7 DEF Damage
  <2> QED
    BY <1>7, <2>1, <2>2 DEF Damage, TypeOK
<1>8. CASE UNCHANGED vars
  BY <1>8 DEF vars, TypeOK
<1> QED
  BY <1>2, <1>3, <1>4, <1>5, <1>6, <1>7, <1>8 DEF Next

-----------------------------------------------------------------------------
(* TxSender: the nonces of the minter's transactions.                      *)

\* One process sends with the key; what stands for an answer is no number.
SenderAssumption ==
  /\ \A p, q \in Senders : p = q
  /\ IsFiniteSet(Calls) /\ MaxNonce \in Nat
  /\ Unread \notin Nat /\ Rejected \notin Nat /\ Unread # Rejected

SenderTypes ==
  /\ mined \in Nat /\ pool \subseteq [nonce : Nat, proc : Senders, call : Calls]
  /\ countRead \in [Senders -> Nat \union {Unread, Rejected}]
  /\ reserved \in [Senders -> Nat]
  /\ writeAt \in [Senders -> [Calls -> Tx!Places]]
  /\ offset \in [Senders -> [Calls -> Nat]]

Holds(p, c) == writeAt[p][c] = "reserved"

InPool(n) == \E tx \in pool : tx.nonce = n

\* One transaction per nonce, none of them mined.
PoolIsOrdered ==
  /\ mined <= MaxNonce
  /\ \A tx \in pool : mined <= tx.nonce /\ tx.nonce < MaxNonce
  /\ \A tx1, tx2 \in pool : tx1.nonce = tx2.nonce => tx1 = tx2

OffsetsDiffer(p) ==
  \A c, d \in Calls :
    Holds(p, c) /\ Holds(p, d) /\ offset[p][c] = offset[p][d] => c = d

\* The count is there: what is in the pool and what is reserved are together
\* the nonces from mined up to the next one, each once.
CountKnown(p) ==
  countRead[p] \in Nat =>
    /\ mined <= countRead[p] + reserved[p]
    /\ \A tx \in pool : tx.nonce < countRead[p] + reserved[p]
    /\ \A c \in Calls : Holds(p, c) =>
         /\ mined <= countRead[p] + offset[p][c]
         /\ countRead[p] + offset[p][c] < countRead[p] + reserved[p]
         /\ ~InPool(countRead[p] + offset[p][c])
    /\ OffsetsDiffer(p)
    /\ \A n \in Nat : mined <= n /\ n < countRead[p] + reserved[p] =>
         InPool(n) \/ \E c \in Calls : Holds(p, c) /\ countRead[p] + offset[p][c] = n

\* It is not there yet: the calls have reserved the first offsets, and the
\* pool, of an earlier process, has no gap.
CountUnread(p) ==
  countRead[p] = Unread =>
    /\ \A c \in Calls : Holds(p, c) => offset[p][c] < reserved[p]
    /\ OffsetsDiffer(p)
    /\ \A k \in Nat : k < reserved[p] =>
         \E c \in Calls : Holds(p, c) /\ offset[p][c] = k
    /\ \E top \in Nat : /\ mined <= top /\ top <= MaxNonce
                        /\ \A n \in Nat : InPool(n) <=> mined <= n /\ n < top

\* It never will be: some call is left to lose its nonce.
CountRejected(p) == countRead[p] = Rejected => \E c \in Calls : Holds(p, c)

NoncesInOrder ==
  /\ SenderTypes /\ PoolIsOrdered
  /\ \A p \in Senders : CountKnown(p) /\ CountUnread(p) /\ CountRejected(p)

SenderInv == lost \/ NoncesInOrder

LEMMA SenderInit == SenderAssumption /\ Tx!Init => SenderInv
<1> SUFFICES ASSUME SenderAssumption, Tx!Init PROVE SenderInv
  OBVIOUS
<1>1. SenderTypes
  <2>1. writeAt \in [Senders -> [Calls -> Tx!Places]]
    BY DEF Tx!Init, Tx!Places
  <2> QED
    BY <2>1 DEF Tx!Init, SenderTypes
<1>2. PoolIsOrdered
  BY DEF SenderAssumption, Tx!Init, PoolIsOrdered
<1>3. ASSUME NEW p \in Senders PROVE CountKnown(p) /\ CountUnread(p) /\ CountRejected(p)
  <2>1. countRead[p] = Unread /\ reserved[p] = 0 /\ \A c \in Calls : writeAt[p][c] = "idle"
    BY DEF Tx!Init
  <2>2. CountUnread(p)
    BY <2>1 DEF SenderAssumption, Tx!Init, CountUnread, OffsetsDiffer, InPool, Holds
  <2> QED
    BY <2>1, <2>2 DEF SenderAssumption, CountKnown, CountRejected
<1> QED
  BY <1>1, <1>2, <1>3 DEF SenderInv, NoncesInOrder

(* The count that is read ends the pool that has no gap.                    *)
LEMMA PendingEndsPool ==
  ASSUME SenderAssumption, SenderTypes, NEW top \in Nat, mined <= top, top <= MaxNonce,
         \A n \in Nat : InPool(n) <=> mined <= n /\ n < top
  PROVE  Tx!Pending = top
<1> DEFINE Ends(n) == /\ \A m \in mined .. n - 1 : \E tx \in pool : tx.nonce = m
                      /\ \A tx \in pool : tx.nonce # n
<1>1. top \in mined .. MaxNonce /\ Ends(top)
  BY DEF SenderAssumption, SenderTypes, InPool
<1>2. ASSUME NEW n \in mined .. MaxNonce, Ends(n) PROVE n = top
  <2>1. n \in Nat /\ mined \in Nat
    BY DEF SenderTypes
  <2>2. ~ (mined <= n /\ n < top)
    BY <1>2, <2>1 DEF InPool
  <2>3. ~ (top < n)
    <3> SUFFICES ASSUME top < n PROVE FALSE
      OBVIOUS
    <3>1. top \in mined .. n - 1
      BY <2>1
    <3>2. InPool(top)
      BY <1>2, <3>1 DEF InPool
    <3> QED
      BY <3>2
  <2> QED
    BY <2>1, <2>2, <2>3
<1>3. Tx!Pending = CHOOSE n \in mined .. MaxNonce : Ends(n)
  BY DEF Tx!Pending
<1> QED
  BY <1>1, <1>2, <1>3

LEMMA SenderTypesStep ==
  ASSUME SenderAssumption, NoncesInOrder, [Tx!Next]_Tx!vars
  PROVE  SenderTypes'
<1> SenderTypes
  BY DEF NoncesInOrder
<1> USE DEF SenderTypes
<1>1. ASSUME NEW p \in Senders, NEW c \in Calls, Tx!Write(p, c) PROVE SenderTypes'
  <2>1. ASSUME NEW place \in Tx!Places, writeAt' = [writeAt EXCEPT ![p][c] = place]
        PROVE  writeAt' \in [Senders -> [Calls -> Tx!Places]]
    BY <2>1
  <2>2. CASE Tx!Checks(p, c)
    BY <2>1, <2>2 DEF Tx!Checks, Tx!Moves, Tx!Places
  <2>3. CASE Tx!CheckFails(p, c)
    BY <2>1, <2>3 DEF Tx!CheckFails, Tx!Moves, Tx!Places
  <2>4. CASE Tx!Reserve(p, c)
    BY <2>1, <2>4 DEF Tx!Reserve, Tx!Moves, Tx!Places
  <2>5. CASE Tx!Broadcast(p, c)
    <3>1. Tx!NonceOf(p, c) \in Nat
      BY <2>5 DEF Tx!Broadcast, Tx!NonceOf
    <3> QED
      BY <2>1, <2>5, <3>1 DEF Tx!Broadcast, Tx!Moves, Tx!Places
  <2>6. CASE Tx!SendFails(p, c)
    BY <2>1, <2>6 DEF Tx!SendFails, Tx!Forget, Tx!Places
  <2> QED
    BY <1>1, <2>2, <2>3, <2>4, <2>5, <2>6 DEF Tx!Write
<1>2. ASSUME NEW p \in Senders, Tx!ReadCount(p) PROVE SenderTypes'
  <2>1. PICK top \in Nat : /\ mined <= top /\ top <= MaxNonce
                            /\ \A n \in Nat : InPool(n) <=> mined <= n /\ n < top
    BY <1>2 DEF Tx!ReadCount, NoncesInOrder, CountUnread
  <2>2. Tx!Pending \in Nat
    BY <2>1, PendingEndsPool
  <2> QED
    BY <1>2, <2>2 DEF Tx!ReadCount
<1>3. ASSUME NEW p \in Senders, Tx!Restart(p) PROVE SenderTypes'
  BY <1>3 DEF Tx!Restart, Tx!Places
<1>4. ASSUME NEW tx \in pool, Tx!Mine(tx) PROVE SenderTypes'
  <2>1. tx.proc \in Senders /\ tx.call \in Calls
    OBVIOUS
  <2>2. CASE Tx!Awaited(tx)
    <3>1. /\ writeAt' = [writeAt EXCEPT ![tx.proc][tx.call] = "idle"]
          /\ offset' = [offset EXCEPT ![tx.proc][tx.call] = 0]
      BY <1>4, <2>2 DEF Tx!Mine, Tx!Forget
    <3>2. writeAt' \in [Senders -> [Calls -> Tx!Places]] /\ offset' \in [Senders -> [Calls -> Nat]]
      BY <2>1, <3>1 DEF Tx!Places
    <3> QED
      BY <1>4, <3>2 DEF Tx!Mine
  <2>3. CASE ~Tx!Awaited(tx)
    BY <1>4, <2>1, <2>3 DEF Tx!Mine
  <2> QED
    BY <2>2, <2>3
<1>5. CASE UNCHANGED Tx!vars
  BY <1>5 DEF Tx!vars
<1> QED
  BY <1>1, <1>2, <1>3, <1>4, <1>5 DEF Tx!Next

(* Steps that leave the reservations, the pool and the count alone.         *)
LEMMA SameReservations ==
  ASSUME NoncesInOrder, UNCHANGED <<mined, pool, countRead, reserved>>, SenderTypes',
         \A p \in Senders, c \in Calls :
           /\ Holds(p, c)' <=> Holds(p, c)
           /\ Holds(p, c) => offset'[p][c] = offset[p][c]
  PROVE  NoncesInOrder'
<1>1. PoolIsOrdered'
  BY DEF NoncesInOrder, PoolIsOrdered
<1>2. ASSUME NEW p \in Senders PROVE CountKnown(p)' /\ CountUnread(p)' /\ CountRejected(p)'
  <2>1. CountKnown(p) /\ CountUnread(p) /\ CountRejected(p)
    BY DEF NoncesInOrder
  <2>2. CountKnown(p)'
    BY <2>1 DEF CountKnown, OffsetsDiffer, InPool
  <2>3. CountUnread(p)'
    BY <2>1 DEF CountUnread, OffsetsDiffer, InPool
  <2>4. CountRejected(p)'
    BY <2>1 DEF CountRejected
  <2> QED
    BY <2>2, <2>3, <2>4
<1> QED
  BY <1>1, <1>2 DEF NoncesInOrder

(* A call reserves the next offset.                                         *)
LEMMA ReserveStep ==
  ASSUME SenderAssumption, NoncesInOrder, SenderTypes', NEW p \in Senders, NEW c \in Calls,
         Tx!Reserve(p, c)
  PROVE  NoncesInOrder'
<1>1. /\ UNCHANGED <<mined, pool, countRead, lost>>
      /\ reserved'[p] = reserved[p] + 1 /\ reserved[p] \in Nat
      /\ offset'[p][c] = reserved[p] /\ Holds(p, c)' /\ ~Holds(p, c)
      /\ \A d \in Calls : d # c => offset'[p][d] = offset[p][d] /\ (Holds(p, d)' <=> Holds(p, d))
  BY DEF Tx!Reserve, Tx!Moves, NoncesInOrder, SenderTypes, Holds
<1>2. CountKnown(p) /\ CountUnread(p) /\ CountRejected(p)
  BY DEF NoncesInOrder
<1>3. PoolIsOrdered'
  BY <1>1 DEF NoncesInOrder, PoolIsOrdered
<1>4. /\ mined \in Nat /\ \A d \in Calls : offset[p][d] \in Nat
      /\ \A tx \in pool : tx.nonce \in Nat
  BY DEF NoncesInOrder, SenderTypes
<1>5. CountKnown(p)'
  <2> SUFFICES ASSUME countRead[p] \in Nat PROVE CountKnown(p)'
    BY <1>1 DEF CountKnown
  <2>1. /\ mined <= countRead[p] + reserved[p]'
        /\ \A tx \in pool : tx.nonce < countRead[p] + reserved[p]'
    BY <1>1, <1>2, <1>4 DEF CountKnown
  <2>2. ASSUME NEW d \in Calls, Holds(p, d)'
        PROVE  /\ mined <= countRead[p] + offset'[p][d]
               /\ countRead[p] + offset'[p][d] < countRead[p] + reserved'[p]
               /\ ~InPool(countRead[p] + offset'[p][d])
    BY <1>1, <1>2, <1>4, <2>2 DEF CountKnown, InPool
  <2>3. OffsetsDiffer(p)'
    BY <1>1, <1>2, <1>4 DEF CountKnown, OffsetsDiffer
  <2>4. ASSUME NEW n \in Nat, mined <= n, n < countRead[p] + reserved'[p]
        PROVE  InPool(n) \/ \E d \in Calls : Holds(p, d)' /\ countRead[p] + offset'[p][d] = n
    BY <1>1, <1>2, <1>4, <2>4 DEF CountKnown
  <2> QED
    BY <1>1, <2>1, <2>2, <2>3, <2>4 DEF CountKnown, InPool
<1>6. CountUnread(p)'
  <2> SUFFICES ASSUME countRead[p] = Unread PROVE CountUnread(p)'
    BY <1>1 DEF CountUnread
  <2>1. \A d \in Calls : Holds(p, d)' => offset'[p][d] < reserved'[p]
    BY <1>1, <1>2, <1>4 DEF CountUnread
  <2>2. OffsetsDiffer(p)'
    BY <1>1, <1>2, <1>4 DEF CountUnread, OffsetsDiffer
  <2>3. ASSUME NEW k \in Nat, k < reserved'[p]
        PROVE  \E d \in Calls : Holds(p, d)' /\ offset'[p][d] = k
    BY <1>1, <1>2, <1>4, <2>3 DEF CountUnread
  <2> QED
    BY <1>1, <1>2, <2>1, <2>2, <2>3 DEF CountUnread, InPool
<1>7. CountRejected(p)'
  BY <1>1 DEF CountRejected
<1> QED
  BY <1>3, <1>5, <1>6, <1>7 DEF NoncesInOrder, SenderAssumption

(* A reserved nonce goes into the pool.                                     *)
LEMMA BroadcastStep ==
  ASSUME SenderAssumption, NoncesInOrder, SenderTypes', NEW p \in Senders, NEW c \in Calls,
         Tx!Broadcast(p, c)
  PROVE  NoncesInOrder'
<1> DEFINE n0 == countRead[p] + offset[p][c]
<1>1. /\ UNCHANGED <<mined, countRead, reserved, offset, lost>>
      /\ countRead[p] \in Nat /\ n0 \in Nat /\ n0 < MaxNonce
      /\ pool' = pool \union {[nonce |-> n0, proc |-> p, call |-> c]}
      /\ Holds(p, c) /\ ~Holds(p, c)'
      /\ \A d \in Calls : d # c => (Holds(p, d)' <=> Holds(p, d))
  BY DEF Tx!Broadcast, Tx!Moves, Tx!NonceOf, NoncesInOrder, SenderTypes, Holds
<1>2. CountKnown(p) /\ PoolIsOrdered
  BY DEF NoncesInOrder
<1>3. /\ mined \in Nat /\ \A d \in Calls : offset[p][d] \in Nat
      /\ \A tx \in pool : tx.nonce \in Nat
  BY DEF NoncesInOrder, SenderTypes
<1>4. mined <= n0 /\ n0 < countRead[p] + reserved[p] /\ ~InPool(n0)
  BY <1>1, <1>2 DEF CountKnown
<1>5. ASSUME NEW n \in Nat PROVE InPool(n)' <=> InPool(n) \/ n = n0
  <2>1. [nonce |-> n0, proc |-> p, call |-> c].nonce = n0
    OBVIOUS
  <2> HIDE DEF n0
  <2> QED
    BY <1>1, <2>1, Zenon DEF InPool
<1> HIDE DEF n0
<1>6. PoolIsOrdered'
  BY <1>1, <1>2, <1>4 DEF PoolIsOrdered, InPool
<1>7. CountKnown(p)'
  <2>1. \A tx \in pool' : tx.nonce < countRead[p] + reserved[p]
    BY <1>1, <1>2, <1>4 DEF CountKnown
  <2>2. ASSUME NEW d \in Calls, Holds(p, d)'
        PROVE  /\ mined <= countRead[p] + offset[p][d]
               /\ countRead[p] + offset[p][d] < countRead[p] + reserved[p]
               /\ ~InPool(countRead[p] + offset[p][d])'
    <3>1. d # c /\ Holds(p, d) /\ offset[p][d] # offset[p][c]
      BY <1>1, <1>2, <2>2 DEF CountKnown, OffsetsDiffer
    <3>2. countRead[p] + offset[p][d] # n0
      BY <1>1, <1>3, <3>1 DEF n0
    <3> QED
      BY <1>1, <1>2, <1>3, <1>5, <3>1, <3>2 DEF CountKnown
  <2>3. OffsetsDiffer(p)'
    BY <1>1, <1>2 DEF CountKnown, OffsetsDiffer
  <2>4. ASSUME NEW n \in Nat, mined <= n, n < countRead[p] + reserved[p]
        PROVE  InPool(n)' \/ \E d \in Calls : Holds(p, d)' /\ countRead[p] + offset[p][d] = n
    BY <1>1, <1>2, <1>5, <2>4 DEF CountKnown, n0
  <2> QED
    BY <1>1, <1>2, <2>1, <2>2, <2>3, <2>4 DEF CountKnown
<1>8. CountUnread(p)' /\ CountRejected(p)'
  BY <1>1 DEF CountUnread, CountRejected, SenderAssumption
<1> QED
  BY <1>6, <1>7, <1>8 DEF NoncesInOrder, SenderAssumption

(* The count is read, or the read fails for good.                           *)
LEMMA ReadCountStep ==
  ASSUME SenderAssumption, NoncesInOrder, SenderTypes', NEW p \in Senders, Tx!ReadCount(p)
  PROVE  NoncesInOrder'
<1>1. /\ UNCHANGED <<mined, pool, reserved, writeAt, offset, lost>>
      /\ countRead[p] = Unread /\ \E c \in Calls : Holds(p, c)
      /\ countRead'[p] \in {Tx!Pending, Rejected}
  BY DEF Tx!ReadCount, NoncesInOrder, SenderTypes, Holds
<1>2. CountUnread(p) /\ PoolIsOrdered
  BY DEF NoncesInOrder
<1>3. PICK top \in Nat : /\ mined <= top /\ top <= MaxNonce
                         /\ \A n \in Nat : InPool(n) <=> mined <= n /\ n < top
  BY <1>1, <1>2 DEF CountUnread
<1>4. countRead'[p] = top \/ countRead'[p] = Rejected
  BY <1>1, <1>3, PendingEndsPool DEF NoncesInOrder
<1>5. /\ mined \in Nat /\ \A d \in Calls : offset[p][d] \in Nat
      /\ reserved[p] \in Nat /\ \A tx \in pool : tx.nonce \in Nat
  BY DEF NoncesInOrder, SenderTypes
<1>6. CountKnown(p)'
  <2> SUFFICES ASSUME countRead'[p] = top PROVE CountKnown(p)'
    BY <1>4 DEF CountKnown, SenderAssumption
  <2>1. \A tx \in pool : tx.nonce < top + reserved[p]
    BY <1>3, <1>5 DEF InPool
  <2>2. \A d \in Calls : Holds(p, d) =>
          /\ mined <= top + offset[p][d]
          /\ top + offset[p][d] < top + reserved[p]
          /\ ~InPool(top + offset[p][d])
    BY <1>1, <1>2, <1>3, <1>5 DEF CountUnread
  <2>3. ASSUME NEW n \in Nat, mined <= n, n < top + reserved[p]
        PROVE  InPool(n) \/ \E d \in Calls : Holds(p, d) /\ top + offset[p][d] = n
    <3>1. CASE n < top
      BY <1>3, <2>3, <3>1
    <3>2. CASE ~(n < top)
      <4>1. n - top \in Nat /\ n - top < reserved[p]
        BY <1>5, <2>3, <3>2
      <4>2. PICK d \in Calls : Holds(p, d) /\ offset[p][d] = n - top
        BY <1>1, <1>2, <4>1 DEF CountUnread
      <4> QED
        BY <4>2
    <3> QED
      BY <3>1, <3>2
  <2>4. mined <= top + reserved[p] /\ OffsetsDiffer(p)
    BY <1>1, <1>2, <1>3, <1>5 DEF CountUnread
  <2> QED
    BY <1>1, <2>1, <2>2, <2>3, <2>4 DEF CountKnown, InPool, OffsetsDiffer, Holds
<1>7. CountUnread(p)' /\ CountRejected(p)'
  BY <1>1, <1>4 DEF CountUnread, CountRejected, SenderAssumption, Holds
<1>8. PoolIsOrdered'
  BY <1>1, <1>2 DEF PoolIsOrdered
<1> QED
  BY <1>6, <1>7, <1>8 DEF NoncesInOrder, SenderAssumption

(* The chain takes the lowest nonce of the pool.                            *)
LEMMA MineStep ==
  ASSUME SenderAssumption, NoncesInOrder, SenderTypes', NEW tx \in pool, Tx!Mine(tx)
  PROVE  NoncesInOrder'
<1>1. /\ UNCHANGED <<countRead, reserved, lost>>
      /\ tx.nonce = mined /\ mined' = mined + 1 /\ pool' = pool \ {tx}
      /\ tx.proc \in Senders /\ tx.call \in Calls
  BY DEF Tx!Mine, NoncesInOrder, SenderTypes
<1>2. /\ PoolIsOrdered /\ MaxNonce \in Nat /\ mined \in Nat
      /\ \A t \in pool : t.nonce \in Nat
      /\ \A q \in Senders, d \in Calls : offset[q][d] \in Nat
      /\ \A q \in Senders : reserved[q] \in Nat
  BY DEF NoncesInOrder, SenderTypes, SenderAssumption
<1>3. ASSUME NEW q \in Senders, NEW d \in Calls
      PROVE  /\ Holds(q, d)' <=> Holds(q, d)
             /\ Holds(q, d) => offset'[q][d] = offset[q][d]
  <2>1. CASE Tx!Awaited(tx)
    <3>1. /\ writeAt' = [writeAt EXCEPT ![tx.proc][tx.call] = "idle"]
          /\ offset' = [offset EXCEPT ![tx.proc][tx.call] = 0]
          /\ writeAt[tx.proc][tx.call] = "sent"
      BY <2>1 DEF Tx!Mine, Tx!Forget, Tx!Awaited
    <3> QED
      BY <1>1, <3>1 DEF NoncesInOrder, SenderTypes, Holds
  <2>2. CASE ~Tx!Awaited(tx)
    BY <2>2 DEF Tx!Mine, Holds
  <2> QED
    BY <2>1, <2>2
<1>4. ASSUME NEW n \in Nat PROVE InPool(n)' <=> InPool(n) /\ n # mined
  BY <1>1, <1>2 DEF InPool, PoolIsOrdered
<1>5. PoolIsOrdered'
  BY <1>1, <1>2 DEF PoolIsOrdered
<1>6. ASSUME NEW p \in Senders PROVE CountKnown(p)' /\ CountUnread(p)' /\ CountRejected(p)'
  <2>1. CountKnown(p) /\ CountUnread(p) /\ CountRejected(p)
    BY DEF NoncesInOrder
  <2>2. CountKnown(p)'
    <3> SUFFICES ASSUME countRead[p] \in Nat PROVE CountKnown(p)'
      BY <1>1 DEF CountKnown
    <3>1. /\ mined + 1 <= countRead[p] + reserved[p]
          /\ \A t \in pool' : t.nonce < countRead[p] + reserved[p]
      BY <1>1, <1>2, <2>1 DEF CountKnown
    <3>2. ASSUME NEW d \in Calls, Holds(p, d)'
          PROVE  /\ mined + 1 <= countRead[p] + offset'[p][d]
                 /\ countRead[p] + offset'[p][d] < countRead[p] + reserved[p]
                 /\ \A t \in pool' : t.nonce # countRead[p] + offset'[p][d]
      <4>1. /\ Holds(p, d) /\ offset'[p][d] = offset[p][d]
            /\ countRead[p] + offset[p][d] \in Nat
        BY <1>2, <1>3, <3>2
      <4>2. InPool(mined)
        BY <1>1 DEF InPool
      <4>3. countRead[p] + offset[p][d] # mined
        BY <2>1, <4>1, <4>2 DEF CountKnown
      <4>4. \A t \in pool : t.nonce # countRead[p] + offset[p][d]
        BY <2>1, <4>1 DEF CountKnown, InPool
      <4> QED
        BY <1>1, <1>2, <2>1, <4>1, <4>3, <4>4 DEF CountKnown
    <3>3. OffsetsDiffer(p)'
      BY <1>3, <2>1 DEF CountKnown, OffsetsDiffer
    <3>4. ASSUME NEW n \in Nat, mined + 1 <= n, n < countRead[p] + reserved[p]
          PROVE  InPool(n)' \/ \E d \in Calls : Holds(p, d)' /\ countRead[p] + offset'[p][d] = n
      <4>1. mined <= n /\ n # mined
        BY <1>2, <3>4
      <4>2. InPool(n) \/ \E d \in Calls : Holds(p, d) /\ countRead[p] + offset[p][d] = n
        BY <2>1, <3>4, <4>1 DEF CountKnown
      <4> QED
        BY <1>3, <1>4, <4>1, <4>2
    <3> QED
      BY <1>1, <3>1, <3>2, <3>3, <3>4 DEF CountKnown, InPool
  <2>3. CountUnread(p)'
    <3> SUFFICES ASSUME countRead[p] = Unread PROVE CountUnread(p)'
      BY <1>1 DEF CountUnread
    <3>1. /\ \A d \in Calls : Holds(p, d)' => offset'[p][d] < reserved[p]
          /\ OffsetsDiffer(p)'
          /\ \A k \in Nat : k < reserved[p] => \E d \in Calls : Holds(p, d)' /\ offset'[p][d] = k
      BY <1>3, <2>1 DEF CountUnread, OffsetsDiffer
    <3>2. PICK top \in Nat : /\ mined <= top /\ top <= MaxNonce
                             /\ \A n \in Nat : InPool(n) <=> mined <= n /\ n < top
      BY <2>1 DEF CountUnread
    <3>3. mined < top
      BY <1>1, <1>2, <3>2 DEF InPool
    <3>4. \A n \in Nat : InPool(n)' <=> mined + 1 <= n /\ n < top
      BY <1>2, <1>4, <3>2
    <3> QED
      BY <1>1, <1>2, <3>1, <3>2, <3>3, <3>4 DEF CountUnread
  <2>4. CountRejected(p)'
    BY <1>1, <1>3, <2>1 DEF CountRejected
  <2> QED
    BY <2>2, <2>3, <2>4
<1> QED
  BY <1>5, <1>6 DEF NoncesInOrder

(* A new process: what the old one sent stays, in order.                    *)
LEMMA RestartStep ==
  ASSUME SenderAssumption, NoncesInOrder, SenderTypes', NEW p \in Senders, Tx!Restart(p), ~lost'
  PROVE  NoncesInOrder'
<1>1. /\ UNCHANGED <<mined, pool>>
      /\ countRead'[p] = Unread /\ reserved'[p] = 0
      /\ \A c \in Calls : ~Holds(p, c) /\ ~Holds(p, c)'
  BY DEF Tx!Restart, NoncesInOrder, SenderTypes, Holds
<1>2. /\ CountKnown(p) /\ CountUnread(p) /\ CountRejected(p) /\ PoolIsOrdered
      /\ countRead[p] \in Nat \/ countRead[p] = Unread
  BY <1>1 DEF NoncesInOrder, SenderTypes, CountRejected
<1>3. /\ MaxNonce \in Nat /\ mined \in Nat /\ reserved[p] \in Nat
      /\ \A tx \in pool : tx.nonce \in Nat
  BY DEF NoncesInOrder, SenderTypes, SenderAssumption
<1>4. \E top \in Nat : /\ mined <= top /\ top <= MaxNonce
                       /\ \A n \in Nat : InPool(n) <=> mined <= n /\ n < top
  <2>1. CASE countRead[p] = Unread
    BY <1>2, <2>1 DEF CountUnread
  <2>2. CASE countRead[p] \in Nat
    <3> DEFINE end == countRead[p] + reserved[p]
    <3>1. end \in Nat /\ mined <= end
      BY <1>2, <1>3, <2>2 DEF CountKnown
    <3>2. \A n \in Nat : mined <= n /\ n < end => InPool(n)
      BY <1>1, <1>2, <2>2 DEF CountKnown
    <3>3. \A n \in Nat : InPool(n) => mined <= n /\ n < end
      BY <1>2, <2>2 DEF CountKnown, InPool, PoolIsOrdered
    <3>4. end <= MaxNonce
      <4>1. CASE mined = end
        BY <1>2, <4>1 DEF PoolIsOrdered
      <4>2. CASE mined < end
        <5>1. end - 1 \in Nat /\ mined <= end - 1 /\ end - 1 < end
          BY <1>3, <3>1, <4>2
        <5>2. PICK tx \in pool : tx.nonce = end - 1
          BY <3>2, <5>1 DEF InPool
        <5> QED
          BY <1>2, <1>3, <3>1, <5>2 DEF PoolIsOrdered
      <4> QED
        BY <1>3, <3>1, <4>1, <4>2
    <3> HIDE DEF end
    <3> QED
      BY <3>1, <3>2, <3>3, <3>4
  <2> QED
    BY <1>2, <2>1, <2>2
<1>5. CountUnread(p)'
  BY <1>1, <1>4 DEF CountUnread, OffsetsDiffer, InPool
<1>6. CountKnown(p)' /\ CountRejected(p)' /\ PoolIsOrdered'
  BY <1>1, <1>2 DEF CountKnown, CountRejected, PoolIsOrdered, SenderAssumption
<1> QED
  BY <1>5, <1>6 DEF NoncesInOrder, SenderAssumption

LEMMA SenderStep ==
  ASSUME SenderAssumption, SenderInv, [Tx!Next]_Tx!vars
  PROVE  SenderInv'
<1>1. lost => lost'
  BY DEF Tx!Next, Tx!Write, Tx!Checks, Tx!CheckFails, Tx!Reserve, Tx!Broadcast, Tx!SendFails,
         Tx!ReadCount, Tx!Restart, Tx!Mine, Tx!vars
<1> SUFFICES ASSUME ~lost, ~lost' PROVE NoncesInOrder'
  BY <1>1 DEF SenderInv
<1>2. NoncesInOrder /\ SenderTypes'
  BY SenderTypesStep DEF SenderInv
<1>3. ASSUME NEW p \in Senders, NEW c \in Calls, Tx!Write(p, c) PROVE NoncesInOrder'
  <2>1. CASE Tx!Checks(p, c) \/ Tx!CheckFails(p, c)
    <3>1. \A q \in Senders, d \in Calls : Holds(q, d)' <=> Holds(q, d)
      BY <1>2, <2>1 DEF Tx!Checks, Tx!CheckFails, Tx!Moves, Holds, NoncesInOrder, SenderTypes
    <3> QED
      BY <1>2, <2>1, <3>1, SameReservations DEF Tx!Checks, Tx!CheckFails
  <2>2. CASE Tx!Reserve(p, c)
    BY <1>2, <2>2, ReserveStep
  <2>3. CASE Tx!Broadcast(p, c)
    BY <1>2, <2>3, BroadcastStep
  <2>4. CASE Tx!SendFails(p, c)
    BY <2>4 DEF Tx!SendFails
  <2> QED
    BY <1>3, <2>1, <2>2, <2>3, <2>4 DEF Tx!Write
<1>4. ASSUME NEW p \in Senders, Tx!ReadCount(p) PROVE NoncesInOrder'
  BY <1>2, <1>4, ReadCountStep
<1>5. ASSUME NEW p \in Senders, Tx!Restart(p) PROVE NoncesInOrder'
  BY <1>2, <1>5, RestartStep
<1>6. ASSUME NEW tx \in pool, Tx!Mine(tx) PROVE NoncesInOrder'
  BY <1>2, <1>6, MineStep
<1>7. CASE UNCHANGED Tx!vars
  BY <1>2, <1>7, SameReservations DEF Tx!vars, Holds
<1> QED
  BY <1>3, <1>4, <1>5, <1>6, <1>7 DEF Tx!Next

(* NoncesFit counts with the Cardinality of its instance.                    *)
LEMMA SenderCardinality ==
  ASSUME NEW S PROVE Tx!Cardinality(S) = Cardinality(S)
BY DEF Tx!Cardinality, Cardinality

LEMMA NoncesFitFollows == ASSUME SenderAssumption, SenderInv PROVE Tx!NoncesFit
<1> SUFFICES ASSUME NoncesInOrder, NEW p \in Senders, countRead[p] \notin {Unread, Rejected}
             PROVE  /\ \A c \in Tx!ReservedBy(p) : ~Tx!Taken(Tx!NonceOf(p, c))
                    /\ Tx!Cardinality({Tx!NonceOf(p, c) : c \in Tx!ReservedBy(p)})
                         = Tx!Cardinality(Tx!ReservedBy(p))
                    /\ \A tx \in pool : \A n \in mined .. tx.nonce :
                         Tx!Taken(n) \/ \E c \in Tx!ReservedBy(p) : Tx!NonceOf(p, c) = n
  BY DEF SenderInv, Tx!NoncesFit
<1>1. /\ CountKnown(p) /\ PoolIsOrdered /\ countRead[p] \in Nat /\ mined \in Nat
      /\ \A c \in Calls : offset[p][c] \in Nat
      /\ \A tx \in pool : tx.nonce \in Nat
      /\ reserved[p] \in Nat
  BY DEF NoncesInOrder, SenderTypes
<1>2. \A c \in Tx!ReservedBy(p) : ~Tx!Taken(Tx!NonceOf(p, c))
  BY <1>1 DEF CountKnown, Tx!ReservedBy, Tx!Taken, Tx!NonceOf, InPool, Holds
<1>3. \A tx \in pool : \A n \in mined .. tx.nonce :
        Tx!Taken(n) \/ \E c \in Tx!ReservedBy(p) : Tx!NonceOf(p, c) = n
  <2> SUFFICES ASSUME NEW tx \in pool, NEW n \in mined .. tx.nonce
               PROVE  Tx!Taken(n) \/ \E c \in Tx!ReservedBy(p) : Tx!NonceOf(p, c) = n
    OBVIOUS
  <2>1. n \in Nat /\ mined <= n /\ n < countRead[p] + reserved[p]
    BY <1>1 DEF CountKnown
  <2> QED
    BY <1>1, <2>1 DEF CountKnown, Tx!ReservedBy, Tx!Taken, Tx!NonceOf, InPool, Holds
<1>4. Tx!Cardinality({Tx!NonceOf(p, c) : c \in Tx!ReservedBy(p)}) = Tx!Cardinality(Tx!ReservedBy(p))
  <2> DEFINE R == Tx!ReservedBy(p)
             N == {Tx!NonceOf(p, c) : c \in R}
             f == [c \in R |-> Tx!NonceOf(p, c)]
  <2>1. IsFiniteSet(R)
    BY FS_Subset DEF SenderAssumption, Tx!ReservedBy
  <2>2. f \in Bijection(R, N)
    <3>1. \A c, d \in R : Tx!NonceOf(p, c) = Tx!NonceOf(p, d) => c = d
      BY <1>1 DEF CountKnown, OffsetsDiffer, Tx!ReservedBy, Tx!NonceOf, Holds
    <3> QED
      BY <3>1 DEF Bijection, Injection, Surjection, IsInjective
  <2>3. Cardinality(R) = Cardinality(N)
    <3> HIDE DEF R, N, f
    <3> QED
      BY <2>1, <2>2, FS_Bijection DEF ExistsBijection
  <2> QED
    BY <2>3, SenderCardinality
<1> QED
  BY <1>2, <1>3, <1>4

(* The transactions of one process get along, however its calls overlap and *)
(* wherever it is restarted, until a reserved nonce is lost.                *)
THEOREM NoncesGetAlong == ASSUME SenderAssumption PROVE Tx!Spec => []Tx!NoncesFit
<1>1. Tx!Init => SenderInv
  BY SenderInit
<1>2. SenderInv /\ [Tx!Next]_Tx!vars => SenderInv'
  BY SenderStep
<1>3. SenderInv => Tx!NoncesFit
  BY NoncesFitFollows
<1> QED
  BY <1>1, <1>2, <1>3, PTL DEF Tx!Spec

(* The types hold also when a nonce was lost and the pool has gaps.          *)
TxTypes == Tx!TypeOK /\ IsFiniteSet(pool)

LEMMA PendingInRange ==
  ASSUME SenderAssumption, TxTypes
  PROVE  Tx!Pending \in 0 .. MaxNonce
<1> DEFINE Free == {n \in Nat : mined <= n /\ ~InPool(n)}
<1>1. MaxNonce \in Nat /\ mined \in Nat /\ mined <= MaxNonce
  BY DEF SenderAssumption, TxTypes, Tx!TypeOK
<1>2. MaxNonce \in Free
  BY <1>1 DEF InPool, TxTypes, Tx!TypeOK
<1>3. PICK n \in Free : \A k \in Free : n <= k
  <2>1. Free \subseteq Nat
    OBVIOUS
  <2> HIDE DEF Free
  <2>2. PICK n \in Free : \A k \in Free : ~(<<k, n>> \in OpToRel(<, Nat))
    BY <1>2, <2>1, NatLessThanWellFounded, WFMin
  <2>3. \A k \in Free : ~(k < n)
    BY <2>1, <2>2 DEF OpToRel
  <2>4. \A k \in Free : k \in Nat /\ n \in Nat
    BY <2>1
  <2> QED
    BY <2>3, <2>4
<1>4. n \in mined .. MaxNonce
  BY <1>1, <1>2, <1>3
<1>5. \A m \in mined .. n - 1 : \E tx \in pool : tx.nonce = m
  <2> SUFFICES ASSUME NEW m \in mined .. n - 1 PROVE InPool(m)
    BY DEF InPool
  <2>1. m \in Nat /\ mined <= m /\ ~(n <= m)
    BY <1>1, <1>3
  <2> QED
    BY <1>3, <2>1
<1>6. \A tx \in pool : tx.nonce # n
  BY <1>3 DEF InPool
<1>7. Tx!Pending \in mined .. MaxNonce
  <2> HIDE DEF Free
  <2> QED
    BY <1>4, <1>5, <1>6 DEF Tx!Pending
<1> QED
  BY <1>1, <1>7

LEMMA TxTypesInit == ASSUME SenderAssumption, Tx!Init PROVE TxTypes
<1>1. 0 \in 0 .. MaxNonce /\ 0 \in 0 .. 2 * MaxNonce
  BY DEF SenderAssumption
<1> QED
  BY <1>1, FS_EmptySet DEF Tx!Init, TxTypes, Tx!TypeOK, Tx!Places

LEMMA TxTypesStep == ASSUME SenderAssumption, TxTypes, [Tx!Next]_Tx!vars PROVE TxTypes'
<1> USE DEF TxTypes, Tx!TypeOK
<1>0. MaxNonce \in Nat /\ 0 \in 0 .. 2 * MaxNonce /\ mined \in Nat /\ mined <= MaxNonce
  BY DEF SenderAssumption
<1>1. ASSUME NEW p \in Senders, NEW c \in Calls, Tx!Write(p, c) PROVE TxTypes'
  <2>1. ASSUME NEW place \in Tx!Places, writeAt' = [writeAt EXCEPT ![p][c] = place]
        PROVE  writeAt' \in [Senders -> [Calls -> Tx!Places]]
    BY <2>1
  <2>2. CASE Tx!Checks(p, c)
    BY <2>1, <2>2 DEF Tx!Checks, Tx!Moves, Tx!Places
  <2>3. CASE Tx!CheckFails(p, c)
    BY <2>1, <2>3 DEF Tx!CheckFails, Tx!Moves, Tx!Places
  <2>4. CASE Tx!Reserve(p, c)
    <3>1. Cardinality(pool) \in Nat
      BY FS_CardinalityType
    <3>2. mined + Cardinality(pool) + reserved[p] < MaxNonce
      BY <2>4, SenderCardinality DEF Tx!Reserve
    <3>3. reserved[p] \in Nat
      OBVIOUS
    <3>4. reserved[p] + 1 \in 0 .. 2 * MaxNonce
      BY <1>0, <3>1, <3>2, <3>3
    <3>5. reserved' \in [Senders -> 0 .. 2 * MaxNonce]
      BY <2>4, <3>4 DEF Tx!Reserve
    <3>6. offset' \in [Senders -> [Calls -> 0 .. 2 * MaxNonce]]
      BY <2>4 DEF Tx!Reserve
    <3> QED
      BY <2>1, <2>4, <3>5, <3>6 DEF Tx!Reserve, Tx!Moves, Tx!Places
  <2>5. CASE Tx!Broadcast(p, c)
    <3> DEFINE new == [nonce |-> Tx!NonceOf(p, c), proc |-> p, call |-> c]
    <3>1. countRead[p] \in Nat /\ offset[p][c] \in Nat
      BY <2>5 DEF Tx!Broadcast
    <3>2. Tx!NonceOf(p, c) \in 0 .. MaxNonce - 1
      BY <1>0, <2>5, <3>1 DEF Tx!Broadcast, Tx!NonceOf
    <3>3. pool' = pool \union {new} /\ new \in [nonce : 0 .. MaxNonce - 1, proc : Senders, call : Calls]
      BY <2>5, <3>2 DEF Tx!Broadcast
    <3>4. IsFiniteSet(pool')
      BY <3>3, FS_AddElement
    <3> HIDE DEF new
    <3> QED
      BY <2>1, <2>5, <3>3, <3>4 DEF Tx!Broadcast, Tx!Moves, Tx!Places
  <2>6. CASE Tx!SendFails(p, c)
    <3>1. offset' \in [Senders -> [Calls -> 0 .. 2 * MaxNonce]]
      BY <1>0, <2>6 DEF Tx!SendFails, Tx!Forget
    <3> QED
      BY <2>1, <2>6, <3>1 DEF Tx!SendFails, Tx!Forget, Tx!Places
  <2> QED
    BY <1>1, <2>2, <2>3, <2>4, <2>5, <2>6 DEF Tx!Write
<1>2. ASSUME NEW p \in Senders, Tx!ReadCount(p) PROVE TxTypes'
  <2>1. countRead' \in [Senders -> (0 .. MaxNonce) \union {Unread, Rejected}]
    BY <1>2, PendingInRange DEF Tx!ReadCount
  <2> QED
    BY <1>2, <2>1 DEF Tx!ReadCount
<1>3. ASSUME NEW p \in Senders, Tx!Restart(p) PROVE TxTypes'
  <2>1. lost' \in BOOLEAN
    BY <1>3 DEF Tx!Restart
  <2> QED
    BY <1>0, <1>3, <2>1 DEF Tx!Restart, Tx!Places
<1>4. ASSUME NEW tx \in pool, Tx!Mine(tx) PROVE TxTypes'
  <2>1. tx.proc \in Senders /\ tx.call \in Calls /\ tx.nonce \in 0 .. MaxNonce - 1
    OBVIOUS
  <2>2. mined' \in 0 .. MaxNonce
    BY <1>0, <1>4, <2>1 DEF Tx!Mine
  <2>3. pool' \subseteq pool /\ IsFiniteSet(pool')
    BY <1>4, FS_RemoveElement DEF Tx!Mine
  <2>4. /\ writeAt' \in [Senders -> [Calls -> Tx!Places]]
        /\ offset' \in [Senders -> [Calls -> 0 .. 2 * MaxNonce]]
    <3>1. CASE Tx!Awaited(tx)
      <4>1. /\ writeAt' = [writeAt EXCEPT ![tx.proc][tx.call] = "idle"]
            /\ offset' = [offset EXCEPT ![tx.proc][tx.call] = 0]
        BY <1>4, <3>1 DEF Tx!Mine, Tx!Forget
      <4> QED
        BY <1>0, <2>1, <4>1 DEF Tx!Places
    <3>2. CASE ~Tx!Awaited(tx)
      BY <1>4, <3>2 DEF Tx!Mine
    <3> QED
      BY <3>1, <3>2
  <2> QED
    BY <1>4, <2>2, <2>3, <2>4 DEF Tx!Mine
<1>5. CASE UNCHANGED Tx!vars
  BY <1>5 DEF Tx!vars
<1> QED
  BY <1>1, <1>2, <1>3, <1>4, <1>5 DEF Tx!Next

-----------------------------------------------------------------------------
(* MinterFunds: the floor under the balance, the warning, the dashboard.   *)

FundsAssumption ==
  /\ IsFiniteSet(Writes)
  /\ Floor \in Nat /\ FeeCap \in Nat /\ TipCap \in Nat
  /\ MaxFee \in Nat \ {0} /\ MaxBalance \in Nat /\ Cooldown \in Nat \ {0}

\* The most one write pays for.
Ceiling == Fund!Most(FeeCap, TipCap)

FundsInv ==
  /\ Fund!TypeOK
  /\ \A w \in Writes : offer[w].maxFee <= Ceiling
  /\ Fund!FloorHolds
  /\ Fund!LowIsWarned

LEMMA CeilingType == ASSUME FundsAssumption PROVE Ceiling \in Nat
BY DEF FundsAssumption, Ceiling, Fund!Most

LEMMA OfferWithinCeiling ==
  ASSUME FundsAssumption, NEW x \in Nat, NEW y \in 0 .. MaxFee
  PROVE  /\ Fund!Overrides(x, y) \in [maxFee : Nat, tip : 0 .. MaxFee]
         /\ Fund!Overrides(x, y).maxFee <= Ceiling
<1> DEFINE priority == Fund!Least(y, TipCap)
           maxFee == Fund!Most(Fund!Least(x * 2 + priority, FeeCap), priority)
<1>1. /\ priority \in 0 .. MaxFee /\ priority <= TipCap
      /\ maxFee \in Nat /\ maxFee <= Ceiling
  BY DEF FundsAssumption, Ceiling, Fund!Most, Fund!Least
<1>2. Fund!Overrides(x, y) = [maxFee |-> maxFee, tip |-> priority]
  BY DEF Fund!Overrides
<1> HIDE DEF maxFee, priority
<1> QED
  BY <1>1, <1>2

(* What FloorHolds counts.                                                  *)
LEMMA FundsCardinality == ASSUME NEW S PROVE Fund!Cardinality(S) = Cardinality(S)
BY DEF Fund!Cardinality, Cardinality

LEMMA UnderWayCount ==
  ASSUME FundsAssumption, NEW U \in SUBSET Writes
  PROVE  /\ IsFiniteSet(U) /\ Cardinality(U) \in Nat /\ Cardinality(Writes) \in Nat
         /\ Cardinality(U) <= Cardinality(Writes)
BY FS_Subset, FS_CardinalityType DEF FundsAssumption

LEMMA FundsInit == FundsAssumption /\ Fund!Init => FundsInv
<1> SUFFICES ASSUME FundsAssumption, Fund!Init PROVE FundsInv
  OBVIOUS
<1>1. Fund!TypeOK
  <2>1. Fund!NoOffer \in [maxFee : Nat, tip : 0 .. MaxFee]
    BY DEF FundsAssumption, Fund!NoOffer
  <2>2. Fund!NoStatus \in [balance : 0 .. MaxBalance, price : Nat]
    BY DEF FundsAssumption, Fund!NoStatus
  <2>3. offer \in [Writes -> [maxFee : Nat, tip : 0 .. MaxFee]]
    BY <2>1 DEF Fund!Init
  <2>4. balance \in 0 .. MaxBalance /\ baseFee \in 1 .. MaxFee /\ tip \in 0 .. MaxFee
    BY DEF FundsAssumption, Fund!Init
  <2>5. warned \in 0 .. Cooldown
    BY DEF FundsAssumption, Fund!Init
  <2>6. polled \in BOOLEAN
    BY Zenon DEF Fund!Init
  <2> QED
    BY <2>2, <2>3, <2>4, <2>5, <2>6 DEF Fund!Init, Fund!TypeOK
<1>2. \A w \in Writes : offer[w].maxFee <= Ceiling
  BY CeilingType DEF Fund!Init, Fund!NoOffer
<1>3. Fund!UnderWay = {}
  BY DEF Fund!Init, Fund!UnderWay
<1> QED
  BY <1>1, <1>2, <1>3 DEF FundsInv, Fund!FloorHolds, Fund!LowIsWarned, Fund!Init

(* The floor with k of n writes under way.                                  *)
FloorFor(b, k) == b + (Cardinality(Writes) - k) * Ceiling >= Floor

LEMMA FloorArithmetic ==
  ASSUME FundsAssumption, NEW b \in Nat, NEW k \in Nat, k <= Cardinality(Writes)
  PROVE  /\ b >= Floor => FloorFor(b, k)
         /\ FloorFor(b, k) => \A c \in Nat : c >= b => FloorFor(c, k)
         /\ FloorFor(b, k) /\ k > 0 => \A c \in 0 .. Ceiling : c <= b => FloorFor(b - c, k - 1)
<1> DEFINE m == Ceiling
           free == Cardinality(Writes) - k
<1>1. m \in Nat /\ Floor \in Nat /\ Cardinality(Writes) \in Nat /\ free \in Nat
  BY CeilingType, FS_CardinalityType DEF FundsAssumption
<1>2. free * m \in Nat
  BY <1>1
<1>3. k > 0 => Cardinality(Writes) - (k - 1) = free + 1
  BY <1>1
<1>4. (free + 1) * m = free * m + m
  BY <1>1
<1> HIDE DEF m, free
<1> QED
  BY <1>1, <1>2, <1>3, <1>4 DEF FloorFor, m, free

LEMMA FundsTypesStep ==
  ASSUME FundsAssumption, FundsInv, [Fund!Next]_Fund!vars
  PROVE  Fund!TypeOK' /\ \A w \in Writes : offer'[w].maxFee <= Ceiling
<1> DEFINE Offers == [maxFee : Nat, tip : 0 .. MaxFee]
           Places == {"idle", "allowed", "priced", "sent"}
           Goal == Fund!TypeOK' /\ \A w \in Writes : offer'[w].maxFee <= Ceiling
<1>0. /\ Fund!TypeOK /\ \A w \in Writes : offer[w].maxFee <= Ceiling
      /\ Fund!NoOffer \in Offers /\ Fund!NoOffer.maxFee <= Ceiling
  BY CeilingType DEF FundsInv, Fund!NoOffer, FundsAssumption
<1>1. ASSUME NEW w \in Writes, NEW place \in Places, NEW o \in Offers, o.maxFee <= Ceiling,
             payAt' = [payAt EXCEPT ![w] = place], offer' \in {offer, [offer EXCEPT ![w] = o]},
             balance' \in 0 .. MaxBalance, UNCHANGED <<baseFee, tip, warned, polled, status>>
      PROVE  Goal
  <2>1. offer' \in [Writes -> Offers] /\ \A v \in Writes : offer'[v].maxFee <= Ceiling
    BY <1>0, <1>1 DEF Fund!TypeOK
  <2>2. payAt' \in [Writes -> Places]
    BY <1>0, <1>1 DEF Fund!TypeOK
  <2> QED
    BY <1>0, <1>1, <2>1, <2>2 DEF Fund!TypeOK
<1>2. ASSUME NEW w \in Writes, Fund!Allow(w) \/ Fund!Send(w) PROVE Goal
  BY <1>0, <1>1, <1>2 DEF Fund!TypeOK, Fund!Allow, Fund!Send, Fund!funds, Fund!monitor
<1>3. ASSUME NEW w \in Writes, Fund!Price(w) PROVE Goal
  <2>1. /\ Fund!Overrides(baseFee, tip) \in Offers
        /\ Fund!Overrides(baseFee, tip).maxFee <= Ceiling
    BY <1>0, OfferWithinCeiling DEF Fund!TypeOK
  <2> QED
    BY <1>0, <1>1, <1>3, <2>1 DEF Fund!TypeOK, Fund!Price, Fund!funds, Fund!monitor
<1>4. ASSUME NEW w \in Writes, Fund!Fails(w) PROVE Goal
  BY <1>0, <1>1, <1>4 DEF Fund!TypeOK, Fund!Fails, Fund!Forget, Fund!funds, Fund!monitor
<1>5. ASSUME NEW w \in Writes, Fund!Mine(w) PROVE Goal
  <2>1. balance' \in 0 .. MaxBalance
    <3>1. Fund!Cost(w) \in Nat
      BY <1>0 DEF Fund!TypeOK, Fund!Cost, Fund!Least
    <3> QED
      BY <1>0, <1>5, <3>1 DEF Fund!TypeOK, Fund!Mine, FundsAssumption
  <2> QED
    BY <1>0, <1>1, <1>5, <2>1 DEF Fund!Mine, Fund!Forget, Fund!monitor
<1>6. ASSUME UNCHANGED <<payAt, offer>>, balance' \in 0 .. MaxBalance,
             baseFee' \in 1 .. MaxFee, tip' \in 0 .. MaxFee,
             warned' \in 0 .. Cooldown, polled' \in BOOLEAN,
             status' \in [balance : 0 .. MaxBalance, price : Nat]
      PROVE  Goal
  BY <1>0, <1>6 DEF Fund!TypeOK
<1>7. CASE Fund!Market \/ UNCHANGED Fund!vars
  BY <1>0, <1>6, <1>7 DEF Fund!TypeOK, Fund!Market, Fund!vars, Fund!funds, Fund!monitor
<1>8. CASE Fund!Refill
  BY <1>0, <1>6, <1>8 DEF Fund!TypeOK, Fund!Refill, Fund!monitor, FundsAssumption
<1>9. CASE Fund!Poll \/ Fund!PollFails
  <2>1. warned' \in 0 .. Cooldown
    BY <1>0, <1>9 DEF Fund!TypeOK, Fund!Poll, Fund!PollFails, Fund!Least, FundsAssumption
  <2>2. polled' \in BOOLEAN
    <3>1. CASE Fund!Poll
      <4>1. polled' = (balance < Fund!WarnBalance)
        BY <3>1 DEF Fund!Poll
      <4> QED
        BY <4>1
    <3>2. CASE Fund!PollFails
      BY <3>2, Zenon DEF Fund!PollFails
    <3> QED
      BY <1>9, <3>1, <3>2
  <2>3. UNCHANGED <<payAt, offer, balance, baseFee, tip, status>>
    BY <1>9 DEF Fund!Poll, Fund!PollFails, Fund!funds
  <2> QED
    BY <1>0, <1>6, <2>1, <2>2, <2>3 DEF Fund!TypeOK
<1>10. CASE Fund!ReadBalance \/ Fund!ReadPrice
  <2>1. status' \in [balance : 0 .. MaxBalance, price : Nat]
    BY <1>0, <1>10 DEF Fund!TypeOK, Fund!ReadBalance, Fund!ReadPrice, FundsAssumption
  <2> QED
    BY <1>0, <1>6, <1>10, <2>1 DEF Fund!TypeOK, Fund!ReadBalance, Fund!ReadPrice, Fund!funds, Fund!monitor
<1> HIDE DEF Goal
<1> QED
  BY <1>2, <1>3, <1>4, <1>5, <1>7, <1>8, <1>9, <1>10 DEF Fund!Next, Goal

LEMMA FloorStep ==
  ASSUME FundsAssumption, FundsInv, Fund!TypeOK', [Fund!Next]_Fund!vars
  PROVE  Fund!FloorHolds'
<1> DEFINE U == Fund!UnderWay
           k == Cardinality(U)
<1>0. /\ Fund!TypeOK /\ \A w \in Writes : offer[w].maxFee <= Ceiling
      /\ Ceiling \in Nat /\ balance \in Nat /\ balance' \in Nat
  BY CeilingType DEF FundsInv, FundsAssumption, Fund!TypeOK
<1>1. U # {} => FloorFor(balance, k)
  BY FundsCardinality DEF FundsInv, Fund!FloorHolds, FloorFor, Ceiling
<1>2. U \subseteq Writes /\ U' \subseteq Writes
  BY DEF Fund!UnderWay
<1>3. /\ IsFiniteSet(U) /\ k \in Nat /\ k <= Cardinality(Writes) /\ Cardinality(Writes) \in Nat
      /\ IsFiniteSet(U') /\ Cardinality(U') \in Nat /\ Cardinality(U') <= Cardinality(Writes)
  BY <1>2, UnderWayCount
<1> HIDE DEF U
<1>4. SUFFICES U' # {} => FloorFor(balance', Cardinality(U'))
  BY FundsCardinality DEF Fund!FloorHolds, FloorFor, Ceiling, U
<1>5. ASSUME NEW w \in Writes, Fund!Allow(w) PROVE FloorFor(balance', Cardinality(U'))
  BY <1>0, <1>3, <1>5, FloorArithmetic DEF Fund!Allow, Fund!funds
<1>6. ASSUME U' = U, balance' >= balance PROVE U' # {} => FloorFor(balance', Cardinality(U'))
  BY <1>0, <1>1, <1>3, <1>6, FloorArithmetic
<1>7. ASSUME NEW w \in Writes, Fund!Price(w) \/ Fund!Send(w)
      PROVE  U' # {} => FloorFor(balance', Cardinality(U'))
  <2>1. U' = U
    BY <1>0, <1>7 DEF U, Fund!UnderWay, Fund!Price, Fund!Send, Fund!TypeOK
  <2> QED
    BY <1>0, <1>6, <1>7, <2>1 DEF Fund!Price, Fund!Send, Fund!funds
<1>8. ASSUME NEW w \in Writes, NEW c \in 0 .. Ceiling, w \in U, U' = U \ {w}, c <= balance,
             balance' = balance - c
      PROVE  FloorFor(balance', Cardinality(U'))
  <2>1. Cardinality(U') = k - 1 /\ k > 0
    BY <1>3, <1>8, FS_RemoveElement
  <2> QED
    BY <1>0, <1>1, <1>3, <1>8, <2>1, FloorArithmetic
<1>9. ASSUME NEW w \in Writes, Fund!Fails(w) PROVE FloorFor(balance', Cardinality(U'))
  <2>1. w \in U /\ U' = U \ {w}
    BY <1>0, <1>9 DEF U, Fund!UnderWay, Fund!Fails, Fund!Forget, Fund!TypeOK
  <2> QED
    BY <1>0, <1>8, <1>9, <2>1 DEF Fund!Fails, Fund!funds
<1>10. ASSUME NEW w \in Writes, Fund!Mine(w) PROVE FloorFor(balance', Cardinality(U'))
  <2>1. w \in U /\ U' = U \ {w}
    BY <1>0, <1>10 DEF U, Fund!UnderWay, Fund!Mine, Fund!Forget, Fund!TypeOK
  <2>2. Fund!Cost(w) \in 0 .. Ceiling
    BY <1>0 DEF Fund!Cost, Fund!Least, Fund!TypeOK
  <2> QED
    BY <1>8, <1>10, <2>1, <2>2 DEF Fund!Mine
<1>11. CASE UNCHANGED payAt /\ balance' >= balance
  <2>1. U' = U
    BY <1>11 DEF U, Fund!UnderWay
  <2> QED
    BY <1>6, <1>11, <2>1
<1>12. CASE \/ Fund!Market \/ Fund!Refill \/ Fund!Poll \/ Fund!PollFails
            \/ Fund!ReadBalance \/ Fund!ReadPrice \/ UNCHANGED Fund!vars
  BY <1>0, <1>11, <1>12 DEF Fund!Market, Fund!Refill, Fund!Poll, Fund!PollFails, Fund!ReadBalance,
     Fund!ReadPrice, Fund!vars, Fund!funds, FundsAssumption
<1> QED
  BY <1>5, <1>7, <1>9, <1>10, <1>12 DEF Fund!Next

LEMMA WarnedStep ==
  ASSUME FundsAssumption, FundsInv, [Fund!Next]_Fund!vars
  PROVE  Fund!LowIsWarned'
<1>0. warned \in 0 .. Cooldown /\ Fund!LowIsWarned /\ Cooldown \in Nat \ {0}
  BY DEF FundsInv, Fund!TypeOK, FundsAssumption
<1>1. CASE Fund!Poll
  <2>1. CASE balance < Fund!WarnBalance
    BY <1>0, <1>1, <2>1 DEF Fund!Poll, Fund!LowIsWarned, Fund!Least
  <2>2. CASE ~(balance < Fund!WarnBalance)
    BY <1>1, <2>2 DEF Fund!Poll, Fund!LowIsWarned
  <2> QED
    BY <2>1, <2>2
<1>2. CASE Fund!PollFails
  BY <1>2 DEF Fund!PollFails, Fund!LowIsWarned
<1>3. CASE UNCHANGED <<warned, polled>>
  BY <1>0, <1>3 DEF Fund!LowIsWarned
<1> QED
  BY <1>1, <1>2, <1>3 DEF Fund!Next, Fund!Allow, Fund!Price, Fund!Send, Fund!Fails, Fund!Mine,
     Fund!Market, Fund!Refill, Fund!ReadBalance, Fund!ReadPrice, Fund!vars, Fund!monitor

LEMMA FundsStep ==
  ASSUME FundsAssumption, FundsInv, [Fund!Next]_Fund!vars
  PROVE  FundsInv'
BY FundsTypesStep, FloorStep, WarnedStep, CeilingType DEF FundsInv, Ceiling, FundsAssumption

(* What the dashboard promises follows from the amounts it shows.           *)
LEMMA PromiseFollows == ASSUME FundsAssumption, FundsInv PROVE Fund!PromiseIsKept
<1> SUFFICES ASSUME Fund!Shown, ~(status.balance > Floor) PROVE ~(Fund!ClaimsRemaining > 0)
  BY DEF Fund!PromiseIsKept
<1>1. Floor \in Nat /\ status.balance \in Nat /\ status.price \in Nat /\ status.price > 0
  BY DEF FundsAssumption, FundsInv, Fund!TypeOK, Fund!Shown
<1>2. Fund!Usable = 0
  BY <1>1 DEF Fund!Usable, Fund!Most
<1>3. 0 \div status.price = 0
  BY <1>1
<1> QED
  BY <1>2, <1>3 DEF Fund!ClaimsRemaining

(* However many writes pass the balance check together and whatever the fee *)
(* market does, the floor is touched by no more than the fee caps of those  *)
(* that were mined; a low balance is warned about; no claim is promised     *)
(* that the floor would refuse.                                             *)
THEOREM FundsAreSafe ==
  ASSUME FundsAssumption
  PROVE  Fund!Spec => [](Fund!TypeOK /\ Fund!FloorHolds /\ Fund!LowIsWarned /\ Fund!PromiseIsKept)
<1>1. Fund!Init => FundsInv
  BY FundsInit
<1>2. FundsInv /\ [Fund!Next]_Fund!vars => FundsInv'
  BY FundsStep
<1>3. FundsInv => Fund!TypeOK /\ Fund!FloorHolds /\ Fund!LowIsWarned /\ Fund!PromiseIsKept
  BY PromiseFollows DEF FundsInv
<1> QED
  BY <1>1, <1>2, <1>3, PTL DEF Fund!Spec

-----------------------------------------------------------------------------
(* SurveyCache: how old a list may be.                                     *)

ListAssumption == Ttl \in Nat /\ FillTime \in Nat /\ MaxTime \in Nat

\* What was read since a moment is so, or has changed since.
TrueSince(table, moment) ==
  \A s \in Listed :
    \/ table[s] \in {chain[s], "unread"}
    \/ changedAt[s] # Lst!Never /\ moment <= changedAt[s]

FillsAreRecent ==
  \A f \in Fills : started[f] # Lst!Never =>
    /\ started[f] <= listNow /\ listNow <= started[f] + FillTime
    /\ TrueSince(got[f], started[f])

CacheIsRecent ==
  /\ cacheExpiry <= listNow + Ttl
  /\ cachedSurveys # Lst!NoList =>
       /\ \A s \in Listed : cachedSurveys[s] # "unread"
       /\ TrueSince(cachedSurveys, cacheExpiry - Ttl - FillTime)

ListInv == Lst!TypeOK /\ FillsAreRecent /\ CacheIsRecent

LEMMA ListInit == ListAssumption /\ Lst!Init => ListInv
<1> SUFFICES ASSUME ListAssumption, Lst!Init PROVE ListInv
  OBVIOUS
<1>1. Lst!TypeOK
  BY DEF ListAssumption, Lst!Init, Lst!TypeOK, Lst!NoList, Lst!Never
<1>2. FillsAreRecent /\ CacheIsRecent
  BY DEF ListAssumption, Lst!Init, FillsAreRecent, CacheIsRecent
<1> QED
  BY <1>1, <1>2 DEF ListInv

LEMMA ListTypesStep ==
  ASSUME ListAssumption, ListInv, [Lst!Next]_Lst!vars
  PROVE  Lst!TypeOK'
<1> DEFINE Lists == [Listed -> Lst!States \union {"unread"}]
<1>0. Lst!TypeOK /\ Lst!NoList \in Lists
  BY DEF ListInv, Lst!NoList
<1> USE <1>0 DEF Lst!TypeOK
<1>1. ASSUME NEW f \in Fills, Lst!StartFill(f) PROVE Lst!TypeOK'
  <2>1. PICK unknown \in SUBSET Listed :
          got' = [got EXCEPT ![f] = [s \in Listed |-> IF s \in unknown THEN "none" ELSE "unread"]]
    BY <1>1 DEF Lst!StartFill
  <2>2. [s \in Listed |-> IF s \in unknown THEN "none" ELSE "unread"] \in Lists
    BY DEF Lst!States
  <2>3. got' \in [Fills -> Lists]
    BY <2>1, <2>2
  <2>4. started' \in [Fills -> Lst!Never .. MaxTime]
    BY <1>1 DEF Lst!StartFill, Lst!Never
  <2> QED
    BY <1>1, <2>3, <2>4 DEF Lst!StartFill
<1>2. ASSUME NEW f \in Fills, Lst!Ends(f)
      PROVE  started' \in [Fills -> Lst!Never .. MaxTime] /\ got' \in [Fills -> Lists]
  BY <1>2 DEF Lst!Ends, Lst!Never, ListAssumption
<1>3. ASSUME NEW f \in Fills, Lst!Store(f) PROVE Lst!TypeOK'
  <2>1. cachedSurveys' \in Lists /\ cacheExpiry' \in 0 .. MaxTime + Ttl
    BY <1>3 DEF Lst!Store, ListAssumption
  <2> QED
    BY <1>2, <1>3, <2>1 DEF Lst!Store
<1>4. ASSUME NEW f \in Fills, Lst!Fails(f) PROVE Lst!TypeOK'
  BY <1>2, <1>4 DEF Lst!Fails
<1>5. ASSUME NEW f \in Fills, NEW s \in Listed, Lst!loadSurvey(f, s) PROVE Lst!TypeOK'
  <2>1. got' \in [Fills -> Lists]
    BY <1>5 DEF Lst!loadSurvey
  <2> QED
    BY <1>5, <2>1 DEF Lst!loadSurvey
<1>6. ASSUME NEW s \in Listed, NEW state \in Lst!States, Lst!Mined(s, state) PROVE Lst!TypeOK'
  <2>1. changedAt' \in [Listed -> Lst!Never .. MaxTime]
    BY <1>6 DEF Lst!Mined, Lst!Never
  <2> QED
    BY <1>6, <2>1 DEF Lst!Mined
<1>7. CASE Lst!invalidateCache
  BY <1>7 DEF Lst!invalidateCache, ListAssumption
<1>8. CASE Lst!Tick
  BY <1>8 DEF Lst!Tick, Lst!listVars, ListAssumption
<1>9. CASE UNCHANGED Lst!vars
  BY <1>9 DEF Lst!vars, Lst!listVars
<1> QED
  BY <1>1, <1>3, <1>4, <1>5, <1>6, <1>7, <1>8, <1>9 DEF Lst!Next

LEMMA FillsStep ==
  ASSUME ListAssumption, ListInv, [Lst!Next]_Lst!vars
  PROVE  FillsAreRecent'
<1>0. /\ Lst!TypeOK /\ FillsAreRecent
      /\ listNow \in Nat /\ FillTime \in Nat
      /\ \A g \in Fills : started[g] \in Int
      /\ \A s \in Listed : changedAt[s] \in Int
  BY DEF ListInv, Lst!TypeOK, ListAssumption, Lst!Never
<1>1. ASSUME NEW f \in Fills, Lst!StartFill(f) PROVE FillsAreRecent'
  <2> SUFFICES ASSUME NEW g \in Fills, started'[g] # Lst!Never
               PROVE  /\ started'[g] <= listNow /\ listNow <= started'[g] + FillTime
                      /\ TrueSince(got[g], started[g])'
    BY <1>1 DEF FillsAreRecent, Lst!StartFill
  <2>1. CASE g = f
    <3>1. started'[f] = listNow /\ UNCHANGED <<listNow, chain, changedAt>>
      BY <1>0, <1>1 DEF Lst!TypeOK, Lst!StartFill
    <3>2. \A s \in Listed : got'[f][s] \in {chain[s], "unread"}
      BY <1>0, <1>1 DEF Lst!TypeOK, Lst!StartFill
    <3>3. started'[g] <= listNow /\ listNow <= started'[g] + FillTime
      BY <1>0, <2>1, <3>1
    <3>4. TrueSince(got[g], started[g])'
      BY <2>1, <3>1, <3>2 DEF TrueSince
    <3> QED
      BY <3>3, <3>4
  <2>2. CASE g # f
    <3>1. started'[g] = started[g] /\ got'[g] = got[g] /\ UNCHANGED <<listNow, chain, changedAt>>
      BY <1>0, <1>1, <2>2 DEF Lst!TypeOK, Lst!StartFill
    <3> QED
      BY <1>0, <3>1 DEF FillsAreRecent, TrueSince
  <2> QED
    BY <2>1, <2>2
<1>2. ASSUME NEW f \in Fills, Lst!Store(f) \/ Lst!Fails(f) PROVE FillsAreRecent'
  BY <1>0, <1>2 DEF Lst!TypeOK, Lst!Store, Lst!Fails, Lst!Ends, FillsAreRecent, TrueSince
<1>3. ASSUME NEW f \in Fills, NEW s \in Listed, Lst!loadSurvey(f, s) PROVE FillsAreRecent'
  BY <1>0, <1>3 DEF Lst!TypeOK, Lst!loadSurvey, FillsAreRecent, TrueSince
<1>4. ASSUME NEW s \in Listed, NEW state \in Lst!States, Lst!Mined(s, state) PROVE FillsAreRecent'
  BY <1>0, <1>4 DEF Lst!TypeOK, Lst!Mined, FillsAreRecent, TrueSince, Lst!Never
<1>5. CASE Lst!Tick
  BY <1>0, <1>5 DEF Lst!Tick, Lst!listVars, FillsAreRecent, TrueSince
<1>6. CASE Lst!invalidateCache \/ UNCHANGED Lst!vars
  BY <1>0, <1>6 DEF Lst!invalidateCache, Lst!vars, Lst!listVars, FillsAreRecent, TrueSince
<1> QED
  BY <1>1, <1>2, <1>3, <1>4, <1>5, <1>6 DEF Lst!Next

(* A deadline stays within reach as time passes.                             *)
LEMMA StillWithin ==
  ASSUME NEW deadline \in Nat, NEW now \in Nat, NEW later \in Nat, NEW span \in Nat,
         deadline <= now + span, now <= later
  PROVE  deadline <= later + span
OBVIOUS

LEMMA CacheStep ==
  ASSUME ListAssumption, ListInv, [Lst!Next]_Lst!vars
  PROVE  CacheIsRecent'
<1>0. /\ Lst!TypeOK /\ FillsAreRecent /\ CacheIsRecent
      /\ listNow \in Nat /\ FillTime \in Nat /\ Ttl \in Nat /\ cacheExpiry \in Nat
      /\ \A g \in Fills : started[g] \in Int
      /\ \A s \in Listed : changedAt[s] \in Int
  BY DEF ListInv, Lst!TypeOK, ListAssumption, Lst!Never
<1>1. ASSUME UNCHANGED <<chain, changedAt, cachedSurveys, cacheExpiry>>, listNow' \in Nat,
             listNow <= listNow'
      PROVE  CacheIsRecent'
  <2>1. cacheExpiry' <= listNow' + Ttl
    <3>1. cacheExpiry <= listNow + Ttl
      BY <1>0 DEF CacheIsRecent
    <3>2. cacheExpiry <= listNow' + Ttl
      BY <1>0, <1>1, <3>1, StillWithin
    <3> QED
      BY <1>1, <3>2
  <2>2. cachedSurveys # Lst!NoList =>
          /\ \A s \in Listed : cachedSurveys'[s] # "unread"
          /\ TrueSince(cachedSurveys, cacheExpiry - Ttl - FillTime)'
    BY <1>0, <1>1 DEF CacheIsRecent, TrueSince
  <2> QED
    BY <1>1, <2>1, <2>2 DEF CacheIsRecent, Lst!NoList
<1>2. ASSUME NEW f \in Fills, Lst!Store(f) PROVE CacheIsRecent'
  <2>1. TrueSince(got[f], started[f]) /\ listNow <= started[f] + FillTime
    BY <1>0, <1>2 DEF FillsAreRecent, Lst!Store
  <2>2. TrueSince(cachedSurveys, cacheExpiry - Ttl - FillTime)'
    BY <1>0, <1>2, <2>1 DEF TrueSince, Lst!Store
  <2> QED
    BY <1>0, <1>2, <2>2 DEF CacheIsRecent, Lst!Store
<1>3. ASSUME NEW s \in Listed, NEW state \in Lst!States, Lst!Mined(s, state) PROVE CacheIsRecent'
  <2> SUFFICES ASSUME cachedSurveys # Lst!NoList
               PROVE  TrueSince(cachedSurveys, cacheExpiry - Ttl - FillTime)'
    BY <1>0, <1>3 DEF Lst!Mined, CacheIsRecent, Lst!NoList
  <2>1. TrueSince(cachedSurveys, cacheExpiry - Ttl - FillTime) /\ cacheExpiry <= listNow + Ttl
    BY <1>0 DEF CacheIsRecent
  <2> QED
    BY <1>0, <1>3, <2>1 DEF Lst!TypeOK, Lst!Mined, TrueSince, Lst!Never
<1>4. CASE Lst!invalidateCache
  BY <1>0, <1>4 DEF Lst!invalidateCache, CacheIsRecent, Lst!NoList
<1>5. CASE \/ \E f \in Fills : Lst!StartFill(f) \/ Lst!Fails(f)
           \/ \E f \in Fills, s \in Listed : Lst!loadSurvey(f, s)
           \/ Lst!Tick \/ UNCHANGED Lst!vars
  BY <1>0, <1>1, <1>5 DEF Lst!StartFill, Lst!Fails, Lst!loadSurvey, Lst!Tick, Lst!listVars, Lst!vars
<1> QED
  BY <1>2, <1>3, <1>4, <1>5 DEF Lst!Next

LEMMA ListStep == ASSUME ListAssumption, ListInv, [Lst!Next]_Lst!vars PROVE ListInv'
BY ListTypesStep, FillsStep, CacheStep DEF ListInv

LEMMA ListFollows == ASSUME ListAssumption, ListInv PROVE Lst!ListIsRecent
<1> SUFFICES ASSUME Lst!Served, NEW s \in Listed, cachedSurveys[s] # chain[s]
             PROVE  Lst!Since(changedAt[s], Ttl + FillTime)
  BY DEF Lst!ListIsRecent
<1>1. /\ changedAt[s] # Lst!Never /\ cacheExpiry - Ttl - FillTime <= changedAt[s]
      /\ listNow < cacheExpiry
  BY DEF ListInv, CacheIsRecent, TrueSince, Lst!Served
<1> QED
  BY <1>1 DEF Lst!Since, ListInv, Lst!TypeOK, ListAssumption, Lst!Never

(* A served list was true a cache lifetime and the time of a fill ago at    *)
(* most, whichever fills overlap and whatever is invalidated in between.    *)
THEOREM ListStaysRecent == ASSUME ListAssumption PROVE Lst!Spec => [](Lst!TypeOK /\ Lst!ListIsRecent)
<1>1. Lst!Init => ListInv
  BY ListInit
<1>2. ListInv /\ [Lst!Next]_Lst!vars => ListInv'
  BY ListStep
<1>3. ListInv => Lst!TypeOK /\ Lst!ListIsRecent
  BY ListFollows DEF ListInv
<1> QED
  BY <1>1, <1>2, <1>3, PTL DEF Lst!Spec

-----------------------------------------------------------------------------
(* VersionCheck: which version of the contract is called.                  *)

VersionAssumption == Recheck \in Nat \ {0} /\ ReadTime \in Nat /\ LastTick \in Nat

Upgraded == upgradedAt # Ver!Never

\* A call is under way for ReadTime at most.  What says V3 was told so; what
\* says V2 asked, or was told by an answer still fit for use, before V3 or
\* not long after.
CallFits(c) ==
  /\ c.since <= versionNow /\ versionNow <= c.since + ReadTime
  /\ c.v3 => Upgraded
  /\ c.at = "asking" /\ ~c.v3 /\ Upgraded => c.since <= upgradedAt
  /\ c.at = "calling" => Ver!Goes(c.task, c.v3)
  /\ c.at = "calling" /\ ~c.v3 /\ ~c.failed /\ Upgraded =>
       c.since < upgradedAt + Recheck + ReadTime

SupportFits ==
  /\ support.checkedAt <= versionNow
  /\ support.value => Upgraded
  /\ ~support.value /\ Upgraded => support.checkedAt <= upgradedAt + ReadTime

VersionInv ==
  /\ Ver!TypeOK
  /\ upgradedAt <= versionNow
  /\ SupportFits
  /\ \A c \in calls : CallFits(c)

LEMMA VersionInit == VersionAssumption /\ Ver!Init => VersionInv
<1> SUFFICES ASSUME VersionAssumption, Ver!Init PROVE VersionInv
  OBVIOUS
<1>1. /\ versionNow \in 0 .. LastTick
      /\ upgradedAt \in Ver!Never .. LastTick /\ upgradedAt <= versionNow
  BY DEF VersionAssumption, Ver!Init, Ver!Never
<1>2. support \in [value : BOOLEAN, checkedAt : Ver!Never .. LastTick]
  BY DEF VersionAssumption, Ver!Init, Ver!Never
<1>3. SupportFits
  BY <1>1 DEF Ver!Init, SupportFits, VersionAssumption, Ver!Never
<1> QED
  BY <1>1, <1>2, <1>3 DEF VersionInv, Ver!TypeOK, Ver!Init

(* The call that follows a check, or none.                                  *)
LEMMA NewCall ==
  ASSUME VersionAssumption, VersionInv, NEW task \in {"read", "register"},
         NEW v3 \in BOOLEAN, NEW failed \in BOOLEAN,
         v3 => Upgraded,
         ~v3 /\ ~failed /\ Upgraded => versionNow < upgradedAt + Recheck + ReadTime,
         NEW c \in Ver!Calling(task, v3, failed)
  PROVE  c \in Ver!CallStates /\ CallFits(c)
<1>1. c = [task |-> task, at |-> "calling", since |-> versionNow, v3 |-> v3, failed |-> failed]
      /\ Ver!Goes(task, v3)
  BY DEF Ver!Calling
<1>2. versionNow \in 0 .. LastTick
  BY DEF VersionInv, Ver!TypeOK
<1>3. c.task = task /\ c.at = "calling" /\ c.since = versionNow /\ c.v3 = v3 /\ c.failed = failed
  BY <1>1
<1>4. c \in Ver!CallStates
  BY <1>1, <1>2 DEF Ver!CallStates
<1> QED
  BY <1>1, <1>2, <1>3, <1>4 DEF CallFits, VersionAssumption

LEMMA VersionStep ==
  ASSUME VersionAssumption, VersionInv, [Ver!Next]_Ver!vars
  PROVE  VersionInv'
<1>0. /\ Ver!TypeOK /\ SupportFits /\ \A c \in calls : CallFits(c)
      /\ upgradedAt <= versionNow
      /\ versionNow \in Nat /\ upgradedAt \in Int /\ support.checkedAt \in Int
      /\ support.value \in BOOLEAN
      /\ Recheck \in Nat \ {0} /\ ReadTime \in Nat /\ LastTick \in Nat
      /\ \A c \in calls : c \in Ver!CallStates /\ c.since \in Nat /\ c.v3 \in BOOLEAN
                          /\ c.task \in {"read", "register"}
  BY DEF VersionInv, VersionAssumption, Ver!TypeOK, Ver!Never, Ver!CallStates
<1>1. ASSUME UNCHANGED <<versionNow, upgradedAt, support>>,
             \A c \in calls' : c \in Ver!CallStates /\ CallFits(c)
      PROVE  VersionInv'
  BY <1>0, <1>1 DEF VersionInv, Ver!TypeOK, SupportFits, CallFits, Upgraded
<1>2. ASSUME NEW task \in {"read", "register"}, Ver!Begin(task) PROVE VersionInv'
  <2>1. Ver!Known /\ calls' = calls \union Ver!Calling(task, support.value, FALSE)
        /\ UNCHANGED <<versionNow, upgradedAt, support>>
    BY <1>2 DEF Ver!Begin
  <2>2. ~support.value /\ Upgraded => versionNow < upgradedAt + Recheck + ReadTime
    BY <1>0, <2>1 DEF SupportFits, Ver!Known
  <2>3. support.value => Upgraded
    BY <1>0 DEF SupportFits
  <2>4. \A c \in Ver!Calling(task, support.value, FALSE) : c \in Ver!CallStates /\ CallFits(c)
    BY <1>0, <2>2, <2>3, NewCall
  <2> QED
    BY <1>0, <1>1, <2>1, <2>4
<1>3. ASSUME NEW task \in {"read", "register"}, Ver!Check(task) PROVE VersionInv'
  <2> DEFINE c0 == [task |-> task, at |-> "asking", since |-> versionNow, v3 |-> Upgraded, failed |-> FALSE]
  <2>1. calls' = calls \union {c0} /\ UNCHANGED <<versionNow, upgradedAt, support>>
    BY <1>3 DEF Ver!Check, Upgraded
  <2>2. c0 \in Ver!CallStates
    BY <1>0 DEF Ver!CallStates, Ver!TypeOK, Upgraded
  <2>3. CallFits(c0)
    BY <1>0 DEF CallFits
  <2> HIDE DEF c0
  <2> QED
    BY <1>0, <1>1, <2>1, <2>2, <2>3
<1>4. ASSUME NEW c \in calls, Ver!Fails(c) PROVE VersionInv'
  <2>1. \A d \in Ver!Calling(c.task, FALSE, TRUE) : d \in Ver!CallStates /\ CallFits(d)
    BY <1>0, NewCall
  <2> QED
    BY <1>0, <1>1, <1>4, <2>1 DEF Ver!Fails
<1>5. ASSUME NEW c \in calls, Ver!Answers(c) PROVE VersionInv'
  <2>1. /\ c.at = "asking" /\ UNCHANGED <<versionNow, upgradedAt>>
        /\ support' = [value |-> c.v3, checkedAt |-> versionNow]
        /\ calls' = (calls \ {c}) \union Ver!Calling(c.task, c.v3, FALSE)
    BY <1>5 DEF Ver!Answers
  <2>2. CallFits(c)
    BY <1>0
  <2>3. \A d \in Ver!Calling(c.task, c.v3, FALSE) : d \in Ver!CallStates /\ CallFits(d)
    <3>1. ~c.v3 /\ Upgraded => versionNow < upgradedAt + Recheck + ReadTime
      BY <1>0, <2>1, <2>2 DEF CallFits
    <3>2. c.v3 => Upgraded
      BY <2>2 DEF CallFits
    <3> QED
      BY <1>0, <3>1, <3>2, NewCall
  <2>4. support'.value = c.v3 /\ support'.checkedAt = versionNow
    BY <2>1
  <2>5. SupportFits'
    BY <1>0, <2>1, <2>2, <2>4 DEF SupportFits, CallFits, Upgraded
  <2>6. support' \in [value : BOOLEAN, checkedAt : Ver!Never .. LastTick]
    BY <1>0, <2>1 DEF Ver!TypeOK, Ver!Never
  <2>7. \A d \in calls' : d \in Ver!CallStates /\ CallFits(d)'
    BY <1>0, <2>1, <2>3 DEF CallFits, Upgraded
  <2> QED
    BY <1>0, <2>1, <2>5, <2>6, <2>7 DEF VersionInv, Ver!TypeOK
<1>6. ASSUME NEW c \in calls, Ver!Returns(c) PROVE VersionInv'
  BY <1>0, <1>1, <1>6 DEF Ver!Returns
<1>7. CASE Ver!Upgrade
  <2>1. SupportFits' /\ \A c \in calls : CallFits(c)'
    BY <1>0, <1>7 DEF Ver!Upgrade, SupportFits, CallFits, Upgraded
  <2> QED
    BY <1>0, <1>7, <2>1 DEF Ver!Upgrade, VersionInv, Ver!TypeOK, Ver!Never
<1>8. CASE Ver!Tick
  <2>1. SupportFits' /\ \A c \in calls : CallFits(c)'
    BY <1>0, <1>8 DEF Ver!Tick, SupportFits, CallFits, Upgraded
  <2> QED
    BY <1>0, <1>8, <2>1 DEF Ver!Tick, VersionInv, Ver!TypeOK
<1>9. CASE UNCHANGED Ver!vars
  BY <1>0, <1>1, <1>9 DEF Ver!vars
<1> QED
  BY <1>2, <1>3, <1>4, <1>5, <1>6, <1>7, <1>8, <1>9 DEF Ver!Next

LEMMA VersionFollows == ASSUME VersionAssumption, VersionInv PROVE Ver!UpgradeIsSeen /\ Ver!PathFits
<1>0. /\ SupportFits /\ \A c \in calls : CallFits(c)
      /\ versionNow \in Nat /\ upgradedAt \in Int /\ support.checkedAt \in Int
      /\ Recheck \in Nat \ {0} /\ ReadTime \in Nat
      /\ \A c \in calls : c.since \in Nat
  BY DEF VersionInv, VersionAssumption, Ver!TypeOK, Ver!Never, Ver!CallStates
<1>1. Ver!UpgradeIsSeen
  BY <1>0 DEF Ver!UpgradeIsSeen, Ver!Known, SupportFits, Upgraded
<1>2. ASSUME NEW c \in calls, c.at = "calling"
      PROVE  /\ Ver!NeedsV3(c) => upgradedAt # Ver!Never
             /\ \/ Ver!Points(c) = Centi \/ c.failed \/ upgradedAt = Ver!Never
                \/ versionNow < upgradedAt + Recheck + 2 * ReadTime
  <2>1. CallFits(c)
    BY <1>0
  <2>2. Ver!NeedsV3(c) => upgradedAt # Ver!Never
    BY <1>2, <2>1 DEF CallFits, Ver!NeedsV3, Ver!Goes, Upgraded
  <2>3. c.v3 => Ver!Points(c) = Centi
    BY DEF Ver!Points
  <2>4. ~c.v3 /\ ~c.failed /\ Upgraded => versionNow < upgradedAt + Recheck + 2 * ReadTime
    BY <1>0, <1>2, <2>1 DEF CallFits
  <2> QED
    BY <2>2, <2>3, <2>4 DEF Upgraded
<1> QED
  BY <1>1, <1>2 DEF Ver!PathFits

(* However answers about the version cross, an upgrade is noticed within    *)
(* the recheck and one read, V2 is never asked for what only V3 has, and    *)
(* points are exact but for that time or a check that failed.               *)
THEOREM VersionIsKnown ==
  ASSUME VersionAssumption
  PROVE  Ver!Spec => [](Ver!TypeOK /\ Ver!UpgradeIsSeen /\ Ver!PathFits)
<1>1. Ver!Init => VersionInv
  BY VersionInit
<1>2. VersionInv /\ [Ver!Next]_Ver!vars => VersionInv'
  BY VersionStep
<1>3. VersionInv => Ver!TypeOK /\ Ver!UpgradeIsSeen /\ Ver!PathFits
  BY VersionFollows DEF VersionInv
<1> QED
  BY <1>1, <1>2, <1>3, PTL DEF Ver!Spec

=============================================================================
