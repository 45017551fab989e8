-------------------------- MODULE NonceStoreProofs --------------------------
(***************************************************************************)
(* The nonce store, for any processes and links and any number of saves: a *)
(* link is handed out once, and the file is the register of consumed links.*)
(***************************************************************************)
EXTENDS NonceStore, TLAPS

(* What the module needs of its constants.                                 *)
NoProcIsNone == NoProc \notin Procs

Working == {"load", "read", "decide", "save", "stat"}

StoreTypes ==
  /\ file \in [used : SUBSET Links, version : Nat]
  /\ cache \in [Procs -> [set : SUBSET Links, version : Int]]
  /\ lock \in Procs \union {NoProc}
  /\ pc \in [Procs -> Places]
  /\ op \in [Procs -> [kind : Kinds, link : Links]]
  /\ seen \in [Procs -> Nat]
  /\ held \in [Procs -> SUBSET Links]
  /\ grants \in [Links -> {0, 1}]
  /\ unsaved \subseteq Links

Writing(p) == pc[p] \in Working /\ op[p].kind # "isUsed"

(* Who works on a change has the lock, and only it.                        *)
LockOK == \A p \in Procs : lock = p <=> Writing(p)

(* What a process knows of the file.  Nobody changes the file under a      *)
(* writer's lock, so a writer decides on what is in it.                    *)
KnownOK(p) ==
  /\ cache[p].version <= file.version /\ seen[p] <= file.version
  /\ Writing(p) /\ pc[p] = "read" => seen[p] = file.version
  /\ pc[p] \in {"decide", "save"} /\ Writing(p) => cache[p].version = file.version
  /\ pc[p] \in {"save", "stat"} => op[p].kind # "isUsed"
  /\ pc[p] = "lock" => op[p].kind # "isUsed"
  /\ pc[p] = "stat" => file.used = cache[p].set
  /\ pc[p] = "save" =>
       op[p].link \in cache[p].set <=> op[p].kind = "markUsed"
  /\ pc[p] = "save" /\ op[p].kind = "markUsed" => grants[op[p].link] = 0

Coherent(p) ==
  cache[p].version = file.version =>
    \A l \in Links :
      \/ l \in cache[p].set <=> l \in file.used
      \/ l \in unsaved
      \/ pc[p] = "save" /\ l = op[p].link

(* A link that is out is in the file and in every cache that counts.       *)
GrantsOK ==
  \A l \in Links :
    /\ grants[l] = 1 =>
         /\ l \in file.used
         /\ \A p \in Procs : cache[p].version = file.version =>
              \/ l \in cache[p].set
              \/ pc[p] = "save" /\ op[p].kind = "releaseNonce" /\ l = op[p].link
    /\ l \in file.used => grants[l] = 1 \/ l \in unsaved

HeldOK(p) ==
  /\ \A l \in held[p] : grants[l] = 1
  /\ \A q \in Procs \ {p} : held[p] \intersect held[q] = {}
  /\ pc[p] \in {"lock", "load", "read", "decide", "save"} /\ op[p].kind = "releaseNonce" =>
       op[p].link \in held[p]

StoreInv ==
  /\ StoreTypes
  /\ LockOK
  /\ \A p \in Procs : KnownOK(p)
  /\ \A p \in Procs : Coherent(p)
  /\ GrantsOK
  /\ \A p \in Procs : HeldOK(p)

LEMMA InitStore == ASSUME NoProcIsNone, Init PROVE StoreInv
<1>1. op \in [Procs -> [kind : Kinds, link : Links]]
      /\ \A p \in Procs : op[p].kind = "isUsed"
  BY DEF Init, Kinds
<1>2. StoreTypes
  BY <1>1 DEF Init, StoreTypes, NoCache, Places
<1>3. LockOK
  BY DEF Init, LockOK, Writing, Working, NoProcIsNone
<1>4. \A p \in Procs : KnownOK(p) /\ Coherent(p) /\ HeldOK(p)
  <2> SUFFICES ASSUME NEW p \in Procs PROVE KnownOK(p) /\ Coherent(p) /\ HeldOK(p)
    OBVIOUS
  <2>1. /\ pc[p] = "idle" /\ cache[p].version = -1 /\ seen[p] = 0 /\ file.version = 0
        /\ \A q \in Procs : held[q] = {}
    BY DEF Init, NoCache
  <2>2. KnownOK(p)
    BY <2>1 DEF KnownOK, Writing, Working
  <2>3. Coherent(p) /\ HeldOK(p)
    BY <2>1 DEF Coherent, HeldOK
  <2> QED
    BY <2>2, <2>3
<1>5. GrantsOK
  BY DEF Init, GrantsOK
<1> QED
  BY <1>2, <1>3, <1>4, <1>5 DEF StoreInv

-----------------------------------------------------------------------------
(* Steps that change neither the file nor who was handed what.             *)

LEMMA CallKeeps ==
  ASSUME NoProcIsNone, StoreInv, NEW p \in Procs, NEW kind \in Kinds, NEW link \in Links,
         Call(p, kind, link)
  PROVE  StoreInv'
<1>1. /\ op' = [op EXCEPT ![p] = [kind |-> kind, link |-> link]]
      /\ pc' = [pc EXCEPT ![p] = IF kind = "isUsed" THEN "load" ELSE "lock"]
      /\ UNCHANGED <<file, cache, lock, seen, held, grants, unsaved>>
      /\ pc[p] = "idle" /\ (kind = "releaseNonce" => link \in held[p])
  BY DEF Call, Goto
<1>2. /\ op'[p].kind = kind /\ op'[p].link = link
      /\ pc'[p] = IF kind = "isUsed" THEN "load" ELSE "lock"
      /\ \A q \in Procs \ {p} : op'[q] = op[q] /\ pc'[q] = pc[q]
  BY <1>1 DEF StoreInv, StoreTypes
<1>3. StoreTypes'
  BY <1>1 DEF StoreInv, StoreTypes, Places
<1>4. LockOK'
  BY <1>1, <1>2 DEF StoreInv, LockOK, Writing, Working
<1>5. \A q \in Procs : KnownOK(q)'
  BY <1>1, <1>2 DEF StoreInv, KnownOK, Writing, Working
<1>6. \A q \in Procs : Coherent(q)'
  BY <1>1, <1>2 DEF StoreInv, Coherent
<1>7. GrantsOK'
  BY <1>1, <1>2 DEF StoreInv, GrantsOK
<1>8. \A q \in Procs : HeldOK(q)'
  BY <1>1, <1>2 DEF StoreInv, HeldOK
<1> QED
  BY <1>3, <1>4, <1>5, <1>6, <1>7, <1>8 DEF StoreInv

(* A process moves on, or takes or releases the lock, and nothing else.    *)
LEMMA MoveKeeps ==
  ASSUME NoProcIsNone, StoreInv, NEW p \in Procs, NEW place \in {"idle", "load"},
         pc' = [pc EXCEPT ![p] = place],
         UNCHANGED <<file, cache, op, seen, held, grants, unsaved>>,
         pc[p] # "save",
         \/ place = "idle" /\ lock' = IF lock = p THEN NoProc ELSE lock
         \/ place = "load" /\ pc[p] = "lock" /\ lock = NoProc /\ lock' = p
  PROVE  StoreInv'
<1>2. pc'[p] = place /\ \A q \in Procs \ {p} : pc'[q] = pc[q]
  BY DEF StoreInv, StoreTypes
<1>3. StoreTypes'
  BY DEF StoreInv, StoreTypes, Places
<1>4. LockOK'
  BY <1>2 DEF StoreInv, LockOK, KnownOK, Writing, Working, NoProcIsNone
<1>5. \A q \in Procs : KnownOK(q)'
  BY <1>2 DEF StoreInv, KnownOK, Writing, Working
<1>6. \A q \in Procs : Coherent(q)'
  BY <1>2 DEF StoreInv, Coherent
<1>7. GrantsOK'
  BY <1>2 DEF StoreInv, GrantsOK
<1>8. \A q \in Procs : HeldOK(q)'
  BY <1>2 DEF StoreInv, HeldOK
<1> QED
  BY <1>3, <1>4, <1>5, <1>6, <1>7, <1>8 DEF StoreInv

LEMMA LoadVersionKeeps ==
  ASSUME NoProcIsNone, StoreInv, NEW p \in Procs, LoadVersion(p)
  PROVE  StoreInv'
<1> DEFINE place == IF cache[p].version = file.version THEN "decide" ELSE "read"
<1>1. /\ pc[p] = "load" /\ seen' = [seen EXCEPT ![p] = file.version]
      /\ pc' = [pc EXCEPT ![p] = place]
      /\ UNCHANGED <<file, cache, lock, op, held, grants, unsaved>>
  BY DEF LoadVersion, Goto
<1>2. /\ seen'[p] = file.version /\ \A q \in Procs \ {p} : pc'[q] = pc[q] /\ seen'[q] = seen[q]
      /\ \/ pc'[p] = "decide" /\ cache[p].version = file.version
         \/ pc'[p] = "read"
  BY <1>1 DEF StoreInv, StoreTypes
<1>3. StoreTypes'
  BY <1>1 DEF StoreInv, StoreTypes, Places
<1>4. LockOK'
  BY <1>1, <1>2 DEF StoreInv, LockOK, Writing, Working
<1>5. \A q \in Procs : KnownOK(q)'
  <2>1. KnownOK(p)'
    BY <1>1, <1>2 DEF StoreInv, StoreTypes, KnownOK, Writing, Working
  <2>2. ASSUME NEW q \in Procs \ {p} PROVE KnownOK(q)'
    BY <1>1, <1>2, <2>2 DEF StoreInv, KnownOK, Writing
  <2> QED
    BY <2>1, <2>2
<1>6. \A q \in Procs : Coherent(q)'
  BY <1>1, <1>2 DEF StoreInv, Coherent
<1>7. GrantsOK'
  BY <1>1, <1>2 DEF StoreInv, GrantsOK
<1>8. \A q \in Procs : HeldOK(q)'
  BY <1>1, <1>2 DEF StoreInv, HeldOK
<1> QED
  BY <1>3, <1>4, <1>5, <1>6, <1>7, <1>8 DEF StoreInv

LEMMA ReadFileKeeps ==
  ASSUME NoProcIsNone, StoreInv, NEW p \in Procs, ReadFile(p)
  PROVE  StoreInv'
<1>1. /\ pc[p] = "read" /\ cache' = [cache EXCEPT ![p] = [set |-> file.used, version |-> seen[p]]]
      /\ pc' = [pc EXCEPT ![p] = "decide"]
      /\ UNCHANGED <<file, lock, op, seen, held, grants, unsaved>>
  BY DEF ReadFile, Goto
<1>2. /\ pc'[p] = "decide" /\ cache'[p].set = file.used /\ cache'[p].version = seen[p]
      /\ \A q \in Procs \ {p} : pc'[q] = pc[q] /\ cache'[q] = cache[q]
  BY <1>1 DEF StoreInv, StoreTypes
<1>3. StoreTypes'
  BY <1>1 DEF StoreInv, StoreTypes, Places
<1>4. LockOK'
  BY <1>1, <1>2 DEF StoreInv, LockOK, Writing, Working
<1>5. \A q \in Procs : KnownOK(q)'
  <2>1. KnownOK(p)'
    BY <1>1, <1>2 DEF StoreInv, StoreTypes, KnownOK, Writing, Working
  <2>2. ASSUME NEW q \in Procs \ {p} PROVE KnownOK(q)'
    BY <1>1, <1>2, <2>2 DEF StoreInv, KnownOK, Writing
  <2> QED
    BY <2>1, <2>2
<1>6. \A q \in Procs : Coherent(q)'
  BY <1>1, <1>2 DEF StoreInv, Coherent
<1>7. GrantsOK'
  BY <1>1, <1>2 DEF StoreInv, GrantsOK
<1>8. \A q \in Procs : HeldOK(q)'
  BY <1>1, <1>2 DEF StoreInv, HeldOK
<1> QED
  BY <1>3, <1>4, <1>5, <1>6, <1>7, <1>8 DEF StoreInv

(* The cached set changes, a moment before the file.                       *)
LEMMA ChangeKeeps ==
  ASSUME NoProcIsNone, StoreInv, NEW p \in Procs, Add(p) \/ Delete(p)
  PROVE  StoreInv'
<1> DEFINE link == op[p].link
<1>1. PICK set \in SUBSET Links :
        /\ cache' = [cache EXCEPT ![p] = [set |-> set, version |-> cache[p].version]]
        /\ \/ op[p].kind = "markUsed" /\ set = cache[p].set \union {link} /\ link \notin cache[p].set
           \/ op[p].kind = "releaseNonce" /\ set = cache[p].set \ {link} /\ link \in cache[p].set
  BY DEF Add, Delete, StoreInv, StoreTypes
<1>2. /\ pc[p] = "decide" /\ pc' = [pc EXCEPT ![p] = "save"]
      /\ UNCHANGED <<file, lock, op, seen, held, grants, unsaved>>
  BY DEF Add, Delete, Goto
<1>3. /\ pc'[p] = "save" /\ cache'[p].set = set /\ cache'[p].version = cache[p].version
      /\ \A q \in Procs \ {p} : pc'[q] = pc[q] /\ cache'[q] = cache[q]
  BY <1>1, <1>2 DEF StoreInv, StoreTypes
<1>4. /\ link \in Links /\ Writing(p) /\ cache[p].version = file.version
      /\ op[p].kind = "markUsed" => grants[link] = 0
  <2>1. link \in Links /\ Writing(p)
    BY <1>1, <1>2 DEF StoreInv, StoreTypes, Writing, Working
  <2>2. cache[p].version = file.version
    BY <1>2, <2>1 DEF StoreInv, KnownOK
  <2>3. op[p].kind = "markUsed" => grants[link] # 1
    BY <1>1, <1>2, <2>1, <2>2 DEF StoreInv, GrantsOK
  <2>4. grants[link] \in {0, 1}
    BY <2>1 DEF StoreInv, StoreTypes
  <2> QED
    BY <2>1, <2>2, <2>3, <2>4
<1>5. StoreTypes'
  BY <1>1, <1>2 DEF StoreInv, StoreTypes, Places
<1>6. LockOK'
  BY <1>2, <1>3 DEF StoreInv, LockOK, Writing, Working
<1>7. \A q \in Procs : KnownOK(q)'
  <2>1. KnownOK(p)'
    BY <1>1, <1>2, <1>3, <1>4 DEF StoreInv, KnownOK, Writing, Working
  <2>2. ASSUME NEW q \in Procs \ {p} PROVE KnownOK(q)'
    BY <1>2, <1>3, <2>2 DEF StoreInv, KnownOK, Writing
  <2> QED
    BY <2>1, <2>2
<1>8. \A q \in Procs : Coherent(q)'
  <2>1. Coherent(p)'
    BY <1>1, <1>2, <1>3 DEF StoreInv, Coherent
  <2>2. ASSUME NEW q \in Procs \ {p} PROVE Coherent(q)'
    BY <1>2, <1>3, <2>2 DEF StoreInv, Coherent
  <2> QED
    BY <2>1, <2>2
<1>9. GrantsOK'
  BY <1>1, <1>2, <1>3 DEF StoreInv, GrantsOK
<1>10. \A q \in Procs : HeldOK(q)'
  BY <1>2, <1>3 DEF StoreInv, HeldOK
<1> QED
  BY <1>5, <1>6, <1>7, <1>8, <1>9, <1>10 DEF StoreInv

-----------------------------------------------------------------------------
(* Steps that change the file, or who was handed what.                     *)

(* What holds when a writer saves: it is the only one.                     *)
LEMMA SaverAlone ==
  ASSUME StoreInv, NEW p \in Procs, pc[p] = "save"
  PROVE  /\ Writing(p) /\ lock = p /\ cache[p].version = file.version
         /\ op[p].kind \in {"markUsed", "releaseNonce"} /\ op[p].link \in Links
         /\ \A q \in Procs \ {p} : ~Writing(q) /\ pc[q] \notin {"save", "stat"}
<1>1. op[p].kind \in {"markUsed", "releaseNonce"} /\ op[p].link \in Links /\ Writing(p)
  BY DEF StoreInv, StoreTypes, KnownOK, Writing, Working, Kinds
<1>2. lock = p /\ cache[p].version = file.version
  BY <1>1 DEF StoreInv, LockOK, KnownOK
<1>3. \A q \in Procs \ {p} : ~Writing(q)
  BY <1>2 DEF StoreInv, LockOK
<1>4. \A q \in Procs \ {p} : pc[q] \notin {"save", "stat"}
  BY <1>3 DEF StoreInv, KnownOK, Writing, Working
<1> QED
  BY <1>1, <1>2, <1>3, <1>4

LEMMA HandOutHeld ==
  ASSUME StoreInv, NEW p \in Procs, pc[p] = "save", op[p].kind = "markUsed", HandOut(p),
         UNCHANGED op, \A q \in Procs \ {p} : pc'[q] = pc[q],
         pc'[p] \notin {"lock", "load", "read", "decide", "save"}
  PROVE  /\ grants' \in [Links -> {0, 1}] /\ held' \in [Procs -> SUBSET Links]
         /\ grants'[op[p].link] = 1
         /\ \A l \in Links \ {op[p].link} : grants'[l] = grants[l]
         /\ \A q \in Procs : HeldOK(q)'
<1> DEFINE link == op[p].link
<1>1. link \in Links /\ grants[link] = 0
  BY SaverAlone DEF StoreInv, KnownOK
<1>2. grants' = [grants EXCEPT ![link] = 1] /\ held' = [held EXCEPT ![p] = held[p] \union {link}]
  <2>1. grants' = [grants EXCEPT ![link] = grants[link] + 1]
    BY DEF HandOut
  <2>2. grants[link] + 1 = 1
    BY <1>1
  <2> QED
    BY <2>1, <2>2 DEF HandOut
<1>3. /\ grants' \in [Links -> {0, 1}] /\ held' \in [Procs -> SUBSET Links]
      /\ grants'[link] = 1 /\ \A l \in Links \ {link} : grants'[l] = grants[l]
      /\ held'[p] = held[p] \union {link} /\ \A q \in Procs \ {p} : held'[q] = held[q]
  BY <1>1, <1>2 DEF StoreInv, StoreTypes
<1>4. \A q \in Procs : link \notin held[q] /\ held[q] \subseteq Links
  BY <1>1 DEF StoreInv, StoreTypes, HeldOK
<1>5. HeldOK(p)'
  BY <1>3, <1>4 DEF StoreInv, HeldOK
<1>6. ASSUME NEW q \in Procs \ {p} PROVE HeldOK(q)'
  BY <1>3, <1>4, <1>6 DEF StoreInv, HeldOK
<1> QED
  BY <1>3, <1>5, <1>6

LEMMA TakeBackHeld ==
  ASSUME StoreInv, NEW p \in Procs, pc[p] = "save", op[p].kind = "releaseNonce", TakeBack(p),
         UNCHANGED op, \A q \in Procs \ {p} : pc'[q] = pc[q],
         pc'[p] \notin {"lock", "load", "read", "decide", "save"}
  PROVE  /\ grants' \in [Links -> {0, 1}] /\ held' \in [Procs -> SUBSET Links]
         /\ grants'[op[p].link] = 0
         /\ \A l \in Links \ {op[p].link} : grants'[l] = grants[l]
         /\ \A q \in Procs : HeldOK(q)'
<1> DEFINE link == op[p].link
<1>1. link \in Links /\ link \in held[p] /\ grants[link] = 1
  BY SaverAlone DEF StoreInv, HeldOK
<1>2. grants' = [grants EXCEPT ![link] = 0] /\ held' = [held EXCEPT ![p] = held[p] \ {link}]
  <2>1. grants' = [grants EXCEPT ![link] = grants[link] - 1]
    BY DEF TakeBack
  <2>2. grants[link] - 1 = 0
    BY <1>1
  <2> QED
    BY <2>1, <2>2 DEF TakeBack
<1>3. /\ grants' \in [Links -> {0, 1}] /\ held' \in [Procs -> SUBSET Links]
      /\ grants'[link] = 0 /\ \A l \in Links \ {link} : grants'[l] = grants[l]
      /\ held'[p] = held[p] \ {link} /\ \A q \in Procs \ {p} : held'[q] = held[q]
  BY <1>1, <1>2 DEF StoreInv, StoreTypes
<1>4. /\ \A q \in Procs : held[q] \subseteq Links
      /\ \A q \in Procs \ {p} : link \notin held[q]
  BY <1>1 DEF StoreInv, StoreTypes, HeldOK
<1>5. HeldOK(p)'
  BY <1>3, <1>4 DEF StoreInv, HeldOK
<1>6. ASSUME NEW q \in Procs \ {p} PROVE HeldOK(q)'
  BY <1>3, <1>4, <1>6 DEF StoreInv, HeldOK
<1> QED
  BY <1>3, <1>5, <1>6

LEMMA RenameKeeps ==
  ASSUME NoProcIsNone, StoreInv, NEW p \in Procs, Rename(p)
  PROVE  StoreInv'
<1> DEFINE link == op[p].link
<1>1. /\ pc[p] = "save" /\ pc' = [pc EXCEPT ![p] = "stat"]
      /\ file' = [used |-> cache[p].set, version |-> file.version + 1]
      /\ UNCHANGED <<cache, lock, op, seen, unsaved>>
  BY DEF Rename, Goto
<1>2. /\ Writing(p) /\ lock = p /\ cache[p].version = file.version
      /\ op[p].kind \in {"markUsed", "releaseNonce"} /\ link \in Links
      /\ \A q \in Procs \ {p} : ~Writing(q) /\ pc[q] \notin {"save", "stat"}
  BY <1>1, SaverAlone
<1>3. /\ pc'[p] = "stat" /\ file'.used = cache[p].set /\ file'.version = file.version + 1
      /\ file.version \in Nat /\ cache[p].set \in SUBSET Links
      /\ \A q \in Procs \ {p} : pc'[q] = pc[q]
  BY <1>1 DEF StoreInv, StoreTypes
<1>4. /\ grants' \in [Links -> {0, 1}] /\ held' \in [Procs -> SUBSET Links]
      /\ grants'[link] = IF op[p].kind = "markUsed" THEN 1 ELSE 0
      /\ \A l \in Links \ {link} : grants'[l] = grants[l]
      /\ \A q \in Procs : HeldOK(q)'
  BY <1>1, <1>2, <1>3, HandOutHeld, TakeBackHeld DEF Rename
<1>5. StoreTypes'
  <2>1. file' \in [used : SUBSET Links, version : Nat]
    BY <1>1, <1>3
  <2>2. pc' \in [Procs -> Places]
    BY <1>1 DEF StoreInv, StoreTypes, Places
  <2> QED
    BY <1>1, <1>4, <2>1, <2>2 DEF StoreInv, StoreTypes
<1>6. LockOK'
  BY <1>1, <1>2, <1>3 DEF StoreInv, LockOK, Writing, Working
<1>7. \A q \in Procs : cache[q].version <= file.version /\ seen[q] <= file.version
                       /\ cache[q].version \in Int /\ seen[q] \in Int
  BY DEF StoreInv, StoreTypes, KnownOK
<1>8. \A q \in Procs : KnownOK(q)'
  <2>1. KnownOK(p)'
    BY <1>1, <1>2, <1>3, <1>7 DEF KnownOK
  <2>2. ASSUME NEW q \in Procs \ {p} PROVE KnownOK(q)'
    BY <1>1, <1>2, <1>3, <1>7, <2>2 DEF StoreInv, KnownOK, Writing
  <2> QED
    BY <2>1, <2>2
<1>9. \A q \in Procs : cache'[q].version # file'.version
  BY <1>1, <1>3, <1>7
<1>10. \A q \in Procs : Coherent(q)'
  BY <1>9 DEF Coherent
<1>11. GrantsOK'
  <2> SUFFICES ASSUME NEW l \in Links
               PROVE  /\ grants'[l] = 1 => l \in file'.used
                      /\ l \in file'.used => grants'[l] = 1 \/ l \in unsaved
    BY <1>1, <1>9 DEF GrantsOK
  <2>1. link \in cache[p].set <=> op[p].kind = "markUsed"
    BY <1>1 DEF StoreInv, KnownOK
  <2>2. CASE l = link
    BY <1>2, <1>3, <1>4, <2>1, <2>2
  <2>3. CASE l # link
    <3>1. grants[l] = 1 => l \in cache[p].set
      BY <1>2, <2>3 DEF StoreInv, GrantsOK
    <3>2. l \in cache[p].set => l \in file.used \/ l \in unsaved
      BY <1>2, <2>3 DEF StoreInv, Coherent
    <3>3. l \in file.used => grants[l] = 1 \/ l \in unsaved
      BY DEF StoreInv, GrantsOK
    <3> QED
      BY <1>3, <1>4, <2>3, <3>1, <3>2, <3>3
  <2> QED
    BY <2>2, <2>3
<1> QED
  BY <1>4, <1>5, <1>6, <1>8, <1>10, <1>11 DEF StoreInv

LEMMA SaveFailsKeeps ==
  ASSUME NoProcIsNone, StoreInv, NEW p \in Procs, SaveFails(p)
  PROVE  StoreInv'
<1> DEFINE link == op[p].link
<1>1. /\ pc[p] = "save" /\ pc' = [pc EXCEPT ![p] = "idle"]
      /\ lock' = IF lock = p THEN NoProc ELSE lock
      /\ unsaved' = unsaved \union {link}
      /\ UNCHANGED <<file, cache, op, seen>>
  BY DEF SaveFails, Return, Goto
<1>2. /\ Writing(p) /\ lock = p /\ cache[p].version = file.version
      /\ op[p].kind \in {"markUsed", "releaseNonce"} /\ link \in Links
      /\ \A q \in Procs \ {p} : ~Writing(q) /\ pc[q] \notin {"save", "stat"}
  BY <1>1, SaverAlone
<1>3. pc'[p] = "idle" /\ \A q \in Procs \ {p} : pc'[q] = pc[q]
  BY <1>1 DEF StoreInv, StoreTypes
<1>4. /\ grants' \in [Links -> {0, 1}] /\ held' \in [Procs -> SUBSET Links]
      /\ \A l \in Links : grants'[l] = grants[l] \/ (l = link /\ grants'[l] = 0)
      /\ \A q \in Procs : HeldOK(q)'
  <2>1. CASE op[p].kind = "releaseNonce"
    BY <1>1, <1>3, <2>1, TakeBackHeld DEF SaveFails
  <2>2. CASE op[p].kind = "markUsed"
    <3>1. UNCHANGED <<held, grants>>
      BY <2>2 DEF SaveFails
    <3> QED
      BY <1>1, <1>3, <3>1 DEF StoreInv, StoreTypes, HeldOK
  <2> QED
    BY <1>2, <2>1, <2>2
<1>5. StoreTypes'
  BY <1>1, <1>2, <1>4 DEF StoreInv, StoreTypes, Places
<1>6. LockOK'
  BY <1>1, <1>2, <1>3 DEF StoreInv, LockOK, Writing, Working, NoProcIsNone
<1>7. \A q \in Procs : KnownOK(q)'
  <2>1. KnownOK(p)'
    BY <1>1, <1>3 DEF StoreInv, KnownOK, Writing, Working
  <2>2. ASSUME NEW q \in Procs \ {p} PROVE KnownOK(q)'
    BY <1>1, <1>2, <1>3, <2>2 DEF StoreInv, KnownOK, Writing
  <2> QED
    BY <2>1, <2>2
<1>8. \A q \in Procs : Coherent(q)'
  <2>1. Coherent(p)'
    BY <1>1, <1>3 DEF StoreInv, Coherent
  <2>2. ASSUME NEW q \in Procs \ {p} PROVE Coherent(q)'
    BY <1>1, <1>3, <2>2 DEF StoreInv, Coherent
  <2> QED
    BY <2>1, <2>2
<1>9. GrantsOK'
  <2> SUFFICES ASSUME NEW l \in Links
               PROVE  /\ grants'[l] = 1 =>
                           /\ l \in file'.used
                           /\ \A q \in Procs : cache'[q].version = file'.version =>
                                l \in cache'[q].set
                      /\ l \in file'.used => grants'[l] = 1 \/ l \in unsaved'
    BY DEF GrantsOK
  <2>1. CASE l = link
    <3>1. op[p].kind = "markUsed" => grants[link] = 0
      BY <1>1 DEF StoreInv, KnownOK
    <3>2. op[p].kind = "releaseNonce" => grants'[link] = 0
      BY <1>1, <1>2, <1>3, TakeBackHeld DEF SaveFails
    <3>3. grants'[link] = 0
      BY <1>2, <1>4, <3>1, <3>2
    <3> QED
      BY <1>1, <2>1, <3>3
  <2>2. CASE l # link
    <3>1. grants'[l] = grants[l]
      BY <1>4, <2>2
    <3>2. \A q \in Procs : grants[l] = 1 /\ cache[q].version = file.version => l \in cache[q].set
      BY <1>2, <2>2 DEF StoreInv, GrantsOK
    <3> QED
      BY <1>1, <3>1, <3>2 DEF StoreInv, GrantsOK
  <2> QED
    BY <2>1, <2>2
<1> QED
  BY <1>4, <1>5, <1>6, <1>7, <1>8, <1>9 DEF StoreInv

LEMMA StatFileKeeps ==
  ASSUME NoProcIsNone, StoreInv, NEW p \in Procs, StatFile(p)
  PROVE  StoreInv'
<1>1. /\ pc[p] = "stat" /\ pc' = [pc EXCEPT ![p] = "idle"]
      /\ lock' = IF lock = p THEN NoProc ELSE lock
      /\ cache' = [cache EXCEPT ![p] = [set |-> cache[p].set, version |-> file.version]]
      /\ UNCHANGED <<file, op, seen, held, grants, unsaved>>
  BY DEF StatFile, Return, Goto
<1>2. /\ pc'[p] = "idle" /\ cache'[p].set = file.used /\ cache'[p].version = file.version
      /\ \A q \in Procs \ {p} : pc'[q] = pc[q] /\ cache'[q] = cache[q]
  BY <1>1 DEF StoreInv, StoreTypes, KnownOK
<1>3. StoreTypes'
  BY <1>1 DEF StoreInv, StoreTypes, Places
<1>4. LockOK'
  BY <1>1, <1>2 DEF StoreInv, LockOK, KnownOK, Writing, Working, NoProcIsNone
<1>5. \A q \in Procs : KnownOK(q)'
  <2>1. KnownOK(p)'
    BY <1>1, <1>2 DEF StoreInv, StoreTypes, KnownOK, Writing, Working
  <2>2. ASSUME NEW q \in Procs \ {p} PROVE KnownOK(q)'
    BY <1>1, <1>2, <2>2 DEF StoreInv, KnownOK, Writing
  <2> QED
    BY <2>1, <2>2
<1>6. \A q \in Procs : Coherent(q)'
  BY <1>1, <1>2 DEF StoreInv, Coherent
<1>7. GrantsOK'
  BY <1>1, <1>2 DEF StoreInv, GrantsOK
<1>8. \A q \in Procs : HeldOK(q)'
  BY <1>1, <1>2 DEF StoreInv, HeldOK
<1> QED
  BY <1>3, <1>4, <1>5, <1>6, <1>7, <1>8 DEF StoreInv

LEMMA CrashKeeps ==
  ASSUME NoProcIsNone, StoreInv, NEW p \in Procs, Crash(p)
  PROVE  StoreInv'
<1>1. /\ pc' = [pc EXCEPT ![p] = "idle"]
      /\ lock' = IF lock = p THEN NoProc ELSE lock
      /\ cache' = [cache EXCEPT ![p] = [set |-> {}, version |-> -1]]
      /\ held' = [held EXCEPT ![p] = {}]
      /\ UNCHANGED <<file, op, seen, grants, unsaved>>
  BY DEF Crash, Return, Goto, NoCache
<1>2. /\ pc'[p] = "idle" /\ cache'[p].set = {} /\ cache'[p].version = -1 /\ held'[p] = {}
      /\ \A q \in Procs \ {p} : pc'[q] = pc[q] /\ cache'[q] = cache[q] /\ held'[q] = held[q]
  BY <1>1 DEF StoreInv, StoreTypes
<1>3. StoreTypes'
  BY <1>1 DEF StoreInv, StoreTypes, Places
<1>4. LockOK'
  BY <1>1, <1>2 DEF StoreInv, LockOK, Writing, Working, NoProcIsNone
<1>5. file.version \in Nat /\ file.version # -1
  BY DEF StoreInv, StoreTypes
<1>6. \A q \in Procs : KnownOK(q)'
  <2>1. KnownOK(p)'
    BY <1>1, <1>2, <1>5 DEF StoreInv, KnownOK, Writing, Working
  <2>2. ASSUME NEW q \in Procs \ {p} PROVE KnownOK(q)'
    BY <1>1, <1>2, <2>2 DEF StoreInv, KnownOK, Writing
  <2> QED
    BY <2>1, <2>2
<1>7. \A q \in Procs : Coherent(q)'
  BY <1>1, <1>2, <1>5 DEF StoreInv, Coherent
<1>8. GrantsOK'
  BY <1>1, <1>2, <1>5 DEF StoreInv, GrantsOK
<1>9. \A q \in Procs : HeldOK(q)'
  BY <1>1, <1>2 DEF StoreInv, HeldOK
<1> QED
  BY <1>3, <1>4, <1>6, <1>7, <1>8, <1>9 DEF StoreInv

LEMMA NextStore ==
  ASSUME NoProcIsNone, StoreInv, [Next]_vars
  PROVE  StoreInv'
<1>1. ASSUME NEW p \in Procs, AcquireLock(p) \/ LockTimeout(p) \/ IsUsed(p) \/ Refuse(p)
      PROVE  StoreInv'
  <2>1. CASE AcquireLock(p)
    BY <2>1, MoveKeeps DEF AcquireLock, Goto
  <2>2. CASE Refuse(p)
    BY <2>2, MoveKeeps DEF Refuse, Return, Goto
  <2>3. CASE LockTimeout(p) \/ IsUsed(p)
    <3>1. lock # p
      BY <2>3 DEF LockTimeout, IsUsed, StoreInv, LockOK, Writing, Working
    <3> QED
      BY <2>3, <3>1, MoveKeeps DEF LockTimeout, IsUsed, Goto
  <2> QED
    BY <1>1, <2>1, <2>2, <2>3
<1>2. CASE Next
  BY <1>1, <1>2, CallKeeps, LoadVersionKeeps, ReadFileKeeps, ChangeKeeps, RenameKeeps,
     SaveFailsKeeps, StatFileKeeps, CrashKeeps DEF Next, Step
<1>3. CASE UNCHANGED vars
  BY <1>3 DEF vars, StoreInv, StoreTypes, LockOK, Writing, KnownOK, Coherent, GrantsOK, HeldOK
<1> QED
  BY <1>2, <1>3

(* Versions stay within the number of saves.                               *)
VersionsOK ==
  /\ file.version <= MaxWrites
  /\ \A p \in Procs : cache[p].version \in Versions /\ seen[p] \in Versions

LEMMA InitVersions == ASSUME MaxWrites \in Nat, Init PROVE VersionsOK
  BY DEF Init, VersionsOK, Versions, NoCache

LEMMA NextVersions ==
  ASSUME MaxWrites \in Nat, StoreTypes, VersionsOK, [Next]_vars
  PROVE  VersionsOK'
<1> DEFINE Seen == \A p \in Procs : cache'[p].version \in Versions /\ seen'[p] \in Versions
<1>1. /\ NoCache \in Versions /\ file.version \in Versions /\ file.version \in Nat
      /\ cache \in [Procs -> [set : SUBSET Links, version : Int]]
      /\ seen \in [Procs -> Nat]
  BY DEF StoreTypes, VersionsOK, Versions, NoCache
<1>2. file'.version <= MaxWrites
  <2>1. ASSUME NEW p \in Procs, Rename(p)
        PROVE  file.version < MaxWrites /\ file'.version = file.version + 1
    BY <2>1 DEF Rename
  <2>2. file' = file \/ \E p \in Procs : Rename(p)
    BY DEF Next, Step, Call, AcquireLock, LockTimeout, LoadVersion, ReadFile, IsUsed, Refuse, Add,
       Delete, SaveFails, StatFile, Crash, vars
  <2> QED
    BY <1>1, <2>1, <2>2 DEF VersionsOK
<1>3. ASSUME NEW p \in Procs, NEW set, NEW version \in Versions, UNCHANGED seen,
             cache' = [cache EXCEPT ![p] = [set |-> set, version |-> version]]
      PROVE  Seen
  BY <1>1, <1>3 DEF VersionsOK
<1>4. ASSUME UNCHANGED <<cache, seen>> PROVE Seen
  BY <1>4 DEF VersionsOK
<1>5. ASSUME NEW p \in Procs, LoadVersion(p) PROVE Seen
  BY <1>1, <1>5 DEF LoadVersion, VersionsOK
<1>6. ASSUME NEW p \in Procs,
             ReadFile(p) \/ Add(p) \/ Delete(p) \/ StatFile(p) \/ Crash(p)
      PROVE  Seen
  <2>1. PICK set : /\ UNCHANGED seen
                   /\ \E version \in {seen[p], cache[p].version, file.version, NoCache} :
                        cache' = [cache EXCEPT ![p] = [set |-> set, version |-> version]]
    BY <1>6 DEF ReadFile, Add, Delete, StatFile, Crash
  <2>2. {seen[p], cache[p].version, file.version, NoCache} \subseteq Versions
    BY <1>1 DEF VersionsOK
  <2> QED
    BY <1>3, <2>1, <2>2
<1>7. Seen
  <2> HIDE DEF Seen
  <2>1. CASE UNCHANGED vars
    BY <1>4, <2>1 DEF vars
  <2>2. ASSUME NEW p \in Procs, NEW kind \in Kinds, NEW link \in Links, Call(p, kind, link)
        PROVE  Seen
    BY <1>4, <2>2 DEF Call
  <2>3. ASSUME NEW p \in Procs, Step(p) PROVE Seen
    BY <1>4, <1>5, <1>6, <2>3 DEF Step, AcquireLock, LockTimeout, IsUsed, Refuse, Rename, SaveFails
  <2> QED
    BY <2>1, <2>2, <2>3 DEF Next
<1> QED
  BY <1>2, <1>7 DEF VersionsOK, Versions

LEMMA StoreTypesFollow == ASSUME StoreInv, VersionsOK PROVE TypeOK
<1>1. file \in [used : SUBSET Links, version : 0 .. MaxWrites]
  BY DEF StoreInv, StoreTypes, VersionsOK
<1>2. cache \in [Procs -> [set : SUBSET Links, version : Versions]] /\ seen \in [Procs -> Versions]
  BY DEF StoreInv, StoreTypes, VersionsOK
<1>3. grants \in [Links -> Nat]
  BY DEF StoreInv, StoreTypes
<1> QED
  BY <1>1, <1>2, <1>3 DEF StoreInv, StoreTypes, TypeOK

-----------------------------------------------------------------------------

(* No link is outstanding twice, whatever the interleaving of cached       *)
(* reads, locked writes, give-backs and crashes.                           *)
THEOREM LinksHandedOnce == ASSUME NoProcIsNone PROVE Spec => []HandedOnce
<1>1. Init => StoreInv
  BY InitStore
<1>2. StoreInv /\ [Next]_vars => StoreInv'
  BY NextStore
<1>3. StoreInv => HandedOnce
  BY DEF StoreInv, StoreTypes, HandedOnce
<1> QED
  BY <1>1, <1>2, <1>3, PTL DEF Spec

(* A cache under the file's version is the file's set, but for the link    *)
(* about to be saved and those that a save failed to write.                *)
THEOREM CachesAreCoherent == ASSUME NoProcIsNone PROVE Spec => []CacheCoherent
<1>1. Init => StoreInv
  BY InitStore
<1>2. StoreInv /\ [Next]_vars => StoreInv'
  BY NextStore
<1>3. StoreInv => CacheCoherent
  BY DEF StoreInv, Coherent, CacheCoherent
<1> QED
  BY <1>1, <1>2, <1>3, PTL DEF Spec

LEMMA RefusalFollows == ASSUME StoreInv PROVE RefusedHasCause
<1> SUFFICES ASSUME NEW p \in Procs, Refusing(p)
             PROVE  grants[op[p].link] >= 1 \/ op[p].link \in unsaved
  BY DEF RefusedHasCause
<1>1. /\ pc[p] = "decide" /\ op[p].kind = "markUsed" /\ op[p].link \in cache[p].set
      /\ op[p].link \in Links
  BY DEF Refusing, StoreInv, StoreTypes
<1>2. cache[p].version = file.version
  BY <1>1 DEF StoreInv, KnownOK, Writing, Working
<1>3. op[p].link \in file.used \/ op[p].link \in unsaved
  BY <1>1, <1>2 DEF StoreInv, Coherent
<1> QED
  BY <1>1, <1>3 DEF StoreInv, GrantsOK

(* A refused link was handed out, or a save failed to write it.            *)
THEOREM RefusalsHaveCause == ASSUME NoProcIsNone PROVE Spec => []RefusedHasCause
<1>1. Init => StoreInv
  BY InitStore
<1>2. StoreInv /\ [Next]_vars => StoreInv'
  BY NextStore
<1>3. StoreInv => RefusedHasCause
  BY RefusalFollows
<1> QED
  BY <1>1, <1>2, <1>3, PTL DEF Spec

(* A save that succeeds consumes or gives back one link, one that fails    *)
(* takes its link out of what counts as saved.                             *)
LEMMA FileIsRegister ==
  ASSUME NoProcIsNone, StoreInv, [Next]_vars
  PROVE  [Register!Next]_saved
<1>1. ASSUME NEW link \in Links, saved' = saved \union {link} \/ saved' = saved \ {link}
      PROVE  [Register!Next]_saved
  BY <1>1 DEF Register!Next, Register!Consume, Register!GiveBack
<1>2. ASSUME NEW p \in Procs, Rename(p) PROVE [Register!Next]_saved
  <2> DEFINE link == op[p].link
  <2>1. pc[p] = "save" /\ file'.used = cache[p].set /\ unsaved' = unsaved
    BY <1>2 DEF Rename
  <2>2. link \in Links /\ cache[p].version = file.version
    BY <2>1, SaverAlone
  <2>3. cache[p].set \subseteq Links /\ file.used \subseteq Links
    BY DEF StoreInv, StoreTypes
  <2>4. \A l \in Links \ {link} : l \in cache[p].set \ unsaved <=> l \in file.used \ unsaved
    BY <2>1, <2>2 DEF StoreInv, Coherent
  <2>5. saved' = saved \union {link} \/ saved' = saved \ {link}
    BY <2>1, <2>2, <2>3, <2>4 DEF saved
  <2> QED
    BY <1>1, <2>2, <2>5
<1>3. ASSUME NEW p \in Procs, SaveFails(p) PROVE [Register!Next]_saved
  <2>1. op[p].link \in Links /\ file' = file /\ unsaved' = unsaved \union {op[p].link}
    BY <1>3 DEF SaveFails, StoreInv, StoreTypes
  <2>2. saved' = saved \ {op[p].link}
    BY <2>1 DEF saved
  <2> QED
    BY <1>1, <2>1, <2>2
<1>4. CASE UNCHANGED <<file, unsaved>>
  BY <1>4 DEF saved
<1> QED
  BY <1>2, <1>3, <1>4 DEF Next, Step, Call, AcquireLock, LockTimeout, LoadVersion, ReadFile, IsUsed,
     Refuse, Add, Delete, StatFile, Crash, vars

(* The used-nonces file, as far as its saves succeed, is the register of   *)
(* consumed links that all processes see as one.                           *)
THEOREM StoreImplementsRegister == ASSUME NoProcIsNone PROVE Spec => RegisterSpec
<1>1. Init => StoreInv
  BY InitStore
<1>2. StoreInv /\ [Next]_vars => StoreInv'
  BY NextStore
<1>3. StoreInv /\ [Next]_vars => [Register!Next]_saved
  BY FileIsRegister
<1>4. Init => Register!Init
  BY DEF Init, Register!Init, saved
<1> QED
  BY <1>1, <1>2, <1>3, <1>4, PTL DEF Spec, RegisterSpec, Register!Spec
=============================================================================
