------------------------------- MODULE Cutover ------------------------------
(***************************************************************************)
(* The cutover from V1 to V2: contracts/scripts/deploy-v2.ts, which may    *)
(* die anywhere, and finish-cutover.ts, which the operator runs until it   *)
(* gets through.  All transactions are the deployer's, so they are mined   *)
(* in the order they were sent; one that was sent before a crash may still *)
(* be mined while the next run reads the roles.  V1 changes its admins     *)
(* until the first script starts.                                          *)
(***************************************************************************)
EXTENDS Naturals, Sequences

CONSTANTS
  Accounts,
  Deployer,
  Lecturers,     \* those who get and lose ADMIN_ROLE on V1
  Targets,       \* what ADMIN_ADDRESS may be
  Minters,       \* what MINTER_ADDRESS may be
  Surveys,       \* V1 survey ids: 1..n
  AdminLists, Excludes,  \* what V1_ADMINS and EXCLUDE_FROM_ADMIN_MIGRATION may be
  MissLimit,     \* the enumeration stops after so many unknown ids in a row
  MaxCrashes     \* bound

VARIABLES
  env,           \* the environment variables the operator sets
  v1Admins, v1Granted, v1Revoked,  \* holders of ADMIN_ROLE on V1, and its logs
  v1Known, v1Active,               \* surveys of V1
  proxy,         \* the V2 proxy is deployed
  members,       \* role -> its holders on V2
  queue,         \* transactions sent and not mined yet
  script, pc,
  waiting,       \* the script waits for the last transaction of the queue
  todo,          \* admins still to migrate, or surveys still to deactivate
  crashes

vars == <<env, v1Admins, v1Granted, v1Revoked, v1Known, v1Active, proxy, members, queue,
          script, pc, waiting, todo, crashes>>

Roles == {"DEFAULT_ADMIN", "ADMIN", "MINTER"}

Environments ==
  [target : Targets, minter : Minters, keep : BOOLEAN, skip : BOOLEAN,
   admins : AdminLists, exclude : Excludes]

Init ==
  /\ env \in {e \in Environments : e.admins \intersect e.exclude = {}}
  /\ v1Admins = {Deployer} /\ v1Granted = {Deployer} /\ v1Revoked = {}
  /\ v1Known \in SUBSET Surveys /\ v1Active = v1Known
  /\ proxy = FALSE /\ members = [r \in Roles |-> {}] /\ queue = <<>>
  /\ script = "none" /\ pc = "idle" /\ waiting = FALSE /\ todo = {} /\ crashes = 0

\* V1's admins change until the scripts run.
V1Changes(a) ==
  /\ pc = "idle" /\ crashes = 0
  /\ IF a \in v1Admins
     THEN /\ v1Admins # {a}
          /\ v1Admins' = v1Admins \ {a}
          /\ v1Revoked' = v1Revoked \union {a} /\ UNCHANGED v1Granted
     ELSE /\ v1Admins' = v1Admins \union {a}
          /\ v1Granted' = v1Granted \union {a} /\ UNCHANGED v1Revoked
  /\ UNCHANGED <<env, v1Known, v1Active, proxy, members, queue, script, pc, waiting, todo, crashes>>

-----------------------------------------------------------------------------
(* The chain.                                                              *)

RoleAdmin(role) == IF role = "DEFAULT_ADMIN" THEN "DEFAULT_ADMIN" ELSE "ADMIN"

\* addAdmin, grantRole, revokeRole, removeAdmin (never the last admin) and
\* renounceRole, as the deployer calls them.
Allowed(t) ==
  \/ t.do = "renounce"
  \/ /\ t.do \in {"grant", "revoke"} /\ Deployer \in members[RoleAdmin(t.role)]
     /\ t.do = "revoke" /\ t.role = "ADMIN" /\ t.to \in members["ADMIN"] =>
          members["ADMIN"] # {t.to}
  \/ t.do = "deactivate" /\ Deployer \in v1Admins

MembersAfter(t) ==
  IF t.do = "deactivate" \/ ~Allowed(t) THEN members
  ELSE [members EXCEPT ![t.role] =
          IF t.do = "grant" THEN @ \union {t.to} ELSE @ \ {t.to}]

\* The oldest transaction is mined; one that may not do it changes nothing,
\* and if the script waited for it, that ends the script.
Mine ==
  LET t == Head(queue)
      own == waiting /\ Len(queue) = 1
      fails == own /\ ~Allowed(t) /\ t.do # "deactivate" IN
  /\ queue # <<>>
  /\ queue' = Tail(queue)
  /\ waiting' = (waiting /\ ~own)
  /\ members' = MembersAfter(t)
  /\ v1Active' = (IF t.do = "deactivate" /\ Allowed(t) THEN v1Active \ {t.to} ELSE v1Active)
  /\ pc' = (IF fails THEN "idle" ELSE pc)
  /\ todo' = (IF fails THEN {} ELSE todo)
  /\ UNCHANGED <<env, v1Admins, v1Granted, v1Revoked, v1Known, proxy, script, crashes>>

-----------------------------------------------------------------------------
(* The scripts.  A script sends one transaction at a time and waits for    *)
(* it; what it reads in between may be older than its last run's queue.    *)

Grant(role, to) == [do |-> "grant", role |-> role, to |-> to]
Revoke(role, to) == [do |-> "revoke", role |-> role, to |-> to]

\* enumerateActiveSurveys: a run of unknown ids ends it.
Enumerated ==
  {id \in v1Active :
     ~ \E last \in 1..(id - 1) :
         last >= MissLimit /\ \A i \in (last - MissLimit + 1)..last : i \notin v1Known}

\* Those the plan migrates: the list of the operator as far as V1 agrees,
\* or what is left of the logs.
Replayed == v1Granted \ v1Revoked

PlanAdmins ==
  (IF env.admins # {} THEN env.admins \intersect v1Admins ELSE Replayed) \ {Deployer}

\* buildMigrationPlan and the deployment of the proxy.
Deploy ==
  /\ pc = "idle" /\ ~proxy
  /\ script' = "deploy" /\ pc' = "migrate"
  /\ proxy' = TRUE
  /\ members' = [r \in Roles |-> {Deployer}]
  /\ todo' = PlanAdmins \ env.exclude
  /\ UNCHANGED <<env, v1Admins, v1Granted, v1Revoked, v1Known, v1Active, queue, waiting, crashes>>

\* finish-cutover.ts reads no logs and knows no excludes.
Finish ==
  /\ pc = "idle" /\ proxy
  /\ script' = "finish" /\ pc' = "migrate"
  /\ todo' = ((env.admins \intersect v1Admins) \ {Deployer}) \ members["ADMIN"]
  /\ UNCHANGED <<env, v1Admins, v1Granted, v1Revoked, v1Known, v1Active, proxy, members, queue, waiting, crashes>>

Places == <<"migrate", "deactivate", "grantDefault", "grantAdmin", "grantMinter",
            "revokeMinter", "relayer", "dropAdmin", "dropDefault", "done">>

After(place) == Places[(CHOOSE i \in 1..9 : Places[i] = place) + 1]

HandsOver == env.target # Deployer

\* The transaction of a place, and whether it is to be sent at all.
Transaction(place) ==
  CASE place = "grantDefault" -> Grant("DEFAULT_ADMIN", env.target)
    [] place = "grantAdmin"   -> Grant("ADMIN", env.target)
    [] place = "grantMinter"  -> Grant("MINTER", env.minter)
    [] place = "revokeMinter" -> Revoke("MINTER", Deployer)
    [] place = "relayer"      -> Grant("ADMIN", env.minter)
    [] place = "dropAdmin"    -> Revoke("ADMIN", Deployer)
    [] place = "dropDefault"  -> [do |-> "renounce", role |-> "DEFAULT_ADMIN", to |-> Deployer]

WrongNeeded(place) ==
  LET t == Transaction(place) IN
  CASE place \in {"grantDefault", "grantAdmin"} -> HandsOver /\ env.keep
    [] place = "grantMinter"  -> env.minter # Deployer /\ t.to \notin members[t.role]
    [] place = "revokeMinter" -> env.minter # Deployer /\ ~env.keep
    [] place = "relayer"      -> t.to \notin members[t.role]
    [] OTHER -> HandsOver /\ ~env.keep /\ t.to \in members[t.role]

Needed(place) ==
  LET t == Transaction(place)
      holds == t.to \in members[t.role] IN
  CASE place \in {"grantDefault", "grantAdmin"} -> HandsOver /\ ~holds
    [] place = "grantMinter"  -> env.minter # Deployer /\ ~holds
    [] place = "revokeMinter" ->
         env.minter # Deployer /\ ~env.keep /\ (script = "finish" => holds)
    [] place = "relayer"      -> ~holds
    [] OTHER -> HandsOver /\ ~env.keep /\ holds

\* The surveys a script takes on when it comes to them.
ToDeactivate == IF env.skip \/ Deployer \notin v1Admins THEN {} ELSE Enumerated

Enter(place) ==
  /\ pc' = place
  /\ todo' = (IF place = "deactivate" THEN ToDeactivate ELSE {})

SendNow(t) ==
  /\ ~waiting /\ Allowed(t)
  /\ queue' = Append(queue, t)
  /\ waiting' = TRUE
  /\ UNCHANGED <<env, v1Admins, v1Granted, v1Revoked, v1Known, v1Active, proxy, members, script, crashes>>

Quiet == ~waiting /\ UNCHANGED <<env, v1Admins, v1Granted, v1Revoked, v1Known, v1Active, proxy, members, queue, script, waiting, crashes>>

Send(place) ==
  /\ pc = place /\ Needed(place)
  /\ SendNow(Transaction(place))
  /\ Enter(After(place))

Skip(place) ==
  /\ pc = place /\ ~Needed(place)
  /\ Quiet
  /\ Enter(After(place))

MigrateOne(a) ==
  /\ pc = "migrate" /\ a \in todo
  /\ SendNow(Grant("ADMIN", a))
  /\ todo' = todo \ {a} /\ UNCHANGED pc

\* deactivateSurvey may fail without ending the script.
DeactivateOne(id) ==
  /\ pc = "deactivate" /\ id \in todo
  /\ Quiet \/ SendNow([do |-> "deactivate", role |-> "none", to |-> id])
  /\ todo' = todo \ {id} /\ UNCHANGED pc

ListDone ==
  /\ pc \in {"migrate", "deactivate"} /\ todo = {}
  /\ Quiet
  /\ Enter(After(pc))

\* A transaction that the estimate turns down ends the script.
Reverts ==
  /\ \/ pc = "migrate" /\ \E a \in todo : ~Allowed(Grant("ADMIN", a))
     \/ /\ pc \in {Places[i] : i \in 3..9}
        /\ Needed(pc) /\ ~Allowed(Transaction(pc))
  /\ Quiet
  /\ pc' = "idle" /\ todo' = {}

\* The script or its RPC dies; a transaction on its way stays on its way.
Crash ==
  /\ pc # "idle" /\ crashes < MaxCrashes
  /\ crashes' = crashes + 1
  /\ pc' = "idle" /\ todo' = {} /\ waiting' = FALSE
  /\ UNCHANGED <<env, v1Admins, v1Granted, v1Revoked, v1Known, v1Active, proxy, members, queue, script>>

Run ==
  \/ Deploy \/ Finish \/ ListDone \/ Reverts
  \/ \E a \in Accounts : MigrateOne(a)
  \/ \E id \in Surveys : DeactivateOne(id)
  \/ \E i \in 3..9 : Send(Places[i]) \/ Skip(Places[i])

Next == (\E a \in Lecturers : V1Changes(a)) \/ Mine \/ Run \/ Crash

\* The operator runs the scripts until they get through; the chain mines.
Fairness == WF_vars(Mine) /\ WF_vars(Run)

Spec == Init /\ [][Next]_vars /\ Fairness

-----------------------------------------------------------------------------
(* Properties.                                                             *)

Done == pc = "done" /\ ~waiting

\* Types.
TypeOK ==
  /\ env \in Environments
  /\ {v1Admins, v1Granted, v1Revoked} \subseteq SUBSET Accounts
  /\ v1Granted \ v1Revoked \subseteq v1Admins /\ v1Admins \subseteq v1Granted
  /\ v1Active \subseteq v1Known /\ v1Known \subseteq Surveys
  /\ members \in [Roles -> SUBSET Accounts] /\ proxy \in BOOLEAN
  /\ Len(queue) <= MaxCrashes + 1 /\ (waiting => queue # <<>>)
  /\ script \in {"none", "deploy", "finish"} /\ crashes \in 0..MaxCrashes
  /\ pc \in {"idle"} \union {Places[i] : i \in 1..10}
  /\ todo \subseteq Accounts \union Surveys

\* Wherever a script dies, and whatever it had sent, the new contract can
\* still be governed: the deployer or the target admin holds ADMIN_ROLE and
\* one of them DEFAULT_ADMIN_ROLE.
OwnerIsThere ==
  proxy => \A r \in {"ADMIN", "DEFAULT_ADMIN"} :
             members[r] \intersect {Deployer, env.target} # {}

\* However often the scripts die, running finish-cutover.ts again gets the
\* cutover done, with the roles where the environment wants them.
HandedOver ==
  /\ env.target \in members["ADMIN"] \intersect members["DEFAULT_ADMIN"]
  /\ env.minter \in members["ADMIN"] \intersect members["MINTER"]
  /\ HandsOver /\ ~env.keep => \A r \in Roles : Deployer \notin members[r]

CutOver == Done /\ queue = <<>> /\ HandedOver

CutoverEnds == <>CutOver
=============================================================================
