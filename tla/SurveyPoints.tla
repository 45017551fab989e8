---------------------------- MODULE SurveyPoints ----------------------------
(***************************************************************************)
(* The SurveyPointsV3 contract: surveys worth whole or fractional points,  *)
(* awards and revocations, the three AccessControl roles and the           *)
(* wallet-submitted flags.                                                 *)
(*                                                                         *)
(* A transaction is atomic, so every external function is one action whose *)
(* guard is the conjunction of the conditions under which it does not      *)
(* revert; a reverted call changes nothing and is no step.  A value is     *)
(* kept the way the contract keeps it: in points[id] when it is a whole    *)
(* number of points, in surveyCenti[id] (hundredths) otherwise.  Titles    *)
(* and emitted events are left out.                                        *)
(***************************************************************************)
EXTENDS Integers, FiniteSets, FiniteSetsExt

CONSTANTS
  Address,        \* the addresses that call, earn points or hold roles
  ZeroAddress,    \* address(0): may be an argument, never a caller
  SurveyIds,      \* survey ids passed to the functions, 0 among them
  PointInputs,    \* `points` arguments of registerSurvey
  CentiInputs,    \* `centiPoints` arguments of registerSurveyCenti
  ClaimLimits     \* `maxClaims` arguments; 0 means unlimited

ASSUME AddressAssumption ==
  /\ IsFiniteSet(Address)
  /\ ZeroAddress \in Address

ASSUME InputAssumption ==
  /\ SurveyIds \subseteq Nat
  /\ PointInputs \subseteq 0..255
  /\ CentiInputs \subseteq Nat
  /\ ClaimLimits \subseteq Nat

\* An id is a uint256.
ASSUME IdAssumption == IsFiniteSet(SurveyIds)

MaxCentiPoints == 25500

DefaultAdmin == "DEFAULT_ADMIN_ROLE"
Admin        == "ADMIN_ROLE"
Minter       == "MINTER_ROLE"
Roles        == {DefaultAdmin, Admin, Minter}

(* getRoleAdmin after initialize: ADMIN_ROLE administers itself.           *)
RoleAdmin == [r \in Roles |-> IF r = DefaultAdmin THEN DefaultAdmin ELSE Admin]

VARIABLES
  points,          \* id -> Survey.points, 0 for fractional surveys
  maxClaims,       \* id -> Survey.maxClaims
  claimCount,      \* id -> Survey.claimCount
  active,          \* the ids whose Survey.active is set
  registered,      \* the ids whose Survey.registeredAt is not 0
  surveyCenti,     \* id -> value of a fractional survey, 0 for whole ones
  claimed,         \* the pairs <<wallet, id>> whose claim flag is set
  surveyPoints,    \* <<wallet, id>> -> whole points awarded
  surveyCentiOf,   \* <<wallet, id>> -> centipoints awarded
  totalPoints,     \* wallet -> sum of its whole-point awards
  totalCenti,      \* wallet -> sum of its fractional awards
  members,         \* role -> the addresses that hold it
  adminCount,      \* the contract's own count of ADMIN_ROLE holders
  submitted        \* the wallets marked as submitted

awardVars  == <<surveyPoints, surveyCentiOf, totalPoints, totalCenti>>
surveyVars == <<points, maxClaims, claimCount, active, registered, surveyCenti,
                claimed, awardVars>>
roleVars   == <<members, adminCount>>
vars       == <<surveyVars, roleVars, submitted>>

Pairs == Address \X SurveyIds

Callers == Address \ {ZeroAddress}

Uint8(n) == n % 256

------------------------------------------------------------------------------
(* Views.                                                                  *)

(* Wrong: the V2 test, blind to fractional surveys.                        *)
WrongExists(id) == points[id] # 0

Exists(id) == points[id] # 0 \/ surveyCenti[id] # 0

CentiOf(id) ==
  IF points[id] # 0 THEN points[id] * 100 ELSE surveyCenti[id]

InfoPoints(id) == Uint8(CentiOf(id) \div 100)

SurveyPointsOf(w, id) ==
  IF surveyPoints[<<w, id>>] # 0
    THEN surveyPoints[<<w, id>>]
    ELSE Uint8(surveyCentiOf[<<w, id>>] \div 100)

SurveyPointsCentiOf(w, id) == surveyPoints[<<w, id>>] * 100 + surveyCentiOf[<<w, id>>]

TotalPointsOf(w) == totalPoints[w] + totalCenti[w] \div 100

TotalPointsCentiOf(w) == totalPoints[w] * 100 + totalCenti[w]

------------------------------------------------------------------------------
(* initialize(admin, minter), run once by the proxy constructor.           *)
Init ==
  /\ points        = [id \in SurveyIds |-> 0]
  /\ maxClaims     = [id \in SurveyIds |-> 0]
  /\ claimCount    = [id \in SurveyIds |-> 0]
  /\ active        = {}
  /\ registered    = {}
  /\ surveyCenti   = [id \in SurveyIds |-> 0]
  /\ claimed       = {}
  /\ surveyPoints  = [p \in Pairs |-> 0]
  /\ surveyCentiOf = [p \in Pairs |-> 0]
  /\ totalPoints   = [w \in Address |-> 0]
  /\ totalCenti    = [w \in Address |-> 0]
  /\ \E admin, minter \in Callers :
       members = [r \in Roles |-> IF r = Minter THEN {minter} ELSE {admin}]
  /\ adminCount = 1
  /\ submitted  = {}

------------------------------------------------------------------------------
(* Survey lifecycle.                                                       *)

(* Wrong: a fractional survey does not block a second registration.        *)
WrongAssertNewSurvey(id) == id # 0 /\ points[id] = 0

AssertNewSurvey(id) == id # 0 /\ ~Exists(id)

(* The struct both registrations write; only the value differs.            *)
WriteSurvey(id, whole, limit) ==
  /\ points'     = [points EXCEPT ![id] = whole]
  /\ maxClaims'  = [maxClaims EXCEPT ![id] = limit]
  /\ claimCount' = [claimCount EXCEPT ![id] = 0]
  /\ active'     = active \union {id}
  /\ registered' = registered \union {id}
  /\ UNCHANGED <<claimed, awardVars, roleVars, submitted>>

RegisterWhole(id, whole, limit) ==
  /\ AssertNewSurvey(id)
  /\ WriteSurvey(id, whole, limit)
  /\ UNCHANGED surveyCenti

RegisterFraction(id, centi, limit) ==
  /\ AssertNewSurvey(id)
  /\ WriteSurvey(id, 0, limit)
  /\ surveyCenti' = [surveyCenti EXCEPT ![id] = centi]

RegisterSurvey(caller, id, whole, limit) ==
  /\ caller \in members[Admin]
  /\ whole # 0
  /\ RegisterWhole(id, whole, limit)

(* Wrong: no cap, so the later uint8 casts wrap.                           *)
WrongValidCenti(centi) == centi # 0

ValidCenti(centi) == centi # 0 /\ centi <= MaxCentiPoints

(* Wrong: the whole-point branch forgets the division by 100.              *)
WrongRegisterSurveyCenti(caller, id, centi, limit) ==
  /\ caller \in members[Admin]
  /\ ValidCenti(centi)
  /\ IF centi % 100 = 0
       THEN RegisterWhole(id, centi, limit)
       ELSE RegisterFraction(id, centi, limit)

RegisterSurveyCenti(caller, id, centi, limit) ==
  /\ caller \in members[Admin]
  /\ ValidCenti(centi)
  /\ IF centi % 100 = 0
       THEN RegisterWhole(id, Uint8(centi \div 100), limit)
       ELSE RegisterFraction(id, centi, limit)

DeactivateSurvey(caller, id) ==
  /\ caller \in members[Admin]
  /\ Exists(id)
  /\ id \in active
  /\ active' = active \ {id}
  /\ UNCHANGED <<points, maxClaims, claimCount, registered, surveyCenti,
                 claimed, awardVars, roleVars, submitted>>

ReactivateSurvey(caller, id) ==
  /\ caller \in members[Admin]
  /\ Exists(id)
  /\ id \notin active
  /\ active' = active \union {id}
  /\ UNCHANGED <<points, maxClaims, claimCount, registered, surveyCenti,
                 claimed, awardVars, roleVars, submitted>>

------------------------------------------------------------------------------
(* Awards and revocations.                                                 *)

(* Wrong: off by one at the limit.                                         *)
WrongHasRoom(id) == maxClaims[id] > 0 => claimCount[id] <= maxClaims[id]

HasRoom(id) == maxClaims[id] > 0 => claimCount[id] < maxClaims[id]

(* Wrong: the fractional branch replaces the running total.                *)
WrongCreditAward(student, id) ==
  IF surveyCenti[id] = 0
    THEN /\ surveyPoints' = [surveyPoints EXCEPT ![<<student, id>>] = points[id]]
         /\ totalPoints' = [totalPoints EXCEPT ![student] = @ + points[id]]
         /\ UNCHANGED <<surveyCentiOf, totalCenti>>
    ELSE /\ surveyCentiOf' = [surveyCentiOf EXCEPT ![<<student, id>>] = surveyCenti[id]]
         /\ totalCenti' = [totalCenti EXCEPT ![student] = surveyCenti[id]]
         /\ UNCHANGED <<surveyPoints, totalPoints>>

CreditAward(student, id) ==
  IF surveyCenti[id] = 0
    THEN /\ surveyPoints' = [surveyPoints EXCEPT ![<<student, id>>] = points[id]]
         /\ totalPoints' = [totalPoints EXCEPT ![student] = @ + points[id]]
         /\ UNCHANGED <<surveyCentiOf, totalCenti>>
    ELSE /\ surveyCentiOf' = [surveyCentiOf EXCEPT ![<<student, id>>] = surveyCenti[id]]
         /\ totalCenti' = [totalCenti EXCEPT ![student] = @ + surveyCenti[id]]
         /\ UNCHANGED <<surveyPoints, totalPoints>>

(* Wrong: no AlreadyClaimed check, the backend having asked hasClaimed.    *)
WrongAwardAllowed(caller, student, id) ==
  /\ caller \in members[Minter]
  /\ student # ZeroAddress
  /\ Exists(id)
  /\ id \in active
  /\ HasRoom(id)

(* The checks of awardPoints.                                              *)
AwardAllowed(caller, student, id) ==
  /\ caller \in members[Minter]
  /\ student # ZeroAddress
  /\ Exists(id)
  /\ id \in active
  /\ <<student, id>> \notin claimed
  /\ HasRoom(id)

AwardPoints(caller, student, id) ==
  /\ AwardAllowed(caller, student, id)
  /\ claimed' = claimed \union {<<student, id>>}
  /\ claimCount' = [claimCount EXCEPT ![id] = @ + 1]
  /\ CreditAward(student, id)
  /\ UNCHANGED <<points, maxClaims, active, registered, surveyCenti, roleVars, submitted>>

(* Wrong: the V2 revocation, which never takes back a fraction.            *)
WrongDebitAward(student, id) ==
  /\ surveyPoints' = [surveyPoints EXCEPT ![<<student, id>>] = 0]
  /\ totalPoints' = [totalPoints EXCEPT ![student] = @ - surveyPoints[<<student, id>>]]
  /\ UNCHANGED <<surveyCentiOf, totalCenti>>

(* The subtractions are checked: an underflow would revert the call.       *)
DebitAward(student, id) ==
  LET whole == surveyPoints[<<student, id>>]
      centi == surveyCentiOf[<<student, id>>]
  IN  IF surveyCenti[id] = 0
        THEN /\ totalPoints[student] >= whole
             /\ surveyPoints' = [surveyPoints EXCEPT ![<<student, id>>] = 0]
             /\ totalPoints' = [totalPoints EXCEPT ![student] = @ - whole]
             /\ UNCHANGED <<surveyCentiOf, totalCenti>>
        ELSE /\ totalCenti[student] >= centi
             /\ surveyCentiOf' = [surveyCentiOf EXCEPT ![<<student, id>>] = 0]
             /\ totalCenti' = [totalCenti EXCEPT ![student] = @ - centi]
             /\ UNCHANGED <<surveyPoints, totalPoints>>

(* Wrong: the claim flag is cleared, the count is not lowered.             *)
WrongRevokePoints(caller, student, id) ==
  /\ caller \in members[Admin]
  /\ <<student, id>> \in claimed
  /\ claimed' = claimed \ {<<student, id>>}
  /\ DebitAward(student, id)
  /\ UNCHANGED <<points, maxClaims, claimCount, active, registered, surveyCenti,
                 roleVars, submitted>>

RevokePoints(caller, student, id) ==
  /\ caller \in members[Admin]
  /\ <<student, id>> \in claimed
  /\ claimCount[id] >= 1
  /\ claimed' = claimed \ {<<student, id>>}
  /\ claimCount' = [claimCount EXCEPT ![id] = @ - 1]
  /\ DebitAward(student, id)
  /\ UNCHANGED <<points, maxClaims, active, registered, surveyCenti, roleVars, submitted>>

------------------------------------------------------------------------------
(* Roles.  _grantRole and _revokeRole keep adminCount for every entry      *)
(* point: the contract's own addAdmin and removeAdmin, and the inherited   *)
(* grantRole, revokeRole and renounceRole.                                 *)

(* Wrong: counts a grant to an account that already holds the role.        *)
WrongGrantMember(role, account) ==
  /\ members' = [members EXCEPT ![role] = @ \union {account}]
  /\ adminCount' = IF role = Admin THEN adminCount + 1 ELSE adminCount
  /\ UNCHANGED <<surveyVars, submitted>>

GrantMember(role, account) ==
  /\ members' = [members EXCEPT ![role] = @ \union {account}]
  /\ adminCount' = IF role = Admin /\ account \notin members[role]
                     THEN adminCount + 1 ELSE adminCount
  /\ UNCHANGED <<surveyVars, submitted>>

RevokeMember(role, account) ==
  /\ members' = [members EXCEPT ![role] = @ \ {account}]
  /\ adminCount' = IF role = Admin /\ account \in members[role]
                     THEN adminCount - 1 ELSE adminCount
  /\ UNCHANGED <<surveyVars, submitted>>

AddAdmin(caller, account) ==
  /\ caller \in members[Admin]
  /\ account # ZeroAddress
  /\ account \notin members[Admin]
  /\ GrantMember(Admin, account)

(* Wrong: no LastAdmin check.                                              *)
WrongRemoveAdmin(caller, account) ==
  /\ caller \in members[Admin]
  /\ account # ZeroAddress
  /\ account \in members[Admin]
  /\ RevokeMember(Admin, account)

RemoveAdmin(caller, account) ==
  /\ caller \in members[Admin]
  /\ account # ZeroAddress
  /\ account \in members[Admin]
  /\ adminCount > 1
  /\ RevokeMember(Admin, account)

GrantRole(caller, role, account) ==
  /\ caller \in members[RoleAdmin[role]]
  /\ GrantMember(role, account)

RevokeRole(caller, role, account) ==
  /\ caller \in members[RoleAdmin[role]]
  /\ RevokeMember(role, account)

RenounceRole(caller, role) == RevokeMember(role, caller)

------------------------------------------------------------------------------
(* Wallet submission flags.                                                *)

MarkWalletSubmitted(caller, wallet) ==
  /\ caller \in members[Admin]
  /\ wallet # ZeroAddress
  /\ wallet \notin submitted
  /\ submitted' = submitted \union {wallet}
  /\ UNCHANGED <<surveyVars, roleVars>>

UnmarkWalletSubmitted(caller, wallet) ==
  /\ caller \in members[Admin]
  /\ wallet # ZeroAddress
  /\ wallet \in submitted
  /\ submitted' = submitted \ {wallet}
  /\ UNCHANGED <<surveyVars, roleVars>>

------------------------------------------------------------------------------
RegisterNext ==
  \E caller \in Callers, id \in SurveyIds, limit \in ClaimLimits :
    \/ \E whole \in PointInputs : RegisterSurvey(caller, id, whole, limit)
    \/ \E centi \in CentiInputs : RegisterSurveyCenti(caller, id, centi, limit)

LifecycleNext ==
  \E caller \in Callers, id \in SurveyIds :
    \/ DeactivateSurvey(caller, id)
    \/ ReactivateSurvey(caller, id)

AwardNext ==
  \E caller \in Callers, student \in Address, id \in SurveyIds :
    \/ AwardPoints(caller, student, id)
    \/ RevokePoints(caller, student, id)

SurveyNext == RegisterNext \/ LifecycleNext \/ AwardNext

AdminNext ==
  \E caller \in Callers, account \in Address :
    \/ AddAdmin(caller, account)
    \/ RemoveAdmin(caller, account)

(* The inherited AccessControl functions, for the given roles.             *)
InheritedNext(roles) ==
  \E caller \in Callers, role \in roles :
    \/ \E account \in Address : GrantRole(caller, role, account)
    \/ \E account \in Address : RevokeRole(caller, role, account)
    \/ RenounceRole(caller, role)

WalletNext ==
  \E caller \in Callers, wallet \in Address :
    \/ MarkWalletSubmitted(caller, wallet)
    \/ UnmarkWalletSubmitted(caller, wallet)

Next == SurveyNext \/ AdminNext \/ InheritedNext(Roles) \/ WalletNext

Spec == Init /\ [][Next]_vars

(* Fixed roles: what matters when only points are in question.             *)
SurveySpec == Init /\ [][SurveyNext]_vars

------------------------------------------------------------------------------
(* Properties.                                                             *)

(* Every variable holds a value of its Solidity type.                      *)
TypeOK ==
  /\ points \in [SurveyIds -> 0..255]
  /\ maxClaims \in [SurveyIds -> Nat]
  /\ claimCount \in [SurveyIds -> Nat]
  /\ active \subseteq SurveyIds
  /\ registered \subseteq SurveyIds
  /\ surveyCenti \in [SurveyIds -> Nat]
  /\ claimed \subseteq Pairs
  /\ surveyPoints \in [Pairs -> 0..255]
  /\ surveyCentiOf \in [Pairs -> Nat]
  /\ totalPoints \in [Address -> Nat]
  /\ totalCenti \in [Address -> Nat]
  /\ members \in [Roles -> SUBSET Address]
  /\ adminCount \in Nat
  /\ submitted \subseteq Address

Claimants(id) == {w \in Address : <<w, id>> \in claimed}

(* claimCount is the number of wallets whose claim flag is set, whatever   *)
(* sequence of awards, revocations and re-awards led here (_claimed and    *)
(* claimCount are written together in awardPoints and revokePoints).       *)
ClaimCountExact == \A id \in SurveyIds :
  claimCount[id] = Cardinality(Claimants(id))

(* No survey is ever claimed by more wallets than its limit, revocations   *)
(* and re-awards included.                                                 *)
CapRespected == \A id \in SurveyIds :
  maxClaims[id] > 0 => Cardinality(Claimants(id)) <= maxClaims[id]

(* A survey has at most one of the two value representations, and carries  *)
(* a value exactly when its record was written: the backend decides that a *)
(* survey exists by registeredAt, the contract by the value.               *)
OneRepresentation == \A id \in SurveyIds :
  /\ points[id] = 0 \/ surveyCenti[id] = 0
  /\ Exists(id) <=> id \in registered

(* What a wallet is recorded to have earned for a survey is the survey's   *)
(* value if it claimed it, and nothing otherwise.                          *)
AwardsMatchClaims == \A w \in Address, id \in SurveyIds :
  SurveyPointsCentiOf(w, id) = IF <<w, id>> \in claimed THEN CentiOf(id) ELSE 0

(* A wallet's running totals are the sums of its per-survey records, so a  *)
(* revocation can never fail on an underflow.                              *)
TotalsAreSums == \A w \in Address :
  /\ totalPoints[w] = MapThenSumSet(LAMBDA id : surveyPoints[<<w, id>>], SurveyIds)
  /\ totalCenti[w] = MapThenSumSet(LAMBDA id : surveyCentiOf[<<w, id>>], SurveyIds)

(* The V2 views are the exact V3 values rounded down: no uint8 cast loses  *)
(* anything (the "safe cast" comments of the contract).                    *)
LegacyViewsRoundDown ==
  /\ \A id \in SurveyIds : InfoPoints(id) = CentiOf(id) \div 100
  /\ \A w \in Address, id \in SurveyIds :
       SurveyPointsOf(w, id) = SurveyPointsCentiOf(w, id) \div 100
  /\ \A w \in Address : TotalPointsOf(w) = TotalPointsCentiOf(w) \div 100

(* adminCount is the number of ADMIN_ROLE holders whichever entry point    *)
(* changed the role.                                                       *)
AdminCountExact == adminCount = Cardinality(members[Admin])

(* Once registered a survey keeps its value and its limit for ever: no     *)
(* registration, in either representation, overwrites another.             *)
ValueIsFixed == [][\A id \in SurveyIds : Exists(id) =>
                     /\ CentiOf(id)' = CentiOf(id)
                     /\ maxClaims'[id] = maxClaims[id]]_vars

(* "Refuse to revoke the last admin so the contract can never become       *)
(* orphaned": some account holds ADMIN_ROLE.                               *)
NeverOrphaned == members[Admin] # {}

(* removeAdmin's min-1 check trusts adminCount: whatever the inherited     *)
(* functions did before, addAdmin and removeAdmin leave an admin behind.   *)
AdminFunctionsKeepOne == [][AdminNext => members'[Admin] # {}]_vars
==============================================================================
