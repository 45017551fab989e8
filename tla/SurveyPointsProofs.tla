------------------------- MODULE SurveyPointsProofs -------------------------
(***************************************************************************)
(* Theorems about the contract for every set of addresses, survey ids and  *)
(* inputs.  RoleInv comes first: adminCount is a natural number only       *)
(* because it counts the holders.  Then types, on top of them the claim    *)
(* invariants, and at the end the totals.                                  *)
(***************************************************************************)
EXTENDS MCSurveyPoints, FiniteSetTheorems, WellFoundedInduction, TLAPS

(* One way to name the actions: what a step is, whoever takes it.          *)
LEMMA NextCases ==
  ASSUME Next
  PROVE  \/ \E c \in Callers, id \in SurveyIds, limit \in ClaimLimits, whole \in PointInputs :
              RegisterSurvey(c, id, whole, limit)
         \/ \E c \in Callers, id \in SurveyIds, limit \in ClaimLimits, centi \in CentiInputs :
              RegisterSurveyCenti(c, id, centi, limit)
         \/ \E c \in Callers, id \in SurveyIds : DeactivateSurvey(c, id) \/ ReactivateSurvey(c, id)
         \/ \E c \in Callers, w \in Address, id \in SurveyIds : AwardPoints(c, w, id)
         \/ \E c \in Callers, w \in Address, id \in SurveyIds : RevokePoints(c, w, id)
         \/ \E role \in Roles, a \in Address : GrantMember(role, a) \/ RevokeMember(role, a)
         \/ WalletNext
<1>1. CASE SurveyNext
  BY <1>1 DEF SurveyNext, RegisterNext, LifecycleNext, AwardNext
<1>2. CASE AdminNext
  BY <1>2 DEF AdminNext, AddAdmin, RemoveAdmin, Roles
<1>3. CASE InheritedNext(Roles)
  BY <1>3 DEF InheritedNext, GrantRole, RevokeRole, RenounceRole, Callers
<1> QED
  BY <1>1, <1>2, <1>3 DEF Next

------------------------------------------------------------------------------
(* The role bookkeeping on its own.                                        *)
RoleInv ==
  /\ members \in [Roles -> SUBSET Address]
  /\ adminCount \in Nat
  /\ AdminCountExact

LEMMA MembersFinite ==
  ASSUME members \in [Roles -> SUBSET Address]
  PROVE  /\ IsFiniteSet(members[Admin])
         /\ Cardinality(members[Admin]) \in Nat
<1>1. members[Admin] \in SUBSET Address
  BY DEF Roles
<1> QED
  BY <1>1, AddressAssumption, FS_Subset, FS_CardinalityType

LEMMA GrantKeepsRoleInv ==
  ASSUME RoleInv, NEW role \in Roles, NEW a \in Address, GrantMember(role, a)
  PROVE  RoleInv'
<1>1. members' \in [Roles -> SUBSET Address]
  BY DEF RoleInv, GrantMember
<1>2. CASE role = Admin /\ a \notin members[Admin]
  <2>1. members'[Admin] = members[Admin] \union {a} /\ adminCount' = adminCount + 1
    BY <1>2 DEF RoleInv, GrantMember
  <2>2. Cardinality(members'[Admin]) = Cardinality(members[Admin]) + 1
    BY <1>2, <2>1, MembersFinite, FS_AddElement DEF RoleInv
  <2> QED
    BY <1>1, <2>1, <2>2 DEF RoleInv, AdminCountExact
<1>3. CASE ~(role = Admin /\ a \notin members[Admin])
  <2>1. members'[Admin] = members[Admin] /\ adminCount' = adminCount
    BY <1>3 DEF RoleInv, GrantMember, Roles
  <2> QED
    BY <1>1, <2>1 DEF RoleInv, AdminCountExact
<1> QED
  BY <1>2, <1>3

LEMMA RevokeKeepsRoleInv ==
  ASSUME RoleInv, NEW role \in Roles, NEW a \in Address, RevokeMember(role, a)
  PROVE  RoleInv'
<1>1. members' \in [Roles -> SUBSET Address]
  BY DEF RoleInv, RevokeMember
<1>2. CASE role = Admin /\ a \in members[Admin]
  <2>1. members'[Admin] = members[Admin] \ {a} /\ adminCount' = adminCount - 1
    BY <1>2 DEF RoleInv, RevokeMember
  <2>2. Cardinality(members'[Admin]) = Cardinality(members[Admin]) - 1
    BY <1>2, <2>1, MembersFinite, FS_RemoveElement DEF RoleInv
  <2>3. Cardinality(members'[Admin]) \in Nat
    <3>1. members'[Admin] \in SUBSET Address
      BY <1>1 DEF Roles
    <3> QED
      BY <3>1, AddressAssumption, FS_Subset, FS_CardinalityType
  <2> QED
    BY <1>1, <2>1, <2>2, <2>3 DEF RoleInv, AdminCountExact
<1>3. CASE ~(role = Admin /\ a \in members[Admin])
  <2>1. members'[Admin] = members[Admin] /\ adminCount' = adminCount
    BY <1>3 DEF RoleInv, RevokeMember, Roles
  <2> QED
    BY <1>1, <2>1 DEF RoleInv, AdminCountExact
<1> QED
  BY <1>2, <1>3

LEMMA InitRoleInv == Init => RoleInv
<1> SUFFICES ASSUME Init PROVE RoleInv
  OBVIOUS
<1>1. PICK admin \in Callers, minter \in Callers :
        members = [r \in Roles |-> IF r = Minter THEN {minter} ELSE {admin}]
  BY DEF Init
<1>2. members[Admin] = {admin}
  BY <1>1 DEF Roles, Admin, Minter
<1>3. Cardinality(members[Admin]) = 1
  BY <1>2, FS_Singleton
<1> QED
  BY <1>1, <1>3 DEF Init, RoleInv, AdminCountExact, Callers

LEMMA StepRoleInv == RoleInv /\ [Next]_vars => RoleInv'
<1> SUFFICES ASSUME RoleInv, [Next]_vars PROVE RoleInv'
  OBVIOUS
<1>1. CASE UNCHANGED roleVars
  BY <1>1 DEF RoleInv, AdminCountExact, roleVars
<1>2. CASE \E role \in Roles, a \in Address : GrantMember(role, a) \/ RevokeMember(role, a)
  BY <1>2, GrantKeepsRoleInv, RevokeKeepsRoleInv
<1>3. UNCHANGED vars => UNCHANGED roleVars
  BY DEF vars, roleVars
<1>4. Next => \/ UNCHANGED roleVars
              \/ \E role \in Roles, a \in Address : GrantMember(role, a) \/ RevokeMember(role, a)
  BY NextCases DEF roleVars, RegisterSurvey, RegisterSurveyCenti, RegisterWhole, RegisterFraction,
     WriteSurvey, DeactivateSurvey, ReactivateSurvey, AwardPoints, AwardAllowed, RevokePoints, WalletNext,
     MarkWalletSubmitted, UnmarkWalletSubmitted
<1> QED
  BY <1>1, <1>2, <1>3, <1>4

(* adminCount equals the number of ADMIN_ROLE holders, whichever of the    *)
(* contract's and the inherited entry points changed the role.             *)
THEOREM AdminCountIsExact == Spec => []AdminCountExact
<1>1. RoleInv => AdminCountExact
  BY DEF RoleInv
<1> QED
  BY <1>1, InitRoleInv, StepRoleInv, PTL DEF Spec

------------------------------------------------------------------------------
(* Types.                                                                  *)
LEMMA InitTypeOK == Init => TypeOK
<1> SUFFICES ASSUME Init PROVE TypeOK
  OBVIOUS
<1>1. members \in [Roles -> SUBSET Address] /\ adminCount \in Nat
  BY InitRoleInv DEF RoleInv
<1> QED
  BY <1>1 DEF Init, TypeOK

(* The cast of registerSurveyCenti loses nothing below the cap.            *)
LEMMA WholeCenti ==
  ASSUME NEW centi \in Nat, centi # 0, centi <= 25500, centi % 100 = 0
  PROVE  Uint8(centi \div 100) \in 1..255
<1>1. centi \div 100 \in Int /\ centi \div 100 >= 1 /\ centi \div 100 <= 255
  OBVIOUS
<1> QED
  BY <1>1 DEF Uint8

(* Both registrations write a record with exactly one of the two values.   *)
NewRecord(id, whole, centi, limit) ==
  /\ ~Exists(id)
  /\ WriteSurvey(id, whole, limit)
  /\ surveyCenti' = [surveyCenti EXCEPT ![id] = centi]
  /\ whole \in 0..255 /\ centi \in Nat /\ limit \in Nat
  /\ centi <= MaxCentiPoints
  /\ whole = 0 \/ centi = 0
  /\ whole # 0 \/ centi # 0

LEMMA RegisterWritesRecord ==
  ASSUME TypeOK, NEW c \in Callers, NEW id \in SurveyIds, NEW limit \in ClaimLimits,
         \/ \E whole \in PointInputs : RegisterSurvey(c, id, whole, limit)
         \/ \E centi \in CentiInputs : RegisterSurveyCenti(c, id, centi, limit)
  PROVE  \E whole, centi : NewRecord(id, whole, centi, limit)
<1>1. limit \in Nat
  BY InputAssumption
<1>2. ASSUME NEW whole \in 1..255, RegisterWhole(id, whole, limit)
      PROVE  NewRecord(id, whole, 0, limit)
  <2>1. surveyCenti[id] = 0 /\ ~Exists(id)
    BY <1>2 DEF RegisterWhole, AssertNewSurvey, Exists
  <2>2. surveyCenti' = [surveyCenti EXCEPT ![id] = 0]
    BY <1>2, <2>1 DEF RegisterWhole, TypeOK
  <2>3. WriteSurvey(id, whole, limit)
    BY <1>2 DEF RegisterWhole
  <2>4. whole \in 0..255 /\ whole # 0
    OBVIOUS
  <2> QED
    BY <1>1, <2>1, <2>2, <2>3, <2>4 DEF NewRecord, MaxCentiPoints
<1>3. ASSUME NEW whole \in PointInputs, RegisterSurvey(c, id, whole, limit)
      PROVE  \E centi : NewRecord(id, whole, centi, limit)
  <2>1. whole \in 1..255
    BY <1>3, InputAssumption DEF RegisterSurvey
  <2> QED
    BY <1>2, <1>3, <2>1 DEF RegisterSurvey
<1>4. ASSUME NEW centi \in CentiInputs, RegisterSurveyCenti(c, id, centi, limit)
      PROVE  \E w, v : NewRecord(id, w, v, limit)
  <2>1. centi \in Nat /\ centi # 0 /\ centi <= 25500
    <3>1. ValidCenti(centi)
      BY <1>4 DEF RegisterSurveyCenti
    <3> QED
      BY <3>1, InputAssumption DEF ValidCenti, MaxCentiPoints
  <2>2. CASE centi % 100 = 0
    <3>1. Uint8(centi \div 100) \in 1..255
      BY <2>1, <2>2, WholeCenti
    <3>2. RegisterWhole(id, Uint8(centi \div 100), limit)
      BY <1>4, <2>2 DEF RegisterSurveyCenti
    <3> QED
      BY <1>2, <3>1, <3>2
  <2>3. CASE centi % 100 # 0
    <3>1. RegisterFraction(id, centi, limit)
      BY <1>4, <2>3 DEF RegisterSurveyCenti
    <3>2. NewRecord(id, 0, centi, limit)
      BY <1>1, <2>1, <3>1 DEF RegisterFraction, AssertNewSurvey, NewRecord, MaxCentiPoints
    <3> QED
      BY <3>2
  <2> QED
    BY <2>2, <2>3
<1> QED
  BY <1>3, <1>4

LEMMA RecordKeepsTypeOK ==
  ASSUME TypeOK, NEW id \in SurveyIds, NEW whole, NEW centi, NEW limit,
         NewRecord(id, whole, centi, limit)
  PROVE  TypeOK'
  BY DEF NewRecord, WriteSurvey, TypeOK, awardVars, roleVars

LEMMA AwardKeepsTypeOK ==
  ASSUME TypeOK, NEW c \in Callers, NEW w \in Address, NEW id \in SurveyIds,
         AwardPoints(c, w, id)
  PROVE  TypeOK'
<1>1. <<w, id>> \in Pairs
  BY DEF Pairs
<1>2. claimed' \subseteq Pairs /\ claimCount' \in [SurveyIds -> Nat]
  BY <1>1 DEF AwardPoints, AwardAllowed, TypeOK
<1>3. /\ surveyPoints' \in [Pairs -> 0..255]
      /\ surveyCentiOf' \in [Pairs -> Nat]
      /\ totalPoints' \in [Address -> Nat]
      /\ totalCenti' \in [Address -> Nat]
  <2>1. points[id] \in 0..255 /\ points[id] \in Nat /\ surveyCenti[id] \in Nat
    BY DEF TypeOK
  <2>2. CASE surveyCenti[id] = 0
    <3>1. /\ surveyPoints' = [surveyPoints EXCEPT ![<<w, id>>] = points[id]]
          /\ totalPoints' = [totalPoints EXCEPT ![w] = @ + points[id]]
          /\ surveyCentiOf' = surveyCentiOf /\ totalCenti' = totalCenti
      BY <2>2 DEF AwardPoints, AwardAllowed, CreditAward
    <3> QED
      BY <1>1, <2>1, <3>1 DEF TypeOK
  <2>3. CASE surveyCenti[id] # 0
    <3>1. /\ surveyCentiOf' = [surveyCentiOf EXCEPT ![<<w, id>>] = surveyCenti[id]]
          /\ totalCenti' = [totalCenti EXCEPT ![w] = @ + surveyCenti[id]]
          /\ surveyPoints' = surveyPoints /\ totalPoints' = totalPoints
      BY <2>3 DEF AwardPoints, AwardAllowed, CreditAward
    <3> QED
      BY <1>1, <2>1, <3>1 DEF TypeOK
  <2> QED
    BY <2>2, <2>3
<1> QED
  BY <1>2, <1>3 DEF AwardPoints, AwardAllowed, TypeOK, roleVars

LEMMA RevokeKeepsTypeOK ==
  ASSUME TypeOK, NEW c \in Callers, NEW w \in Address, NEW id \in SurveyIds,
         RevokePoints(c, w, id)
  PROVE  TypeOK'
<1>1. <<w, id>> \in Pairs
  BY DEF Pairs
<1>2. claimed' \subseteq Pairs /\ claimCount' \in [SurveyIds -> Nat]
  BY <1>1 DEF RevokePoints, TypeOK
<1>3. /\ surveyPoints' \in [Pairs -> 0..255]
      /\ surveyCentiOf' \in [Pairs -> Nat]
      /\ totalPoints' \in [Address -> Nat]
      /\ totalCenti' \in [Address -> Nat]
  <2>1. /\ surveyPoints[<<w, id>>] \in Nat /\ surveyCentiOf[<<w, id>>] \in Nat
        /\ totalPoints[w] \in Nat /\ totalCenti[w] \in Nat
    BY <1>1 DEF TypeOK
  <2>2. CASE surveyCenti[id] = 0
    <3>1. /\ totalPoints[w] >= surveyPoints[<<w, id>>]
          /\ surveyPoints' = [surveyPoints EXCEPT ![<<w, id>>] = 0]
          /\ totalPoints' = [totalPoints EXCEPT ![w] = @ - surveyPoints[<<w, id>>]]
          /\ surveyCentiOf' = surveyCentiOf /\ totalCenti' = totalCenti
      BY <2>2 DEF RevokePoints, DebitAward
    <3> QED
      BY <1>1, <2>1, <3>1 DEF TypeOK
  <2>3. CASE surveyCenti[id] # 0
    <3>1. /\ totalCenti[w] >= surveyCentiOf[<<w, id>>]
          /\ surveyCentiOf' = [surveyCentiOf EXCEPT ![<<w, id>>] = 0]
          /\ totalCenti' = [totalCenti EXCEPT ![w] = @ - surveyCentiOf[<<w, id>>]]
          /\ surveyPoints' = surveyPoints /\ totalPoints' = totalPoints
      BY <2>3 DEF RevokePoints, DebitAward
    <3> QED
      BY <1>1, <2>1, <3>1 DEF TypeOK
  <2> QED
    BY <2>2, <2>3
<1> QED
  BY <1>2, <1>3 DEF RevokePoints, TypeOK, roleVars

(* Steps that touch neither a value, a claim nor an award.                 *)
LEMMA OtherStepsKeepPoints ==
  ASSUME TypeOK,
         \/ \E c \in Callers, id \in SurveyIds : DeactivateSurvey(c, id) \/ ReactivateSurvey(c, id)
         \/ \E role \in Roles, a \in Address : GrantMember(role, a) \/ RevokeMember(role, a)
         \/ WalletNext
         \/ UNCHANGED vars
  PROVE  /\ UNCHANGED <<points, maxClaims, claimCount, registered, surveyCenti,
                        claimed, surveyPoints, surveyCentiOf, totalPoints, totalCenti>>
         /\ active' \subseteq SurveyIds
  BY DEF DeactivateSurvey, ReactivateSurvey, GrantMember, RevokeMember, WalletNext,
     MarkWalletSubmitted, UnmarkWalletSubmitted, vars, surveyVars, awardVars, TypeOK

LEMMA StepTypeOK == TypeOK /\ RoleInv /\ [Next]_vars => TypeOK'
<1> SUFFICES ASSUME TypeOK, RoleInv, [Next]_vars PROVE TypeOK'
  OBVIOUS
<1>1. RoleInv'
  BY StepRoleInv
<1>2. CASE \/ \E c \in Callers, id \in SurveyIds : DeactivateSurvey(c, id) \/ ReactivateSurvey(c, id)
           \/ \E role \in Roles, a \in Address : GrantMember(role, a) \/ RevokeMember(role, a)
           \/ WalletNext
           \/ UNCHANGED vars
  <2>1. submitted' \subseteq Address
    BY <1>2 DEF DeactivateSurvey, ReactivateSurvey, GrantMember, RevokeMember, WalletNext,
       MarkWalletSubmitted, UnmarkWalletSubmitted, vars, TypeOK
  <2> QED
    BY <1>1, <1>2, <2>1, OtherStepsKeepPoints DEF TypeOK, RoleInv
<1>3. ASSUME NEW c \in Callers, NEW id \in SurveyIds, NEW limit \in ClaimLimits,
             \/ \E whole \in PointInputs : RegisterSurvey(c, id, whole, limit)
             \/ \E centi \in CentiInputs : RegisterSurveyCenti(c, id, centi, limit)
      PROVE  TypeOK'
  BY <1>3, RegisterWritesRecord, RecordKeepsTypeOK
<1> QED
  BY <1>2, <1>3, NextCases, AwardKeepsTypeOK, RevokeKeepsTypeOK

(* Every variable keeps a value of its type in every reachable state.      *)
THEOREM TypeCorrect == Spec => []TypeOK
  BY InitTypeOK, InitRoleInv, StepTypeOK, StepRoleInv, PTL DEF Spec

------------------------------------------------------------------------------
(* Claims.  What a pair has recorded is the survey's value in the          *)
(* representation the survey uses; with it, only an existing survey has    *)
(* claims, which is why a registration may reset claimCount to 0.          *)
AwardInv == \A w \in Address, id \in SurveyIds :
  /\ surveyPoints[<<w, id>>] = IF <<w, id>> \in claimed THEN points[id] ELSE 0
  /\ surveyCentiOf[<<w, id>>] = IF <<w, id>> \in claimed THEN surveyCenti[id] ELSE 0

ClaimedExists == \A w \in Address, id \in SurveyIds : <<w, id>> \in claimed => Exists(id)

CountInCap == \A id \in SurveyIds : maxClaims[id] > 0 => claimCount[id] <= maxClaims[id]

ClaimInv == OneRepresentation /\ AwardInv /\ ClaimedExists /\ ClaimCountExact /\ CountInCap

LEMMA ClaimantsFinite ==
  ASSUME NEW id
  PROVE  IsFiniteSet(Claimants(id)) /\ Cardinality(Claimants(id)) \in Nat
<1>1. Claimants(id) \in SUBSET Address
  BY DEF Claimants
<1> QED
  BY <1>1, AddressAssumption, FS_Subset, FS_CardinalityType

LEMMA InitClaimInv == Init => ClaimInv
<1> SUFFICES ASSUME Init PROVE ClaimInv
  OBVIOUS
<1>1. OneRepresentation
  BY DEF Init, OneRepresentation, Exists
<1>2. AwardInv
  BY DEF Init, AwardInv, Pairs
<1>3. ClaimedExists
  BY DEF Init, ClaimedExists
<1>4. ClaimCountExact
  <2>1. \A id \in SurveyIds : Claimants(id) = {}
    BY DEF Init, Claimants
  <2> QED
    BY <2>1, FS_EmptySet DEF Init, ClaimCountExact
<1>5. CountInCap
  BY DEF Init, CountInCap
<1> QED
  BY <1>1, <1>2, <1>3, <1>4, <1>5 DEF ClaimInv

LEMMA RecordKeepsClaimInv ==
  ASSUME TypeOK, ClaimInv, NEW id \in SurveyIds, NEW whole, NEW centi, NEW limit,
         NewRecord(id, whole, centi, limit)
  PROVE  ClaimInv'
<1> USE DEF ClaimInv
<1>1. \A w \in Address : <<w, id>> \notin claimed
  BY DEF ClaimedExists, NewRecord
<1>2. /\ points' = [points EXCEPT ![id] = whole]
      /\ maxClaims' = [maxClaims EXCEPT ![id] = limit]
      /\ claimCount' = [claimCount EXCEPT ![id] = 0]
      /\ registered' = registered \union {id}
      /\ surveyCenti' = [surveyCenti EXCEPT ![id] = centi]
      /\ claimed' = claimed
      /\ surveyPoints' = surveyPoints /\ surveyCentiOf' = surveyCentiOf
  BY DEF NewRecord, WriteSurvey, awardVars
<1>3. \A i \in SurveyIds \ {id} : points'[i] = points[i] /\ surveyCenti'[i] = surveyCenti[i]
  BY <1>2 DEF TypeOK
<1>4. points'[id] = whole /\ surveyCenti'[id] = centi
  BY <1>2 DEF TypeOK
<1>5. OneRepresentation'
  BY <1>2, <1>3, <1>4 DEF NewRecord, OneRepresentation, Exists
<1>6. AwardInv'
  BY <1>1, <1>2, <1>3, <1>4 DEF AwardInv
<1>7. ClaimedExists'
  BY <1>1, <1>2, <1>3 DEF ClaimedExists, Exists
<1>8. ClaimCountExact'
  <2>1. \A i : Claimants(i)' = Claimants(i)
    BY <1>2 DEF Claimants
  <2>2. Claimants(id) = {}
    BY <1>1 DEF Claimants
  <2>3. claimCount'[id] = 0 /\ \A i \in SurveyIds \ {id} : claimCount'[i] = claimCount[i]
    BY <1>2 DEF TypeOK
  <2> QED
    BY <2>1, <2>2, <2>3, FS_EmptySet DEF ClaimCountExact
<1>9. CountInCap'
  <2>1. claimCount'[id] = 0 /\ maxClaims'[id] = limit /\ limit \in Nat
    BY <1>2 DEF TypeOK, NewRecord
  <2>2. \A i \in SurveyIds \ {id} : claimCount'[i] = claimCount[i] /\ maxClaims'[i] = maxClaims[i]
    BY <1>2 DEF TypeOK
  <2> QED
    BY <2>1, <2>2 DEF CountInCap
<1> QED
  BY <1>5, <1>6, <1>7, <1>8, <1>9

LEMMA AwardKeepsClaimInv ==
  ASSUME TypeOK, ClaimInv, NEW c \in Callers, NEW w \in Address, NEW id \in SurveyIds,
         AwardPoints(c, w, id)
  PROVE  ClaimInv'
<1> USE DEF ClaimInv
<1>1. <<w, id>> \in Pairs /\ <<w, id>> \notin claimed /\ Exists(id)
  BY DEF Pairs, AwardPoints, AwardAllowed
<1>2. /\ claimed' = claimed \union {<<w, id>>}
      /\ claimCount' = [claimCount EXCEPT ![id] = @ + 1]
      /\ UNCHANGED <<points, maxClaims, registered, surveyCenti>>
  BY DEF AwardPoints, AwardAllowed
<1>3. OneRepresentation'
  BY <1>2 DEF OneRepresentation, Exists
<1>4. AwardInv'
  <2>1. /\ surveyPoints[<<w, id>>] = 0 /\ surveyCentiOf[<<w, id>>] = 0
        /\ points[id] = 0 \/ surveyCenti[id] = 0
    BY <1>1 DEF AwardInv, OneRepresentation
  <2>2. /\ surveyPoints' = [surveyPoints EXCEPT ![<<w, id>>] = points[id]]
        /\ surveyCentiOf' = [surveyCentiOf EXCEPT ![<<w, id>>] = surveyCenti[id]]
    <3>1. CASE surveyCenti[id] = 0
      <4>1. surveyPoints' = [surveyPoints EXCEPT ![<<w, id>>] = points[id]]
            /\ surveyCentiOf' = surveyCentiOf
        BY <3>1 DEF AwardPoints, AwardAllowed, CreditAward
      <4>2. surveyCentiOf = [surveyCentiOf EXCEPT ![<<w, id>>] = surveyCenti[id]]
        BY <2>1, <3>1 DEF TypeOK
      <4> QED
        BY <4>1, <4>2
    <3>2. CASE surveyCenti[id] # 0
      <4>1. surveyCentiOf' = [surveyCentiOf EXCEPT ![<<w, id>>] = surveyCenti[id]]
            /\ surveyPoints' = surveyPoints
        BY <3>2 DEF AwardPoints, AwardAllowed, CreditAward
      <4>2. surveyPoints = [surveyPoints EXCEPT ![<<w, id>>] = points[id]]
        BY <2>1, <3>2 DEF TypeOK
      <4> QED
        BY <4>1, <4>2
    <3> QED
      BY <3>1, <3>2
  <2>3. SUFFICES ASSUME NEW v \in Address, NEW i \in SurveyIds
                 PROVE  /\ surveyPoints'[<<v, i>>] = IF <<v, i>> \in claimed' THEN points[i] ELSE 0
                        /\ surveyCentiOf'[<<v, i>>] = IF <<v, i>> \in claimed' THEN surveyCenti[i] ELSE 0
    BY <1>2 DEF AwardInv
  <2>4. <<v, i>> \in Pairs
    BY DEF Pairs
  <2>5. CASE v = w /\ i = id
    BY <1>1, <1>2, <2>2, <2>5 DEF TypeOK
  <2>6. CASE ~(v = w /\ i = id)
    <3>1. <<v, i>> # <<w, id>>
      BY <2>6
    <3>2. surveyPoints'[<<v, i>>] = surveyPoints[<<v, i>>] /\ surveyCentiOf'[<<v, i>>] = surveyCentiOf[<<v, i>>]
      BY <2>2, <2>4, <3>1 DEF TypeOK
    <3> QED
      BY <1>2, <3>1, <3>2 DEF AwardInv
  <2> QED
    BY <2>5, <2>6
<1>5. ClaimedExists'
  BY <1>1, <1>2 DEF ClaimedExists, Exists
<1>6. Cardinality(Claimants(id)') = Cardinality(Claimants(id)) + 1
  <2>1. Claimants(id)' = Claimants(id) \union {w} /\ w \notin Claimants(id)
    BY <1>1, <1>2 DEF Claimants
  <2> QED
    BY <2>1, ClaimantsFinite, FS_AddElement
<1>7. \A i \in SurveyIds \ {id} : Claimants(i)' = Claimants(i) /\ claimCount'[i] = claimCount[i]
  BY <1>2 DEF Claimants, TypeOK
<1>8. claimCount'[id] = claimCount[id] + 1
  BY <1>2 DEF TypeOK
<1>9. ClaimCountExact'
  BY <1>6, <1>7, <1>8 DEF ClaimCountExact
<1>10. CountInCap'
  <2>1. maxClaims[id] > 0 => claimCount[id] < maxClaims[id]
    BY DEF AwardPoints, AwardAllowed, HasRoom
  <2>2. claimCount[id] \in Nat /\ maxClaims[id] \in Nat
    BY DEF TypeOK
  <2> QED
    BY <1>2, <1>7, <1>8, <2>1, <2>2 DEF CountInCap
<1> QED
  BY <1>3, <1>4, <1>5, <1>9, <1>10

LEMMA RevokeKeepsClaimInv ==
  ASSUME TypeOK, ClaimInv, NEW c \in Callers, NEW w \in Address, NEW id \in SurveyIds,
         RevokePoints(c, w, id)
  PROVE  ClaimInv'
<1> USE DEF ClaimInv
<1>1. <<w, id>> \in Pairs /\ <<w, id>> \in claimed
  BY DEF Pairs, RevokePoints
<1>2. /\ claimed' = claimed \ {<<w, id>>}
      /\ claimCount' = [claimCount EXCEPT ![id] = @ - 1]
      /\ UNCHANGED <<points, maxClaims, registered, surveyCenti>>
  BY DEF RevokePoints
<1>3. OneRepresentation'
  BY <1>2 DEF OneRepresentation, Exists
<1>4. AwardInv'
  <2>1. /\ surveyPoints[<<w, id>>] = points[id] /\ surveyCentiOf[<<w, id>>] = surveyCenti[id]
        /\ points[id] = 0 \/ surveyCenti[id] = 0
    BY <1>1 DEF AwardInv, OneRepresentation
  <2>2. /\ surveyPoints' = [surveyPoints EXCEPT ![<<w, id>>] = 0]
        /\ surveyCentiOf' = [surveyCentiOf EXCEPT ![<<w, id>>] = 0]
    <3>1. CASE surveyCenti[id] = 0
      <4>1. surveyPoints' = [surveyPoints EXCEPT ![<<w, id>>] = 0]
            /\ surveyCentiOf' = surveyCentiOf
        BY <3>1 DEF RevokePoints, DebitAward
      <4>2. surveyCentiOf = [surveyCentiOf EXCEPT ![<<w, id>>] = 0]
        BY <2>1, <3>1 DEF TypeOK
      <4> QED
        BY <4>1, <4>2
    <3>2. CASE surveyCenti[id] # 0
      <4>1. surveyCentiOf' = [surveyCentiOf EXCEPT ![<<w, id>>] = 0]
            /\ surveyPoints' = surveyPoints
        BY <3>2 DEF RevokePoints, DebitAward
      <4>2. surveyPoints = [surveyPoints EXCEPT ![<<w, id>>] = 0]
        BY <2>1, <3>2 DEF TypeOK
      <4> QED
        BY <4>1, <4>2
    <3> QED
      BY <3>1, <3>2
  <2>3. SUFFICES ASSUME NEW v \in Address, NEW i \in SurveyIds
                 PROVE  /\ surveyPoints'[<<v, i>>] = IF <<v, i>> \in claimed' THEN points[i] ELSE 0
                        /\ surveyCentiOf'[<<v, i>>] = IF <<v, i>> \in claimed' THEN surveyCenti[i] ELSE 0
    BY <1>2 DEF AwardInv
  <2>4. <<v, i>> \in Pairs
    BY DEF Pairs
  <2>5. CASE v = w /\ i = id
    BY <1>1, <1>2, <2>2, <2>5 DEF TypeOK
  <2>6. CASE ~(v = w /\ i = id)
    <3>1. <<v, i>> # <<w, id>>
      BY <2>6
    <3>2. surveyPoints'[<<v, i>>] = surveyPoints[<<v, i>>] /\ surveyCentiOf'[<<v, i>>] = surveyCentiOf[<<v, i>>]
      BY <2>2, <2>4, <3>1 DEF TypeOK
    <3> QED
      BY <1>2, <3>1, <3>2 DEF AwardInv
  <2> QED
    BY <2>5, <2>6
<1>5. ClaimedExists'
  BY <1>2 DEF ClaimedExists, Exists
<1>6. Cardinality(Claimants(id)') = Cardinality(Claimants(id)) - 1
  <2>1. Claimants(id)' = Claimants(id) \ {w} /\ w \in Claimants(id)
    BY <1>1, <1>2 DEF Claimants
  <2> QED
    BY <2>1, ClaimantsFinite, FS_RemoveElement
<1>7. \A i \in SurveyIds \ {id} : Claimants(i)' = Claimants(i) /\ claimCount'[i] = claimCount[i]
  BY <1>2 DEF Claimants, TypeOK
<1>8. claimCount'[id] = claimCount[id] - 1
  BY <1>2 DEF TypeOK
<1>9. ClaimCountExact'
  BY <1>6, <1>7, <1>8 DEF ClaimCountExact
<1>10. CountInCap'
  <2>1. claimCount[id] \in Nat /\ maxClaims[id] \in Nat
    BY DEF TypeOK
  <2> QED
    BY <1>2, <1>7, <1>8, <2>1 DEF CountInCap
<1> QED
  BY <1>3, <1>4, <1>5, <1>9, <1>10

LEMMA StepClaimInv == TypeOK /\ ClaimInv /\ [Next]_vars => ClaimInv'
<1> SUFFICES ASSUME TypeOK, ClaimInv, [Next]_vars PROVE ClaimInv'
  OBVIOUS
<1>1. CASE UNCHANGED <<points, maxClaims, claimCount, registered, surveyCenti,
                       claimed, surveyPoints, surveyCentiOf, totalPoints, totalCenti>>
  <2>1. \A id : Claimants(id)' = Claimants(id)
    BY <1>1 DEF Claimants
  <2> QED
    BY <1>1, <2>1 DEF ClaimInv, OneRepresentation, Exists, AwardInv, ClaimedExists,
       ClaimCountExact, CountInCap
<1>2. ASSUME NEW c \in Callers, NEW id \in SurveyIds, NEW limit \in ClaimLimits,
             \/ \E whole \in PointInputs : RegisterSurvey(c, id, whole, limit)
             \/ \E centi \in CentiInputs : RegisterSurveyCenti(c, id, centi, limit)
      PROVE  ClaimInv'
  BY <1>2, RegisterWritesRecord, RecordKeepsClaimInv
<1> QED
  BY <1>1, <1>2, NextCases, OtherStepsKeepPoints, AwardKeepsClaimInv, RevokeKeepsClaimInv

THEOREM ClaimInvariant == Spec => [](TypeOK /\ ClaimInv)
  BY InitTypeOK, InitRoleInv, InitClaimInv, StepTypeOK, StepRoleInv, StepClaimInv, PTL DEF Spec

(* claimCount counts the wallets whose claim flag is set.                  *)
THEOREM ClaimCountIsExact == Spec => []ClaimCountExact
<1>1. ClaimInv => ClaimCountExact
  BY DEF ClaimInv
<1> QED
  BY <1>1, ClaimInvariant, PTL

(* No more wallets than maxClaims hold a claim on a survey.                *)
THEOREM CapIsRespected == Spec => []CapRespected
<1>1. ClaimInv => CapRespected
  BY DEF ClaimInv, CountInCap, ClaimCountExact, CapRespected
<1> QED
  BY <1>1, ClaimInvariant, PTL

(* A survey uses one value representation, and exists for the contract     *)
(* exactly when it exists for the backend.                                 *)
THEOREM OneRepresentationHolds == Spec => []OneRepresentation
<1>1. ClaimInv => OneRepresentation
  BY DEF ClaimInv
<1> QED
  BY <1>1, ClaimInvariant, PTL

(* A wallet is credited with exactly the value of the surveys it claimed.  *)
THEOREM AwardsAreTheClaims == Spec => []AwardsMatchClaims
<1>1. TypeOK /\ ClaimInv => AwardsMatchClaims
  <2> SUFFICES ASSUME TypeOK, ClaimInv, NEW w \in Address, NEW id \in SurveyIds
               PROVE  SurveyPointsCentiOf(w, id) = IF <<w, id>> \in claimed THEN CentiOf(id) ELSE 0
    BY DEF AwardsMatchClaims
  <2>1. points[id] \in Nat /\ surveyCenti[id] \in Nat
    <3>1. points[id] \in 0..255 /\ surveyCenti[id] \in Nat
      BY DEF TypeOK
    <3> QED
      BY <3>1
  <2>3. points[id] = 0 \/ surveyCenti[id] = 0
    BY DEF ClaimInv, OneRepresentation
  <2>2. /\ surveyPoints[<<w, id>>] = IF <<w, id>> \in claimed THEN points[id] ELSE 0
        /\ surveyCentiOf[<<w, id>>] = IF <<w, id>> \in claimed THEN surveyCenti[id] ELSE 0
    BY DEF ClaimInv, AwardInv
  <2> QED
    BY <2>1, <2>2, <2>3 DEF SurveyPointsCentiOf, CentiOf
<1> QED
  BY <1>1, ClaimInvariant, PTL

------------------------------------------------------------------------------
(* A registered survey keeps its value and its limit.                      *)
LEMMA StepKeepsValue ==
  ASSUME TypeOK, [Next]_vars, NEW i \in SurveyIds, Exists(i)
  PROVE  CentiOf(i)' = CentiOf(i) /\ maxClaims'[i] = maxClaims[i]
<1>1. CASE UNCHANGED <<points, maxClaims, surveyCenti>>
  BY <1>1 DEF CentiOf
<1>2. ASSUME NEW c \in Callers, NEW id \in SurveyIds, NEW limit \in ClaimLimits,
             \/ \E whole \in PointInputs : RegisterSurvey(c, id, whole, limit)
             \/ \E centi \in CentiInputs : RegisterSurveyCenti(c, id, centi, limit)
      PROVE  CentiOf(i)' = CentiOf(i) /\ maxClaims'[i] = maxClaims[i]
  <2>1. PICK whole, centi : NewRecord(id, whole, centi, limit)
    BY <1>2, RegisterWritesRecord
  <2>2. i # id
    BY <2>1 DEF NewRecord
  <2>3. /\ points'[i] = points[i] /\ surveyCenti'[i] = surveyCenti[i]
        /\ maxClaims'[i] = maxClaims[i]
    BY <2>1, <2>2 DEF NewRecord, WriteSurvey, TypeOK
  <2> QED
    BY <2>3 DEF CentiOf
<1>3. ASSUME NEW c \in Callers, NEW w \in Address, NEW id \in SurveyIds,
             AwardPoints(c, w, id) \/ RevokePoints(c, w, id)
      PROVE  UNCHANGED <<points, maxClaims, surveyCenti>>
  BY <1>3 DEF AwardPoints, AwardAllowed, RevokePoints
<1> QED
  BY <1>1, <1>2, <1>3, NextCases, OtherStepsKeepPoints

THEOREM ValuesAreFixed == Spec => ValueIsFixed
<1>1. TypeOK /\ [Next]_vars => [\A id \in SurveyIds : Exists(id) =>
                                  /\ CentiOf(id)' = CentiOf(id)
                                  /\ maxClaims'[id] = maxClaims[id]]_vars
  BY StepKeepsValue
<1> QED
  BY <1>1, TypeCorrect, PTL DEF Spec, ValueIsFixed

------------------------------------------------------------------------------
(* The min-1 guard reads adminCount, so the argument rests on RoleInv.     *)
LEMMA AdminStepKeepsOne == RoleInv /\ AdminNext => members'[Admin] # {}
<1> SUFFICES ASSUME RoleInv, AdminNext PROVE members'[Admin] # {}
  OBVIOUS
<1>1. members \in [Roles -> SUBSET Address] /\ Admin \in Roles
  BY DEF RoleInv, Roles
<1>2. ASSUME NEW c \in Callers, NEW a \in Address, AddAdmin(c, a)
      PROVE  members'[Admin] # {}
  BY <1>1, <1>2 DEF AddAdmin, GrantMember
<1>3. ASSUME NEW c \in Callers, NEW a \in Address, RemoveAdmin(c, a)
      PROVE  members'[Admin] # {}
  <2>1. adminCount > 1 /\ members'[Admin] = members[Admin] \ {a}
    BY <1>1, <1>3 DEF RemoveAdmin, RevokeMember
  <2>2. Cardinality(members[Admin]) > 1
    BY <2>1 DEF RoleInv, AdminCountExact
  <2>3. members[Admin] # {a}
    <3>1. Cardinality({a}) = 1
      BY FS_Singleton
    <3> QED
      BY <2>2, <3>1
  <2>4. members[Admin] # {}
    BY <2>2, FS_EmptySet
  <2> QED
    BY <2>1, <2>3, <2>4
<1> QED
  BY <1>2, <1>3 DEF AdminNext

(* Whatever happened to the role before, addAdmin and removeAdmin never    *)
(* leave the contract without an admin.                                    *)
THEOREM AdminFunctionsKeepAnAdmin == Spec => AdminFunctionsKeepOne
<1>1. RoleInv /\ [Next]_vars => [AdminNext => members'[Admin] # {}]_vars
  BY AdminStepKeepsOne
<1> QED
  BY <1>1, InitRoleInv, StepRoleInv, PTL DEF Spec, AdminFunctionsKeepOne

------------------------------------------------------------------------------
(* Totals.  A sum over the surveys is a fold, defined by a recursion that    *)
(* takes one element of the set at a time.  What it computes is the number   *)
(* of hundredths (or points) recorded: that number solves the recursion,     *)
(* and two solutions cannot differ on a smallest set.                        *)
SumOf(f, w) == MapThenSumSet(LAMBDA id : f[<<w, id>>], SurveyIds)

Units(f, w, ids) == {u \in ids \X (1 .. MaxCentiPoints) : u[2] <= f[<<w, u[1]>>]}

Bounded(f, w) == \A id \in SurveyIds : f[<<w, id>>] \in 0 .. MaxCentiPoints

LEMMA CapIsNatural == MaxCentiPoints \in Nat
BY DEF MaxCentiPoints

LEMMA SmallIsBounded ==
  ASSUME NEW n \in 0 .. 255
  PROVE  n \in Nat /\ n <= 255 /\ n \in 0 .. MaxCentiPoints
BY DEF MaxCentiPoints

LEMMA UnitsFinite ==
  ASSUME NEW f, NEW w, NEW ids \in SUBSET SurveyIds
  PROVE  IsFiniteSet(Units(f, w, ids)) /\ Cardinality(Units(f, w, ids)) \in Nat
<1>1. IsFiniteSet(ids) /\ IsFiniteSet(1 .. MaxCentiPoints)
  <2>1. MaxCentiPoints \in Int /\ 1 \in Int
    BY CapIsNatural
  <2>2. IsFiniteSet(1 .. MaxCentiPoints)
    BY <2>1, FS_Interval
  <2> QED
    BY <2>2, IdAssumption, FS_Subset
<1>2. IsFiniteSet(ids \X (1 .. MaxCentiPoints))
  BY <1>1, FS_Product
<1>3. Units(f, w, ids) \in SUBSET (ids \X (1 .. MaxCentiPoints))
  BY DEF Units
<1> QED
  BY <1>2, <1>3, FS_Subset, FS_CardinalityType

LEMMA UnitsOfOne ==
  ASSUME NEW f, NEW w, Bounded(f, w), NEW ids \in SUBSET SurveyIds, NEW x \in ids
  PROVE  Cardinality(Units(f, w, ids)) = f[<<w, x>>] + Cardinality(Units(f, w, ids \ {x}))
<1> DEFINE n == f[<<w, x>>]
           Mine == {x} \X (1 .. n)
<1>1. n \in Nat /\ n <= MaxCentiPoints
  <2>1. x \in SurveyIds
    OBVIOUS
  <2>2. n \in 0 .. MaxCentiPoints
    BY <2>1 DEF Bounded
  <2> QED
    BY <2>2, CapIsNatural
<1>2. IsFiniteSet(Mine) /\ Cardinality(Mine) = n
  <2>1. IsFiniteSet(1 .. n) /\ Cardinality(1 .. n) = n
    <3>1. n \in Int /\ 1 \in Int
      BY <1>1
    <3>2. IsFiniteSet(1 .. n) /\ Cardinality(1 .. n) = IF 1 > n THEN 0 ELSE n - 1 + 1
      BY <3>1, FS_Interval
    <3> QED
      BY <1>1, <3>2
  <2>2. IsFiniteSet({x}) /\ Cardinality({x}) = 1
    BY FS_Singleton
  <2> QED
    BY <1>1, <2>1, <2>2, FS_Product
<1>3. /\ Units(f, w, ids) = Mine \union Units(f, w, ids \ {x})
      /\ Mine \intersect Units(f, w, ids \ {x}) = {}
  BY <1>1, CapIsNatural DEF Units
<1>4. IsFiniteSet(Units(f, w, ids \ {x})) /\ Cardinality(Units(f, w, ids \ {x})) \in Nat
  BY UnitsFinite
<1>5. Cardinality({}) = 0
  BY FS_EmptySet
<1> HIDE DEF Mine, n
<1>6. Cardinality(Units(f, w, ids)) = Cardinality(Mine) + Cardinality(Units(f, w, ids \ {x})) - 0
  <2> DEFINE Others == Units(f, w, ids \ {x})
  <2>1. Cardinality(Mine \union Others) = Cardinality(Mine) + Cardinality(Others) - Cardinality(Mine \intersect Others)
    BY <1>2, <1>4, FS_Union
  <2> QED
    BY <1>3, <1>5, <2>1
<1> QED
  BY <1>1, <1>2, <1>4, <1>6 DEF n

LEMMA SumCountsUnits ==
  ASSUME NEW f, NEW w, Bounded(f, w)
  PROVE  SumOf(f, w) = Cardinality(Units(f, w, SurveyIds))
<1> DEFINE First(s) == CHOOSE x \in s : TRUE
           Solves(g) == g = [s \in SUBSET SurveyIds |->
                               IF s = {} THEN 0 ELSE f[<<w, First(s)>>] + g[s \ {First(s)}]]
           count == [s \in SUBSET SurveyIds |-> Cardinality(Units(f, w, s))]
           sum == CHOOSE g : Solves(g)
<1>1. SumOf(f, w) = sum[SurveyIds]
  BY DEF SumOf, MapThenSumSet, MapThenFoldSet
<1>2. \A s \in SUBSET SurveyIds : s # {} => First(s) \in s
  OBVIOUS
<1>3. Cardinality(Units(f, w, {})) = 0
  <2>1. Units(f, w, {}) = {}
    BY DEF Units
  <2> QED
    BY <2>1, FS_EmptySet
<1>4. Solves(count)
  <2>1. ASSUME NEW s \in SUBSET SurveyIds
        PROVE  count[s] = IF s = {} THEN 0 ELSE f[<<w, First(s)>>] + count[s \ {First(s)}]
    <3> HIDE DEF First
    <3>1. s \ {First(s)} \in SUBSET SurveyIds
      OBVIOUS
    <3> QED
      BY <1>2, <1>3, <3>1, UnitsOfOne
  <2> QED
    BY <2>1
<1>5. Solves(sum)
  BY <1>4
<1>6. sum = count
  <2> HIDE DEF First, sum
  <2> DEFINE Wrong == {s \in SUBSET SurveyIds : sum[s] # count[s]}
  <2>1. SUBSET SurveyIds \subseteq FiniteSubsetsOf(SurveyIds)
    BY IdAssumption, FS_Subset DEF FiniteSubsetsOf
  <2>2. ASSUME Wrong # {} PROVE FALSE
    <3>1. Wrong \subseteq FiniteSubsetsOf(SurveyIds)
      BY <2>1
    <3>2. PICK s \in Wrong : \A t \in Wrong : <<t, s>> \notin StrictSubsetOrdering(SurveyIds)
      <4> HIDE DEF Wrong
      <4> QED
        BY <2>2, <3>1, FS_StrictSubsetOrderingWellFounded, WFMin
    <3> DEFINE r == s \ {First(s)}
    <3>3. s \in SUBSET SurveyIds /\ sum[s] # count[s]
      OBVIOUS
    <3>4. s # {}
      BY <1>4, <1>5, <3>3
    <3>5. r \in SUBSET SurveyIds /\ r # s /\ r \subseteq s
      BY <1>2, <3>3, <3>4
    <3>6. <<r, s>> \in StrictSubsetOrdering(SurveyIds)
      BY <3>3, <3>5 DEF StrictSubsetOrdering
    <3>7. sum[r] = count[r]
      BY <3>2, <3>5, <3>6
    <3>8. sum[s] = f[<<w, First(s)>>] + sum[r] /\ count[s] = f[<<w, First(s)>>] + count[r]
      BY <1>4, <1>5, <3>3, <3>4
    <3> QED
      BY <3>3, <3>7, <3>8
  <2> QED
    BY <1>4, <1>5, <2>2
<1> QED
  BY <1>1, <1>6

Sums(total, f) == \A v \in Address : total[v] = SumOf(f, v)

(* One record changes, and the total with it.                                *)
LEMMA TotalFollows ==
  ASSUME NEW f \in [Pairs -> 0 .. MaxCentiPoints], NEW total \in [Address -> Nat],
         Sums(total, f),
         NEW w \in Address, NEW id \in SurveyIds, NEW n \in 0 .. MaxCentiPoints
  PROVE  Sums([total EXCEPT ![w] = (@ + n) - f[<<w, id>>]], [f EXCEPT ![<<w, id>>] = n])
<1> DEFINE g == [f EXCEPT ![<<w, id>>] = n]
           new == [total EXCEPT ![w] = (@ + n) - f[<<w, id>>]]
<1>0. \A v \in Address : total[v] = SumOf(f, v)
  BY DEF Sums
<1>1. ASSUME NEW v \in Address, v # w PROVE new[v] = SumOf(g, v)
  <2>1. \A i \in SurveyIds : g[<<v, i>>] = f[<<v, i>>] /\ <<v, i>> \in Pairs
    BY <1>1 DEF Pairs
  <2>2. Bounded(f, v) /\ Bounded(g, v)
    BY <2>1 DEF Bounded
  <2>3. Units(g, v, SurveyIds) = Units(f, v, SurveyIds)
    BY <2>1 DEF Units
  <2>4. new[v] = total[v]
    BY <1>1
  <2> QED
    BY <1>0, <2>2, <2>3, <2>4, SumCountsUnits
<1>2. new[w] = SumOf(g, w)
  <2>1. \A i \in SurveyIds : <<w, i>> \in Pairs
    BY DEF Pairs
  <2>2. \A i \in SurveyIds \ {id} : g[<<w, i>>] = f[<<w, i>>]
    BY <2>1
  <2>3. g[<<w, id>>] = n
    BY <2>1
  <2>4. Bounded(f, w) /\ Bounded(g, w)
    BY <2>1, <2>2, <2>3 DEF Bounded
  <2>5. Units(g, w, SurveyIds \ {id}) = Units(f, w, SurveyIds \ {id})
    BY <2>2 DEF Units
  <2>6. /\ SumOf(f, w) = f[<<w, id>>] + Cardinality(Units(f, w, SurveyIds \ {id}))
        /\ SumOf(g, w) = n + Cardinality(Units(g, w, SurveyIds \ {id}))
    <3>1. SurveyIds \in SUBSET SurveyIds
      OBVIOUS
    <3>2. SumOf(f, w) = Cardinality(Units(f, w, SurveyIds)) /\ SumOf(g, w) = Cardinality(Units(g, w, SurveyIds))
      BY <2>4, SumCountsUnits
    <3>3. Cardinality(Units(f, w, SurveyIds)) = f[<<w, id>>] + Cardinality(Units(f, w, SurveyIds \ {id}))
      BY <2>4, <3>1, UnitsOfOne
    <3>4. \A h : Bounded(h, w) =>
            Cardinality(Units(h, w, SurveyIds)) = h[<<w, id>>] + Cardinality(Units(h, w, SurveyIds \ {id}))
      BY <3>1, UnitsOfOne
    <3> QED
      BY <2>3, <2>4, <3>2, <3>3, <3>4
  <2>7. Cardinality(Units(f, w, SurveyIds \ {id})) \in Nat
    BY UnitsFinite
  <2>8. f[<<w, id>>] \in Nat /\ n \in Nat
    <3>1. f[<<w, id>>] \in 0 .. MaxCentiPoints
      BY <2>1
    <3> QED
      BY <3>1, CapIsNatural
  <2>9. new[w] = (total[w] + n) - f[<<w, id>>]
    OBVIOUS
  <2> QED
    BY <1>0, <2>5, <2>6, <2>7, <2>8, <2>9
<1> QED
  BY <1>1, <1>2 DEF Sums

CentiFits == \A id \in SurveyIds : surveyCenti[id] <= MaxCentiPoints

TotalsInv == CentiFits /\ TotalsAreSums

LEMMA TotalsMeaning ==
  /\ TotalsAreSums <=> Sums(totalPoints, surveyPoints) /\ Sums(totalCenti, surveyCentiOf)
  /\ TotalsAreSums' <=> Sums(totalPoints', surveyPoints') /\ Sums(totalCenti', surveyCentiOf')
BY DEF TotalsAreSums, Sums, SumOf, MapThenSumSet, MapThenFoldSet

LEMMA ValueTypes ==
  ASSUME TypeOK, CentiFits, NEW id \in SurveyIds
  PROVE  /\ points[id] \in 0 .. 255 /\ points[id] \in Nat /\ points[id] \in 0 .. MaxCentiPoints
         /\ surveyCenti[id] \in Nat /\ surveyCenti[id] \in 0 .. MaxCentiPoints
<1>1. points[id] \in 0 .. 255
  BY DEF TypeOK
<1>2. surveyCenti[id] \in Nat /\ surveyCenti[id] <= MaxCentiPoints
  BY DEF TypeOK, CentiFits
<1> QED
  BY <1>1, <1>2, SmallIsBounded

LEMMA AwardTypes ==
  ASSUME TypeOK, NEW w \in Address, NEW id \in SurveyIds
  PROVE  /\ surveyPoints[<<w, id>>] \in Nat /\ surveyCentiOf[<<w, id>>] \in Nat
         /\ totalPoints[w] \in Nat /\ totalCenti[w] \in Nat
<1>1. <<w, id>> \in Pairs
  BY DEF Pairs
<1>2. surveyPoints[<<w, id>>] \in 0 .. 255
  BY <1>1 DEF TypeOK
<1>3. surveyPoints[<<w, id>>] \in Nat
  BY <1>2
<1>4. surveyCentiOf[<<w, id>>] \in Nat
  BY <1>1 DEF TypeOK
<1>5. totalPoints[w] \in Nat /\ totalCenti[w] \in Nat
  BY DEF TypeOK
<1> QED
  BY <1>3, <1>4, <1>5

LEMMA RecordsBounded ==
  ASSUME TypeOK, ClaimInv, CentiFits
  PROVE  /\ surveyPoints \in [Pairs -> 0 .. MaxCentiPoints]
         /\ surveyCentiOf \in [Pairs -> 0 .. MaxCentiPoints]
<1>1. \A p \in Pairs : surveyPoints[p] \in 0 .. MaxCentiPoints
  <2> SUFFICES ASSUME NEW p \in Pairs PROVE surveyPoints[p] \in 0 .. MaxCentiPoints
    OBVIOUS
  <2>1. surveyPoints[p] \in 0 .. 255
    BY DEF TypeOK
  <2> QED
    BY <2>1, SmallIsBounded
<1>2. \A p \in Pairs : surveyCentiOf[p] \in 0 .. MaxCentiPoints
  <2> SUFFICES ASSUME NEW w \in Address, NEW id \in SurveyIds
               PROVE  surveyCentiOf[<<w, id>>] \in 0 .. MaxCentiPoints
    BY DEF Pairs
  <2>1. surveyCenti[id] \in 0 .. MaxCentiPoints /\ 0 \in 0 .. MaxCentiPoints
    BY ValueTypes, CapIsNatural
  <2> QED
    BY <2>1 DEF ClaimInv, AwardInv
<1>3. /\ surveyPoints = [p \in Pairs |-> surveyPoints[p]]
      /\ surveyCentiOf = [p \in Pairs |-> surveyCentiOf[p]]
  BY DEF TypeOK
<1> QED
  BY <1>1, <1>2, <1>3

LEMMA InitTotalsInv == Init => TotalsInv
<1> SUFFICES ASSUME Init PROVE TotalsInv
  OBVIOUS
<1>1. CentiFits
  BY DEF Init, CentiFits, MaxCentiPoints
<1>2. ASSUME NEW f, f = [p \in Pairs |-> 0], NEW w \in Address PROVE SumOf(f, w) = 0
  <2>1. \A id \in SurveyIds : f[<<w, id>>] = 0
    BY <1>2 DEF Pairs
  <2>2. Bounded(f, w)
    BY <2>1, CapIsNatural DEF Bounded
  <2>3. Units(f, w, SurveyIds) = {}
    BY <2>1, CapIsNatural DEF Units
  <2> QED
    BY <2>2, <2>3, SumCountsUnits, FS_EmptySet
<1>3. TotalsAreSums
  BY <1>2, TotalsMeaning DEF Init, Sums
<1> QED
  BY <1>1, <1>3 DEF TotalsInv

(* A claim's record becomes whole and centi, and the totals with it.         *)
Records(w, id, whole, centi) ==
  /\ UNCHANGED surveyCenti
  /\ surveyPoints' = [surveyPoints EXCEPT ![<<w, id>>] = whole]
  /\ surveyCentiOf' = [surveyCentiOf EXCEPT ![<<w, id>>] = centi]
  /\ totalPoints' = [totalPoints EXCEPT ![w] = (@ + whole) - surveyPoints[<<w, id>>]]
  /\ totalCenti' = [totalCenti EXCEPT ![w] = (@ + centi) - surveyCentiOf[<<w, id>>]]

LEMMA RecordKeepsTotals ==
  ASSUME TypeOK, ClaimInv, TotalsInv, NEW w \in Address, NEW id \in SurveyIds,
         NEW whole \in 0 .. MaxCentiPoints, NEW centi \in 0 .. MaxCentiPoints,
         Records(w, id, whole, centi)
  PROVE  TotalsInv'
<1>1. /\ surveyPoints \in [Pairs -> 0 .. MaxCentiPoints]
      /\ surveyCentiOf \in [Pairs -> 0 .. MaxCentiPoints]
  BY RecordsBounded DEF TotalsInv
<1>2. totalPoints \in [Address -> Nat] /\ totalCenti \in [Address -> Nat]
  BY DEF TypeOK
<1>3. Sums(totalPoints, surveyPoints) /\ Sums(totalCenti, surveyCentiOf)
  BY TotalsMeaning DEF TotalsInv
<1>4. Sums(totalPoints', surveyPoints')
  <2>1. Sums([totalPoints EXCEPT ![w] = (@ + whole) - surveyPoints[<<w, id>>]], [surveyPoints EXCEPT ![<<w, id>>] = whole])
    BY <1>1, <1>2, <1>3, TotalFollows
  <2> QED
    BY <2>1 DEF Records
<1>5. Sums(totalCenti', surveyCentiOf')
  <2>1. Sums([totalCenti EXCEPT ![w] = (@ + centi) - surveyCentiOf[<<w, id>>]], [surveyCentiOf EXCEPT ![<<w, id>>] = centi])
    BY <1>1, <1>2, <1>3, TotalFollows
  <2> QED
    BY <2>1 DEF Records
<1>6. TotalsAreSums'
  BY <1>4, <1>5, TotalsMeaning
<1> QED
  BY <1>6 DEF TotalsInv, CentiFits, Records

(* Nothing is credited that was not there.                                   *)
LEMMA NothingCredited ==
  ASSUME TypeOK, NEW w \in Address, NEW id \in SurveyIds, NEW p, p = <<w, id>>
  PROVE  /\ surveyPoints = [surveyPoints EXCEPT ![p] = surveyPoints[p]]
         /\ surveyCentiOf = [surveyCentiOf EXCEPT ![p] = surveyCentiOf[p]]
         /\ totalPoints = [totalPoints EXCEPT ![w] = (@ + surveyPoints[p]) - surveyPoints[p]]
         /\ totalCenti = [totalCenti EXCEPT ![w] = (@ + surveyCentiOf[p]) - surveyCentiOf[p]]
<1>1. /\ surveyPoints[p] \in Nat /\ surveyCentiOf[p] \in Nat
      /\ totalPoints[w] \in Nat /\ totalCenti[w] \in Nat
  BY AwardTypes
<1>2. /\ (totalPoints[w] + surveyPoints[p]) - surveyPoints[p] = totalPoints[w]
      /\ (totalCenti[w] + surveyCentiOf[p]) - surveyCentiOf[p] = totalCenti[w]
  BY <1>1
<1> QED
  BY <1>2 DEF TypeOK

LEMMA AwardKeepsTotals ==
  ASSUME TypeOK, ClaimInv, TotalsInv, NEW c \in Callers, NEW w \in Address, NEW id \in SurveyIds,
         AwardPoints(c, w, id)
  PROVE  TotalsInv'
<1> DEFINE p == <<w, id>>
<1>1. p \in Pairs /\ p \notin claimed /\ UNCHANGED surveyCenti
  BY DEF Pairs, AwardPoints, AwardAllowed
<1>2. surveyPoints[p] = 0 /\ surveyCentiOf[p] = 0
  BY <1>1 DEF ClaimInv, AwardInv
<1>3. /\ points[id] \in 0 .. MaxCentiPoints /\ surveyCenti[id] \in 0 .. MaxCentiPoints
      /\ points[id] \in Nat /\ surveyCenti[id] \in Nat
  BY ValueTypes DEF TotalsInv
<1>4. totalPoints[w] \in Nat /\ totalCenti[w] \in Nat
  BY AwardTypes
<1> HIDE DEF p
<1>5. CASE surveyCenti[id] = 0
  <2>1. /\ surveyPoints' = [surveyPoints EXCEPT ![p] = points[id]]
        /\ totalPoints' = [totalPoints EXCEPT ![w] = @ + points[id]]
        /\ surveyCentiOf' = surveyCentiOf /\ totalCenti' = totalCenti
    BY <1>5 DEF AwardPoints, CreditAward, p
  <2>2. totalPoints' = [totalPoints EXCEPT ![w] = (@ + points[id]) - surveyPoints[p]]
    <3>1. (totalPoints[w] + points[id]) - surveyPoints[p] = totalPoints[w] + points[id]
      BY <1>2, <1>3, <1>4
    <3> QED
      BY <2>1, <3>1
  <2>3. 0 \in 0 .. MaxCentiPoints
    BY CapIsNatural
  <2>4. /\ surveyCentiOf' = [surveyCentiOf EXCEPT ![p] = 0]
        /\ totalCenti' = [totalCenti EXCEPT ![w] = (@ + 0) - surveyCentiOf[p]]
    <3>1. /\ surveyCentiOf = [surveyCentiOf EXCEPT ![p] = surveyCentiOf[p]]
          /\ totalCenti = [totalCenti EXCEPT ![w] = (@ + surveyCentiOf[p]) - surveyCentiOf[p]]
      BY NothingCredited DEF p
    <3>2. surveyCentiOf[p] = 0
      BY <1>2
    <3> QED
      BY <2>1, <3>1, <3>2
  <2>5. Records(w, id, points[id], 0)
    BY <1>1, <2>1, <2>2, <2>4 DEF p, Records
  <2> QED
    BY <1>3, <2>3, <2>5, RecordKeepsTotals
<1>6. CASE surveyCenti[id] # 0
  <2>1. /\ surveyCentiOf' = [surveyCentiOf EXCEPT ![p] = surveyCenti[id]]
        /\ totalCenti' = [totalCenti EXCEPT ![w] = @ + surveyCenti[id]]
        /\ surveyPoints' = surveyPoints /\ totalPoints' = totalPoints
    BY <1>6 DEF AwardPoints, CreditAward, p
  <2>2. totalCenti' = [totalCenti EXCEPT ![w] = (@ + surveyCenti[id]) - surveyCentiOf[p]]
    <3>1. (totalCenti[w] + surveyCenti[id]) - surveyCentiOf[p] = totalCenti[w] + surveyCenti[id]
      BY <1>2, <1>3, <1>4
    <3> QED
      BY <2>1, <3>1
  <2>3. 0 \in 0 .. MaxCentiPoints
    BY CapIsNatural
  <2>4. /\ surveyPoints' = [surveyPoints EXCEPT ![p] = 0]
        /\ totalPoints' = [totalPoints EXCEPT ![w] = (@ + 0) - surveyPoints[p]]
    <3>1. /\ surveyPoints = [surveyPoints EXCEPT ![p] = surveyPoints[p]]
          /\ totalPoints = [totalPoints EXCEPT ![w] = (@ + surveyPoints[p]) - surveyPoints[p]]
      BY NothingCredited DEF p
    <3>2. surveyPoints[p] = 0
      BY <1>2
    <3> QED
      BY <2>1, <3>1, <3>2
  <2>5. Records(w, id, 0, surveyCenti[id])
    BY <1>1, <2>1, <2>2, <2>4 DEF p, Records
  <2> QED
    BY <1>3, <2>3, <2>5, RecordKeepsTotals
<1> QED
  BY <1>5, <1>6

LEMMA RevokeKeepsTotals ==
  ASSUME TypeOK, ClaimInv, TotalsInv, NEW c \in Callers, NEW w \in Address, NEW id \in SurveyIds,
         RevokePoints(c, w, id)
  PROVE  TotalsInv'
<1> DEFINE p == <<w, id>>
<1>1. p \in Pairs /\ p \in claimed /\ UNCHANGED surveyCenti
  BY DEF Pairs, RevokePoints
<1>2. /\ surveyPoints[p] = points[id] /\ surveyCentiOf[p] = surveyCenti[id]
      /\ points[id] = 0 \/ surveyCenti[id] = 0
  BY <1>1 DEF ClaimInv, AwardInv, OneRepresentation
<1>3. 0 \in 0 .. MaxCentiPoints
  BY CapIsNatural
<1>4. /\ surveyPoints[p] \in Nat /\ surveyCentiOf[p] \in Nat
      /\ totalPoints[w] \in Nat /\ totalCenti[w] \in Nat
  BY AwardTypes
<1> HIDE DEF p
<1>5. CASE surveyCenti[id] = 0
  <2>1. /\ surveyPoints' = [surveyPoints EXCEPT ![p] = 0]
        /\ totalPoints' = [totalPoints EXCEPT ![w] = @ - surveyPoints[p]]
        /\ surveyCentiOf' = surveyCentiOf /\ totalCenti' = totalCenti
    BY <1>5 DEF RevokePoints, DebitAward, p
  <2>2. totalPoints' = [totalPoints EXCEPT ![w] = (@ + 0) - surveyPoints[p]]
    <3>1. (totalPoints[w] + 0) - surveyPoints[p] = totalPoints[w] - surveyPoints[p]
      BY <1>4
    <3> QED
      BY <2>1, <3>1
  <2>3. surveyCentiOf[p] = 0
    BY <1>2, <1>5
  <2>4. /\ surveyCentiOf' = [surveyCentiOf EXCEPT ![p] = 0]
        /\ totalCenti' = [totalCenti EXCEPT ![w] = (@ + 0) - surveyCentiOf[p]]
    <3>1. /\ surveyCentiOf = [surveyCentiOf EXCEPT ![p] = surveyCentiOf[p]]
          /\ totalCenti = [totalCenti EXCEPT ![w] = (@ + surveyCentiOf[p]) - surveyCentiOf[p]]
      BY NothingCredited DEF p
    <3>2. surveyCentiOf[p] = 0
      BY <2>3
    <3> QED
      BY <2>1, <3>1, <3>2
  <2>5. Records(w, id, 0, 0)
    BY <1>1, <2>1, <2>2, <2>4 DEF p, Records
  <2> QED
    BY <1>3, <2>5, RecordKeepsTotals
<1>6. CASE surveyCenti[id] # 0
  <2>1. /\ surveyCentiOf' = [surveyCentiOf EXCEPT ![p] = 0]
        /\ totalCenti' = [totalCenti EXCEPT ![w] = @ - surveyCentiOf[p]]
        /\ surveyPoints' = surveyPoints /\ totalPoints' = totalPoints
    BY <1>6 DEF RevokePoints, DebitAward, p
  <2>2. totalCenti' = [totalCenti EXCEPT ![w] = (@ + 0) - surveyCentiOf[p]]
    <3>1. (totalCenti[w] + 0) - surveyCentiOf[p] = totalCenti[w] - surveyCentiOf[p]
      BY <1>4
    <3> QED
      BY <2>1, <3>1
  <2>3. surveyPoints[p] = 0
    BY <1>2, <1>6
  <2>4. /\ surveyPoints' = [surveyPoints EXCEPT ![p] = 0]
        /\ totalPoints' = [totalPoints EXCEPT ![w] = (@ + 0) - surveyPoints[p]]
    <3>1. /\ surveyPoints = [surveyPoints EXCEPT ![p] = surveyPoints[p]]
          /\ totalPoints = [totalPoints EXCEPT ![w] = (@ + surveyPoints[p]) - surveyPoints[p]]
      BY NothingCredited DEF p
    <3>2. surveyPoints[p] = 0
      BY <2>3
    <3> QED
      BY <2>1, <3>1, <3>2
  <2>5. Records(w, id, 0, 0)
    BY <1>1, <2>1, <2>2, <2>4 DEF p, Records
  <2> QED
    BY <1>3, <2>5, RecordKeepsTotals
<1> QED
  BY <1>5, <1>6

LEMMA StepTotalsInv == TypeOK /\ ClaimInv /\ TotalsInv /\ [Next]_vars => TotalsInv'
<1> SUFFICES ASSUME TypeOK, ClaimInv, TotalsInv, [Next]_vars PROVE TotalsInv'
  OBVIOUS
<1>1. CASE UNCHANGED <<surveyCenti, surveyPoints, surveyCentiOf, totalPoints, totalCenti>>
  <2>1. TotalsAreSums'
    BY <1>1, TotalsMeaning DEF TotalsInv
  <2> QED
    BY <1>1, <2>1 DEF TotalsInv, CentiFits
<1>2. ASSUME NEW id \in SurveyIds, NEW whole, NEW centi, NEW limit, NewRecord(id, whole, centi, limit)
      PROVE  TotalsInv'
  <2>1. /\ surveyPoints' = surveyPoints /\ surveyCentiOf' = surveyCentiOf
        /\ totalPoints' = totalPoints /\ totalCenti' = totalCenti
    BY <1>2 DEF NewRecord, WriteSurvey, awardVars
  <2>2. TotalsAreSums'
    BY <2>1, TotalsMeaning DEF TotalsInv
  <2>3. CentiFits'
    BY <1>2 DEF NewRecord, TotalsInv, CentiFits, TypeOK
  <2> QED
    BY <2>2, <2>3 DEF TotalsInv
<1>3. ASSUME NEW c \in Callers, NEW id \in SurveyIds, NEW limit \in ClaimLimits,
             \/ \E whole \in PointInputs : RegisterSurvey(c, id, whole, limit)
             \/ \E centi \in CentiInputs : RegisterSurveyCenti(c, id, centi, limit)
      PROVE  TotalsInv'
  BY <1>2, <1>3, RegisterWritesRecord
<1> QED
  BY <1>1, <1>3, NextCases, OtherStepsKeepPoints, AwardKeepsTotals, RevokeKeepsTotals

(* What divides without rest divides under a sum.                            *)
LEMMA WholePartAdds ==
  ASSUME NEW n \in Nat, NEW c \in Nat
  PROVE  (n * 100 + c) \div 100 = n + c \div 100
OBVIOUS

LEMMA PointsFitUint8 ==
  ASSUME NEW c \in Nat, c <= MaxCentiPoints
  PROVE  Uint8(c \div 100) = c \div 100
<1>1. c \div 100 \in Nat /\ c \div 100 <= 255
  BY DEF MaxCentiPoints
<1> QED
  BY <1>1 DEF Uint8

LEMMA ViewsRoundDown == TypeOK /\ ClaimInv /\ TotalsInv => LegacyViewsRoundDown
<1> SUFFICES ASSUME TypeOK, ClaimInv, TotalsInv PROVE LegacyViewsRoundDown
  OBVIOUS
<1>1. ASSUME NEW id \in SurveyIds PROVE InfoPoints(id) = CentiOf(id) \div 100
  <2>1. points[id] \in Nat /\ points[id] <= 255 /\ surveyCenti[id] \in Nat /\ surveyCenti[id] <= MaxCentiPoints
    BY ValueTypes DEF TotalsInv, CentiFits
  <2>2. CentiOf(id) \in Nat /\ CentiOf(id) <= MaxCentiPoints
    BY <2>1 DEF CentiOf, MaxCentiPoints
  <2> QED
    BY <2>2, PointsFitUint8 DEF InfoPoints
<1>2. ASSUME NEW w \in Address, NEW id \in SurveyIds
      PROVE  SurveyPointsOf(w, id) = SurveyPointsCentiOf(w, id) \div 100
  <2> DEFINE n == surveyPoints[<<w, id>>]
             c == surveyCentiOf[<<w, id>>]
  <2>1. n \in Nat /\ c \in Nat /\ c <= MaxCentiPoints
    <3>1. <<w, id>> \in Pairs
      BY DEF Pairs
    <3>2. n \in 0 .. 255 /\ c \in 0 .. MaxCentiPoints
      BY <3>1, RecordsBounded DEF TypeOK, TotalsInv
    <3> QED
      BY <3>2, CapIsNatural
  <2>2. n = 0 \/ c = 0
    BY DEF ClaimInv, AwardInv, OneRepresentation
  <2>3. SurveyPointsCentiOf(w, id) \div 100 = n + c \div 100
    BY <2>1, WholePartAdds DEF SurveyPointsCentiOf
  <2>4. SurveyPointsOf(w, id) = IF n # 0 THEN n ELSE c \div 100
    BY <2>1, PointsFitUint8 DEF SurveyPointsOf
  <2> HIDE DEF n, c
  <2> QED
    BY <2>1, <2>2, <2>3, <2>4
<1>3. ASSUME NEW w \in Address PROVE TotalPointsOf(w) = TotalPointsCentiOf(w) \div 100
  BY WholePartAdds DEF TypeOK, TotalPointsOf, TotalPointsCentiOf
<1> QED
  BY <1>1, <1>2, <1>3 DEF LegacyViewsRoundDown

(* awardPoints and revokePoints keep the totals the sums of the records, for *)
(* any surveys and wallets, so no revocation underflows; and no uint8 cast   *)
(* of a V2 view loses anything.                                              *)
THEOREM TotalsAndViewsAgree == EitherSpec => []TotalsAndViews
<1> DEFINE Inv == TypeOK /\ RoleInv /\ ClaimInv /\ TotalsInv
<1>1. EitherInit => Inv
  BY InitTypeOK, InitRoleInv, InitClaimInv, InitTotalsInv DEF EitherInit
<1>2. [EitherNext]_<<vars, deployed>> => [Next]_vars
  BY DEF EitherNext, Next
<1>3. Inv /\ [EitherNext]_<<vars, deployed>> => Inv'
  BY <1>2, StepTypeOK, StepRoleInv, StepClaimInv, StepTotalsInv
<1>4. Inv => TotalsAndViews
  BY ViewsRoundDown DEF TotalsInv, TotalsAndViews
<1> QED
  BY <1>1, <1>3, <1>4, PTL DEF EitherSpec
==============================================================================
