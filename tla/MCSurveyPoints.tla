--------------------------- MODULE MCSurveyPoints ---------------------------
(***************************************************************************)
(* Instances of SurveyPoints for TLC.  The centipoint inputs sit on both   *)
(* sides of every boundary of registerSurveyCenti: 0, below one point,     *)
(* whole, the cap, and the first whole and fractional values above it.     *)
(* The functions on surveys only ask whether the caller holds a role, so   *)
(* roles change only while there is at most the one small survey.          *)
(***************************************************************************)
EXTENDS SurveyPoints

BoundaryCenti == {0, 50, 100, 150, 25500, 25600, 25650}

BoundaryPoints == {0, 1, 255}

VARIABLE deployed        \* the roles after initialize

EitherInit == Init /\ deployed = members

Small == registered \subseteq {1} /\ points[1] \in {0, 1} /\ surveyCenti[1] \in {0, 50}

EitherNext ==
  /\ UNCHANGED deployed
  /\ \/ members = deployed /\ submitted = {} /\ SurveyNext
     \/ Small /\ Next /\ Small'

EitherSpec == EitherInit /\ [][EitherNext]_<<vars, deployed>>

(* The running totals are sums of the records, and the V2 views are them   *)
(* rounded down.                                                           *)
TotalsAndViews == TotalsAreSums /\ LegacyViewsRoundDown
==============================================================================
