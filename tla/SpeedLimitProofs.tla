-------------------------- MODULE SpeedLimitProofs --------------------------
(***************************************************************************)
(* A low limit never becomes the set speed by itself, whatever the speeds, *)
(* thresholds and timers.  The argument is about what plannerd can still   *)
(* hold while nobody has pressed a button: neither a release that has not  *)
(* expired nor a set speed other than card's.                              *)
(***************************************************************************)
EXTENDS SpeedLimitProps, TLAPS

TypeOK ==
  /\ limit \in Limits
  /\ vCruise \in Speeds /\ button \in {"none", "plus", "minus"}
  /\ prevSla \in SlaStates /\ prevLimit \in Nat
  /\ cluster \in Speeds /\ cluster0 \in 0..MaxSpeed
  /\ plus \in 0..Hold /\ minus \in 0..Hold
  /\ sla \in SlaStates /\ speedLimit \in Nat /\ final \in Nat
  /\ preActiveTimer \in 0..PreActive /\ engagedTimer \in 0..Guard
  /\ presses \in 0..MaxPresses /\ changes \in 0..MaxChanges
  /\ recent \in 0..Hold

FlagsOK ==
  enabled \in BOOLEAN /\ assist \in BOOLEAN /\ prevEnabled \in BOOLEAN /\ enabled0 \in BOOLEAN /\ asked \in BOOLEAN

(* A release that plannerd still holds was heard recently, and recently means asked.    *)
HoldsAreRecent == plus <= recent /\ minus <= recent /\ (recent > 0 => asked)

(* The limit plannerd last looked at is the one it holds, or there was none. *)
LimitsAgree == speedLimit \in {0, final}

(* While a low limit has not been asked for ... *)
Unasked == final < Threshold /\ ~asked

(* ... plannerd has read the set speed that card keeps, ... *)
ClusterIsRead == Unasked => cluster = vCruise

(* ... and if card is about to adopt the limit it changes nothing. *)
NothingToAdopt ==
  Unasked /\ sla = "active" /\ (prevSla # "active" \/ prevLimit # final) => vCruise = Clip(final)

Inv == TypeOK /\ FlagsOK /\ HoldsAreRecent /\ LimitsAgree /\ ClusterIsRead /\ NothingToAdopt
-----------------------------------------------------------------------------
(* Arithmetic of the set speed and of the timers. *)
LEMMA ClipType ==
  ASSUME NEW v \in Int
  PROVE  Clip(v) \in Speeds /\ (v \in Speeds => Clip(v) = v)
  BY SpeedLimitAssumption DEF Clip, Speeds

LEMMA LessType ==
  ASSUME NEW n \in Nat, NEW t \in 0..n
  PROVE  Less(t) \in 0..n /\ Less(t) <= t
  BY DEF Less

LEMMA LessMonotone ==
  ASSUME NEW s \in Nat, NEW t \in Nat, s <= t
  PROVE  Less(s) <= Less(t)
  BY DEF Less

(* What the resolver keeps is a limit. *)
LEMMA FinalType ==
  ASSUME TypeOK
  PROVE  Final \in Nat /\ (Final # final => Final = limit /\ limit > 0)
  BY SpeedLimitAssumption DEF TypeOK, Final

(* A limit that plannerd has not held before is one it has not looked at either. *)
LEMMA NewLimitIsChange ==
  ASSUME TypeOK, LimitsAgree, Final # final
  PROVE  LimitChanged
  BY FinalType, SpeedLimitAssumption DEF TypeOK, LimitsAgree, LimitChanged

(* Init: no limit, no button. *)
LEMMA InitInv == Init => Inv
  <1> SUFFICES ASSUME Init PROVE Inv
    OBVIOUS
  <1>1. TypeOK
    BY SpeedLimitAssumption DEF Init, TypeOK, Speeds, SlaStates
  <1>2. HoldsAreRecent /\ LimitsAgree /\ ClusterIsRead /\ NothingToAdopt
    BY DEF Init, HoldsAreRecent, LimitsAgree, ClusterIsRead, NothingToAdopt
  <1>3. FlagsOK
    BY Zenon DEF Init, FlagsOK
  <1> QED
    BY <1>1, <1>2, <1>3 DEF Inv

-----------------------------------------------------------------------------
(* The road and the driver change nothing that the invariant relates. *)
LEMMA OutsideStep ==
  ASSUME Inv, NewLimit \/ Engage \/ Disengage \/ SwitchAssist
  PROVE  Inv'
  <1>1. TypeOK'
    BY SpeedLimitAssumption
    DEF Inv, TypeOK, NewLimit, Engage, Disengage, SwitchAssist, Change, driver, card, holds, plannerd
  <1>2. HoldsAreRecent' /\ LimitsAgree' /\ ClusterIsRead' /\ NothingToAdopt'
    BY DEF Inv, HoldsAreRecent, LimitsAgree, ClusterIsRead, NothingToAdopt, Unasked,
           NewLimit, Engage, Disengage, SwitchAssist, driver, card, holds, plannerd
  <1>3. FlagsOK'
    BY Zenon DEF Inv, FlagsOK, NewLimit, Engage, Disengage, SwitchAssist, driver, card, plannerd
  <1> QED
    BY <1>1, <1>2, <1>3 DEF Inv

(* Without a press, and with nothing to adopt, card leaves the set speed alone. *)
LEMMA UpdatedSpeedType ==
  ASSUME TypeOK, NEW by \in Int
  PROVE  /\ UpdatedSpeed(by) \in Speeds
         /\ NothingToAdopt /\ Unasked /\ by = 0 => UpdatedSpeed(by) = vCruise
  <1>1. vCruise \in Int /\ final \in Int /\ vCruise \in Speeds
    BY SpeedLimitAssumption DEF TypeOK, Speeds
  <1>2. Pressed(by) \in Speeds /\ (by = 0 => Pressed(by) = vCruise)
    <2>1. vCruise + by \in Int /\ (by = 0 => vCruise + by = vCruise)
      BY <1>1
    <2>2. Clip(vCruise + by) \in Speeds /\ (by = 0 => Clip(vCruise + by) = vCruise)
      BY <1>1, <2>1, ClipType
    <2> QED
      BY <1>1, <2>2 DEF Pressed
  <1>3. Clip(final) \in Speeds
    BY <1>1, ClipType
  <1>4. NothingToAdopt /\ Unasked /\ Adopts => Clip(final) = vCruise
    BY DEF NothingToAdopt, Adopts
  <1> QED
    BY <1>2, <1>3, <1>4 DEF UpdatedSpeed

(* card: after its step it has seen the state, so there is nothing left to adopt. *)
LEMMA CardKeepsInv ==
  ASSUME Inv, NEW by \in Int, NEW released \in {"none", "plus", "minus"}, CardStep(by, released),
         presses' \in 0..MaxPresses
  PROVE  Inv'
  <1>1. vCruise' \in Speeds /\ cluster' \in Speeds
    BY UpdatedSpeedType DEF Inv, TypeOK, CardStep, Initialize
  <1>2. TypeOK'
    BY <1>1 DEF Inv, TypeOK, CardStep, driver, holds, plannerd
  <1>3. HoldsAreRecent' /\ LimitsAgree'
    BY DEF Inv, TypeOK, HoldsAreRecent, LimitsAgree, CardStep, holds, plannerd
  <1>4. ClusterIsRead'
    <2> SUFFICES ASSUME Unasked' PROVE cluster' = vCruise'
      BY DEF ClusterIsRead
    <2>1. Unasked /\ by = 0
      BY DEF Unasked, CardStep, plannerd
    <2>2. cluster = vCruise /\ UpdatedSpeed(by) = vCruise
      BY <2>1, UpdatedSpeedType DEF Inv, ClusterIsRead
    <2> QED
      BY <2>2 DEF CardStep, Initialize
  <1>5. NothingToAdopt'
    BY DEF NothingToAdopt, CardStep, plannerd
  <1>6. FlagsOK'
    BY Zenon DEF Inv, FlagsOK, CardStep, driver, plannerd
  <1> QED
    BY <1>2, <1>3, <1>4, <1>5, <1>6 DEF Inv

(* plannerd reads a carState: what it then holds was heard now. *)
LEMMA ReadKeepsInv ==
  ASSUME Inv, ReadCarState
  PROVE  Inv'
  <1>1. TypeOK'
    BY SpeedLimitAssumption DEF Inv, TypeOK, ReadCarState, driver, card, plannerd
  <1>2. HoldsAreRecent'
    <2>1. plus' <= recent' /\ minus' <= recent'
      <3>1. Hold <= Hold /\ plus <= Hold /\ minus <= Hold /\ plus <= recent /\ minus <= recent
        BY SpeedLimitAssumption DEF Inv, TypeOK, HoldsAreRecent
      <3>2. /\ plus' = IF button = "plus" THEN Hold ELSE plus
            /\ minus' = IF button = "minus" THEN Hold ELSE minus
            /\ recent' = IF button # "none" THEN Hold ELSE recent
        BY DEF ReadCarState
      <3> QED
        BY <3>1, <3>2
    <2>2. recent' > 0 => recent > 0 \/ button # "none"
      <3>1. recent' = IF button # "none" THEN Hold ELSE recent
        BY DEF ReadCarState
      <3> QED
        BY <3>1
    <2>3. recent > 0 \/ button # "none" => asked'
      BY Zenon DEF Inv, HoldsAreRecent, ReadCarState
    <2> QED
      BY <2>1, <2>2, <2>3 DEF HoldsAreRecent
  <1>3. LimitsAgree' /\ ClusterIsRead'
    BY DEF Inv, LimitsAgree, ClusterIsRead, ReadCarState, driver, card, plannerd
  <1>4. NothingToAdopt'
    BY DEF Inv, TypeOK, NothingToAdopt, Unasked, ReadCarState, driver, card, plannerd
  <1>5. FlagsOK'
    BY Zenon DEF Inv, FlagsOK, ReadCarState, driver, card, plannerd
  <1> QED
    BY <1>1, <1>2, <1>3, <1>4, <1>5 DEF Inv

-----------------------------------------------------------------------------
(* plannerd's state machine *)

LEMMA NextSlaType ==
  ASSUME TypeOK PROVE NextSla \in SlaStates
  BY DEF TypeOK, NextSla, SlaStates

(* It becomes active only by a confirmation, and stays so only if a low limit is not new. *)
LEMMA BecomesActive ==
  ASSUME TypeOK, NextSla = "active"
  PROVE  \/ Confirmed /\ (sla = "inactive" => ~LimitChanged)
         \/ sla = "active" /\ ~(LimitChanged /\ NeedsConfirm)
  BY DEF TypeOK, NextSla, SlaStates

(* Without a release it holds, only the set speed itself confirms. *)
LEMMA ConfirmedUnasked ==
  ASSUME TypeOK, Confirmed, plus = 0, minus = 0, cluster = vCruise
  PROVE  vCruise = Clip(Final)
  <1>1. cluster = Final
    BY DEF Confirmed, TargetConfirmed, Released
  <1>2. Final \in Speeds /\ Final \in Int
    BY <1>1, FinalType DEF TypeOK
  <1> QED
    BY <1>1, <1>2, ClipType

(* While it has not been asked plannerd holds no release and knows the set speed. *)
LEMMA StillUnasked ==
  ASSUME Inv, UpdateSla, Unasked'
  PROVE  /\ cluster = vCruise /\ plus = 0 /\ minus = 0
         /\ Final = final => Unasked
  <1>1. Final < Threshold /\ final' = Final /\ ~asked'
    BY DEF Unasked, UpdateSla
  <1>2. Final # final => recent <= 0 /\ cluster = vCruise
    <2>1. Final # final => ~(recent > 0 \/ cluster # vCruise)
      BY <1>1, Zenon DEF UpdateSla
    <2> QED
      BY <2>1, SpeedLimitAssumption DEF Inv, TypeOK
  <1>3. Final = final => Unasked
    BY <1>1 DEF UpdateSla, Unasked
  <1>4. recent <= 0
    BY <1>2, <1>3 DEF Inv, TypeOK, HoldsAreRecent, Unasked
  <1>5. plus = 0 /\ minus = 0
    BY <1>4, SpeedLimitAssumption DEF Inv, TypeOK, HoldsAreRecent
  <1>6. cluster = vCruise
    BY <1>2, <1>3 DEF Inv, ClusterIsRead
  <1> QED
    BY <1>3, <1>5, <1>6

LEMMA UpdateKeepsInv ==
  ASSUME Inv, UpdateSla
  PROVE  Inv'
  <1>1. TypeOK'
    <2>1. final' \in Nat /\ sla' \in SlaStates /\ speedLimit' \in Nat
      BY FinalType, NextSlaType, SpeedLimitAssumption DEF Inv, TypeOK, UpdateSla, Track
    <2>2. plus' \in 0..Hold /\ minus' \in 0..Hold /\ recent' \in 0..Hold
      BY LessType, SpeedLimitAssumption DEF Inv, TypeOK, UpdateSla, ExpireHolds
    <2>3. preActiveTimer' \in 0..PreActive /\ engagedTimer' \in 0..Guard
      BY LessType, SpeedLimitAssumption DEF Inv, TypeOK, UpdateSla
    <2>4. cluster0' \in 0..MaxSpeed
      BY SpeedLimitAssumption DEF Inv, TypeOK, UpdateSla, Track, Speeds
    <2>5. /\ limit' \in Limits /\ vCruise' \in Speeds
          /\ button' \in {"none", "plus", "minus"} /\ prevSla' \in SlaStates /\ prevLimit' \in Nat
          /\ cluster' \in Speeds
          /\ presses' \in 0..MaxPresses /\ changes' \in 0..MaxChanges
      BY DEF Inv, TypeOK, UpdateSla, card
    <2> QED
      BY <2>1, <2>2, <2>3, <2>4, <2>5 DEF TypeOK
  <1>2. HoldsAreRecent'
    <2>1. plus \in Nat /\ minus \in Nat /\ recent \in Nat /\ plus <= recent /\ minus <= recent
      BY SpeedLimitAssumption DEF Inv, TypeOK, HoldsAreRecent
    <2>2. Less(plus) <= Less(recent) /\ Less(minus) <= Less(recent) /\ 0 <= Less(recent)
      BY <2>1, LessMonotone DEF Less
    <2>3. plus' <= recent' /\ minus' <= recent'
      BY <2>2 DEF UpdateSla, ExpireHolds
    <2>4. recent' > 0 => recent > 0
      BY <2>1 DEF UpdateSla, Less
    <2>5. recent > 0 => asked'
      BY DEF Inv, HoldsAreRecent, UpdateSla
    <2> QED
      BY <2>3, <2>4, <2>5 DEF HoldsAreRecent
  <1>3. LimitsAgree'
    BY SpeedLimitAssumption DEF Inv, TypeOK, LimitsAgree, UpdateSla, Track, Final
  <1>4. ClusterIsRead'
    BY StillUnasked DEF ClusterIsRead, UpdateSla, card
  <1>5. NothingToAdopt'
    <2> SUFFICES ASSUME Unasked', sla' = "active", (prevSla # "active" \/ prevLimit # final)'
                 PROVE  vCruise' = Clip(final')
      BY DEF NothingToAdopt, Clip
    <2>1. vCruise' = vCruise /\ final' = Final /\ NextSla = "active" /\ Final < Threshold
      BY DEF UpdateSla, card, Unasked
    <2>2. CASE Confirmed
      BY <2>1, <2>2, StillUnasked, ConfirmedUnasked DEF Inv
    <2>3. CASE sla = "active" /\ ~(LimitChanged /\ NeedsConfirm)
      <3>1. Final = final
        BY <2>1, <2>3, NewLimitIsChange DEF Inv, NeedsConfirm
      <3>2. Unasked /\ (prevSla # "active" \/ prevLimit # final)
        BY <3>1, StillUnasked DEF UpdateSla, card
      <3> QED
        BY <2>1, <2>3, <3>1, <3>2 DEF Inv, NothingToAdopt
    <2> QED
      BY <2>1, <2>2, <2>3, BecomesActive DEF Inv
  <1>6. FlagsOK'
    BY Zenon DEF Inv, FlagsOK, UpdateSla, Track, driver, card
  <1> QED
    BY <1>1, <1>2, <1>3, <1>4, <1>5, <1>6 DEF Inv

-----------------------------------------------------------------------------
LEMMA NextInv == Inv /\ [Next]_vars => Inv'
  <1> SUFFICES ASSUME Inv, [Next]_vars PROVE Inv'
    OBVIOUS
  <1>1. CASE NewLimit \/ Engage \/ Disengage \/ SwitchAssist
    BY <1>1, OutsideStep
  <1>2. CASE CardRuns
    BY <1>2, CardKeepsInv DEF CardRuns, Inv, TypeOK
  <1>3. CASE Press
    <2>1. presses' \in 0..MaxPresses
      BY <1>3, SpeedLimitAssumption DEF Press, Inv, TypeOK
    <2>2. PICK by \in Int, released \in {"none", "plus", "minus"} : CardStep(by, released)
      BY <1>3, SpeedLimitAssumption DEF Press
    <2> QED
      BY <2>1, <2>2, CardKeepsInv
  <1>4. CASE ReadCarState
    BY <1>4, ReadKeepsInv
  <1>5. CASE UpdateSla
    BY <1>5, UpdateKeepsInv
  <1>6. CASE UNCHANGED vars
    BY <1>6 DEF vars, Inv, TypeOK, FlagsOK, HoldsAreRecent, LimitsAgree, ClusterIsRead, NothingToAdopt, Unasked
  <1> QED
    BY <1>1, <1>2, <1>3, <1>4, <1>5, <1>6 DEF Next

(* Every behaviour of card and plannerd keeps the invariant. *)
THEOREM SpeedLimitInvariant == Spec => []Inv
  BY InitInv, NextInv, PTL DEF Spec

(* A limit below the threshold that nobody asked for does not become the set speed. *)
THEOREM LowLimitIsAskedFor == Spec => LowLimitNeedsPress
  <1>1. Inv => (Adopts /\ vCruise # Clip(final) /\ final < Threshold => asked)
    BY DEF Inv, NothingToAdopt, Unasked, Adopts
  <1>2. Inv /\ [Next]_vars =>
          [/\ Adopts /\ ~Initializes
           /\ vCruise' = Clip(final) /\ vCruise' # vCruise /\ final < Threshold
           => asked]_vars
    BY <1>1
  <1> QED
    BY <1>2, SpeedLimitInvariant, PTL DEF Spec, LowLimitNeedsPress
=============================================================================
