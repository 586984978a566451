-------------------------- MODULE SpeedLimitProps --------------------------
(* What card and plannerd, with the messages between them, promise the driver. *)
EXTENDS SpeedLimitAssist

(* A limit below the threshold does not become the set speed unless a button was held *)
(* or released since it came up, or released less than CRUISE_BUTTON_CONFIRM_HOLD     *)
(* before, or in a carState that plannerd had not read; or the driver engages.        *)
LowLimitNeedsPress ==
  [][/\ Adopts /\ ~Initializes
     /\ vCruise' = Clip(final) /\ vCruise' # vCruise /\ final < Threshold
     => asked]_vars

(* A confirmation that plannerd heard while it asked and card knew it, and the last   *)
(* press it has to hear, makes the limit the set speed, unless the driver presses     *)
(* again, disengages or switches the assist off, or the limit changes.                *)
HeardConfirmationWorks ==
  \A p \in 0..MaxPresses :
    LET Undisturbed == On /\ prevEnabled /\ limit = final /\ presses = p
        Heard       == (cluster < final /\ plus > 0) \/ (cluster > final /\ minus > 0)
    IN  Undisturbed /\ sla = "preActive" /\ prevSla # "active" /\ cluster = vCruise /\ Heard
          ~> vCruise = Clip(final) \/ ~Undisturbed

(* When nothing happens any more plannerd comes to rest: the set speed that card      *)
(* adopts makes it leave active as if the driver had changed it, and it returns.      *)
Settles == \E s \in SlaStates : <>[](sla = s)
=============================================================================
