---------------------------- MODULE OnroadProps ----------------------------
(* What the four processes promise one another. *)
EXTENDS Onroad

(* However slowly a card exits, the next one is not started while it lives: two would *)
(* both send on CAN.                                                                  *)
OneCard == \A g, h \in DOMAIN cards : Alive(g) /\ Alive(h) => g = h

(* While the card queries the car, the panda is in the OBD multiplexing mode asked    *)
(* for: no answer to an earlier request was taken for the answer to this one.         *)
QueryInRequestedMode ==
  clean /\ isOnroad =>
    \A g \in DOMAIN cards :
      cards[g].pc = "query" /\ cards[g].sigint = "none"
        => ((panda.mode = "elm327 obd") <=> Head(cards[g].todo))

(* The panda leaves ELM327 only for the safety mode of this drive's car, after the    *)
(* car was initialized (an ECU knockout needs ELM327).                                *)
SafetyFromThisDrive ==
  clean /\ panda.mode = "car" =>
    panda.card = Len(cards) /\ cards[panda.card].pc \in {"drive", "dead"}

(* A drive that goes on ends up in the safety mode of its car, unless card crashed or *)
(* the car is passive.                                                                *)
EventuallyConfigured ==
  <>[]isOnroad =>
    <>[](clean => \E g \in DOMAIN cards :
           /\ g = Len(cards)
           /\ panda = [mode |-> "car", card |-> g] \/ cards[g].pc \in {"dead", "passive"})

(* After the ignition was turned off, no card is left, even if it ignores SIGINT.     *)
CardEndsOffroad == <>[]~ignition => <>[](\A g \in DOMAIN cards : ~Alive(g))
=============================================================================
