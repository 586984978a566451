------------------------------ MODULE KeyStore ------------------------------
(***************************************************************************)
(* What every process of the system takes the parameter store to be, with  *)
(* the file system hidden: a value per key, replaced or deleted as a whole *)
(* ("safely and atomically writing a file", common/params.cc:133), and,    *)
(* after a loss of power, for each key either what was current or what was *)
(* last settled on disk.                                                   *)
(***************************************************************************)
CONSTANTS Keys, Values, NoValue

VARIABLES
  store,    \* what a reader of each key finds
  settled   \* what a loss of power cannot take away

Init == store = [k \in Keys |-> NoValue] /\ settled = store

Write(k, v) == store' = [store EXCEPT ![k] = v] /\ UNCHANGED settled
Delete(k)   == store' = [store EXCEPT ![k] = NoValue] /\ UNCHANGED settled
Settle      == settled' = store /\ UNCHANGED store

PowerLoss ==
  /\ store' \in {[k \in Keys |-> IF k \in S THEN settled[k] ELSE store[k]] : S \in SUBSET Keys}
  /\ settled' = store'

Next ==
  \/ \E k \in Keys : Delete(k) \/ \E v \in Values : Write(k, v)
  \/ Settle
  \/ PowerLoss

Spec == Init /\ [][Next]_<<store, settled>>
=============================================================================
