---------------------------- MODULE Installation ----------------------------
(***************************************************************************)
(* What an update of a device is to its driver, with the overlay, FINALIZED*)
(* and its flag, the partitions and their hashes, the boots and the losses *)
(* of power hidden: an update is there or not, and installing it changes   *)
(* the tree and then the running AGNOS, each at once.                      *)
(***************************************************************************)
EXTENDS Integers

CONSTANTS
  Versions,   \* of the tree
  OSOf        \* the AGNOS each of them needs

VARIABLES
  installed,  \* the tree in BASEDIR, or "none" while it is being replaced
  prepared,   \* the update that the next boot would install, or "none"
  os,         \* the AGNOS that runs, or -1: a torn one, which does not
  spare,      \* the AGNOS the other slot passes for, or -1
  running     \* whether the manager runs

vars == <<installed, prepared, os, spare, running>>

Init ==
  /\ installed \in Versions /\ prepared = "none"
  /\ os = OSOf[installed] /\ spare = -1
  /\ running = FALSE

(* The manager starts only on the AGNOS that its tree needs. *)
Run ==
  /\ ~running /\ installed # "none" /\ os = OSOf[installed]
  /\ running' = TRUE
  /\ UNCHANGED <<installed, prepared, os, spare>>

(* An update that was offered may be gone after the reboot, but is not another one,   *)
(* and if it is there the AGNOS it counts on is.                                       *)
Stop ==
  /\ running' = FALSE
  /\ \/ prepared' = prepared /\ spare' = spare
     \/ prepared' = "none" /\ spare' \in Int
  /\ UNCHANGED <<installed, os>>

(* The AGNOS of an update is there before the update is. *)
Prepare ==
  /\ running /\ prepared = "none"
  /\ \E v \in Versions : OSOf[v] \in {os, spare} /\ prepared' = v
  /\ UNCHANGED <<installed, os, spare, running>>

Withdraw == running /\ prepared' = "none" /\ UNCHANGED <<installed, os, spare, running>>

(* Somebody's work in BASEDIR makes the update void. *)
Edit ==
  /\ running
  /\ installed' \in Versions /\ prepared' = "none"
  /\ UNCHANGED <<os, spare, running>>

(* A slot is flashed only while no update counts on it. *)
Flash ==
  /\ prepared = "none"
  /\ spare' \in Int
  /\ UNCHANGED <<installed, prepared, os, running>>

TakeOut ==
  /\ ~running /\ prepared # "none"
  /\ installed' = "none"
  /\ UNCHANGED <<prepared, os, spare, running>>

PutIn ==
  /\ ~running /\ installed = "none"
  /\ installed' = prepared /\ prepared' = "none"
  /\ UNCHANGED <<os, spare, running>>

(* The slots change places: what passed for the AGNOS of the tree is it, or is torn. *)
Activate ==
  /\ ~running /\ installed # "none" /\ prepared = "none" /\ spare = OSOf[installed]
  /\ os' \in {spare, -1} /\ spare' \in Int
  /\ UNCHANGED <<installed, prepared, running>>

Next == Run \/ Stop \/ Prepare \/ Withdraw \/ Edit \/ Flash \/ TakeOut \/ PutIn \/ Activate

Spec == Init /\ [][Next]_vars
=============================================================================
