---------------------------- MODULE UpdaterProps ----------------------------
(* What an update promises, whenever power is lost. *)
EXTENDS Updater

(* BASEDIR is never half written, and if power is lost between the two renames of *)
(* the launch script, which leaves no BASEDIR, both trees are still there.        *)
TreeNeverTorn ==
  base \in Versions \/ (base = None /\ old \in Versions /\ fin.tree \in Versions)

(* The slot that boots holds one complete AGNOS, whatever flash was interrupted, as  *)
(* far as it is verified by reading; and as far as it is verified by the hash behind *)
(* it, unless a loss of power has left a hash behind data that are not its own.      *)
ActiveSlotComplete ==
  \E v \in {OSOf[w] : w \in Versions} : \A p \in Partitions :
    p \in FullCheck \/ ~stale => slots[active][p].data = v

(* The AGNOS a swapped-in tree asks for runs already, or the other slot verifies as   *)
(* it; and is complete there, unless a loss of power has left a hash behind data that *)
(* are not its own.                                                                   *)
SwappedInWithAgnos ==
  [][MoveAway => LET v == OSOf[fin.tree] IN
       OSVersion = v \/ (AllVerified(Target, v) /\ (stale \/ Complete(Target, v)))]_vars

(* "prevent an openpilot getting swapped in with a mismatched or partially downloaded *)
(* agnos" (updated.py), "Clear hash before flashing in case we get interrupted"       *)
(* (agnos.py): without exception.  The code breaks this: the hash is cleared after    *)
(* the sync.                                                                          *)
PartialAgnosNotSwappedIn ==
  [][MoveAway => LET v == OSOf[fin.tree] IN OSVersion = v \/ Complete(Target, v)]_vars

(* Work done in BASEDIR since the overlay was created, as far as it changes its .git, *)
(* is not overwritten: an update that was prepared before is not swapped in.          *)
LocalWorkKept == [][MoveAway => fin.edits = edits]_vars

(* An update is atomic for whoever sees only the tree, the AGNOS and what the next boot *)
(* would install (Installation), wherever updated and the launch script are stopped.   *)
(* A copy is an update as long as a boot may find its flag, in memory or on the disk.  *)
Prepared ==
  IF initFile = "newer" /\ (fin.flag \/ finOnDisk.flag) /\ (old = None \/ base = None)
  THEN fin.tree ELSE None
RunningOS == IF Bootable THEN OSVersion ELSE Torn
Mark      == slots[Target][CHOOSE p \in Partitions \ FullCheck : TRUE].hash
SpareOS   ==
  IF boot = "set_active" THEN OSOf[base] ELSE IF AllVerified(Target, Mark) THEN Mark ELSE Torn
Abstract == INSTANCE Installation WITH
  installed <- base, prepared <- Prepared, os <- RunningOS, spare <- SpareOS,
  running <- boot = "manager"
ImplementsInstallation == Abstract!Spec

(* Once nothing goes wrong any more, the device comes to run what is published,     *)
(* unless power was lost between the two renames or a torn AGNOS was activated.     *)
EventuallyUpdated == <>[](base = None \/ ~Bootable \/ base = published)
=============================================================================
