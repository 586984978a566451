------------------------------ MODULE Updater ------------------------------
(***************************************************************************)
(* How a device moves to a new version: updated (system/updated/updated.py)*)
(* prepares it in an overlay of BASEDIR and copies it to FINALIZED, flashes*)
(* AGNOS to the slot that is not running (system/hardware/tici/agnos.py);  *)
(* the launch script (launch_chffrplus.sh) swaps the copy in at the next   *)
(* boot and then activates the AGNOS slot.                                 *)
(*                                                                         *)
(* Power may be lost between any two steps.  What was written since the    *)
(* last os.sync is then there, not there or half there, in FINALIZED and in*)
(* the slots; renames and the choice of the slot last at once.             *)
(***************************************************************************)
EXTENDS Integers, Sequences

CONSTANTS
  Versions,      \* of the tree
  OSOf,          \* the AGNOS_VERSION in launch_env.sh of each
  Partitions,    \* of the AGNOS manifest
  FullCheck,     \* those that are verified by reading them
  Buffered,      \* those whose image ends in a filler block, still in Python's buffer at the sync
  MaxFaults      \* bound: losses of power, failed commands, kills, edits, publications

ASSUME UpdaterAssumption ==
  /\ OSOf \in [Versions -> Nat]
  /\ {"none", "partial"} \cap Versions = {} /\ "none" \notin Partitions
  /\ FullCheck \subseteq Partitions /\ FullCheck # Partitions
  /\ Buffered \subseteq Partitions
  /\ MaxFaults \in Nat

VARIABLES
  boot,       \* where the launch script is
  u,          \* the steps updated has left in its round
  base,       \* the tree in BASEDIR
  old,        \* the tree in STAGING_ROOT/old_openpilot
  fin,        \* FINALIZED: its tree, its consistent flag, the edits of BASEDIR it is based on
  finOnDisk,  \* FINALIZED as of the last os.sync
  overlay,    \* what OVERLAY_MERGED shows: tree and edits of BASEDIR it is based on
  mounted,    \* whether the overlay is mounted
  initFile,   \* OVERLAY_INIT: "none", "older" or "newer" than the last change of BASEDIR/.git
  edits,      \* number of changes of BASEDIR/.git by somebody else
  active,     \* the boot slot
  slots,      \* each partition of each slot: its data and the hash written behind it
  disk,       \* the slots as of the last os.sync
  writing,    \* the partition being flashed
  published,  \* what the target branch points to
  faults,
  stale       \* no code: a loss of power has left a hash behind data that are not its own

vars == <<boot, u, base, old, fin, finOnDisk, overlay, mounted, initFile, edits, active,
          slots, disk, writing, published, faults, stale>>
staging == <<old, fin, finOnDisk, overlay, mounted>>
agnos   == <<active, slots, disk, writing>>
world   == <<edits, published, faults, stale>>

None    == "none"
Partial == "partial"
Trees   == Versions \cup {None, Partial}
Torn    == -1
Nothing == [tree |-> None, flag |-> FALSE, edits |-> 0]

(* What updated does in turn; "unflag", "sync" is set_consistent_flag(False). *)
Start    == <<"unflag", "sync", "init">>
RecreateSlip == <<"remove", "touch", "mount", "check">>        \* the flag is left alone

Recreate == <<"unflag", "sync", "remove", "touch", "mount", "check">>
Fetch    == <<"unflag", "sync", "checkout", "checked_out", "agnos">>
Reflash  == <<"unflag", "sync", "flash">>
Finalize == <<"unflag", "sync", "copy", "copied", "flag", "sync", "idle">>
Doing(step) == u # <<>> /\ Head(u) = step
Then(steps) == u' = steps
NextStep    == u' = Tail(u)

Slots  == {0, 1}
Target == 1 - active                                   \* get_target_slot_number
OSVersion == slots[active][CHOOSE p \in Partitions : TRUE].data     \* /VERSION
Verified(s, p, v) ==                                   \* verify_partition
  IF p \in FullCheck THEN slots[s][p].data = v ELSE slots[s][p].hash = v
AllVerified(s, v) == \A p \in Partitions : Verified(s, p, v)
Complete(s, v)    == \A p \in Partitions : slots[s][p].data = v
Bootable == OSVersion # Torn /\ Complete(active, OSVersion)

Init ==
  /\ boot = "off" /\ u = <<>>
  /\ base \in Versions /\ old = None
  /\ fin = Nothing /\ finOnDisk = Nothing
  /\ overlay = [tree |-> None, edits |-> 0] /\ mounted = FALSE
  /\ initFile = "none" /\ edits = 0
  /\ active = 0 /\ writing = None
  /\ slots = [s \in Slots |-> [p \in Partitions |-> [data |-> OSOf[base], hash |-> Torn]]]
  /\ disk = slots
  /\ published \in Versions
  /\ faults = 0 /\ stale = FALSE

-----------------------------------------------------------------------------
(* The launch script *)

(* A torn AGNOS is taken not to boot. *)
PowerOn ==
  /\ boot = "off" /\ base # None /\ Bootable
  /\ boot' = "launch"
  /\ UNCHANGED <<u, base, staging, initFile, agnos, world>>

ValidUpdate == initFile = "newer" /\ fin.flag /\ old = None

MoveAway ==
  /\ boot = "launch" /\ ValidUpdate
  /\ old' = base /\ base' = None
  /\ boot' = "swap"
  /\ UNCHANGED <<u, fin, finOnDisk, overlay, mounted, initFile, agnos, world>>

(* The new tree has no OVERLAY_INIT: git clean removed it from the overlay. *)
MoveIn ==
  /\ boot = "swap"
  /\ base' = fin.tree /\ fin' = Nothing /\ finOnDisk' = Nothing
  /\ initFile' = "none"
  /\ boot' = "launch"
  /\ UNCHANGED <<u, old, overlay, mounted, agnos, world>>

KeepBaseSlip ==                         \* does not wait for an AGNOS that is not there
  /\ boot = "launch" /\ ~ValidUpdate
  /\ boot' = IF OSVersion # OSOf[base] /\ AllVerified(Target, OSOf[base]) THEN "activate" ELSE "manager"
  /\ UNCHANGED <<u, base, staging, initFile, agnos, world>>

KeepBase ==
  /\ boot = "launch" /\ ~ValidUpdate
  /\ boot' = IF OSVersion = OSOf[base] THEN "manager"
             ELSE IF AllVerified(Target, OSOf[base]) THEN "activate" ELSE "install"
  /\ UNCHANGED <<u, base, staging, initFile, agnos, world>>

(* swap in agnos.py: the hashes are cleared first.  Each clear_partition_hash syncs    *)
(* while its zeros are still in Python's buffer.                                        *)
ClearHashes ==
  /\ boot = "activate"
  /\ slots' = [slots EXCEPT ![Target] =
                 [p \in Partitions |-> IF p \in FullCheck THEN @[p] ELSE [@[p] EXCEPT !.hash = Torn]]]
  /\ disk' = slots
  /\ boot' = "set_active"
  /\ UNCHANGED <<u, base, staging, initFile, active, writing, world>>

SetActive ==
  /\ boot = "set_active"
  /\ active' = Target
  /\ boot' = "off"
  /\ UNCHANGED <<u, base, staging, initFile, slots, disk, writing, world>>

-----------------------------------------------------------------------------
(* flash_agnos_update: each partition that does not verify loses its hash, is    *)
(* written, checked and synced, and gets its hash back.  The cleared hash        *)
(* reaches the page cache only after the sync of clear_partition_hash, and       *)
(* nothing syncs the new hash.                                                   *)

SetPartition(p, content) == slots' = [slots EXCEPT ![Target][p] = content]

FlashBeginsSlip(v) ==                   \* the hash is written first
  /\ writing = None
  /\ \E p \in Partitions :
       /\ ~Verified(Target, p, v)
       /\ SetPartition(p, [data |-> Torn, hash |-> v])
       /\ disk' = IF p \in FullCheck THEN disk ELSE slots
       /\ writing' = p
  /\ UNCHANGED active

FlashBegins(v) ==
  /\ writing = None
  /\ \E p \in Partitions :
       /\ ~Verified(Target, p, v)
       /\ SetPartition(p, [data |-> Torn, hash |-> Torn])
       /\ disk' = IF p \in FullCheck THEN disk ELSE slots
       /\ writing' = p
  /\ UNCHANGED active

FlashWrites(v) ==
  /\ writing # None /\ slots[Target][writing].data = Torn
  /\ SetPartition(writing, [slots[Target][writing] EXCEPT !.data = v])
  /\ disk' = IF writing \in Buffered THEN slots ELSE slots'
  /\ writing' = IF writing \in FullCheck THEN None ELSE writing
  /\ UNCHANGED active

FlashMarks(v) ==
  /\ writing # None /\ slots[Target][writing].data = v
  /\ SetPartition(writing, [slots[Target][writing] EXCEPT !.hash = v])
  /\ writing' = None
  /\ UNCHANGED <<active, disk>>

Flash(v) == FlashBegins(v) \/ FlashWrites(v) \/ FlashMarks(v)

(* The updater that the launch script shows when AGNOS is not ready: it flashes    *)
(* until the slot verifies.                                                        *)
Install ==
  /\ boot = "install"
  /\ \/ Flash(OSOf[base]) /\ UNCHANGED boot
     \/ writing = None /\ AllVerified(Target, OSOf[base]) /\ boot' = "activate" /\ UNCHANGED agnos
  /\ UNCHANGED <<u, base, staging, initFile, world>>

-----------------------------------------------------------------------------
(* updated *)

StartUpdated ==
  /\ boot = "manager" /\ u = <<>>
  /\ Then(Start)
  /\ UNCHANGED <<boot, base, staging, initFile, agnos, world>>

SyncAll == finOnDisk' = fin /\ disk' = slots            \* os.sync

(* set_consistent_flag: sync, change the flag, sync. *)
SetFlagSlip ==                          \* no sync before the flag
  /\ Doing("unflag") \/ Doing("flag")
  /\ fin' = [fin EXCEPT !.flag = Doing("flag")]
  /\ NextStep
  /\ UNCHANGED <<boot, base, old, finOnDisk, overlay, mounted, initFile, agnos, world>>

SetFlag ==
  /\ Doing("unflag") \/ Doing("flag")
  /\ SyncAll
  /\ fin' = [fin EXCEPT !.flag = Doing("flag")]
  /\ NextStep
  /\ UNCHANGED <<boot, base, old, overlay, mounted, initFile, active, slots, writing, world>>

Sync ==
  /\ Doing("sync")
  /\ SyncAll
  /\ NextStep
  /\ UNCHANGED <<boot, base, old, fin, overlay, mounted, initFile, active, slots, writing, world>>

InitOverlay ==
  /\ Doing("init")
  /\ Then(IF initFile = "newer" /\ mounted THEN <<"check">> ELSE Recreate)
  /\ UNCHANGED <<boot, base, staging, initFile, agnos, world>>

RemoveStagingSlip ==                    \* the backup of the last swap is kept
  /\ Doing("remove")
  /\ fin' = Nothing
  /\ overlay' = [tree |-> None, edits |-> 0] /\ mounted' = FALSE
  /\ NextStep
  /\ UNCHANGED <<boot, base, old, finOnDisk, initFile, agnos, world>>

RemoveStaging ==
  /\ Doing("remove")
  /\ old' = None /\ fin' = Nothing
  /\ overlay' = [tree |-> None, edits |-> 0] /\ mounted' = FALSE
  /\ NextStep
  /\ UNCHANGED <<boot, base, finOnDisk, initFile, agnos, world>>

TouchInit ==
  /\ Doing("touch")
  /\ initFile' = "newer"
  /\ overlay' = [overlay EXCEPT !.edits = edits]
  /\ NextStep
  /\ UNCHANGED <<boot, base, old, fin, finOnDisk, mounted, agnos, world>>

MountOverlay ==
  /\ Doing("mount")
  /\ SyncAll
  /\ overlay' = [overlay EXCEPT !.tree = base] /\ mounted' = TRUE
  /\ NextStep
  /\ UNCHANGED <<boot, base, old, fin, initFile, active, slots, writing, world>>

(* Before the first round, or while the clock is wrong, updated only waits; on a     *)
(* metered network, or asked only to check, it does not fetch.                       *)
Check ==
  /\ Doing("check")
  /\ \E steps \in {<<"init">>, <<"idle">>, Fetch} : Then(steps)
  /\ UNCHANGED <<boot, base, staging, initFile, agnos, world>>

Checkout ==
  /\ Doing("checkout")
  /\ overlay' = [overlay EXCEPT !.tree = Partial]
  /\ NextStep
  /\ UNCHANGED <<boot, base, old, fin, finOnDisk, mounted, initFile, agnos, world>>

CheckedOut ==
  /\ Doing("checked_out")
  /\ overlay' = [overlay EXCEPT !.tree = published]
  /\ NextStep
  /\ UNCHANGED <<boot, base, old, fin, finOnDisk, mounted, initFile, agnos, world>>

(* handle_agnos_update *)
HandleAgnos ==
  /\ Doing("agnos")
  /\ Then(IF OSVersion = OSOf[overlay.tree] THEN Finalize ELSE Reflash)
  /\ UNCHANGED <<boot, base, staging, initFile, agnos, world>>

FlashAgnosSlip ==                       \* goes on when a partition could not be flashed
  /\ Doing("flash")
  /\ \/ Flash(OSOf[overlay.tree]) /\ UNCHANGED u
     \/ writing = None /\ Then(Finalize) /\ UNCHANGED agnos
  /\ UNCHANGED <<boot, base, staging, initFile, world>>

FlashAgnos ==
  /\ Doing("flash")
  /\ \/ Flash(OSOf[overlay.tree]) /\ UNCHANGED u
     \/ writing = None /\ AllVerified(Target, OSOf[overlay.tree]) /\ Then(Finalize) /\ UNCHANGED agnos
  /\ UNCHANGED <<boot, base, staging, initFile, world>>

(* finalize_update: an old copy is removed, the overlay is copied. *)
Copy ==
  /\ Doing("copy")
  /\ fin' = [fin EXCEPT !.tree = Partial, !.edits = overlay.edits]
  /\ NextStep
  /\ UNCHANGED <<boot, base, old, finOnDisk, overlay, mounted, initFile, agnos, world>>

Copied ==
  /\ Doing("copied")
  /\ fin' = [fin EXCEPT !.tree = overlay.tree]
  /\ NextStep
  /\ UNCHANGED <<boot, base, old, finOnDisk, overlay, mounted, initFile, agnos, world>>

(* user_request is reset, then updated sleeps until the next round or a signal. *)
Sleep ==
  /\ Doing("idle")
  /\ Then(<<"init">>)
  /\ UNCHANGED <<boot, base, staging, initFile, agnos, world>>

UpdatedStep ==
  \/ SetFlag \/ Sync \/ InitOverlay \/ RemoveStaging \/ TouchInit \/ MountOverlay \/ Check
  \/ Checkout \/ CheckedOut \/ HandleAgnos \/ FlashAgnos \/ Copy \/ Copied \/ Sleep

-----------------------------------------------------------------------------
(* The rest of the world *)

Fault == faults < MaxFaults /\ faults' = faults + 1

(* A command of a round, say git, fails: the exception handler gives up the overlay. *)
Fail ==
  /\ Fault
  /\ u \notin {<<>>, <<"idle">>, Start, Tail(Start)}
  /\ Then(<<"idle">>) /\ initFile' = "none" /\ writing' = None
  /\ UNCHANGED <<boot, base, staging, active, slots, disk, edits, published, stale>>

(* The manager stops updated when the device goes onroad. *)
Kill ==
  /\ Fault
  /\ u # <<>>
  /\ Then(<<>>) /\ writing' = None
  /\ UNCHANGED <<boot, base, staging, initFile, active, slots, disk, edits, published, stale>>

(* Somebody works in BASEDIR, which changes its .git. *)
EditBase ==
  /\ Fault
  /\ boot = "manager"
  /\ base' \in Versions
  /\ edits' = edits + 1
  /\ initFile' = IF initFile = "none" THEN "none" ELSE "older"
  /\ UNCHANGED <<boot, u, staging, agnos, published, stale>>

Publish ==
  /\ Fault
  /\ published' \in Versions \ {published}
  /\ UNCHANGED <<boot, u, base, staging, initFile, agnos, edits, stale>>

Stop == boot' = "off" /\ Then(<<>>) /\ mounted' = FALSE /\ writing' = None

(* Between two rounds, or in the middle of one. *)
Reboot ==
  /\ boot = "manager"
  /\ IF Doing("idle") THEN UNCHANGED faults ELSE Fault
  /\ Stop /\ SyncAll
  /\ UNCHANGED <<base, old, fin, overlay, initFile, active, slots, edits, published, stale>>

(* What is left of the slots when some of what was not synced is not there. *)
Places          == Slots \X Partitions
Of(m, at)       == m[at[1]][at[2]]
Unsynced(field) == {at \in Places : Of(slots, at)[field] # Of(disk, at)[field]}
Left(noData, noHash) ==
  [s \in Slots |-> [p \in Partitions |->
     [data |-> IF <<s, p>> \in noData THEN disk[s][p].data ELSE slots[s][p].data,
      hash |-> IF <<s, p>> \in noHash THEN disk[s][p].hash ELSE slots[s][p].hash]]]

PowerLoss ==
  /\ Fault
  /\ Stop
  /\ \E tree \in {fin.tree, finOnDisk.tree} \cup (IF fin.tree = finOnDisk.tree THEN {} ELSE {Partial}),
        flag \in {fin.flag, finOnDisk.flag},
        e \in {fin.edits, finOnDisk.edits} :
       fin' = [tree |-> tree, flag |-> flag, edits |-> e]
  /\ \E noData \in SUBSET Unsynced("data"), noHash \in SUBSET Unsynced("hash") : slots' = Left(noData, noHash)
  /\ finOnDisk' = fin' /\ disk' = slots'
  /\ stale' = (stale \/ \E at \in Places : Of(slots', at).hash \notin {Torn, Of(slots', at).data})
  /\ UNCHANGED <<base, old, overlay, initFile, active, edits, published>>

LaunchStep == PowerOn \/ MoveAway \/ MoveIn \/ KeepBase \/ ClearHashes \/ SetActive \/ Install

Next ==
  \/ LaunchStep \/ StartUpdated \/ UpdatedStep
  \/ Fail \/ Kill \/ EditBase \/ Publish \/ Reboot \/ PowerLoss

(* A flagged update is offered to the driver, who reboots some day; after three days *)
(* without a fetch updated fetches on any network.                                   *)
RebootToUpdate == Doing("idle") /\ fin.flag /\ Reboot
FetchNow == Doing("check") /\ Then(Fetch) /\ Check

Fairness ==
  /\ WF_vars(LaunchStep) /\ WF_vars(StartUpdated) /\ WF_vars(UpdatedStep)
  /\ SF_vars(RebootToUpdate) /\ SF_vars(FetchNow)

Spec == Init /\ [][Next]_vars /\ Fairness
=============================================================================
