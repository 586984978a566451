---------------------------- MODULE UpdaterProofs ----------------------------
(* Proofs that an update never tears BASEDIR, the slot that boots or somebody's work, *)
(* and comes with its AGNOS, for every number of versions, partitions and faults.      *)
EXTENDS UpdaterProps, TLAPS

Boots  == {"off", "launch", "swap", "install", "activate", "set_active", "manager"}
Copies  == [tree : Trees, flag : BOOLEAN, edits : Nat]
Data   == Nat \cup {Torn}
Cell   == [data : Data, hash : Data]

(* Where updated is in its round. *)
AtMount    == <<"mount", "check">>
AtTouch    == <<"touch", "mount", "check">>
AtRemove   == <<"remove", "touch", "mount", "check">>
AtAgnos    == <<"agnos">>
AtChecked  == <<"checked_out", "agnos">>
AtCheckout == <<"checkout", "checked_out", "agnos">>
AtFlash    == <<"flash">>
AtFlag     == <<"flag", "sync", "idle">>
AtCopied   == <<"copied", "flag", "sync", "idle">>
AtCopy     == <<"copy", "copied", "flag", "sync", "idle">>
SyncInit   == <<"sync", "init">>
SyncRecreate == <<"sync", "remove", "touch", "mount", "check">>
SyncFetch    == <<"sync", "checkout", "checked_out", "agnos">>
SyncReflash  == <<"sync", "flash">>
SyncFinalize == <<"sync", "copy", "copied", "flag", "sync", "idle">>
SyncIdle     == <<"sync", "idle">>

(* Its places, by what has become of the consistent flag. *)
Nowhere  == {<<>>, <<"init">>, <<"idle">>, Start}
Flagged  == {<<"check">>, SyncIdle, Recreate, Fetch, Reflash, Finalize} \cup Nowhere
Clearing == {SyncInit, SyncRecreate, SyncFetch, SyncReflash, SyncFinalize}
Cleared  == {AtRemove, AtTouch, AtMount, AtCheckout, AtChecked, AtAgnos, AtFlash, AtCopy, AtCopied, AtFlag}

(* Then the overlay shows a version, and after that its AGNOS is there. *)
ToCopy  == {Finalize, SyncFinalize, AtCopy, AtCopied}
Fetched == {AtAgnos, Reflash, SyncReflash, AtFlash} \cup ToCopy

(* From the check to the flag the overlay is mounted. *)
Mounted == {<<"check">>, Fetch, SyncFetch, AtCheckout, AtChecked, AtFlag} \cup Fetched

Ready(v) == OSVersion = v \/ AllVerified(Target, v)

TreeType ==
  /\ base \in Versions \cup {None} /\ old \in Versions \cup {None}
  /\ fin \in Copies /\ finOnDisk \in Copies
  /\ overlay \in [tree : Trees, edits : Nat]
StepType ==
  /\ boot \in Boots /\ u \in Flagged \cup Clearing \cup Cleared
  /\ mounted \in BOOLEAN /\ initFile \in {"none", "older", "newer"} /\ edits \in Nat
  /\ published \in Versions
SlotType ==
  /\ active \in Slots /\ slots \in [Slots -> [Partitions -> Cell]]
  /\ disk \in [Slots -> [Partitions -> Cell]]
  /\ writing \in Partitions \cup {None} /\ stale \in BOOLEAN

(* updated runs under the manager; what was not synced is lost with it. *)
BootInv ==
  /\ u # <<>> => boot = "manager"
  /\ boot # "manager" => fin = finOnDisk
  /\ boot = "swap" => base = None
  /\ base = None => boot \in {"swap", "off"} /\ old \in Versions /\ fin.tree \in Versions

(* A copy with the flag, in memory or on the disk, is complete in both. *)
FlagInv ==
  /\ fin.flag \/ finOnDisk.flag => fin.tree = finOnDisk.tree /\ fin.tree \in Versions
  /\ u \in Clearing \cup Cleared => ~fin.flag
  /\ u \in Cleared => ~finOnDisk.flag
  /\ u \in Fetched => overlay.tree \in Versions
  /\ u = AtFlag => fin.tree \in Versions

(* Data and a hash that a loss of power may leave together: the data are torn, if not those *)
(* of the hash.  They are torn only behind a stale one.                                     *)
Near(d, h) == h = Torn \/ d = Torn \/ d = h
HashInv ==
  \A s \in Slots, p \in Partitions :
    /\ Near(slots[s][p].data, slots[s][p].hash) /\ Near(slots[s][p].data, disk[s][p].hash)
    /\ Near(disk[s][p].data, slots[s][p].hash) /\ Near(disk[s][p].data, disk[s][p].hash)
    /\ ~stale => slots[s][p].hash \in {Torn, slots[s][p].data}

(* The partition being written has lost its hash; once it is written, on the disk as well. *)
WriteInv ==
  /\ boot \notin {"manager", "install"} => writing = None
  /\ writing # None =>
       /\ slots[Target][writing].hash = Torn
       /\ slots[Target][writing].data # Torn =>
            disk[Target][writing].hash = Torn /\ disk[Target][writing].data \in {Torn, slots[Target][writing].data}

(* Only the slot to be booted next changes; it is read before the device boots it. *)
ActiveInv ==
  /\ \A p \in Partitions : disk[active][p].data = slots[active][p].data
  /\ ActiveSlotComplete
  /\ boot # "off" => Bootable
Sound(v) ==
  \A p \in Partitions :
    /\ disk[Target][p].data = slots[Target][p].data
    /\ slots[Target][p].data \in {v, Torn}
    /\ p \in FullCheck \/ ~stale => slots[Target][p].data = v
TargetInv ==
  /\ boot = "activate" => AllVerified(Target, OSOf[base])
  /\ boot = "set_active" => Sound(OSOf[base])

SlotInv == HashInv /\ WriteInv /\ ActiveInv /\ TargetInv

(* A copy that the launch script would swap in: its AGNOS is there, and on the disk. *)
AgnosInv ==
  /\ initFile = "newer" /\ (fin.flag \/ finOnDisk.flag) => Ready(OSOf[fin.tree]) /\ slots = disk
  /\ u \in ToCopy => Ready(OSOf[overlay.tree])
  /\ u = AtFlag => Ready(OSOf[fin.tree])
  /\ boot \in {"install", "activate", "set_active"} => ~(initFile = "newer" /\ fin.flag)
  /\ old # None /\ initFile = "newer" => base = None
  /\ u = AtTouch => old = None

(* And nobody has worked in BASEDIR since. *)
EditsInv ==
  /\ initFile = "newer" /\ (fin.flag \/ finOnDisk.flag) => fin.edits = edits /\ finOnDisk.edits = edits
  /\ initFile = "newer" /\ (mounted \/ u = AtMount) => overlay.edits = edits
  /\ u \in Mounted => mounted
  /\ u \in {AtCopied, AtFlag} => fin.edits = overlay.edits

IInv == TreeType /\ StepType /\ SlotType /\ BootInv /\ FlagInv /\ SlotInv /\ AgnosInv /\ EditsInv

USE DEF staging, agnos, world

LEMMA Facts ==
  ASSUME IInv
  PROVE  TreeType /\ StepType /\ SlotType /\ BootInv /\ FlagInv /\ SlotInv /\ AgnosInv /\ EditsInv
  BY DEF IInv

-----------------------------------------------------------------------------
(* Where the steps lead. *)
LEMMA HeadOf ==
  /\ Head(AtMount) = "mount"
  /\ Head(AtTouch) = "touch"
  /\ Head(AtRemove) = "remove"
  /\ Head(AtAgnos) = "agnos"
  /\ Head(AtChecked) = "checked_out"
  /\ Head(AtCheckout) = "checkout"
  /\ Head(AtFlash) = "flash"
  /\ Head(AtFlag) = "flag"
  /\ Head(AtCopied) = "copied"
  /\ Head(AtCopy) = "copy"
  /\ Head(SyncInit) = "sync"
  /\ Head(SyncRecreate) = "sync"
  /\ Head(SyncFetch) = "sync"
  /\ Head(SyncReflash) = "sync"
  /\ Head(SyncFinalize) = "sync"
  /\ Head(SyncIdle) = "sync"
  /\ Head(Recreate) = "unflag"
  /\ Head(Fetch) = "unflag"
  /\ Head(Reflash) = "unflag"
  /\ Head(Finalize) = "unflag"
  /\ Head(Start) = "unflag"
  /\ Head(<<"init">>) = "init"
  /\ Head(<<"idle">>) = "idle"
  /\ Head(<<"check">>) = "check"
  <1>1. Head(AtMount) = "mount"
    BY DEF AtMount
  <1>2. Head(AtTouch) = "touch"
    BY DEF AtTouch
  <1>3. Head(AtRemove) = "remove"
    BY DEF AtRemove
  <1>4. Head(AtAgnos) = "agnos"
    BY DEF AtAgnos
  <1>5. Head(AtChecked) = "checked_out"
    BY DEF AtChecked
  <1>6. Head(AtCheckout) = "checkout"
    BY DEF AtCheckout
  <1>7. Head(AtFlash) = "flash"
    BY DEF AtFlash
  <1>8. Head(AtFlag) = "flag"
    BY DEF AtFlag
  <1>9. Head(AtCopied) = "copied"
    BY DEF AtCopied
  <1>10. Head(AtCopy) = "copy"
    BY DEF AtCopy
  <1>11. Head(SyncInit) = "sync"
    BY DEF SyncInit
  <1>12. Head(SyncRecreate) = "sync"
    BY DEF SyncRecreate
  <1>13. Head(SyncFetch) = "sync"
    BY DEF SyncFetch
  <1>14. Head(SyncReflash) = "sync"
    BY DEF SyncReflash
  <1>15. Head(SyncFinalize) = "sync"
    BY DEF SyncFinalize
  <1>16. Head(SyncIdle) = "sync"
    BY DEF SyncIdle
  <1>17. Head(Recreate) = "unflag"
    BY DEF Recreate
  <1>18. Head(Fetch) = "unflag"
    BY DEF Fetch
  <1>19. Head(Reflash) = "unflag"
    BY DEF Reflash
  <1>20. Head(Finalize) = "unflag"
    BY DEF Finalize
  <1>21. Head(Start) = "unflag"
    BY DEF Start
  <1>22. Head(<<"init">>) = "init"
    OBVIOUS
  <1>23. Head(<<"idle">>) = "idle"
    OBVIOUS
  <1>24. Head(<<"check">>) = "check"
    OBVIOUS
  <1> QED
    BY <1>1, <1>2, <1>3, <1>4, <1>5, <1>6, <1>7, <1>8, <1>9, <1>10, <1>11, <1>12, <1>13, <1>14, <1>15, <1>16, <1>17, <1>18, <1>19, <1>20, <1>21, <1>22, <1>23, <1>24

LEMMA TailOf ==
  /\ Tail(AtMount) = <<"check">>
  /\ Tail(AtTouch) = AtMount
  /\ Tail(AtRemove) = AtTouch
  /\ Tail(AtChecked) = AtAgnos
  /\ Tail(AtCheckout) = AtChecked
  /\ Tail(AtFlag) = SyncIdle
  /\ Tail(AtCopied) = AtFlag
  /\ Tail(AtCopy) = AtCopied
  /\ Tail(SyncInit) = <<"init">>
  /\ Tail(SyncRecreate) = AtRemove
  /\ Tail(SyncFetch) = AtCheckout
  /\ Tail(SyncReflash) = AtFlash
  /\ Tail(SyncFinalize) = AtCopy
  /\ Tail(SyncIdle) = <<"idle">>
  /\ Tail(Recreate) = SyncRecreate
  /\ Tail(Fetch) = SyncFetch
  /\ Tail(Reflash) = SyncReflash
  /\ Tail(Finalize) = SyncFinalize
  /\ Tail(Start) = SyncInit
  <1>1. Tail(AtMount) = <<"check">>
    BY DEF AtMount
  <1>2. Tail(AtTouch) = AtMount
    BY DEF AtTouch, AtMount
  <1>3. Tail(AtRemove) = AtTouch
    BY DEF AtRemove, AtTouch
  <1>4. Tail(AtChecked) = AtAgnos
    BY DEF AtChecked, AtAgnos
  <1>5. Tail(AtCheckout) = AtChecked
    BY DEF AtCheckout, AtChecked
  <1>6. Tail(AtFlag) = SyncIdle
    BY DEF AtFlag, SyncIdle
  <1>7. Tail(AtCopied) = AtFlag
    BY DEF AtCopied, AtFlag
  <1>8. Tail(AtCopy) = AtCopied
    BY DEF AtCopy, AtCopied
  <1>9. Tail(SyncInit) = <<"init">>
    BY DEF SyncInit
  <1>10. Tail(SyncRecreate) = AtRemove
    BY DEF SyncRecreate, AtRemove
  <1>11. Tail(SyncFetch) = AtCheckout
    BY DEF SyncFetch, AtCheckout
  <1>12. Tail(SyncReflash) = AtFlash
    BY DEF SyncReflash, AtFlash
  <1>13. Tail(SyncFinalize) = AtCopy
    BY DEF SyncFinalize, AtCopy
  <1>14. Tail(SyncIdle) = <<"idle">>
    BY DEF SyncIdle
  <1>15. Tail(Recreate) = SyncRecreate
    BY DEF Recreate, SyncRecreate
  <1>16. Tail(Fetch) = SyncFetch
    BY DEF Fetch, SyncFetch
  <1>17. Tail(Reflash) = SyncReflash
    BY DEF Reflash, SyncReflash
  <1>18. Tail(Finalize) = SyncFinalize
    BY DEF Finalize, SyncFinalize
  <1>19. Tail(Start) = SyncInit
    BY DEF Start, SyncInit
  <1> QED
    BY <1>1, <1>2, <1>3, <1>4, <1>5, <1>6, <1>7, <1>8, <1>9, <1>10, <1>11, <1>12, <1>13, <1>14, <1>15, <1>16, <1>17, <1>18, <1>19

LEMMA Heads ==
  ASSUME StepType
  PROVE  /\ Doing("mount") => u = AtMount
         /\ Doing("touch") => u = AtTouch
         /\ Doing("remove") => u = AtRemove
         /\ Doing("agnos") => u = AtAgnos
         /\ Doing("checked_out") => u = AtChecked
         /\ Doing("checkout") => u = AtCheckout
         /\ Doing("flash") => u = AtFlash
         /\ Doing("flag") => u = AtFlag
         /\ Doing("copied") => u = AtCopied
         /\ Doing("copy") => u = AtCopy
         /\ Doing("init") => u = <<"init">>
         /\ Doing("idle") => u = <<"idle">>
         /\ Doing("check") => u = <<"check">>
         /\ Doing("sync") => u \in Clearing \cup {SyncIdle}
         /\ Doing("unflag") => u \in {Start, Recreate, Fetch, Reflash, Finalize}
  BY HeadOf DEF StepType, Doing, Nowhere, Flagged, Clearing, Cleared

LEMMA NowhereElse ==
  ASSUME NEW v \in Nowhere
  PROVE  v \in Flagged /\ v \notin Clearing \cup Cleared \cup Fetched \cup Mounted
  <1>1. v \in {<<"init">>, <<"idle">>} => v \notin Clearing \cup Cleared \cup Fetched \cup Mounted
    BY HeadOf DEF Clearing, Cleared, Fetched, Mounted, ToCopy
  <1>3. Start \notin Clearing \cup Cleared \cup Fetched \cup Mounted
    <2>1. Start \notin {Fetch, Reflash, Finalize}
      BY DEF Start, Fetch, Reflash, Finalize
    <2> QED
      BY HeadOf, <2>1 DEF Clearing, Cleared, Fetched, Mounted, ToCopy
  <1>2. <<>> \notin Clearing \cup Cleared \cup Fetched \cup Mounted
    <2>1. <<>> \notin Clearing \cup Cleared
      BY DEF Clearing, Cleared, AtMount, AtTouch, AtRemove, AtAgnos, AtChecked, AtCheckout, AtFlash, AtFlag,
             AtCopied, AtCopy, SyncInit, SyncRecreate, SyncFetch, SyncReflash, SyncFinalize
    <2>2. <<>> \notin Fetched \cup Mounted
      BY DEF Fetched, Mounted, ToCopy, Fetch, Reflash, Finalize, AtAgnos, AtChecked, AtCheckout, AtFlash, AtFlag,
             AtCopied, AtCopy, SyncFetch, SyncReflash, SyncFinalize
    <2> QED
      BY <2>1, <2>2
  <1> QED
    BY <1>1, <1>2, <1>3 DEF Nowhere, Flagged

(* Places that begin alike are still different. *)
LEMMA SyncsDiffer ==
  /\ SyncInit \notin {SyncRecreate, SyncFetch, SyncReflash, SyncFinalize, SyncIdle}
  /\ SyncRecreate \notin {SyncFetch, SyncReflash, SyncFinalize, SyncIdle}
  /\ SyncFetch \notin {SyncReflash, SyncFinalize, SyncIdle}
  /\ SyncReflash \notin {SyncFinalize, SyncIdle}
  /\ SyncFinalize \notin {SyncIdle}
  <1>1. SyncInit \notin {SyncRecreate, SyncFetch, SyncReflash, SyncFinalize, SyncIdle}
    BY DEF SyncInit, SyncRecreate, SyncFetch, SyncReflash, SyncFinalize, SyncIdle
  <1>2. SyncRecreate \notin {SyncFetch, SyncReflash, SyncFinalize, SyncIdle}
    BY DEF SyncRecreate, SyncFetch, SyncReflash, SyncFinalize, SyncIdle
  <1>3. SyncFetch \notin {SyncReflash, SyncFinalize, SyncIdle}
    BY DEF SyncFetch, SyncReflash, SyncFinalize, SyncIdle
  <1>4. SyncReflash \notin {SyncFinalize, SyncIdle}
    BY DEF SyncReflash, SyncFinalize, SyncIdle
  <1>5. SyncFinalize \notin {SyncIdle}
    BY DEF SyncFinalize, SyncIdle
  <1> QED
    BY <1>1, <1>2, <1>3, <1>4, <1>5

LEMMA UnflagsDiffer ==
  /\ Recreate \notin {Fetch, Reflash, Finalize}
  /\ Fetch \notin {Reflash, Finalize}
  /\ Reflash \notin {Finalize}
  <1>1. Recreate \notin {Fetch, Reflash, Finalize}
    BY DEF Recreate, Fetch, Reflash, Finalize
  <1>2. Fetch \notin {Reflash, Finalize}
    BY DEF Fetch, Reflash, Finalize
  <1>3. Reflash \notin {Finalize}
    BY DEF Reflash, Finalize
  <1> QED
    BY <1>1, <1>2, <1>3

(* Which set a place is in. *)
LEMMA PlaceOf ==
  /\ AtMount \in Cleared /\ AtMount \notin Clearing \cup ToCopy \cup Fetched \cup Mounted \cup {AtTouch, AtCopied, AtFlag, <<>>}
  /\ AtTouch \in Cleared /\ AtTouch \notin Clearing \cup ToCopy \cup Fetched \cup Mounted \cup {AtMount, AtCopied, AtFlag, <<>>}
  /\ AtRemove \in Cleared /\ AtRemove \notin Clearing \cup ToCopy \cup Fetched \cup Mounted \cup {AtTouch, AtMount, AtCopied, AtFlag, <<>>}
  /\ AtAgnos \in Cleared /\ AtAgnos \in Fetched /\ AtAgnos \in Mounted /\ AtAgnos \notin Clearing \cup ToCopy \cup {AtTouch, AtMount, AtCopied, AtFlag, <<>>}
  /\ AtChecked \in Cleared /\ AtChecked \in Mounted /\ AtChecked \notin Clearing \cup ToCopy \cup Fetched \cup {AtTouch, AtMount, AtCopied, AtFlag, <<>>}
  /\ AtCheckout \in Cleared /\ AtCheckout \in Mounted /\ AtCheckout \notin Clearing \cup ToCopy \cup Fetched \cup {AtTouch, AtMount, AtCopied, AtFlag, <<>>}
  /\ AtFlash \in Cleared /\ AtFlash \in Fetched /\ AtFlash \in Mounted /\ AtFlash \notin Clearing \cup ToCopy \cup {AtTouch, AtMount, AtCopied, AtFlag, <<>>}
  /\ AtFlag \in Cleared /\ AtFlag \in Mounted /\ AtFlag \notin Clearing \cup ToCopy \cup Fetched \cup {AtTouch, AtMount, AtCopied, <<>>}
  /\ AtCopied \in Cleared /\ AtCopied \in ToCopy /\ AtCopied \in Fetched /\ AtCopied \in Mounted /\ AtCopied \notin Clearing \cup {AtTouch, AtMount, AtFlag, <<>>}
  /\ AtCopy \in Cleared /\ AtCopy \in ToCopy /\ AtCopy \in Fetched /\ AtCopy \in Mounted /\ AtCopy \notin Clearing \cup {AtTouch, AtMount, AtCopied, AtFlag, <<>>}
  /\ SyncInit \in Clearing /\ SyncInit \notin Cleared \cup ToCopy \cup Fetched \cup Mounted \cup {AtTouch, AtMount, AtCopied, AtFlag, <<>>}
  /\ SyncRecreate \in Clearing /\ SyncRecreate \notin Cleared \cup ToCopy \cup Fetched \cup Mounted \cup {AtTouch, AtMount, AtCopied, AtFlag, <<>>}
  /\ SyncFetch \in Clearing /\ SyncFetch \in Mounted /\ SyncFetch \notin Cleared \cup ToCopy \cup Fetched \cup {AtTouch, AtMount, AtCopied, AtFlag, <<>>}
  /\ SyncReflash \in Clearing /\ SyncReflash \in Fetched /\ SyncReflash \in Mounted /\ SyncReflash \notin Cleared \cup ToCopy \cup {AtTouch, AtMount, AtCopied, AtFlag, <<>>}
  /\ SyncFinalize \in Clearing /\ SyncFinalize \in ToCopy /\ SyncFinalize \in Fetched /\ SyncFinalize \in Mounted /\ SyncFinalize \notin Cleared \cup {AtTouch, AtMount, AtCopied, AtFlag, <<>>}
  /\ SyncIdle \in Flagged /\ SyncIdle \notin Clearing \cup Cleared \cup ToCopy \cup Fetched \cup Mounted \cup {AtTouch, AtMount, AtCopied, AtFlag, <<>>}
  /\ Recreate \in Flagged /\ Recreate \notin Clearing \cup Cleared \cup ToCopy \cup Fetched \cup Mounted \cup {AtTouch, AtMount, AtCopied, AtFlag, <<>>}
  /\ Fetch \in Flagged /\ Fetch \in Mounted /\ Fetch \notin Clearing \cup Cleared \cup ToCopy \cup Fetched \cup {AtTouch, AtMount, AtCopied, AtFlag, <<>>}
  /\ Reflash \in Flagged /\ Reflash \in Fetched /\ Reflash \in Mounted /\ Reflash \notin Clearing \cup Cleared \cup ToCopy \cup {AtTouch, AtMount, AtCopied, AtFlag, <<>>}
  /\ Finalize \in ToCopy /\ Finalize \in Flagged /\ Finalize \in Fetched /\ Finalize \in Mounted /\ Finalize \notin Clearing \cup Cleared \cup {AtTouch, AtMount, AtCopied, AtFlag, <<>>}
  /\ <<"check">> \in Flagged /\ <<"check">> \in Mounted /\ <<"check">> \notin Clearing \cup Cleared \cup ToCopy \cup Fetched \cup {AtTouch, AtMount, AtCopied, AtFlag, <<>>}
  <1>1. AtMount \in Cleared /\ AtMount \notin Clearing \cup ToCopy \cup Fetched \cup Mounted \cup {AtTouch, AtCopied, AtFlag, <<>>}
    <2>1. AtMount # <<>>
      BY DEF AtMount
    <2> QED
      BY <2>1, HeadOf, SyncsDiffer, UnflagsDiffer DEF Flagged, Clearing, Cleared, ToCopy, Fetched, Mounted
  <1>2. AtTouch \in Cleared /\ AtTouch \notin Clearing \cup ToCopy \cup Fetched \cup Mounted \cup {AtMount, AtCopied, AtFlag, <<>>}
    <2>1. AtTouch # <<>>
      BY DEF AtTouch
    <2> QED
      BY <2>1, HeadOf, SyncsDiffer, UnflagsDiffer DEF Flagged, Clearing, Cleared, ToCopy, Fetched, Mounted
  <1>3. AtRemove \in Cleared /\ AtRemove \notin Clearing \cup ToCopy \cup Fetched \cup Mounted \cup {AtTouch, AtMount, AtCopied, AtFlag, <<>>}
    <2>1. AtRemove # <<>>
      BY DEF AtRemove
    <2> QED
      BY <2>1, HeadOf, SyncsDiffer, UnflagsDiffer DEF Flagged, Clearing, Cleared, ToCopy, Fetched, Mounted
  <1>4. AtAgnos \in Cleared /\ AtAgnos \in Fetched /\ AtAgnos \in Mounted /\ AtAgnos \notin Clearing \cup ToCopy \cup {AtTouch, AtMount, AtCopied, AtFlag, <<>>}
    <2>1. AtAgnos # <<>>
      BY DEF AtAgnos
    <2> QED
      BY <2>1, HeadOf, SyncsDiffer, UnflagsDiffer DEF Flagged, Clearing, Cleared, ToCopy, Fetched, Mounted
  <1>5. AtChecked \in Cleared /\ AtChecked \in Mounted /\ AtChecked \notin Clearing \cup ToCopy \cup Fetched \cup {AtTouch, AtMount, AtCopied, AtFlag, <<>>}
    <2>1. AtChecked # <<>>
      BY DEF AtChecked
    <2> QED
      BY <2>1, HeadOf, SyncsDiffer, UnflagsDiffer DEF Flagged, Clearing, Cleared, ToCopy, Fetched, Mounted
  <1>6. AtCheckout \in Cleared /\ AtCheckout \in Mounted /\ AtCheckout \notin Clearing \cup ToCopy \cup Fetched \cup {AtTouch, AtMount, AtCopied, AtFlag, <<>>}
    <2>1. AtCheckout # <<>>
      BY DEF AtCheckout
    <2> QED
      BY <2>1, HeadOf, SyncsDiffer, UnflagsDiffer DEF Flagged, Clearing, Cleared, ToCopy, Fetched, Mounted
  <1>7. AtFlash \in Cleared /\ AtFlash \in Fetched /\ AtFlash \in Mounted /\ AtFlash \notin Clearing \cup ToCopy \cup {AtTouch, AtMount, AtCopied, AtFlag, <<>>}
    <2>1. AtFlash # <<>>
      BY DEF AtFlash
    <2> QED
      BY <2>1, HeadOf, SyncsDiffer, UnflagsDiffer DEF Flagged, Clearing, Cleared, ToCopy, Fetched, Mounted
  <1>8. AtFlag \in Cleared /\ AtFlag \in Mounted /\ AtFlag \notin Clearing \cup ToCopy \cup Fetched \cup {AtTouch, AtMount, AtCopied, <<>>}
    <2>1. AtFlag # <<>>
      BY DEF AtFlag
    <2> QED
      BY <2>1, HeadOf, SyncsDiffer, UnflagsDiffer DEF Flagged, Clearing, Cleared, ToCopy, Fetched, Mounted
  <1>9. AtCopied \in Cleared /\ AtCopied \in ToCopy /\ AtCopied \in Fetched /\ AtCopied \in Mounted /\ AtCopied \notin Clearing \cup {AtTouch, AtMount, AtFlag, <<>>}
    <2>1. AtCopied # <<>>
      BY DEF AtCopied
    <2> QED
      BY <2>1, HeadOf, SyncsDiffer, UnflagsDiffer DEF Flagged, Clearing, Cleared, ToCopy, Fetched, Mounted
  <1>10. AtCopy \in Cleared /\ AtCopy \in ToCopy /\ AtCopy \in Fetched /\ AtCopy \in Mounted /\ AtCopy \notin Clearing \cup {AtTouch, AtMount, AtCopied, AtFlag, <<>>}
    <2>1. AtCopy # <<>>
      BY DEF AtCopy
    <2> QED
      BY <2>1, HeadOf, SyncsDiffer, UnflagsDiffer DEF Flagged, Clearing, Cleared, ToCopy, Fetched, Mounted
  <1>11. SyncInit \in Clearing /\ SyncInit \notin Cleared \cup ToCopy \cup Fetched \cup Mounted \cup {AtTouch, AtMount, AtCopied, AtFlag, <<>>}
    <2>1. SyncInit # <<>>
      BY DEF SyncInit
    <2> QED
      BY <2>1, HeadOf, SyncsDiffer, UnflagsDiffer DEF Flagged, Clearing, Cleared, ToCopy, Fetched, Mounted
  <1>12. SyncRecreate \in Clearing /\ SyncRecreate \notin Cleared \cup ToCopy \cup Fetched \cup Mounted \cup {AtTouch, AtMount, AtCopied, AtFlag, <<>>}
    <2>1. SyncRecreate # <<>>
      BY DEF SyncRecreate
    <2> QED
      BY <2>1, HeadOf, SyncsDiffer, UnflagsDiffer DEF Flagged, Clearing, Cleared, ToCopy, Fetched, Mounted
  <1>13. SyncFetch \in Clearing /\ SyncFetch \in Mounted /\ SyncFetch \notin Cleared \cup ToCopy \cup Fetched \cup {AtTouch, AtMount, AtCopied, AtFlag, <<>>}
    <2>1. SyncFetch # <<>>
      BY DEF SyncFetch
    <2> QED
      BY <2>1, HeadOf, SyncsDiffer, UnflagsDiffer DEF Flagged, Clearing, Cleared, ToCopy, Fetched, Mounted
  <1>14. SyncReflash \in Clearing /\ SyncReflash \in Fetched /\ SyncReflash \in Mounted /\ SyncReflash \notin Cleared \cup ToCopy \cup {AtTouch, AtMount, AtCopied, AtFlag, <<>>}
    <2>1. SyncReflash # <<>>
      BY DEF SyncReflash
    <2> QED
      BY <2>1, HeadOf, SyncsDiffer, UnflagsDiffer DEF Flagged, Clearing, Cleared, ToCopy, Fetched, Mounted
  <1>15. SyncFinalize \in Clearing /\ SyncFinalize \in ToCopy /\ SyncFinalize \in Fetched /\ SyncFinalize \in Mounted /\ SyncFinalize \notin Cleared \cup {AtTouch, AtMount, AtCopied, AtFlag, <<>>}
    <2>1. SyncFinalize # <<>>
      BY DEF SyncFinalize
    <2> QED
      BY <2>1, HeadOf, SyncsDiffer, UnflagsDiffer DEF Flagged, Clearing, Cleared, ToCopy, Fetched, Mounted
  <1>16. SyncIdle \in Flagged /\ SyncIdle \notin Clearing \cup Cleared \cup ToCopy \cup Fetched \cup Mounted \cup {AtTouch, AtMount, AtCopied, AtFlag, <<>>}
    <2>1. SyncIdle # <<>>
      BY DEF SyncIdle
    <2> QED
      BY <2>1, HeadOf, SyncsDiffer, UnflagsDiffer DEF Flagged, Clearing, Cleared, ToCopy, Fetched, Mounted
  <1>17. Recreate \in Flagged /\ Recreate \notin Clearing \cup Cleared \cup ToCopy \cup Fetched \cup Mounted \cup {AtTouch, AtMount, AtCopied, AtFlag, <<>>}
    <2>1. Recreate # <<>>
      BY DEF Recreate
    <2> QED
      BY <2>1, HeadOf, SyncsDiffer, UnflagsDiffer DEF Flagged, Clearing, Cleared, ToCopy, Fetched, Mounted
  <1>18. Fetch \in Flagged /\ Fetch \in Mounted /\ Fetch \notin Clearing \cup Cleared \cup ToCopy \cup Fetched \cup {AtTouch, AtMount, AtCopied, AtFlag, <<>>}
    <2>1. Fetch # <<>>
      BY DEF Fetch
    <2> QED
      BY <2>1, HeadOf, SyncsDiffer, UnflagsDiffer DEF Flagged, Clearing, Cleared, ToCopy, Fetched, Mounted
  <1>19. Reflash \in Flagged /\ Reflash \in Fetched /\ Reflash \in Mounted /\ Reflash \notin Clearing \cup Cleared \cup ToCopy \cup {AtTouch, AtMount, AtCopied, AtFlag, <<>>}
    <2>1. Reflash # <<>>
      BY DEF Reflash
    <2> QED
      BY <2>1, HeadOf, SyncsDiffer, UnflagsDiffer DEF Flagged, Clearing, Cleared, ToCopy, Fetched, Mounted
  <1>20. Finalize \in ToCopy /\ Finalize \in Flagged /\ Finalize \in Fetched /\ Finalize \in Mounted /\ Finalize \notin Clearing \cup Cleared \cup {AtTouch, AtMount, AtCopied, AtFlag, <<>>}
    <2>1. Finalize # <<>>
      BY DEF Finalize
    <2> QED
      BY <2>1, HeadOf, SyncsDiffer, UnflagsDiffer DEF Flagged, Clearing, Cleared, ToCopy, Fetched, Mounted
  <1>21. <<"check">> \in Flagged /\ <<"check">> \in Mounted /\ <<"check">> \notin Clearing \cup Cleared \cup ToCopy \cup Fetched \cup {AtTouch, AtMount, AtCopied, AtFlag, <<>>}
    <2>1. <<"check">> # <<>>
      OBVIOUS
    <2> QED
      BY <2>1, HeadOf, SyncsDiffer, UnflagsDiffer DEF Flagged, Clearing, Cleared, ToCopy, Fetched, Mounted
  <1> QED
    BY <1>1, <1>2, <1>3, <1>4, <1>5, <1>6, <1>7, <1>8, <1>9, <1>10, <1>11, <1>12, <1>13, <1>14, <1>15, <1>16, <1>17, <1>18, <1>19, <1>20, <1>21

-----------------------------------------------------------------------------
(* The slots *)

(* A step that changes nothing in them; it may sync. *)
LEMMA SlotsStay ==
  ASSUME IInv, UNCHANGED <<active, slots, stale>>, disk' \in {disk, slots}, writing' \in {writing, None},
         boot' \notin {"manager", "install"} => writing' = None,
         boot' # "off" => Bootable,
         boot' \in {"activate", "set_active"} =>
           base' = base /\ (boot' = boot \/ (boot' = "activate" /\ AllVerified(Target, OSOf[base])))
  PROVE  SlotType' /\ SlotInv' /\ (\A v : Ready(v)' <=> Ready(v))
  <1>1. SlotType'
    BY Facts DEF SlotType
  <1>2. HashInv'
    BY Facts DEF SlotInv, HashInv
  <1>3. WriteInv'
    BY Facts DEF SlotInv, WriteInv, Target
  <1>4. ActiveInv'
    <2>1. Bootable' = Bootable
      BY DEF Bootable, Complete, OSVersion
    <2>2. ActiveSlotComplete'
      BY Facts DEF SlotInv, ActiveInv, ActiveSlotComplete
    <2> QED
      BY Facts, <2>1, <2>2 DEF SlotInv, ActiveInv
  <1>5. TargetInv'
    <2>1. \A v : AllVerified(Target, v)' <=> AllVerified(Target, v)
      BY DEF AllVerified, Verified, Target
    <2>2. \A v : Sound(v) => Sound(v)'
      BY DEF Sound, Target
    <2>3. ASSUME boot' = "activate" PROVE AllVerified(Target, OSOf[base])'
      BY Facts, <2>1, <2>3 DEF SlotInv, TargetInv, AllVerified, Verified, Target
    <2>4. ASSUME boot' = "set_active" PROVE Sound(OSOf[base])'
      BY Facts, <2>4 DEF SlotInv, TargetInv, Sound, Target
    <2> QED
      BY <2>3, <2>4 DEF TargetInv
  <1>6. ASSUME NEW v PROVE Ready(v)' <=> Ready(v)
    BY DEF Ready, AllVerified, Verified, Target, OSVersion
  <1> QED
    BY <1>1, <1>2, <1>3, <1>4, <1>5, <1>6 DEF SlotInv

(* The overlay is not mounted, or as before. *)
MayUnmount == mounted' \in BOOLEAN /\ (mounted' => mounted)

(* A step that leaves the trees, the copies and the slots alone, and after which updated is *)
(* nowhere in particular.                                                                   *)
LEMMA Rests ==
  ASSUME IInv, NEW v \in Nowhere, u' = v, v # <<>> => boot' = "manager",
         UNCHANGED <<base, old, fin, finOnDisk, overlay, edits, active, slots, disk, stale>>, published' \in Versions,
         MayUnmount, initFile' \in {initFile, "none", "older"},
         writing' \in {writing, None}, boot' \in {"launch", "manager"},
         boot' # "manager" => writing' = None, Bootable,
         \/ boot' = boot
         \/ base # None /\ fin = finOnDisk
  PROVE  IInv'
  <1>1. TreeType'
    BY Facts DEF TreeType
  <1>2. StepType'
    BY Facts, NowhereElse DEF StepType, MayUnmount, Boots
  <1>3. BootInv'
    BY Facts DEF BootInv
  <1>4. FlagInv'
    BY Facts, NowhereElse DEF FlagInv, Cleared
  <1>5. SlotType' /\ SlotInv' /\ (\A w : Ready(w)' <=> Ready(w))
    BY SlotsStay
  <1>6. AgnosInv'
    BY Facts, <1>5, NowhereElse DEF AgnosInv, Fetched, Cleared
  <1>7. EditsInv'
    BY Facts, NowhereElse DEF EditsInv, Cleared, MayUnmount
  <1> QED
    BY <1>1, <1>2, <1>3, <1>4, <1>5, <1>6, <1>7 DEF IInv

(* What verifies is sound: its data are the image's, or torn behind a stale hash. *)
LEMMA VerifiedSound ==
  ASSUME IInv, NEW w \in Versions, AllVerified(Target, OSOf[w])
  PROVE  \A p \in Partitions :
           /\ slots[Target][p].data \in {OSOf[w], Torn}
           /\ p \in FullCheck \/ ~stale => slots[Target][p].data = OSOf[w]
  <1>1. OSOf[w] \in Nat /\ OSOf[w] # Torn
    BY UpdaterAssumption DEF Torn
  <1>2. Target \in Slots
    BY Facts DEF SlotType, Target, Slots
  <1>3. ASSUME NEW p \in Partitions
        PROVE  /\ slots[Target][p].data \in {OSOf[w], Torn}
               /\ p \in FullCheck \/ ~stale => slots[Target][p].data = OSOf[w]
    <2>1. Verified(Target, p, OSOf[w])
      BY <1>3 DEF AllVerified
    <2>2. CASE p \in FullCheck
      BY <2>1, <2>2 DEF Verified
    <2>3. CASE p \notin FullCheck
      <3>1. slots[Target][p].hash = OSOf[w]
        BY <2>1, <2>3 DEF Verified
      <3>2. Near(slots[Target][p].data, slots[Target][p].hash)
            /\ (~stale => slots[Target][p].hash \in {Torn, slots[Target][p].data})
        BY Facts, <1>2 DEF SlotInv, HashInv
      <3> QED
        BY <1>1, <2>3, <3>1, <3>2 DEF Near
    <2> QED
      BY <2>2, <2>3
  <1> QED
    BY <1>3

-----------------------------------------------------------------------------
(* The launch script *)

LEMMA LaunchKeeps == ASSUME IInv, PowerOn \/ MoveAway \/ MoveIn \/ KeepBase PROVE IInv'
  <1>0. u # <<>> => boot = "manager"
    BY Facts DEF BootInv
  <1>1. CASE PowerOn
    <2>1. u = <<>> /\ u \in Nowhere
      BY Facts, <1>1 DEF PowerOn, BootInv, Nowhere
    <2>5. <<>> \in Nowhere
      BY DEF Nowhere
    <2>2. u' = <<>> /\ boot' = "launch" /\ base # None /\ fin = finOnDisk /\ Bootable /\ writing = None
      BY Facts, <1>1, <2>1 DEF PowerOn, BootInv, SlotInv, WriteInv
    <2>3. UNCHANGED <<base, old, fin, finOnDisk, overlay, edits, active, slots, disk, mounted, initFile, writing,
                      published, stale>>
      BY <1>1 DEF PowerOn
    <2>4. published' \in Versions /\ MayUnmount
      BY Facts, <2>3 DEF StepType, MayUnmount
    <2> QED
      BY <2>1, <2>2, <2>3, <2>4, <2>5, Rests
  <1>2. CASE MoveAway
    <2>1. /\ u = <<>> /\ u \in Nowhere /\ boot = "launch" /\ base \in Versions /\ fin = finOnDisk
          /\ fin.flag /\ initFile = "newer" /\ old = None
      BY Facts, <1>2 DEF MoveAway, ValidUpdate, BootInv, Nowhere, TreeType
    <2>2. fin.tree \in Versions
      BY Facts, <2>1 DEF FlagInv
    <2>3. /\ old' = base /\ base' = None /\ boot' = "swap"
          /\ UNCHANGED <<u, fin, finOnDisk, overlay, mounted, initFile, agnos, world>>
      BY <1>2 DEF MoveAway
    <2>4. TreeType' /\ StepType'
      BY Facts, <2>1, <2>3 DEF TreeType, StepType, Boots
    <2>5. BootInv'
      BY Facts, <2>1, <2>2, <2>3 DEF BootInv
    <2>6. FlagInv' /\ EditsInv'
      BY Facts, <2>3 DEF FlagInv, EditsInv
    <2>9. writing = None /\ Bootable
      BY Facts, <2>1 DEF SlotInv, WriteInv, ActiveInv
    <2>7. SlotType' /\ SlotInv' /\ (\A v : Ready(v)' <=> Ready(v))
      BY <2>3, <2>9, SlotsStay
    <2>8. AgnosInv'
      BY Facts, <2>1, <2>3, <2>7, NowhereElse DEF AgnosInv, Fetched, Cleared
    <2> QED
      BY <2>4, <2>5, <2>6, <2>7, <2>8 DEF IInv
  <1>3. CASE MoveIn
    <2>1. u = <<>> /\ u \in Nowhere /\ boot = "swap" /\ base = None /\ fin.tree \in Versions
      BY Facts, <1>3 DEF MoveIn, BootInv, Nowhere
    <2>2. /\ base' = fin.tree /\ fin' = Nothing /\ finOnDisk' = Nothing /\ initFile' = "none" /\ boot' = "launch"
          /\ UNCHANGED <<u, old, overlay, mounted, agnos, world>> /\ Nothing \in Copies /\ ~Nothing.flag
      BY <1>3 DEF MoveIn, Nothing, Copies, Trees
    <2>3. TreeType' /\ StepType'
      BY Facts, <2>1, <2>2 DEF TreeType, StepType, Boots
    <2>4. BootInv'
      BY Facts, <2>1, <2>2, UpdaterAssumption DEF BootInv, None
    <2>5. FlagInv' /\ EditsInv' /\ AgnosInv'
      BY Facts, <2>1, <2>2, NowhereElse DEF FlagInv, EditsInv, AgnosInv, Fetched, Cleared
    <2>7. writing = None /\ Bootable
      BY Facts, <2>1 DEF SlotInv, WriteInv, ActiveInv
    <2>6. SlotType' /\ SlotInv'
      BY <2>2, <2>7, SlotsStay
    <2> QED
      BY <2>3, <2>4, <2>5, <2>6 DEF IInv
  <1>4. CASE KeepBase
    <2>1. u = <<>> /\ u \in Nowhere /\ boot = "launch" /\ base \in Versions /\ fin = finOnDisk
          /\ base # None /\ ~ValidUpdate
      BY Facts, <1>4, UpdaterAssumption DEF KeepBase, BootInv, Nowhere, TreeType, None
    <2>2. /\ boot' = "manager" \/ boot' = "install" \/ (boot' = "activate" /\ AllVerified(Target, OSOf[base]))
          /\ UNCHANGED <<u, base, staging, initFile, agnos, world>>
      BY <1>4 DEF KeepBase
    <2>3. TreeType' /\ StepType'
      BY Facts, <2>2 DEF TreeType, StepType, Boots
    <2>4. BootInv'
      BY Facts, <2>1, <2>2 DEF BootInv
    <2>5. FlagInv' /\ EditsInv'
      BY Facts, <2>2 DEF FlagInv, EditsInv
    <2>6. writing = None /\ Bootable
      BY Facts, <2>1 DEF SlotInv, WriteInv, ActiveInv
    <2>7. SlotType' /\ SlotInv'
      BY <2>2, <2>6, SlotsStay
    <2>8. ~(initFile = "newer" /\ fin.flag)
      BY Facts, <2>1 DEF ValidUpdate, AgnosInv
    <2>9. AgnosInv'
      BY Facts, <2>1, <2>2, <2>8, NowhereElse DEF AgnosInv, Fetched, Cleared
    <2> QED
      BY <2>3, <2>4, <2>5, <2>7, <2>9 DEF IInv
  <1> QED
    BY <1>1, <1>2, <1>3, <1>4

-----------------------------------------------------------------------------
(* AGNOS *)

(* Flashing changes the slot that is not running, and never has a hash behind data that are *)
(* not its own, except after a loss of power.                                               *)
LEMMA FlashKeeps ==
  ASSUME IInv, NEW w \in Versions, Flash(OSOf[w]), boot' = boot, boot \in {"manager", "install"}, UNCHANGED stale
  PROVE  SlotType' /\ SlotInv' /\ active' = active /\ slots'[active] = slots[active]
  <1>1. OSOf[w] \in Nat /\ Torn \in Data /\ OSOf[w] \in Data /\ OSOf[w] # Torn
    BY UpdaterAssumption DEF Data, Torn
  <1>2. Target \in Slots /\ Target # active /\ active \in Slots
    BY Facts DEF Target, Slots, SlotType
  <1>3. ASSUME NEW p \in Partitions, NEW c \in Cell, SetPartition(p, c), active' = active,
               disk' \in {disk, slots, slots'},
               writing' \in {None, p},
               c.hash \in {Torn, c.data},
               Near(c.data, disk'[Target][p].hash), Near(disk'[Target][p].data, c.hash),
               Near(disk'[Target][p].data, disk'[Target][p].hash),
               writing' = p => c.hash = Torn,
               writing' = p /\ c.data # Torn =>
                 disk'[Target][p].hash = Torn /\ disk'[Target][p].data \in {Torn, c.data}
        PROVE  SlotType' /\ SlotInv' /\ active' = active /\ slots'[active] = slots[active]
    <2>1. slots' = [slots EXCEPT ![Target][p] = c]
      BY <1>3 DEF SetPartition
    <2>2. slots' \in [Slots -> [Partitions -> Cell]]
      BY Facts, <1>2, <2>1 DEF SlotType
    <2>3. slots'[active] = slots[active]
      BY Facts, <1>2, <2>1 DEF SlotType
    <2>4. \A s \in Slots, q \in Partitions : slots'[s][q] = IF s = Target /\ q = p THEN c ELSE slots[s][q]
      BY Facts, <1>2, <2>1 DEF SlotType
    <2>5. SlotType'
      BY Facts, <1>3, <2>2 DEF SlotType
    <2>6. Target' = Target
      BY <1>3 DEF Target
    <2>7. ASSUME NEW s \in Slots, NEW q \in Partitions
          PROVE  /\ Near(slots'[s][q].data, slots'[s][q].hash) /\ Near(slots'[s][q].data, disk'[s][q].hash)
                 /\ Near(disk'[s][q].data, slots'[s][q].hash) /\ Near(disk'[s][q].data, disk'[s][q].hash)
                 /\ ~stale => slots'[s][q].hash \in {Torn, slots'[s][q].data}
      <3>1. CASE s = Target /\ q = p
        <4>1. slots'[s][q] = c /\ disk'[s][q] = disk'[Target][p]
          BY <2>4, <3>1
        <4>2. Near(c.data, c.hash)
          BY <1>3 DEF Near
        <4> QED
          BY <1>3, <4>1, <4>2
      <3>2. CASE ~(s = Target /\ q = p)
        <4>1. slots'[s][q] = slots[s][q] /\ disk'[s][q] \in {disk[s][q], slots[s][q]}
          BY <1>3, <2>4, <3>2
        <4>2. /\ Near(slots[s][q].data, slots[s][q].hash) /\ Near(slots[s][q].data, disk[s][q].hash)
              /\ Near(disk[s][q].data, slots[s][q].hash) /\ Near(disk[s][q].data, disk[s][q].hash)
              /\ ~stale => slots[s][q].hash \in {Torn, slots[s][q].data}
          BY Facts DEF SlotInv, HashInv
        <4> QED
          BY <4>1, <4>2
      <3> QED
        BY <3>1, <3>2
    <2>8. HashInv'
      BY <2>7 DEF HashInv
    <2>9. slots'[Target][p] = c
      BY <1>2, <2>4
    <2>10. WriteInv'
      BY <1>3, <2>6, <2>9, UpdaterAssumption DEF WriteInv, None
    <2>11. Bootable' = Bootable
      BY <1>3, <2>3 DEF Bootable, Complete, OSVersion
    <2>12. ActiveInv'
      <3>1. \A q \in Partitions : disk'[active'][q].data = slots'[active'][q].data
        BY Facts, <1>3, <2>3 DEF SlotInv, ActiveInv
      <3>2. ActiveSlotComplete'
        BY Facts, <1>3, <2>3 DEF SlotInv, ActiveInv, ActiveSlotComplete
      <3> QED
        BY Facts, <2>11, <3>1, <3>2 DEF SlotInv, ActiveInv
    <2>13. TargetInv'
      BY DEF TargetInv
    <2> QED
      BY <1>3, <2>3, <2>5, <2>8, <2>10, <2>12, <2>13 DEF SlotInv
  <1>8. \A q \in Partitions : /\ slots[Target][q] \in Cell /\ disk[Target][q] \in Cell
                              /\ Near(slots[Target][q].data, slots[Target][q].hash)
                              /\ Near(disk[Target][q].data, disk[Target][q].hash)
    BY Facts, <1>2 DEF SlotType, SlotInv, HashInv
  <1>4. CASE FlashBegins(OSOf[w])
    <2> DEFINE c == [data |-> Torn, hash |-> Torn]
    <2>1. c \in Cell /\ c.hash = Torn /\ c.data = Torn
      BY <1>1 DEF Cell
    <2>2. PICK p \in Partitions : SetPartition(p, c) /\ disk' \in {disk, slots} /\ writing' = p /\ active' = active
      BY <1>4 DEF FlashBegins
    <2> HIDE DEF c
    <2>3. Near(disk'[Target][p].data, disk'[Target][p].hash)
      BY <1>8, <2>2
    <2>4. Near(c.data, disk'[Target][p].hash) /\ Near(disk'[Target][p].data, c.hash)
      BY <2>1 DEF Near
    <2> QED
      BY <1>3, <2>1, <2>2, <2>3, <2>4
  <1>5. writing # None => writing \in Partitions /\ slots[Target][writing] \in Cell
    BY Facts, <1>2 DEF SlotType
  <1>6. CASE FlashWrites(OSOf[w])
    <2> DEFINE c == [slots[Target][writing] EXCEPT !.data = OSOf[w]]
    <2>1. writing \in Partitions /\ slots[Target][writing] \in Cell /\ slots[Target][writing].data = Torn /\ SetPartition(writing, c)
          /\ writing' \in {writing, None} /\ active' = active /\ disk' \in {slots, slots'}
      BY <1>5, <1>6 DEF FlashWrites
    <2>2. slots[Target][writing].hash = Torn
      BY Facts, <2>1, UpdaterAssumption DEF SlotInv, WriteInv, None
    <2>3. c \in Cell /\ c.hash = Torn /\ c.data = OSOf[w]
      BY <1>1, <2>1, <2>2 DEF Cell
    <2>4. PICK p \in Partitions : p = writing
      BY <2>1
    <2> HIDE DEF c
    <2>5. slots'[Target][p] = c
      BY Facts, <1>2, <2>1, <2>4 DEF SetPartition, SlotType
    <2>6. disk'[Target][p].hash = Torn /\ disk'[Target][p].data \in {Torn, c.data}
      <3>1. disk'[Target][p] \in {slots[Target][p], slots'[Target][p]}
        BY <2>1
      <3>2. slots[Target][p].hash = Torn /\ slots[Target][p].data = Torn
        BY <2>1, <2>2, <2>4
      <3> QED
        BY <2>3, <2>5, <3>1, <3>2
    <2>7. /\ Near(c.data, disk'[Target][p].hash) /\ Near(disk'[Target][p].data, c.hash)
          /\ Near(disk'[Target][p].data, disk'[Target][p].hash)
      BY <2>3, <2>6 DEF Near
    <2>8. SetPartition(p, c) /\ disk' \in {disk, slots, slots'} /\ writing' \in {None, p}
      BY <2>1, <2>4
    <2> QED
      BY <1>3, <2>1, <2>3, <2>6, <2>7, <2>8
  <1>7. CASE FlashMarks(OSOf[w])
    <2> DEFINE c == [slots[Target][writing] EXCEPT !.hash = OSOf[w]]
    <2>1. writing \in Partitions /\ slots[Target][writing].data = OSOf[w] /\ SetPartition(writing, c)
          /\ writing' = None /\ active' = active /\ disk' = disk
      BY <1>5, <1>7 DEF FlashMarks
    <2>2. c \in Cell /\ c.hash = OSOf[w] /\ c.data = OSOf[w]
      BY <1>1, <1>5, <1>7, <2>1 DEF Cell, FlashMarks
    <2>3. disk[Target][writing].hash = Torn /\ disk[Target][writing].data \in {Torn, OSOf[w]}
      BY Facts, <1>1, <2>1, UpdaterAssumption DEF SlotInv, WriteInv, None
    <2>4. PICK p \in Partitions : p = writing
      BY <2>1
    <2> HIDE DEF c
    <2>5. /\ Near(c.data, disk'[Target][p].hash) /\ Near(disk'[Target][p].data, c.hash)
          /\ Near(disk'[Target][p].data, disk'[Target][p].hash)
      BY <2>1, <2>2, <2>3, <2>4 DEF Near
    <2>6. SetPartition(p, c) /\ writing' = None /\ p # None
      BY <2>1, <2>4, UpdaterAssumption DEF None
    <2> QED
      BY <1>3, <2>1, <2>2, <2>5, <2>6
  <1> QED
    BY <1>4, <1>6, <1>7 DEF Flash

(* Clearing the hashes behind an AGNOS that verifies leaves it sound, also on the disk. *)
LEMMA ClearKeeps ==
  ASSUME IInv, ClearHashes
  PROVE  /\ SlotType' /\ SlotInv' /\ active' = active
         /\ \A s \in Slots, p \in Partitions : slots'[s][p].data = slots[s][p].data
  <1>1. /\ boot = "activate" /\ boot' = "set_active" /\ active' = active /\ writing' = writing /\ disk' = slots
        /\ slots' = [slots EXCEPT ![Target] =
             [p \in Partitions |-> IF p \in FullCheck THEN @[p] ELSE [@[p] EXCEPT !.hash = Torn]]]
        /\ UNCHANGED <<base, stale>>
    BY DEF ClearHashes
  <1>2. Target \in Slots /\ Target # active /\ active \in Slots /\ Torn \in Data /\ Target' = Target
    BY Facts, <1>1 DEF Target, Slots, SlotType, Data
  <1>3. slots' \in [Slots -> [Partitions -> Cell]]
    <2>1. slots \in [Slots -> [Partitions -> Cell]]
      BY Facts DEF SlotType
    <2>2. \A p \in Partitions : slots[Target][p] \in Cell /\ [slots[Target][p] EXCEPT !.hash = Torn] \in Cell
      BY <1>2, <2>1 DEF Cell
    <2> QED
      BY <1>1, <1>2, <2>1, <2>2
  <1>4. \A s \in Slots, p \in Partitions :
          /\ slots'[s][p].data = slots[s][p].data
          /\ slots'[s][p].hash \in {Torn, slots[s][p].hash}
    BY Facts, <1>1, <1>2 DEF SlotType, Cell
  <1>5. SlotType'
    BY Facts, <1>1, <1>3 DEF SlotType
  <1>6. ASSUME NEW s \in Slots, NEW p \in Partitions
        PROVE  /\ Near(slots'[s][p].data, slots'[s][p].hash) /\ Near(slots'[s][p].data, disk'[s][p].hash)
               /\ Near(disk'[s][p].data, slots'[s][p].hash) /\ Near(disk'[s][p].data, disk'[s][p].hash)
               /\ ~stale => slots'[s][p].hash \in {Torn, slots'[s][p].data}
    <2>1. Near(slots[s][p].data, slots[s][p].hash) /\ (~stale => slots[s][p].hash \in {Torn, slots[s][p].data})
      BY Facts DEF SlotInv, HashInv
    <2>2. disk'[s][p] = slots[s][p] /\ slots'[s][p].data = slots[s][p].data
          /\ slots'[s][p].hash \in {Torn, slots[s][p].hash}
      BY <1>1, <1>4
    <2> QED
      BY <2>1, <2>2 DEF Near
  <1>7. HashInv'
    BY <1>1, <1>6 DEF HashInv
  <1>8. WriteInv'
    BY Facts, <1>1 DEF SlotInv, WriteInv
  <1>9. (CHOOSE p \in Partitions : TRUE) \in Partitions
    BY UpdaterAssumption
  <1>10. OSVersion' = OSVersion
    BY <1>1, <1>2, <1>4, <1>9 DEF OSVersion
  <1>11. Bootable' = Bootable
    BY <1>1, <1>2, <1>4, <1>10 DEF Bootable, Complete
  <1>12. ActiveInv'
    <2>1. ActiveSlotComplete'
      BY Facts, <1>1, <1>2, <1>4 DEF SlotInv, ActiveInv, ActiveSlotComplete
    <2>2. \A p \in Partitions : disk'[active'][p].data = slots'[active'][p].data
      BY <1>1, <1>2, <1>4
    <2>3. Bootable
      BY Facts, <1>1 DEF SlotInv, ActiveInv
    <2> QED
      BY <1>11, <2>1, <2>2, <2>3 DEF ActiveInv
  <1>13. TargetInv'
    <2>1. base \in Versions
      BY Facts, <1>1, UpdaterAssumption DEF TreeType, BootInv, None
    <2>2. AllVerified(Target, OSOf[base])
      BY Facts, <1>1 DEF SlotInv, TargetInv
    <2>3. \A p \in Partitions :
            /\ slots[Target][p].data \in {OSOf[base], Torn}
            /\ p \in FullCheck \/ ~stale => slots[Target][p].data = OSOf[base]
      BY <2>1, <2>2, VerifiedSound
    <2>4. Sound(OSOf[base])'
      BY <1>1, <1>2, <1>4, <2>3 DEF Sound
    <2> QED
      BY <1>1, <2>4 DEF TargetInv
  <1> QED
    BY <1>1, <1>4, <1>5, <1>7, <1>8, <1>12, <1>13 DEF SlotInv

LEMMA InstallKeeps == ASSUME IInv, ClearHashes \/ SetActive \/ Install PROVE IInv'
  <1>1. /\ boot \in {"activate", "set_active", "install"} /\ u = <<>> /\ u' = u /\ u \in Nowhere
        /\ fin = finOnDisk /\ base \in Versions
        /\ UNCHANGED <<u, base, staging, initFile, world>> /\ boot' \in Boots
    BY Facts DEF ClearHashes, SetActive, Install, BootInv, Nowhere, TreeType, Boots
  <1>2. ~(initFile = "newer" /\ fin.flag)
    BY Facts, <1>1 DEF AgnosInv
  <1>3. TreeType' /\ FlagInv' /\ EditsInv'
    BY Facts, <1>1 DEF TreeType, FlagInv, EditsInv
  <1>4. StepType'
    BY Facts, <1>1 DEF StepType
  <1>5. BootInv'
    <2>1. boot' \notin {"swap", "manager"} /\ base # None
      BY <1>1, UpdaterAssumption DEF ClearHashes, SetActive, Install, None
    <2> QED
      BY Facts, <1>1, <2>1 DEF BootInv
  <1>6. AgnosInv'
    BY Facts, <1>1, <1>2, NowhereElse DEF AgnosInv, Fetched, Cleared
  <1>7. SlotType' /\ SlotInv'
    <2>1. CASE ClearHashes
      BY <2>1, ClearKeeps
    <2>2. CASE SetActive
      <3>1. boot = "set_active" /\ boot' = "off" /\ active' = Target /\ writing' = writing
            /\ UNCHANGED <<slots, disk, stale>>
        BY <2>2 DEF SetActive
      <3>2. Sound(OSOf[base]) /\ Target \in Slots
        BY Facts, <3>1 DEF SlotInv, TargetInv, SlotType, Target, Slots
      <3>3. SlotType'
        BY Facts, <3>1, <3>2 DEF SlotType
      <3>4. HashInv'
        BY Facts, <3>1 DEF SlotInv, HashInv
      <3>5. WriteInv'
        BY Facts, <3>1 DEF SlotInv, WriteInv
      <3>6. ActiveSlotComplete'
        <4>1. \A p \in Partitions : p \in FullCheck \/ ~stale' => slots'[active'][p].data = OSOf[base]
          BY <3>1, <3>2 DEF Sound
        <4>2. OSOf[base] \in {OSOf[w] : w \in Versions}
          BY <1>1
        <4> QED
          BY <4>1, <4>2 DEF ActiveSlotComplete
      <3>7. ActiveInv' /\ TargetInv'
        BY <3>1, <3>2, <3>6 DEF ActiveInv, TargetInv, Sound
      <3> QED
        BY <3>3, <3>4, <3>5, <3>7 DEF SlotInv
    <2>3. CASE Install
      <3>1. CASE Flash(OSOf[base]) /\ boot' = boot
        <4>1. boot = "install"
          BY <2>3 DEF Install
        <4> QED
          BY <1>1, <3>1, <4>1, FlashKeeps
      <3>2. CASE writing = None /\ AllVerified(Target, OSOf[base]) /\ boot' = "activate" /\ UNCHANGED agnos
        <4>1. Bootable
          BY Facts, <1>1 DEF SlotInv, ActiveInv
        <4> QED
          BY <1>1, <3>2, <4>1, SlotsStay
      <3> QED
        BY <2>3, <3>1, <3>2 DEF Install
    <2> QED
      BY <2>1, <2>2, <2>3
  <1> QED
    BY <1>3, <1>4, <1>5, <1>6, <1>7 DEF IInv

-----------------------------------------------------------------------------
(* updated *)

LEMMA Round == ASSUME IInv, NEW step, Doing(step) PROVE boot = "manager" /\ u # <<>>
  BY Facts DEF Doing, BootInv

(* A step under the manager that leaves the slots alone. *)
LEMMA RoundStays ==
  ASSUME IInv, boot = "manager", boot' = boot, UNCHANGED <<active, slots, writing, stale>>, disk' \in {disk, slots}
  PROVE  SlotType' /\ SlotInv' /\ (\A v : Ready(v) => Ready(v)')
  <1>1. Bootable
    BY Facts DEF SlotInv, ActiveInv
  <1>2. SlotType' /\ SlotInv' /\ (\A v : Ready(v)' <=> Ready(v))
    BY <1>1, SlotsStay
  <1> QED
    BY <1>2

(* A step that only goes on to a place where nothing new is known of the overlay or the flag. *)
LEMMA GoesTo ==
  ASSUME IInv, boot = "manager", UNCHANGED <<boot, base, staging, initFile, agnos, world>>,
         u' \in Flagged \cup Clearing \cup Cleared, u' \notin {AtFlag, AtCopied, AtMount, AtTouch},
         u' \in Clearing \cup Cleared => ~fin.flag, u' \in Cleared => ~finOnDisk.flag,
         u' \in Fetched => overlay.tree \in Versions,
         u' \in ToCopy => Ready(OSOf[overlay.tree]),
         u' \in Mounted => mounted
  PROVE  IInv'
  <1>1. TreeType' /\ StepType' /\ BootInv'
    BY Facts DEF TreeType, StepType, BootInv
  <1>2. FlagInv'
    BY Facts DEF FlagInv
  <1>3. SlotType' /\ SlotInv' /\ (\A v : Ready(v) => Ready(v)')
    BY RoundStays
  <1>4. AgnosInv'
    BY Facts, <1>3 DEF AgnosInv
  <1>5. EditsInv'
    BY Facts DEF EditsInv
  <1> QED
    BY <1>1, <1>2, <1>3, <1>4, <1>5 DEF IInv

LEMMA PlansKeep == ASSUME IInv, StartUpdated \/ InitOverlay \/ Check \/ HandleAgnos \/ Sleep PROVE IInv'
  <1>1. boot = "manager" /\ UNCHANGED <<boot, base, staging, initFile, agnos, world>>
    BY Round DEF StartUpdated, InitOverlay, Check, HandleAgnos, Sleep
  <1>2. CASE u' \in {<<"init">>, <<"idle">>, Start}
    <2>1. u' \in Nowhere
      BY <1>2 DEF Nowhere
    <2>2. /\ u' \in Flagged /\ u' \notin Clearing \cup Cleared \cup Fetched \cup Mounted
      BY <2>1, NowhereElse
    <2>3. u' # AtFlag /\ u' # AtCopied /\ u' # AtMount /\ u' # AtTouch /\ u' \notin ToCopy
      BY <2>2 DEF Cleared, Fetched
    <2> QED
      BY <1>1, <2>2, <2>3, GoesTo
  <1>3. CASE u' = Recreate
    BY <1>1, <1>3, PlaceOf, GoesTo
  <1>10. ASSUME u' = Reflash, overlay.tree \in Versions, mounted PROVE IInv'
    BY <1>1, <1>10, PlaceOf, GoesTo
  <1>4. ASSUME u' \in {<<"check">>, Fetch}, mounted PROVE IInv'
    BY <1>1, <1>4, PlaceOf, GoesTo
  <1>5. ASSUME u' = Finalize, overlay.tree \in Versions, mounted, Ready(OSOf[overlay.tree]) PROVE IInv'
    BY <1>1, <1>5, PlaceOf, GoesTo
  <1>6. CASE StartUpdated \/ Sleep
    BY <1>2, <1>6 DEF StartUpdated, Sleep, Then
  <1>7. CASE InitOverlay
    <2>1. (mounted /\ u' \in {<<"check">>, Fetch}) \/ u' = Recreate
      BY <1>7, Zenon DEF InitOverlay, Then
    <2> QED
      BY <1>3, <1>4, <2>1
  <1>8. CASE Check
    <2>1. mounted
      BY Facts, Heads, <1>8, PlaceOf DEF Check, EditsInv
    <2> QED
      BY <1>2, <1>4, <1>8, <2>1 DEF Check, Then
  <1>9. CASE HandleAgnos
    <2>1. mounted /\ overlay.tree \in Versions
      BY Facts, Heads, <1>9, PlaceOf DEF HandleAgnos, EditsInv, FlagInv
    <2> QED
      BY <1>5, <1>9, <1>10, <2>1 DEF HandleAgnos, Then, Ready
  <1> QED
    BY <1>6, <1>7, <1>8, <1>9

LEMMA FlashAgnosKeeps == ASSUME IInv, FlashAgnos PROVE IInv'
  <1>1. u = AtFlash /\ boot = "manager" /\ UNCHANGED <<boot, base, staging, initFile, world>>
    BY Facts, Heads, Round DEF FlashAgnos
  <1>2. overlay.tree \in Versions /\ mounted /\ ~fin.flag /\ ~finOnDisk.flag
    BY Facts, <1>1, PlaceOf DEF FlagInv, EditsInv
  <1>3. CASE Flash(OSOf[overlay.tree]) /\ u' = u
    <2>1. TreeType' /\ StepType' /\ BootInv' /\ FlagInv' /\ EditsInv'
      BY Facts, <1>1, <1>3 DEF TreeType, StepType, BootInv, FlagInv, EditsInv
    <2>3. SlotType' /\ SlotInv'
      BY <1>1, <1>2, <1>3, FlashKeeps
    <2>4. AgnosInv'
      BY Facts, <1>1, <1>2, <1>3, PlaceOf DEF AgnosInv
    <2> QED
      BY <2>1, <2>3, <2>4 DEF IInv
  <1>4. CASE AllVerified(Target, OSOf[overlay.tree]) /\ u' = Finalize /\ UNCHANGED agnos
    <2>1. Ready(OSOf[overlay.tree])
      BY <1>4 DEF Ready
    <2> QED
      BY <1>1, <1>2, <1>4, <2>1, PlaceOf, GoesTo
  <1> QED
    BY <1>3, <1>4 DEF FlashAgnos, Then

(* After the step: where it is now, and that the tree and the slots are as before. *)
LEMMA SetFlagKeeps == ASSUME IInv, SetFlag PROVE IInv'
  <1>1. /\ boot = "manager" /\ finOnDisk' = fin /\ fin' = [fin EXCEPT !.flag = Doing("flag")] /\ u' = Tail(u)
        /\ disk' = slots
        /\ UNCHANGED <<boot, base, old, overlay, mounted, initFile, active, slots, writing, world>>
    BY Round DEF SetFlag, SyncAll, NextStep
  <1>2. SlotType' /\ SlotInv' /\ (\A v : Ready(v) => Ready(v)')
    BY <1>1, RoundStays
  <1>3. Doing("flag") \in BOOLEAN
    BY DEF Doing
  <1>4. fin' \in Copies /\ fin'.tree = fin.tree /\ fin'.edits = fin.edits /\ (fin'.flag <=> Doing("flag"))
    BY Facts, <1>1, <1>3 DEF TreeType, Copies
  <1>5. TreeType' /\ BootInv'
    BY Facts, <1>1, <1>4 DEF TreeType, BootInv
  <1>6. CASE Doing("flag")
    <2>1. u = AtFlag /\ u' = SyncIdle
      BY Facts, <1>1, <1>6, Heads, TailOf
    <2>2. StepType'
      BY Facts, <1>1, <2>1, PlaceOf DEF StepType
    <2>3. FlagInv'
      BY Facts, <1>1, <1>4, <2>1, PlaceOf DEF FlagInv
    <2>4. AgnosInv'
      BY Facts, <1>1, <1>2, <1>4, <2>1, PlaceOf DEF AgnosInv
    <2>5. EditsInv'
      BY Facts, <1>1, <1>4, <2>1, PlaceOf DEF EditsInv
    <2> QED
      BY <1>2, <1>5, <2>2, <2>3, <2>4, <2>5 DEF IInv
  <1>7. CASE Doing("unflag")
    <2>1. ~fin'.flag
      BY <1>4, <1>7 DEF Doing
    <2>2. \/ u' = SyncInit
          \/ u' = SyncRecreate
          \/ u = Fetch /\ u' = SyncFetch
          \/ u = Reflash /\ u' = SyncReflash
          \/ u = Finalize /\ u' = SyncFinalize
      BY Facts, <1>1, <1>7, Heads, TailOf
    <2>3. StepType'
      BY Facts, <1>1, <2>2, PlaceOf DEF StepType
    <2>4. FlagInv'
      BY Facts, <1>1, <1>4, <2>1, <2>2, PlaceOf DEF FlagInv
    <2>5. AgnosInv'
      BY Facts, <1>1, <1>2, <1>4, <2>1, <2>2, PlaceOf DEF AgnosInv
    <2>6. EditsInv'
      BY Facts, <1>1, <1>4, <2>1, <2>2, PlaceOf DEF EditsInv
    <2> QED
      BY <1>2, <1>5, <2>3, <2>4, <2>5, <2>6 DEF IInv
  <1> QED
    BY <1>6, <1>7 DEF SetFlag

LEMMA SyncKeeps == ASSUME IInv, Sync PROVE IInv'
  <1>1. /\ boot = "manager" /\ finOnDisk' = fin /\ u' = Tail(u) /\ disk' = slots
        /\ UNCHANGED <<boot, base, old, fin, overlay, mounted, initFile, active, slots, writing, world>>
    BY Round DEF Sync, SyncAll, NextStep
  <1>2. SlotType' /\ SlotInv' /\ (\A v : Ready(v) => Ready(v)')
    BY <1>1, RoundStays
  <1>3. TreeType' /\ BootInv'
    BY Facts, <1>1 DEF TreeType, BootInv
  <1>4. \/ u = SyncIdle /\ u' = <<"idle">>
        \/ u = SyncInit /\ u' = <<"init">>
        \/ u = SyncRecreate /\ u' = AtRemove
        \/ u = SyncFetch /\ u' = AtCheckout
        \/ u = SyncReflash /\ u' = AtFlash
        \/ u = SyncFinalize /\ u' = AtCopy
    BY Facts, <1>1, Heads, TailOf DEF Sync, Clearing
  <1>5. <<"idle">> \in Nowhere /\ <<"init">> \in Nowhere
    BY DEF Nowhere
  <1>6. u' \in {<<"idle">>, <<"init">>} => u' \in Flagged /\ u' \notin Clearing \cup Cleared \cup Fetched \cup Mounted
    BY <1>5, NowhereElse
  <1>7. u' \in {<<"idle">>, <<"init">>} => u' \notin {AtFlag, AtCopied, AtMount, AtTouch} \cup ToCopy
    BY <1>6 DEF Cleared, Fetched
  <1>8. StepType'
    BY Facts, <1>1, <1>4, <1>6, PlaceOf DEF StepType
  <1>9. FlagInv'
    BY Facts, <1>1, <1>4, <1>6, <1>7, PlaceOf DEF FlagInv
  <1>10. AgnosInv'
    BY Facts, <1>1, <1>2, <1>4, <1>6, <1>7, PlaceOf DEF AgnosInv
  <1>11. EditsInv'
    BY Facts, <1>1, <1>4, <1>6, <1>7, PlaceOf DEF EditsInv
  <1> QED
    BY <1>2, <1>3, <1>8, <1>9, <1>10, <1>11 DEF IInv

LEMMA OverlayKeeps == ASSUME IInv, RemoveStaging \/ TouchInit \/ MountOverlay PROVE IInv'
  <1>1. /\ boot = "manager" /\ UNCHANGED <<boot, base, active, slots, writing, world>> /\ u' = Tail(u)
        /\ disk' \in {disk, slots}
    BY Round DEF RemoveStaging, TouchInit, MountOverlay, SyncAll, NextStep
  <1>2. SlotType' /\ SlotInv' /\ (\A v : Ready(v) => Ready(v)')
    BY <1>1, RoundStays
  <1>3. ~fin.flag /\ ~finOnDisk.flag /\ base \in Versions
    BY Facts, <1>1, Heads, PlaceOf DEF RemoveStaging, TouchInit, MountOverlay, FlagInv, TreeType, BootInv
  <1>4. CASE RemoveStaging
    <2>1. /\ u = AtRemove /\ u' = AtTouch /\ old' = None /\ fin' = Nothing /\ ~mounted'
          /\ overlay' = [tree |-> None, edits |-> 0] /\ UNCHANGED <<finOnDisk, initFile>> /\ mounted' = FALSE
      BY Facts, <1>1, <1>4, Heads, TailOf DEF RemoveStaging
    <2>2. ~fin'.flag
      BY <2>1 DEF Nothing
    <2>3. TreeType' /\ StepType'
      BY Facts, <1>1, <2>1, PlaceOf DEF TreeType, StepType, Nothing, Copies, Trees
    <2>4. BootInv' /\ FlagInv'
      BY Facts, <1>1, <1>3, <2>1, <2>2, PlaceOf, UpdaterAssumption DEF BootInv, FlagInv, None
    <2>5. AgnosInv' /\ EditsInv'
      BY Facts, <1>1, <1>3, <2>1, <2>2, PlaceOf DEF AgnosInv, EditsInv
    <2> QED
      BY <1>2, <2>3, <2>4, <2>5 DEF IInv
  <1>5. CASE TouchInit
    <2>1. /\ u = AtTouch /\ u' = AtMount /\ initFile' = "newer" /\ overlay' = [overlay EXCEPT !.edits = edits]
          /\ UNCHANGED <<old, fin, finOnDisk, mounted>>
      BY Facts, <1>1, <1>5, Heads, TailOf DEF TouchInit
    <2>2. overlay' \in [tree : Trees, edits : Nat] /\ overlay'.tree = overlay.tree /\ overlay'.edits = edits
      BY Facts, <2>1 DEF TreeType, StepType
    <2>3. TreeType' /\ StepType'
      BY Facts, <1>1, <2>1, <2>2, PlaceOf DEF TreeType, StepType
    <2>4. BootInv' /\ FlagInv'
      BY Facts, <1>1, <1>3, <2>1, PlaceOf, UpdaterAssumption DEF BootInv, FlagInv, None
    <2>5. old = None
      BY Facts, <2>1 DEF AgnosInv
    <2>6. AgnosInv' /\ EditsInv'
      BY Facts, <1>1, <1>3, <2>1, <2>2, <2>5, PlaceOf DEF AgnosInv, EditsInv
    <2> QED
      BY <1>2, <2>3, <2>4, <2>6 DEF IInv
  <1>6. CASE MountOverlay
    <2>1. /\ u = AtMount /\ u' = <<"check">> /\ finOnDisk' = fin /\ mounted'
          /\ overlay' = [overlay EXCEPT !.tree = base] /\ UNCHANGED <<old, fin, initFile>> /\ mounted' = TRUE
      BY Facts, <1>1, <1>6, Heads, TailOf DEF MountOverlay, SyncAll
    <2>2. overlay' \in [tree : Trees, edits : Nat] /\ overlay'.edits = overlay.edits
      BY Facts, <1>3, <2>1 DEF TreeType, Trees
    <2>3. TreeType' /\ StepType'
      BY Facts, <1>1, <2>1, <2>2, PlaceOf DEF TreeType, StepType
    <2>4. BootInv' /\ FlagInv'
      BY Facts, <1>1, <1>3, <2>1, PlaceOf, UpdaterAssumption DEF BootInv, FlagInv, None
    <2>5. AgnosInv'
      BY Facts, <1>1, <1>3, <2>1, PlaceOf DEF AgnosInv
    <2>6. EditsInv'
      BY Facts, <1>1, <1>3, <2>1, <2>2, PlaceOf DEF EditsInv
    <2> QED
      BY <1>2, <2>3, <2>4, <2>5, <2>6 DEF IInv
  <1> QED
    BY <1>4, <1>5, <1>6

LEMMA FetchKeeps == ASSUME IInv, Checkout \/ CheckedOut \/ Copy \/ Copied PROVE IInv'
  <1>1. boot = "manager" /\ UNCHANGED <<boot, base, old, finOnDisk, mounted, initFile, agnos, world>> /\ u' = Tail(u)
    BY Round DEF Checkout, CheckedOut, Copy, Copied, NextStep
  <1>2. SlotType' /\ SlotInv' /\ (\A v : Ready(v) => Ready(v)')
    BY <1>1, RoundStays
  <1>3. ~fin.flag /\ ~finOnDisk.flag /\ base # None /\ mounted
    BY Facts, <1>1, Heads, PlaceOf DEF Checkout, CheckedOut, Copy, Copied, FlagInv, BootInv, EditsInv
  <1>4. CASE Checkout \/ CheckedOut
    <2>1. /\ \/ u = AtCheckout /\ u' = AtChecked /\ overlay' = [overlay EXCEPT !.tree = Partial]
             \/ u = AtChecked /\ u' = AtAgnos /\ overlay' = [overlay EXCEPT !.tree = published]
          /\ fin' = fin
      BY Facts, <1>1, <1>4, Heads, TailOf DEF Checkout, CheckedOut
    <2>2. /\ overlay' \in [tree : Trees, edits : Nat] /\ overlay'.edits = overlay.edits
          /\ u' = AtAgnos => overlay'.tree \in Versions
      BY Facts, <2>1, PlaceOf, HeadOf DEF TreeType, StepType, Trees
    <2>3. TreeType' /\ StepType'
      BY Facts, <1>1, <2>1, <2>2, PlaceOf DEF TreeType, StepType
    <2>4. BootInv' /\ FlagInv'
      BY Facts, <1>1, <1>3, <2>1, <2>2, PlaceOf DEF BootInv, FlagInv
    <2>5. AgnosInv'
      BY Facts, <1>1, <1>3, <2>1, PlaceOf DEF AgnosInv
    <2>6. EditsInv'
      BY Facts, <1>1, <1>3, <2>1, <2>2, PlaceOf DEF EditsInv
    <2> QED
      BY <1>2, <2>3, <2>4, <2>5, <2>6 DEF IInv
  <1>5. CASE Copy
    <2>1. /\ u = AtCopy /\ u' = AtCopied /\ fin' = [fin EXCEPT !.tree = Partial, !.edits = overlay.edits]
          /\ overlay' = overlay
      BY Facts, <1>1, <1>5, Heads, TailOf DEF Copy
    <2>2. fin' \in Copies /\ ~fin'.flag /\ fin'.edits = overlay.edits
      BY Facts, <1>3, <2>1 DEF TreeType, Copies, Trees
    <2>3. TreeType' /\ StepType'
      BY Facts, <1>1, <2>1, <2>2, PlaceOf DEF TreeType, StepType
    <2>4. BootInv' /\ FlagInv'
      BY Facts, <1>1, <1>3, <2>1, <2>2, PlaceOf DEF BootInv, FlagInv
    <2>5. AgnosInv'
      BY Facts, <1>1, <1>2, <1>3, <2>1, <2>2, PlaceOf DEF AgnosInv
    <2>6. EditsInv'
      BY Facts, <1>1, <1>3, <2>1, <2>2, PlaceOf DEF EditsInv
    <2> QED
      BY <1>2, <2>3, <2>4, <2>5, <2>6 DEF IInv
  <1>6. CASE Copied
    <2>1. u = AtCopied /\ u' = AtFlag /\ fin' = [fin EXCEPT !.tree = overlay.tree] /\ overlay' = overlay
      BY Facts, <1>1, <1>6, Heads, TailOf DEF Copied
    <2>2. overlay.tree \in Versions /\ Ready(OSOf[overlay.tree])
      BY Facts, <2>1, PlaceOf DEF FlagInv, AgnosInv
    <2>3. fin' \in Copies /\ ~fin'.flag /\ fin'.edits = fin.edits /\ fin'.tree = overlay.tree
      BY Facts, <1>3, <2>1 DEF TreeType, Copies
    <2>4. TreeType' /\ StepType'
      BY Facts, <1>1, <2>1, <2>3, PlaceOf DEF TreeType, StepType
    <2>5. BootInv' /\ FlagInv'
      BY Facts, <1>1, <1>3, <2>1, <2>2, <2>3, PlaceOf DEF BootInv, FlagInv
    <2>6. Ready(OSOf[overlay.tree])'
      <3>1. Ready(OSOf[overlay.tree]) /\ \A v : Ready(v) => Ready(v)'
        BY <1>2, <2>2
      <3>2. PICK v : v = OSOf[overlay.tree]
        OBVIOUS
      <3>3. Ready(v)' /\ v = OSOf[overlay'.tree]
        BY <2>1, <3>1, <3>2
      <3> QED
        BY <3>3
    <2>7. AgnosInv'
      BY Facts, <1>1, <1>3, <2>1, <2>3, <2>6, PlaceOf DEF AgnosInv
    <2>8. EditsInv'
      BY Facts, <1>1, <1>3, <2>1, <2>3, PlaceOf DEF EditsInv
    <2> QED
      BY <1>2, <2>4, <2>5, <2>7, <2>8 DEF IInv
  <1> QED
    BY <1>4, <1>5, <1>6

-----------------------------------------------------------------------------
(* Faults, and the driver *)

(* Updated is stopped in the middle, or starts over. *)
LEMMA StopsKeep == ASSUME IInv, Fail \/ Kill PROVE IInv'
  <1>1. /\ u' \in Nowhere /\ boot = "manager"
        /\ initFile' \in {initFile, "none"} /\ writing' \in {writing, None}
    BY Facts DEF Fail, Kill, Then, Nowhere, BootInv
  <1>2. UNCHANGED <<boot, base, old, fin, finOnDisk, overlay, mounted, edits, active, slots, disk, published, stale>>
    BY DEF Fail, Kill
  <1>4. Bootable
    BY Facts, <1>1 DEF SlotInv, ActiveInv
  <1>3. published' \in Versions /\ MayUnmount
    BY Facts, <1>2 DEF StepType, MayUnmount
  <1> QED
    BY <1>1, <1>2, <1>3, <1>4, Rests

LEMMA EditKeeps == ASSUME IInv, EditBase \/ Publish PROVE IInv'
  <1>1. CASE EditBase
    <2>1. /\ boot = "manager" /\ base' \in Versions /\ edits' = edits + 1 /\ initFile' \in {"none", "older"}
          /\ UNCHANGED <<boot, u, staging, agnos, published, stale>>
      BY <1>1 DEF EditBase
    <2>2. TreeType' /\ StepType' /\ FlagInv'
      BY Facts, <2>1 DEF TreeType, StepType, FlagInv
    <2>3. BootInv'
      BY Facts, <2>1, UpdaterAssumption DEF BootInv, None
    <2>4. SlotType' /\ SlotInv' /\ (\A v : Ready(v) => Ready(v)')
      BY <2>1, RoundStays
    <2>5. AgnosInv' /\ EditsInv'
      BY Facts, <2>1, <2>4 DEF AgnosInv, EditsInv
    <2> QED
      BY <2>2, <2>3, <2>4, <2>5 DEF IInv
  <1>2. CASE Publish
    <2>1. published' \in Versions /\ UNCHANGED <<boot, u, base, staging, initFile, agnos, edits, stale>>
      BY <1>2 DEF Publish
    <2>2. TreeType' /\ StepType' /\ BootInv' /\ FlagInv'
      BY Facts, <2>1 DEF TreeType, StepType, BootInv, FlagInv
    <2>5. boot # "off" => Bootable
      BY Facts DEF SlotInv, ActiveInv
    <2>6. boot \notin {"manager", "install"} => writing = None
      BY Facts DEF SlotInv, WriteInv
    <2>3. SlotType' /\ SlotInv' /\ (\A v : Ready(v)' <=> Ready(v))
      BY <2>1, <2>5, <2>6, SlotsStay
    <2>4. AgnosInv' /\ EditsInv'
      BY Facts, <2>1, <2>3 DEF AgnosInv, EditsInv
    <2> QED
      BY <2>2, <2>3, <2>4 DEF IInv
  <1> QED
    BY <1>1, <1>2

(* The device goes off: the copy is then one that was in memory, on the disk, or a mixture. *)
LEMMA OffMixes ==
  ASSUME IInv, Reboot \/ PowerLoss
  PROVE  /\ fin' \in Copies /\ (fin'.flag => fin.flag \/ finOnDisk.flag) /\ fin'.edits \in {fin.edits, finOnDisk.edits}
         /\ (fin.tree = finOnDisk.tree => fin'.tree = fin.tree)
  <1>1. CASE Reboot
    BY Facts, <1>1 DEF Reboot, TreeType
  <1>2. CASE PowerLoss
    <2>1. PICK tree \in {fin.tree, finOnDisk.tree} \cup (IF fin.tree = finOnDisk.tree THEN {} ELSE {Partial}),
               flag \in {fin.flag, finOnDisk.flag}, e \in {fin.edits, finOnDisk.edits} :
            fin' = [tree |-> tree, flag |-> flag, edits |-> e]
      BY <1>2 DEF PowerLoss
    <2>2. tree \in Trees /\ e \in Nat /\ (fin.tree = finOnDisk.tree => tree = fin.tree)
      BY Facts, <2>1 DEF TreeType, Copies, Trees
    <2>3. flag \in BOOLEAN
      BY Facts, <2>1 DEF TreeType, Copies
    <2>4. fin' \in Copies
      BY <2>1, <2>2, <2>3 DEF Copies
    <2>5. fin'.flag => fin.flag \/ finOnDisk.flag
      BY <2>1
    <2> QED
      BY <2>1, <2>2, <2>4, <2>5
  <1> QED
    BY <1>1, <1>2

(* And so are the slots; what boots next has not changed. *)
LEMMA OffSlots ==
  ASSUME IInv, Reboot \/ PowerLoss
  PROVE  /\ SlotType' /\ SlotInv' /\ active' = active /\ disk' = slots'
         /\ \A p \in Partitions : slots'[active][p].data = slots[active][p].data
         /\ slots = disk => \A s \in Slots, p \in Partitions :
                              slots'[s][p].data = slots[s][p].data /\ slots'[s][p].hash = slots[s][p].hash
  <1>1. boot' = "off" /\ writing' = None /\ active' = active /\ disk' = slots' /\ active \in Slots
    BY Facts DEF Reboot, PowerLoss, Stop, SyncAll, SlotType
  <1>2. ASSUME NEW s \in Slots, NEW p \in Partitions
        PROVE  slots'[s][p].data \in {slots[s][p].data, disk[s][p].data}
               /\ slots'[s][p].hash \in {slots[s][p].hash, disk[s][p].hash}
    <2>1. CASE Reboot
      BY <2>1 DEF Reboot
    <2>2. CASE PowerLoss
      <3>1. PICK noData \in SUBSET Unsynced("data"), noHash \in SUBSET Unsynced("hash") : slots' = Left(noData, noHash)
        BY <2>2 DEF PowerLoss
      <3>2. slots'[s][p] = [data |-> IF <<s, p>> \in noData THEN disk[s][p].data ELSE slots[s][p].data,
                            hash |-> IF <<s, p>> \in noHash THEN disk[s][p].hash ELSE slots[s][p].hash]
        BY <3>1 DEF Left
      <3> QED
        BY <3>2
    <2> QED
      BY <2>1, <2>2
  <1>3. slots' \in [Slots -> [Partitions -> Cell]]
    <2>1. CASE Reboot
      BY Facts, <2>1 DEF Reboot, SlotType
    <2>2. CASE PowerLoss
      <3>1. PICK noData \in SUBSET Unsynced("data"), noHash \in SUBSET Unsynced("hash") : slots' = Left(noData, noHash)
        BY <2>2 DEF PowerLoss
      <3>2. \A z \in Slots, q \in Partitions : /\ disk[z][q].data \in Data /\ disk[z][q].hash \in Data
                                               /\ slots[z][q].data \in Data /\ slots[z][q].hash \in Data
        BY Facts DEF SlotType, Cell
      <3>3. ASSUME NEW z \in Slots, NEW q \in Partitions
            PROVE  [data |-> IF <<z, q>> \in noData THEN disk[z][q].data ELSE slots[z][q].data,
                    hash |-> IF <<z, q>> \in noHash THEN disk[z][q].hash ELSE slots[z][q].hash] \in Cell
        BY <3>2 DEF Cell
      <3> QED
        BY <3>1, <3>3 DEF Left
    <2> QED
      BY <2>1, <2>2
  <1>4. stale' \in BOOLEAN /\ (stale => stale')
        /\ (~stale' => \A s \in Slots, p \in Partitions : slots'[s][p].hash \in {Torn, slots'[s][p].data})
    <2>1. CASE Reboot
      BY Facts, <2>1 DEF Reboot, SlotType, SlotInv, HashInv
    <2>2. CASE PowerLoss
      <3>1. stale' = (stale \/ \E at \in Places : Of(slots', at).hash \notin {Torn, Of(slots', at).data})
        BY <2>2 DEF PowerLoss
      <3>2. stale' \in BOOLEAN /\ (stale => stale')
        BY Facts, <3>1 DEF SlotType
      <3>3. ASSUME ~stale', NEW s \in Slots, NEW p \in Partitions
            PROVE  slots'[s][p].hash \in {Torn, slots'[s][p].data}
        <4>1. <<s, p>> \in Places
          BY DEF Places
        <4>2. Of(slots', <<s, p>>).hash \in {Torn, Of(slots', <<s, p>>).data}
          BY <3>1, <3>3, <4>1
        <4> QED
          BY <4>2 DEF Of
      <3> QED
        BY <3>2, <3>3
    <2> QED
      BY <2>1, <2>2
  <1>5. SlotType'
    BY Facts, <1>1, <1>3, <1>4, UpdaterAssumption DEF SlotType
  <1>6. HashInv'
    <2>1. ASSUME NEW s \in Slots, NEW p \in Partitions PROVE Near(slots'[s][p].data, slots'[s][p].hash)
      <3>1. /\ Near(slots[s][p].data, slots[s][p].hash) /\ Near(slots[s][p].data, disk[s][p].hash)
            /\ Near(disk[s][p].data, slots[s][p].hash) /\ Near(disk[s][p].data, disk[s][p].hash)
        BY Facts DEF SlotInv, HashInv
      <3> QED
        BY <1>2, <3>1
    <2> QED
      BY <1>1, <1>4, <2>1 DEF HashInv
  <1>7. \A p \in Partitions : slots'[active][p].data = slots[active][p].data
    BY Facts, <1>1, <1>2 DEF SlotInv, ActiveInv
  <1>8. ActiveSlotComplete'
    BY Facts, <1>1, <1>4, <1>7 DEF SlotInv, ActiveInv, ActiveSlotComplete
  <1>9. WriteInv' /\ ActiveInv' /\ TargetInv'
    BY <1>1, <1>8 DEF WriteInv, ActiveInv, TargetInv
  <1> QED
    BY <1>1, <1>2, <1>5, <1>6, <1>7, <1>9 DEF SlotInv

LEMMA OffReady ==
  ASSUME IInv, Reboot \/ PowerLoss, slots = disk
  PROVE  \A v : Ready(v) => Ready(v)'
  <1>1. active' = active /\ Target' = Target /\ active \in Slots /\ Target \in Slots
    BY Facts, OffSlots DEF Target, SlotType, Slots
  <1>2. \A s \in Slots, p \in Partitions :
          slots'[s][p].data = slots[s][p].data /\ slots'[s][p].hash = slots[s][p].hash
    BY OffSlots
  <1>3. (CHOOSE p \in Partitions : TRUE) \in Partitions
    BY UpdaterAssumption
  <1>4. OSVersion' = OSVersion
    BY <1>1, <1>2, <1>3 DEF OSVersion
  <1>5. ASSUME NEW v, AllVerified(Target, v) PROVE AllVerified(Target, v)'
    BY <1>1, <1>2, <1>5 DEF AllVerified, Verified
  <1> QED
    BY <1>4, <1>5 DEF Ready

LEMMA OffKeeps == ASSUME IInv, Reboot \/ PowerLoss PROVE IInv'
  <1>1. /\ boot' = "off" /\ u' = <<>> /\ mounted' = FALSE /\ finOnDisk' = fin'
        /\ UNCHANGED <<base, old, overlay, initFile, edits, published>>
    BY DEF Reboot, PowerLoss, Stop, SyncAll, Then
  <1>2. fin' \in Copies /\ (fin'.flag => fin.flag \/ finOnDisk.flag) /\ fin'.edits \in {fin.edits, finOnDisk.edits}
        /\ (fin.tree = finOnDisk.tree => fin'.tree = fin.tree)
    BY OffMixes
  <1>3. <<>> \in Nowhere
    BY DEF Nowhere
  <1>4. TreeType' /\ StepType'
    BY Facts, <1>1, <1>2, <1>3, NowhereElse DEF TreeType, StepType, Boots
  <1>5. base = None => fin.tree = finOnDisk.tree
    BY Facts DEF BootInv
  <1>6. BootInv'
    BY Facts, <1>1, <1>2, <1>5 DEF BootInv
  <1>7. FlagInv'
    BY Facts, <1>1, <1>2, <1>3, NowhereElse DEF FlagInv, Cleared
  <1>8. SlotType' /\ SlotInv' /\ disk' = slots'
    BY OffSlots
  <1>9. (fin.flag \/ finOnDisk.flag) => fin'.tree = fin.tree
    BY Facts, <1>2 DEF FlagInv
  <1>10. AgnosInv'
    <2>1. initFile' = "newer" /\ (fin'.flag \/ finOnDisk'.flag) => Ready(OSOf[fin.tree])' /\ slots' = disk'
      <3> SUFFICES ASSUME initFile' = "newer", fin'.flag PROVE Ready(OSOf[fin.tree])'
        BY <1>1, <1>8
      <3>1. Ready(OSOf[fin.tree]) /\ slots = disk /\ fin'.tree = fin.tree
        BY Facts, <1>1, <1>2, <1>9 DEF AgnosInv
      <3>2. PICK v : v = OSOf[fin.tree]
        OBVIOUS
      <3>3. Ready(v)' /\ v = OSOf[fin'.tree]
        BY <3>1, <3>2, OffReady
      <3> QED
        BY <3>3
    <2> QED
      BY Facts, <1>1, <1>3, <2>1, NowhereElse DEF AgnosInv, Fetched, Cleared
  <1>11. EditsInv'
    BY Facts, <1>1, <1>2, <1>3, NowhereElse DEF EditsInv, Cleared
  <1> QED
    BY <1>4, <1>6, <1>7, <1>8, <1>10, <1>11 DEF IInv

-----------------------------------------------------------------------------
LEMMA InitIInv == ASSUME Init PROVE IInv
  <1>1. <<>> \in Nowhere /\ Torn \in Data /\ Nothing \in Copies /\ ~Nothing.flag /\ 0 \in Slots
    BY DEF Nowhere, Data, Nothing, Copies, Trees, Slots
  <1>2. base \in Versions /\ OSOf[base] \in Nat /\ base # None
    BY UpdaterAssumption DEF Init, None
  <1>3. TreeType /\ StepType
    BY <1>1, NowhereElse DEF Init, TreeType, StepType, Boots, Trees
  <1>4. /\ SlotType /\ slots[active] = [p \in Partitions |-> [data |-> OSOf[base], hash |-> Torn]]
        /\ \A s \in Slots, p \in Partitions : slots[s][p].hash = Torn
    BY <1>1, <1>2 DEF Init, SlotType, Cell, Data
  <1>5. SlotInv
    <2>1. ActiveSlotComplete
      BY <1>2, <1>4 DEF ActiveSlotComplete
    <2>2. disk = slots /\ boot = "off" /\ writing = None
      BY DEF Init
    <2>3. HashInv
      BY <1>4, <2>2 DEF HashInv, Near
    <2> QED
      BY <2>1, <2>2, <2>3 DEF SlotInv, WriteInv, ActiveInv, TargetInv
  <1>6. BootInv
    BY <1>2 DEF Init, BootInv
  <1>7. FlagInv /\ AgnosInv /\ EditsInv
    BY <1>1, NowhereElse DEF Init, FlagInv, AgnosInv, EditsInv, Cleared, Fetched
  <1> QED
    BY <1>3, <1>4, <1>5, <1>6, <1>7 DEF IInv

LEMMA NextIInv == ASSUME IInv, [Next]_vars PROVE IInv'
  <1>1. CASE UNCHANGED vars
    <2>1. TreeType' /\ StepType' /\ BootInv' /\ FlagInv' /\ EditsInv'
      BY Facts, <1>1 DEF vars, TreeType, StepType, BootInv, FlagInv, EditsInv
    <2>4. boot # "off" => Bootable
      BY Facts DEF SlotInv, ActiveInv
    <2>5. boot \notin {"manager", "install"} => writing = None
      BY Facts DEF SlotInv, WriteInv
    <2>2. SlotType' /\ SlotInv' /\ (\A v : Ready(v)' <=> Ready(v))
      BY <1>1, <2>4, <2>5, SlotsStay DEF vars
    <2>3. AgnosInv'
      BY Facts, <1>1, <2>2 DEF vars, AgnosInv
    <2> QED
      BY <2>1, <2>2, <2>3 DEF IInv
  <1>2. CASE LaunchStep
    BY <1>2, LaunchKeeps, InstallKeeps DEF LaunchStep
  <1>3. CASE StartUpdated \/ UpdatedStep
    BY <1>3, PlansKeep, FlashAgnosKeeps, SetFlagKeeps, SyncKeeps, OverlayKeeps, FetchKeeps DEF UpdatedStep
  <1>4. CASE Fail \/ Kill \/ EditBase \/ Publish \/ Reboot \/ PowerLoss
    BY <1>4, StopsKeep, EditKeeps, OffKeeps
  <1> QED
    BY <1>1, <1>2, <1>3, <1>4 DEF Next

LEMMA Invariant == Spec => []IInv
  BY InitIInv, NextIInv, PTL DEF Spec

(* BASEDIR is whole or, between the two renames of the launch script, missing with both trees *)
(* still there, whenever power was lost.                                                       *)
THEOREM UpdaterTreeNeverTorn == Spec => []TreeNeverTorn
  <1>1. IInv => TreeNeverTorn
    BY DEF IInv, TreeType, BootInv, TreeNeverTorn
  <1> QED
    BY <1>1, Invariant, PTL

(* The slot that boots is one complete AGNOS, as far as it was read before it was activated; *)
(* and all of it, unless a loss of power left a hash behind data that are not its own.       *)
THEOREM UpdaterActiveSlotComplete == Spec => []ActiveSlotComplete
  <1>1. IInv => ActiveSlotComplete
    BY DEF IInv, SlotInv, ActiveInv
  <1> QED
    BY <1>1, Invariant, PTL

(* What the launch script swaps in finds its AGNOS running, or verified in the other slot, and *)
(* complete there, unless a loss of power left a hash behind data that are not its own.        *)
THEOREM UpdaterSwappedInWithAgnos == Spec => SwappedInWithAgnos
  <1>1. ASSUME IInv, MoveAway
        PROVE  LET v == OSOf[fin.tree] IN
                 OSVersion = v \/ (AllVerified(Target, v) /\ (stale \/ Complete(Target, v)))
    <2>1. fin.tree \in Versions /\ Ready(OSOf[fin.tree])
      BY <1>1, Facts DEF AgnosInv, FlagInv, MoveAway, ValidUpdate
    <2>2. CASE AllVerified(Target, OSOf[fin.tree])
      BY <1>1, <2>1, <2>2, VerifiedSound DEF Complete
    <2> QED
      BY <2>1, <2>2 DEF Ready
  <1> QED
    BY <1>1, Invariant, PTL DEF Spec, SwappedInWithAgnos

(* And it is based on BASEDIR as it is. *)
THEOREM UpdaterLocalWorkKept == Spec => LocalWorkKept
  <1>1. ASSUME IInv, MoveAway PROVE fin.edits = edits
    BY <1>1 DEF IInv, EditsInv, MoveAway, ValidUpdate
  <1> QED
    BY <1>1, Invariant, PTL DEF Spec, LocalWorkKept

-----------------------------------------------------------------------------
(* An update as its driver sees it (Installation).                                   *)

(* Between the two renames the flag that let the launch script make the first is there. *)
SwapInv == boot = "swap" => initFile = "newer" /\ fin.flag

LEMMA InitSwapInv == ASSUME Init PROVE SwapInv
  BY DEF Init, SwapInv

LEMMA NextSwapInv == ASSUME IInv, SwapInv, [Next]_vars PROVE SwapInv'
  <1>1. CASE UNCHANGED vars
    BY <1>1 DEF vars, SwapInv
  <1>2. CASE LaunchStep
    BY <1>2 DEF LaunchStep, PowerOn, MoveAway, ValidUpdate, MoveIn, KeepBase, ClearHashes, SetActive, Install, SwapInv
  <1>3. CASE StartUpdated \/ UpdatedStep
    <2>1. boot' = boot
      BY <1>3 DEF StartUpdated, UpdatedStep, SetFlag, Sync, InitOverlay, RemoveStaging, TouchInit, MountOverlay, Check,
                  Checkout, CheckedOut, HandleAgnos, FlashAgnos, Copy, Copied, Sleep
    <2>2. boot = "manager"
      BY <1>3, Round DEF StartUpdated, UpdatedStep, SetFlag, Sync, InitOverlay, RemoveStaging, TouchInit, MountOverlay,
                  Check, Checkout, CheckedOut, HandleAgnos, FlashAgnos, Copy, Copied, Sleep
    <2> QED
      BY <2>1, <2>2 DEF SwapInv
  <1>4. CASE Fail \/ Kill
    <2>1. boot = "manager" /\ boot' = boot
      BY <1>4, Facts DEF Fail, Kill, BootInv
    <2> QED
      BY <2>1 DEF SwapInv
  <1>5. CASE EditBase \/ Publish \/ Reboot \/ PowerLoss
    BY <1>5 DEF EditBase, Publish, Reboot, PowerLoss, Stop, SwapInv
  <1> QED
    BY <1>1, <1>2, <1>3, <1>4, <1>5 DEF Next

(* What the mapping shows of the slots. *)
LEMMA MarkOf == \A v : AllVerified(Target, v) => Mark = v
  <1>1. (CHOOSE p \in Partitions \ FullCheck : TRUE) \in Partitions \ FullCheck
    BY UpdaterAssumption
  <1>2. PICK one \in Partitions \ FullCheck : one = CHOOSE p \in Partitions \ FullCheck : TRUE
    BY <1>1
  <1>3. Mark = slots[Target][one].hash
    BY <1>2 DEF Mark
  <1> QED
    BY <1>3 DEF AllVerified, Verified

LEMMA SlotsShown ==
  /\ boot # "set_active" => \A v : AllVerified(Target, v) => SpareOS = v
  /\ Bootable => RunningOS = OSVersion
  /\ UNCHANGED <<active, slots>> =>
       RunningOS' = RunningOS /\ (boot # "set_active" /\ boot' # "set_active" => SpareOS' = SpareOS)
  <1>1. UNCHANGED <<active, slots>> => OSVersion' = OSVersion /\ Bootable' = Bootable
    BY DEF OSVersion, Bootable, Complete
  <1>2. UNCHANGED <<active, slots>> => RunningOS' = RunningOS
    BY <1>1 DEF RunningOS
  <1>3. UNCHANGED <<active, slots>> => (boot # "set_active" /\ boot' # "set_active" => SpareOS' = SpareOS)
    BY DEF SpareOS, Mark, AllVerified, Verified, Target
  <1> QED
    BY <1>2, <1>3, MarkOf DEF SpareOS, RunningOS

(* The spare AGNOS is always one or none. *)
LEMMA SpareType == ASSUME SlotType', boot' # "set_active" PROVE SpareOS' \in Int
  <1>1. (CHOOSE p \in Partitions \ FullCheck : TRUE) \in Partitions
    BY UpdaterAssumption
  <1>2. Target' \in Slots
    <2>1. active' \in Slots
      BY DEF SlotType
    <2>2. \A n \in Slots : 1 - n \in Slots
      BY DEF Slots
    <2> QED
      BY <2>1, <2>2 DEF Target
  <1>3. Mark' \in Data
    <2>1. PICK one \in Partitions : one = CHOOSE p \in Partitions \ FullCheck : TRUE
      BY <1>1
    <2>2. Mark' = slots'[Target'][one].hash
      BY <2>1 DEF Mark
    <2>3. slots'[Target'][one] \in Cell
      BY <1>2 DEF SlotType
    <2> QED
      BY <2>2, <2>3 DEF Cell
  <1> QED
    BY <1>3 DEF SpareOS, Data, Torn

(* And of the update. *)
LEMMA UpdateShown ==
  ASSUME IInv
  PROVE  /\ initFile # "newer" \/ ~(fin.flag \/ finOnDisk.flag) => Prepared = None
         /\ old # None /\ base # None => Prepared = None
         /\ Prepared # None => Prepared = fin.tree /\ fin.tree \in Versions
  BY Facts, UpdaterAssumption DEF Prepared, FlagInv, None

LEMMA UpdateStays ==
  ASSUME UNCHANGED <<initFile, fin, finOnDisk, old, base>>
  PROVE  Prepared' = Prepared
  BY DEF Prepared

(* A step that shows nothing. *)
LEMMA Hidden ==
  ASSUME base' = base, Prepared' = Prepared, UNCHANGED <<active, slots>>,
         boot # "set_active", boot' # "set_active",
         boot' = boot \/ (boot # "manager" /\ boot' # "manager")
  PROVE  UNCHANGED Abstract!vars
  <1>1. RunningOS' = RunningOS /\ SpareOS' = SpareOS
    BY SlotsShown
  <1>2. (boot = "manager")' = (boot = "manager")
    OBVIOUS
  <1> QED
    BY <1>1, <1>2 DEF Abstract!vars

LEMMA LaunchMaps ==
  ASSUME IInv, SwapInv, PowerOn \/ MoveAway \/ MoveIn \/ KeepBase
  PROVE  Abstract!TakeOut \/ Abstract!PutIn \/ Abstract!Run \/ UNCHANGED Abstract!vars
  <1>1. CASE PowerOn
    <2>1. UNCHANGED <<base, initFile, fin, finOnDisk, old, active, slots>> /\ boot = "off" /\ boot' = "launch"
      BY <1>1 DEF PowerOn
    <2> QED
      BY <2>1, UpdateStays, Hidden
  <1>2. CASE MoveAway
    <2>1. /\ boot = "launch" /\ boot' = "swap" /\ fin.flag /\ initFile = "newer" /\ old = None /\ base' = None
          /\ UNCHANGED <<initFile, fin, finOnDisk, active, slots>>
      BY <1>2 DEF MoveAway, ValidUpdate
    <2>2. Prepared = fin.tree /\ Prepared' = fin.tree
      BY <2>1 DEF Prepared
    <2>3. fin.tree # None
      BY Facts, <2>1, UpdaterAssumption DEF FlagInv, None
    <2>4. RunningOS' = RunningOS /\ SpareOS' = SpareOS
      BY <2>1, SlotsShown
    <2>5. Abstract!TakeOut
      BY <2>1, <2>2, <2>3, <2>4 DEF Abstract!TakeOut, None
    <2> QED
      BY <2>5
  <1>3. CASE MoveIn
    <2>1. /\ boot = "swap" /\ boot' = "launch" /\ fin.flag /\ initFile = "newer" /\ base = None
          /\ base' = fin.tree /\ fin' = Nothing /\ finOnDisk' = Nothing
          /\ UNCHANGED <<active, slots>>
      BY Facts, <1>3 DEF MoveIn, SwapInv, BootInv
    <2>2. Prepared = fin.tree /\ Prepared' = None
      BY <2>1 DEF Prepared, Nothing
    <2>3. RunningOS' = RunningOS /\ SpareOS' = SpareOS
      BY <2>1, SlotsShown
    <2>4. Abstract!PutIn
      BY <2>1, <2>2, <2>3 DEF Abstract!PutIn, None
    <2> QED
      BY <2>4
  <1>4. CASE KeepBase
    <2>1. /\ boot = "launch" /\ base # None /\ UNCHANGED <<base, initFile, fin, finOnDisk, old, active, slots>>
          /\ boot' = "manager" => OSVersion = OSOf[base]
          /\ boot' # "set_active" /\ Bootable
      BY Facts, <1>4 DEF KeepBase, BootInv, SlotInv, ActiveInv
    <2>2. RunningOS' = RunningOS /\ SpareOS' = SpareOS /\ Prepared' = Prepared
      BY <2>1, SlotsShown, UpdateStays
    <2>3. CASE boot' = "manager"
      <3>1. Abstract!Run
        BY <2>1, <2>2, <2>3, SlotsShown DEF Abstract!Run, None
      <3> QED
        BY <3>1
    <2>4. CASE boot' # "manager"
      BY <2>1, <2>2, <2>4, Hidden
    <2> QED
      BY <2>3, <2>4
  <1> QED
    BY <1>1, <1>2, <1>3, <1>4

(* What flashing a slot shows. *)
LEMMA FlashMaps ==
  ASSUME IInv, NEW w \in Versions, Flash(OSOf[w]), Prepared = None, Prepared' = None,
         UNCHANGED <<base, boot, stale>>, boot \in {"manager", "install"}
  PROVE  Abstract!Flash
  <1>1. active' = active /\ slots'[active] = slots[active] /\ SlotType'
    BY FlashKeeps
  <1>2. RunningOS' = RunningOS
    BY <1>1 DEF RunningOS, Bootable, Complete, OSVersion
  <1>3. SpareOS' \in Int
    <2>1. SlotType' /\ boot' # "set_active"
      BY <1>1
    <2> QED
      BY <2>1, SpareType
  <1>4. (boot = "manager")' = (boot = "manager")
    OBVIOUS
  <1> QED
    BY <1>2, <1>3, <1>4 DEF Abstract!Flash, None

LEMMA InstallMaps ==
  ASSUME IInv, ClearHashes \/ SetActive \/ Install
  PROVE  Abstract!Activate \/ Abstract!Flash \/ UNCHANGED Abstract!vars
  <1>1. /\ boot \in {"activate", "set_active", "install"} /\ base \in Versions /\ base # None
        /\ UNCHANGED <<base, initFile, fin, finOnDisk, old, stale>> /\ boot' # "manager" /\ fin = finOnDisk
    BY Facts, UpdaterAssumption DEF ClearHashes, SetActive, Install, BootInv, TreeType, None
  <1>2. Prepared = None /\ Prepared' = None
    <2>1. initFile # "newer" \/ ~(fin.flag \/ finOnDisk.flag)
      BY Facts, <1>1 DEF AgnosInv
    <2> QED
      BY <1>1, <2>1, UpdateShown, UpdateStays
  <1>6. (CHOOSE p \in Partitions : TRUE) \in Partitions
    BY UpdaterAssumption
  <1>3. CASE ClearHashes
    <2>1. boot = "activate" /\ boot' = "set_active" /\ active' = active /\ active \in Slots
      BY Facts, <1>3 DEF ClearHashes, SlotType
    <2>3. \A s \in Slots, p \in Partitions : slots'[s][p].data = slots[s][p].data
      BY <1>3, ClearKeeps
    <2>4. OSVersion' = OSVersion
      BY <1>6, <2>1, <2>3 DEF OSVersion
    <2>5. Bootable' = Bootable
      BY <2>1, <2>3, <2>4 DEF Bootable, Complete
    <2>6. RunningOS' = RunningOS
      BY <2>4, <2>5 DEF RunningOS
    <2>7. SpareOS' = SpareOS
      <3>1. AllVerified(Target, OSOf[base])
        BY Facts, <2>1 DEF SlotInv, TargetInv
      <3>2. SpareOS = OSOf[base]
        BY <2>1, <3>1, SlotsShown
      <3>3. SpareOS' = OSOf[base]
        BY <1>1, <2>1 DEF SpareOS
      <3> QED
        BY <3>2, <3>3
    <2>8. (boot = "manager")' = (boot = "manager")
      BY <1>1
    <2> QED
      BY <1>1, <1>2, <2>6, <2>7, <2>8 DEF Abstract!vars
  <1>4. CASE SetActive
    <2>1. boot = "set_active" /\ active' = Target /\ slots' = slots /\ boot' = "off"
      BY <1>4 DEF SetActive
    <2>2. Sound(OSOf[base])
      BY Facts, <2>1 DEF SlotInv, TargetInv
    <2>3. SpareOS = OSOf[base]
      BY <2>1 DEF SpareOS
    <2>4. RunningOS' \in {OSOf[base], Torn}
      <3>1. OSVersion' = slots[Target][CHOOSE p \in Partitions : TRUE].data
        BY <2>1 DEF OSVersion
      <3>2. OSVersion' \in {OSOf[base], Torn}
        BY <1>6, <2>2, <3>1 DEF Sound
      <3> QED
        BY <3>2 DEF RunningOS
    <2>5. SpareOS' \in Int
      <3>1. SlotType' /\ boot' # "set_active"
        BY <1>4, <2>1, InstallKeeps DEF IInv
      <3> QED
        BY <3>1, SpareType
    <2>6. Abstract!Activate
      BY <1>1, <1>2, <2>1, <2>3, <2>4, <2>5 DEF Abstract!Activate, None, Torn
    <2> QED
      BY <2>6
  <1>5. CASE Install
    <2>1. CASE Flash(OSOf[base]) /\ boot' = boot
      <3>1. boot \in {"manager", "install"}
        BY <1>5 DEF Install
      <3> QED
        BY <1>1, <1>2, <2>1, <3>1, FlashMaps
    <2>2. CASE boot' = "activate" /\ UNCHANGED agnos
      <3>1. boot = "install"
        BY <1>5 DEF Install
      <3> QED
        BY <1>1, <1>2, <2>2, <3>1, Hidden
    <2> QED
      BY <1>5, <2>1, <2>2 DEF Install
  <1> QED
    BY <1>3, <1>4, <1>5

(* A step that leaves the launch script where it is. *)
LEMMA Unseen ==
  ASSUME base' = base, Prepared' = Prepared, UNCHANGED <<active, slots, boot>>
  PROVE  UNCHANGED Abstract!vars
  <1>1. RunningOS' = RunningOS
    BY SlotsShown
  <1>2. SpareOS' = SpareOS
    BY DEF SpareOS, Mark, AllVerified, Verified, Target
  <1> QED
    BY <1>1, <1>2 DEF Abstract!vars

(* What is synced is still there when the device has been off. *)
LEMMA OffSpare ==
  ASSUME IInv, Reboot \/ PowerLoss, slots = disk, boot # "set_active", boot' # "set_active"
  PROVE  SpareOS' = SpareOS
  <1>1. active' = active /\ Target' = Target /\ Target \in Slots
    BY Facts, OffSlots DEF Target, SlotType, Slots
  <1>2. \A p \in Partitions :
          slots'[Target][p].data = slots[Target][p].data /\ slots'[Target][p].hash = slots[Target][p].hash
    BY <1>1, OffSlots
  <1>3. (CHOOSE p \in Partitions \ FullCheck : TRUE) \in Partitions
    BY UpdaterAssumption
  <1>4. Mark' = Mark
    BY <1>1, <1>2, <1>3 DEF Mark
  <1>5. \A v : AllVerified(Target, v)' <=> AllVerified(Target, v)
    BY <1>1, <1>2 DEF AllVerified, Verified
  <1>6. AllVerified(Target, Mark)' <=> AllVerified(Target, Mark)
    BY <1>1, <1>2, <1>4 DEF AllVerified, Verified
  <1> QED
    BY <1>4, <1>6 DEF SpareOS

(* A step of updated that leaves the slots alone, by what becomes of the update. *)
LEMMA RoundShows ==
  ASSUME IInv, boot = "manager", boot' = boot, base' = base, UNCHANGED <<active, slots>>,
         \/ Prepared' = Prepared
         \/ Prepared' = None
         \/ Prepared = None /\ Prepared' \in Versions /\ Ready(OSOf[Prepared'])
  PROVE  Abstract!Prepare \/ Abstract!Withdraw \/ UNCHANGED Abstract!vars
  <1>1. RunningOS' = RunningOS /\ SpareOS' = SpareOS
    BY SlotsShown
  <1>2. CASE Prepared' = Prepared
    BY <1>2, Hidden
  <1>3. CASE Prepared' = None
    BY <1>1, <1>3 DEF Abstract!Withdraw, None
  <1>4. CASE Prepared = None /\ Prepared' \in Versions /\ Ready(OSOf[Prepared'])
    <2>2. Bootable
      BY Facts DEF SlotInv, ActiveInv
    <2>1. OSOf[Prepared'] \in {RunningOS, SpareOS}
      BY <1>4, <2>2, SlotsShown DEF Ready
    <2> QED
      BY <1>1, <1>4, <2>1 DEF Abstract!Prepare, None
  <1> QED
    BY <1>2, <1>3, <1>4

LEMMA RoundMaps ==
  ASSUME IInv, StartUpdated \/ UpdatedStep
  PROVE  Abstract!Prepare \/ Abstract!Withdraw \/ Abstract!Flash \/ UNCHANGED Abstract!vars
  <1>1. CASE StartUpdated \/ InitOverlay \/ Check \/ Checkout \/ CheckedOut \/ HandleAgnos \/ Sleep
    <2>1. boot = "manager" /\ UNCHANGED <<boot, base, initFile, fin, finOnDisk, old, active, slots>>
      BY <1>1, Round DEF StartUpdated, InitOverlay, Check, Checkout, CheckedOut, HandleAgnos, Sleep
    <2> QED
      BY <2>1, UpdateStays, Hidden
  <1>2. CASE RemoveStaging \/ TouchInit \/ MountOverlay \/ Copy \/ Copied
    <2>1. u \in Cleared
      BY Facts, <1>2, Heads, PlaceOf DEF RemoveStaging, TouchInit, MountOverlay, Copy, Copied
    <2>2. ~fin.flag /\ ~finOnDisk.flag /\ fin \in Copies
      BY Facts, <2>1 DEF FlagInv, TreeType
    <2>3. ~fin'.flag /\ ~finOnDisk'.flag
      <3>1. finOnDisk' \in {fin, finOnDisk}
        BY <1>2 DEF RemoveStaging, TouchInit, MountOverlay, SyncAll, Copy, Copied
      <3>2. CASE RemoveStaging
        BY <2>2, <3>1, <3>2 DEF RemoveStaging, Nothing
      <3>3. CASE TouchInit \/ MountOverlay
        BY <2>2, <3>1, <3>3 DEF TouchInit, MountOverlay
      <3>4. CASE Copy \/ Copied
        <4>1. fin'.flag = fin.flag
          BY <2>2, <3>4 DEF Copy, Copied, Copies
        <4> QED
          BY <2>2, <3>1, <4>1
      <3> QED
        BY <1>2, <3>2, <3>3, <3>4
    <2>4. Prepared' = None
      BY <2>3 DEF Prepared
    <2>5. boot = "manager" /\ UNCHANGED <<boot, base, active, slots>>
      BY <1>2, Round DEF RemoveStaging, TouchInit, MountOverlay, SyncAll, Copy, Copied
    <2> QED
      BY <2>4, <2>5, RoundShows
  <1>3. CASE SetFlag
    <2>1. boot = "manager" /\ UNCHANGED <<boot, base, old, initFile, active, slots>> /\ finOnDisk' = fin
          /\ fin' = [fin EXCEPT !.flag = Doing("flag")] /\ fin \in Copies
      BY Facts, <1>3, Round DEF SetFlag, SyncAll, TreeType
    <2>2. fin'.tree = fin.tree /\ (fin'.flag <=> Doing("flag"))
      BY <2>1 DEF Copies
    <2>3. CASE Doing("flag")
      <3>1. u = AtFlag
        BY Facts, <2>3, Heads
      <3>2. fin.tree \in Versions /\ ~fin.flag /\ ~finOnDisk.flag /\ Ready(OSOf[fin.tree])
        BY Facts, <3>1, PlaceOf DEF FlagInv, AgnosInv
      <3>3. Prepared = None /\ Prepared' \in {None, fin.tree}
        BY <2>2, <3>2 DEF Prepared
      <3> QED
        BY <2>1, <3>2, <3>3, RoundShows
    <2>4. CASE ~Doing("flag")
      <3>1. Prepared' \in {None, Prepared}
        BY <2>1, <2>2, <2>4 DEF Prepared
      <3> QED
        BY <2>1, <3>1, RoundShows
    <2> QED
      BY <2>3, <2>4
  <1>4. CASE Sync
    <2>1. boot = "manager" /\ UNCHANGED <<boot, base, old, initFile, fin, active, slots>> /\ finOnDisk' = fin
      BY <1>4, Round DEF Sync, SyncAll
    <2>2. Prepared' \in {None, Prepared}
      BY <2>1 DEF Prepared
    <2> QED
      BY <2>1, <2>2, RoundShows
  <1>5. CASE FlashAgnos
    <2>1. u = AtFlash /\ boot = "manager" /\ UNCHANGED <<boot, base, initFile, fin, finOnDisk, old, stale>>
      BY Facts, <1>5, Heads, Round DEF FlashAgnos
    <2>2. overlay.tree \in Versions /\ ~fin.flag /\ ~finOnDisk.flag
      BY Facts, <2>1, PlaceOf DEF FlagInv
    <2>3. Prepared = None /\ Prepared' = None
      BY <2>1, <2>2, UpdateShown, UpdateStays
    <2>4. CASE Flash(OSOf[overlay.tree])
      BY <2>1, <2>2, <2>3, <2>4, FlashMaps
    <2>5. CASE UNCHANGED agnos
      BY <2>1, <2>3, <2>5, Hidden
    <2> QED
      BY <1>5, <2>4, <2>5 DEF FlashAgnos
  <1> QED
    BY <1>1, <1>2, <1>3, <1>4, <1>5 DEF UpdatedStep

LEMMA WorldMaps ==
  ASSUME IInv, Fail \/ Kill \/ EditBase \/ Publish \/ Reboot \/ PowerLoss
  PROVE  Abstract!Withdraw \/ Abstract!Edit \/ Abstract!Stop \/ Abstract!Prepare \/ UNCHANGED Abstract!vars
  <1>1. CASE Fail
    <2>1. boot = "manager" /\ UNCHANGED <<boot, base, active, slots>> /\ initFile' = "none"
      BY Facts, <1>1 DEF Fail, BootInv
    <2>2. Prepared' = None
      BY <2>1 DEF Prepared
    <2> QED
      BY <2>1, <2>2, RoundShows
  <1>2. CASE Kill \/ Publish
    <2>1. UNCHANGED <<boot, base, initFile, fin, finOnDisk, old, active, slots>>
      BY <1>2 DEF Kill, Publish
    <2> QED
      BY <2>1, UpdateStays, Unseen
  <1>3. CASE EditBase
    <2>1. /\ boot = "manager" /\ boot' = boot /\ base' \in Versions /\ initFile' # "newer"
          /\ UNCHANGED <<active, slots>>
      BY <1>3 DEF EditBase
    <2>2. Prepared' = None /\ RunningOS' = RunningOS /\ SpareOS' = SpareOS
      BY <2>1, SlotsShown DEF Prepared
    <2>3. Abstract!Edit
      BY <2>1, <2>2 DEF Abstract!Edit, None
    <2> QED
      BY <2>3
  <1>4. CASE Reboot \/ PowerLoss
    <2>1. boot' = "off" /\ finOnDisk' = fin' /\ UNCHANGED <<base, old, initFile>>
      BY <1>4 DEF Reboot, PowerLoss, Stop, SyncAll
    <2>2. /\ fin'.flag => fin.flag \/ finOnDisk.flag
          /\ fin.tree = finOnDisk.tree => fin'.tree = fin.tree
      BY <1>4, OffMixes
    <2>3. fin.flag \/ finOnDisk.flag => fin.tree = finOnDisk.tree
      BY Facts DEF FlagInv
    <2>4. Prepared' \in {None, Prepared}
      BY <2>1, <2>2, <2>3 DEF Prepared
    <2>5. RunningOS' = RunningOS
      <3>1. active' = active /\ \A p \in Partitions : slots'[active][p].data = slots[active][p].data
        BY <1>4, OffSlots
      <3>2. (CHOOSE p \in Partitions : TRUE) \in Partitions
        BY UpdaterAssumption
      <3>3. OSVersion' = OSVersion
        BY <3>1, <3>2 DEF OSVersion
      <3>4. Bootable' = Bootable
        BY <3>1, <3>3 DEF Bootable, Complete
      <3> QED
        BY <3>3, <3>4 DEF RunningOS
    <2>6. SpareOS' \in Int
      <3>1. SlotType' /\ boot' # "set_active"
        BY <1>4, <2>1, OffSlots
      <3> QED
        BY <3>1, SpareType
    <2>7. Prepared' # None => Prepared' = Prepared /\ SpareOS' = SpareOS
      <3> SUFFICES ASSUME Prepared' # None PROVE Prepared' = Prepared /\ SpareOS' = SpareOS
        OBVIOUS
      <3>1. Prepared' = Prepared /\ Prepared # None
        BY <2>4
      <3>2. initFile = "newer" /\ (fin.flag \/ finOnDisk.flag)
        BY <3>1 DEF Prepared
      <3>3. slots = disk /\ boot # "set_active"
        BY Facts, <3>2 DEF AgnosInv, BootInv
      <3>4. SpareOS' = SpareOS
        BY <1>4, <2>1, <3>3, OffSpare
      <3> QED
        BY <3>1, <3>4
    <2>8. Abstract!Stop
      <3>1. CASE Prepared' = None
        BY <2>1, <2>5, <2>6, <3>1 DEF Abstract!Stop, None
      <3>2. CASE Prepared' # None
        BY <2>1, <2>5, <2>7, <3>2 DEF Abstract!Stop
      <3> QED
        BY <3>1, <3>2
    <2> QED
      BY <2>8
  <1> QED
    BY <1>1, <1>2, <1>3, <1>4

LEMMA NextMaps == ASSUME IInv, SwapInv, [Next]_vars PROVE [Abstract!Next]_Abstract!vars
  <1>1. CASE UNCHANGED vars
    <2>1. UNCHANGED <<boot, base, initFile, fin, finOnDisk, old, active, slots>>
      BY <1>1 DEF vars
    <2> QED
      BY <2>1, UpdateStays, Unseen
  <1>2. CASE LaunchStep
    BY <1>2, LaunchMaps, InstallMaps DEF LaunchStep, Abstract!Next
  <1>3. CASE StartUpdated \/ UpdatedStep
    BY <1>3, RoundMaps DEF Abstract!Next
  <1>4. CASE Fail \/ Kill \/ EditBase \/ Publish \/ Reboot \/ PowerLoss
    BY <1>4, WorldMaps DEF Abstract!Next
  <1> QED
    BY <1>1, <1>2, <1>3, <1>4 DEF Next

LEMMA InitMaps == ASSUME Init PROVE Abstract!Init
  <1>1. /\ base \in Versions /\ Prepared = None /\ boot = "off"
        /\ active \in Slots /\ Target \in Slots
        /\ slots = [s \in Slots |-> [p \in Partitions |-> [data |-> OSOf[base], hash |-> Torn]]]
    BY DEF Init, Prepared, Nothing, Slots, Target
  <1>2. OSOf[base] \in Nat /\ OSOf[base] # Torn
    BY <1>1, UpdaterAssumption DEF Torn
  <1>3. RunningOS = OSOf[base]
    <2>1. (CHOOSE p \in Partitions : TRUE) \in Partitions
      BY UpdaterAssumption
    <2>2. OSVersion = OSOf[base]
      BY <1>1, <2>1 DEF OSVersion
    <2>3. Bootable
      BY <1>1, <1>2, <2>2 DEF Bootable, Complete
    <2> QED
      BY <2>2, <2>3 DEF RunningOS
  <1>4. SpareOS = Torn
    <2>1. (CHOOSE p \in Partitions \ FullCheck : TRUE) \in Partitions
      BY UpdaterAssumption
    <2>2. Mark = Torn
      BY <1>1, <2>1 DEF Mark
    <2> QED
      BY <1>1, <2>2 DEF SpareOS
  <1> QED
    BY <1>1, <1>3, <1>4 DEF Abstract!Init, None, Torn

(* Wherever updated and the launch script are stopped, the device goes from one installed *)
(* version with its AGNOS to the next: no tree starts on another AGNOS, an update is        *)
(* offered only when its AGNOS is there, and none is installed but the one offered.         *)
THEOREM UpdaterImplementsInstallation == Spec => ImplementsInstallation
  <1>1. IInv /\ SwapInv /\ [Next]_vars => [Abstract!Next]_Abstract!vars /\ SwapInv'
    BY NextMaps, NextSwapInv
  <1>2. Init => Abstract!Init /\ SwapInv
    BY InitMaps, InitSwapInv
  <1> QED
    BY <1>1, <1>2, Invariant, PTL DEF Spec, ImplementsInstallation, Abstract!Spec
=============================================================================
