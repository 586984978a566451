---------------------------- MODULE ParamsProofs ----------------------------
(***************************************************************************)
(* Machine-checked proofs about the parameter store, for any keys and any  *)
(* processes.  What the runs check is not inductive alone: a scan stays    *)
(* consistent because of who holds the flock (LockHeld), and nothing is    *)
(* torn because only synced data is ever renamed into place (AllSynced).   *)
(***************************************************************************)
EXTENDS ParamsProps, TLAPS

AllSynced == \A k \in Keys : file[k].synced /\ disk[k].synced

LockHeld == \A t \in Threads : pc[t] \in Holding => lock = t

(* A thread has an item while it is in put, has seen nothing outside a scan, and a *)
(* writer does nothing but put.                                                    *)
CallState ==
  \A t \in Threads : /\ pc[t] \in PutPcs => item[t] \in Keys \X Values
                     /\ pc[t] # "reading" => seen[t] = {}
                     /\ t[2] = "writer" => pc[t] \notin DirPcs

IInv == TypeOK /\ AllSynced /\ LockHeld /\ CallState /\ ReadAllIsSnapshot

Pcs == CallerPcs \cup WriterPcs \cup PutPcs \cup DirPcs

-----------------------------------------------------------------------------
(* No thread is mistaken for a flock that nobody holds. *)
LEMMA FreeIsNoThread == \A t \in Threads : t # Free
BY DEF Threads, Free

(* Contents that are well formed and not torn. *)
LEMMA MissingIsContent == Missing \in Content /\ Missing.val # Torn /\ Missing.synced
BY DEF Missing, Content, NoValue, Torn

LEMMA WrittenIsContent ==
  ASSUME NEW v \in Values
  PROVE  /\ [val |-> v, synced |-> TRUE] \in Content
         /\ v # Torn
BY ParamsAssumption DEF Content, Torn, Values

(* The initial state satisfies the invariant. *)
LEMMA InitIInv == Init => IInv
<1> SUFFICES ASSUME Init PROVE IInv
  OBVIOUS
<1> USE DEF Init
<1>1. /\ file \in [Keys -> Content] /\ disk \in [Keys -> Content]
      /\ \A k \in Keys : file[k].val # Torn /\ disk[k].val # Torn
      /\ AllSynced
  BY MissingIsContent DEF AllSynced
<1>2. pc \in [Threads -> Pcs] /\ \A t \in Threads : pc[t] = "idle"
  BY DEF Pcs, CallerPcs
<1>3. /\ item \in [Threads -> (Keys \X Values) \cup {NoItem}]
      /\ todo \in [Threads -> SUBSET Keys]
      /\ seen \in [Threads -> SUBSET (Keys \X (Values \cup {NoValue}))]
  OBVIOUS
<1>4. /\ queue \in [Processes -> Seq(Keys \X Values)]
      /\ future \in [Processes -> {"none", "running", "ready"}]
  OBVIOUS
<1>5. lock \in Threads \cup {Free} /\ writes \in 0..MaxWrites
  BY ParamsAssumption
<1>6. TypeOK
  BY <1>1, <1>2, <1>3, <1>4, <1>5 DEF TypeOK, Pcs
<1>7. LockHeld /\ CallState /\ ReadAllIsSnapshot
  BY <1>2 DEF LockHeld, CallState, DirPcs, ReadAllIsSnapshot, Holding, PutPcs
<1> QED BY <1>1, <1>6, <1>7 DEF IInv

-----------------------------------------------------------------------------
(* A step of a put, on the way to the rename or back from it. *)
LEMMA PutIInv ==
  ASSUME IInv, NEW t \in Threads,
         FsyncTemp(t) \/ PutReturns(t) \/ PutFails(t)
  PROVE  IInv'
<1> USE DEF IInv, Goto, dirVars, objectVars, AfterPut
<1>1. pc[t] \in PutPcs /\ pc' \in [Threads -> Pcs]
  BY DEF FsyncTemp, PutReturns, PutFails, TypeOK, Pcs, PutPcs, WriterPcs
<1>2. TypeOK'
  BY <1>1 DEF FsyncTemp, PutReturns, PutFails, TypeOK, Pcs
<1>3. AllSynced'
  BY DEF FsyncTemp, PutReturns, PutFails, AllSynced
<1>4. LockHeld'
  BY FreeIsNoThread DEF FsyncTemp, PutReturns, PutFails, LockHeld, Holding, TypeOK
<1>5. CallState'
  BY DEF FsyncTemp, PutReturns, PutFails, CallState, DirPcs, PutPcs, TypeOK
<1>6. ReadAllIsSnapshot'
  BY DEF FsyncTemp, PutReturns, PutFails, ReadAllIsSnapshot, TypeOK
<1> QED BY <1>2, <1>3, <1>4, <1>5, <1>6

(* The rename: the holder of the flock changes a file while nobody scans. *)
LEMMA RenameIInv ==
  ASSUME IInv, NEW t \in Threads, Rename(t)
  PROVE  IInv'
<1> USE DEF IInv, Rename, Goto, objectVars
<1>1. item[t] \in Keys \X Values /\ lock = t
  BY DEF CallState, LockHeld, PutPcs, Holding
<1>2. PICK k \in Keys, v \in Values : item[t] = <<k, v>>
  BY <1>1
<1>3. file' = [file EXCEPT ![k] = [val |-> v, synced |-> TRUE]]
  BY <1>2
<1>4. TypeOK'
  <2>1. /\ file' \in [Keys -> Content]
        /\ \A q \in Keys : file'[q].val # Torn
    <3> HIDE DEF Rename, IInv
    <3>1. file \in [Keys -> Content] /\ \A q \in Keys : file[q].val # Torn
      BY DEF IInv, TypeOK
    <3>2. [val |-> v, synced |-> TRUE] \in Content /\ v # Torn
      BY WrittenIsContent
    <3> QED BY <1>3, <3>1, <3>2
  <2>2. pc' \in [Threads -> Pcs]
    BY DEF TypeOK, Pcs, PutPcs
  <2> QED BY <2>1, <2>2 DEF TypeOK, Pcs
<1>5. AllSynced' /\ LockHeld' /\ CallState'
  BY <1>1, <1>3, WrittenIsContent DEF AllSynced, LockHeld, CallState, DirPcs, Holding, PutPcs, TypeOK
<1>6. \A u \in Threads : pc'[u] # "reading"
  BY <1>1 DEF LockHeld, Holding, TypeOK
<1> QED BY <1>4, <1>5, <1>6 DEF ReadAllIsSnapshot

(* Who waits for the flock, and where it goes on. *)
LEMMA InsideTable ==
  /\ DOMAIN Inside = {"synced", "remove", "clear", "readAll"}
  /\ Inside["synced"] = "locked" /\ Inside["remove"] = "removing"
  /\ Inside["clear"] = "clearing" /\ Inside["readAll"] = "reading"
BY DEF Inside

(* Taking the flock starts a critical section that nobody else is in. *)
LEMMA TakeLockIInv ==
  ASSUME IInv, NEW t \in Threads, TakeLock(t)
  PROVE  IInv'
<1> USE DEF IInv, TakeLock, Goto, dirVars, objectVars
<1>1. \A u \in Threads : pc[u] \notin Holding
  BY FreeIsNoThread DEF LockHeld
<1>2. \/ pc[t] = "synced" /\ pc' = [pc EXCEPT ![t] = "locked"]
      \/ pc[t] = "remove" /\ pc' = [pc EXCEPT ![t] = "removing"]
      \/ pc[t] = "clear" /\ pc' = [pc EXCEPT ![t] = "clearing"]
      \/ pc[t] = "readAll" /\ pc' = [pc EXCEPT ![t] = "reading"]
  <2>1. pc[t] \in {"synced", "remove", "clear", "readAll"}
    BY InsideTable
  <2> QED BY <2>1, InsideTable
<1>3. pc' \in [Threads -> Pcs]
  BY <1>2 DEF TypeOK, Pcs, PutPcs, DirPcs
<1>4. TypeOK'
  BY <1>3 DEF TypeOK, Pcs
<1>5. AllSynced' /\ LockHeld' /\ CallState'
  BY <1>1, <1>2 DEF AllSynced, LockHeld, CallState, DirPcs, PutPcs, TypeOK
<1>6. ReadAllIsSnapshot'
  BY <1>1, <1>2 DEF ReadAllIsSnapshot, CallState, Holding, TypeOK
<1> QED BY <1>4, <1>5, <1>6

(* Callers and writers are threads. *)
LEMMA ThreadsOf == \A p \in Processes : Caller(p) \in Threads /\ Writer(p) \in Threads
BY DEF Threads, Caller, Writer

(* A removal inside the critical section: again nobody scans. *)
LEMMA UnlinkIInv ==
  ASSUME IInv, NEW t \in Threads, NEW k \in Keys, Unlink(t, k)
  PROVE  IInv'
<1> USE DEF IInv, Unlink, objectVars
<1>1. lock = t
  BY DEF LockHeld, Holding
<1>2. TypeOK'
  BY MissingIsContent DEF TypeOK
<1>3. AllSynced' /\ LockHeld' /\ CallState'
  BY MissingIsContent DEF AllSynced, LockHeld, CallState, DirPcs, TypeOK
<1>4. \A u \in Threads : pc'[u] # "reading"
  BY <1>1 DEF LockHeld, Holding
<1> QED BY <1>2, <1>3, <1>4 DEF ReadAllIsSnapshot

(* A scan reads one more file, and the directory does not move meanwhile. *)
LEMMA ReadFileIInv ==
  ASSUME IInv, NEW t \in Threads, NEW k \in Keys, ReadFile(t, k)
  PROVE  IInv'
<1> USE DEF IInv, ReadFile, dirVars, objectVars
<1>1. file[k].val \in Values \cup {NoValue}
  BY DEF TypeOK, Content
<1>2. TypeOK'
  BY <1>1 DEF TypeOK
<1>3. AllSynced' /\ LockHeld' /\ CallState'
  BY DEF AllSynced, LockHeld, CallState, DirPcs, TypeOK
<1>4. ReadAllIsSnapshot'
  BY DEF ReadAllIsSnapshot, TypeOK
<1> QED BY <1>2, <1>3, <1>4

(* remove, clearAll and readAll return and free the flock. *)
LEMMA DirReturnIInv ==
  ASSUME IInv, NEW t \in Threads,
         RemoveFails(t) \/ UnlinksReturn(t) \/ ReadAllReturns(t)
  PROVE  IInv'
<1> USE DEF IInv, RemoveFails, UnlinksReturn, ReadAllReturns, Goto, dirVars, objectVars
<1>1. pc' \in [Threads -> Pcs] /\ disk' \in {disk, file}
  BY DEF TypeOK, Pcs, CallerPcs
<1>2. TypeOK'
  BY <1>1 DEF TypeOK, Pcs
<1>3. AllSynced'
  BY <1>1 DEF AllSynced
<1>4. LockHeld'
  BY FreeIsNoThread DEF LockHeld, Holding, TypeOK
<1>5. CallState'
  BY DEF CallState, DirPcs, PutPcs, TypeOK
<1>6. ReadAllIsSnapshot'
  <2>1. \A u \in Threads : pc'[u] = "reading" => pc[u] = "reading" /\ seen'[u] = seen[u]
    BY DEF TypeOK
  <2> QED BY <2>1 DEF ReadAllIsSnapshot
<1> QED BY <1>2, <1>3, <1>4, <1>5, <1>6

(* A process makes a call. *)
LEMMA CallIInv ==
  ASSUME IInv, NEW p \in Processes, Call(p)
  PROVE  IInv'
<1> DEFINE t == Caller(p)
<1>1. t \in Threads /\ t[2] = "caller" /\ pc[t] = "idle"
  BY ThreadsOf DEF Caller, Call, Put, Push, Remove, ClearAll, ReadAll, Destroy
<1> USE DEF IInv, Goto, dirVars, objectVars
<1> HIDE DEF t
<1>2. ASSUME NEW k \in Keys, Put(p, k) PROVE IInv'
  <2>1. /\ writes' \in Values
        /\ item' = [item EXCEPT ![t] = <<k, writes'>>]
        /\ pc' = [pc EXCEPT ![t] = "written"]
        /\ UNCHANGED <<file, disk, lock, todo, seen, queue, future>>
    BY <1>2, ParamsAssumption DEF Put, t, Values, TypeOK
  <2> QED BY <1>1, <2>1 DEF TypeOK, AllSynced, LockHeld, CallState, DirPcs, ReadAllIsSnapshot,
                              Values, Holding, PutPcs, CallerPcs
<1>3. ASSUME NEW k \in Keys, Push(p, k) PROVE IInv'
  <2>1. /\ writes' \in Values
        /\ queue' = [queue EXCEPT ![p] = Append(@, <<k, writes'>>)]
        /\ pc' = [pc EXCEPT ![t] = "pushed"]
        /\ UNCHANGED <<file, disk, lock, item, todo, seen, future>>
    BY <1>3, ParamsAssumption DEF Push, t, Values, TypeOK
  <2>2. queue' \in [Processes -> Seq(Keys \X Values)]
    BY <2>1 DEF TypeOK
  <2> QED BY <1>1, <2>1, <2>2 DEF TypeOK, AllSynced, LockHeld, CallState, DirPcs, ReadAllIsSnapshot,
                                   Values, Holding, PutPcs, CallerPcs
<1>4. ASSUME NEW S \in SUBSET Keys, NEW l \in {"remove", "clear", "readAll", "waiting"},
             todo' = [todo EXCEPT ![t] = S] \/ todo' = todo,
             pc' = [pc EXCEPT ![t] = l],
             UNCHANGED <<file, disk, lock, item, seen, queue, future, writes>>
      PROVE  IInv'
  BY <1>1, <1>4 DEF TypeOK, AllSynced, LockHeld, CallState, ReadAllIsSnapshot,
                    Holding, PutPcs, DirPcs, CallerPcs
<1>5. ASSUME NEW k \in Keys, Remove(p, k) PROVE IInv'
  BY <1>4, <1>5 DEF Remove, t
<1>6. ASSUME NEW S \in ClearSets, ClearAll(p, S) PROVE IInv'
  BY <1>4, <1>6, ParamsAssumption DEF ClearAll, t
<1>7. CASE ReadAll(p)
  BY <1>4, <1>7 DEF ReadAll, t
<1>8. CASE Destroy(p)
  BY <1>4, <1>8 DEF Destroy, t
<1> QED BY <1>2, <1>3, <1>5, <1>6, <1>7, <1>8 DEF Call

(* The queue, its writer and the end of a Params object. *)
LEMMA ObjectIInv ==
  ASSUME IInv, NEW p \in Processes, ContinueCaller(p) \/ ContinueWriter(p)
  PROVE  IInv'
<1> DEFINE c == Caller(p)
           w == Writer(p)
<1>1. c \in Threads /\ w \in Threads
  BY ThreadsOf
<1> USE DEF IInv, Goto, dirVars, objectVars
<1>2. CASE StartWriter(p)
  <2>1. /\ \/ pc' = [pc EXCEPT ![c] = "idle"]
           \/ pc' = [pc EXCEPT ![c] = "idle", ![w] = "popping"]
        /\ future' \in [Processes -> {"none", "running", "ready"}]
        /\ UNCHANGED <<file, disk, lock, item, todo, seen, queue, writes>>
        /\ pc[c] = "pushed"
    <3>1. CASE future[p] = "running"
      BY <1>2, <3>1 DEF StartWriter, TypeOK
    <3>2. CASE future[p] # "running"
      BY <1>2, <3>2 DEF StartWriter, TypeOK
    <3> QED BY <3>1, <3>2
  <2>2. \A u \in Threads : pc'[u] = pc[u] \/ pc'[u] \in {"idle", "popping"}
    BY <1>1, <2>1 DEF TypeOK
  <2>3. pc' \in [Threads -> Pcs]
    BY <1>1, <2>1 DEF TypeOK, Pcs, CallerPcs, WriterPcs
  <2>4. \A u \in Threads : pc'[u] # "reading" => pc[u] # "reading"
    <3>1. pc[w] # "reading"
      BY <1>1 DEF CallState, DirPcs, Writer
    <3> QED BY <1>1, <2>1, <3>1 DEF TypeOK
  <2>5. TypeOK' /\ AllSynced' /\ LockHeld' /\ ReadAllIsSnapshot'
    BY <2>1, <2>2, <2>3 DEF TypeOK, AllSynced, LockHeld, ReadAllIsSnapshot, Holding, Pcs
  <2> QED BY <2>1, <2>2, <2>4, <2>5 DEF CallState, DirPcs, PutPcs
<1>3. CASE Destroyed(p)
  <2>1. /\ queue' \in [Processes -> Seq(Keys \X Values)]
        /\ future' \in [Processes -> {"none", "running", "ready"}]
    BY <1>3 DEF Destroyed, TypeOK
  <2> QED BY <1>1, <1>3, <2>1 DEF Destroyed, TypeOK, AllSynced, LockHeld, CallState, DirPcs,
                                   ReadAllIsSnapshot, Holding, PutPcs, CallerPcs
<1>4. CASE Pop(p)
  <2>1. queue[p] \in Seq(Keys \X Values) /\ queue[p] # <<>>
    BY <1>4 DEF Pop, TypeOK
  <2>2. Head(queue[p]) \in Keys \X Values /\ Tail(queue[p]) \in Seq(Keys \X Values)
    BY <2>1
  <2> QED BY <1>1, <1>4, <2>2 DEF Pop, TypeOK, AllSynced, LockHeld, CallState, DirPcs,
                                   ReadAllIsSnapshot, Holding, PutPcs
<1>5. CASE PopEmpty(p)
  BY <1>1, <1>5 DEF PopEmpty, TypeOK, AllSynced, LockHeld, CallState, DirPcs, ReadAllIsSnapshot,
                    Holding, PutPcs, WriterPcs
<1>6. CASE WriterReturns(p)
  BY <1>1, <1>6 DEF WriterReturns, TypeOK, AllSynced, LockHeld, CallState, DirPcs,
                    ReadAllIsSnapshot, Holding, PutPcs, WriterPcs
<1> QED BY <1>2, <1>3, <1>4, <1>5, <1>6 DEF ContinueCaller, ContinueWriter

(* The death of a process frees what its threads held. *)
LEMMA KillIInv ==
  ASSUME IInv, NEW p \in Processes, Kill(p)
  PROVE  IInv'
<1> USE DEF IInv, Kill, dirVars
<1>1. /\ pc' \in [Threads -> Pcs]
      /\ item' \in [Threads -> (Keys \X Values) \cup {NoItem}]
      /\ todo' \in [Threads -> SUBSET Keys]
      /\ seen' \in [Threads -> SUBSET (Keys \X (Values \cup {NoValue}))]
  BY DEF TypeOK, Pcs, CallerPcs
<1>2. /\ queue' \in [Processes -> Seq(Keys \X Values)]
      /\ future' \in [Processes -> {"none", "running", "ready"}]
      /\ lock' \in Threads \cup {Free}
  BY DEF TypeOK
<1>3. TypeOK' /\ AllSynced'
  BY <1>1, <1>2 DEF TypeOK, AllSynced, Pcs
<1>4. \A u \in Threads : \/ pc'[u] = "idle" /\ seen'[u] = {}
                         \/ /\ u[1] # p
                            /\ pc'[u] = pc[u] /\ item'[u] = item[u] /\ seen'[u] = seen[u]
  OBVIOUS
<1>5. \A u \in Threads : u[1] # p => u \notin {Caller(p), Writer(p)}
  BY DEF Caller, Writer
<1> QED BY <1>3, <1>4, <1>5 DEF LockHeld, CallState, DirPcs, ReadAllIsSnapshot, Holding, PutPcs

(* Nothing that a loss of power leaves behind is torn. *)
LEMMA PowerLossIInv == IInv /\ PowerLoss => IInv'
<1> SUFFICES ASSUME IInv, PowerLoss PROVE IInv'
  OBVIOUS
<1> USE DEF IInv, PowerLoss
<1>1. PICK S \in SUBSET Keys :
        file' = [k \in Keys |-> Survivor(IF k \in S THEN disk[k] ELSE file[k])]
  OBVIOUS
<1>2. \A k \in Keys : file'[k] \in {file[k], disk[k]}
  BY <1>1 DEF Survivor, AllSynced
<1>3. /\ file' \in [Keys -> Content]
      /\ \A k \in Keys : file'[k].val # Torn /\ file'[k].synced
  BY <1>1, <1>2 DEF TypeOK, AllSynced
<1>4. pc' \in [Threads -> Pcs] /\ \A u \in Threads : pc'[u] = "idle" /\ seen'[u] = {}
  BY DEF Pcs, CallerPcs
<1>5. TypeOK' /\ AllSynced'
  BY <1>3, <1>4 DEF TypeOK, AllSynced, Pcs
<1> QED BY <1>4, <1>5 DEF LockHeld, CallState, DirPcs, ReadAllIsSnapshot, Holding, PutPcs

(* Every step keeps the invariant. *)
LEMMA NextIInv == IInv /\ [Next]_vars => IInv'
<1> SUFFICES ASSUME IInv, [Next]_vars PROVE IInv'
  OBVIOUS
<1>1. ASSUME NEW t \in Threads, TakeLock(t) \/ Continue(t) PROVE IInv'
  BY <1>1, PutIInv, RenameIInv, TakeLockIInv, UnlinkIInv, ReadFileIInv, DirReturnIInv
  DEF Continue
<1>2. ASSUME NEW p \in Processes, ContinueCaller(p) \/ ContinueWriter(p) PROVE IInv'
  BY <1>2, ObjectIInv
<1>3. ASSUME NEW p \in Processes, Call(p) PROVE IInv'
  BY <1>3, CallIInv
<1>4. ASSUME NEW p \in Processes, Kill(p) PROVE IInv'
  BY <1>4, KillIInv
<1>5. CASE UNCHANGED vars
  BY <1>5 DEF vars, IInv, TypeOK, AllSynced, LockHeld, CallState, DirPcs, ReadAllIsSnapshot
<1> QED BY <1>1, <1>2, <1>3, <1>4, <1>5, PowerLossIInv DEF Next

LEMMA Invariance == Spec => []IInv
BY InitIInv, NextIInv, PTL DEF Spec

-----------------------------------------------------------------------------
(* The store's state is well formed and no file is ever torn, whatever calls fail, *)
(* processes die or power is lost (Params::put).                                   *)
THEOREM TypeCorrect == Spec => []TypeOK
<1>1. IInv => TypeOK
  BY DEF IInv
<1> QED BY Invariance, <1>1, PTL

(* A scan by readAll sees the directory of one instant, for any number of processes. *)
THEOREM ScansAreSnapshots == Spec => []ReadAllIsSnapshot
<1>1. IInv => ReadAllIsSnapshot
  BY DEF IInv
<1> QED BY Invariance, <1>1, PTL

-----------------------------------------------------------------------------
(* The values of the files, and of what is settled on disk, as KeyStore has them. *)
Shown(f) == [k \in Keys |-> f[k].val]

LEMMA InitImplements == Init => Abstract!Init
BY DEF Init, Abstract!Init, Missing

(* A step that leaves the directory alone, or settles it. *)
LEMMA QuietImplements ==
  ASSUME file' = file, disk' \in {disk, file}
  PROVE  [Abstract!Next]_<<Shown(file), Shown(disk)>>
BY DEF Abstract!Next, Abstract!Settle, Shown

LEMMA RenameImplements ==
  ASSUME IInv, NEW t \in Threads, Rename(t)
  PROVE  [Abstract!Next]_<<Shown(file), Shown(disk)>>
<1>1. PICK k \in Keys, v \in Values : item[t] = <<k, v>>
  BY DEF IInv, CallState, PutPcs, Rename
<1>2. Shown(file)' = [Shown(file) EXCEPT ![k] = v] /\ disk' = disk
  <2>1. file' = [file EXCEPT ![k] = [val |-> v, synced |-> TRUE]] /\ disk' = disk
    BY <1>1 DEF Rename
  <2>2. file \in [Keys -> Content]
    BY DEF IInv, TypeOK
  <2> QED BY <2>1, <2>2 DEF Shown
<1>3. Abstract!Write(k, v)
  BY <1>2 DEF Abstract!Write, Shown
<1> QED BY <1>3 DEF Abstract!Next

LEMMA UnlinkImplements ==
  ASSUME IInv, NEW t \in Threads, NEW k \in Keys, Unlink(t, k)
  PROVE  [Abstract!Next]_<<Shown(file), Shown(disk)>>
<1>1. Shown(file)' = [Shown(file) EXCEPT ![k] = NoValue] /\ disk' = disk
  <2>1. file' = [file EXCEPT ![k] = Missing] /\ disk' = disk /\ Missing.val = NoValue
    BY DEF Unlink, Missing
  <2>2. file \in [Keys -> Content]
    BY DEF IInv, TypeOK
  <2> QED BY <2>1, <2>2 DEF Shown
<1>2. Abstract!Delete(k)
  BY <1>1 DEF Abstract!Delete, Shown
<1> QED BY <1>2 DEF Abstract!Next

LEMMA PowerLossImplements ==
  ASSUME IInv, PowerLoss
  PROVE  [Abstract!Next]_<<Shown(file), Shown(disk)>>
<1>1. PICK S \in SUBSET Keys :
        file' = [k \in Keys |-> Survivor(IF k \in S THEN disk[k] ELSE file[k])]
  BY DEF PowerLoss
<1>2. Shown(file)' = [k \in Keys |-> IF k \in S THEN Shown(disk)[k] ELSE Shown(file)[k]]
  BY <1>1 DEF Shown, Survivor, IInv, AllSynced
<1>3. disk' = file'
  BY DEF PowerLoss
<1>4. Abstract!PowerLoss
  BY <1>2, <1>3 DEF Abstract!PowerLoss, Shown
<1> QED BY <1>4 DEF Abstract!Next

LEMMA NextImplements ==
  IInv /\ [Next]_vars => [Abstract!Next]_<<Shown(file), Shown(disk)>>
<1> SUFFICES ASSUME IInv, [Next]_vars
             PROVE  [Abstract!Next]_<<Shown(file), Shown(disk)>>
  OBVIOUS
<1>1. ASSUME NEW t \in Threads, TakeLock(t) \/ Continue(t)
      PROVE  [Abstract!Next]_<<Shown(file), Shown(disk)>>
  <2>1. CASE Rename(t)
    BY <2>1, RenameImplements
  <2>2. ASSUME NEW k \in Keys, Unlink(t, k)
        PROVE  [Abstract!Next]_<<Shown(file), Shown(disk)>>
    BY <2>2, UnlinkImplements
  <2>3. CASE \/ TakeLock(t) \/ FsyncTemp(t) \/ PutReturns(t) \/ PutFails(t)
            \/ RemoveFails(t) \/ UnlinksReturn(t) \/ ReadAllReturns(t)
            \/ \E k \in Keys : ReadFile(t, k)
    BY <2>3, QuietImplements DEF TakeLock, FsyncTemp, PutReturns, PutFails, RemoveFails,
                                 UnlinksReturn, ReadAllReturns, ReadFile, dirVars
  <2> QED BY <1>1, <2>1, <2>2, <2>3 DEF Continue
<1>2. ASSUME NEW p \in Processes,
             ContinueCaller(p) \/ ContinueWriter(p) \/ Call(p) \/ Kill(p)
      PROVE  [Abstract!Next]_<<Shown(file), Shown(disk)>>
  BY <1>2, QuietImplements
  DEF ContinueCaller, ContinueWriter, Call, Kill, StartWriter, Destroyed, Pop, PopEmpty,
      WriterReturns, Put, Push, Remove, ClearAll, ReadAll, Destroy, dirVars
<1>3. CASE UNCHANGED vars
  BY <1>3, QuietImplements DEF vars
<1> QED BY <1>1, <1>2, <1>3, PowerLossImplements DEF Next

(* The files, the flock and the threads implement the atomic store that the rest of *)
(* the system relies on, power losses and failed system calls included.             *)
THEOREM ParamsImplementKeyStore == Spec => ImplementsKeyStore
<1>1. IInv /\ [Next]_vars =>
        [Abstract!Next]_<<[k \in Keys |-> file[k].val], [k \in Keys |-> disk[k].val]>>
  BY NextImplements DEF Shown
<1> QED BY Invariance, InitImplements, <1>1, PTL DEF Spec, ImplementsKeyStore, Abstract!Spec

-----------------------------------------------------------------------------
(* A put that has renamed its file still finds its value there: it holds the flock. *)
InPlace ==
  \A t \in Threads : pc[t] = "renamed" => file[item[t][1]].val = item[t][2]

(* A step after which each put past its rename has its item and its file as before. *)
LEMMA KeepsInPlace ==
  ASSUME InPlace,
         \A u \in Threads : pc'[u] = "renamed" =>
            pc[u] = "renamed" /\ item'[u] = item[u] /\ file' = file
  PROVE  InPlace'
BY DEF InPlace

LEMMA ThreadInPlace ==
  ASSUME IInv, InPlace, NEW t \in Threads, TakeLock(t) \/ Continue(t)
  PROVE  InPlace'
<1> USE DEF Goto, dirVars, objectVars
<1>1. CASE Rename(t)
  <2>1. PICK k \in Keys, v \in Values : item[t] = <<k, v>>
    BY <1>1 DEF IInv, CallState, PutPcs, Rename
  <2>2. \A u \in Threads : pc'[u] = "renamed" => u = t
    BY <1>1 DEF Rename, IInv, TypeOK, LockHeld, Holding
  <2>3. item'[t] = <<k, v>> /\ file' = [file EXCEPT ![k] = [val |-> v, synced |-> TRUE]]
    BY <1>1, <2>1 DEF Rename
  <2>4. file'[k].val = v
    BY <2>3 DEF IInv, TypeOK
  <2> QED BY <2>2, <2>3, <2>4 DEF InPlace
<1>2. CASE TakeLock(t)
  <2>1. Inside[pc[t]] # "renamed"
    BY <1>2, InsideTable DEF TakeLock
  <2> QED BY <1>2, <2>1, KeepsInPlace DEF TakeLock, IInv, TypeOK
<1>3. CASE FsyncTemp(t) \/ PutReturns(t) \/ PutFails(t)
  <2>1. \A u \in Threads : pc'[u] = "renamed" => u # t
    BY <1>3 DEF FsyncTemp, PutReturns, PutFails, AfterPut, IInv, TypeOK
  <2>2. \A u \in Threads : u # t => pc'[u] = pc[u] /\ item'[u] = item[u]
    BY <1>3 DEF FsyncTemp, PutReturns, PutFails, IInv, TypeOK
  <2>3. file' = file
    BY <1>3 DEF FsyncTemp, PutReturns, PutFails
  <2> QED BY <2>1, <2>2, <2>3, KeepsInPlace
<1>4. ASSUME NEW k \in Keys, Unlink(t, k) PROVE InPlace'
  <2>1. \A u \in Threads : pc'[u] # "renamed"
    BY <1>4 DEF Unlink, IInv, LockHeld, Holding
  <2> QED BY <2>1 DEF InPlace
<1>5. ASSUME NEW k \in Keys, ReadFile(t, k) PROVE InPlace'
  BY <1>5, KeepsInPlace DEF ReadFile
<1>6. CASE RemoveFails(t) \/ UnlinksReturn(t) \/ ReadAllReturns(t)
  BY <1>6, KeepsInPlace DEF RemoveFails, UnlinksReturn, ReadAllReturns, IInv, TypeOK
<1> QED BY <1>1, <1>2, <1>3, <1>4, <1>5, <1>6 DEF Continue

LEMMA ProcessInPlace ==
  ASSUME IInv, InPlace, NEW p \in Processes,
         ContinueCaller(p) \/ ContinueWriter(p) \/ Call(p) \/ Kill(p)
  PROVE  InPlace'
<1> USE DEF Goto, dirVars, objectVars
<1>1. file' = file
  BY DEF ContinueCaller, ContinueWriter, Call, Kill, StartWriter, Destroyed, Pop, PopEmpty,
         WriterReturns, Put, Push, Remove, ClearAll, ReadAll, Destroy
<1>2. CASE Kill(p)
  BY <1>1, <1>2, KeepsInPlace DEF Kill
<1>3. CASE Call(p)
  BY <1>1, <1>3, KeepsInPlace
  DEF Call, Put, Push, Remove, ClearAll, ReadAll, Destroy, IInv, TypeOK
<1>4. CASE StartWriter(p) \/ Destroyed(p)
  <2>1. \A u \in Threads : pc'[u] = "renamed" => pc[u] = "renamed"
    BY <1>4 DEF StartWriter, Destroyed, IInv, TypeOK
  <2>2. item' = item
    BY <1>4 DEF StartWriter, Destroyed
  <2> QED BY <1>1, <2>1, <2>2, KeepsInPlace
<1>5. CASE ContinueWriter(p)
  BY <1>1, <1>5, KeepsInPlace DEF ContinueWriter, Pop, PopEmpty, WriterReturns, IInv, TypeOK
<1> QED BY <1>2, <1>3, <1>4, <1>5 DEF ContinueCaller

LEMMA NextInPlace == IInv /\ InPlace /\ [Next]_vars => InPlace'
<1> SUFFICES ASSUME IInv, InPlace, [Next]_vars PROVE InPlace'
  OBVIOUS
<1>1. CASE PowerLoss
  BY <1>1, KeepsInPlace DEF PowerLoss
<1>2. CASE UNCHANGED vars
  BY <1>2, KeepsInPlace DEF vars
<1> QED BY <1>1, <1>2, ThreadInPlace, ProcessInPlace DEF Next

(* When put returns 0 its value is in the directory and on disk: the flock is held *)
(* from the rename to the fsync of the directory.                                  *)
THEOREM PutsAreDurable == Spec => PutIsDurable
<1>1. Init => InPlace
  BY DEF Init, InPlace
<1>2. InPlace /\ [Next]_vars =>
        [\A t \in Threads : PutReturns(t) =>
           \A d \in {file', disk'} : d[item[t][1]].val = item[t][2]]_vars
  BY DEF InPlace, PutReturns
<1> QED BY Invariance, NextInPlace, <1>1, <1>2, PTL DEF Spec, PutIsDurable

-----------------------------------------------------------------------------
(* The values of a queue are in the order in which they were put there, after the one *)
(* that its thread writes, and none is newer than the last put.                       *)
QueuedBehind(p, v) == \A i \in DOMAIN queue[p] : v < queue[p][i][2]

ProcessInOrder(p) ==
  /\ \A i, j \in DOMAIN queue[p] : i < j => queue[p][i][2] < queue[p][j][2]
  /\ \A i \in DOMAIN queue[p] : queue[p][i][2] <= writes
  /\ pc[Writer(p)] \in PutPcs =>
       item[Writer(p)][2] <= writes /\ QueuedBehind(p, item[Writer(p)][2])

QueuesInOrder == \A p \in Processes : ProcessInOrder(p)

(* What is queued and what is written has a number. *)
LEMMA NumberedValues ==
  ASSUME IInv, NEW p \in Processes
  PROVE  /\ queue[p] \in Seq(Keys \X Values) /\ writes \in Nat
         /\ \A i \in DOMAIN queue[p] : queue[p][i][2] \in Nat
         /\ Writer(p) \in Threads /\ Caller(p) \in Threads /\ Writer(p) # Caller(p)
         /\ pc[Writer(p)] \in PutPcs => item[Writer(p)][2] \in Nat
<1>1. queue[p] \in Seq(Keys \X Values) /\ writes \in Nat
  BY ParamsAssumption DEF IInv, TypeOK
<1>2. \A x \in Keys \X Values : x[2] \in Nat
  BY ParamsAssumption DEF Values
<1>3. \A i \in DOMAIN queue[p] : queue[p][i] \in Keys \X Values
  BY <1>1
<1>4. Writer(p) \in Threads /\ Caller(p) \in Threads /\ Writer(p) # Caller(p)
  BY DEF Writer, Caller, Threads
<1>5. pc[Writer(p)] \in PutPcs => item[Writer(p)] \in Keys \X Values
  BY <1>4 DEF IInv, CallState
<1> QED BY <1>1, <1>2, <1>3, <1>4, <1>5

(* A step that leaves the queue alone, and the item that is being written. *)
LEMMA KeepsOrder ==
  ASSUME IInv, NEW p \in Processes, ProcessInOrder(p),
         queue'[p] = queue[p], writes' \in Nat, writes <= writes',
         pc'[Writer(p)] \in PutPcs => pc[Writer(p)] \in PutPcs /\ item'[Writer(p)] = item[Writer(p)]
  PROVE  ProcessInOrder(p)'
BY NumberedValues DEF ProcessInOrder, QueuedBehind

LEMMA EmptyInOrder ==
  ASSUME NEW p \in Processes, queue'[p] = <<>>, pc'[Writer(p)] \notin PutPcs
  PROVE  ProcessInOrder(p)'
BY DEF ProcessInOrder, QueuedBehind

LEMMA ThreadKeepsOrder ==
  ASSUME IInv, QueuesInOrder, NEW t \in Threads, TakeLock(t) \/ Continue(t)
  PROVE  QueuesInOrder'
<1> USE DEF Goto, dirVars, objectVars
<1>1. UNCHANGED <<queue, writes>>
  BY DEF TakeLock, Continue, FsyncTemp, Rename, PutReturns, PutFails, Unlink, ReadFile,
         RemoveFails, UnlinksReturn, ReadAllReturns
<1>2. \A u \in Threads : pc'[u] \in PutPcs => pc[u] \in PutPcs /\ item'[u] = item[u]
  <2>1. CASE TakeLock(t)
    <3>1. Inside[pc[t]] \in PutPcs => pc[t] \in PutPcs
      BY <2>1, InsideTable DEF TakeLock, PutPcs
    <3> QED BY <2>1, <3>1 DEF TakeLock, IInv, TypeOK
  <2>2. CASE FsyncTemp(t)
    BY <2>2 DEF FsyncTemp, IInv, TypeOK, PutPcs
  <2>3. CASE Rename(t)
    BY <2>3 DEF Rename, IInv, TypeOK, PutPcs
  <2>4. CASE PutReturns(t) \/ PutFails(t)
    BY <2>4 DEF PutReturns, PutFails, AfterPut, IInv, TypeOK, PutPcs
  <2>5. ASSUME NEW k \in Keys, Unlink(t, k) \/ ReadFile(t, k)
        PROVE  \A u \in Threads : pc'[u] \in PutPcs => pc[u] \in PutPcs /\ item'[u] = item[u]
    BY <2>5 DEF Unlink, ReadFile
  <2>6. CASE RemoveFails(t) \/ UnlinksReturn(t) \/ ReadAllReturns(t)
    BY <2>6 DEF RemoveFails, UnlinksReturn, ReadAllReturns, IInv, TypeOK, PutPcs
  <2> QED BY <2>1, <2>2, <2>3, <2>4, <2>5, <2>6 DEF Continue
<1> QED BY <1>1, <1>2, KeepsOrder, NumberedValues DEF QueuesInOrder

(* What is pushed is newer than everything before it. *)
LEMMA PushKeepsOrder ==
  ASSUME IInv, QueuesInOrder, NEW p \in Processes, NEW k \in Keys, Push(p, k)
  PROVE  ProcessInOrder(p)'
<1> DEFINE q == queue[p]
<1>1. /\ q \in Seq(Keys \X Values) /\ writes \in Nat /\ \A i \in DOMAIN q : q[i][2] \in Nat
      /\ pc[Writer(p)] \in PutPcs => item[Writer(p)][2] \in Nat
  BY NumberedValues
<1>2. writes' = writes + 1 /\ queue'[p] = Append(q, <<k, writes + 1>>)
  BY DEF Push, IInv, TypeOK
<1>3. item' = item /\ pc'[Writer(p)] = pc[Writer(p)]
  BY NumberedValues DEF Push, Goto, IInv, TypeOK
<1>4. \A i \in DOMAIN queue'[p] :
        \/ i \in DOMAIN q /\ queue'[p][i] = q[i] /\ i < Len(q) + 1
        \/ i = Len(q) + 1 /\ queue'[p][i][2] = writes + 1
  BY <1>1, <1>2
<1> HIDE DEF q
<1>5. /\ \A i, j \in DOMAIN q : i < j => q[i][2] < q[j][2]
      /\ \A i \in DOMAIN q : q[i][2] <= writes
      /\ pc[Writer(p)] \in PutPcs => item[Writer(p)][2] <= writes
                                    /\ \A i \in DOMAIN q : item[Writer(p)][2] < q[i][2]
  BY DEF q, QueuesInOrder, ProcessInOrder, QueuedBehind
<1>6. \A i, j \in DOMAIN queue'[p] : i < j => queue'[p][i][2] < queue'[p][j][2]
  <2> TAKE i, j \in DOMAIN queue'[p]
  <2> HAVE i < j
  <2>1. i \in DOMAIN q /\ queue'[p][i] = q[i]
    BY <1>1, <1>4
  <2>2. q[i][2] <= writes /\ q[i][2] \in Nat
    BY <1>1, <1>5, <2>1
  <2> QED BY <1>1, <1>4, <1>5, <2>1, <2>2
<1>7. \A i \in DOMAIN queue'[p] : queue'[p][i][2] <= writes + 1
  BY <1>1, <1>4, <1>5
<1>8. ASSUME pc[Writer(p)] \in PutPcs
      PROVE  /\ item[Writer(p)][2] <= writes + 1
             /\ \A i \in DOMAIN queue'[p] : item[Writer(p)][2] < queue'[p][i][2]
  <2>1. /\ item[Writer(p)][2] \in Nat /\ item[Writer(p)][2] <= writes
        /\ \A i \in DOMAIN q : item[Writer(p)][2] < q[i][2]
    BY <1>1, <1>5, <1>8
  <2>2. item[Writer(p)][2] < writes + 1
    BY <1>1, <2>1
  <2>3. \A i \in DOMAIN queue'[p] : item[Writer(p)][2] < queue'[p][i][2]
    BY <1>4, <2>1, <2>2
  <2> QED BY <2>2, <2>3, <1>1, <2>1
<1>9. (pc[Writer(p)] \in PutPcs => item[Writer(p)][2] <= writes /\ QueuedBehind(p, item[Writer(p)][2]))'
  BY <1>2, <1>3, <1>8 DEF QueuedBehind
<1> QED BY <1>2, <1>6, <1>7, <1>9 DEF ProcessInOrder

(* The writer takes the oldest. *)
LEMMA PopKeepsOrder ==
  ASSUME IInv, QueuesInOrder, NEW p \in Processes, Pop(p)
  PROVE  ProcessInOrder(p)'
<1> DEFINE q == queue[p]
<1>1. /\ q \in Seq(Keys \X Values) /\ writes \in Nat /\ \A i \in DOMAIN q : q[i][2] \in Nat
  BY NumberedValues
<1>2. q # <<>> /\ queue'[p] = Tail(q) /\ item'[Writer(p)] = q[1] /\ writes' = writes
  BY NumberedValues DEF Pop, IInv, TypeOK
<1>3. 1 \in DOMAIN q /\ \A i \in DOMAIN queue'[p] : i \in Nat /\ i + 1 \in DOMAIN q /\ queue'[p][i] = q[i + 1]
  BY <1>1, <1>2
<1> HIDE DEF q
<1>4. /\ \A i, j \in DOMAIN q : i < j => q[i][2] < q[j][2]
      /\ \A i \in DOMAIN q : q[i][2] <= writes
  BY DEF q, QueuesInOrder, ProcessInOrder
<1>5. \A i, j \in DOMAIN queue'[p] : i < j => queue'[p][i][2] < queue'[p][j][2]
  <2> TAKE i, j \in DOMAIN queue'[p]
  <2> HAVE i < j
  <2>1. i + 1 < j + 1
    BY <1>3
  <2> QED BY <1>3, <1>4, <2>1
<1>6. \A i \in DOMAIN queue'[p] : queue'[p][i][2] <= writes /\ q[1][2] < queue'[p][i][2]
  <2> TAKE i \in DOMAIN queue'[p]
  <2>1. 1 < i + 1
    BY <1>2, <1>3, NumberedValues DEF q
  <2> QED BY <1>3, <1>4, <2>1
<1>7. q[1][2] <= writes
  BY <1>3, <1>4
<1> QED BY <1>2, <1>5, <1>6, <1>7 DEF ProcessInOrder, QueuedBehind

LEMMA ProcessKeepsOrder ==
  ASSUME IInv, QueuesInOrder, NEW p \in Processes,
         ContinueCaller(p) \/ ContinueWriter(p) \/ Call(p) \/ Kill(p)
  PROVE  QueuesInOrder'
<1> USE DEF Goto, dirVars, objectVars
<1> SUFFICES ASSUME NEW o \in Processes PROVE ProcessInOrder(o)'
  BY DEF QueuesInOrder
<1>0. /\ ProcessInOrder(o) /\ writes \in Nat /\ writes <= writes /\ writes + 1 \in Nat
      /\ Writer(o) \in Threads /\ Writer(o) # Caller(p) /\ (o # p => Writer(o) # Writer(p))
      /\ writes <= writes + 1
  <2>1. ProcessInOrder(o)
    BY DEF QueuesInOrder
  <2>2. Writer(o) # Caller(p) /\ (o # p => Writer(o) # Writer(p))
    BY DEF Writer, Caller
  <2>3. writes \in Nat /\ Writer(o) \in Threads
    BY NumberedValues
  <2> QED BY <2>1, <2>2, <2>3
<1>1. CASE Kill(p)
  <2>1. CASE o = p
    <3>1. queue'[o] = <<>> /\ pc'[Writer(o)] = "idle"
      BY <1>0, <1>1, <2>1 DEF Kill, IInv, TypeOK, Writer
    <3> QED BY <3>1, EmptyInOrder DEF PutPcs
  <2>2. CASE o # p
    <3>1. /\ queue'[o] = queue[o] /\ writes' = writes
          /\ pc'[Writer(o)] = pc[Writer(o)] /\ item'[Writer(o)] = item[Writer(o)]
      BY <1>0, <1>1, <2>2 DEF Kill, IInv, TypeOK, Writer
    <3> QED BY <1>0, <3>1, KeepsOrder
  <2> QED BY <2>1, <2>2
<1>2. ASSUME NEW k \in Keys, Push(p, k) PROVE ProcessInOrder(o)'
  <2>1. CASE o = p
    BY <1>2, <2>1, PushKeepsOrder
  <2>2. CASE o # p
    <3>1. /\ queue'[o] = queue[o] /\ writes' = writes + 1 /\ item' = item
          /\ pc'[Writer(o)] = pc[Writer(o)]
      BY <1>0, <1>2, <2>2 DEF Push, IInv, TypeOK
    <3> QED BY <1>0, <3>1, KeepsOrder
  <2> QED BY <2>1, <2>2
<1>3. CASE Pop(p)
  <2>1. CASE o = p
    BY <1>3, <2>1, PopKeepsOrder
  <2>2. CASE o # p
    <3>1. /\ queue'[o] = queue[o] /\ writes' = writes
          /\ item'[Writer(o)] = item[Writer(o)] /\ pc'[Writer(o)] = pc[Writer(o)]
      BY <1>0, <1>3, <2>2 DEF Pop, IInv, TypeOK
    <3> QED BY <1>0, <3>1, KeepsOrder
  <2> QED BY <2>1, <2>2
<1>4. ASSUME NEW k \in Keys, Put(p, k) PROVE ProcessInOrder(o)'
  <2>1. /\ queue' = queue /\ writes' = writes + 1
        /\ item'[Writer(o)] = item[Writer(o)] /\ pc'[Writer(o)] = pc[Writer(o)]
    BY <1>0, <1>4 DEF Put, IInv, TypeOK
  <2> QED BY <1>0, <2>1, KeepsOrder
<1>5. CASE Destroyed(p)
  <2>1. /\ queue'[o] = queue[o] \/ queue'[o] = <<>>
        /\ writes' = writes /\ item' = item /\ pc'[Writer(o)] = pc[Writer(o)]
    BY <1>0, <1>5 DEF Destroyed, IInv, TypeOK
  <2>2. CASE queue'[o] = queue[o]
    BY <1>0, <2>1, <2>2, KeepsOrder
  <2>3. CASE queue'[o] = <<>>
    BY <1>0, <2>1, <2>3 DEF ProcessInOrder, QueuedBehind
  <2> QED BY <2>1, <2>2, <2>3
<1>6. CASE StartWriter(p) \/ PopEmpty(p) \/ WriterReturns(p)
  <2>1. /\ queue' = queue /\ writes' = writes /\ item' = item
        /\ pc'[Writer(o)] \in PutPcs => pc[Writer(o)] \in PutPcs
    BY <1>0, <1>6 DEF StartWriter, PopEmpty, WriterReturns, IInv, TypeOK, PutPcs
  <2> QED BY <1>0, <2>1, KeepsOrder
<1>7. ASSUME \/ \E k \in Keys : Remove(p, k)
             \/ \E S \in ClearSets : ClearAll(p, S)
             \/ ReadAll(p) \/ Destroy(p)
      PROVE  ProcessInOrder(o)'
  <2>1. queue' = queue /\ writes' = writes /\ item' = item /\ pc'[Writer(o)] = pc[Writer(o)]
    BY <1>0, <1>7 DEF Remove, ClearAll, ReadAll, Destroy, IInv, TypeOK
  <2> QED BY <1>0, <2>1, KeepsOrder
<1> QED BY <1>1, <1>2, <1>3, <1>4, <1>5, <1>6, <1>7 DEF ContinueCaller, ContinueWriter, Call

LEMMA NextQueuesInOrder == IInv /\ QueuesInOrder /\ [Next]_vars => QueuesInOrder'
<1> SUFFICES ASSUME IInv, QueuesInOrder, [Next]_vars PROVE QueuesInOrder'
  OBVIOUS
<1>1. CASE PowerLoss
  <2>1. \A p \in Processes : queue'[p] = <<>> /\ pc'[Writer(p)] \notin PutPcs
    BY <1>1, NumberedValues DEF PowerLoss, PutPcs
  <2> QED BY <2>1, EmptyInOrder DEF QueuesInOrder
<1>2. CASE UNCHANGED vars
  BY <1>2 DEF vars, QueuesInOrder, ProcessInOrder, QueuedBehind
<1> QED BY <1>1, <1>2, ThreadKeepsOrder, ProcessKeepsOrder DEF Next

(* What a process queues reaches the directory in the order in which it was queued   *)
(* (putNonBlocking, asyncWriteThread, SafeQueue): kills, failed puts and new threads *)
(* included.                                                                         *)
THEOREM QueuesKeepOrder == Spec => QueueOrder
<1>1. Init => QueuesInOrder
  BY DEF Init, QueuesInOrder, ProcessInOrder, PutPcs, Writer, Threads
<1>2. IInv /\ QueuesInOrder /\ [Next]_vars =>
        [\A p \in Processes : Rename(Writer(p)) =>
           \A i \in 1..Len(queue[p]) : queue[p][i][2] > item[Writer(p)][2]]_vars
  <2> SUFFICES ASSUME IInv, QueuesInOrder, NEW p \in Processes, Rename(Writer(p)),
                      NEW i \in 1..Len(queue[p])
               PROVE  queue[p][i][2] > item[Writer(p)][2]
    OBVIOUS
  <2>1. pc[Writer(p)] \in PutPcs
    BY DEF Rename, PutPcs
  <2>2. i \in DOMAIN queue[p]
    BY NumberedValues
  <2> QED BY <2>1, <2>2, NumberedValues DEF QueuesInOrder, ProcessInOrder, QueuedBehind
<1> QED BY Invariance, NextQueuesInOrder, <1>1, <1>2, PTL DEF Spec, QueueOrder

=============================================================================
