------------------------------- MODULE Params -------------------------------
(***************************************************************************)
(* The parameter store, common/params.cc: one file per key in a directory  *)
(* shared by every process.  A value is written to a temporary file, forced*)
(* to disk and renamed into place; an flock on <params>/.lock serialises   *)
(* renames, unlinks and scans of the directory.  Each process owns a       *)
(* Params object with a queue (common/queue.h) that a thread, started on   *)
(* demand, writes out.                                                     *)
(*                                                                         *)
(* One action per system call or critical section.  A value is the number  *)
(* of the call that wrote it.  Each process uses its object from one       *)
(* thread; temporary files never collide and are not modelled.             *)
(***************************************************************************)
EXTENDS Integers, Sequences

CONSTANTS
  Keys,
  Processes,
  ClearSets,    \* the sets of keys that some flag of clearAll selects
  Uses,         \* the calls each process makes
  MaxWrites     \* bound: calls of put and putNonBlocking

ASSUME ParamsAssumption ==
  /\ MaxWrites \in Nat
  /\ ClearSets \subseteq SUBSET Keys
  /\ Uses \in [Processes -> SUBSET {"put", "remove", "clearAll", "readAll", "putNonBlocking"}]

VARIABLES
  file,     \* the directory as processes see it: the content of each key's file
  disk,     \* the directory as a loss of power leaves it at worst
  lock,     \* the thread that holds the flock
  pc,       \* where each thread is
  item,     \* the key and value of its put
  todo,     \* the keys its remove, clearAll or readAll has not reached
  seen,     \* what its readAll has read
  queue,    \* Params::queue of each process
  future,   \* Params::future of each process: "none", "running" or "ready"
  writes    \* number of puts so far

vars == <<file, disk, lock, pc, item, todo, seen, queue, future, writes>>
dirVars    == <<file, disk>>
objectVars == <<queue, future>>

Values  == 1..MaxWrites
NoValue == 0               \* there is no file
Torn    == -1              \* a file whose data never reached the disk
Free    == <<>>
NoItem  == <<>>

(* A process's caller, and the asyncWriteThread of its Params object. *)
Caller(p) == <<p, "caller">>
Writer(p) == <<p, "writer">>
Threads   == Processes \X {"caller", "writer"}

(* A file's value, and whether its data was forced to disk before it was renamed. *)
Content == [val : Values \cup {NoValue, Torn}, synced : BOOLEAN]
Missing == [val |-> NoValue, synced |-> TRUE]

CallerPcs == {"idle", "pushed", "waiting"}
PutPcs    == {"written", "synced", "locked", "renamed"}
DirPcs    == {"remove", "removing", "clear", "clearing", "readAll", "reading"}
WriterPcs == {"idle", "popping", "returning"}

(* Where a thread that waits for the FileLock goes on, and who is inside its scope. *)
Inside ==
  [synced |-> "locked", remove |-> "removing", clear |-> "clearing", readAll |-> "reading"]
Holding == {"locked", "renamed", "removing", "clearing", "reading"}

Goto(t, l) == pc' = [pc EXCEPT ![t] = l]

(* put returns: to its caller, or to the loop of asyncWriteThread. *)
AfterPut(t) == IF t[2] = "writer" THEN "popping" ELSE "idle"

-----------------------------------------------------------------------------
(* Params::put *)

(* mkstemp and write.  A write that fails returns without a trace: it stutters. *)
Put(p, k) ==
  /\ pc[Caller(p)] = "idle"
  /\ writes < MaxWrites
  /\ writes' = writes + 1
  /\ item' = [item EXCEPT ![Caller(p)] = <<k, writes'>>]
  /\ Goto(Caller(p), "written")
  /\ UNCHANGED <<dirVars, lock, todo, seen, objectVars>>

FsyncTemp(t) ==
  /\ pc[t] = "written"
  /\ Goto(t, "synced")
  /\ UNCHANGED <<dirVars, lock, item, todo, seen, objectVars, writes>>

(* FileLock: blocks until no other process or thread holds it. *)
\* slip: nobody looks whether flock succeeded
TakeLockSlip(t) ==
  /\ pc[t] \in DOMAIN Inside
  /\ lock' = t
  /\ Goto(t, Inside[pc[t]])
  /\ UNCHANGED <<dirVars, item, todo, seen, objectVars, writes>>
TakeLock(t) ==
  /\ pc[t] \in DOMAIN Inside
  /\ lock = Free
  /\ lock' = t
  /\ Goto(t, Inside[pc[t]])
  /\ UNCHANGED <<dirVars, item, todo, seen, objectVars, writes>>

\* slip: the lock's scope ends before the directory is synced
RenameSlip(t) ==
  /\ pc[t] = "locked"
  /\ file' = [file EXCEPT ![item[t][1]] = [val |-> item[t][2], synced |-> TRUE]]
  /\ Goto(t, "renamed")
  /\ lock' = Free
  /\ UNCHANGED <<disk, item, todo, seen, objectVars, writes>>
\* slip: the temporary file is renamed without an fsync
RenameSlip2(t) ==
  /\ pc[t] = "locked"
  /\ file' = [file EXCEPT ![item[t][1]] = [val |-> item[t][2], synced |-> FALSE]]
  /\ Goto(t, "renamed")
  /\ UNCHANGED <<disk, lock, item, todo, seen, objectVars, writes>>
Rename(t) ==
  /\ pc[t] = "locked"
  /\ file' = [file EXCEPT ![item[t][1]] = [val |-> item[t][2], synced |-> TRUE]]
  /\ Goto(t, "renamed")
  /\ UNCHANGED <<disk, lock, item, todo, seen, objectVars, writes>>

(* fsync_dir, and the return from put with 0. *)
PutReturns(t) ==
  /\ pc[t] = "renamed"
  /\ disk' = file
  /\ lock' = Free
  /\ Goto(t, AfterPut(t))
  /\ item' = [item EXCEPT ![t] = NoItem]
  /\ UNCHANGED <<file, todo, seen, objectVars, writes>>

(* fsync, rename or fsync_dir fails: every caller drops the result. *)
\* slip: the early exit leaks the lock
PutFailsSlip(t) ==
  /\ pc[t] \in {"written", "locked", "renamed"}
  /\ Goto(t, AfterPut(t))
  /\ item' = [item EXCEPT ![t] = NoItem]
  /\ UNCHANGED <<dirVars, lock, todo, seen, objectVars, writes>>
PutFails(t) ==
  /\ pc[t] \in {"written", "locked", "renamed"}
  /\ lock' = IF pc[t] \in Holding THEN Free ELSE lock
  /\ Goto(t, AfterPut(t))
  /\ item' = [item EXCEPT ![t] = NoItem]
  /\ UNCHANGED <<dirVars, todo, seen, objectVars, writes>>

-----------------------------------------------------------------------------
(* Params::remove, clearAll and readAll; each takes the lock with TakeLock. *)
Remove(p, k) ==
  /\ pc[Caller(p)] = "idle"
  /\ todo' = [todo EXCEPT ![Caller(p)] = {k}]
  /\ Goto(Caller(p), "remove")
  /\ UNCHANGED <<dirVars, lock, item, seen, objectVars, writes>>

ClearAll(p, S) ==
  /\ pc[Caller(p)] = "idle"
  /\ todo' = [todo EXCEPT ![Caller(p)] = S]
  /\ Goto(Caller(p), "clear")
  /\ UNCHANGED <<dirVars, lock, item, seen, objectVars, writes>>

Unlink(t, k) ==
  /\ pc[t] = "clearing" \/ (pc[t] = "removing" /\ file[k] # Missing)
  /\ k \in todo[t]
  /\ file' = [file EXCEPT ![k] = Missing]
  /\ todo' = [todo EXCEPT ![t] = @ \ {k}]
  /\ UNCHANGED <<disk, lock, pc, item, seen, objectVars, writes>>

(* remove of a key that is not there returns at once. *)
RemoveFails(t) ==
  /\ pc[t] = "removing"
  /\ \E k \in todo[t] : file[k] = Missing
  /\ lock' = Free
  /\ todo' = [todo EXCEPT ![t] = {}]
  /\ Goto(t, "idle")
  /\ UNCHANGED <<dirVars, item, seen, objectVars, writes>>

(* fsync_dir after the unlinks; whether it works is not looked at. *)
UnlinksReturn(t) ==
  /\ pc[t] \in {"removing", "clearing"}
  /\ todo[t] = {}
  /\ disk' \in {disk, file}
  /\ lock' = Free
  /\ Goto(t, "idle")
  /\ UNCHANGED <<file, item, todo, seen, objectVars, writes>>

ReadAll(p) ==
  /\ pc[Caller(p)] = "idle"
  /\ todo' = [todo EXCEPT ![Caller(p)] = Keys]
  /\ Goto(Caller(p), "readAll")
  /\ UNCHANGED <<dirVars, lock, item, seen, objectVars, writes>>

ReadFile(t, k) ==
  /\ pc[t] = "reading"
  /\ k \in todo[t]
  /\ seen' = [seen EXCEPT ![t] = @ \cup {<<k, file[k].val>>}]
  /\ todo' = [todo EXCEPT ![t] = @ \ {k}]
  /\ UNCHANGED <<dirVars, lock, pc, item, objectVars, writes>>

ReadAllReturns(t) ==
  /\ pc[t] = "reading"
  /\ todo[t] = {}
  /\ seen' = [seen EXCEPT ![t] = {}]
  /\ lock' = Free
  /\ Goto(t, "idle")
  /\ UNCHANGED <<dirVars, item, todo, objectVars, writes>>

-----------------------------------------------------------------------------
(* Params::putNonBlocking: push, then look whether a thread must be started. *)
Push(p, k) ==
  /\ pc[Caller(p)] = "idle"
  /\ writes < MaxWrites
  /\ writes' = writes + 1
  /\ queue' = [queue EXCEPT ![p] = Append(@, <<k, writes'>>)]
  /\ Goto(Caller(p), "pushed")
  /\ UNCHANGED <<dirVars, lock, item, todo, seen, future>>

StartWriter(p) ==
  /\ pc[Caller(p)] = "pushed"
  /\ IF future[p] = "running"
       THEN /\ Goto(Caller(p), "idle")
            /\ UNCHANGED future
       ELSE /\ pc' = [pc EXCEPT ![Caller(p)] = "idle", ![Writer(p)] = "popping"]
            /\ future' = [future EXCEPT ![p] = "running"]
  /\ UNCHANGED <<dirVars, lock, item, todo, seen, queue, writes>>

(* asyncWriteThread: SafeQueue::try_pop with no timeout, then put. *)
\* slip: "write the latest one" (the TODO in asyncWriteThread), and keep the rest
PopSlip(p) ==
  /\ pc[Writer(p)] = "popping"
  /\ queue[p] # <<>>
  /\ item' = [item EXCEPT ![Writer(p)] = queue[p][Len(queue[p])]]
  /\ queue' = [queue EXCEPT ![p] = SubSeq(@, 1, Len(@) - 1)]
  /\ Goto(Writer(p), "written")
  /\ UNCHANGED <<dirVars, lock, todo, seen, future, writes>>
Pop(p) ==
  /\ pc[Writer(p)] = "popping"
  /\ queue[p] # <<>>
  /\ item' = [item EXCEPT ![Writer(p)] = Head(queue[p])]
  /\ queue' = [queue EXCEPT ![p] = Tail(@)]
  /\ Goto(Writer(p), "written")
  /\ UNCHANGED <<dirVars, lock, todo, seen, future, writes>>

PopEmpty(p) ==
  /\ pc[Writer(p)] = "popping"
  /\ queue[p] = <<>>
  /\ Goto(Writer(p), "returning")
  /\ UNCHANGED <<dirVars, lock, item, todo, seen, objectVars, writes>>

(* Only now does the future become ready. *)
WriterReturns(p) ==
  /\ pc[Writer(p)] = "returning"
  /\ Goto(Writer(p), "idle")
  /\ future' = [future EXCEPT ![p] = "ready"]
  /\ UNCHANGED <<dirVars, lock, item, todo, seen, queue, writes>>

(* ~Params: wait for the future, then assert(queue.empty()).  The process   *)
(* goes on with a new object; if the assertion fails, it restarts with one. *)
Destroy(p) ==
  /\ pc[Caller(p)] = "idle"
  /\ Goto(Caller(p), "waiting")
  /\ UNCHANGED <<dirVars, lock, item, todo, seen, objectVars, writes>>

Destroyed(p) ==
  /\ pc[Caller(p)] = "waiting"
  /\ future[p] # "running"
  /\ Goto(Caller(p), "idle")
  /\ queue' = [queue EXCEPT ![p] = <<>>]
  /\ future' = [future EXCEPT ![p] = "none"]
  /\ UNCHANGED <<dirVars, lock, item, todo, seen, writes>>

-----------------------------------------------------------------------------
(* A process is killed at any point; the kernel releases its lock. *)
Kill(p) ==
  /\ pc' = [t \in Threads |-> IF t[1] = p THEN "idle" ELSE pc[t]]
  /\ item' = [t \in Threads |-> IF t[1] = p THEN NoItem ELSE item[t]]
  /\ todo' = [t \in Threads |-> IF t[1] = p THEN {} ELSE todo[t]]
  /\ seen' = [t \in Threads |-> IF t[1] = p THEN {} ELSE seen[t]]
  /\ lock' = IF lock \in {Caller(p), Writer(p)} THEN Free ELSE lock
  /\ queue' = [queue EXCEPT ![p] = <<>>]
  /\ future' = [future EXCEPT ![p] = "none"]
  /\ UNCHANGED <<dirVars, writes>>

(* What is left of a file after a loss of power. *)
Survivor(c) == IF c.synced THEN c ELSE [val |-> Torn, synced |-> TRUE]

(* Each directory entry is found as last seen or as last synced. *)
PowerLoss ==
  /\ file' \in {[k \in Keys |-> Survivor(IF k \in S THEN disk[k] ELSE file[k])] :
                  S \in SUBSET Keys}
  /\ disk' = file'
  /\ lock' = Free
  /\ pc' = [t \in Threads |-> "idle"]
  /\ item' = [t \in Threads |-> NoItem]
  /\ todo' = [t \in Threads |-> {}]
  /\ seen' = [t \in Threads |-> {}]
  /\ queue' = [p \in Processes |-> <<>>]
  /\ future' = [p \in Processes |-> "none"]
  /\ UNCHANGED writes

-----------------------------------------------------------------------------
Init ==
  /\ file = [k \in Keys |-> Missing]
  /\ disk = file
  /\ lock = Free
  /\ pc = [t \in Threads |-> "idle"]
  /\ item = [t \in Threads |-> NoItem]
  /\ todo = [t \in Threads |-> {}]
  /\ seen = [t \in Threads |-> {}]
  /\ queue = [p \in Processes |-> <<>>]
  /\ future = [p \in Processes |-> "none"]
  /\ writes = 0

(* What a thread does of itself once it is inside a call. *)
Continue(t) ==
  \/ FsyncTemp(t) \/ Rename(t) \/ PutReturns(t) \/ PutFails(t)
  \/ \E k \in Keys : Unlink(t, k) \/ ReadFile(t, k)
  \/ RemoveFails(t) \/ UnlinksReturn(t) \/ ReadAllReturns(t)

ContinueCaller(p) == StartWriter(p) \/ Destroyed(p)
ContinueWriter(p) == Pop(p) \/ PopEmpty(p) \/ WriterReturns(p)

Call(p) ==
  \/ "put" \in Uses[p] /\ \E k \in Keys : Put(p, k)
  \/ "remove" \in Uses[p] /\ \E k \in Keys : Remove(p, k)
  \/ "clearAll" \in Uses[p] /\ \E S \in ClearSets : ClearAll(p, S)
  \/ "readAll" \in Uses[p] /\ ReadAll(p)
  \/ "putNonBlocking" \in Uses[p] /\ \E k \in Keys : Push(p, k)
  \/ Destroy(p)

Next ==
  \/ \E t \in Threads : TakeLock(t) \/ Continue(t)
  \/ \E p \in Processes : ContinueCaller(p) \/ ContinueWriter(p) \/ Call(p) \/ Kill(p)
  \/ PowerLoss

(* The scheduler runs every thread that can run, and the kernel serves those that *)
(* wait for the flock in turn.                                                    *)
Fairness ==
  /\ \A t \in Threads : WF_vars(Continue(t)) /\ SF_vars(TakeLock(t))
  /\ \A p \in Processes : WF_vars(ContinueCaller(p)) /\ WF_vars(ContinueWriter(p))

Spec == Init /\ [][Next]_vars /\ Fairness
=============================================================================
