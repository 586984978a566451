----------------------------- MODULE ParamsProps -----------------------------
(* What the parameter store promises to the processes that share it. *)
EXTENDS Params

(* The state of the store is well formed; in particular no file, and nothing that *)
(* a loss of power can leave, is torn: put syncs the data before it renames.      *)
TypeOK ==
  /\ file \in [Keys -> Content] /\ disk \in [Keys -> Content]
  /\ \A k \in Keys : file[k].val # Torn /\ disk[k].val # Torn
  /\ lock \in Threads \cup {Free}
  /\ pc \in [Threads -> CallerPcs \cup WriterPcs \cup PutPcs \cup DirPcs]
  /\ item \in [Threads -> (Keys \X Values) \cup {NoItem}]
  /\ todo \in [Threads -> SUBSET Keys]
  /\ seen \in [Threads -> SUBSET (Keys \X (Values \cup {NoValue}))]
  /\ queue \in [Processes -> Seq(Keys \X Values)]
  /\ future \in [Processes -> {"none", "running", "ready"}]
  /\ writes \in 0..MaxWrites

(* readAll returns the directory as it was at one instant: what it has read so far *)
(* is still there, whatever puts, removals and deaths of processes surround it.    *)
ReadAllIsSnapshot ==
  \A t \in Threads : pc[t] = "reading" => \A kv \in seen[t] : file[kv[1]].val = kv[2]

(* When put returns 0, the value is in place and no loss of power takes it away: *)
(* nobody overwrites or clears it between its rename and its fsync_dir.          *)
PutIsDurable ==
  [][\A t \in Threads : PutReturns(t) =>
       \A d \in {file', disk'} : d[item[t][1]].val = item[t][2]]_vars

(* The values that a process queues reach the directory in the order in which it  *)
(* queued them: a key never goes back to an older one, and no two threads write   *)
(* out the same queue.                                                            *)
QueueOrder ==
  [][\A p \in Processes : Rename(Writer(p)) =>
       \A i \in 1..Len(queue[p]) : queue[p][i][2] > item[Writer(p)][2]]_vars

(* Every call comes to an end, and nobody is left waiting for the flock: whatever *)
(* fails on the way, its holder lets go of it.                                    *)
CallsReturn ==
  \A t \in Threads : pc[t] \in CallerPcs \cup PutPcs \cup DirPcs ~> pc[t] \in {"idle", "popping"}

(* Processes may take the store for an atomic one: see KeyStore. *)
Abstract == INSTANCE KeyStore WITH
  store <- [k \in Keys |-> file[k].val], settled <- [k \in Keys |-> disk[k].val]
ImplementsKeyStore == Abstract!Spec

-----------------------------------------------------------------------------
(* The assertion of ~Params (params.cc:103): once the future is no longer running, *)
(* the queue is empty.                                                             *)
QueueEmptyAtDestruction ==
  \A p \in Processes :
    pc[Caller(p)] = "waiting" /\ future[p] # "running" => queue[p] = <<>>
=============================================================================
