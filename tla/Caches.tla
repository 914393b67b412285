------------------------------- MODULE Caches -------------------------------
(***************************************************************************)
(* The cache and history repositories (cache.rs, cache/storage.rs,         *)
(* cache/merge.rs) as several processes use them at once: the threads of   *)
(* the daemon and the commands that run without it.  A transaction takes   *)
(* an exclusive flock on the repository's lock file, reads, and then       *)
(* replaces files one at a time.  Each replacement is atomic, the          *)
(* transaction is not: a process may die, or a write may fail, between two *)
(* of them.  Access points, network keys and history records are           *)
(* identities; a file is its readability and the sets it holds.            *)
(***************************************************************************)
EXTENDS Naturals, Sequences

CONSTANTS
  Procs,       \* threads and processes that use the repositories
  KeyOf,       \* the network key of each access point (cache/merge.rs)
  Casts,       \* the sequences of jobs the processes may be given
  Disks,       \* the states the runtime repository may start in
  Rotations,   \* HISTORY_ROTATIONS
  MaxLines,    \* records a history file holds before it is rotated
  MaxFaults,   \* deaths and failed writes in one behaviour
  NONE

APs == DOMAIN KeyOf

\* What a read of a file yields (CacheRead): its condition, the access points
\* or keys it lists and the access points it marks active.
File(st, items, act) == [st |-> st, items |-> items, act |-> act]
Missing == File("missing", {}, {})

CacheFiles == {"latest", "session", "active", "known"}
CacheReads ==
  [st : {"available", "missing", "corrupt", "stale"},
   items : SUBSET (APs \union {KeyOf[ap] : ap \in APs}), act : SUBSET APs]
CacheJobs ==
  [op : {"status", "clear", "scan", "snapshot", "append"}, ap : APs \union {NONE},
   items : SUBSET APs, act : SUBSET APs]

ASSUME CacheBounds ==
  /\ Rotations \in Nat \ {0}
  /\ MaxLines \in Nat \ {0}
  /\ MaxFaults \in Nat
  /\ NONE \notin Procs
  /\ Casts \subseteq [Procs -> Seq(CacheJobs)]
  /\ Disks \subseteq [CacheFiles -> CacheReads]

VARIABLES
  disk,     \* latest.json, session.json, active-status.json, known-connections.json
  hist,     \* hist[0]: the history file; hist[i]: its i-th rotation
  lock,     \* the holder of each repository's lock file
  todo,     \* the jobs each process still has to do
  plan,     \* the writes its open transaction still has to make
  open,     \* whether the process is inside write_transaction
  lines,    \* records appended so far
  faults

diskVars == <<disk, hist>>
cacheVars == <<disk, hist, lock, todo, plan, open, lines, faults>>

Job(p) == Head(todo[p])
Repository(job) == IF job.op = "append" THEN "state" ELSE "runtime"

-----------------------------------------------------------------------------
(* Planning a transaction from what it read. *)

\* One file-system operation of a transaction.
Op(kind, file, value) == [kind |-> kind, file |-> file, value |-> value]

\* read_known_for_update: a missing or outdated file counts as empty.
KnownForUpdate(known) ==
  IF known.st = "available" THEN known.items ELSE {}

\* update_snapshot: only a readable snapshot is updated, none is created.
UpdateSnapshot(snapshot, items, act) ==
  IF snapshot.st = "available"
  THEN <<Op("write", "latest", File("available", items, act))>>
  ELSE <<>>

\* upsert_connected_access_point: the connected access point replaces its
\* entry or joins the list, and is the only active one.
Upsert(snapshot, ap) ==
  UpdateSnapshot(snapshot, snapshot.items \union {ap}, {ap})

\* mark_inactive.
MarkInactive(snapshot) == UpdateSnapshot(snapshot, snapshot.items, {})

\* cache_connected_network_status with an active access point.
StatusWrites(ap, d) ==
  <<Op("write", "active", File("available", {ap}, {ap})),
    Op("write", "known", File("available",
        KnownForUpdate(d.known) \union {KeyOf[ap]}, {}))>>
  \o Upsert(d.latest, ap)

\* The transaction gives up before its first write.
Refuses(job, d) ==
  job.op = "status" /\ job.ap # NONE /\ d.known.st = "corrupt"

\* rotate_files: drop the oldest, shift the others from the oldest down, then
\* move the current file.
RotationOps ==
  [i \in 1..(Rotations + 1) |->
     IF i = 1 THEN Op("remove", Rotations, 0) ELSE Op("rename", Rotations + 1 - i, 0)]

\* append_json_line_with_rotation: an empty file is never rotated.
HistoryOps ==
  Append(IF Len(hist[0]) > 0 /\ Len(hist[0]) + 1 > MaxLines THEN RotationOps ELSE <<>>,
         Op("append", 0, 0))

\* The writes of a job's transaction, in order.
Writes(job, d) ==
  CASE job.op = "status" /\ job.ap # NONE -> StatusWrites(job.ap, d)
    [] job.op = "status" /\ job.ap = NONE ->      \* not connected
         <<Op("write", "active", File("available", {}, {}))>> \o MarkInactive(d.latest)
    [] job.op = "clear" ->                        \* clear_active_connection_cache
         <<Op("write", "active", Missing)>> \o MarkInactive(d.latest)
    [] job.op = "scan" ->                         \* write_live_scan_snapshot(false, ..)
         <<Op("write", "latest", File("available", job.items, job.act)),
           Op("write", "session", File("available", job.items, job.act))>>
    [] job.op = "snapshot" ->                     \* write_snapshot after a rescan
         <<Op("write", "latest", File("available", job.items, job.act))>>
    [] job.op = "append" -> HistoryOps

-----------------------------------------------------------------------------
(* Transactions. *)

CacheInit ==
  /\ disk \in Disks
  /\ hist = [i \in 0..Rotations |-> <<>>]
  /\ lock = [r \in {"runtime", "state"} |-> NONE]
  /\ todo \in Casts
  /\ plan = [p \in Procs |-> <<>>]
  /\ open = [p \in Procs |-> FALSE]
  /\ lines = 0
  /\ faults = 0

\* Mutant: the lock is not waited for.
LocksFreely(p) == todo[p] # <<>> /\ ~open[p]

\* lock_exclusive blocks until no other process holds the lock.
CanLock(p) ==
  /\ todo[p] # <<>>
  /\ ~open[p]
  /\ lock[Repository(Job(p))] = NONE

\* write_transaction: take the lock, read what the operation reads, decide.
\* A corrupt list of known connections ends it before anything is written.
Begin(p) ==
  /\ CanLock(p)
  /\ IF Refuses(Job(p), disk)
     THEN /\ todo' = [todo EXCEPT ![p] = Tail(@)]
          /\ UNCHANGED <<plan, open, lock>>
     ELSE /\ plan' = [plan EXCEPT ![p] = Writes(Job(p), disk)]
          /\ open' = [open EXCEPT ![p] = TRUE]
          /\ lock' = [lock EXCEPT ![Repository(Job(p))] = p]
          /\ UNCHANGED todo
  /\ UNCHANGED <<disk, hist, lines, faults>>

\* rename_if_exists, remove_file_if_exists, append_private_file.
Applied(op) ==
  CASE op.kind = "remove" -> [hist EXCEPT ![op.file] = <<>>]
    [] op.kind = "rename" ->
         IF hist[op.file] = <<>> THEN hist
         ELSE [hist EXCEPT ![op.file] = <<>>, ![op.file + 1] = hist[op.file]]
    [] op.kind = "append" -> [hist EXCEPT ![0] = Append(@, lines + 1)]

\* The next write of the transaction: write_json_atomic or a history step.
WriteFile(p) ==
  /\ plan[p] # <<>>
  /\ LET op == Head(plan[p])
     IN /\ IF op.kind = "write"
           THEN disk' = [disk EXCEPT ![op.file] = op.value] /\ UNCHANGED hist
           ELSE hist' = Applied(op) /\ UNCHANGED disk
        /\ lines' = IF op.kind = "append" THEN lines + 1 ELSE lines
  /\ plan' = [plan EXCEPT ![p] = Tail(@)]
  /\ UNCHANGED <<lock, todo, open, faults>>

\* The transaction is over: the lock file is closed.
Released(p) ==
  /\ lock' = [lock EXCEPT ![Repository(Job(p))] = IF @ = p THEN NONE ELSE @]
  /\ open' = [open EXCEPT ![p] = FALSE]
  /\ plan' = [plan EXCEPT ![p] = <<>>]

Commit(p) ==
  /\ open[p] /\ plan[p] = <<>>
  /\ Released(p)
  /\ todo' = [todo EXCEPT ![p] = Tail(@)]
  /\ UNCHANGED <<disk, hist, lines, faults>>

\* A write fails: the error ends the transaction, and its callers carry on
\* (the writes made so far stay).
WriteFails(p) ==
  /\ plan[p] # <<>> /\ faults < MaxFaults
  /\ Released(p)
  /\ todo' = [todo EXCEPT ![p] = Tail(@)]
  /\ faults' = faults + 1
  /\ UNCHANGED <<disk, hist, lines>>

\* The process dies inside a transaction; the kernel drops its lock.
Die(p) ==
  /\ open[p] /\ faults < MaxFaults
  /\ Released(p)
  /\ todo' = [todo EXCEPT ![p] = <<>>]
  /\ faults' = faults + 1
  /\ UNCHANGED <<disk, hist, lines>>

CacheNext == \E p \in Procs :
  Begin(p) \/ WriteFile(p) \/ Commit(p) \/ WriteFails(p) \/ Die(p)

CacheSpec == CacheInit /\ [][CacheNext]_cacheVars

-----------------------------------------------------------------------------

\* The history kept on disk is an unbroken run that ends with the last record
\* appended, file i holding the records after edge[i + 1] up to edge[i]; and
\* while nothing was interrupted, the run holds every record until Rotations
\* full files of newer ones exist.
HistoryContiguous ==
  \E edge \in [0..(Rotations + 1) -> 0..lines] :
    /\ edge[0] = lines
    /\ \A i \in 0..Rotations :
         /\ edge[i + 1] + Len(hist[i]) = edge[i]
         /\ \A k \in 1..Len(hist[i]) : hist[i][k] = edge[i + 1] + k
    /\ faults = 0 /\ lock["state"] = NONE =>
         edge[Rotations + 1] = 0 \/ lines - edge[Rotations + 1] > Rotations * MaxLines

\* Nothing recorded is lost, whichever processes write at once and wherever one
\* of them dies or a write fails.  The known connections only grow, and a file
\* that cannot be parsed is never replaced (cache_connected_network_status
\* rewrites the file under the lock; read_known_for_update refuses a corrupt
\* one).  The history loses its oldest records only, also when a rotation was
\* interrupted and started again (rotate_files,
\* append_json_line_with_rotation).
RecordsKept ==
  [][/\ disk.known.st = "available" =>
          /\ disk'.known.st = "available"
          /\ disk.known.items \subseteq disk'.known.items
     /\ disk.known.st = "corrupt" => disk'.known = disk.known
     /\ HistoryContiguous']_cacheVars
=============================================================================
