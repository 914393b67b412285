------------------------------ MODULE Snapshots ------------------------------
(* wifi.networks and wifi.scan over the cached snapshot: how a request      *)
(* chooses between NetworkManager and the cache (application.rs,            *)
(* cache.rs), what a scan lists, caches and reports, and the gate that      *)
(* admits one background refresh at a time (daemon_runtime.rs).             *)
EXTENDS Naturals, Sequences, FiniteSets

CONSTANTS
    Readers, Scanners,  \* threads of wifi.networks and of wifi.scan requests
    SnapCasts,          \* the requests of one behaviour: reader -> [cached, refresh]
                        \* and scanner -> [strict, cache]
    StaleAfter,         \* NETWORK_SNAPSHOT_STALE_AFTER, in ticks
    MaxAge,             \* bound: the clock
    MaxScanFaults       \* bound: refusals, failures and panics

Refresh == "refresh"
Scans == Scanners \cup {Refresh}

ASSUME SnapshotAssumption ==
    /\ StaleAfter \in Nat /\ Refresh \notin Scanners
    /\ \A cast \in SnapCasts :
         /\ \A r \in Readers : cast[r].cached \in BOOLEAN /\ cast[r].refresh \in BOOLEAN
         /\ \A x \in Scanners : cast[x].strict \in BOOLEAN /\ cast[x].cache \in BOOLEAN
    /\ MaxAge \in Nat /\ MaxScanFaults \in Nat

VARIABLES
    age,        \* the clock
    saved,      \* latest.json: [st, at]
    pending,    \* cache_refresh_pending
    work,       \* refresh jobs queued on the work lane
    reader,     \* each networks request
    scanner,    \* each scan, the background refresh included
    mishaps,    \* bound used up
    panicked    \* history: a refresh job has panicked

snapVars == <<age, saved, pending, work, reader, scanner, mishaps, panicked>>

NoScan == [pc |-> "idle", strict |-> FALSE, cache |-> TRUE, cancel |-> FALSE, told |-> <<>>]
NoRead == [pc |-> "start", source |-> "none", stale |-> FALSE, at |-> 0, read |-> 0,
           requested |-> FALSE, cached |-> FALSE, refresh |-> FALSE]

ReadsOf(cast) ==
    [r \in Readers |-> [NoRead EXCEPT !.cached = cast[r].cached, !.refresh = cast[r].refresh]]
ScansOf(cast) ==
    [x \in Scans |-> IF x = Refresh THEN NoScan
                     ELSE [NoScan EXCEPT !.pc = "start", !.strict = cast[x].strict,
                                         !.cache = cast[x].cache]]

SnapInit ==
    /\ age = 0 /\ mishaps = 0 /\ panicked = FALSE
    /\ saved \in [st : {"available", "unavailable"}, at : {0}]
    /\ pending = FALSE /\ work = 0
    /\ \E cast \in SnapCasts : reader = ReadsOf(cast) /\ scanner = ScansOf(cast)

Mishap == mishaps < MaxScanFaults /\ mishaps' = mishaps + 1

SnapTick ==
    /\ age < MaxAge
    /\ age' = age + 1
    /\ UNCHANGED <<saved, pending, work, reader, scanner, mishaps, panicked>>

-----------------------------------------------------------------------------
(* The background refresh.                                                  *)

(* schedule_requested_refresh, and the exchange on the flag: a request that *)
(* finds it set is coalesced, though the holder's submission may yet fail.  *)
RefreshWanted(r, needed) == reader[r].refresh /\ needed

Schedules(r, needed) == RefreshWanted(r, needed) /\ ~pending

(* The rest of schedule_cache_refresh: submit needs a cached scope and room *)
(* on the work lane; a refused submission puts the flag back.               *)
\* Mutant: a refused submission leaves the gate shut.
StaysShut == TRUE

Reopened == FALSE

SubmitRefresh(r) ==
    /\ reader[r].pc = "submit"
    /\ reader' = [reader EXCEPT ![r].pc = "answer"]
    /\ \/ work' = work + 1 /\ UNCHANGED <<pending, mishaps>>
       \/ Mishap /\ pending' = Reopened /\ UNCHANGED work
    /\ UNCHANGED <<age, saved, scanner, panicked>>

(* A worker of the lane takes the job. *)
RefreshStarts ==
    /\ work > 0 /\ scanner[Refresh].pc = "idle"
    /\ work' = work - 1
    /\ scanner' = [scanner EXCEPT ![Refresh].pc = "start"]
    /\ UNCHANGED <<age, saved, pending, reader, mishaps, panicked>>

(* Success or failure, the job's last statement reopens the gate. *)
RefreshEnds ==
    /\ scanner[Refresh].pc \in {"complete", "failed"}
    /\ scanner' = [scanner EXCEPT ![Refresh] = NoScan]
    /\ pending' = FALSE
    /\ UNCHANGED <<age, saved, work, reader, mishaps, panicked>>

(* A panic is caught by the lane; the flag is not behind a guard. *)
RefreshPanics ==
    /\ scanner[Refresh].pc \notin {"idle", "complete", "failed"}
    /\ Mishap
    /\ panicked' = TRUE
    /\ scanner' = [scanner EXCEPT ![Refresh] = NoScan]
    /\ UNCHANGED <<age, saved, pending, work, reader>>

-----------------------------------------------------------------------------
(* wifi.networks.                                                           *)

Age == age - saved.at
Stale == Age > StaleAfter

NetworksStart(r) ==
    /\ reader[r].pc = "start"
    /\ reader' = [reader EXCEPT ![r].pc = IF reader[r].cached THEN "cache" ELSE "live"]
    /\ UNCHANGED <<age, saved, pending, work, scanner, mishaps, panicked>>

(* read_cached_networks: a readable snapshot is the answer, however old. *)
ReadCached(r) ==
    /\ reader[r].pc = "cache" /\ saved.st = "available"
    /\ reader' = [reader EXCEPT ![r].pc = IF Schedules(r, Stale) THEN "submit" ELSE "answer",
                                ![r].source = "cache",
                                ![r].stale = Stale, ![r].at = saved.at,
                                ![r].read = age, ![r].requested = RefreshWanted(r, Stale)]
    /\ pending' = (pending \/ Schedules(r, Stale))
    /\ UNCHANGED <<age, saved, work, scanner, mishaps, panicked>>

(* Missing, of another version or corrupt: NetworkManager is read. *)
CacheUnavailable(r) ==
    /\ reader[r].pc = "cache" /\ saved.st # "available"
    /\ reader' = [reader EXCEPT ![r].pc = "live"]
    /\ UNCHANGED <<age, saved, pending, work, scanner, mishaps, panicked>>

(* load_networks, the rest: the listing, then the refresh it may ask for. *)
ListLive(r) ==
    /\ reader[r].pc = "live"
    /\ \/ /\ reader' = [reader EXCEPT ![r].pc = IF Schedules(r, TRUE) THEN "submit"
                                                ELSE "answer",
                                      ![r].source = "networkmanager",
                                      ![r].requested = RefreshWanted(r, TRUE)]
          /\ pending' = (pending \/ Schedules(r, TRUE))
          /\ UNCHANGED mishaps
       \/ /\ Mishap
          /\ reader' = [reader EXCEPT ![r].pc = "failed"]
          /\ UNCHANGED pending
    /\ UNCHANGED <<age, saved, work, scanner, panicked>>

-----------------------------------------------------------------------------
(* A scan: scan_prepared_inner and its parts.                               *)

Tell(x, event) == [scanner EXCEPT ![x].told = Append(@, event)]

(* A failure ends the scan with its one error event. *)
ScanFails(x, event) == [Tell(x, event) EXCEPT ![x].pc = "failed"]

ScanBegins(x) ==
    /\ scanner[x].pc = "start"
    /\ scanner' = IF scanner[x].cancel THEN ScanFails(x, "cancelled")
                  ELSE [Tell(x, "status") EXCEPT ![x].pc = "scan"]
    /\ UNCHANGED <<age, saved, pending, work, reader, mishaps, panicked>>

(* scan_warning: NetworkManager's scan fails; a strict request fails with   *)
(* it, another goes on with what is known.                                  *)
ScanWarning(x) ==
    /\ scanner[x].pc = "scan"
    /\ \/ /\ scanner' = [scanner EXCEPT ![x].pc = "check"]
          /\ UNCHANGED mishaps
       \/ /\ scanner[x].cancel
          /\ scanner' = ScanFails(x, "cancelled")
          /\ UNCHANGED mishaps
       \/ /\ Mishap /\ ~scanner[x].cancel
          /\ scanner' = IF scanner[x].strict
                        THEN [scanner EXCEPT ![x].told = @ \o <<"warning", "error">>,
                                             ![x].pc = "failed"]
                        ELSE [Tell(x, "warning") EXCEPT ![x].pc = "check"]
    /\ UNCHANGED <<age, saved, pending, work, reader, panicked>>

(* The last check of the cancellation; then list_all_access_points. *)
ScanLists(x) ==
    /\ scanner[x].pc = "check"
    /\ \/ /\ scanner[x].cancel
          /\ scanner' = ScanFails(x, "cancelled")
          /\ UNCHANGED mishaps
       \/ /\ ~scanner[x].cancel
          /\ scanner' = [scanner EXCEPT ![x].pc = "save"]
          /\ UNCHANGED mishaps
       \/ /\ ~scanner[x].cancel /\ Mishap
          /\ scanner' = ScanFails(x, "error")
    /\ UNCHANGED <<age, saved, pending, work, reader, panicked>>

(* write_live_scan_snapshot, when the request caches: stamped as written,   *)
(* not as listed. The write or the event after it may fail.                 *)
ScanSaves(x) ==
    /\ scanner[x].pc = "save"
    /\ \/ /\ scanner[x].cache
          /\ saved' = [st |-> "available", at |-> age]
          /\ scanner' = [Tell(x, "snapshot") EXCEPT ![x].pc = "report"]
          /\ UNCHANGED mishaps
       \/ /\ ~scanner[x].cache
          /\ scanner' = [Tell(x, "snapshot") EXCEPT ![x].pc = "report"]
          /\ UNCHANGED <<saved, mishaps>>
       \/ /\ Mishap
          /\ scanner' = ScanFails(x, "error")
          /\ \/ UNCHANGED saved
             \/ scanner[x].cache /\ saved' = [st |-> "available", at |-> age]
    /\ UNCHANGED <<age, pending, work, reader, panicked>>

(* write_complete, when the request caches, and the last event. *)
ScanCompletes(x) ==
    /\ scanner[x].pc = "report"
    /\ \/ /\ scanner' = [Tell(x, "complete") EXCEPT ![x].pc = "complete"]
          /\ UNCHANGED mishaps
       \/ /\ Mishap
          /\ scanner' = ScanFails(x, "error")
    /\ UNCHANGED <<age, saved, pending, work, reader, panicked>>

(* A client cancels its scan; the background refresh has no cancellation. *)
CancelScan(x) ==
    /\ x # Refresh /\ ~scanner[x].cancel
    /\ scanner[x].pc \notin {"complete", "failed"}
    /\ Mishap
    /\ scanner' = [scanner EXCEPT ![x].cancel = TRUE]
    /\ UNCHANGED <<age, saved, pending, work, reader, panicked>>

SnapNext ==
    \/ SnapTick \/ RefreshStarts \/ RefreshEnds \/ RefreshPanics
    \/ \E r \in Readers :
         \/ NetworksStart(r) \/ ReadCached(r) \/ CacheUnavailable(r) \/ ListLive(r)
         \/ SubmitRefresh(r)
    \/ \E x \in Scans :
         \/ ScanBegins(x) \/ ScanWarning(x) \/ ScanLists(x) \/ ScanSaves(x)
         \/ ScanCompletes(x) \/ CancelScan(x)

SnapSpec == SnapInit /\ [][SnapNext]_snapVars

-----------------------------------------------------------------------------
(* Properties.                                                              *)

(* The gate is shut exactly while one refresh is being submitted, queued or *)
(* running, unless a panic has left it shut (schedule_cache_refresh).       *)
GateFaithful ==
    LET submitting == {r \in Readers : reader[r].pc = "submit"}
        running == {x \in {Refresh} : scanner[x].pc # "idle"}
        refreshes == Cardinality(submitting) + work + Cardinality(running)
    IN /\ refreshes <= 1
       /\ refreshes = 1 => pending
       /\ pending => refreshes = 1 \/ panicked

(* wifi.networks says what it answers with: the cache only when asked to,   *)
(* called fresh only when the snapshot was written recently enough, and no  *)
(* refresh is announced for a fresh snapshot or unasked (load_networks).    *)
(* The refresh behind it is one at a time and its gate reopens; and a scan  *)
(* that reports completion has first reported its one snapshot              *)
(* (finish_scan).                                                           *)
NetworksHonest ==
    /\ GateFaithful
    /\ \A r \in Readers : reader[r].pc = "answer" =>
         /\ reader[r].source = "cache" =>
              /\ reader[r].cached
              /\ reader[r].stale <=> reader[r].read - reader[r].at > StaleAfter
              /\ reader[r].requested => reader[r].stale /\ reader[r].refresh
    /\ \A x \in Scans : LET told == scanner[x].told IN
         /\ \A i \in DOMAIN told :
              told[i] \in {"complete", "error", "cancelled"} => i = Len(told)
         /\ \A i \in DOMAIN told : told[i] = "complete" => told[i - 1] = "snapshot"
=============================================================================
