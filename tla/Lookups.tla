------------------------------ MODULE Lookups ------------------------------
(***************************************************************************)
(* Sequential jobs whose answer is assembled from several replies of a     *)
(* service that moves meanwhile:                                           *)
(*   "discard"   deleting one legacy Secret Service item, verified         *)
(*               (credential_migration.rs discard_on);                     *)
(*   "inventory" listing legacy items and the profiles they belong to      *)
(*               (credential_migration.rs legacy_inventory_on);            *)
(*   "discover"  browsing DNS-SD instances and resolving them concurrently *)
(*               (discovery.rs);                                           *)
(*   "command"   running nmcli with a timeout (command.rs).                *)
(* One job runs; the Secret Service provider, the DNS-SD peers and the     *)
(* child process are its environment.                                      *)
(***************************************************************************)
EXTENDS Naturals, FiniteSets

CONSTANTS Items,          \* Secret Service item paths
          Uuids,          \* profile UUIDs
          Wanted,         \* [path, uuid]: the identity the user named for a discard
          Instances,      \* DNS-SD instances that may answer a browse
          MaxInstances,   \* MAX_DISCOVERY_INSTANCES
          Width,          \* concurrent resolutions (buffer_unordered)
          MaxLookupMoves  \* bound on moves of the environment

ASSUME LookupBounds == MaxInstances \in Nat \ {0} /\ Width \in Nat \ {0}

LookupJobs == {"discard", "inventory", "discover", "command"}

VARIABLES
    job,      \* the job
    look,     \* its next call
    provider, \* the Secret Service instance: number of replacements so far
    items,    \* items[i] \in SUBSET of one record: [uuid, modified, locked]; {} when absent
    pinned,   \* the provider the job pinned its proxies to
    viewed,     \* what the job has read: an item snapshot, or the listed items
    assoc,    \* associations gathered per profile, and those still to query
    found,    \* discovery: instances of the browse reply still to start, and running
    results,  \* discovery: [ok, warned, incomplete]
    child,    \* command: "none", "running", "ok", "error" or "killed"
    pipes,    \* command: pipes that have not reached end of file
    late,     \* the deadline or timeout has passed
    halt,     \* the cancellation flag
    answer,   \* "none", then the job's result
    deleted,  \* ghost: record of the item the Delete call removed
    lookMoves

lookVars == <<job, look, provider, items, pinned, viewed, assoc, found, results, child, pipes,
              late, halt, answer, deleted, lookMoves>>

Attributes == [uuid : Uuids, modified : 0..1, locked : BOOLEAN]
Unasked == <<provider, items, pinned, viewed, assoc, found, results, child, pipes, late, halt, deleted>>

LookInit ==
    /\ job \in LookupJobs
    /\ look = "start"
    /\ provider = 0
    /\ items \in IF job \in {"discard", "inventory"}
                 THEN [Items -> {{}} \cup {{[uuid |-> u, modified |-> 0, locked |-> l]} :
                                             u \in Uuids, l \in BOOLEAN}]
                 ELSE {[i \in Items |-> {}]}
    /\ pinned = 0
    /\ viewed = {} /\ assoc = [done |-> {}, left |-> Uuids]
    /\ found = [queued |-> {}, running |-> {}]
    /\ results = [ok |-> {}, warned |-> {}, truncated |-> FALSE, incomplete |-> FALSE]
    /\ child = "none" /\ pipes = {}
    /\ late = FALSE /\ halt = FALSE
    /\ answer = "none" /\ deleted = {}
    /\ lookMoves = 0

Answer(a) == look' = "done" /\ answer' = a
Continue(place) == look' = place /\ UNCHANGED answer
Pinned == pinned = provider

----------------------------------------------------------------------------
(* discard_on *)

\* SearchItems for the exact attributes, on the provider pinned first.
Matches(i) == items[i] # {} /\ \A a \in items[i] : a.uuid = Wanted.uuid

DiscardSearch ==
    /\ job = "discard" /\ look = "start"
    /\ pinned' = provider
    /\ IF Matches(Wanted.path) /\ \A a \in items[Wanted.path] : ~a.locked
       THEN Continue("first") ELSE Answer("refused")
    /\ UNCHANGED <<job, provider, items, viewed, assoc, found, results, child, pipes, late, halt,
                   deleted, lookMoves>>

\* checked_item: attributes as expected and not locked, or the discard ends.
Checked(i) == Pinned /\ Matches(i) /\ \A a \in items[i] : ~a.locked

DiscardFirst ==
    /\ job = "discard" /\ look = "first"
    /\ IF Checked(Wanted.path)
       THEN Continue("second") /\ viewed' = items[Wanted.path]
       ELSE Answer("refused") /\ UNCHANGED viewed
    /\ UNCHANGED <<job, provider, items, pinned, assoc, found, results, child, pipes, late, halt,
                   deleted, lookMoves>>

\* Read again: the whole metadata must be unchanged and the provider the same.
DiscardSecond ==
    /\ job = "discard" /\ look = "second"
    /\ IF Checked(Wanted.path) /\ items[Wanted.path] = viewed
       THEN Continue("delete") ELSE Answer("refused")
    /\ UNCHANGED <<job, lookMoves>> /\ UNCHANGED Unasked

\* Delete: done, or waiting for a prompt, or not acknowledged.
DiscardDelete ==
    /\ job = "discard" /\ look = "delete"
    /\ \/ /\ Pinned /\ items[Wanted.path] # {}
          /\ deleted' = items[Wanted.path]
          /\ items' = [items EXCEPT ![Wanted.path] = {}]
          /\ Continue("confirm") \/ Answer("unconfirmed")
       \/ Answer("unconfirmed") /\ UNCHANGED <<items, deleted>>
    /\ UNCHANGED <<job, provider, pinned, viewed, assoc, found, results, child, pipes, late, halt,
                   lookMoves>>

\* Search again: the item is gone from the same provider.
Gone == Pinned /\ ~Matches(Wanted.path)

DiscardConfirm ==
    /\ job = "discard" /\ look = "confirm"
    /\ Answer(IF Gone THEN "ok" ELSE "unconfirmed")
    /\ UNCHANGED <<job, lookMoves>> /\ UNCHANGED Unasked

----------------------------------------------------------------------------
(* legacy_inventory_on *)

\* List every item of the application (and read its attributes).
ListItems ==
    /\ job = "inventory" /\ look = "start"
    /\ pinned' = provider
    /\ viewed' = {i \in Items : items[i] # {}}
    /\ Continue("query")
    /\ UNCHANGED <<job, provider, items, assoc, found, results, child, pipes, late, halt, deleted,
                   lookMoves>>

\* One query per profile; an item that was not listed ends the inventory.
QueryProfile ==
    /\ job = "inventory" /\ look = "query"
    /\ \E u \in assoc.left :
         LET hits == {i \in Items : \E a \in items[i] : a.uuid = u}
         IN IF Pinned /\ hits \subseteq viewed
            THEN /\ assoc' = [done |-> assoc.done \cup {<<u, i>> : i \in hits},
                              left |-> assoc.left \ {u}]
                 /\ Continue("query")
            ELSE Answer("unavailable") /\ UNCHANGED assoc
    /\ UNCHANGED <<job, provider, items, pinned, viewed, found, results, child, pipes, late, halt,
                   deleted, lookMoves>>

\* The owner fence, after which the associations are published together.
Publish ==
    /\ job = "inventory" /\ look = "query" /\ assoc.left = {}
    /\ Answer(IF Pinned THEN "ok" ELSE "unavailable")
    /\ UNCHANGED <<job, lookMoves>> /\ UNCHANGED Unasked

----------------------------------------------------------------------------
(* discovery.rs browse and resolve_instances *)

\* ResolveRecord answers with instances (at most MaxInstances are kept, with a
\* warning for the rest), reports none, fails or times out.
Browse ==
    /\ job = "discover" /\ look = "start"
    /\ \/ \E reply \in SUBSET Instances :
            \E kept \in SUBSET reply :
              /\ Cardinality(kept) = IF Cardinality(reply) > MaxInstances THEN MaxInstances
                                     ELSE Cardinality(reply)
              /\ found' = [queued |-> kept, running |-> {}]
              /\ results' = [results EXCEPT !.truncated = kept # reply]
              /\ viewed' = reply
              /\ Continue("resolve")
       \/ Answer("error") /\ UNCHANGED <<found, results, viewed>>
    /\ UNCHANGED <<job, provider, items, pinned, assoc, child, pipes, late, halt, deleted, lookMoves>>

\* buffer_unordered starts the next resolution while fewer than Width run.
StartResolution ==
    /\ look = "resolve" /\ Cardinality(found.running) < Width
    /\ \E i \in found.queued :
         found' = [queued |-> found.queued \ {i}, running |-> found.running \cup {i}]
    /\ UNCHANGED <<job, look, answer, provider, items, pinned, viewed, assoc, results, child, pipes,
                   late, halt, deleted, lookMoves>>

\* The loop takes the next finished resolution unless the deadline has passed.
TakeResolution ==
    /\ look = "resolve" /\ ~late
    /\ \E i \in found.running :
         /\ found' = [found EXCEPT !.running = @ \ {i}]
         /\ \/ results' = [results EXCEPT !.ok = @ \cup {i}]
            \/ results' = [results EXCEPT !.warned = @ \cup {i}]
    /\ UNCHANGED <<job, look, answer, provider, items, pinned, viewed, assoc, child, pipes, late,
                   halt, deleted, lookMoves>>

\* Mutant: the deadline ends the loop without a word.
StopsSilently == results' = results

\* Past the deadline the outstanding resolutions are dropped, with a warning.
Incomplete == results' = [results EXCEPT !.incomplete = TRUE]

StopAtDeadline ==
    /\ look = "resolve" /\ late
    /\ Incomplete
    /\ Answer("ok")
    /\ UNCHANGED <<job, provider, items, pinned, viewed, assoc, found, child, pipes, late, halt,
                   deleted, lookMoves>>

AllResolved ==
    /\ look = "resolve" /\ ~late /\ found.queued = {} /\ found.running = {}
    /\ Answer("ok")
    /\ UNCHANGED <<job, lookMoves>> /\ UNCHANGED Unasked

----------------------------------------------------------------------------
(* SystemCommandRunner::run *)

Spawn ==
    /\ job = "command" /\ look = "start"
    /\ \/ halt /\ Answer("cancelled") /\ UNCHANGED <<child, pipes>>
       \/ ~halt /\ Answer("failed") /\ UNCHANGED <<child, pipes>>
       \/ ~halt /\ Continue("wait") /\ child' = "running" /\ pipes' = {"stdout", "stderr"}
    /\ UNCHANGED <<job, provider, items, pinned, viewed, assoc, found, results, late, halt, deleted,
                   lookMoves>>

\* One round of wait_for_command: stop_reason comes before try_wait, so a child
\* that has just exited may still be reported as cancelled or timed out.
WaitRound ==
    /\ look = "wait"
    /\ \/ /\ halt \/ late
          /\ child' = IF child = "running" THEN "killed" ELSE child
          /\ Continue(IF halt THEN "cancel" ELSE "timeout")
       \/ /\ ~halt /\ ~late /\ child # "running"
          /\ Continue("collect") /\ UNCHANGED child
    /\ UNCHANGED <<job, provider, items, pinned, viewed, assoc, found, results, pipes, late, halt,
                   deleted, lookMoves>>

\* A reader thread reaches end of file once the child is gone.
PipeCloses ==
    /\ child \notin {"none", "running"}
    /\ \E p \in pipes : pipes' = pipes \ {p}
    /\ UNCHANGED <<job, look, answer, provider, items, pinned, viewed, assoc, found, results, child,
                   late, halt, deleted, lookMoves>>

\* collect_output joins both readers before any result is returned; a reader
\* that failed makes the command fail.
Collect ==
    /\ look \in {"collect", "cancel", "timeout"} /\ pipes = {}
    /\ \/ Answer(IF look = "cancel" THEN "cancelled" ELSE IF look = "timeout" THEN "timeout"
                 ELSE IF child = "ok" THEN "ok" ELSE "failed")
       \/ Answer("failed")
    /\ UNCHANGED <<job, lookMoves>> /\ UNCHANGED Unasked

----------------------------------------------------------------------------
(* The environment *)

\* Items are edited, removed or stored, and the provider is replaced.
ProviderMoves ==
    /\ job \in {"discard", "inventory"} /\ look # "done"
    /\ lookMoves < MaxLookupMoves /\ lookMoves' = lookMoves + 1
    /\ \/ provider' = provider + 1 /\ UNCHANGED items
       \/ /\ \E i \in Items : \E new \in {{}} \cup {{a} : a \in Attributes} :
               items' = [items EXCEPT ![i] = new]
          /\ UNCHANGED provider
    /\ UNCHANGED <<job, look, answer, pinned, viewed, assoc, found, results, child, pipes, late, halt,
                   deleted>>

ChildExits ==
    /\ child = "running"
    /\ child' \in {"ok", "error"}
    /\ UNCHANGED <<job, look, answer, provider, items, pinned, viewed, assoc, found, results, pipes,
                   late, halt, deleted, lookMoves>>

DeadlinePasses ==
    /\ job \in {"discover", "command"} /\ ~late /\ look # "done"
    /\ late' = TRUE
    /\ UNCHANGED <<job, look, answer, provider, items, pinned, viewed, assoc, found, results, child,
                   pipes, halt, deleted, lookMoves>>

CancelCommand ==
    /\ job = "command" /\ ~halt /\ look # "done"
    /\ halt' = TRUE
    /\ UNCHANGED <<job, look, answer, provider, items, pinned, viewed, assoc, found, results, child,
                   pipes, late, deleted, lookMoves>>

LookNext ==
    \/ DiscardSearch \/ DiscardFirst \/ DiscardSecond \/ DiscardDelete \/ DiscardConfirm
    \/ ListItems \/ QueryProfile \/ Publish
    \/ Browse \/ StartResolution \/ TakeResolution \/ StopAtDeadline \/ AllResolved
    \/ Spawn \/ WaitRound \/ PipeCloses \/ Collect
    \/ ProviderMoves \/ ChildExits \/ DeadlinePasses \/ CancelCommand

LookSpec == LookInit /\ [][LookNext]_lookVars

----------------------------------------------------------------------------
(* Properties *)

\* A result claims no more than what was observed.  A confirmed discard
\* removed an item from the provider it verified, and that item was the one
\* named unless it changed after the second check; a published inventory
\* queried every profile and links only listed items; a discovery result
\* accounts for every instance of the browse reply or says that it is
\* incomplete; a successful command ended by itself, its output read whole.
AnswersHonest ==
    answer = "ok" =>
        CASE job = "discard" -> /\ deleted # {} /\ Gone
                                /\ lookMoves = 0 => deleted = viewed
          [] job = "inventory" -> assoc.left = {} /\ \A pair \in assoc.done : pair[2] \in viewed
          [] job = "discover" -> \/ results.incomplete
                                 \/ results.truncated
                                 \/ results.ok \cup results.warned = viewed
          [] job = "command" -> child = "ok" /\ pipes = {}
=============================================================================
