---------------------------- MODULE ProfileStore ----------------------------
(* Writers of NetworkManager profiles: the optimistic profile edits         *)
(* (credential_writer) behind autoconnect, band, credential and retention   *)
(* changes, the confirmation that a prompted credential was stored          *)
(* (daemon_secret/storage), and disconnect-and-forget. They share the       *)
(* profiles with each other, with other clients and with NetworkManager     *)
(* itself, which may be restarted at any time.                              *)
EXTENDS Naturals, FiniteSets

CONSTANTS
    Workers, Profiles,   \* profiles of one SSID; edits address Target
    Target, Jobs,        \* Jobs: the functions of jobs the workers run
    MaxMoves, NONE

Kinds == {"autoconnect", "band", "credentials", "remember", "drop", "confirm", "forget"}
(* What a job reports when it ends. *)
Results == {"saved", "deleted", "volatile", "refused", "unrecovered", "recovered", "unchanged",
            "selected", "unconfirmed", "stored", "cancellation-pending", "disconnect-pending",
            "error", "not-saved", "forgotten", "failed", "partial"}

ASSUME StoreBounds ==
    /\ MaxMoves \in Nat /\ Target \in Profiles
    /\ \A j \in Jobs : j \in [Workers -> Kinds]
    /\ NONE \notin Profiles /\ "elsewhere" \notin Profiles /\ NONE \notin Results \cup {"old", "new", "other"}

VARIABLES
    prof,     \* NetworkManager's profiles: in memory and on disk (external)
    link,     \* the Wi-Fi device: profile, state and band in use (external)
    owner,    \* the running NetworkManager instance (external)
    connects, \* connect requests in flight for the SSID: none, running, stuck
    txn,      \* Nm::profile_transaction
    job,      \* per worker: kind, pc, what it read, its result
    moves

storeVars == <<prof, link, owner, connects, txn, job, moves>>

Settings == [band : {"auto", "5GHz"}, auto : BOOLEAN, note : 0..1,
             flags : {"system", "agent", "session"}, secret : {"old", "new", "other", NONE}]

(* GetSettings never returns secrets. *)
Public(s) == [s EXCEPT !.secret = NONE]
Gone == [here |-> FALSE, ver |-> 0, mem |-> NONE, disk |-> NONE, staged |-> FALSE,
         volatile |-> FALSE]
Link(p, s, b) == [profile |-> p, state |-> s, band |-> b]
Disconnected == Link(NONE, "down", "auto")

Idle(kind) == [kind |-> kind, pc |-> "start", owner |-> 0, ver |-> 0, base |-> NONE,
               edit |-> NONE, orig |-> NONE, rollback |-> FALSE, active |-> FALSE,
               todo |-> {}, left |-> {}, gone |-> {}, landed |-> NONE, result |-> NONE]

StoreInit ==
    /\ \E flags \in {"system", "agent", "session"}, volatile \in BOOLEAN :
         LET s == [band |-> "auto", auto |-> TRUE, note |-> 0, flags |-> flags,
                   secret |-> IF flags = "agent" THEN NONE ELSE "old"]
             d == IF flags = "system" THEN s ELSE Public(s)
         IN  prof = [p \in Profiles |->
                      [here |-> TRUE, ver |-> 1, mem |-> s,
                       disk |-> IF volatile THEN NONE ELSE d, staged |-> FALSE,
                       volatile |-> volatile]]
    /\ link \in {Disconnected, Link(Target, "up", "auto"), Link(Target, "activating", "auto")}
    /\ owner = 1 /\ txn = NONE /\ moves = 0
    /\ job \in {[w \in Workers |-> Idle(j[w])] : j \in Jobs}
    /\ connects \in IF \E w \in Workers : job[w].kind = "forget" THEN {"none", "running"}
                    ELSE {"none"}

-----------------------------------------------------------------------------
(* NetworkManager's side of a call (external). A call goes to the pinned    *)
(* unique owner, so it fails once NetworkManager was replaced.              *)

Now == prof[Target]
Reaches(w) == job[w].owner = owner /\ Now.here
Durable(s) == IF s.flags = "system" THEN s ELSE Public(s)

(* Update2 to disk: settings without secrets leave the secret alone. *)
Stored(p, s) ==
    LET mem == IF s.secret = NONE THEN [s EXCEPT !.secret = prof[p].mem.secret] ELSE s
    IN  [prof[p] EXCEPT !.ver = @ + 1, !.mem = mem, !.disk = Durable(mem),
                        !.staged = FALSE, !.volatile = FALSE]
\* Mutant: the write does not carry the version the snapshot was read at.
UpToDateBlindly(w) == Reaches(w)
UpToDate(w) == Reaches(w) /\ Now.ver = job[w].ver

Goto(w, pc) == job' = [job EXCEPT ![w].pc = pc]
(* An ended job keeps its kind and result; its guards are dropped. *)
End(w, result) ==
    /\ job' = [job EXCEPT ![w] = [Idle(@.kind) EXCEPT !.pc = "done", !.result = result,
                                                      !.landed = job[w].landed,
                                                      !.gone = job[w].gone]]
    /\ txn' = IF txn = w THEN NONE ELSE txn

-----------------------------------------------------------------------------
(* begin_profile_edit and commit_credential_edit.                           *)

Editing == {"autoconnect", "band", "credentials", "remember", "drop"}

(* begin_profile_transaction, and the owner pinned for the work. *)
Begin(w) ==
    /\ job[w].pc = "start" /\ job[w].kind \in Editing
    /\ txn = NONE
    /\ txn' = w
    /\ job' = [job EXCEPT ![w].pc = IF job[w].kind = "band" THEN "status" ELSE "snapshot",
                          ![w].owner = owner]
    /\ UNCHANGED <<prof, link, owner, connects, moves>>

(* Which profiles may be edited: durable and unstaged ones, or the volatile *)
(* one the caller explicitly asked to remember.                             *)
Editable(w) ==
    \/ ~Now.staged /\ ~Now.volatile
    \/ job[w].kind = "remember" /\ Now.volatile

(* What each operation writes into the settings it read. *)
Mutated(w, s) ==
    CASE job[w].kind = "autoconnect" -> [s EXCEPT !.auto = FALSE]
      [] job[w].kind = "band" ->
           [s EXCEPT !.band = IF job[w].rollback THEN job[w].orig.band ELSE "5GHz"]
      [] job[w].kind = "credentials" ->
           [s EXCEPT !.secret = "new", !.flags = IF @ = "agent" THEN "system" ELSE @]
      [] job[w].kind \in {"remember", "drop"} -> s

(* The checks an operation makes on its snapshot before it edits. *)
Acceptable(w) ==
    CASE job[w].kind = "band" /\ job[w].rollback -> Now.mem.band = "5GHz"
      [] job[w].kind = "band" /\ ~job[w].rollback -> Now.mem.band = job[w].orig.band
      [] job[w].kind = "remember" -> Now.mem.flags # "agent"
      [] job[w].kind \in {"autoconnect", "credentials", "drop"} -> TRUE

(* The version is read before and after the settings, so that a snapshot is *)
(* one state of the profile. base is what it really was, secret included.   *)
Snapshot(w) ==
    /\ job[w].pc = "snapshot"
    /\ IF Reaches(w) /\ Acceptable(w) /\ (Editable(w) \/ job[w].kind = "drop")
       THEN /\ job' = [job EXCEPT ![w].pc = IF job[w].kind = "drop" THEN "write" ELSE "check",
                                  ![w].ver = Now.ver, ![w].base = Now.mem,
                                  ![w].edit = Mutated(w, Public(Now.mem))]
            /\ UNCHANGED txn
       ELSE End(w, IF job[w].rollback THEN "unrecovered" ELSE "refused")
    /\ UNCHANGED <<prof, link, owner, connects, moves>>

Failed(w) == End(w, IF job[w].rollback THEN "unrecovered" ELSE "refused")

(* validate_policy_changes: a temporary secret stays temporary, ownership   *)
(* only moves away from agents and only with a supplied credential.         *)
PolicyKept(w) ==
    LET before == job[w].base.flags  after == job[w].edit.flags IN
    /\ before = "session" => after = "session"
    /\ after = "agent" => before = "agent"
    /\ (before = "agent" /\ after # "agent") => job[w].edit.secret # NONE

Check(w) ==
    /\ job[w].pc = "check"
    /\ IF UpToDate(w) /\ PolicyKept(w)
       THEN /\ Goto(w, IF job[w].edit.secret # NONE \/ job[w].kind = "remember"
                       THEN "secrets" ELSE "fence")
            /\ UNCHANGED txn
       ELSE Failed(w)
    /\ UNCHANGED <<prof, link, owner, connects, moves>>

(* preserve_secrets: GetSecrets increments the version once, then exactly   *)
(* that version is expected.                                                *)
GetSecrets(w) ==
    /\ job[w].pc = "secrets"
    /\ \/ /\ Reaches(w)
          /\ prof' = [prof EXCEPT ![Target].ver = @ + 1]
          /\ job' = [job EXCEPT ![w].pc = "merge", ![w].orig = IF job[w].kind = "band" THEN @
                                                              ELSE [secret |-> Now.mem.secret]]
          /\ UNCHANGED txn
       \/ Failed(w) /\ UNCHANGED prof
    /\ UNCHANGED <<link, owner, connects, moves>>

Merge(w) ==
    /\ job[w].pc = "merge"
    /\ IF Reaches(w) /\ Now.ver = job[w].ver + 1
       THEN /\ LET orig == job[w].orig.secret
                   merged == [job[w].edit EXCEPT
                                !.secret = IF @ = NONE THEN orig ELSE @,
                                !.flags = IF job[w].kind = "remember" /\ orig # NONE
                                          THEN "system" ELSE @]
               IN  job' = [job EXCEPT ![w].pc = "fence", ![w].ver = @ + 1, ![w].edit = merged]
            /\ UNCHANGED txn
       ELSE Failed(w)
    /\ UNCHANGED <<prof, link, owner, connects, moves>>

Fence(w) ==
    /\ job[w].pc = "fence"
    /\ IF UpToDate(w) /\ (job[w].kind = "remember" \/ ~Now.staged)
       THEN Goto(w, "write") /\ UNCHANGED txn
       ELSE Failed(w)
    /\ UNCHANGED <<prof, link, owner, connects, moves>>

(* Update2 with the version as its argument. NetworkManager applies it or   *)
(* refuses it, and an applied one may still go unacknowledged. remember     *)
(* FALSE writes no settings: the profile becomes volatile, or goes at once  *)
(* when it is inactive.                                                     *)
Dropped ==
    IF link.profile = Target
    THEN [Now EXCEPT !.ver = @ + 1, !.staged = TRUE, !.volatile = TRUE]
    ELSE Gone
Applied(w) == IF job[w].kind = "drop" THEN Dropped ELSE Stored(Target, job[w].edit)

Write(w) ==
    /\ job[w].pc = "write"
    /\ \/ /\ UpToDate(w)
          /\ prof' = [prof EXCEPT ![Target] = Applied(w)]
          /\ \/ Goto(w, "written") /\ UNCHANGED txn
             \/ Failed(w)
       \/ Failed(w) /\ UNCHANGED prof
    /\ UNCHANGED <<link, owner, connects, moves>>

(* After the write: the owner is looked at again, and each operation goes   *)
(* on to what it promises beyond the profile itself.                        *)
Written(w) ==
    /\ job[w].pc = "written"
    /\ IF job[w].owner # owner THEN Failed(w)
       ELSE CASE job[w].kind \in {"autoconnect", "credentials"} -> End(w, "saved")
              [] job[w].kind = "remember" ->
                   End(w, IF Now.here /\ ~Now.staged /\ ~Now.volatile THEN "saved" ELSE "refused")
              [] job[w].kind = "drop" ->
                   End(w, IF ~Now.here THEN "deleted" ELSE IF Now.volatile THEN "volatile"
                          ELSE "refused")
              [] job[w].kind = "band" ->
                   Goto(w, IF job[w].rollback THEN "recover" ELSE "activate") /\ UNCHANGED txn
    /\ UNCHANGED <<prof, link, owner, connects, moves>>

-----------------------------------------------------------------------------
(* select_wifi_band, around its two edits.                                  *)

BandStatus(w) ==
    /\ job[w].pc = "status"
    /\ IF Reaches(w) /\ link.profile = Target /\ link.state = "up" /\ Now.mem.band # "5GHz"
          /\ Editable(w)
       THEN /\ job' = [job EXCEPT ![w].pc = "snapshot", ![w].orig = Public(Now.mem)]
            /\ UNCHANGED txn
       ELSE End(w, IF Reaches(w) /\ Now.mem.band = "5GHz" /\ link.band = "5GHz"
                   THEN "unchanged" ELSE "refused")
    /\ UNCHANGED <<prof, link, owner, connects, moves>>

Undo(w) == job' = [job EXCEPT ![w].pc = "snapshot", ![w].rollback = TRUE]

(* reactivate_band: the activation, the wait for it, the band it came up on. *)
BandActivate(w) ==
    /\ job[w].pc = "activate"
    /\ \/ /\ Reaches(w)
          /\ link' = Link(Target, "activating", "auto")
          /\ Goto(w, "await")
       \/ Undo(w) /\ UNCHANGED link
    /\ UNCHANGED <<prof, owner, connects, txn, moves>>

BandAwait(w) ==
    /\ job[w].pc = "await"
    /\ \/ /\ Reaches(w) /\ link.profile = Target /\ link.state = "up" /\ link.band = "5GHz"
          /\ End(w, "selected")
       \/ ~(link.profile = Target /\ link.state = "activating") /\ Undo(w) /\ UNCHANGED txn
       \/ Undo(w) /\ UNCHANGED txn   \* cancelled, timed out, or a failed read
    /\ UNCHANGED <<prof, link, owner, connects, moves>>

(* rollback_band_change, once the field is restored. *)
BandRecover(w) ==
    /\ job[w].pc = "recover"
    /\ \/ /\ Reaches(w) /\ link.profile \in {NONE, Target}
          /\ link' = Link(Target, "activating", "auto")
          /\ End(w, "recovered")
       \/ End(w, "unrecovered") /\ UNCHANGED link
    /\ UNCHANGED <<prof, owner, connects, moves>>

-----------------------------------------------------------------------------
(* daemon_secret/storage: capture while NetworkManager awaits the reply,    *)
(* confirm after the activation consumed it.                                *)

Capture(w) ==
    /\ job[w].pc = "start" /\ job[w].kind = "confirm"
    /\ IF Now.here /\ ~Now.staged /\ ~Now.volatile /\ Now.mem.flags = "system"
       THEN /\ job' = [job EXCEPT ![w].pc = "boundary", ![w].owner = owner,
                                  ![w].edit = Public(Now.mem)]
            /\ UNCHANGED txn
       ELSE End(w, "unconfirmed")
    /\ UNCHANGED <<prof, link, owner, connects, moves>>

Boundary(w) ==
    /\ job[w].pc = "boundary"
    /\ IF Reaches(w) /\ link.profile = Target /\ link.state = "activating"
       THEN Goto(w, "consume") /\ UNCHANGED txn
       ELSE End(w, "unconfirmed")
    /\ UNCHANGED <<prof, link, owner, connects, moves>>

(* await_activation; the ticket may be cancelled and the wait may time out. *)
AwaitActivation(w) ==
    /\ job[w].pc = "consume"
    /\ \/ Reaches(w) /\ link.profile = Target /\ link.state = "up"
          /\ Goto(w, "inspect") /\ UNCHANGED txn
       \/ End(w, "unconfirmed")
    /\ UNCHANGED <<prof, link, owner, connects, moves>>

(* The version is read first; the settings and flags that follow are only   *)
(* trusted because Recheck reads the same version again.                    *)
Inspect(w) ==
    /\ job[w].pc = "inspect"
    /\ IF Reaches(w)
       THEN /\ job' = [job EXCEPT ![w].pc = "recheck", ![w].ver = Now.ver]
            /\ UNCHANGED txn
       ELSE End(w, "unconfirmed")
    /\ UNCHANGED <<prof, link, owner, connects, moves>>

Recheck(w) ==
    /\ job[w].pc = "recheck"
    /\ \/ UpToDate(w) /\ Public(Now.mem) = job[w].edit /\ ~Now.staged /\ ~Now.volatile
          /\ Goto(w, "reveal") /\ UNCHANGED txn
       \/ End(w, "unconfirmed")
    /\ UNCHANGED <<prof, link, owner, connects, moves>>

Reveal(w) ==
    /\ job[w].pc = "reveal"
    /\ IF Reaches(w)
       THEN /\ prof' = [prof EXCEPT ![Target].ver = @ + 1]
            /\ job' = [job EXCEPT ![w].pc = "compare", ![w].orig = [secret |-> Now.mem.secret]]
            /\ UNCHANGED txn
       ELSE End(w, "unconfirmed") /\ UNCHANGED prof
    /\ UNCHANGED <<link, owner, connects, moves>>

Compare(w) ==
    /\ job[w].pc = "compare"
    /\ IF Reaches(w) /\ Now.ver = job[w].ver + 1 /\ job[w].orig.secret = "new" /\ ~Now.staged
       THEN /\ job' = [job EXCEPT ![w].pc = "commit", ![w].ver = @ + 1, ![w].base = Now.mem]
            /\ UNCHANGED txn
       ELSE End(w, "unconfirmed")
    /\ UNCHANGED <<prof, link, owner, connects, moves>>

(* The empty Update2 commits the current settings. landed is a history of   *)
(* what reached the disk.                                                   *)
Commit(w) ==
    /\ job[w].pc = "commit"
    /\ \/ /\ UpToDate(w)
          /\ prof' = [prof EXCEPT ![Target] = Stored(Target, Now.mem)]
          /\ job' = [job EXCEPT ![w].pc = "settle", ![w].landed = prof'[Target].disk.secret]
          /\ UNCHANGED txn
       \/ End(w, "unconfirmed") /\ UNCHANGED prof
    /\ UNCHANGED <<link, owner, connects, moves>>

Settle(w) ==
    /\ job[w].pc = "settle"
    /\ \/ Reaches(w) /\ Now.ver = job[w].ver + 1 /\ ~Now.staged /\ End(w, "stored")
       \/ End(w, "unconfirmed")
    /\ UNCHANGED <<prof, link, owner, connects, moves>>

-----------------------------------------------------------------------------
(* forget.rs.                                                               *)

(* Cancellation of the SSID's connects, then a bounded wait for them. *)
CancelConnects(w) ==
    /\ job[w].pc = "start" /\ job[w].kind = "forget"
    /\ \/ connects = "none"
          /\ job' = [job EXCEPT ![w].pc = "inventory", ![w].owner = owner]
          /\ UNCHANGED <<txn, connects>>
       \/ connects # "none" /\ connects' = "cancelling" /\ Goto(w, "cancelled") /\ UNCHANGED txn
    /\ UNCHANGED <<prof, link, owner, moves>>

AwaitConnects(w) ==
    /\ job[w].pc = "cancelled"
    /\ \/ connects = "none" /\ UNCHANGED txn
          /\ job' = [job EXCEPT ![w].pc = "inventory", ![w].owner = owner]
       \/ connects # "none" /\ End(w, "cancellation-pending")
    /\ UNCHANGED <<prof, link, owner, connects, moves>>

Saved == {p \in Profiles : prof[p].here}
SsidUp == link.profile \in Profiles

(* The saved profiles of the SSID, and whether it is connected. *)
Inventory(w) ==
    /\ job[w].pc = "inventory"
    /\ IF job[w].owner = owner
       THEN /\ job' = [job EXCEPT ![w].pc = "autoconnect", ![w].left = Saved,
                                  ![w].todo = {p \in Saved : prof[p].mem.auto},
                                  ![w].active = SsidUp]
            /\ UNCHANGED txn
       ELSE End(w, "error")
    /\ UNCHANGED <<prof, link, owner, connects, moves>>

(* Each autoconnect profile is edited in turn under the transaction lock;   *)
(* the version fence makes such an edit one step, and a failed one is only  *)
(* warned of.                                                               *)
DisableAutoconnect(w) ==
    /\ job[w].pc = "autoconnect" /\ job[w].todo # {}
    /\ txn = NONE
    /\ LET p == CHOOSE q \in job[w].todo : TRUE IN
         /\ job' = [job EXCEPT ![w].todo = @ \ {p}]
         /\ \/ /\ job[w].owner = owner /\ prof[p].here /\ ~prof[p].staged /\ ~prof[p].volatile
               /\ prof' = [prof EXCEPT ![p] =
                             Stored(p, [Public(prof[p].mem) EXCEPT !.auto = FALSE])]
            \/ UNCHANGED prof
    /\ UNCHANGED <<link, owner, connects, txn, moves>>

Quieted(w) ==
    /\ job[w].pc = "autoconnect" /\ job[w].todo = {}
    /\ Goto(w, IF job[w].active THEN "disconnect" ELSE "delete")
    /\ UNCHANGED <<prof, link, owner, connects, txn, moves>>

Disconnect(w) ==
    /\ job[w].pc = "disconnect"
    /\ \/ /\ job[w].owner = owner
          /\ link' = IF SsidUp THEN [link EXCEPT !.state = "deactivating"] ELSE link
          /\ Goto(w, "confirm") /\ UNCHANGED txn
       \/ End(w, "error") /\ UNCHANGED link
    /\ UNCHANGED <<prof, owner, connects, moves>>

ConfirmDown(w) ==
    /\ job[w].pc = "confirm"
    /\ \/ job[w].owner = owner /\ ~SsidUp /\ Goto(w, "delete") /\ UNCHANGED txn
       \/ SsidUp /\ End(w, "disconnect-pending")
       \/ job[w].owner # owner /\ End(w, "error")
    /\ UNCHANGED <<prof, link, owner, connects, moves>>

(* delete_profiles goes on past a failed deletion. *)
DeleteOne(w) ==
    /\ job[w].pc = "delete" /\ job[w].left # {}
    /\ LET p == CHOOSE q \in job[w].left : TRUE IN
         /\ \/ /\ job[w].owner = owner /\ prof[p].here
               /\ prof' = [prof EXCEPT ![p] = Gone]
               /\ link' = IF link.profile = p THEN Disconnected ELSE link
               /\ job' = [job EXCEPT ![w].left = @ \ {p}, ![w].gone = @ \cup {p}]
            \/ /\ job' = [job EXCEPT ![w].left = @ \ {p}, ![w].landed = "failure"]
               /\ UNCHANGED <<prof, link>>
    /\ UNCHANGED <<owner, connects, txn, moves>>

\* Mutant: one failed deletion hides the ones that succeeded.
ForgetStatusAllOrNone(deleted, failed) ==
    IF failed THEN "failed" ELSE IF deleted = {} THEN "not-saved" ELSE "forgotten"
ForgetStatus(deleted, failed) ==
    CASE deleted = {} /\ ~failed -> "not-saved"
      [] deleted # {} /\ ~failed -> "forgotten"
      [] deleted = {} /\ failed -> "failed"
      [] deleted # {} /\ failed -> "partial"

ForgetDone(w) ==
    /\ job[w].pc = "delete" /\ job[w].left = {}
    /\ End(w, ForgetStatus(job[w].gone, job[w].landed = "failure"))
    /\ UNCHANGED <<prof, link, owner, connects, moves>>

-----------------------------------------------------------------------------
(* NetworkManager and other clients (external).                             *)

Budget == moves < MaxMoves /\ moves' = moves + 1

ExternalEdit(p) ==
    /\ Budget /\ prof[p].here
    /\ \E s \in {[prof[p].mem EXCEPT !.note = 1 - @], [prof[p].mem EXCEPT !.secret = "other"],
                 [prof[p].mem EXCEPT !.band = IF @ = "auto" THEN "5GHz" ELSE "auto"],
                 [prof[p].mem EXCEPT !.flags = "session"]} :
         \/ prof' = [prof EXCEPT ![p] = Stored(p, s)]
         \/ prof' = [prof EXCEPT ![p].ver = @ + 1, ![p].mem = s, ![p].staged = TRUE]
    /\ UNCHANGED <<link, owner, connects, txn, job>>

ExternalSwitch ==
    /\ Budget
    /\ link' \in {Disconnected, Link("elsewhere", "up", "auto")}
    /\ UNCHANGED <<prof, owner, connects, txn, job>>

(* A replaced NetworkManager reads the profiles back from disk. *)
Restart ==
    /\ Budget
    /\ owner' = owner + 1
    /\ prof' = [p \in Profiles |->
                  IF prof[p].disk = NONE THEN Gone
                  ELSE [prof[p] EXCEPT !.ver = 1, !.mem = prof[p].disk, !.staged = FALSE,
                                       !.volatile = FALSE]]
    /\ link' = Disconnected
    /\ UNCHANGED <<connects, txn, job>>

(* An activation completes on some band, having consumed a prompted         *)
(* credential if one was given, or fails; a deactivation completes and a    *)
(* volatile profile goes with it.                                           *)
LinkMoves ==
    /\ \/ /\ link.state = "activating"
          /\ \E band \in {"auto", "5GHz"} : link' = [link EXCEPT !.state = "up", !.band = band]
          /\ \/ UNCHANGED prof
             \/ LET p == link.profile IN
                /\ p \in Profiles /\ prof[p].here /\ prof[p].mem.secret # "new"
                /\ \E w \in Workers : job[w].pc = "consume"
                /\ prof' = [prof EXCEPT ![p].ver = @ + 1, ![p].mem.secret = "new"]
       \/ /\ link.state \in {"activating", "deactivating"}
          /\ link' = Disconnected
          /\ prof' = [p \in Profiles |->
                        IF link.profile = p /\ prof[p].volatile THEN Gone ELSE prof[p]]
    /\ UNCHANGED <<owner, connects, txn, job, moves>>

ConnectEnds ==
    /\ connects \in {"running", "cancelling"}
    /\ connects' = "none"
    /\ UNCHANGED <<prof, link, owner, txn, job, moves>>

EditStep(w) ==
    \/ Begin(w) \/ Snapshot(w) \/ Check(w) \/ GetSecrets(w) \/ Merge(w) \/ Fence(w)
    \/ Write(w) \/ Written(w)
BandStep(w) == BandStatus(w) \/ BandActivate(w) \/ BandAwait(w) \/ BandRecover(w)
ConfirmStep(w) ==
    \/ Capture(w) \/ Boundary(w) \/ AwaitActivation(w) \/ Inspect(w) \/ Recheck(w)
    \/ Reveal(w) \/ Compare(w) \/ Commit(w) \/ Settle(w)
ForgetStep(w) ==
    \/ CancelConnects(w) \/ AwaitConnects(w) \/ Inventory(w) \/ DisableAutoconnect(w) \/ Quieted(w)
    \/ Disconnect(w) \/ ConfirmDown(w) \/ DeleteOne(w) \/ ForgetDone(w)

JobStep(w) == EditStep(w) \/ BandStep(w) \/ ConfirmStep(w) \/ ForgetStep(w)

Environment ==
    \/ \E p \in Profiles : ExternalEdit(p)
    \/ ExternalSwitch \/ Restart \/ LinkMoves \/ ConnectEnds

StoreNext == (\E w \in Workers : JobStep(w)) \/ Environment

StoreSpec == StoreInit /\ [][StoreNext]_storeVars

-----------------------------------------------------------------------------
(* Properties.                                                              *)

Writing(w) == job[w].pc \in {"write", "commit"} /\ prof' # prof /\ job'[w] # job[w]

(* What an operation may change: its own field. *)
OwnField(w, s, t) ==
    CASE job[w].kind = "autoconnect" -> t = [s EXCEPT !.auto = t.auto]
      [] job[w].kind = "band" -> t = [s EXCEPT !.band = t.band]
      [] job[w].kind = "credentials" -> t = [s EXCEPT !.secret = "new", !.flags = t.flags]
      [] job[w].kind = "remember" -> t = [s EXCEPT !.flags = t.flags]
      [] job[w].kind \in {"drop", "confirm"} -> t = s

(* No lost update: the settings an edit or a confirmation replaces are      *)
(* exactly the ones it had read, whatever other writers, other clients or   *)
(* the GetSecrets of another job did in between (the version fences of      *)
(* commit_credential_edit and confirm), and only the operation's own field  *)
(* changes. A band rollback overwrites only the band this operation had     *)
(* selected, and puts back the one it found (rollback of nm/band.rs).       *)
EditsRespectOthers ==
    [][\A w \in Workers : Writing(w) =>
         /\ Now.mem = job[w].base
         /\ prof'[Target].here => OwnField(w, Now.mem, prof'[Target].mem)
         /\ job[w].kind = "band" /\ job[w].rollback =>
              Now.mem.band = "5GHz" /\ prof'[Target].mem.band = job[w].orig.band]_storeVars

(* A report is true. A confirmation reported as stored: the supplied        *)
(* credential was on disk when its own commit landed (confirm's version     *)
(* fences). A forget that reports a pending cancellation or disconnection,  *)
(* or that nothing could be deleted, deleted nothing; one that reports      *)
(* deletions has removed profiles that no other job brings back or          *)
(* activates (delete_profiles against a band change and its rollback).      *)
ReportsTrue ==
    \A w \in Workers :
        LET gone == job[w].gone IN
        /\ job[w].result = "stored" => job[w].landed = "new"
        /\ job[w].result \in {"cancellation-pending", "disconnect-pending", "not-saved", "failed"}
             => gone = {}
        /\ job[w].result \in {"forgotten", "partial"} =>
             gone # {} /\ \A p \in gone : ~prof[p].here /\ link.profile # p
=============================================================================
