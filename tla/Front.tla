------------------------------- MODULE Front -------------------------------
(***************************************************************************)
(* The front doors of nm-daemon.  A one-shot command forwards itself to    *)
(* the daemon that owns the bus name, or runs directly when the bus says   *)
(* that nobody does.  Front ends call over the bus or the local socket.    *)
(* Calls wait on the bounded request lane; what they start is registered   *)
(* under its caller and released when the caller is gone.  The daemon may  *)
(* die or be replaced at any moment, and a new one numbers its requests    *)
(* from one again.                                                         *)
(***************************************************************************)
EXTENDS Integers, FiniteSets

CONSTANTS Clients,      \* every caller
          Door,         \* Door[c]: "cli", "bus" or "socket"
          FrontCasts,        \* who takes part in a behaviour: the callers, each
                        \* with the kind of request it makes
          LaneCapacity, \* calls the request lane holds
          MaxInst,      \* daemon processes of one behaviour
          MaxIds,       \* requests one process accepts
          MaxFrontFaults,    \* losses, lags, panics and stops of one behaviour
          None

Kinds == {"immediate", "scan", "connect", "simple", "watch"}
Results == {"succeeded", "failed", "cancelled"}

ASSUME FrontBounds ==
  /\ Door \in [Clients -> {"cli", "bus", "socket"}]
  /\ None \notin Results \cup {"refused", "direct"}
  /\ {LaneCapacity, MaxInst, MaxIds, MaxFrontFaults} \subseteq Nat \ {0}
  /\ \A cast \in FrontCasts : /\ DOMAIN cast \subseteq Clients
                         /\ \A c \in DOMAIN cast : cast[c] \in Kinds

VARIABLES inst,     \* number of the newest daemon process
          phase,    \* "down", "up" or "stopping"
          cl,       \* the callers
          calls,    \* calls on the request lane
          ops,      \* registered work of the newest process
          kept,     \* terminal results the newest process retains
          nextId,   \* the process's request counter
          watcher,  \* the owner watcher: "off", "subscribed" or "on"
          losses,   \* owner losses not handled yet
          lagged,   \* the watcher's channel overran
          effects,  \* how often each caller's request took effect
          frontFaults    \* faults that happened

frontVars == <<inst, phase, cl, calls, ops, kept, nextId, watcher, losses, lagged,
          effects, frontFaults>>
daemonVars == <<inst, phase, nextId, watcher, lagged>>
Fault == frontFaults < MaxFrontFaults /\ frontFaults' = frontFaults + 1

Fresh == [pc |-> "done", kind |-> None, srv |-> 0, id |-> 0, out |-> None,
          mail |-> None, truth |-> None, alive |-> TRUE]

FrontInit ==
  /\ inst = 0 /\ phase = "down" /\ nextId = 1
  /\ \E cast \in FrontCasts :
       cl = [c \in Clients |->
               IF c \in DOMAIN cast
               THEN [Fresh EXCEPT !.pc = "start", !.kind = cast[c]] ELSE Fresh]
  /\ calls = {} /\ ops = {} /\ kept = {}
  /\ watcher = "off" /\ losses = {} /\ lagged = FALSE
  /\ effects = [c \in Clients |-> 0] /\ frontFaults = 0

To(c, pc) == [cl EXCEPT ![c].pc = pc]
Ended(c, out) ==
  [cl EXCEPT ![c] = [@ EXCEPT !.pc = "done", !.out = out, !.srv = 0, !.id = 0,
                              !.mail = None]]

(***************************************************************************)
(* The one-shot command.                                                   *)
(***************************************************************************)

\* No session bus, or the event signal cannot be received: nothing was sent.
Unreachable(c) ==
  /\ cl[c].pc = "start" /\ Door[c] = "cli"
  /\ cl' = To(c, "direct")
  /\ UNCHANGED <<frontFaults, daemonVars, calls, ops, kept, losses, effects>>

\* Only a refusal the bus itself signs says that the call was not dispatched.
NotDispatched == phase = "down"

Admissible == Cardinality(calls) < LaneCapacity

Send(c) ==
  /\ cl[c].pc = "start"
  /\ phase # "down" \/ Door[c] = "cli"
  /\ \/ NotDispatched /\ cl' = To(c, "direct") /\ calls' = calls
     \/ phase = "stopping" /\ cl' = Ended(c, "unknown") /\ calls' = calls
     \/ /\ phase = "up" /\ ~Admissible
        /\ cl' = Ended(c, "refused") /\ calls' = calls
     \/ /\ phase = "up" /\ Admissible
        /\ cl' = [cl EXCEPT ![c] = [@ EXCEPT !.pc = "reply", !.srv = inst]]
        /\ calls' = calls \cup {[client |-> c, kind |-> cl[c].kind,
                                 ran |-> FALSE, id |-> 0, ok |-> FALSE]}
  /\ UNCHANGED <<frontFaults, daemonVars, ops, kept, losses, effects>>

RunDirect(c) ==
  /\ cl[c].pc = "direct"
  /\ effects' = [effects EXCEPT ![c] = @ + 1]
  /\ cl' = Ended(c, "direct")
  /\ UNCHANGED <<frontFaults, daemonVars, calls, ops, kept, losses>>

\* The daemon left the bus with the call in flight: no reply will come.
NoReply(c) ==
  /\ cl[c].pc = "reply"
  /\ cl[c].srv # inst \/ phase # "up"

\* Mutant: an unanswered call is taken for one that was never sent.
RetriesLost(c) ==
  /\ NoReply(c)
  /\ cl' = To(c, "direct")
  /\ UNCHANGED <<frontFaults, daemonVars, calls, ops, kept, losses, effects>>

ReplyLost(c) ==
  /\ NoReply(c)
  /\ cl' = Ended(c, "unknown")
  /\ UNCHANGED <<frontFaults, daemonVars, calls, ops, kept, losses, effects>>

(***************************************************************************)
(* The daemon: a worker of the request lane runs the handler, which        *)
(* registers work or takes effect at once, and the reply follows.          *)
(***************************************************************************)

Ran(call, id, ok) ==
  calls' = (calls \ {call}) \cup {[call EXCEPT !.ran = TRUE, !.id = id, !.ok = ok]}
Registered(call) ==
  [client |-> call.client, id |-> nextId, kind |-> call.kind, stop |-> FALSE,
   phase |-> "queued", early |-> cl[call.client].alive]

\* An unknown method, parameters that do not parse, or a full work lane.
Rejects(call) ==
  /\ Ran(call, 0, FALSE)
  /\ UNCHANGED <<ops, nextId, effects>>

RunsNow(call) ==
  /\ call.kind = "immediate"
  /\ Ran(call, 0, TRUE)
  /\ effects' = [effects EXCEPT ![call.client] = @ + 1]
  /\ UNCHANGED <<ops, nextId>>

\* An operation is registered under its caller and acknowledged by number.
Accepts(call) ==
  /\ call.kind \in {"scan", "connect", "simple"} /\ nextId <= MaxIds
  /\ Ran(call, nextId, TRUE)
  /\ ops' = ops \cup {Registered(call)}
  /\ nextId' = nextId + 1
  /\ UNCHANGED effects

\* So is a subscription, which lasts until it is cancelled.
Watches(call) ==
  /\ call.kind = "watch" /\ nextId <= MaxIds
  /\ Ran(call, nextId, TRUE)
  /\ ops' = ops \cup {Registered(call)}
  /\ nextId' = nextId + 1
  /\ UNCHANGED effects

Dispatch(call) ==
  /\ ~call.ran /\ phase # "down"
  /\ Rejects(call) \/ RunsNow(call) \/ Accepts(call) \/ Watches(call)
  /\ UNCHANGED <<frontFaults, inst, phase, watcher, lagged, cl, kept, losses>>

\* Cancels the owner's tasks and drops its subscriptions.
Dropped(work, owners) ==
  {[o EXCEPT !.stop = o.stop \/ o.client \in owners] : o \in work}

\* The socket server repeats an owner's cleanup after work that outlived it.
Late(c) == Door[c] = "socket" /\ ~cl[c].alive

Reply(call) ==
  LET c == call.client
      here == cl[c].pc = "reply" /\ cl[c].alive /\ phase = "up"
  IN
  /\ call.ran
  /\ calls' = calls \ {call}
  /\ ops' = IF Late(c) THEN Dropped(ops, {c}) ELSE ops
  /\ cl' = IF ~here THEN cl
           ELSE IF ~call.ok THEN Ended(c, "refused")
           ELSE IF call.kind = "immediate" THEN Ended(c, "succeeded")
           ELSE [cl EXCEPT ![c] = [@ EXCEPT !.pc = "events", !.id = call.id]]
  /\ UNCHANGED <<frontFaults, daemonVars, kept, losses, effects>>

(***************************************************************************)
(* Accepted work.                                                          *)
(***************************************************************************)

With(o, new) == (ops \ {o}) \cup {new}

\* The terminal event goes to the caller's own connection, while there is one.
Emit(o, r) ==
  \E m \in {r, "garbled"} :
    LET caller == cl[o.client] IN
    cl' = [cl EXCEPT ![o.client] =
             [caller EXCEPT !.truth = r,
                            !.mail = IF caller.alive /\ phase = "up"
                                     THEN m ELSE caller.mail]]

Finish(o, r) ==
  /\ ops' = ops \ {o}
  /\ kept' = IF o.kind = "connect"
             THEN kept \cup {[id |-> o.id, client |-> o.client, result |-> r]}
             ELSE kept
  /\ Emit(o, r)

Work(o) ==
  \/ /\ o.phase = "queued" /\ ~o.stop
     /\ ops' = With(o, [o EXCEPT !.phase = "running"])
     /\ effects' = [effects EXCEPT ![o.client] = @ + 1]
     /\ UNCHANGED <<cl, kept>>
  \/ /\ o.phase \in {"queued", "running"} /\ o.stop
     /\ Finish(o, "cancelled")
     /\ UNCHANGED effects
  \/ /\ o.phase = "running" /\ o.kind # "watch"
     /\ \E r \in {"succeeded", "failed"} : Finish(o, r)
     /\ UNCHANGED effects

DoWork(o) ==
  /\ phase # "down" /\ Work(o)
  /\ UNCHANGED <<frontFaults, daemonVars, calls, losses>>

\* A panic unwinds through the registration's drop: no event is sent.
Panic(o) ==
  /\ Fault
  /\ o.phase = "running"
  /\ ops' = ops \ {o}
  /\ cl' = [cl EXCEPT ![o.client].truth = "lost"]
  /\ UNCHANGED <<daemonVars, calls, kept, losses, effects>>

(***************************************************************************)
(* The command waits for the terminal event of its request.                *)
(***************************************************************************)

ReadEvent(c) ==
  LET m == cl[c].mail IN
  /\ cl[c].pc = "events" /\ Door[c] = "cli" /\ m # None
  /\ cl' = IF m # "garbled" THEN Ended(c, m)
           ELSE IF cl[c].kind = "connect" THEN To(c, "recover")
           ELSE Ended(c, "unknown")
  /\ UNCHANGED <<frontFaults, daemonVars, calls, ops, kept, losses, effects>>

\* Mutant: whoever owns the bus name is asked, about anyone's request.
FinishedByName(c) == {k \in kept : k.id = cl[c].id /\ phase = "up"}

\* What operation.status of the process that acknowledged the request says.
Finished(c) == {k \in kept : /\ k.id = cl[c].id /\ k.client = c
                             /\ cl[c].srv = inst /\ phase = "up"}

Recover(c) ==
  /\ cl[c].pc = "recover"
  /\ cl' = IF Finished(c) = {} THEN Ended(c, "unknown")
           ELSE Ended(c, (CHOOSE k \in Finished(c) : TRUE).result)
  /\ UNCHANGED <<frontFaults, daemonVars, calls, ops, kept, losses, effects>>

(***************************************************************************)
(* Owners come and go.                                                     *)
(***************************************************************************)

\* The connection closes: a waiting command sees its stream end.
Leave(c) ==
  /\ Fault
  /\ cl[c].alive /\ cl[c].pc \in {"reply", "events"}
  /\ cl' = [Ended(c, "unknown") EXCEPT ![c].alive = FALSE]
  /\ losses' = IF phase # "up" \/ (Door[c] # "socket" /\ watcher = "off")
               THEN losses ELSE losses \cup {c}
  /\ UNCHANGED <<daemonVars, calls, ops, kept, effects>>

\* The client's own Cancel is answered by the control lane.
CancelOwn(c) ==
  /\ cl[c].pc = "events" /\ cl[c].alive /\ Door[c] # "cli"
  /\ phase = "up" /\ cl[c].srv = inst
  /\ \E o \in ops : /\ o.client = c /\ o.id = cl[c].id /\ ~o.stop
                    /\ ops' = With(o, [o EXCEPT !.stop = TRUE])
  /\ UNCHANGED <<frontFaults, daemonVars, cl, calls, kept, losses, effects>>

\* A loss reaches the watcher, or the socket session ends.
HandleLoss(c) ==
  /\ c \in losses /\ phase = "up"
  /\ Door[c] = "socket" \/ (watcher = "on" /\ ~lagged)
  /\ losses' = losses \ {c}
  /\ ops' = Dropped(ops, {c})
  /\ UNCHANGED <<frontFaults, daemonVars, cl, calls, kept, effects>>

OverBus == {c \in Clients : Door[c] # "socket"}
Departed == {c \in OverBus : ~cl[c].alive}

\* The watcher's channel overruns: what it held is lost.
Lag ==
  /\ Fault
  /\ watcher = "on" /\ ~lagged /\ phase = "up"
  /\ losses \cap OverBus # {}
  /\ lagged' = TRUE /\ losses' = losses \ OverBus
  /\ UNCHANGED <<inst, phase, nextId, watcher, cl, calls, ops, kept, effects>>

\* Mutant: after an overrun the watcher just goes on.
ReconcilesNothing ==
  /\ phase = "up"
  /\ watcher = "subscribed" \/ lagged
  /\ watcher' = "on" /\ lagged' = FALSE
  /\ UNCHANGED <<frontFaults, inst, phase, nextId, cl, calls, ops, kept, losses, effects>>

\* Owners of registered work are looked up on the bus, the dead are dropped.
Reconcile ==
  /\ phase = "up"
  /\ watcher = "subscribed" \/ lagged
  /\ ops' = Dropped(ops, Departed)
  /\ watcher' = "on" /\ lagged' = FALSE
  /\ UNCHANGED <<frontFaults, inst, phase, nextId, cl, calls, kept, losses, effects>>

Subscribe ==
  /\ phase = "up" /\ watcher = "off"
  /\ watcher' = "subscribed"
  /\ UNCHANGED <<frontFaults, inst, phase, nextId, lagged, cl, calls, ops, kept, losses,
                 effects>>

\* A failed watcher releases everything owned over the bus before it retries.
WatchFails ==
  /\ Fault
  /\ phase = "up" /\ watcher # "off"
  /\ watcher' = "off" /\ lagged' = FALSE
  /\ losses' = losses \ OverBus
  /\ ops' = Dropped(ops, OverBus)
  /\ UNCHANGED <<inst, phase, nextId, cl, calls, kept, effects>>

(***************************************************************************)
(* The daemon process.                                                     *)
(***************************************************************************)

Start ==
  /\ phase = "down" /\ inst < MaxInst
  /\ inst' = inst + 1 /\ phase' = "up" /\ nextId' = 1
  /\ watcher' = "off" /\ lagged' = FALSE
  /\ UNCHANGED <<frontFaults, cl, calls, ops, kept, losses, effects>>

\* The socket closes, the watcher is aborted and the bus connection closed.
Shutdown ==
  /\ Fault
  /\ phase = "up"
  /\ phase' = "stopping" /\ watcher' = "off" /\ lagged' = FALSE
  /\ losses' = {}
  /\ UNCHANGED <<inst, nextId, cl, calls, ops, kept, effects>>

\* The request lane has drained, or five seconds passed: tasks are cancelled.
StopWork ==
  /\ phase = "stopping"
  /\ \E o \in ops : ~o.stop
  /\ ops' = Dropped(ops, Clients)
  /\ UNCHANGED <<frontFaults, daemonVars, cl, calls, kept, losses, effects>>

Exit ==
  /\ Fault
  /\ phase # "down"
  /\ phase' = "down" /\ watcher' = "off" /\ lagged' = FALSE
  /\ calls' = {} /\ ops' = {} /\ kept' = {} /\ losses' = {}
  /\ UNCHANGED <<inst, nextId, cl, effects>>

FrontNext ==
  \/ \E c \in Clients :
       \/ Unreachable(c) \/ Send(c) \/ RunDirect(c) \/ ReplyLost(c)
       \/ ReadEvent(c) \/ Recover(c) \/ Leave(c) \/ CancelOwn(c)
       \/ HandleLoss(c)
  \/ \E call \in calls : Dispatch(call) \/ Reply(call)
  \/ \E o \in ops : DoWork(o) \/ Panic(o)
  \/ Lag \/ Reconcile \/ Subscribe \/ WatchFails
  \/ Start \/ Shutdown \/ StopWork \/ Exit

FrontSpec == FrontInit /\ [][FrontNext]_frontVars

\* The steps of the daemon's own threads and of the command.
Progress ==
  \/ \E call \in calls : Dispatch(call) \/ Reply(call)
  \/ \E o \in ops : DoWork(o)
  \/ Subscribe \/ Reconcile
  \/ \E c \in Clients :
       \/ HandleLoss(c) \/ ReplyLost(c) \/ ReadEvent(c) \/ Recover(c)
       \/ RunDirect(c)

\* Some thread that can take a step takes one; nothing makes a daemon start, a
\* client leave or a fault happen.
FrontFairSpec == FrontSpec /\ WF_frontVars(Progress)

(***************************************************************************)
(* Properties.                                                             *)
(***************************************************************************)

\* A command takes effect at most once, whatever the daemon and the bus do
\* between its call and its answer: it runs directly only when the bus said
\* the call went nowhere (safety::call, try_forward).
AtMostOnce == \A c \in Clients : effects[c] <= 1

\* What a command prints is what became of its own request: a terminal event
\* or the status a daemon retained, and never the result another daemon
\* filed under the same number (finish_operation_event, recover_terminal).
OutcomeTrue ==
  \A c \in Clients :
    LET k == cl[c] IN
    /\ k.out \in Results /\ k.kind # "immediate" => k.out = k.truth
    /\ k.out = "refused" => effects[c] = 0
    /\ k.out = "direct" => effects[c] = 1

Orphans == {o \in ops : ~o.stop /\ ~cl[o.client].alive}

\* Work registered while its owner lived is stopped after the owner left,
\* though the watcher lags, fails or restarts; over the socket, so is work
\* registered after the owner left (run_owner_watch, reconcile_owners).
OwnerLossStops ==
  LET orphaned == \E o \in Orphans : o.early \/ Door[o.client] = "socket"
  IN  orphaned ~> (~orphaned \/ phase = "stopping")

\* "disconnecting a client cancels its work": every operation of a client that
\* left the bus is told to stop.
DisconnectCancels == (Orphans # {}) ~> (Orphans = {} \/ phase = "stopping")
=============================================================================
