------------------------------- MODULE Radios -------------------------------
(***************************************************************************)
(* The radio switches and airplane mode (nm/status.rs).  NetworkManager    *)
(* holds the two switches; the daemon remembers, under one lock, whether   *)
(* it put the machine in airplane mode and what to restore.  Requests run  *)
(* on several threads; a status reads the switches before it takes the     *)
(* lock; the switches may also be changed by others.                       *)
(***************************************************************************)
EXTENDS Naturals, Sequences

CONSTANTS
  Threads,      \* threads that serve radio requests
  Requests,     \* the lists of requests the threads may be given
  MaxSwitches,  \* changes others make to the switches
  MaxRefusals   \* property reads and writes NetworkManager refuses

Radio == {"wireless", "wwan"}
AllOff == [r \in Radio |-> FALSE]
RadioRequest == [op : {"set", "airplane", "status"}, radio : Radio, on : BOOLEAN]

ASSUME RadioBounds ==
  /\ MaxSwitches \in Nat /\ MaxRefusals \in Nat
  /\ \A q \in Requests : q \in [Threads -> Seq(RadioRequest)]

VARIABLES
  switch,    \* WirelessEnabled and WwanEnabled inside NetworkManager
  airplane,  \* RadioRestoreState.airplane_mode
  restore,   \* the switches RadioRestoreState remembers
  held,      \* the thread that holds the lock ({}: free)
  queue,     \* the requests each thread still has to serve
  stage,      \* where its current request is
  noted,      \* the switches its request read
  before,    \* the switches when a request last set out to enter airplane mode
  touched,   \* since then a switch was changed by other means or could not be put
             \* back, or no request ever set out
  moves, refusals

switchVars == <<switch, airplane, restore>>
radioVars == <<switch, airplane, restore, held, queue, stage, noted, before, touched,
               moves, refusals>>

Request(t) == Head(queue[t])
Serving(t, op) == queue[t] # <<>> /\ Request(t).op = op

RadioInit ==
  /\ switch \in [Radio -> BOOLEAN]
  /\ airplane = FALSE
  /\ restore = AllOff
  /\ held = {}
  /\ queue \in Requests
  /\ stage = [t \in Threads |-> "start"]
  /\ noted = [t \in Threads |-> AllOff]
  /\ before = AllOff
  /\ touched = TRUE
  /\ moves = 0
  /\ refusals = 0

Move(t, s) == stage' = [stage EXCEPT ![t] = s]
Served(t) ==
  /\ queue' = [queue EXCEPT ![t] = Tail(@)]
  /\ stage' = [stage EXCEPT ![t] = "start"]
  /\ noted' = [noted EXCEPT ![t] = AllOff]

\* NetworkManager refuses to read or write a property.
Declined == refusals < MaxRefusals /\ refusals' = refusals + 1

-----------------------------------------------------------------------------

\* set_radio_enabled: the switch is written under the lock; refused, the
\* request fails with nothing recorded.
SetRadio(t) ==
  /\ Serving(t, "set") /\ stage[t] = "start" /\ held = {}
  /\ \/ /\ switch' = [switch EXCEPT ![Request(t).radio] = Request(t).on]
        /\ held' = {t}
        /\ Move(t, "record")
        /\ UNCHANGED <<queue, noted, refusals>>
     \/ /\ Declined /\ Served(t)
        /\ UNCHANGED <<switch, held>>
  /\ UNCHANGED <<airplane, restore, before, touched, moves>>

\* record_direct_change: in airplane mode only switching a radio on counts,
\* and it ends the mode.  A change of mobile data ends with a status.
RecordChange(t) ==
  /\ Serving(t, "set") /\ stage[t] = "record"
  /\ restore' = IF ~airplane \/ Request(t).on
                THEN [restore EXCEPT ![Request(t).radio] = Request(t).on] ELSE restore
  /\ airplane' = (airplane /\ ~Request(t).on)
  /\ held' = {}
  /\ touched' = TRUE
  /\ \/ Request(t).radio = "wireless" /\ Served(t)
     \/ Request(t).radio = "wwan" /\ Move(t, "status") /\ UNCHANGED <<queue, noted>>
  /\ UNCHANGED <<switch, before, moves, refusals>>

\* set_airplane_mode, target_switches: leaving a mode that is not on changes
\* nothing; otherwise the switches are read under the lock, which may fail.
ReadSwitches(t) ==
  /\ Serving(t, "airplane") /\ stage[t] = "start" /\ held = {}
  /\ \/ /\ ~Request(t).on /\ ~airplane
        /\ Move(t, "status")
        /\ UNCHANGED <<held, queue, noted, before, touched, refusals>>
     \/ /\ Request(t).on \/ airplane
        /\ held' = {t}
        /\ noted' = [noted EXCEPT ![t] = switch]
        /\ before' = IF airplane THEN before ELSE switch
        /\ touched' = (airplane /\ touched)
        /\ Move(t, "wireless")
        /\ UNCHANGED <<queue, refusals>>
     \/ /\ Request(t).on \/ airplane
        /\ Declined /\ Served(t)
        /\ UNCHANGED <<held, before, touched>>
  /\ UNCHANGED <<switch, airplane, restore, moves>>

Target(t) == IF Request(t).on THEN AllOff ELSE restore

\* apply_radio_switches: Wi-Fi first.
ApplyWireless(t) ==
  /\ Serving(t, "airplane") /\ stage[t] = "wireless"
  /\ \/ /\ switch' = [switch EXCEPT !["wireless"] = Target(t)["wireless"]]
        /\ Move(t, "wwan")
        /\ UNCHANGED <<held, queue, noted, refusals>>
     \/ /\ Declined /\ Served(t) /\ held' = {}
        /\ UNCHANGED switch
  /\ UNCHANGED <<airplane, restore, before, touched, moves>>

\* Mutant: entering the mode again remembers the switches it turned off.
RemembersAlways(t) ==
  IF Request(t).on THEN noted[t] ELSE Target(t)

\* commit_airplane: the switches are remembered on entering the mode only.
Remembered(t) ==
  IF Request(t).on THEN IF airplane THEN restore ELSE noted[t] ELSE Target(t)

\* Then mobile data; if that is refused Wi-Fi is put back as it was read, and
\* the mode does not change.  Putting it back may be refused as well, which
\* rollback_wireless only logs.
ApplyWwan(t) ==
  /\ Serving(t, "airplane") /\ stage[t] = "wwan"
  /\ \/ /\ switch' = [switch EXCEPT !["wwan"] = Target(t)["wwan"]]
        /\ restore' = Remembered(t)
        /\ airplane' = Request(t).on
        /\ Move(t, "status")
        /\ UNCHANGED <<queue, noted, touched, refusals>>
     \/ /\ Declined /\ Served(t)
        /\ switch' = [switch EXCEPT !["wireless"] = noted[t]["wireless"]]
        /\ UNCHANGED <<airplane, restore, touched>>
     \/ /\ refusals + 1 < MaxRefusals /\ refusals' = refusals + 2 /\ Served(t)
        /\ touched' = TRUE
        /\ UNCHANGED <<switch, airplane, restore>>
  /\ held' = {}
  /\ UNCHANGED <<before, moves>>

\* radio_status reads the switches without the lock: for a wifi.status
\* request, and at the end of an airplane request.  Without WirelessEnabled it
\* fails; mobile data that cannot be read counts as off.
ReadStatus(t) ==
  /\ queue[t] # <<>>
  /\ \/ Request(t).op = "status" /\ stage[t] = "start"
     \/ stage[t] = "status"
  /\ \/ /\ noted' = [noted EXCEPT ![t] = switch]
        /\ Move(t, "judge") /\ UNCHANGED <<queue, refusals>>
     \/ /\ Declined /\ noted' = [noted EXCEPT ![t] = [switch EXCEPT !["wwan"] = FALSE]]
        /\ Move(t, "judge") /\ UNCHANGED queue
     \/ Declined /\ Served(t)
  /\ UNCHANGED <<switch, airplane, restore, held, before, touched, moves>>

\* ... and then takes it: a radio that is on shows the mode was left.
JudgeStatus(t) ==
  /\ stage[t] = "judge" /\ held = {}
  /\ airplane' = (airplane /\ noted[t] = AllOff)
  /\ Served(t)
  /\ UNCHANGED <<switch, restore, held, before, touched, moves, refusals>>

\* Somebody else turns a radio on or off.
ExternalSwitch(r) ==
  /\ moves < MaxSwitches
  /\ switch' = [switch EXCEPT ![r] = ~@]
  /\ touched' = TRUE
  /\ moves' = moves + 1
  /\ UNCHANGED <<airplane, restore, held, queue, stage, noted, before, refusals>>

RadioNext ==
  \/ \E t \in Threads :
       \/ SetRadio(t) \/ RecordChange(t) \/ ReadSwitches(t) \/ ApplyWireless(t)
       \/ ApplyWwan(t) \/ ReadStatus(t) \/ JudgeStatus(t)
  \/ \E r \in Radio : ExternalSwitch(r)

RadioSpec == RadioInit /\ [][RadioNext]_radioVars

-----------------------------------------------------------------------------

\* In airplane mode, until a switch is changed by other means, both radios are
\* off and what will be restored is what was on when the mode was entered,
\* however often it is entered again and whichever step of a change
\* NetworkManager refuses (commit_airplane, apply_radio_switches).  The one
\* exception is a refused roll-back: Wi-Fi is then on in airplane mode until
\* the next status.
AirplaneHolds ==
  (airplane /\ held = {} /\ ~touched) => switch = AllOff /\ restore = before

=============================================================================
