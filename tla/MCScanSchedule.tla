--------------------------- MODULE MCScanSchedule ---------------------------
(* A small instance of ScanSchedule for TLC. *)
EXTENDS ScanSchedule

CONSTANT Third      \* a caller that only takes part in crowded scans

\* A wildcard scan, one hidden SSID, and that SSID with another.
MCScope == {{}, {"a"}, {"a", "b"}}

\* Two callers do anything; a third shares a wildcard scan with them or waits
\* behind one of them, while one of the three may be cancelled or late.
MCBound ==
    \/ pc[Third] = "idle"
    \/ /\ scope[Third] = {} /\ \A c \in Caller : scope[c] \in {{}, {"a"}}
       /\ Cardinality({c \in Caller : cancelled[c] \/ expired[c]}) <= 1
=============================================================================
