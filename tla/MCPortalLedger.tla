--------------------------- MODULE MCPortalLedger ---------------------------
(* Small instances of PortalLedger for TLC. *)
EXTENDS PortalLedger, TLC

MCSymmetry == Permutations(Handler) \union Permutations(Owner)

NoFallback ==
    /\ \A e \in Episode : mem[e].fallback = 0
    /\ \A h \in Handler : ~call[h].fallback

\* Two launches of one episode, with restarts, failed writes, reports and a
\* clock that may be set back.
Faults == nm = 1 /\ conn = 1 /\ nextId <= 3 /\ now <= 1 /\ NoFallback

\* One handler at a time, and manual launches for more episodes than the ledger
\* holds.
Episodes ==
    /\ back = 0 /\ captive
    /\ \A i \in Id : claims[i] = 0
    /\ \E g \in Handler : \A h \in Handler \ {g} : call[h] = NoCall
    /\ \A h \in Handler : call[h].mode # "automatic" /\ call[h].at # "claim"
    /\ \A o \in Owner : proof[o] = NoEpisode

\* Two handlers that overlap while the episode changes.
Overlap ==
    /\ back = 0 /\ restarts = 0 /\ ~poisoned /\ captive
    /\ conn = 1 /\ nextId <= 3 /\ now <= 1 /\ NoFallback
    /\ \A e \in Episode : mem[e].launch.phase # "complete"

MCBound == Faults \/ Episodes \/ Overlap
=============================================================================
