----------------------------- MODULE MCServices -----------------------------
(* The services around the connect path, each in an instance of its own:    *)
(* the front doors (Front), the file repositories (Caches), the delta chain *)
(* and the statistics refresh (Feeds), the radio switches (Radios), hotspot *)
(* and VPN links (Links), the Cast permission (CastPolicy), the jobs that   *)
(* assemble an answer (Lookups), health notifications (Health) and network  *)
(* snapshots (Snapshots). They share no state in the program; `part` says   *)
(* which of them moves, the others rest in one initial state.               *)
EXTENDS Front, Caches, Feeds, Radios, Links, CastPolicy, Lookups, Health, Snapshots, TLC

CONSTANTS cli, bus, sock, daemon, command, t1, t2, l1, l2, i1, u1, s1, s2, r1, r2, x1

VARIABLE part

-----------------------------------------------------------------------------
(* Instances.                                                               *)

(* One command, one front end on the bus and one on the socket. *)
MCDoor == [c \in Clients |-> IF c = cli THEN "cli" ELSE IF c = bus THEN "bus" ELSE "socket"]
MCFrontCasts ==
    {cli :> "connect" @@ bus :> "connect", cli :> "immediate", cli :> "scan",
     sock :> "simple", bus :> "watch" @@ sock :> "watch"}

(* Two processes on a readable, an empty, a corrupt or an outdated cache. *)
MCKeyOf == "a1" :> "home" @@ "a2" :> "home" @@ "a3" :> "cafe"
Connected(ap) == [op |-> "status", ap |-> ap, items |-> {}, act |-> {}]
Listing(op, aps, act) == [op |-> op, ap |-> NONE, items |-> aps, act |-> act]
Clear == Listing("clear", {}, {})
Record == Listing("append", {}, {})
MCCasts ==
    {daemon :> <<Connected("a1"), Clear>> @@ command :> <<Connected("a3"), Connected(NONE)>>,
     daemon :> <<Listing("scan", {"a1", "a2"}, {"a1"}), Connected("a2")>>
       @@ command :> <<Connected("a3"), Listing("snapshot", {"a3"}, {})>>,
     daemon :> <<Record, Record, Record, Record>> @@ command :> <<Record, Record, Record>>}
Readable(aps) == File("available", aps, {})
EmptyDisk == [latest |-> Readable({"a1"}), session |-> Missing, active |-> Missing,
              known |-> Missing]
MCDisks ==
    {EmptyDisk, [EmptyDisk EXCEPT !.known = Readable({"cafe"})],
     [EmptyDisk EXCEPT !.known = File("corrupt", {}, {})],
     [EmptyDisk EXCEPT !.known = File("stale", {}, {}), !.latest = File("corrupt", {}, {})]}

MCInterval == s1 :> 1 @@ s2 :> 2

(* Airplane mode entered, entered again and left beside other requests. *)
Switch(op, radio, on) == [op |-> op, radio |-> radio, on |-> on]
Enter == Switch("airplane", "wireless", TRUE)
Depart == Switch("airplane", "wireless", FALSE)
MCRequests ==
    {t1 :> <<Enter, Depart>> @@ t2 :> <<Switch("status", "wireless", FALSE)>>,
     t1 :> <<Enter, Enter, Depart>> @@ t2 :> <<Switch("set", "wwan", TRUE)>>,
     t1 :> <<Enter>> @@ t2 :> <<Switch("set", "wireless", FALSE), Depart>>}

MCLinkJobs == {l1 :> a @@ l2 :> b : a \in Tasks, b \in {"hotspot-start", "vpn-connect"}}

(* One free adapter, a busy one asked for by name, an unsupported band, a    *)
(* passphrase too short.                                                    *)
Adapter(ap, busy, bands) == [ap |-> ap, busy |-> busy, bands |-> bands]
Offer(devices, index, band, length) ==
    [devices |-> devices, radio |-> TRUE, device |-> index, band |-> band, channel |-> {},
     security |-> "sae", hidden |-> FALSE, ssid |-> 0, passphrase |-> length]
MCHotspotInputs ==
    LET busy == Adapter(TRUE, TRUE, {"2.4"})
        free == Adapter(TRUE, FALSE, {"2.4", "5", "6"})
        client == Adapter(FALSE, FALSE, {"5"})
    IN {Offer(<<client, busy, free>>, 0, "5", 8), Offer(<<client, busy, free>>, 2, "auto", 0),
        Offer(<<client, free>>, 1, "auto", 0), Offer(<<free>>, 0, "6", 0),
        Offer(<<free>>, 0, "auto", 7), Offer(<<busy>>, 1, "auto", 0),
        Offer(<<>>, 0, "auto", 0), [Offer(<<free>>, 0, "auto", 0) EXCEPT !.radio = FALSE]}

(* A device failure before, after or without the generic one, and silence. *)
Transition(subject, state, reason) == [subject |-> subject, state |-> state, reason |-> reason]
MCScripts ==
    LET failed == Transition("device", "failed", "dhcp-failed")
        quiet == Transition("device", "disconnected", "none")
        generic == Transition("connection", "deactivated", "device-disconnected")
    IN {<<failed, quiet, generic>>, <<generic, failed>>, <<failed, failed>>,
        <<Transition("device", "failed", "unmapped"), generic>>,
        <<Transition("device", "failed", "none"), generic>>,
        <<Transition("vpn", "disconnected", "user-disconnected")>>}

(* Two networks requests beside a scan. *)
Ask(cached, refresh) == [cached |-> cached, refresh |-> refresh]
Probe(strict, cache) == [strict |-> strict, cache |-> cache]
MCSnapCasts ==
    {r1 :> Ask(TRUE, TRUE) @@ r2 :> Ask(FALSE, TRUE) @@ x1 :> Probe(TRUE, FALSE),
     r1 :> Ask(TRUE, TRUE) @@ r2 :> Ask(TRUE, FALSE) @@ x1 :> Probe(FALSE, TRUE)}

MCWanted == [path |-> i1, uuid |-> u1]

-----------------------------------------------------------------------------
(* Composition.                                                             *)

Parts == {"front", "cache", "delta", "statistics", "radio", "link", "cast", "lookup",
          "health", "snapshot"}

(* A part at rest stays in one of its initial states. *)
Rests(resting) ==
    /\ "front" \in resting =>
         cl = [c \in Clients |-> IF c # cli THEN Fresh
                                 ELSE [Fresh EXCEPT !.pc = "start", !.kind = "immediate"]]
    /\ "cache" \in resting => disk = EmptyDisk /\ todo = CHOOSE cast \in MCCasts : TRUE
    /\ "radio" \in resting => switch = AllOff /\ queue = CHOOSE q \in MCRequests : TRUE
    /\ "link" \in resting => task = [w \in LinkWorkers |-> "vpn-connect"]
    /\ "cast" \in resting =>
         /\ policy = [p \in CastProfiles |-> FALSE]
         /\ device = [up |-> TRUE, act |-> 1, profile |-> CastTarget, applied |-> FALSE,
                      version |-> 1]
         /\ toggle = [pc |-> "save", on |-> TRUE, ok |-> TRUE, version |-> 0, kept |-> TRUE]
    /\ "lookup" \in resting => job = "command"
    /\ "health" \in resting => script = CHOOSE sc \in MCScripts : TRUE
    /\ "snapshot" \in resting =>
         /\ saved = [st |-> "available", at |-> 0]
         /\ LET cast == CHOOSE c \in MCSnapCasts : TRUE
            IN reader = ReadsOf(cast) /\ scanner = ScansOf(cast)

MCInit ==
    /\ part \in Parts
    /\ Rests(Parts \ {part})
    /\ FrontInit /\ CacheInit /\ FeedInit /\ RadioInit /\ LinkInit /\ CastInit /\ LookInit
    /\ HealthInit /\ SnapInit

FrontMoves ==
    /\ part = "front"
    /\ UNCHANGED <<part, cacheVars, feedVars, radioVars, linkVars, castVars, lookVars,
                   healthVars, snapVars>>

MCNext ==
    \/ FrontMoves /\ FrontNext
    \/ /\ part = "cache" /\ CacheNext
       /\ UNCHANGED <<part, frontVars, feedVars, radioVars, linkVars, castVars,
                      lookVars, healthVars, snapVars>>
    \/ /\ part = "delta" /\ DeltaNext
       /\ UNCHANGED <<part, frontVars, cacheVars, radioVars, linkVars, castVars,
                      lookVars, healthVars, snapVars>>
    \/ /\ part = "statistics" /\ StatNext
       /\ UNCHANGED <<part, frontVars, cacheVars, radioVars, linkVars, castVars,
                      lookVars, healthVars, snapVars>>
    \/ /\ part = "radio" /\ RadioNext
       /\ UNCHANGED <<part, frontVars, cacheVars, feedVars, linkVars, castVars,
                      lookVars, healthVars, snapVars>>
    \/ /\ part = "link" /\ LinkNext
       /\ UNCHANGED <<part, frontVars, cacheVars, feedVars, radioVars, castVars,
                      lookVars, healthVars, snapVars>>
    \/ /\ part = "cast" /\ CastNext
       /\ UNCHANGED <<part, frontVars, cacheVars, feedVars, radioVars, linkVars,
                      lookVars, healthVars, snapVars>>
    \/ /\ part = "lookup" /\ LookNext
       /\ UNCHANGED <<part, frontVars, cacheVars, feedVars, radioVars, linkVars,
                      castVars, healthVars, snapVars>>
    \/ /\ part = "health" /\ HealthNext
       /\ UNCHANGED <<part, frontVars, cacheVars, feedVars, radioVars, linkVars,
                      castVars, lookVars, snapVars>>
    \/ /\ part = "snapshot" /\ SnapNext
       /\ UNCHANGED <<part, frontVars, cacheVars, feedVars, radioVars, linkVars,
                      castVars, lookVars, healthVars>>

mcVars == <<part, frontVars, cacheVars, feedVars, radioVars, linkVars, castVars,
            lookVars, healthVars, snapVars>>

(* Fairness is the front doors' own (FrontFairSpec). *)
MCSpec == MCInit /\ [][MCNext]_mcVars /\ WF_mcVars(FrontMoves /\ Progress)
=============================================================================
