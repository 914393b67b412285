--------------------------- MODULE ProfileProofs ----------------------------
(***************************************************************************)
(* Writers of saved profiles, for every set of profiles and writers, every *)
(* assignment of jobs to them and any number of outside changes and        *)
(* restarts of NetworkManager: no writer loses the update of another, what *)
(* a job reports is so (ProfileStore), and the firewall follows the        *)
(* consent a profile records (CastPolicy).                                 *)
(***************************************************************************)
EXTENDS ProfileStore, CastPolicy, TLAPS

\* Most steps are first-order; the ones that need arithmetic name SMT;
\* the limits leave room for a loaded machine.
USE ZenonT(60)

-----------------------------------------------------------------------------
\* The writers of saved profiles.

Secret == {"old", "new", "other", NONE}
ProfileRec == [here : BOOLEAN, ver : Nat, mem : Settings \cup {NONE}, disk : Settings \cup {NONE},
               staged : BOOLEAN, volatile : BOOLEAN]
LinkRec == [profile : Profiles \cup {NONE, "elsewhere"},
            state : {"down", "up", "activating", "deactivating"}, band : {"auto", "5GHz"}]
EditPcs == {"snapshot", "check", "secrets", "merge", "fence", "write", "written"}
BandPcs == {"status", "activate", "await", "recover"}
ConfirmPcs == {"boundary", "consume", "inspect", "recheck", "reveal", "compare", "commit", "settle"}
ForgetPcs == {"cancelled", "inventory", "autoconnect", "disconnect", "confirm", "delete"}
JobPcs == {"start", "done"} \cup EditPcs \cup BandPcs \cup ConfirmPcs \cup ForgetPcs
JobRec == [kind : Kinds, pc : JobPcs, owner : Nat, ver : Nat, base : Settings \cup {NONE}, edit : Settings \cup {NONE},
           orig : Settings \cup [secret : Secret] \cup {NONE}, rollback : BOOLEAN,
           active : BOOLEAN, todo : SUBSET Profiles, left : SUBSET Profiles,
           gone : SUBSET Profiles, landed : Secret \cup {"failure"}, result : Results \cup {NONE}]

StoreType ==
    /\ prof \in [Profiles -> ProfileRec] /\ link \in LinkRec /\ owner \in Nat
    /\ \A p \in Profiles : /\ prof[p].here => prof[p].mem \in Settings
                           /\ ~prof[p].here => prof[p].disk = NONE
    /\ job \in [Workers -> JobRec]

\* The pinned owner still runs and the profile is there.
Held(w) == job[w].owner = owner /\ Now.here

\* Settings without a secret leave the stored one alone.
Filled(e, b) == IF e.secret = NONE THEN [e EXCEPT !.secret = b.secret] ELSE e

\* What is written is what was read but for the operation's own field.
Ready(w) ==
    /\ job[w].base \in Settings /\ job[w].edit \in Settings
    /\ OwnField(w, job[w].base, Filled(job[w].edit, job[w].base))
    /\ job[w].kind = "band" /\ job[w].rollback =>
          job[w].base.band = "5GHz" /\ job[w].edit.band = job[w].orig.band

KindOf(w) ==
    /\ job[w].pc \in EditPcs => job[w].kind \in Editing
    /\ job[w].pc \in BandPcs => job[w].kind = "band"
    /\ job[w].pc \in ConfirmPcs => job[w].kind = "confirm"
    /\ job[w].pc \in ForgetPcs => job[w].kind = "forget"
    /\ job[w].owner <= owner

EditOf(w) ==
    /\ job[w].kind = "band" /\ job[w].pc \notin {"start", "status", "done"} => job[w].orig \in Settings
    /\ job[w].pc \in {"check", "secrets", "merge"} =>
          /\ job[w].base \in Settings /\ job[w].edit = Mutated(w, Public(job[w].base))
          /\ job[w].kind = "band" /\ job[w].rollback => job[w].base.band = "5GHz"
    /\ job[w].pc \in {"check", "fence"} => job[w].kind # "drop"
    /\ job[w].pc \in {"secrets", "merge"} => job[w].kind \in {"credentials", "remember"}
    /\ job[w].pc \in {"merge", "compare"} => job[w].orig \in [secret : Secret]
    /\ job[w].pc \in {"fence", "write"} /\ job[w].kind # "drop" => Ready(w)
    /\ job[w].pc \in ConfirmPcs \ {"commit", "settle"} =>
          job[w].edit \in Settings /\ job[w].edit.flags = "system"
    /\ job[w].pc = "commit" =>
          job[w].base \in Settings /\ job[w].base.secret = "new" /\ job[w].base.flags = "system"
    /\ job[w].pc = "settle" => job[w].landed = "new"

\* What a version fence tells: at the version read the settings are those read.
FencedOf(w) ==
    Held(w) =>
        /\ job[w].pc \in {"check", "secrets", "fence", "write", "commit"} =>
              Now.ver >= job[w].ver /\ (Now.ver = job[w].ver => Now.mem = job[w].base)
        /\ job[w].pc = "merge" =>
              /\ Now.ver >= job[w].ver + 1
              /\ Now.ver = job[w].ver + 1 =>
                    Now.mem = job[w].base /\ job[w].orig.secret = job[w].base.secret
        /\ job[w].pc \in {"recheck", "reveal"} => Now.ver >= job[w].ver
        /\ job[w].pc = "reveal" /\ Now.ver = job[w].ver => Public(Now.mem) = job[w].edit
        /\ job[w].pc = "compare" =>
              /\ Now.ver >= job[w].ver + 1
              /\ Now.ver = job[w].ver + 1 =>
                    Public(Now.mem) = job[w].edit /\ job[w].orig.secret = Now.mem.secret

Quiets == {"cancellation-pending", "disconnect-pending", "not-saved", "failed"}

ReportOf(w) ==
    /\ job[w].pc # "done" => job[w].result = NONE
    /\ job[w].pc \notin {"delete", "done"} => job[w].gone = {}
    /\ job[w].result \in Quiets => job[w].gone = {}
    /\ job[w].result \in {"forgotten", "partial"} => job[w].gone # {}
    /\ job[w].result = "stored" => job[w].landed = "new"

GoneOf(w) == \A p \in job[w].gone : ~prof[p].here /\ link.profile # p

StoreInv ==
    /\ StoreType
    /\ \A w \in Workers : KindOf(w) /\ EditOf(w) /\ FencedOf(w) /\ ReportOf(w) /\ GoneOf(w)

LEMMA SettingsEqual ==
  ASSUME NEW s \in Settings, NEW t \in Settings, s.band = t.band, s.auto = t.auto, s.note = t.note,
         s.flags = t.flags, s.secret = t.secret
  PROVE  s = t
BY SMTT(40) DEF Settings

LEMMA PublicFields ==
  ASSUME NEW s \in Settings
  PROVE  /\ Public(s) \in Settings /\ Public(s).secret = NONE
         /\ Public(s).band = s.band /\ Public(s).auto = s.auto /\ Public(s).note = s.note
         /\ Public(s).flags = s.flags
BY DEF Public, Settings

LEMMA FilledFields ==
  ASSUME NEW e \in Settings, NEW b \in Settings
  PROVE  /\ Filled(e, b) \in Settings
         /\ Filled(e, b).band = e.band /\ Filled(e, b).auto = e.auto /\ Filled(e, b).note = e.note
         /\ Filled(e, b).flags = e.flags
         /\ Filled(e, b).secret = IF e.secret = NONE THEN b.secret ELSE e.secret
BY DEF Filled, Settings

LEMMA FilledSelf == ASSUME NEW b \in Settings PROVE Filled(b, b) = b
BY FilledFields, SettingsEqual

LEMMA StoredFields ==
  ASSUME prof \in [Profiles -> ProfileRec], NEW p \in Profiles, prof[p].mem \in Settings,
         NEW s \in Settings, prof[p].here
  PROVE  /\ Stored(p, s) \in ProfileRec /\ Stored(p, s).here /\ Stored(p, s).ver = prof[p].ver + 1
         /\ Stored(p, s).mem = Filled(s, prof[p].mem) /\ Stored(p, s).mem \in Settings
         /\ Stored(p, s).disk = Durable(Filled(s, prof[p].mem))
<1> DEFINE mem == Filled(s, prof[p].mem)
<1>1. mem \in Settings
  BY FilledFields
<1>2. Stored(p, s) = [prof[p] EXCEPT !.ver = @ + 1, !.mem = mem, !.disk = Durable(mem),
                                     !.staged = FALSE, !.volatile = FALSE]
  BY DEF Stored, Filled
<1>3. Durable(mem) \in Settings
  BY <1>1, PublicFields DEF Durable
<1>4. mem = Filled(s, prof[p].mem)
  OBVIOUS
<1> HIDE DEF mem
<1>5. prof[p] \in ProfileRec
  OBVIOUS
<1>6. prof[p].ver + 1 \in Nat
  BY <1>5, SMTT(40) DEF ProfileRec
<1>7. Stored(p, s) \in ProfileRec
  BY <1>1, <1>2, <1>3, <1>5, <1>6 DEF ProfileRec
<1>8. /\ Stored(p, s).here = prof[p].here /\ Stored(p, s).ver = prof[p].ver + 1
      /\ Stored(p, s).mem = mem /\ Stored(p, s).disk = Durable(mem)
  BY <1>2, <1>5 DEF ProfileRec
<1>9. QED
  BY <1>1, <1>4, <1>7, <1>8

-----------------------------------------------------------------------------
\* What a step of one writer may do to the others.
Alone(w) == \A v \in Workers \ {w} : job'[v] = job[v]

Rely ==
    /\ owner' = owner
    /\ prof'[Target].here => /\ Now.here
                             /\ prof'[Target] = Now \/ prof'[Target].ver > Now.ver

GoneRely ==
    \A p \in Profiles : ~prof[p].here /\ link.profile # p => ~prof'[p].here /\ link'.profile # p

WriterOf(w) == KindOf(w) /\ EditOf(w) /\ FencedOf(w) /\ ReportOf(w) /\ GoneOf(w)

LEMMA OtherWriter ==
  ASSUME StoreInv, StoreType', NEW w \in Workers, job'[w] = job[w], GoneRely,
         Rely \/ owner' = owner + 1
  PROVE  WriterOf(w)'
<1>t. /\ job[w] \in JobRec /\ Now \in ProfileRec /\ owner \in Nat /\ prof'[Target] \in ProfileRec
      /\ Now.ver \in Nat /\ job[w].ver \in Nat /\ job[w].owner \in Nat /\ prof'[Target].ver \in Nat
      /\ job[w].gone \subseteq Profiles
  BY StoreBounds DEF StoreInv, StoreType, Now, JobRec, ProfileRec
<1>1. KindOf(w)'
  BY <1>t, SMTT(40) DEF StoreInv, KindOf, Rely
<1>2. EditOf(w)'
  <2>1. Mutated(w, Public(job[w].base))' = Mutated(w, Public(job[w].base))
    BY DEF Mutated, Public
  <2>2. Ready(w)' <=> Ready(w)
    BY DEF Ready, OwnField, Filled
  <2>3. EditOf(w)
    BY DEF StoreInv
  <2>4. QED
    BY <2>1, <2>2, <2>3, SMTT(40) DEF EditOf
<1>3. FencedOf(w)'
  <2>1. CASE owner' = owner + 1
    BY <1>t, <2>1, SMTT(40) DEF StoreInv, KindOf, FencedOf, Held
  <2>2. CASE Rely /\ ~prof'[Target].here
    BY <2>2 DEF FencedOf, Held, Now
  <2>3. CASE Rely /\ prof'[Target].here
    <3>1. Held(w)' => Held(w)
      BY <2>3 DEF Rely, Held, Now
    <3>2. FencedOf(w)
      BY DEF StoreInv
    <3>3. CASE prof'[Target] = Now
      BY <3>1, <3>2, <3>3 DEF FencedOf, Now
    <3>4. CASE prof'[Target].ver > Now.ver
      <4>1. /\ Now.ver >= job[w].ver => prof'[Target].ver > job[w].ver
            /\ Now.ver >= job[w].ver + 1 => prof'[Target].ver > job[w].ver + 1
        BY <1>t, <3>4, SMTT(40)
      <4>2. \A a, b \in Nat : a > b => a >= b /\ a # b
        BY SMTT(40)
      <4>3. job[w].ver + 1 \in Nat
        BY <1>t, SMTT(40)
      <4>4. QED
        BY <1>t, <3>1, <3>2, <4>1, <4>2, <4>3 DEF FencedOf, Now
    <3>5. QED
      BY <2>3, <3>3, <3>4 DEF Rely
  <2>4. QED
    BY <2>1, <2>2, <2>3
<1>4. ReportOf(w)' /\ GoneOf(w)'
  BY <1>t DEF StoreInv, ReportOf, GoneOf, GoneRely
<1>5. QED
  BY <1>1, <1>2, <1>3, <1>4 DEF WriterOf

LEMMA WriterKeeps ==
  ASSUME StoreInv, StoreType', NEW w \in Workers, Alone(w), GoneRely, Rely, WriterOf(w)'
  PROVE  StoreInv'
<1>1. \A v \in Workers \ {w} : WriterOf(v)'
  BY OtherWriter DEF Alone
<1>2. QED
  BY <1>1 DEF StoreInv, WriterOf

LEMMA NothingMoves == ASSUME UNCHANGED <<prof, link, owner>> PROVE Rely /\ GoneRely
BY DEF Rely, GoneRely, Now

-----------------------------------------------------------------------------
\* A writer that only goes on, and one that ends.
SameJob(w) ==
    /\ job'[w].kind = job[w].kind /\ job'[w].owner = job[w].owner /\ job'[w].ver = job[w].ver
    /\ job'[w].base = job[w].base /\ job'[w].edit = job[w].edit /\ job'[w].orig = job[w].orig
    /\ job'[w].rollback = job[w].rollback /\ job'[w].gone = job[w].gone
    /\ job'[w].landed = job[w].landed /\ job'[w].result = job[w].result

LEMMA GotoMoves ==
  ASSUME job \in [Workers -> JobRec], NEW w \in Workers, NEW pcs \in JobPcs, Goto(w, pcs)
  PROVE  job' \in [Workers -> JobRec] /\ Alone(w) /\ SameJob(w) /\ job'[w].pc = pcs
<1> DEFINE c == [job[w] EXCEPT !.pc = pcs]
<1>1. job[w] \in JobRec /\ job' = [job EXCEPT ![w] = c]
  BY DEF Goto
<1>2. /\ c \in JobRec /\ c.pc = pcs /\ c.kind = job[w].kind /\ c.owner = job[w].owner
      /\ c.ver = job[w].ver /\ c.base = job[w].base /\ c.edit = job[w].edit /\ c.orig = job[w].orig
      /\ c.rollback = job[w].rollback /\ c.gone = job[w].gone /\ c.landed = job[w].landed
      /\ c.result = job[w].result
  BY <1>1 DEF JobRec
<1> HIDE DEF c
<1>3. QED
  BY <1>1, <1>2 DEF Alone, SameJob

LEMMA EndMoves ==
  ASSUME job \in [Workers -> JobRec], NEW w \in Workers, NEW res \in Results, End(w, res)
  PROVE  /\ job' \in [Workers -> JobRec] /\ Alone(w) /\ job'[w].pc = "done"
         /\ job'[w].kind = job[w].kind /\ job'[w].result = res /\ job'[w].gone = job[w].gone
         /\ job'[w].landed = job[w].landed /\ job'[w].owner = 0
<1> DEFINE c == [Idle(job[w].kind) EXCEPT !.pc = "done", !.result = res, !.landed = job[w].landed,
                                          !.gone = job[w].gone]
<1>1. job[w] \in JobRec /\ job' = [job EXCEPT ![w] = c]
  BY DEF End
<1>a. "done" \in JobPcs
  BY DEF JobPcs
<1>2. /\ c \in JobRec /\ c.pc = "done" /\ c.kind = job[w].kind /\ c.result = res
      /\ c.gone = job[w].gone /\ c.landed = job[w].landed /\ c.owner = 0
  BY <1>1, <1>a DEF JobRec, Idle
<1> HIDE DEF c
<1>3. QED
  BY <1>1, <1>2 DEF Alone

\* A job that ends reports what it has done.
LEMMA EndKeeps ==
  ASSUME StoreInv, NEW w \in Workers, NEW res \in Results, End(w, res), Rely, GoneRely,
         prof' \in [Profiles -> ProfileRec], link' \in LinkRec,
         \A p \in Profiles : /\ prof'[p].here => prof'[p].mem \in Settings
                             /\ ~prof'[p].here => prof'[p].disk = NONE,
         res \in Quiets => job[w].gone = {},
         res \in {"forgotten", "partial"} => job[w].gone # {},
         res = "stored" => job[w].landed = "new"
  PROVE  StoreInv'
<1>1. /\ job' \in [Workers -> JobRec] /\ Alone(w) /\ job'[w].pc = "done"
      /\ job'[w].kind = job[w].kind /\ job'[w].result = res /\ job'[w].gone = job[w].gone
      /\ job'[w].landed = job[w].landed /\ job'[w].owner = 0
  BY EndMoves DEF StoreInv, StoreType
<1>2. owner' = owner /\ owner \in Nat /\ job[w].gone \subseteq Profiles
  BY DEF Rely, StoreInv, StoreType, JobRec
<1>3. StoreType'
  BY <1>1, <1>2 DEF StoreType
<1>4. KindOf(w)' /\ EditOf(w)'
  BY <1>1, <1>2, SMTT(40) DEF KindOf, EditOf, EditPcs, BandPcs, ConfirmPcs, ForgetPcs
<1>5. FencedOf(w)'
  BY <1>1 DEF FencedOf
<1>6. ReportOf(w)'
  BY <1>1 DEF ReportOf
<1>7. GoneOf(w)'
  BY <1>1, <1>2 DEF GoneOf, GoneRely, StoreInv
<1>8. WriterOf(w)'
  BY <1>4, <1>5, <1>6, <1>7 DEF WriterOf
<1>9. QED
  BY <1>1, <1>3, <1>8, WriterKeeps

LEMMA EndsQuietly ==
  ASSUME StoreInv, NEW w \in Workers, NEW res \in Results, End(w, res),
         UNCHANGED <<prof, link, owner>>,
         res # "stored", res # "forgotten", res # "partial", job[w].pc \notin {"delete", "done"}
  PROVE  StoreInv'
<1>1. Rely /\ GoneRely
  BY NothingMoves
<1>2. job[w].gone = {}
  BY DEF StoreInv, ReportOf
<1>3. QED
  BY <1>1, <1>2, EndKeeps DEF StoreInv, StoreType

LEMMA FailedKeeps ==
  ASSUME StoreInv, NEW w \in Workers, Failed(w), UNCHANGED <<prof, link, owner>>,
         job[w].pc \notin {"delete", "done"}
  PROVE  StoreInv'
<1>1. End(w, "unrecovered") \/ End(w, "refused")
  BY DEF Failed
<1>2. "unrecovered" \in Results /\ "refused" \in Results
  BY DEF Results
<1>3. CASE End(w, "unrecovered")
  BY <1>2, <1>3, EndsQuietly
<1>4. CASE End(w, "refused")
  BY <1>2, <1>4, EndsQuietly
<1>5. QED
  BY <1>1, <1>3, <1>4

-----------------------------------------------------------------------------
\* The steps of a profile edit.

LEMMA StoreTypes ==
  ASSUME StoreInv, NEW w \in Workers
  PROVE  /\ job \in [Workers -> JobRec] /\ job[w] \in JobRec
         /\ Now \in ProfileRec /\ Now.ver \in Nat /\ (Now.here => Now.mem \in Settings)
         /\ owner \in Nat /\ job[w].ver \in Nat /\ job[w].owner \in Nat /\ job[w].kind \in Kinds
         /\ job[w].rollback \in BOOLEAN
         /\ KindOf(w) /\ EditOf(w) /\ FencedOf(w) /\ ReportOf(w) /\ GoneOf(w)
<1>1. job \in [Workers -> JobRec] /\ job[w] \in JobRec /\ Now \in ProfileRec /\ owner \in Nat
  BY StoreBounds DEF StoreInv, StoreType, Now
<1>2. Now.here => Now.mem \in Settings
  BY StoreBounds DEF StoreInv, StoreType, Now
<1>3. QED
  BY <1>1, <1>2 DEF StoreInv, JobRec, ProfileRec

\* A writer that goes on.
LEMMA OnKeeps ==
  ASSUME StoreInv, NEW w \in Workers, job' \in [Workers -> JobRec], Alone(w), Rely, GoneRely,
         prof' \in [Profiles -> ProfileRec], link' \in LinkRec,
         \A p \in Profiles : /\ prof'[p].here => prof'[p].mem \in Settings
                             /\ ~prof'[p].here => prof'[p].disk = NONE,
         job[w].pc \notin {"delete", "done"}, job'[w].pc # "done",
         job'[w].gone = job[w].gone, job'[w].result = job[w].result,
         KindOf(w)', EditOf(w)', FencedOf(w)'
  PROVE  StoreInv'
<1>1. StoreType'
  BY DEF StoreInv, StoreType, Rely
<1>2. job[w].gone = {} /\ job[w].result = NONE
  BY DEF StoreInv, ReportOf
<1>3. NONE \notin Quiets /\ NONE \notin {"forgotten", "partial", "stored"}
  BY StoreBounds DEF Quiets, Results
<1>4. ReportOf(w)' /\ GoneOf(w)'
  BY <1>2, <1>3 DEF ReportOf, GoneOf
<1>5. QED
  BY <1>1, <1>4, WriterKeeps DEF WriterOf

LEMMA OnQuietly ==
  ASSUME StoreInv, NEW w \in Workers, job' \in [Workers -> JobRec], Alone(w),
         UNCHANGED <<prof, link, owner>>,
         job[w].pc \notin {"delete", "done"}, job'[w].pc # "done",
         job'[w].gone = job[w].gone, job'[w].result = job[w].result,
         KindOf(w)', EditOf(w)', FencedOf(w)'
  PROVE  StoreInv'
BY OnKeeps, NothingMoves DEF StoreInv, StoreType

LEMMA MutatedFields ==
  ASSUME NEW w \in Workers, NEW s \in Settings, job[w].kind \in Editing,
         job[w].rollback \in BOOLEAN, job[w].kind = "band" => job[w].orig \in Settings
  PROVE  /\ Mutated(w, s) \in Settings
         /\ Mutated(w, s).note = s.note
         /\ Mutated(w, s).auto = IF job[w].kind = "autoconnect" THEN FALSE ELSE s.auto
         /\ Mutated(w, s).band = IF job[w].kind = "band"
                                 THEN IF job[w].rollback THEN job[w].orig.band ELSE "5GHz"
                                 ELSE s.band
         /\ Mutated(w, s).secret = IF job[w].kind = "credentials" THEN "new" ELSE s.secret
         /\ job[w].kind # "credentials" => Mutated(w, s).flags = s.flags
<1>1. CASE job[w].kind = "autoconnect"
  BY <1>1 DEF Mutated, Settings
<1>2. CASE job[w].kind = "band"
  BY <1>2 DEF Mutated, Settings
<1>3. CASE job[w].kind = "credentials"
  BY <1>3 DEF Mutated, Settings
<1>4. CASE job[w].kind \in {"remember", "drop"}
  BY <1>4 DEF Mutated, Settings
<1>5. QED
  BY <1>1, <1>2, <1>3, <1>4 DEF Editing

\* The settings an edit starts from, with its own field changed.
LEMMA EditFields ==
  ASSUME NEW w \in Workers, job[w].base \in Settings, job[w].kind \in Editing,
         job[w].rollback \in BOOLEAN, job[w].kind = "band" => job[w].orig \in Settings,
         job[w].edit = Mutated(w, Public(job[w].base))
  PROVE  /\ job[w].edit \in Settings /\ job[w].edit.note = job[w].base.note
         /\ job[w].kind # "autoconnect" => job[w].edit.auto = job[w].base.auto
         /\ job[w].kind # "band" => job[w].edit.band = job[w].base.band
         /\ job[w].kind = "band" /\ job[w].rollback => job[w].edit.band = job[w].orig.band
         /\ job[w].edit.secret = IF job[w].kind = "credentials" THEN "new" ELSE NONE
         /\ job[w].kind # "credentials" => job[w].edit.flags = job[w].base.flags
<1> DEFINE s == Public(job[w].base)
           m == Mutated(w, s)
<1>1. /\ s \in Settings /\ s.secret = NONE /\ s.band = job[w].base.band /\ s.auto = job[w].base.auto
      /\ s.note = job[w].base.note /\ s.flags = job[w].base.flags
  BY PublicFields
<1>2. m = job[w].edit
  OBVIOUS
<1> HIDE DEF s
<1>3. /\ m \in Settings /\ m.note = s.note
      /\ m.auto = IF job[w].kind = "autoconnect" THEN FALSE ELSE s.auto
      /\ m.band = IF job[w].kind = "band"
                  THEN IF job[w].rollback THEN job[w].orig.band ELSE "5GHz" ELSE s.band
      /\ m.secret = IF job[w].kind = "credentials" THEN "new" ELSE s.secret
      /\ job[w].kind # "credentials" => m.flags = s.flags
  BY <1>1, MutatedFields
<1> HIDE DEF m
<1>4. QED
  BY <1>1, <1>2, <1>3

LEMMA OwnByFields ==
  ASSUME NEW w \in Workers, NEW s \in Settings, NEW t \in Settings, s.note = t.note,
         job[w].kind \in Editing \cup {"confirm"},
         job[w].kind # "autoconnect" => s.auto = t.auto,
         job[w].kind # "band" => s.band = t.band,
         job[w].kind # "credentials" => s.secret = t.secret,
         job[w].kind = "credentials" => t.secret = "new",
         job[w].kind \notin {"credentials", "remember"} => s.flags = t.flags
  PROVE  OwnField(w, s, t)
<1>1. CASE job[w].kind = "autoconnect"
  <2>1. [s EXCEPT !.auto = t.auto] \in Settings
    BY DEF Settings
  <2>2. t = [s EXCEPT !.auto = t.auto]
    BY <1>1, <2>1, SettingsEqual DEF Settings
  <2>3. QED
    BY <1>1, <2>2 DEF OwnField
<1>2. CASE job[w].kind = "band"
  <2>1. [s EXCEPT !.band = t.band] \in Settings
    BY DEF Settings
  <2>2. t = [s EXCEPT !.band = t.band]
    BY <1>2, <2>1, SettingsEqual DEF Settings
  <2>3. QED
    BY <1>2, <2>2 DEF OwnField
<1>3. CASE job[w].kind = "credentials"
  <2>1. [s EXCEPT !.secret = "new", !.flags = t.flags] \in Settings
    BY DEF Settings
  <2>2. t = [s EXCEPT !.secret = "new", !.flags = t.flags]
    BY <1>3, <2>1, SettingsEqual DEF Settings
  <2>3. QED
    BY <1>3, <2>2 DEF OwnField
<1>4. CASE job[w].kind = "remember"
  <2>1. [s EXCEPT !.flags = t.flags] \in Settings
    BY DEF Settings
  <2>2. t = [s EXCEPT !.flags = t.flags]
    BY <1>4, <2>1, SettingsEqual DEF Settings
  <2>3. QED
    BY <1>4, <2>2 DEF OwnField
<1>5. CASE job[w].kind \in {"drop", "confirm"}
  <2>1. t = s
    BY <1>5, SettingsEqual
  <2>2. QED
    BY <1>5, <2>1 DEF OwnField
<1>6. QED
  BY <1>1, <1>2, <1>3, <1>4, <1>5 DEF Editing

LEMMA BeginKeeps == ASSUME StoreInv, NEW w \in Workers, Begin(w) PROVE StoreInv'
<1> DEFINE next == IF job[w].kind = "band" THEN "status" ELSE "snapshot"
           c == [job[w] EXCEPT !.pc = next, !.owner = owner]
<1>1. job[w] \in JobRec /\ job \in [Workers -> JobRec] /\ owner \in Nat
  BY StoreTypes
<1>2. job' = [job EXCEPT ![w] = c] /\ job[w].pc = "start" /\ job[w].kind \in Editing
  BY DEF Begin
<1>3. next \in {"status", "snapshot"} /\ (next = "status" <=> job[w].kind = "band")
  OBVIOUS
<1> HIDE DEF next
<1>b. next \in JobPcs
  BY <1>3 DEF JobPcs, EditPcs, BandPcs
<1>4. /\ c \in JobRec /\ c.pc = next /\ c.owner = owner /\ c.kind = job[w].kind
      /\ c.gone = job[w].gone /\ c.result = job[w].result
  BY <1>1, <1>b DEF JobRec
<1> HIDE DEF c
<1>5. job' \in [Workers -> JobRec] /\ Alone(w) /\ job'[w] = c
  BY <1>1, <1>2, <1>4 DEF Alone
<1>6. owner' = owner
  BY DEF Begin
<1>7. KindOf(w)'
  BY <1>1, <1>2, <1>3, <1>4, <1>5, <1>6, SMTT(40)
     DEF KindOf, EditPcs, BandPcs, ConfirmPcs, ForgetPcs
<1>a. job'[w].pc \in {"status", "snapshot"} /\ (job'[w].kind = "band" => job'[w].pc = "status")
  BY <1>3, <1>4, <1>5
<1>8. EditOf(w)' /\ FencedOf(w)'
  BY <1>a DEF EditOf, FencedOf, ConfirmPcs
<1>9. QED
  BY <1>2, <1>3, <1>4, <1>5, <1>7, <1>8, OnQuietly DEF Begin

LEMMA SnapshotKeeps == ASSUME StoreInv, NEW w \in Workers, Snapshot(w) PROVE StoreInv'
<1>1. job[w].pc = "snapshot" /\ UNCHANGED <<prof, link, owner>>
  BY DEF Snapshot
<1>2. CASE Reaches(w) /\ Acceptable(w) /\ (Editable(w) \/ job[w].kind = "drop")
  <2> DEFINE next == IF job[w].kind = "drop" THEN "write" ELSE "check"
             edit == Mutated(w, Public(Now.mem))
             c == [job[w] EXCEPT !.pc = next, !.ver = Now.ver, !.base = Now.mem, !.edit = edit]
  <2>1. /\ job[w] \in JobRec /\ job \in [Workers -> JobRec] /\ owner \in Nat /\ Now.ver \in Nat
        /\ Now.mem \in Settings /\ job[w].rollback \in BOOLEAN /\ KindOf(w) /\ EditOf(w)
    BY <1>2, StoreTypes DEF Reaches
  <2>2. job' = [job EXCEPT ![w] = c]
    BY <1>2 DEF Snapshot
  <2>3. job[w].kind \in Editing /\ (job[w].kind = "band" => job[w].orig \in Settings)
    BY <1>1, <2>1 DEF KindOf, EditOf, EditPcs
  <2>4. edit \in Settings
    BY <2>1, <2>3, PublicFields, MutatedFields
  <2>5. next \in {"write", "check"} /\ (next = "write" <=> job[w].kind = "drop")
    OBVIOUS
  <2>6. edit = Mutated(w, Public(Now.mem))
    OBVIOUS
  <2> HIDE DEF next, edit
  <2>a. next \in JobPcs
    BY <2>5 DEF JobPcs, EditPcs
  <2>7. /\ c \in JobRec /\ c.pc = next /\ c.owner = job[w].owner /\ c.kind = job[w].kind
        /\ c.gone = job[w].gone /\ c.result = job[w].result /\ c.ver = Now.ver /\ c.base = Now.mem
        /\ c.edit = edit /\ c.orig = job[w].orig /\ c.rollback = job[w].rollback
    BY <2>1, <2>4, <2>a DEF JobRec
  <2> HIDE DEF c
  <2>8. job' \in [Workers -> JobRec] /\ Alone(w) /\ job'[w] = c
    BY <2>1, <2>2, <2>7 DEF Alone
  <2>9. KindOf(w)'
    BY <1>1, <2>1, <2>3, <2>5, <2>7, <2>8 DEF KindOf, EditPcs, BandPcs, ConfirmPcs, ForgetPcs
  <2>10. Mutated(w, Public(job[w].base))' = edit
    BY <2>6, <2>7, <2>8 DEF Mutated, Public
  <2>11. job[w].kind = "band" /\ job[w].rollback => Now.mem.band = "5GHz"
    BY <1>2 DEF Acceptable
  <2>12. EditOf(w)'
    BY <2>1, <2>3, <2>4, <2>5, <2>7, <2>8, <2>10, <2>11
       DEF EditOf, ConfirmPcs
  <2>13. FencedOf(w)'
    BY <1>1, <2>1, <2>5, <2>7, <2>8, SMTT(40) DEF FencedOf, Now
  <2>14. QED
    BY <1>1, <2>5, <2>7, <2>8, <2>9, <2>12, <2>13, OnQuietly
<1>3. CASE ~(Reaches(w) /\ Acceptable(w) /\ (Editable(w) \/ job[w].kind = "drop"))
  <2>1. Failed(w)
    BY <1>3 DEF Snapshot, Failed
  <2>2. QED
    BY <1>1, <2>1, FailedKeeps
<1>4. QED
  BY <1>2, <1>3

LEMMA CheckKeeps == ASSUME StoreInv, NEW w \in Workers, Check(w) PROVE StoreInv'
<1>1. job[w].pc = "check" /\ UNCHANGED <<prof, link, owner>>
  BY DEF Check
<1>2. CASE UpToDate(w) /\ PolicyKept(w)
  <2> DEFINE next == IF job[w].edit.secret # NONE \/ job[w].kind = "remember"
                     THEN "secrets" ELSE "fence"
  <2>1. Goto(w, next)
    BY <1>2 DEF Check
  <2>2. /\ job \in [Workers -> JobRec] /\ KindOf(w) /\ EditOf(w) /\ FencedOf(w)
        /\ job[w].rollback \in BOOLEAN
    BY StoreTypes
  <2>3. /\ job[w].kind \in Editing \ {"drop"} /\ job[w].base \in Settings
        /\ job[w].edit = Mutated(w, Public(job[w].base))
        /\ job[w].kind = "band" => job[w].orig \in Settings
        /\ job[w].kind = "band" /\ job[w].rollback => job[w].base.band = "5GHz"
    BY <1>1, <2>2 DEF KindOf, EditOf, EditPcs
  <2>4. next \in {"secrets", "fence"}
    OBVIOUS
  <2>a. job[w].kind \in Editing
    BY <2>3
  <2>b. /\ job[w].edit \in Settings /\ job[w].edit.note = job[w].base.note
        /\ job[w].kind # "autoconnect" => job[w].edit.auto = job[w].base.auto
        /\ job[w].kind # "band" => job[w].edit.band = job[w].base.band
        /\ job[w].kind = "band" /\ job[w].rollback => job[w].edit.band = job[w].orig.band
        /\ job[w].edit.secret = IF job[w].kind = "credentials" THEN "new" ELSE NONE
        /\ job[w].kind # "credentials" => job[w].edit.flags = job[w].base.flags
    BY <2>2, <2>3, <2>a, EditFields
  <2>5. next = "secrets" => job[w].kind \in {"credentials", "remember"}
    BY <2>b
  <2>c. "new" # NONE
    BY StoreBounds
  <2>6. next = "fence" => job[w].kind \in {"autoconnect", "band"} /\ job[w].edit.secret = NONE
    BY <2>b, <2>c, <2>3 DEF Editing
  <2> HIDE DEF next
  <2>7. next = "fence" => Ready(w)
    <3> SUFFICES ASSUME next = "fence" PROVE Ready(w)
      OBVIOUS
    <3> DEFINE e == job[w].edit
               b == job[w].base
    <3>1. /\ Filled(e, b) \in Settings /\ Filled(e, b).secret = b.secret
          /\ Filled(e, b).band = e.band /\ Filled(e, b).auto = e.auto /\ Filled(e, b).note = e.note
          /\ Filled(e, b).flags = e.flags
      BY <2>3, <2>6, <2>b, FilledFields
    <3>2. OwnField(w, b, Filled(e, b))
      BY <2>3, <2>6, <2>b, <3>1, OwnByFields
    <3>3. QED
      BY <2>3, <2>b, <3>2 DEF Ready
  <2>8. job' \in [Workers -> JobRec] /\ Alone(w) /\ SameJob(w) /\ job'[w].pc = next
    BY <2>1, <2>2, <2>4, GotoMoves DEF JobPcs, EditPcs
  <2>9. KindOf(w)'
    BY <1>1, <2>2, <2>3, <2>4, <2>8
       DEF KindOf, SameJob, EditPcs, BandPcs, ConfirmPcs, ForgetPcs
  <2>10. Mutated(w, Public(job[w].base))' = Mutated(w, Public(job[w].base))
    BY <2>8 DEF Mutated, Public, SameJob
  <2>11. Ready(w)' <=> Ready(w)
    BY <2>8 DEF Ready, OwnField, SameJob, Filled
  <2>12. EditOf(w)'
    BY <2>3, <2>4, <2>5, <2>7, <2>8, <2>10, <2>11 DEF EditOf, SameJob, ConfirmPcs
  <2>13. FencedOf(w)'
    BY <1>1, <2>2, <2>4, <2>8 DEF FencedOf, Held, Now, SameJob
  <2>14. QED
    BY <1>1, <2>4, <2>8, <2>9, <2>12, <2>13, OnQuietly DEF SameJob
<1>3. CASE ~(UpToDate(w) /\ PolicyKept(w))
  BY <1>1, <1>3, FailedKeeps DEF Check
<1>4. QED
  BY <1>2, <1>3

\* A write of one profile, as the other writers see it.
LEMMA ProfileMoves ==
  ASSUME StoreInv, NEW p \in Profiles, NEW P \in ProfileRec, prof' = [prof EXCEPT ![p] = P],
         P.here => P.mem \in Settings /\ prof[p].here /\ P.ver > prof[p].ver,
         ~P.here => P.disk = NONE, owner' = owner,
         \A q \in Profiles : ~prof[q].here /\ link.profile # q => link'.profile # q
  PROVE  /\ prof' \in [Profiles -> ProfileRec] /\ Rely /\ GoneRely /\ prof'[p] = P
         /\ \A q \in Profiles : /\ prof'[q].here => prof'[q].mem \in Settings
                                /\ ~prof'[q].here => prof'[q].disk = NONE
<1>1. prof \in [Profiles -> ProfileRec]
  BY DEF StoreInv, StoreType
<1>2. \A q \in Profiles : prof'[q] = IF q = p THEN P ELSE prof[q]
  BY <1>1
<1>3. prof' \in [Profiles -> ProfileRec]
  BY <1>1
<1>4. Rely
  BY <1>2, StoreBounds DEF Rely, Now
<1>5. GoneRely
  BY <1>2 DEF GoneRely
<1>6. QED
  BY <1>2, <1>3, <1>4, <1>5 DEF StoreInv, StoreType

LEMMA RevealMoves ==
  ASSUME StoreInv, Now.here, prof' = [prof EXCEPT ![Target].ver = @ + 1], UNCHANGED <<link, owner>>
  PROVE  /\ prof' \in [Profiles -> ProfileRec] /\ Rely /\ GoneRely
         /\ prof'[Target].here /\ prof'[Target].mem = Now.mem /\ prof'[Target].ver = Now.ver + 1
         /\ \A q \in Profiles : /\ prof'[q].here => prof'[q].mem \in Settings
                                /\ ~prof'[q].here => prof'[q].disk = NONE
<1> DEFINE P == [Now EXCEPT !.ver = @ + 1]
<1>1. prof' = [prof EXCEPT ![Target] = P]
  BY DEF Now
<1>2. Now \in ProfileRec /\ Now.mem \in Settings /\ Target \in Profiles
  BY StoreBounds DEF StoreInv, StoreType, Now
<1>3. P \in ProfileRec /\ P.here /\ P.mem = Now.mem /\ P.ver = Now.ver + 1 /\ P.ver > Now.ver
  BY <1>2, SMTT(40) DEF ProfileRec
<1> HIDE DEF P
<1>4. P.here => P.mem \in Settings /\ prof[Target].here /\ P.ver > prof[Target].ver
  BY <1>2, <1>3 DEF Now
<1>5. QED
  BY <1>1, <1>2, <1>3, <1>4, ProfileMoves

LEMMA GetSecretsKeeps == ASSUME StoreInv, NEW w \in Workers, GetSecrets(w) PROVE StoreInv'
<1>1. job[w].pc = "secrets" /\ UNCHANGED <<link, owner>>
  BY DEF GetSecrets
<1>2. CASE Failed(w) /\ UNCHANGED prof
  BY <1>1, <1>2, FailedKeeps
<1>3. ASSUME Reaches(w), prof' = [prof EXCEPT ![Target].ver = @ + 1],
             job' = [job EXCEPT ![w].pc = "merge", ![w].orig = IF job[w].kind = "band" THEN @
                                                              ELSE [secret |-> Now.mem.secret]]
      PROVE  StoreInv'
  <2> DEFINE o == [secret |-> Now.mem.secret]
             c == [job[w] EXCEPT !.pc = "merge", !.orig = o]
  <2>1. /\ job[w] \in JobRec /\ job \in [Workers -> JobRec] /\ Now.ver \in Nat /\ job[w].ver \in Nat
        /\ Now.mem \in Settings /\ KindOf(w) /\ EditOf(w) /\ FencedOf(w) /\ Now.here
    BY <1>3, StoreTypes DEF Reaches
  <2>2. /\ job[w].kind \in {"credentials", "remember"} /\ job[w].base \in Settings
        /\ job[w].edit = Mutated(w, Public(job[w].base))
    BY <1>1, <2>1 DEF EditOf
  <2>3. job' = [job EXCEPT ![w] = c]
    BY <1>3, <2>2
  <2>4. o \in [secret : Secret] /\ o.secret = Now.mem.secret
    BY <2>1 DEF Settings, Secret
  <2>5. "merge" \in JobPcs
    BY DEF JobPcs, EditPcs
  <2> HIDE DEF o
  <2>6. /\ c \in JobRec /\ c.pc = "merge" /\ c.owner = job[w].owner /\ c.kind = job[w].kind
        /\ c.gone = job[w].gone /\ c.result = job[w].result /\ c.ver = job[w].ver
        /\ c.base = job[w].base /\ c.edit = job[w].edit /\ c.orig = o
        /\ c.rollback = job[w].rollback
    BY <2>1, <2>4, <2>5 DEF JobRec
  <2> HIDE DEF c
  <2>7. job' \in [Workers -> JobRec] /\ Alone(w) /\ job'[w] = c
    BY <2>1, <2>3, <2>6 DEF Alone
  <2>8. KindOf(w)'
    BY <1>1, <2>1, <2>2, <2>6, <2>7 DEF KindOf, Editing, EditPcs, BandPcs, ConfirmPcs, ForgetPcs
  <2>9. Mutated(w, Public(job[w].base))' = Mutated(w, Public(job[w].base))
    BY <2>2, <2>6, <2>7 DEF Mutated, Public
  <2>10. EditOf(w)'
    BY <2>2, <2>4, <2>6, <2>7, <2>9 DEF EditOf, ConfirmPcs
  <2>11. /\ prof' \in [Profiles -> ProfileRec] /\ Rely /\ GoneRely
         /\ prof'[Target].here /\ prof'[Target].mem = Now.mem /\ prof'[Target].ver = Now.ver + 1
         /\ \A q \in Profiles : /\ prof'[q].here => prof'[q].mem \in Settings
                                /\ ~prof'[q].here => prof'[q].disk = NONE
    BY <1>1, <1>3, <2>1, RevealMoves
  <2>12. Now.ver >= job[w].ver /\ (Now.ver = job[w].ver => Now.mem = job[w].base)
    BY <1>1, <1>3, <2>1 DEF FencedOf, Held, Reaches
  <2>13. /\ Now.ver + 1 >= job[w].ver + 1
         /\ Now.ver + 1 = job[w].ver + 1 => Now.mem = job[w].base
    BY <2>1, <2>12, SMTT(40)
  <2>14. FencedOf(w)'
    BY <2>4, <2>6, <2>7, <2>11, <2>13 DEF FencedOf, Now
  <2>15. link' \in LinkRec
    BY <1>1 DEF StoreInv, StoreType
  <2>16. QED
    BY <1>1, <2>6, <2>7, <2>8, <2>10, <2>11, <2>14, <2>15, OnKeeps
<1>4. QED
  BY <1>2, <1>3 DEF GetSecrets

LEMMA MergeKeeps == ASSUME StoreInv, NEW w \in Workers, Merge(w) PROVE StoreInv'
<1>1. job[w].pc = "merge" /\ UNCHANGED <<prof, link, owner>>
  BY DEF Merge
<1>2. CASE ~(Reaches(w) /\ Now.ver = job[w].ver + 1)
  BY <1>1, <1>2, FailedKeeps DEF Merge
<1>3. CASE Reaches(w) /\ Now.ver = job[w].ver + 1
  <2> DEFINE e == job[w].edit
             b == job[w].base
             f == IF job[w].kind = "remember" /\ job[w].orig.secret # NONE THEN "system" ELSE e.flags
             m == [e EXCEPT !.secret = IF @ = NONE THEN job[w].orig.secret ELSE @,
                            !.flags = IF job[w].kind = "remember" /\ job[w].orig.secret # NONE
                                      THEN "system" ELSE @]
             c == [job[w] EXCEPT !.pc = "fence", !.ver = @ + 1, !.edit = m]
  <2>1. /\ job[w] \in JobRec /\ job \in [Workers -> JobRec] /\ Now.ver \in Nat /\ job[w].ver \in Nat
        /\ KindOf(w) /\ EditOf(w) /\ FencedOf(w) /\ Now.here /\ job[w].rollback \in BOOLEAN
    BY <1>3, StoreTypes DEF Reaches
  <2>2. /\ job[w].kind \in {"credentials", "remember"} /\ b \in Settings
        /\ e = Mutated(w, Public(b))
    BY <1>1, <2>1 DEF EditOf
  <2>3. Now.mem = b /\ job[w].orig.secret = b.secret
    BY <1>1, <1>3, <2>1 DEF FencedOf, Held, Reaches
  <2>4. job' = [job EXCEPT ![w] = c]
    BY <1>3 DEF Merge
  <2>6. /\ e \in Settings /\ e.note = b.note /\ e.auto = b.auto /\ e.band = b.band
        /\ e.secret = IF job[w].kind = "credentials" THEN "new" ELSE NONE
    <3>1. job[w].kind \in Editing /\ job[w].kind # "band" /\ job[w].kind # "autoconnect"
      BY <2>2 DEF Editing
    <3>2. QED
      BY <2>1, <2>2, <3>1, EditFields
  <2>7. f \in {"system", "agent", "session"}
    BY <2>6 DEF Settings
  <2>8. "new" # NONE
    BY StoreBounds
  <2> HIDE DEF f
  <2>9. /\ m \in Settings /\ m.note = b.note /\ m.auto = b.auto /\ m.band = b.band
        /\ m.secret = IF job[w].kind = "credentials" THEN "new" ELSE b.secret
    BY <2>2, <2>3, <2>6, <2>7, <2>8 DEF Settings
  <2>10. "fence" \in JobPcs /\ job[w].ver + 1 \in Nat
    BY <2>1, SMTT(40) DEF JobPcs, EditPcs
  <2> HIDE DEF m
  <2>11. /\ c \in JobRec /\ c.pc = "fence" /\ c.owner = job[w].owner /\ c.kind = job[w].kind
         /\ c.gone = job[w].gone /\ c.result = job[w].result /\ c.ver = job[w].ver + 1
         /\ c.base = job[w].base /\ c.edit = m /\ c.orig = job[w].orig
         /\ c.rollback = job[w].rollback
    BY <2>1, <2>9, <2>10 DEF JobRec
  <2> HIDE DEF c
  <2>12. job' \in [Workers -> JobRec] /\ Alone(w) /\ job'[w] = c
    BY <2>1, <2>4, <2>11 DEF Alone
  <2>13. KindOf(w)'
    BY <1>1, <2>1, <2>2, <2>11, <2>12 DEF KindOf, Editing, EditPcs, BandPcs, ConfirmPcs, ForgetPcs
  <2>14. /\ Filled(m, b) \in Settings /\ Filled(m, b).note = b.note /\ Filled(m, b).auto = b.auto
         /\ Filled(m, b).band = b.band
         /\ Filled(m, b).secret = IF job[w].kind = "credentials" THEN "new" ELSE b.secret
    BY <2>2, <2>8, <2>9, FilledFields
  <2>15. OwnField(w, b, Filled(m, b))
    BY <2>2, <2>14, OwnByFields DEF Editing
  <2>16. Ready(w)'
    <3>1. job'[w].base = b /\ job'[w].edit = m /\ job'[w].kind = job[w].kind
      BY <2>11, <2>12
    <3> HIDE DEF b
    <3>2. QED
      BY <2>2, <2>9, <2>15, <3>1 DEF Ready, OwnField, Filled
  <2>17. EditOf(w)'
    BY <2>2, <2>11, <2>12, <2>16 DEF EditOf, ConfirmPcs
  <2>18. FencedOf(w)'
    <3>1. /\ job'[w].pc = "fence" /\ job'[w].base = b /\ job'[w].ver = job[w].ver + 1
          /\ Now' = Now /\ Now.ver = job[w].ver + 1 /\ Now.ver \in Nat
      BY <1>1, <1>3, <2>1, <2>11, <2>12 DEF Now
    <3> HIDE DEF b
    <3>2. QED
      BY <2>3, <3>1, SMTT(40) DEF FencedOf
  <2>19. QED
    BY <1>1, <2>11, <2>12, <2>13, <2>17, <2>18, OnQuietly
<1>4. QED
  BY <1>2, <1>3

LEMMA FenceKeeps == ASSUME StoreInv, NEW w \in Workers, Fence(w) PROVE StoreInv'
<1>1. job[w].pc = "fence" /\ UNCHANGED <<prof, link, owner>>
  BY DEF Fence
<1>2. CASE Failed(w)
  BY <1>1, <1>2, FailedKeeps
<1>3. CASE Goto(w, "write")
  <2>1. job \in [Workers -> JobRec] /\ KindOf(w) /\ EditOf(w) /\ FencedOf(w)
    BY StoreTypes
  <2>2. "write" \in JobPcs
    BY DEF JobPcs, EditPcs
  <2>3. job' \in [Workers -> JobRec] /\ Alone(w) /\ SameJob(w) /\ job'[w].pc = "write"
    BY <1>3, <2>1, <2>2, GotoMoves
  <2>4. KindOf(w)'
    BY <1>1, <2>1, <2>3 DEF KindOf, SameJob, EditPcs, BandPcs, ConfirmPcs, ForgetPcs
  <2>5. Ready(w)' <=> Ready(w)
    BY <2>3 DEF Ready, OwnField, SameJob, Filled
  <2>6. EditOf(w)'
    BY <1>1, <2>1, <2>3, <2>5 DEF EditOf, SameJob, ConfirmPcs
  <2>7. FencedOf(w)'
    BY <1>1, <2>1, <2>3 DEF FencedOf, Held, Now, SameJob
  <2>8. QED
    BY <1>1, <2>3, <2>4, <2>6, <2>7, OnQuietly DEF SameJob
<1>4. QED
  BY <1>2, <1>3 DEF Fence

\* What a write may do (the action of EditsRespectOthers, for one writer).
WriteGood(w) ==
    /\ Now.mem = job[w].base
    /\ prof'[Target].here => OwnField(w, Now.mem, prof'[Target].mem)
    /\ job[w].kind = "band" /\ job[w].rollback =>
         Now.mem.band = "5GHz" /\ prof'[Target].mem.band = job[w].orig.band

\* A write that NetworkManager applies.
LEMMA AppliedMoves ==
  ASSUME StoreInv, NEW w \in Workers, job[w].pc = "write", UpToDate(w),
         prof' = [prof EXCEPT ![Target] = Applied(w)], UNCHANGED <<link, owner>>
  PROVE  /\ prof' \in [Profiles -> ProfileRec] /\ Rely /\ GoneRely /\ WriteGood(w)
         /\ \A q \in Profiles : /\ prof'[q].here => prof'[q].mem \in Settings
                                /\ ~prof'[q].here => prof'[q].disk = NONE
<1>1. /\ job[w] \in JobRec /\ Now \in ProfileRec /\ Now.ver \in Nat /\ Now.here
      /\ Now.mem \in Settings /\ KindOf(w) /\ EditOf(w) /\ FencedOf(w)
  BY StoreTypes DEF UpToDate, Reaches
<1>2. Now.mem = job[w].base /\ job[w].kind \in Editing /\ Target \in Profiles
  BY <1>1, StoreBounds DEF FencedOf, Held, UpToDate, Reaches, KindOf, EditPcs
<1>3. \A q \in Profiles : ~prof[q].here /\ link.profile # q => link'.profile # q
  OBVIOUS
<1> DEFINE P == Applied(w)
<1>4. CASE job[w].kind = "drop" /\ link.profile = Target
  <2>1. P = [Now EXCEPT !.ver = @ + 1, !.staged = TRUE, !.volatile = TRUE]
    BY <1>4 DEF Applied, Dropped
  <2> HIDE DEF P
  <2>a. Now.ver + 1 \in Nat
    BY <1>1, SMTT(40)
  <2>2. P \in ProfileRec /\ P.here = Now.here /\ P.mem = Now.mem /\ P.ver = Now.ver + 1
    <3>1. TRUE \in BOOLEAN
      OBVIOUS
    <3>2. P \in ProfileRec
      BY <1>1, <2>1, <2>a, <3>1 DEF ProfileRec
    <3>3. P.here = Now.here /\ P.mem = Now.mem /\ P.ver = Now.ver + 1
      BY <1>1, <2>1 DEF ProfileRec
    <3>4. QED
      BY <3>2, <3>3
  <2>3. P.here => P.mem \in Settings /\ prof[Target].here /\ P.ver > prof[Target].ver
    BY <1>1, <2>2, SMTT(40) DEF Now
  <2>4. prof' = [prof EXCEPT ![Target] = P]
    BY DEF P
  <2>5. /\ prof' \in [Profiles -> ProfileRec] /\ Rely /\ GoneRely /\ prof'[Target] = P
        /\ \A q \in Profiles : /\ prof'[q].here => prof'[q].mem \in Settings
                               /\ ~prof'[q].here => prof'[q].disk = NONE
    BY <1>1, <1>2, <1>3, <2>2, <2>3, <2>4, ProfileMoves
  <2>6. WriteGood(w)
    BY <1>2, <1>4, <2>2, <2>5 DEF WriteGood, OwnField
  <2>7. QED
    BY <2>5, <2>6
<1>5. CASE job[w].kind = "drop" /\ link.profile # Target
  <2>1. P = Gone
    BY <1>5 DEF Applied, Dropped
  <2> HIDE DEF P
  <2>2. P \in ProfileRec /\ ~P.here /\ P.disk = NONE
    BY <2>1 DEF ProfileRec, Gone
  <2>3. prof' = [prof EXCEPT ![Target] = P]
    BY DEF P
  <2>4. /\ prof' \in [Profiles -> ProfileRec] /\ Rely /\ GoneRely /\ prof'[Target] = P
        /\ \A q \in Profiles : /\ prof'[q].here => prof'[q].mem \in Settings
                               /\ ~prof'[q].here => prof'[q].disk = NONE
    BY <1>2, <1>3, <2>2, <2>3, ProfileMoves
  <2>5. WriteGood(w)
    BY <1>2, <1>5, <2>2, <2>4 DEF WriteGood
  <2>6. QED
    BY <2>4, <2>5
<1>6. CASE job[w].kind # "drop"
  <2>1. P = Stored(Target, job[w].edit)
    BY <1>6 DEF Applied
  <2>2. Ready(w)
    BY <1>1, <1>6 DEF EditOf
  <2>3. prof \in [Profiles -> ProfileRec]
    BY DEF StoreInv, StoreType
  <2> HIDE DEF P
  <2>4. /\ P \in ProfileRec /\ P.here /\ P.ver = Now.ver + 1
        /\ P.mem = Filled(job[w].edit, Now.mem) /\ P.mem \in Settings
    BY <1>1, <1>2, <2>1, <2>2, <2>3, StoredFields DEF Ready, Now
  <2>5. P.here => P.mem \in Settings /\ prof[Target].here /\ P.ver > prof[Target].ver
    BY <1>1, <2>4, SMTT(40) DEF Now
  <2>6. prof' = [prof EXCEPT ![Target] = P]
    BY DEF P
  <2>7. /\ prof' \in [Profiles -> ProfileRec] /\ Rely /\ GoneRely /\ prof'[Target] = P
        /\ \A q \in Profiles : /\ prof'[q].here => prof'[q].mem \in Settings
                               /\ ~prof'[q].here => prof'[q].disk = NONE
    BY <1>2, <1>3, <2>4, <2>5, <2>6, ProfileMoves
  <2>8. P.mem.band = job[w].edit.band
    BY <1>1, <2>2, <2>4, FilledFields, SMTT(40) DEF Ready
  <2>9. WriteGood(w)
    BY <1>2, <2>2, <2>4, <2>7, <2>8 DEF WriteGood, Ready
  <2>10. QED
    BY <2>7, <2>9
<1>7. QED
  BY <1>4, <1>5, <1>6

\* Control points at which nothing read is kept.
Plain == {"written", "activate", "await", "recover", "cancelled", "disconnect", "confirm", "delete"}

LEMMA GotoKeeps ==
  ASSUME StoreInv, NEW w \in Workers, NEW pcs \in Plain, Goto(w, pcs), Rely, GoneRely,
         prof' \in [Profiles -> ProfileRec], link' \in LinkRec,
         \A p \in Profiles : /\ prof'[p].here => prof'[p].mem \in Settings
                             /\ ~prof'[p].here => prof'[p].disk = NONE,
         job[w].pc \notin {"delete", "done"},
         job[w].kind = "band" => job[w].orig \in Settings,
         pcs = "written" => job[w].kind \in Editing,
         pcs \in {"activate", "await", "recover"} => job[w].kind = "band",
         pcs \in ForgetPcs => job[w].kind = "forget"
  PROVE  StoreInv'
<1>1. job \in [Workers -> JobRec] /\ KindOf(w) /\ pcs \in JobPcs /\ owner' = owner
  BY StoreTypes DEF Plain, JobPcs, EditPcs, BandPcs, ForgetPcs, Rely
<1>2. job' \in [Workers -> JobRec] /\ Alone(w) /\ SameJob(w) /\ job'[w].pc = pcs
  BY <1>1, GotoMoves
<1>3. KindOf(w)'
  BY <1>1, <1>2 DEF KindOf, SameJob, Plain, EditPcs, BandPcs, ConfirmPcs, ForgetPcs
<1>4. EditOf(w)'
  BY <1>2 DEF EditOf, SameJob, Plain, ConfirmPcs
<1>5. FencedOf(w)'
  BY <1>2 DEF FencedOf, Plain
<1>6. QED
  BY <1>2, <1>3, <1>4, <1>5, OnKeeps DEF SameJob, Plain

LEMMA GotoQuietly ==
  ASSUME StoreInv, NEW w \in Workers, NEW pcs \in Plain, Goto(w, pcs),
         UNCHANGED <<prof, link, owner>>, job[w].pc \notin {"delete", "done"},
         job[w].kind = "band" => job[w].orig \in Settings,
         pcs = "written" => job[w].kind \in Editing,
         pcs \in {"activate", "await", "recover"} => job[w].kind = "band",
         pcs \in ForgetPcs => job[w].kind = "forget"
  PROVE  StoreInv'
BY GotoKeeps, NothingMoves DEF StoreInv, StoreType

LEMMA WriteKeeps ==
  ASSUME StoreInv, NEW w \in Workers, Write(w)
  PROVE  StoreInv' /\ (Alone(w)) /\ (prof' # prof => WriteGood(w))
<1>1. job[w].pc = "write" /\ UNCHANGED <<link, owner>>
  BY DEF Write
<1>2. /\ job[w].gone = {} /\ link' \in LinkRec /\ job \in [Workers -> JobRec]
      /\ KindOf(w) /\ EditOf(w)
  BY <1>1, StoreTypes DEF ReportOf, StoreInv, StoreType
<1>3. job[w].kind \in Editing /\ (job[w].kind = "band" => job[w].orig \in Settings)
  BY <1>1, <1>2 DEF KindOf, EditOf, EditPcs
<1>4. "written" \in Plain /\ "written" \in JobPcs /\ "written" \notin ForgetPcs
  BY DEF Plain, JobPcs, EditPcs, ForgetPcs
<1>5. Failed(w) => Alone(w)
  BY <1>2, EndMoves DEF Failed, Results
<1>6. CASE Failed(w) /\ UNCHANGED prof
  BY <1>1, <1>5, <1>6, FailedKeeps
<1>7. CASE UpToDate(w) /\ prof' = [prof EXCEPT ![Target] = Applied(w)]
  <2>1. /\ prof' \in [Profiles -> ProfileRec] /\ Rely /\ GoneRely /\ WriteGood(w)
        /\ \A q \in Profiles : /\ prof'[q].here => prof'[q].mem \in Settings
                               /\ ~prof'[q].here => prof'[q].disk = NONE
    BY <1>1, <1>7, AppliedMoves
  <2>2. CASE Goto(w, "written")
    <3>1. StoreInv'
      BY <1>1, <1>2, <1>3, <1>4, <2>1, <2>2, GotoKeeps
    <3>2. QED
      BY <1>2, <1>4, <2>1, <2>2, <3>1, GotoMoves
  <2>3. ASSUME NEW res \in {"unrecovered", "refused"}, End(w, res) PROVE StoreInv'
    <3>1. /\ res \in Results /\ res \notin Quiets /\ res \notin {"forgotten", "partial"}
          /\ res # "stored"
      BY <2>3 DEF Results, Quiets
    <3>2. QED
      BY <1>2, <2>1, <2>3, <3>1, EndKeeps
  <2>4. CASE Failed(w)
    BY <1>5, <2>1, <2>3, <2>4 DEF Failed
  <2>5. QED
    BY <1>7, <2>2, <2>4, <1>6 DEF Write
<1>8. QED
  BY <1>6, <1>7 DEF Write

LEMMA WrittenKeeps == ASSUME StoreInv, NEW w \in Workers, Written(w) PROVE StoreInv'
<1>1. job[w].pc = "written" /\ UNCHANGED <<prof, link, owner>>
  BY DEF Written
<1>2. job[w].kind \in Editing /\ (job[w].kind = "band" => job[w].orig \in Settings)
  BY <1>1, StoreTypes DEF KindOf, EditOf, EditPcs
<1>3. {"saved", "refused", "deleted", "volatile"} \subseteq Results
  BY DEF Results
<1>4. ASSUME NEW res \in {"saved", "refused", "deleted", "volatile"}, End(w, res) PROVE StoreInv'
  BY <1>1, <1>3, <1>4, EndsQuietly
<1>5. CASE Failed(w)
  BY <1>1, <1>5, FailedKeeps
<1>6. ASSUME NEW pcs \in {"recover", "activate"}, job[w].kind = "band", Goto(w, pcs) PROVE StoreInv'
  <2>1. pcs \in Plain /\ pcs # "written" /\ pcs \notin ForgetPcs
    BY DEF Plain, ForgetPcs
  <2>2. QED
    BY <1>1, <1>2, <1>6, <2>1, GotoQuietly
<1>7. CASE job[w].owner = owner /\ job[w].kind \in {"autoconnect", "credentials"}
  BY <1>4, <1>7 DEF Written
<1>8. CASE job[w].owner = owner /\ job[w].kind = "remember"
  BY <1>4, <1>8 DEF Written
<1>9. CASE job[w].owner = owner /\ job[w].kind = "drop"
  BY <1>4, <1>9 DEF Written
<1>10. CASE job[w].owner = owner /\ job[w].kind = "band"
  BY <1>6, <1>10 DEF Written
<1>11. QED
  BY <1>2, <1>5, <1>7, <1>8, <1>9, <1>10 DEF Written, Editing

-----------------------------------------------------------------------------
\* The steps of a band change around its edits.

\* An activation of a profile that is there.
LEMMA ActivateMoves ==
  ASSUME StoreInv, Now.here, link' = Link(Target, "activating", "auto"), UNCHANGED <<prof, owner>>
  PROVE  link' \in LinkRec /\ Rely /\ GoneRely
<1>1. Target \in Profiles
  BY StoreBounds
<1>2. link' \in LinkRec /\ link'.profile = Target
  BY <1>1 DEF Link, LinkRec
<1>3. QED
  BY <1>2 DEF Rely, GoneRely, Now

LEMMA UndoKeeps ==
  ASSUME StoreInv, NEW w \in Workers, Undo(w), UNCHANGED <<prof, link, owner>>,
         job[w].pc \in {"activate", "await"}
  PROVE  StoreInv'
<1> DEFINE c == [job[w] EXCEPT !.pc = "snapshot", !.rollback = TRUE]
<1>1. job[w] \in JobRec /\ job \in [Workers -> JobRec] /\ KindOf(w) /\ EditOf(w)
  BY StoreTypes
<1>2. job[w].kind = "band" /\ job[w].orig \in Settings
  BY <1>1 DEF KindOf, EditOf, BandPcs
<1>3. job' = [job EXCEPT ![w] = c]
  BY DEF Undo
<1>4. "snapshot" \in JobPcs /\ TRUE \in BOOLEAN
  BY DEF JobPcs, EditPcs
<1>5. /\ c \in JobRec /\ c.pc = "snapshot" /\ c.owner = job[w].owner /\ c.kind = job[w].kind
      /\ c.gone = job[w].gone /\ c.result = job[w].result /\ c.orig = job[w].orig
  BY <1>1, <1>4 DEF JobRec
<1> HIDE DEF c
<1>6. job' \in [Workers -> JobRec] /\ Alone(w) /\ job'[w] = c
  BY <1>1, <1>3, <1>5 DEF Alone
<1>7. KindOf(w)'
  BY <1>1, <1>2, <1>5, <1>6 DEF KindOf, Editing, EditPcs, BandPcs, ConfirmPcs, ForgetPcs
<1>8. EditOf(w)' /\ FencedOf(w)'
  BY <1>2, <1>5, <1>6 DEF EditOf, FencedOf, ConfirmPcs
<1>9. QED
  BY <1>5, <1>6, <1>7, <1>8, OnQuietly

LEMMA BandStatusKeeps == ASSUME StoreInv, NEW w \in Workers, BandStatus(w) PROVE StoreInv'
<1>1. job[w].pc = "status" /\ UNCHANGED <<prof, link, owner>>
  BY DEF BandStatus
<1>2. CASE End(w, "unchanged") \/ End(w, "refused")
  <2>1. "unchanged" \in Results /\ "refused" \in Results
    BY DEF Results
  <2>2. QED
    BY <1>1, <1>2, <2>1, EndsQuietly
<1>3. ASSUME Reaches(w),
             job' = [job EXCEPT ![w].pc = "snapshot", ![w].orig = Public(Now.mem)]
      PROVE  StoreInv'
  <2> DEFINE o == Public(Now.mem)
             c == [job[w] EXCEPT !.pc = "snapshot", !.orig = o]
  <2>1. job[w] \in JobRec /\ job \in [Workers -> JobRec] /\ KindOf(w) /\ Now.mem \in Settings
    BY <1>3, StoreTypes DEF Reaches
  <2>2. job[w].kind = "band" /\ o \in Settings
    BY <1>1, <2>1, PublicFields DEF KindOf, BandPcs
  <2>3. job' = [job EXCEPT ![w] = c]
    BY <1>3
  <2>4. "snapshot" \in JobPcs
    BY DEF JobPcs, EditPcs
  <2> HIDE DEF o
  <2>5. /\ c \in JobRec /\ c.pc = "snapshot" /\ c.owner = job[w].owner /\ c.kind = job[w].kind
        /\ c.gone = job[w].gone /\ c.result = job[w].result /\ c.orig = o
    BY <2>1, <2>2, <2>4 DEF JobRec
  <2> HIDE DEF c
  <2>6. job' \in [Workers -> JobRec] /\ Alone(w) /\ job'[w] = c
    BY <2>1, <2>3, <2>5 DEF Alone
  <2>7. KindOf(w)'
    BY <1>1, <2>1, <2>2, <2>5, <2>6 DEF KindOf, Editing, EditPcs, BandPcs, ConfirmPcs, ForgetPcs
  <2>8. EditOf(w)' /\ FencedOf(w)'
    BY <2>2, <2>5, <2>6 DEF EditOf, FencedOf, ConfirmPcs
  <2>9. QED
    BY <1>1, <2>5, <2>6, <2>7, <2>8, OnQuietly
<1>4. QED
  BY <1>2, <1>3 DEF BandStatus

LEMMA BandActivateKeeps == ASSUME StoreInv, NEW w \in Workers, BandActivate(w) PROVE StoreInv'
<1>1. job[w].pc = "activate" /\ UNCHANGED <<prof, owner>>
  BY DEF BandActivate
<1>2. CASE Undo(w) /\ UNCHANGED link
  BY <1>1, <1>2, UndoKeeps
<1>3. CASE Reaches(w) /\ link' = Link(Target, "activating", "auto") /\ Goto(w, "await")
  <2>1. link' \in LinkRec /\ Rely /\ GoneRely
    BY <1>1, <1>3, ActivateMoves DEF Reaches
  <2>2. job[w].kind = "band" /\ job[w].orig \in Settings
    BY <1>1, StoreTypes DEF KindOf, EditOf, BandPcs
  <2>3. "await" \in Plain /\ "await" \notin ForgetPcs
    BY DEF Plain, ForgetPcs
  <2>4. QED
    BY <1>1, <1>3, <2>1, <2>2, <2>3, GotoKeeps DEF StoreInv, StoreType
<1>4. QED
  BY <1>2, <1>3 DEF BandActivate

LEMMA BandAwaitKeeps == ASSUME StoreInv, NEW w \in Workers, BandAwait(w) PROVE StoreInv'
<1>1. job[w].pc = "await" /\ UNCHANGED <<prof, link, owner>> /\ "selected" \in Results
  BY DEF BandAwait, Results
<1>2. CASE Undo(w)
  BY <1>1, <1>2, UndoKeeps
<1>3. CASE End(w, "selected")
  BY <1>1, <1>3, EndsQuietly
<1>4. QED
  BY <1>2, <1>3 DEF BandAwait

LEMMA BandRecoverKeeps == ASSUME StoreInv, NEW w \in Workers, BandRecover(w) PROVE StoreInv'
<1>1. job[w].pc = "recover" /\ UNCHANGED <<prof, owner>>
  BY DEF BandRecover
<1>2. /\ "recovered" \in Results /\ "recovered" \notin Quiets /\ "unrecovered" \in Results
  BY DEF Results, Quiets
<1>3. CASE End(w, "unrecovered") /\ UNCHANGED link
  BY <1>1, <1>2, <1>3, EndsQuietly
<1>4. CASE Reaches(w) /\ link' = Link(Target, "activating", "auto") /\ End(w, "recovered")
  <2>1. link' \in LinkRec /\ Rely /\ GoneRely
    BY <1>1, <1>4, ActivateMoves DEF Reaches
  <2>2. QED
    BY <1>1, <1>2, <1>4, <2>1, EndKeeps DEF StoreInv, StoreType
<1>5. QED
  BY <1>3, <1>4 DEF BandRecover

-----------------------------------------------------------------------------
\* The steps of a confirmation.

LEMMA Unconfirmed ==
  ASSUME StoreInv, NEW w \in Workers, End(w, "unconfirmed"), UNCHANGED <<prof, link, owner>>,
         job[w].pc \notin {"delete", "done"}
  PROVE  StoreInv'
<1>1. "unconfirmed" \in Results
  BY DEF Results
<1>2. QED
  BY <1>1, EndsQuietly

LEMMA CaptureKeeps == ASSUME StoreInv, NEW w \in Workers, Capture(w) PROVE StoreInv'
<1>1. job[w].pc = "start" /\ job[w].kind = "confirm" /\ UNCHANGED <<prof, link, owner>>
  BY DEF Capture
<1>2. CASE End(w, "unconfirmed")
  BY <1>1, <1>2, Unconfirmed
<1>3. ASSUME Now.here, Now.mem.flags = "system",
             job' = [job EXCEPT ![w].pc = "boundary", ![w].owner = owner, ![w].edit = Public(Now.mem)]
      PROVE  StoreInv'
  <2> DEFINE e == Public(Now.mem)
             c == [job[w] EXCEPT !.pc = "boundary", !.owner = owner, !.edit = e]
  <2>1. job[w] \in JobRec /\ job \in [Workers -> JobRec] /\ Now.mem \in Settings /\ owner \in Nat
    BY <1>3, StoreTypes
  <2>2. e \in Settings /\ e.flags = "system"
    BY <1>3, <2>1, PublicFields
  <2>3. job' = [job EXCEPT ![w] = c]
    BY <1>3
  <2>4. "boundary" \in JobPcs
    BY DEF JobPcs, ConfirmPcs
  <2> HIDE DEF e
  <2>5. /\ c \in JobRec /\ c.pc = "boundary" /\ c.owner = owner /\ c.kind = job[w].kind
        /\ c.gone = job[w].gone /\ c.result = job[w].result /\ c.edit = e
    BY <2>1, <2>2, <2>4 DEF JobRec
  <2> HIDE DEF c
  <2>6. job' \in [Workers -> JobRec] /\ Alone(w) /\ job'[w] = c
    BY <2>1, <2>3, <2>5 DEF Alone
  <2>7. KindOf(w)'
    BY <1>1, <2>1, <2>5, <2>6, SMTT(40) DEF KindOf, EditPcs, BandPcs, ConfirmPcs, ForgetPcs
  <2>8. EditOf(w)' /\ FencedOf(w)'
    BY <1>1, <2>2, <2>5, <2>6 DEF EditOf, FencedOf, ConfirmPcs
  <2>9. QED
    BY <1>1, <2>5, <2>6, <2>7, <2>8, OnQuietly
<1>4. QED
  BY <1>1, <1>2, <1>3 DEF Capture

\* A confirmation that goes on with what it has read.
LEMMA ConfirmGoes ==
  ASSUME StoreInv, NEW w \in Workers, Goto(w, "consume") \/ Goto(w, "inspect"),
         job[w].pc \in {"boundary", "consume"}, UNCHANGED <<prof, link, owner>>
  PROVE  StoreInv'
<1>1. job \in [Workers -> JobRec] /\ KindOf(w) /\ EditOf(w)
  BY StoreTypes
<1>2. "consume" \in JobPcs /\ "inspect" \in JobPcs
  BY DEF JobPcs, ConfirmPcs
<1>3. /\ job' \in [Workers -> JobRec] /\ Alone(w) /\ SameJob(w)
      /\ job'[w].pc \in {"consume", "inspect"}
  BY <1>1, <1>2, GotoMoves
<1>4. job[w].kind = "confirm" /\ job[w].edit \in Settings /\ job[w].edit.flags = "system"
  BY <1>1 DEF KindOf, EditOf, ConfirmPcs
<1>5. KindOf(w)'
  BY <1>1, <1>3, <1>4 DEF KindOf, SameJob, EditPcs, BandPcs, ConfirmPcs, ForgetPcs
<1>6. EditOf(w)' /\ FencedOf(w)'
  BY <1>3, <1>4 DEF EditOf, FencedOf, SameJob, ConfirmPcs
<1>7. QED
  BY <1>3, <1>5, <1>6, OnQuietly DEF SameJob

LEMMA InspectKeeps == ASSUME StoreInv, NEW w \in Workers, Inspect(w) PROVE StoreInv'
<1>1. job[w].pc = "inspect" /\ UNCHANGED <<prof, link, owner>>
  BY DEF Inspect
<1>2. CASE End(w, "unconfirmed")
  BY <1>1, <1>2, Unconfirmed
<1>3. ASSUME job' = [job EXCEPT ![w].pc = "recheck", ![w].ver = Now.ver] PROVE StoreInv'
  <2> DEFINE c == [job[w] EXCEPT !.pc = "recheck", !.ver = Now.ver]
  <2>1. /\ job[w] \in JobRec /\ job \in [Workers -> JobRec] /\ Now.ver \in Nat
        /\ KindOf(w) /\ EditOf(w)
    BY StoreTypes
  <2>2. job[w].kind = "confirm" /\ job[w].edit \in Settings /\ job[w].edit.flags = "system"
    BY <1>1, <2>1 DEF KindOf, EditOf, ConfirmPcs
  <2>3. job' = [job EXCEPT ![w] = c] /\ "recheck" \in JobPcs
    BY <1>3 DEF JobPcs, ConfirmPcs
  <2>4. /\ c \in JobRec /\ c.pc = "recheck" /\ c.owner = job[w].owner /\ c.kind = job[w].kind
        /\ c.gone = job[w].gone /\ c.result = job[w].result /\ c.edit = job[w].edit /\ c.ver = Now.ver
    BY <2>1, <2>3 DEF JobRec
  <2> HIDE DEF c
  <2>5. job' \in [Workers -> JobRec] /\ Alone(w) /\ job'[w] = c
    BY <2>1, <2>3, <2>4 DEF Alone
  <2>6. KindOf(w)'
    BY <1>1, <2>1, <2>2, <2>4, <2>5 DEF KindOf, EditPcs, BandPcs, ConfirmPcs, ForgetPcs
  <2>7. EditOf(w)'
    BY <2>2, <2>4, <2>5 DEF EditOf, ConfirmPcs
  <2>8. FencedOf(w)'
    <3>1. job'[w].pc = "recheck" /\ job'[w].ver = Now.ver /\ Now' = Now /\ Now.ver \in Nat
      BY <1>1, <2>1, <2>4, <2>5 DEF Now
    <3>2. QED
      BY <3>1, SMTT(40) DEF FencedOf
  <2>9. QED
    BY <1>1, <2>4, <2>5, <2>6, <2>7, <2>8, OnQuietly
<1>4. QED
  BY <1>2, <1>3 DEF Inspect

LEMMA RecheckKeeps == ASSUME StoreInv, NEW w \in Workers, Recheck(w) PROVE StoreInv'
<1>1. job[w].pc = "recheck" /\ UNCHANGED <<prof, link, owner>>
  BY DEF Recheck
<1>2. CASE End(w, "unconfirmed")
  BY <1>1, <1>2, Unconfirmed
<1>3. CASE UpToDate(w) /\ Public(Now.mem) = job[w].edit /\ Goto(w, "reveal")
  <2>1. /\ job \in [Workers -> JobRec] /\ KindOf(w) /\ EditOf(w) /\ FencedOf(w)
        /\ "reveal" \in JobPcs
    BY StoreTypes DEF JobPcs, ConfirmPcs
  <2>2. job' \in [Workers -> JobRec] /\ Alone(w) /\ SameJob(w) /\ job'[w].pc = "reveal"
    BY <1>3, <2>1, GotoMoves
  <2>3. job[w].kind = "confirm" /\ job[w].edit \in Settings /\ job[w].edit.flags = "system"
    BY <1>1, <2>1 DEF KindOf, EditOf, ConfirmPcs
  <2>4. KindOf(w)'
    BY <1>1, <2>1, <2>2, <2>3 DEF KindOf, SameJob, EditPcs, BandPcs, ConfirmPcs, ForgetPcs
  <2>5. EditOf(w)'
    BY <2>2, <2>3 DEF EditOf, SameJob, ConfirmPcs
  <2>6. FencedOf(w)'
    BY <1>1, <1>3, <2>1, <2>2 DEF FencedOf, Held, Now, Public, SameJob
  <2>7. QED
    BY <1>1, <2>2, <2>4, <2>5, <2>6, OnQuietly DEF SameJob
<1>4. QED
  BY <1>2, <1>3 DEF Recheck

LEMMA RevealKeeps == ASSUME StoreInv, NEW w \in Workers, Reveal(w) PROVE StoreInv'
<1>1. job[w].pc = "reveal" /\ UNCHANGED <<link, owner>>
  BY DEF Reveal
<1>2. CASE End(w, "unconfirmed") /\ UNCHANGED prof
  BY <1>1, <1>2, Unconfirmed
<1>3. ASSUME Reaches(w), prof' = [prof EXCEPT ![Target].ver = @ + 1],
             job' = [job EXCEPT ![w].pc = "compare", ![w].orig = [secret |-> Now.mem.secret]]
      PROVE  StoreInv'
  <2> DEFINE o == [secret |-> Now.mem.secret]
             c == [job[w] EXCEPT !.pc = "compare", !.orig = o]
  <2>1. /\ job[w] \in JobRec /\ job \in [Workers -> JobRec] /\ Now.ver \in Nat /\ job[w].ver \in Nat
        /\ Now.mem \in Settings /\ KindOf(w) /\ EditOf(w) /\ FencedOf(w) /\ Now.here
    BY <1>3, StoreTypes DEF Reaches
  <2>2. job[w].kind = "confirm" /\ job[w].edit \in Settings /\ job[w].edit.flags = "system"
    BY <1>1, <2>1 DEF KindOf, EditOf, ConfirmPcs
  <2>3. job' = [job EXCEPT ![w] = c] /\ "compare" \in JobPcs
    BY <1>3 DEF JobPcs, ConfirmPcs
  <2>4. o \in [secret : Secret] /\ o.secret = Now.mem.secret
    BY <2>1 DEF Settings, Secret
  <2> HIDE DEF o
  <2>5. /\ c \in JobRec /\ c.pc = "compare" /\ c.owner = job[w].owner /\ c.kind = job[w].kind
        /\ c.gone = job[w].gone /\ c.result = job[w].result /\ c.ver = job[w].ver
        /\ c.edit = job[w].edit /\ c.orig = o
    BY <2>1, <2>3, <2>4 DEF JobRec
  <2> HIDE DEF c
  <2>6. job' \in [Workers -> JobRec] /\ Alone(w) /\ job'[w] = c
    BY <2>1, <2>3, <2>5 DEF Alone
  <2>7. KindOf(w)'
    BY <1>1, <2>1, <2>2, <2>5, <2>6 DEF KindOf, EditPcs, BandPcs, ConfirmPcs, ForgetPcs
  <2>8. EditOf(w)'
    BY <2>2, <2>4, <2>5, <2>6 DEF EditOf, ConfirmPcs
  <2>9. /\ prof' \in [Profiles -> ProfileRec] /\ Rely /\ GoneRely
        /\ prof'[Target].here /\ prof'[Target].mem = Now.mem /\ prof'[Target].ver = Now.ver + 1
        /\ \A q \in Profiles : /\ prof'[q].here => prof'[q].mem \in Settings
                               /\ ~prof'[q].here => prof'[q].disk = NONE
    BY <1>1, <1>3, <2>1, RevealMoves
  <2>10. Now.ver >= job[w].ver /\ (Now.ver = job[w].ver => Public(Now.mem) = job[w].edit)
    BY <1>1, <1>3, <2>1 DEF FencedOf, Held, Reaches
  <2>11. /\ Now.ver + 1 >= job[w].ver + 1
         /\ Now.ver + 1 = job[w].ver + 1 => Public(Now.mem) = job[w].edit
    BY <2>1, <2>10, SMTT(40)
  <2>12. FencedOf(w)'
    BY <2>4, <2>5, <2>6, <2>9, <2>11 DEF FencedOf, Now, Public
  <2>13. link' \in LinkRec
    BY <1>1 DEF StoreInv, StoreType
  <2>14. QED
    BY <1>1, <2>5, <2>6, <2>7, <2>8, <2>9, <2>12, <2>13, OnKeeps
<1>4. QED
  BY <1>2, <1>3 DEF Reveal

LEMMA CompareKeeps == ASSUME StoreInv, NEW w \in Workers, Compare(w) PROVE StoreInv'
<1>1. job[w].pc = "compare" /\ UNCHANGED <<prof, link, owner>>
  BY DEF Compare
<1>2. CASE End(w, "unconfirmed")
  BY <1>1, <1>2, Unconfirmed
<1>3. ASSUME Reaches(w), Now.ver = job[w].ver + 1, job[w].orig.secret = "new",
             job' = [job EXCEPT ![w].pc = "commit", ![w].ver = @ + 1, ![w].base = Now.mem]
      PROVE  StoreInv'
  <2> DEFINE c == [job[w] EXCEPT !.pc = "commit", !.ver = @ + 1, !.base = Now.mem]
  <2>1. /\ job[w] \in JobRec /\ job \in [Workers -> JobRec] /\ Now.ver \in Nat /\ job[w].ver \in Nat
        /\ Now.mem \in Settings /\ KindOf(w) /\ EditOf(w) /\ FencedOf(w) /\ Now.here
    BY <1>3, StoreTypes DEF Reaches
  <2>2. job[w].kind = "confirm" /\ job[w].edit \in Settings /\ job[w].edit.flags = "system"
    BY <1>1, <2>1 DEF KindOf, EditOf, ConfirmPcs
  <2>3. Public(Now.mem) = job[w].edit /\ Now.mem.secret = "new"
    BY <1>1, <1>3, <2>1 DEF FencedOf, Held, Reaches
  <2>4. Now.mem.flags = "system"
    BY <2>1, <2>2, <2>3, PublicFields, SMTT(40)
  <2>5. job' = [job EXCEPT ![w] = c] /\ "commit" \in JobPcs /\ job[w].ver + 1 \in Nat
    BY <1>3, <2>1 DEF JobPcs, ConfirmPcs
  <2>6. /\ c \in JobRec /\ c.pc = "commit" /\ c.owner = job[w].owner /\ c.kind = job[w].kind
        /\ c.gone = job[w].gone /\ c.result = job[w].result /\ c.ver = job[w].ver + 1
        /\ c.base = Now.mem
    BY <2>1, <2>5 DEF JobRec
  <2> HIDE DEF c
  <2>7. job' \in [Workers -> JobRec] /\ Alone(w) /\ job'[w] = c
    BY <2>1, <2>5, <2>6 DEF Alone
  <2>8. KindOf(w)'
    BY <1>1, <2>1, <2>2, <2>6, <2>7 DEF KindOf, EditPcs, BandPcs, ConfirmPcs, ForgetPcs
  <2>9. EditOf(w)'
    BY <2>1, <2>2, <2>3, <2>4, <2>6, <2>7 DEF EditOf, ConfirmPcs
  <2>10. FencedOf(w)'
    BY <1>1, <1>3, <2>1, <2>6, <2>7, SMTT(40) DEF FencedOf, Now
  <2>11. QED
    BY <1>1, <2>6, <2>7, <2>8, <2>9, <2>10, OnQuietly
<1>4. QED
  BY <1>2, <1>3 DEF Compare

LEMMA CommitKeeps ==
  ASSUME StoreInv, NEW w \in Workers, Commit(w)
  PROVE  StoreInv' /\ Alone(w) /\ (prof' # prof => WriteGood(w))
<1>1. job[w].pc = "commit" /\ UNCHANGED <<link, owner>>
  BY DEF Commit
<1>2. CASE End(w, "unconfirmed") /\ UNCHANGED prof
  <2>1. job \in [Workers -> JobRec] /\ "unconfirmed" \in Results
    BY StoreTypes DEF Results
  <2>2. QED
    BY <1>1, <1>2, <2>1, Unconfirmed, EndMoves
<1>3. ASSUME UpToDate(w), prof' = [prof EXCEPT ![Target] = Stored(Target, Now.mem)],
             job' = [job EXCEPT ![w].pc = "settle", ![w].landed = prof'[Target].disk.secret]
      PROVE  StoreInv' /\ Alone(w) /\ WriteGood(w)
  <2> DEFINE P == Stored(Target, Now.mem)
             c == [job[w] EXCEPT !.pc = "settle", !.landed = "new"]
  <2>1. /\ job[w] \in JobRec /\ job \in [Workers -> JobRec] /\ Now.ver \in Nat /\ Now.here
        /\ Now.mem \in Settings /\ KindOf(w) /\ EditOf(w) /\ FencedOf(w) /\ Target \in Profiles
    BY <1>3, StoreTypes, StoreBounds DEF UpToDate, Reaches
  <2>2. /\ job[w].kind = "confirm" /\ Now.mem = job[w].base /\ Now.mem.secret = "new"
        /\ Now.mem.flags = "system"
    BY <1>1, <1>3, <2>1 DEF KindOf, EditOf, ConfirmPcs, FencedOf, Held, UpToDate, Reaches
  <2>3. prof \in [Profiles -> ProfileRec] /\ link' \in LinkRec
    BY <1>1 DEF StoreInv, StoreType
  <2>4. Filled(Now.mem, Now.mem) = Now.mem /\ Durable(Now.mem) = Now.mem
    BY <2>1, <2>2, FilledSelf DEF Durable
  <2>5. /\ P \in ProfileRec /\ P.here /\ P.ver = Now.ver + 1 /\ P.mem = Now.mem
        /\ P.disk = Now.mem
    <3>1. Now = prof[Target]
      BY DEF Now
    <3>2. /\ P \in ProfileRec /\ P.here /\ P.ver = Now.ver + 1 /\ P.mem = Filled(Now.mem, Now.mem)
          /\ P.disk = Durable(Filled(Now.mem, Now.mem))
      BY <2>1, <2>3, <3>1, StoredFields
    <3>3. QED
      BY <2>4, <3>2
  <2> HIDE DEF P
  <2>6. P.here => P.mem \in Settings /\ prof[Target].here /\ P.ver > prof[Target].ver
    BY <2>1, <2>5, SMTT(40) DEF Now
  <2>7. prof' = [prof EXCEPT ![Target] = P]
    BY <1>3 DEF P
  <2>8. /\ prof' \in [Profiles -> ProfileRec] /\ Rely /\ GoneRely /\ prof'[Target] = P
        /\ \A q \in Profiles : /\ prof'[q].here => prof'[q].mem \in Settings
                               /\ ~prof'[q].here => prof'[q].disk = NONE
    BY <1>1, <2>1, <2>5, <2>6, <2>7, ProfileMoves
  <2>9. job' = [job EXCEPT ![w] = c] /\ "settle" \in JobPcs /\ "new" \in Secret
    BY <1>3, <2>2, <2>5, <2>8 DEF JobPcs, ConfirmPcs, Secret
  <2>10. /\ c \in JobRec /\ c.pc = "settle" /\ c.owner = job[w].owner /\ c.kind = job[w].kind
         /\ c.gone = job[w].gone /\ c.result = job[w].result /\ c.landed = "new"
    BY <2>1, <2>9 DEF JobRec
  <2> HIDE DEF c
  <2>11. job' \in [Workers -> JobRec] /\ Alone(w) /\ job'[w] = c
    BY <2>1, <2>9, <2>10 DEF Alone
  <2>12. KindOf(w)'
    BY <1>1, <2>1, <2>2, <2>10, <2>11 DEF KindOf, EditPcs, BandPcs, ConfirmPcs, ForgetPcs
  <2>13. EditOf(w)' /\ FencedOf(w)'
    BY <2>2, <2>10, <2>11 DEF EditOf, FencedOf, ConfirmPcs
  <2>14. StoreInv'
    BY <1>1, <2>3, <2>8, <2>10, <2>11, <2>12, <2>13, OnKeeps
  <2>15. WriteGood(w)
    BY <2>2, <2>5, <2>8 DEF WriteGood, OwnField
  <2>16. QED
    BY <2>11, <2>14, <2>15
<1>4. QED
  BY <1>2, <1>3 DEF Commit

LEMMA SettleKeeps == ASSUME StoreInv, NEW w \in Workers, Settle(w) PROVE StoreInv'
<1>1. job[w].pc = "settle" /\ UNCHANGED <<prof, link, owner>>
  BY DEF Settle
<1>2. CASE End(w, "unconfirmed")
  BY <1>1, <1>2, Unconfirmed
<1>3. CASE End(w, "stored")
  <2>1. "stored" \in Results /\ "stored" \notin Quiets
    BY DEF Results, Quiets
  <2>2. Rely /\ GoneRely /\ job[w].landed = "new"
    BY <1>1, NothingMoves, StoreTypes DEF EditOf
  <2>3. QED
    BY <1>1, <1>3, <2>1, <2>2, EndKeeps DEF StoreInv, StoreType
<1>4. QED
  BY <1>2, <1>3 DEF Settle

-----------------------------------------------------------------------------
\* The steps of a forget.

LEMMA ForgetOf ==
  ASSUME NEW w \in Workers, job'[w].kind = "forget", job'[w].pc \in ForgetPcs,
         job'[w].owner <= owner'
  PROVE  KindOf(w)' /\ EditOf(w)' /\ FencedOf(w)'
<1>1. KindOf(w)'
  BY DEF KindOf, EditPcs, BandPcs, ConfirmPcs, ForgetPcs
<1>2. EditOf(w)'
  BY DEF EditOf, ConfirmPcs, ForgetPcs
<1>3. FencedOf(w)'
  BY DEF FencedOf, ForgetPcs
<1>4. QED
  BY <1>1, <1>2, <1>3

LEMMA InventoryNext ==
  ASSUME StoreInv, NEW w \in Workers, job[w].kind = "forget", job[w].pc \in {"start", "cancelled"},
         job' = [job EXCEPT ![w].pc = "inventory", ![w].owner = owner],
         UNCHANGED <<prof, link, owner>>
  PROVE  StoreInv'
<1> DEFINE c == [job[w] EXCEPT !.pc = "inventory", !.owner = owner]
<1>1. job[w] \in JobRec /\ job \in [Workers -> JobRec] /\ owner \in Nat
  BY StoreTypes
<1>2. job' = [job EXCEPT ![w] = c] /\ "inventory" \in JobPcs /\ "inventory" \in ForgetPcs
  BY DEF JobPcs, ForgetPcs
<1>3. /\ c \in JobRec /\ c.pc = "inventory" /\ c.owner = owner /\ c.kind = "forget"
      /\ c.gone = job[w].gone /\ c.result = job[w].result
  BY <1>1, <1>2 DEF JobRec
<1> HIDE DEF c
<1>4. job' \in [Workers -> JobRec] /\ Alone(w) /\ job'[w] = c
  BY <1>1, <1>2, <1>3 DEF Alone
<1>5. KindOf(w)' /\ EditOf(w)' /\ FencedOf(w)'
  BY <1>1, <1>2, <1>3, <1>4, ForgetOf, SMTT(40)
<1>6. QED
  BY <1>3, <1>4, <1>5, OnQuietly

LEMMA AwaitConnectsKeeps ==
  ASSUME StoreInv, NEW w \in Workers, CancelConnects(w) \/ AwaitConnects(w) PROVE StoreInv'
<1>1. /\ job[w].pc \in {"start", "cancelled"} /\ UNCHANGED <<prof, link, owner>>
      /\ job[w].kind = "forget"
  BY StoreTypes DEF CancelConnects, AwaitConnects, KindOf, ForgetPcs
<1>2. "cancellation-pending" \in Results /\ "cancelled" \in Plain
  BY DEF Results, Plain
<1>3. CASE job' = [job EXCEPT ![w].pc = "inventory", ![w].owner = owner]
  BY <1>1, <1>3, InventoryNext
<1>4. CASE Goto(w, "cancelled")
  BY <1>1, <1>2, <1>4, GotoQuietly
<1>5. CASE End(w, "cancellation-pending")
  BY <1>1, <1>2, <1>5, EndsQuietly
<1>6. QED
  BY <1>3, <1>4, <1>5 DEF CancelConnects, AwaitConnects

LEMMA ErrorKeeps ==
  ASSUME StoreInv, NEW w \in Workers, End(w, "error"), UNCHANGED <<prof, link, owner>>,
         job[w].pc \notin {"delete", "done"}
  PROVE  StoreInv'
<1>1. "error" \in Results
  BY DEF Results
<1>2. QED
  BY <1>1, EndsQuietly

LEMMA InventoryKeeps == ASSUME StoreInv, NEW w \in Workers, Inventory(w) PROVE StoreInv'
<1>1. job[w].pc = "inventory" /\ UNCHANGED <<prof, link, owner>>
  BY DEF Inventory
<1>2. CASE End(w, "error")
  BY <1>1, <1>2, ErrorKeeps
<1>3. ASSUME job' = [job EXCEPT ![w].pc = "autoconnect", ![w].left = Saved,
                                ![w].todo = {p \in Saved : prof[p].mem.auto}, ![w].active = SsidUp]
      PROVE  StoreInv'
  <2> DEFINE T == {p \in Saved : prof[p].mem.auto}
             c == [job[w] EXCEPT !.pc = "autoconnect", !.left = Saved, !.todo = T, !.active = SsidUp]
  <2>1. job[w] \in JobRec /\ job \in [Workers -> JobRec] /\ KindOf(w)
    BY StoreTypes
  <2>2. Saved \in SUBSET Profiles /\ T \in SUBSET Profiles
    BY DEF Saved
  <2>3. SsidUp \in BOOLEAN
    BY SMTT(40) DEF SsidUp
  <2>4. /\ job' = [job EXCEPT ![w] = c] /\ "autoconnect" \in JobPcs /\ "autoconnect" \in ForgetPcs
        /\ job[w].kind = "forget" /\ job[w].owner <= owner
    BY <1>1, <1>3, <2>1 DEF JobPcs, ForgetPcs, KindOf
  <2> HIDE DEF T
  <2>5. /\ c \in JobRec /\ c.pc = "autoconnect" /\ c.owner = job[w].owner /\ c.kind = job[w].kind
        /\ c.gone = job[w].gone /\ c.result = job[w].result
    BY <2>1, <2>2, <2>3, <2>4 DEF JobRec
  <2> HIDE DEF c
  <2>6. job' \in [Workers -> JobRec] /\ Alone(w) /\ job'[w] = c
    BY <2>1, <2>4, <2>5 DEF Alone
  <2>7. KindOf(w)' /\ EditOf(w)' /\ FencedOf(w)'
    BY <1>1, <2>4, <2>5, <2>6, ForgetOf
  <2>8. QED
    BY <1>1, <2>5, <2>6, <2>7, OnQuietly
<1>4. QED
  BY <1>2, <1>3 DEF Inventory

LEMMA DisableAutoconnectKeeps ==
  ASSUME StoreInv, NEW w \in Workers, DisableAutoconnect(w) PROVE StoreInv'
<1> DEFINE p == CHOOSE q \in job[w].todo : TRUE
           c == [job[w] EXCEPT !.todo = @ \ {p}]
           s == [Public(prof[p].mem) EXCEPT !.auto = FALSE]
           P == Stored(p, s)
<1>1. job[w] \in JobRec /\ job \in [Workers -> JobRec] /\ KindOf(w)
  BY StoreTypes
<1>2. job[w].pc = "autoconnect" /\ job[w].todo # {} /\ UNCHANGED <<link, owner>>
  BY DEF DisableAutoconnect
<1>3. job[w].todo \in SUBSET Profiles
  BY <1>1 DEF JobRec
<1>4. p \in job[w].todo /\ p \in Profiles
  BY <1>2, <1>3
<1>5. /\ job' = [job EXCEPT ![w] = c]
      /\ \/ prof[p].here /\ prof' = [prof EXCEPT ![p] = P]
         \/ UNCHANGED prof
  BY DEF DisableAutoconnect
<1> HIDE DEF p
<1>6. job[w].todo \ {p} \in SUBSET Profiles
  BY <1>3
<1>7. /\ c \in JobRec /\ c.pc = job[w].pc /\ c.owner = job[w].owner /\ c.kind = job[w].kind
      /\ c.gone = job[w].gone /\ c.result = job[w].result
  BY <1>1, <1>6 DEF JobRec
<1> HIDE DEF c
<1>8. job' \in [Workers -> JobRec] /\ Alone(w) /\ job'[w] = c
  BY <1>1, <1>5, <1>7 DEF Alone
<1>9. job[w].kind = "forget" /\ job[w].owner <= owner /\ "autoconnect" \in ForgetPcs
  BY <1>1, <1>2 DEF KindOf, ForgetPcs
<1>10. KindOf(w)' /\ EditOf(w)' /\ FencedOf(w)'
  BY <1>2, <1>7, <1>8, <1>9, ForgetOf
<1>11. CASE UNCHANGED prof
  BY <1>2, <1>7, <1>8, <1>10, <1>11, OnQuietly
<1>12. CASE prof[p].here /\ prof' = [prof EXCEPT ![p] = P]
  <2>1. /\ prof \in [Profiles -> ProfileRec] /\ prof[p].mem \in Settings /\ link' \in LinkRec
        /\ prof[p].ver \in Nat
    BY <1>2, <1>4, <1>12 DEF StoreInv, StoreType, ProfileRec
  <2>2. s \in Settings
    <3>1. Public(prof[p].mem) \in Settings
      BY <2>1, PublicFields
    <3>2. QED
      BY <3>1 DEF Settings
  <2> HIDE DEF s
  <2>3. P \in ProfileRec /\ P.here /\ P.ver = prof[p].ver + 1 /\ P.mem \in Settings
    BY <1>4, <1>12, <2>1, <2>2, StoredFields
  <2> HIDE DEF P
  <2>4. P.ver > prof[p].ver
    BY <2>1, <2>3, SMTT(40)
  <2>5. /\ prof' \in [Profiles -> ProfileRec] /\ Rely /\ GoneRely
        /\ \A q \in Profiles : /\ prof'[q].here => prof'[q].mem \in Settings
                               /\ ~prof'[q].here => prof'[q].disk = NONE
    BY <1>2, <1>4, <1>12, <2>3, <2>4, ProfileMoves
  <2>6. QED
    BY <1>2, <1>7, <1>8, <1>10, <2>1, <2>5, OnKeeps
<1>13. QED
  BY <1>5, <1>11, <1>12

LEMMA DisconnectKeeps ==
  ASSUME StoreInv, NEW w \in Workers, Quieted(w) \/ Disconnect(w) \/ ConfirmDown(w) PROVE StoreInv'
<1>1. /\ job[w].pc \in {"autoconnect", "disconnect", "confirm"} /\ UNCHANGED <<prof, owner>>
      /\ job[w].kind = "forget"
  BY StoreTypes DEF Quieted, Disconnect, ConfirmDown, KindOf, ForgetPcs
<1>2. "disconnect-pending" \in Results
  BY DEF Results
<1>3. {"disconnect", "delete", "confirm"} \subseteq Plain
  BY DEF Plain
<1>4. CASE End(w, "error") /\ UNCHANGED link
  BY <1>1, <1>4, ErrorKeeps
<1>5. CASE End(w, "disconnect-pending") /\ UNCHANGED link
  BY <1>1, <1>2, <1>5, EndsQuietly
<1>6. ASSUME NEW pcs \in {"disconnect", "delete"}, Goto(w, pcs), UNCHANGED link PROVE StoreInv'
  <2>1. pcs \in Plain
    BY <1>3
  <2>2. QED
    BY <1>1, <1>6, <2>1, GotoQuietly
<1>7. CASE /\ link' = IF SsidUp THEN [link EXCEPT !.state = "deactivating"] ELSE link
           /\ Goto(w, "confirm")
  <2>1. link \in LinkRec
    BY DEF StoreInv, StoreType
  <2>2. link' \in LinkRec /\ link'.profile = link.profile
    BY <1>7, <2>1 DEF LinkRec
  <2>3. Rely /\ GoneRely
    BY <1>1, <2>2 DEF Rely, GoneRely, Now
  <2>4. QED
    BY <1>1, <1>3, <1>7, <2>2, <2>3, GotoKeeps DEF StoreInv, StoreType
<1>8. CASE Quieted(w)
  BY <1>6, <1>8 DEF Quieted
<1>9. CASE Disconnect(w)
  BY <1>4, <1>7, <1>9 DEF Disconnect
<1>10. CASE ConfirmDown(w)
  BY <1>4, <1>5, <1>6, <1>10 DEF ConfirmDown
<1>11. QED
  BY <1>8, <1>9, <1>10

LEMMA DeleteOneKeeps == ASSUME StoreInv, NEW w \in Workers, DeleteOne(w) PROVE StoreInv'
<1> DEFINE p == CHOOSE q \in job[w].left : TRUE
           d == [job[w] EXCEPT !.left = @ \ {p}, !.gone = @ \cup {p}]
           f == [job[w] EXCEPT !.left = @ \ {p}, !.landed = "failure"]
<1>1. /\ job[w] \in JobRec /\ job \in [Workers -> JobRec] /\ KindOf(w) /\ ReportOf(w) /\ GoneOf(w)
      /\ owner \in Nat
  BY StoreTypes
<1>2. job[w].pc = "delete" /\ job[w].left # {} /\ owner' = owner
  BY DEF DeleteOne
<1>3. job[w].left \in SUBSET Profiles /\ job[w].gone \in SUBSET Profiles
  BY <1>1 DEF JobRec
<1>4. p \in Profiles
  BY <1>2, <1>3
<1>5. \/ /\ prof' = [prof EXCEPT ![p] = Gone] /\ job' = [job EXCEPT ![w] = d]
         /\ link' = IF link.profile = p THEN Disconnected ELSE link
      \/ job' = [job EXCEPT ![w] = f] /\ UNCHANGED <<prof, link>>
  BY DEF DeleteOne
<1> HIDE DEF p
<1>6. job[w].left \ {p} \in SUBSET Profiles /\ job[w].gone \cup {p} \in SUBSET Profiles
  BY <1>3, <1>4
<1>7. /\ d \in JobRec /\ d.pc = "delete" /\ d.owner = job[w].owner /\ d.kind = job[w].kind
      /\ d.gone = job[w].gone \cup {p} /\ d.result = job[w].result
  BY <1>1, <1>2, <1>6 DEF JobRec
<1>8. /\ f \in JobRec /\ f.pc = "delete" /\ f.owner = job[w].owner /\ f.kind = job[w].kind
      /\ f.gone = job[w].gone /\ f.result = job[w].result
  BY <1>1, <1>2, <1>6 DEF JobRec
<1> HIDE DEF d, f
<1>9. job[w].kind = "forget" /\ job[w].owner <= owner /\ "delete" \in ForgetPcs
  BY <1>1, <1>2 DEF KindOf, ForgetPcs
<1>10. job[w].result = NONE
  BY <1>1, <1>2 DEF ReportOf
<1>11. NONE \notin Quiets /\ NONE \notin {"forgotten", "partial", "stored"} /\ NONE \notin Profiles
  BY StoreBounds DEF Quiets, Results
<1>12. CASE job' = [job EXCEPT ![w] = f] /\ UNCHANGED <<prof, link>>
  <2>1. job' \in [Workers -> JobRec] /\ Alone(w) /\ job'[w] = f
    BY <1>1, <1>8, <1>12 DEF Alone
  <2>2. KindOf(w)' /\ EditOf(w)' /\ FencedOf(w)'
    BY <1>2, <1>8, <1>9, <2>1, ForgetOf
  <2>3. ReportOf(w)' /\ GoneOf(w)'
    BY <1>1, <1>8, <1>10, <1>11, <1>12, <2>1 DEF ReportOf, GoneOf
  <2>4. Rely /\ GoneRely /\ StoreType'
    BY <1>2, <1>12, <2>1, NothingMoves DEF StoreInv, StoreType
  <2>5. QED
    BY <2>1, <2>2, <2>3, <2>4, WriterKeeps DEF WriterOf
<1>13. CASE /\ prof' = [prof EXCEPT ![p] = Gone] /\ job' = [job EXCEPT ![w] = d]
            /\ link' = IF link.profile = p THEN Disconnected ELSE link
  <2>1. job' \in [Workers -> JobRec] /\ Alone(w) /\ job'[w] = d
    BY <1>1, <1>7, <1>13 DEF Alone
  <2>2. KindOf(w)' /\ EditOf(w)' /\ FencedOf(w)'
    BY <1>2, <1>7, <1>9, <2>1, ForgetOf
  <2>3. Gone \in ProfileRec /\ ~Gone.here /\ Gone.disk = NONE
    BY DEF Gone, ProfileRec
  <2>4. Disconnected \in LinkRec /\ Disconnected.profile = NONE
    BY DEF Disconnected, Link, LinkRec
  <2>5. /\ link' \in LinkRec /\ link'.profile # p
        /\ \A q \in Profiles : link.profile # q => link'.profile # q
    BY <1>4, <1>11, <1>13, <2>4 DEF StoreInv, StoreType
  <2>6. /\ prof' \in [Profiles -> ProfileRec] /\ Rely /\ GoneRely /\ prof'[p] = Gone
        /\ \A q \in Profiles : /\ prof'[q].here => prof'[q].mem \in Settings
                               /\ ~prof'[q].here => prof'[q].disk = NONE
    BY <1>2, <1>4, <1>13, <2>3, <2>5, ProfileMoves
  <2>7. StoreType'
    BY <1>1, <1>2, <2>1, <2>5, <2>6 DEF StoreType
  <2>8. ReportOf(w)'
    BY <1>7, <1>10, <1>11, <2>1 DEF ReportOf
  <2>9. GoneOf(w)'
    BY <1>1, <1>3, <1>7, <2>1, <2>3, <2>5, <2>6 DEF GoneOf, GoneRely
  <2>10. QED
    BY <2>1, <2>2, <2>6, <2>7, <2>8, <2>9, WriterKeeps DEF WriterOf
<1>14. QED
  BY <1>5, <1>12, <1>13

LEMMA ForgetDoneKeeps == ASSUME StoreInv, NEW w \in Workers, ForgetDone(w) PROVE StoreInv'
<1> DEFINE res == ForgetStatus(job[w].gone, job[w].landed = "failure")
<1>1. End(w, res) /\ UNCHANGED <<prof, link, owner>>
  BY DEF ForgetDone
<1>2. /\ res \in {"not-saved", "forgotten", "failed", "partial"}
      /\ res \in {"not-saved", "failed"} => job[w].gone = {}
      /\ res \in {"forgotten", "partial"} => job[w].gone # {}
  BY DEF ForgetStatus
<1> HIDE DEF res
<1>3. res \in Results /\ (res \in Quiets => job[w].gone = {}) /\ res # "stored"
  BY <1>2 DEF Results, Quiets
<1>4. Rely /\ GoneRely
  BY <1>1, NothingMoves
<1>5. QED
  BY <1>1, <1>2, <1>3, <1>4, EndKeeps DEF StoreInv, StoreType

-----------------------------------------------------------------------------
\* NetworkManager and other clients.

LEMMA EnvironmentKeeps ==
  ASSUME StoreInv, StoreType', job' = job, GoneRely, Rely \/ owner' = owner + 1 PROVE StoreInv'
<1>1. \A w \in Workers : WriterOf(w)'
  BY OtherWriter
<1>2. QED
  BY <1>1 DEF StoreInv, WriterOf

LEMMA ExternalEditKeeps == ASSUME StoreInv, NEW p \in Profiles, ExternalEdit(p) PROVE StoreInv'
<1>1. prof[p].here /\ UNCHANGED <<link, owner, job>>
  BY DEF ExternalEdit
<1>2. /\ prof \in [Profiles -> ProfileRec] /\ prof[p] \in ProfileRec /\ prof[p].mem \in Settings
      /\ prof[p].ver \in Nat
  BY <1>1 DEF StoreInv, StoreType, ProfileRec
<1>3. PICK s \in {[prof[p].mem EXCEPT !.note = 1 - @], [prof[p].mem EXCEPT !.secret = "other"],
                  [prof[p].mem EXCEPT !.band = IF @ = "auto" THEN "5GHz" ELSE "auto"],
                  [prof[p].mem EXCEPT !.flags = "session"]} :
         \/ prof' = [prof EXCEPT ![p] = Stored(p, s)]
         \/ prof' = [prof EXCEPT ![p].ver = @ + 1, ![p].mem = s, ![p].staged = TRUE]
  BY DEF ExternalEdit
<1>4. s \in Settings
  <2>1. [prof[p].mem EXCEPT !.note = 1 - @] \in Settings
    BY <1>2, SMTT(40) DEF Settings
  <2>2. [prof[p].mem EXCEPT !.secret = "other"] \in Settings
    BY <1>2 DEF Settings
  <2>3. [prof[p].mem EXCEPT !.band = IF @ = "auto" THEN "5GHz" ELSE "auto"] \in Settings
    BY <1>2 DEF Settings
  <2>4. [prof[p].mem EXCEPT !.flags = "session"] \in Settings
    BY <1>2 DEF Settings
  <2>5. QED
    BY <2>1, <2>2, <2>3, <2>4
<1> DEFINE P == Stored(p, s)
           Q == [prof[p] EXCEPT !.ver = @ + 1, !.mem = s, !.staged = TRUE]
<1>5. P \in ProfileRec /\ P.here /\ P.ver = prof[p].ver + 1 /\ P.mem \in Settings
  BY <1>1, <1>2, <1>4, StoredFields
<1>6. Q \in ProfileRec /\ Q.here = prof[p].here /\ Q.ver = prof[p].ver + 1 /\ Q.mem = s
  <2>1. prof[p].ver + 1 \in Nat /\ TRUE \in BOOLEAN
    BY <1>2, SMTT(40)
  <2>2. Q \in ProfileRec
    BY <1>2, <1>4, <2>1 DEF ProfileRec
  <2>3. Q.here = prof[p].here /\ Q.ver = prof[p].ver + 1 /\ Q.mem = s
    BY <1>2 DEF ProfileRec
  <2>4. QED
    BY <2>2, <2>3
<1>7. prof' = [prof EXCEPT ![p] = P] \/ prof' = [prof EXCEPT ![p] = Q]
  <2>1. CASE prof' = [prof EXCEPT ![p] = Stored(p, s)]
    BY <2>1
  <2>2. CASE prof' = [prof EXCEPT ![p].ver = @ + 1, ![p].mem = s, ![p].staged = TRUE]
    BY <2>2
  <2>3. QED
    BY <1>3, <2>1, <2>2
<1> HIDE DEF P, Q
<1>8. /\ P \in ProfileRec /\ P.here /\ P.ver > prof[p].ver /\ P.mem \in Settings
      /\ Q \in ProfileRec /\ Q.here /\ Q.ver > prof[p].ver /\ Q.mem \in Settings
  BY <1>1, <1>2, <1>4, <1>5, <1>6, SMTT(40)
<1>9. /\ prof' \in [Profiles -> ProfileRec] /\ Rely /\ GoneRely
      /\ \A q \in Profiles : /\ prof'[q].here => prof'[q].mem \in Settings
                             /\ ~prof'[q].here => prof'[q].disk = NONE
  <2>1. CASE prof' = [prof EXCEPT ![p] = P]
    BY <1>1, <1>8, <2>1, ProfileMoves
  <2>2. CASE prof' = [prof EXCEPT ![p] = Q]
    BY <1>1, <1>8, <2>2, ProfileMoves
  <2>3. QED
    BY <1>7, <2>1, <2>2
<1>10. StoreType'
  BY <1>1, <1>9 DEF StoreInv, StoreType
<1>11. QED
  BY <1>1, <1>9, <1>10, EnvironmentKeeps

LEMMA SwitchKeeps == ASSUME StoreInv, ExternalSwitch \/ ConnectEnds PROVE StoreInv'
<1>1. /\ UNCHANGED <<prof, owner, job>>
      /\ link' \in {link, Disconnected, Link("elsewhere", "up", "auto")}
  BY DEF ExternalSwitch, ConnectEnds
<1>2. /\ Disconnected \in LinkRec /\ Disconnected.profile \notin Profiles
      /\ Link("elsewhere", "up", "auto") \in LinkRec
      /\ Link("elsewhere", "up", "auto").profile \notin Profiles
  BY StoreBounds DEF Disconnected, Link, LinkRec
<1>3. Rely /\ GoneRely
  BY <1>1, <1>2 DEF Rely, GoneRely, Now
<1>4. StoreType'
  BY <1>1, <1>2 DEF StoreInv, StoreType
<1>5. QED
  BY <1>1, <1>3, <1>4, EnvironmentKeeps

LEMMA RestartKeeps == ASSUME StoreInv, Restart PROVE StoreInv'
<1> DEFINE Back(p) == [prof[p] EXCEPT !.ver = 1, !.mem = prof[p].disk, !.staged = FALSE,
                                      !.volatile = FALSE]
<1>1. owner' = owner + 1 /\ link' = Disconnected /\ job' = job
  BY DEF Restart
<1>2. prof' = [p \in Profiles |-> IF prof[p].disk = NONE THEN Gone ELSE Back(p)]
  BY DEF Restart
<1>3. Disconnected \in LinkRec /\ Disconnected.profile \notin Profiles
  BY StoreBounds DEF Disconnected, Link, LinkRec
<1>4. Gone \in ProfileRec /\ ~Gone.here /\ Gone.disk = NONE
  BY DEF Gone, ProfileRec
<1>5. ASSUME NEW p \in Profiles, prof[p].disk # NONE
      PROVE  /\ prof[p].here /\ Back(p) \in ProfileRec /\ Back(p).here
             /\ Back(p).mem \in Settings /\ Back(p).here = prof[p].here
  <2>1. prof[p] \in ProfileRec /\ prof[p].here
    BY <1>5 DEF StoreInv, StoreType
  <2>2. prof[p].disk \in Settings
    BY <1>5, <2>1 DEF ProfileRec
  <2>3. 1 \in Nat /\ FALSE \in BOOLEAN
    OBVIOUS
  <2>4. Back(p) \in ProfileRec
    BY <2>1, <2>2, <2>3 DEF ProfileRec
  <2>5. Back(p).here = prof[p].here /\ Back(p).mem = prof[p].disk
    BY <2>1 DEF ProfileRec
  <2>6. QED
    BY <2>1, <2>2, <2>4, <2>5
<1> HIDE DEF Back
<1>6. \A p \in Profiles : prof'[p] = IF prof[p].disk = NONE THEN Gone ELSE Back(p)
  BY <1>2
<1>7. /\ prof' \in [Profiles -> ProfileRec]
      /\ \A p \in Profiles : /\ prof'[p].here => prof'[p].mem \in Settings /\ prof[p].here
                             /\ ~prof'[p].here => prof'[p].disk = NONE
  BY <1>2, <1>4, <1>5, <1>6
<1>8. GoneRely
  BY <1>1, <1>3, <1>7 DEF GoneRely
<1>9. StoreType'
  BY <1>1, <1>3, <1>7, SMTT(40) DEF StoreInv, StoreType
<1>10. QED
  BY <1>1, <1>8, <1>9, EnvironmentKeeps

LEMMA LinkMovesKeeps == ASSUME StoreInv, LinkMoves PROVE StoreInv'
<1>1. /\ UNCHANGED <<owner, job>> /\ prof \in [Profiles -> ProfileRec] /\ link \in LinkRec
      /\ owner \in Nat
  BY DEF LinkMoves, StoreInv, StoreType
<1>2. /\ Disconnected \in LinkRec /\ Disconnected.profile \notin Profiles
      /\ Gone \in ProfileRec /\ ~Gone.here /\ Gone.disk = NONE
  BY StoreBounds DEF Disconnected, Link, LinkRec, Gone, ProfileRec
<1>3. ASSUME NEW band \in {"auto", "5GHz"}, link' = [link EXCEPT !.state = "up", !.band = band]
      PROVE  link' \in LinkRec /\ link'.profile = link.profile
  BY <1>1, <1>3 DEF LinkRec
<1>4. ASSUME link' \in LinkRec, link'.profile = link.profile, UNCHANGED prof PROVE StoreInv'
  <2>1. Rely /\ GoneRely
    BY <1>1, <1>4 DEF Rely, GoneRely, Now
  <2>2. StoreType'
    BY <1>1, <1>4 DEF StoreInv, StoreType
  <2>3. QED
    BY <1>1, <2>1, <2>2, EnvironmentKeeps
<1>5. ASSUME link' \in LinkRec, link'.profile = link.profile, NEW p \in Profiles, prof[p].here,
             prof' = [prof EXCEPT ![p].ver = @ + 1, ![p].mem.secret = "new"]
      PROVE  StoreInv'
  <2> DEFINE m == [prof[p].mem EXCEPT !.secret = "new"]
             P == [prof[p] EXCEPT !.ver = @ + 1, !.mem = m]
  <2>1. prof[p] \in ProfileRec /\ prof[p].mem \in Settings /\ prof[p].ver \in Nat
    BY <1>1, <1>5 DEF StoreInv, StoreType, ProfileRec
  <2>2. m \in Settings
    BY <2>1 DEF Settings
  <2>3. prof' = [prof EXCEPT ![p] = P]
    BY <1>5
  <2> HIDE DEF m
  <2>a. prof[p].ver + 1 \in Nat
    BY <2>1, SMTT(40)
  <2>b. P \in ProfileRec
    BY <2>1, <2>2, <2>a DEF ProfileRec
  <2>4. P.here = prof[p].here /\ P.mem = m /\ P.ver = prof[p].ver + 1
    BY <2>1 DEF ProfileRec
  <2> HIDE DEF P
  <2>5. /\ P.here => P.mem \in Settings /\ prof[p].here /\ P.ver > prof[p].ver
        /\ ~P.here => P.disk = NONE
        /\ \A q \in Profiles : ~prof[q].here /\ link.profile # q => link'.profile # q
    BY <1>5, <2>1, <2>2, <2>4, SMTT(40)
  <2>6. /\ prof' \in [Profiles -> ProfileRec] /\ Rely /\ GoneRely
        /\ \A q \in Profiles : /\ prof'[q].here => prof'[q].mem \in Settings
                               /\ ~prof'[q].here => prof'[q].disk = NONE
    BY <1>1, <2>3, <2>b, <2>5, ProfileMoves
  <2>7. StoreType'
    BY <1>1, <1>5, <2>6 DEF StoreInv, StoreType
  <2>8. QED
    BY <1>1, <2>6, <2>7, EnvironmentKeeps
<1>6. ASSUME link' = Disconnected,
             prof' = [p \in Profiles |-> IF link.profile = p /\ prof[p].volatile THEN Gone ELSE prof[p]]
      PROVE  StoreInv'
  <2>1. \A p \in Profiles : prof'[p] = Gone \/ prof'[p] = prof[p]
    BY <1>6
  <2>2. prof' \in [Profiles -> ProfileRec]
    BY <1>1, <1>2, <1>6
  <2>3. Rely
    BY <1>1, <1>2, <2>1, StoreBounds DEF Rely, Now
  <2>4. GoneRely
    BY <1>2, <1>6, <2>1 DEF GoneRely
  <2>5. StoreType'
    BY <1>1, <1>2, <1>6, <2>1, <2>2 DEF StoreInv, StoreType
  <2>6. QED
    BY <1>1, <2>3, <2>4, <2>5, EnvironmentKeeps
<1>7. QED
  BY <1>3, <1>4, <1>5, <1>6 DEF LinkMoves

LEMMA AwaitActivationKeeps ==
  ASSUME StoreInv, NEW w \in Workers, Boundary(w) \/ AwaitActivation(w) PROVE StoreInv'
<1>1. /\ job[w].pc \in {"boundary", "consume"} /\ UNCHANGED <<prof, link, owner>>
      /\ End(w, "unconfirmed") \/ Goto(w, "consume") \/ Goto(w, "inspect")
  BY DEF Boundary, AwaitActivation
<1>2. QED
  BY <1>1, Unconfirmed, ConfirmGoes

LEMMA EnvironmentStep == ASSUME StoreInv, Environment PROVE StoreInv' /\ job' = job
<1>1. StoreInv'
  BY ExternalEditKeeps, SwitchKeeps, RestartKeeps, LinkMovesKeeps DEF Environment
<1>2. job' = job
  BY DEF Environment, ExternalEdit, ExternalSwitch, Restart, LinkMoves, ConnectEnds
<1>3. QED
  BY <1>1, <1>2

LEMMA JobStepKeeps == ASSUME StoreInv, NEW w \in Workers, JobStep(w) PROVE StoreInv'
<1>1. CASE EditStep(w)
  BY <1>1, BeginKeeps, SnapshotKeeps, CheckKeeps, GetSecretsKeeps, MergeKeeps, FenceKeeps,
     WriteKeeps, WrittenKeeps DEF EditStep
<1>2. CASE BandStep(w)
  BY <1>2, BandStatusKeeps, BandActivateKeeps, BandAwaitKeeps, BandRecoverKeeps DEF BandStep
<1>3. CASE ConfirmStep(w)
  BY <1>3, CaptureKeeps, AwaitActivationKeeps, InspectKeeps, RecheckKeeps, RevealKeeps,
     CompareKeeps, CommitKeeps, SettleKeeps DEF ConfirmStep
<1>4. CASE ForgetStep(w)
  BY <1>4, AwaitConnectsKeeps, InventoryKeeps, DisableAutoconnectKeeps, DisconnectKeeps,
     DeleteOneKeeps, ForgetDoneKeeps DEF ForgetStep
<1>5. QED
  BY <1>1, <1>2, <1>3, <1>4 DEF JobStep

\* A step of one job leaves the others alone, and at its write it can only write.
LEMMA JobStepAlone ==
  ASSUME StoreInv, NEW w \in Workers, JobStep(w)
  PROVE  /\ Alone(w)
         /\ job[w].pc \in {"write", "commit"} => Write(w) \/ Commit(w)
<1>1. job \in [Workers -> JobRec]
  BY DEF StoreInv, StoreType
<1>2. CASE EditStep(w)
  <2>a. Failed(w) => Alone(w)
    BY <1>1 DEF Failed, End, Alone
  <2>b. Begin(w) \/ Merge(w) => Alone(w)
    BY <1>1, <2>a DEF Begin, Merge, Alone
  <2>c. Snapshot(w) => Alone(w)
    BY <1>1, <2>a DEF Snapshot, Failed, Alone
  <2>d. Check(w) \/ Fence(w) \/ Write(w) => Alone(w)
    BY <1>1, <2>a DEF Check, Fence, Write, Goto, Alone
  <2>e. GetSecrets(w) => Alone(w)
    BY <1>1, <2>a DEF GetSecrets, Alone
  <2>f. Written(w) => Alone(w)
    BY <1>1, <2>a
       DEF Written, Goto, End, Alone, StoreInv, KindOf, EditPcs, Editing
  <2>1. Alone(w)
    BY <1>2, <2>b, <2>c, <2>d, <2>e, <2>f DEF EditStep
  <2>2. job[w].pc \in {"write", "commit"} => Write(w)
    BY <1>2 DEF EditStep, Begin, Snapshot, Check, GetSecrets, Merge, Fence, Written
  <2>3. QED
    BY <2>1, <2>2
<1>3. CASE BandStep(w)
  BY <1>1, <1>3 DEF BandStep, BandStatus, BandActivate, BandAwait, BandRecover, Undo, Goto, End, Alone
<1>4. CASE ConfirmStep(w)
  <2>1. Alone(w)
    BY <1>1, <1>4
       DEF ConfirmStep, Capture, Boundary, AwaitActivation, Inspect, Recheck, Reveal,
       Compare, Commit, Settle, Goto, End, Alone
  <2>2. job[w].pc \in {"write", "commit"} => Commit(w)
    BY <1>4 DEF ConfirmStep, Capture, Boundary, AwaitActivation, Inspect, Recheck, Reveal,
       Compare, Settle
  <2>3. QED
    BY <2>1, <2>2
<1>5. CASE ForgetStep(w)
  <2>a. CancelConnects(w) \/ AwaitConnects(w) => Alone(w)
    BY <1>1 DEF CancelConnects, AwaitConnects, Goto, End, Alone
  <2>d. ASSUME Inventory(w) PROVE Alone(w)
    <3>1. CASE job[w].owner = owner
      BY <1>1, <2>d, <3>1 DEF Inventory, Alone
    <3>2. CASE job[w].owner # owner
      BY <1>1, <2>d, <3>2 DEF Inventory, End, Alone
    <3>3. QED
      BY <3>1, <3>2
  <2>b. DisableAutoconnect(w) \/ DeleteOne(w) => Alone(w)
    BY <1>1 DEF DisableAutoconnect, DeleteOne, Alone
  <2>c. Quieted(w) \/ Disconnect(w) \/ ConfirmDown(w) \/ ForgetDone(w) => Alone(w)
    BY <1>1 DEF Quieted, Disconnect, ConfirmDown, ForgetDone, Goto, End, Alone
  <2>1. Alone(w)
    BY <1>5, <2>a, <2>b, <2>c, <2>d DEF ForgetStep
  <2>2. job[w].pc \notin {"write", "commit"}
    BY <1>5 DEF ForgetStep, CancelConnects, AwaitConnects, Inventory, DisableAutoconnect,
       Quieted, Disconnect, ConfirmDown, DeleteOne, ForgetDone
  <2>3. QED
    BY <2>1, <2>2
<1>6. QED
  BY <1>2, <1>3, <1>4, <1>5 DEF JobStep

LEMMA StoreInitial == ASSUME StoreInit PROVE StoreInv
<1>1. PICK flags \in {"system", "agent", "session"}, volatile \in BOOLEAN :
        LET s == [band |-> "auto", auto |-> TRUE, note |-> 0, flags |-> flags,
                  secret |-> IF flags = "agent" THEN NONE ELSE "old"]
            d == IF flags = "system" THEN s ELSE Public(s)
        IN  prof = [p \in Profiles |->
                     [here |-> TRUE, ver |-> 1, mem |-> s,
                      disk |-> IF volatile THEN NONE ELSE d, staged |-> FALSE,
                      volatile |-> volatile]]
  BY DEF StoreInit
<1> DEFINE s == [band |-> "auto", auto |-> TRUE, note |-> 0, flags |-> flags,
                 secret |-> IF flags = "agent" THEN NONE ELSE "old"]
           d == IF volatile THEN NONE ELSE IF flags = "system" THEN s ELSE Public(s)
           P == [here |-> TRUE, ver |-> 1, mem |-> s, disk |-> d, staged |-> FALSE,
                 volatile |-> volatile]
<1>2. prof = [p \in Profiles |-> P]
  BY <1>1
<1>3. s \in Settings
  BY SMTT(40) DEF Settings
<1> HIDE DEF s
<1>4. d \in Settings \cup {NONE}
  BY <1>3, PublicFields
<1> HIDE DEF d
<1>5. P \in ProfileRec /\ P.here /\ P.mem = s
  BY <1>3, <1>4 DEF ProfileRec
<1> HIDE DEF P
<1>6. link \in LinkRec
  BY StoreBounds, SMTT(40) DEF StoreInit, Disconnected, Link, LinkRec
<1>7. PICK j \in Jobs : job = [w \in Workers |-> Idle(j[w])]
  BY DEF StoreInit
<1>8. \A w \in Workers : job[w] = Idle(j[w]) /\ j[w] \in Kinds
  BY <1>7, StoreBounds
<1>9. "start" \in JobPcs /\ {} \in SUBSET Profiles /\ NONE \in Secret
  BY DEF JobPcs, Secret
<1>10. \A k \in Kinds : Idle(k) \in JobRec
  BY <1>9 DEF Idle, JobRec
<1>11. StoreType
  BY <1>2, <1>3, <1>5, <1>6, <1>7, <1>8, <1>10 DEF StoreInit, StoreType
<1>12. ASSUME NEW w \in Workers
       PROVE  KindOf(w) /\ EditOf(w) /\ FencedOf(w) /\ ReportOf(w) /\ GoneOf(w)
  <2>1. /\ job[w].pc = "start" /\ job[w].owner = 0 /\ owner = 1 /\ job[w].gone = {}
        /\ job[w].result = NONE
    <3>1. job[w] = Idle(j[w])
      BY <1>8
    <3>2. owner = 1
      BY DEF StoreInit
    <3>3. QED
      BY <3>1, <3>2, SMTT(40) DEF Idle
  <2>2. KindOf(w)
    BY <2>1, SMTT(40) DEF KindOf, EditPcs, BandPcs, ConfirmPcs, ForgetPcs
  <2>3. EditOf(w) /\ FencedOf(w)
    BY <2>1 DEF EditOf, FencedOf, ConfirmPcs
  <2>4. ReportOf(w) /\ GoneOf(w)
    BY <2>1, StoreBounds DEF ReportOf, GoneOf, Quiets, Results
  <2>5. QED
    BY <2>2, <2>3, <2>4
<1>13. QED
  BY <1>11, <1>12 DEF StoreInv

LEMMA StoreStutters == ASSUME StoreInv, UNCHANGED storeVars PROVE StoreInv'
<1>1. /\ prof' = prof /\ link' = link /\ owner' = owner /\ job' = job
  BY DEF storeVars
<1>2. StoreType'
  BY <1>1 DEF StoreInv, StoreType
<1>3. QED
  BY <1>1, <1>2, NothingMoves, EnvironmentKeeps

LEMMA StoreStep == ASSUME StoreInv, [StoreNext]_storeVars PROVE StoreInv'
  BY JobStepKeeps, EnvironmentStep, StoreStutters DEF StoreNext

(* The store's inductive invariant: what an edit or a confirmation has read *)
(* is what the profile still holds at the version it has recorded, a job    *)
(* only ever holds a version NetworkManager has reached, and a profile a    *)
(* forget removed stays removed (credential_writer.rs, daemon_secret and    *)
(* forget.rs against other clients and a replaced NetworkManager).          *)
THEOREM StoreInductive == StoreSpec => []StoreInv
<1>1. StoreInit => StoreInv
  BY StoreInitial
<1>2. StoreInv /\ [StoreNext]_storeVars => StoreInv'
  BY StoreStep
<1>3. QED
  BY <1>1, <1>2, PTL DEF StoreSpec

(* ReportsTrue for any number of writers and profiles: a confirmation is    *)
(* reported as stored only if its own commit put the credential on disk,    *)
(* and what a forget reports as deleted stays gone.                         *)
THEOREM ReportsAreTrue == StoreSpec => []ReportsTrue
<1>1. StoreInv => ReportsTrue
  BY DEF StoreInv, ReportOf, GoneOf, ReportsTrue, Quiets
<1>2. QED
  BY <1>1, StoreInductive, PTL

(* EditsRespectOthers for any number of writers, profiles and outside       *)
(* changes: the fenced Update2 of an edit, of a confirmation and of a band  *)
(* rollback replaces exactly the settings it had read and changes only its  *)
(* own field.                                                               *)
THEOREM NoUpdateIsLost == StoreSpec => EditsRespectOthers
<1> DEFINE Respected == \A w \in Workers : Writing(w) => WriteGood(w)
<1>1. ASSUME StoreInv, [StoreNext]_storeVars PROVE Respected
  <2> SUFFICES ASSUME NEW w \in Workers, Writing(w) PROVE WriteGood(w)
    OBVIOUS
  <2>1. job[w].pc \in {"write", "commit"} /\ prof' # prof /\ job'[w] # job[w]
    BY DEF Writing
  <2>2. ~Environment /\ ~UNCHANGED storeVars
    BY <1>1, <2>1, EnvironmentStep DEF storeVars
  <2>3. PICK v \in Workers : JobStep(v)
    BY <1>1, <2>2 DEF StoreNext
  <2>4. v = w
    BY <1>1, <2>1, <2>3, JobStepAlone DEF Alone
  <2>5. Write(w) \/ Commit(w)
    BY <1>1, <2>1, <2>3, <2>4, JobStepAlone
  <2>6. QED
    BY <1>1, <2>1, <2>5, WriteKeeps, CommitKeeps
<1>2. StoreInv /\ [StoreNext]_storeVars =>
        [\A w \in Workers : Writing(w) =>
           /\ Now.mem = job[w].base
           /\ prof'[Target].here => OwnField(w, Now.mem, prof'[Target].mem)
           /\ job[w].kind = "band" /\ job[w].rollback =>
                Now.mem.band = "5GHz" /\ prof'[Target].mem.band = job[w].orig.band]_storeVars
  BY <1>1 DEF WriteGood
<1>3. QED
  BY <1>2, StoreInductive, PTL DEF StoreSpec, EditsRespectOthers

-----------------------------------------------------------------------------
\* The cast permission.

ReadingPlaces ==
    {"idle", "device", "applied", "saved", "version", "again", "permit", "close", "withdraw"}
TogglePlaces == {"save", "before", "resolver", "reapply", "after", "done"}
SnapSet ==
    [owner : {0, 1}, act : Nat, profile : CastProfiles, applied : BOOLEAN, version : Nat,
     saved : BOOLEAN, fresh : BOOLEAN, stable : BOOLEAN]
DeviceSet ==
    [up : BOOLEAN, act : Nat, profile : CastProfiles, applied : BOOLEAN, version : Nat]
ToggleSet ==
    [pc : TogglePlaces, on : BOOLEAN, ok : BOOLEAN, version : Nat, kept : BOOLEAN]

CastType ==
    /\ policy \in [CastProfiles -> BOOLEAN] /\ device \in DeviceSet /\ manager \in {0, 1}
    /\ reading \in [Reconcilers -> ReadingPlaces] /\ snap \in [Reconcilers -> SnapSet]
    /\ toggle \in ToggleSet

\* One reconcile runs at a time, the toggle's only where the toggle calls it.
LockInv ==
    /\ \A r \in Reconcilers : reading[r] # "idle" => holder = {r}
    /\ reading[Toggler] # "idle" => toggle.pc \in {"before", "after"}

\* While the applied version is the one read, so is the applied policy.
FreshSnap(place, s, d) ==
    /\ place \in {"saved", "version"} => s.version <= d.version
    /\ place = "saved" /\ s.version = d.version => s.applied = d.applied
    /\ place = "version" /\ s.version = d.version => s.fresh = s.applied
    /\ place = "again" /\ s.stable => s.fresh = s.applied
    /\ place = "permit" => s.saved /\ s.fresh
FreshInv == \A r \in Reconcilers : FreshSnap(reading[r], snap[r], device)

\* A snapshot that cannot open the target's interface.
CleanSnap(place, s) ==
    place \in {"version", "again", "permit"} /\ s.profile = CastTarget => ~s.saved

\* Once its first reconcile is through, nothing older than the toggle is left.
OffInv ==
    ~toggle.on /\ toggle.kept =>
        /\ toggle.pc # "save" => ~policy[CastTarget]
        /\ toggle.pc = "before" => CleanSnap(reading[Toggler], snap[Toggler])
        /\ toggle.pc \notin {"save", "before"} /\ toggle.ok =>
             /\ CastTarget \notin opened
             /\ \A r \in Reconcilers : CleanSnap(reading[r], snap[r])

CastInv == CastType /\ LockInv /\ FreshInv /\ OffInv

\* A step of a running reconcile that only adds to what it has read.
LEMMA SnapshotMoves ==
    ASSUME CastInv, NEW r \in Reconcilers, NEW place \in ReadingPlaces, NEW s \in SnapSet,
           reading[r] # "idle", FreshSnap(place, s, device),
           CleanSnap(reading[r], snap[r]) /\ ~policy[CastTarget] => CleanSnap(place, s),
           reading' = [reading EXCEPT ![r] = place], snap' = [snap EXCEPT ![r] = s],
           UNCHANGED <<policy, device, manager, holder, opened, toggle>>
    PROVE  CastInv'
<1>1. Toggler \in Reconcilers
  BY CastBounds
<1>2. /\ reading'[r] = place /\ snap'[r] = s
      /\ \A q \in Reconcilers \ {r} : reading'[q] = reading[q] /\ snap'[q] = snap[q]
  BY DEF CastInv, CastType
<1>3. CastType'
  BY DEF CastInv, CastType
<1>4. LockInv'
  BY <1>1, <1>2 DEF CastInv, LockInv
<1>5. FreshInv'
  BY <1>2 DEF CastInv, FreshInv
<1>6. OffInv'
  <2> SUFFICES ASSUME ~toggle.on, toggle.kept
               PROVE  /\ toggle.pc # "save" => ~policy[CastTarget]
                      /\ toggle.pc = "before" => CleanSnap(reading'[Toggler], snap'[Toggler])
                      /\ toggle.pc \notin {"save", "before"} /\ toggle.ok =>
                           /\ CastTarget \notin opened
                           /\ \A q \in Reconcilers : CleanSnap(reading'[q], snap'[q])
    BY DEF OffInv
  <2>1. toggle.pc # "save" => ~policy[CastTarget]
    BY DEF CastInv, OffInv
  <2>2. toggle.pc = "before" => CleanSnap(reading'[Toggler], snap'[Toggler])
    BY <1>1, <1>2, <2>1 DEF CastInv, OffInv
  <2>3. toggle.pc \notin {"save", "before"} /\ toggle.ok =>
          /\ CastTarget \notin opened
          /\ \A q \in Reconcilers : CleanSnap(reading'[q], snap'[q])
    BY <1>2, <2>1 DEF CastInv, OffInv
  <2> QED BY <2>1, <2>2, <2>3
<1> QED BY <1>3, <1>4, <1>5, <1>6 DEF CastInv

\* A read of device_enabled, whether NetworkManager still answers or not.
LEMMA ReadingMoves ==
    ASSUME CastInv, NEW r \in Reconcilers, NEW place \in ReadingPlaces \ {"idle"},
           NEW next \in ReadingPlaces, NEW s \in SnapSet, Reading(r, place, next, s),
           FreshSnap(next, s, device),
           CleanSnap(place, snap[r]) /\ ~policy[CastTarget] => CleanSnap(next, s)
    PROVE  CastInv'
<1>1. CASE snap[r].owner = manager
  <2>1. reading' = [reading EXCEPT ![r] = next] /\ snap' = [snap EXCEPT ![r] = s]
    BY <1>1 DEF Reading
  <2> QED BY <2>1, SnapshotMoves DEF Reading
<1>2. CASE snap[r].owner # manager
  <2>1. reading' = [reading EXCEPT ![r] = "withdraw"] /\ snap' = [snap EXCEPT ![r] = snap[r]]
    BY <1>2 DEF Reading
  <2>2. "withdraw" \in ReadingPlaces /\ snap[r] \in SnapSet
    BY DEF CastInv, CastType, ReadingPlaces
  <2>3. FreshSnap("withdraw", snap[r], device) /\ CleanSnap("withdraw", snap[r])
    BY DEF FreshSnap, CleanSnap
  <2> QED BY <2>1, <2>2, <2>3, SnapshotMoves DEF Reading
<1> QED BY <1>1, <1>2

LEMMA CastReads ==
    ASSUME CastInv, NEW r \in Reconcilers,
           \/ ReadDevice(r) \/ ReadApplied(r) \/ ReadSaved(r) \/ ReadVersion(r) \/ ReadAgain(r)
    PROVE  CastInv'
<1> USE DEF ReadingPlaces
<1>1. snap[r] \in SnapSet /\ device \in DeviceSet /\ policy \in [CastProfiles -> BOOLEAN]
  BY DEF CastInv, CastType
<1>2. FreshSnap(reading[r], snap[r], device)
  BY DEF CastInv, FreshInv
<1>3. CASE ReadDevice(r)
  <2> DEFINE s == [snap[r] EXCEPT !.act = device.act]
             n == IF device.up THEN "applied" ELSE "close"
  <2>1. s \in SnapSet /\ n \in {"applied", "close"}
    BY <1>1 DEF SnapSet, DeviceSet
  <2>2. Reading(r, "device", n, s)
    BY <1>3 DEF ReadDevice
  <2> HIDE DEF s, n
  <2>3. FreshSnap(n, s, device) /\ CleanSnap(n, s)
    BY <2>1 DEF FreshSnap, CleanSnap
  <2> QED BY <2>1, <2>2, <2>3, ReadingMoves
<1>4. CASE ReadApplied(r)
  <2> DEFINE s == [snap[r] EXCEPT !.applied = device.applied, !.version = device.version]
  <2>1. s \in SnapSet /\ s.applied = device.applied /\ s.version = device.version
    BY <1>1 DEF SnapSet, DeviceSet
  <2>2. Reading(r, "applied", "saved", s)
    BY <1>4 DEF ReadApplied
  <2>0. device.version \in Nat
    BY <1>1 DEF DeviceSet
  <2> HIDE DEF s
  <2>4. s.version <= device.version
    BY <2>0, <2>1, SMTT(40)
  <2>3. FreshSnap("saved", s, device) /\ CleanSnap("saved", s)
    BY <2>1, <2>4 DEF FreshSnap, CleanSnap
  <2> QED BY <2>1, <2>2, <2>3, ReadingMoves
<1>5. CASE ReadSaved(r)
  <2> DEFINE s == [snap[r] EXCEPT !.profile = device.profile, !.saved = policy[device.profile],
                                  !.fresh = device.applied]
  <2>1. /\ s \in SnapSet /\ s.profile = device.profile /\ s.saved = policy[device.profile]
        /\ s.fresh = device.applied /\ s.applied = snap[r].applied /\ s.version = snap[r].version
    BY <1>1 DEF SnapSet, DeviceSet
  <2>2. Reading(r, "saved", "version", s) /\ reading[r] = "saved"
    BY <1>5 DEF ReadSaved, Reading
  <2> HIDE DEF s
  <2>3. FreshSnap("version", s, device)
    BY <1>2, <2>1, <2>2 DEF FreshSnap
  <2>4. ~policy[CastTarget] => CleanSnap("version", s)
    BY <2>1 DEF CleanSnap
  <2> QED BY <2>1, <2>2, <2>3, <2>4, ReadingMoves
<1>6. CASE ReadVersion(r)
  <2> DEFINE s == [snap[r] EXCEPT !.stable = SameVersion(r)]
  <2>0. SameVersion(r) \in BOOLEAN
    BY DEF SameVersion
  <2>1. /\ s \in SnapSet /\ s.profile = snap[r].profile /\ s.saved = snap[r].saved
        /\ s.fresh = snap[r].fresh /\ s.applied = snap[r].applied /\ s.stable = SameVersion(r)
    BY <1>1, <2>0 DEF SnapSet
  <2>2. Reading(r, "version", "again", s) /\ reading[r] = "version"
    BY <1>6 DEF ReadVersion, Reading
  <2> HIDE DEF s
  <2>3. FreshSnap("again", s, device)
    BY <1>2, <2>1, <2>2 DEF FreshSnap, SameVersion
  <2>4. CleanSnap("version", snap[r]) => CleanSnap("again", s)
    BY <2>1 DEF CleanSnap
  <2> QED BY <2>1, <2>2, <2>3, <2>4, ReadingMoves
<1>7. CASE ReadAgain(r)
  <2> DEFINE n == IF /\ device.up /\ device.act = snap[r].act
                     /\ snap[r].stable /\ snap[r].saved /\ snap[r].applied
                  THEN "permit" ELSE "close"
  <2>1. /\ n \in {"permit", "close"}
        /\ n = "permit" => snap[r].stable /\ snap[r].saved /\ snap[r].applied
    OBVIOUS
  <2>2. Reading(r, "again", n, snap[r]) /\ reading[r] = "again"
    BY <1>7 DEF ReadAgain, Reading
  <2> HIDE DEF n
  <2>3. FreshSnap(n, snap[r], device)
    BY <1>2, <2>1, <2>2 DEF FreshSnap
  <2>4. CleanSnap("again", snap[r]) => CleanSnap(n, snap[r])
    BY <2>1 DEF CleanSnap
  <2> QED BY <1>1, <2>1, <2>2, <2>3, <2>4, ReadingMoves
<1> QED BY <1>3, <1>4, <1>5, <1>6, <1>7
LEMMA CastInitial ==
    ASSUME CastInit PROVE CastInv
<1>1. NoSnap \in SnapSet
  <2>1. 0 \in Nat
    BY SMTT(40)
  <2> QED BY <2>1, CastBounds DEF NoSnap, SnapSet
<1>2. device \in DeviceSet
  <2>1. 1 \in Nat
    BY SMTT(40)
  <2>2. PICK p \in CastProfiles :
          device = [up |-> TRUE, act |-> 1, profile |-> p, applied |-> policy[p], version |-> 1]
    BY DEF CastInit
  <2>3. policy[p] \in BOOLEAN
    BY DEF CastInit
  <2> QED BY <2>1, <2>2, <2>3 DEF DeviceSet
<1>3. toggle \in ToggleSet /\ toggle.pc = "save"
  <2>1. 0 \in Nat
    BY SMTT(40)
  <2>2. PICK on \in BOOLEAN :
          toggle = [pc |-> "save", on |-> on, ok |-> TRUE, version |-> 0, kept |-> TRUE]
    BY DEF CastInit
  <2> QED BY <2>1, <2>2 DEF ToggleSet, TogglePlaces
<1>4. CastType
  BY <1>1, <1>2, <1>3 DEF CastInit, CastType, ReadingPlaces
<1>5. \A r \in Reconcilers : reading[r] = "idle"
  BY DEF CastInit
<1>6. LockInv /\ FreshInv /\ OffInv
  BY <1>3, <1>5, CastBounds DEF LockInv, FreshInv, FreshSnap, OffInv
<1> QED BY <1>4, <1>6 DEF CastInv

\* Taking the transaction, and a snapshot that fails.
LEMMA CastBegins ==
    ASSUME CastInv, NEW r \in Reconcilers, BeginReconcile(r)
    PROVE  CastInv'
<1> DEFINE s == [NoSnap EXCEPT !.owner = manager]
           n == IF manager = 0 THEN "withdraw" ELSE "device"
<1>1. s \in SnapSet /\ n \in {"withdraw", "device"}
  <2>1. 0 \in Nat
    BY SMTT(40)
  <2>2. manager \in {0, 1}
    BY DEF CastInv, CastType
  <2> QED BY <2>1, <2>2, CastBounds DEF NoSnap, SnapSet
<1>2. reading' = [reading EXCEPT ![r] = n] /\ snap' = [snap EXCEPT ![r] = s]
  BY DEF BeginReconcile
<1> HIDE DEF s, n
<1>3. /\ reading'[r] = n /\ snap'[r] = s
      /\ \A q \in Reconcilers \ {r} : reading'[q] = "idle" /\ reading[q] = "idle" /\ snap'[q] = snap[q]
  BY <1>2 DEF CastInv, CastType, LockInv, BeginReconcile, Acquire
<1>4. UNCHANGED <<policy, device, manager, opened, toggle>> /\ holder' = {r}
  BY DEF BeginReconcile, Acquire
<1>5. CastType'
  BY <1>1, <1>2, <1>4 DEF CastInv, CastType, ReadingPlaces
<1>6. LockInv'
  BY <1>3, <1>4, CastBounds DEF LockInv, BeginReconcile, MayCall
<1>7. FreshInv'
  BY <1>1, <1>3 DEF FreshInv, FreshSnap
<1>8. \A q \in Reconcilers : CleanSnap(reading'[q], snap'[q])
  BY <1>1, <1>3 DEF CleanSnap
<1>9. OffInv'
  BY <1>4, <1>8, CastBounds DEF CastInv, OffInv
<1> QED BY <1>5, <1>6, <1>7, <1>9 DEF CastInv

LEMMA CastReadFails ==
    ASSUME CastInv, NEW r \in Reconcilers, ActivationGone(r) \/ SnapshotTimesOut(r)
    PROVE  CastInv'
<1>1. /\ reading' = [reading EXCEPT ![r] = "withdraw"] /\ reading[r] # "idle"
      /\ snap' = [snap EXCEPT ![r] = snap[r]]
      /\ UNCHANGED <<policy, device, manager, holder, opened, toggle>>
  BY DEF ActivationGone, SnapshotTimesOut, CastInv, CastType
<1>2. "withdraw" \in ReadingPlaces /\ snap[r] \in SnapSet
  BY DEF CastInv, CastType, ReadingPlaces
<1>3. FreshSnap("withdraw", snap[r], device) /\ CleanSnap("withdraw", snap[r])
  BY DEF FreshSnap, CleanSnap
<1> QED BY <1>1, <1>2, <1>3, SnapshotMoves

\* Where the toggle goes when a reconcile of its own ends.
LEMMA CastAdvances ==
    ASSUME CastInv, NEW r \in Reconcilers, NEW ok \in BOOLEAN, Advance(r, ok)
    PROVE  /\ toggle' \in ToggleSet
           /\ r # Toggler => toggle' = toggle
           /\ r = Toggler =>
                /\ toggle'.on = toggle.on /\ toggle'.kept = toggle.kept
                /\ toggle'.ok = (toggle.ok /\ ok)
                /\ toggle'.pc = IF toggle.pc = "before" THEN "resolver" ELSE "done"
<1>1. toggle \in ToggleSet
  BY DEF CastInv, CastType
<1>2. CASE r # Toggler
  BY <1>1, <1>2 DEF Advance
<1>3. CASE r = Toggler
  <2> DEFINE o == toggle.ok /\ ok
             n == IF toggle.pc = "before" THEN "resolver" ELSE "done"
  <2>1. toggle' = [toggle EXCEPT !.ok = o, !.pc = n]
    BY <1>3 DEF Advance
  <2>2. o \in BOOLEAN /\ n \in TogglePlaces
    BY <1>1 DEF ToggleSet, TogglePlaces
  <2> HIDE DEF o, n
  <2>3. /\ toggle' \in ToggleSet /\ toggle'.on = toggle.on /\ toggle'.kept = toggle.kept
        /\ toggle'.ok = o /\ toggle'.pc = n
    BY <1>1, <2>1, <2>2 DEF ToggleSet
  <2> QED BY <1>3, <2>3 DEF o, n
<1> QED BY <1>2, <1>3

LEMMA CastBusy ==
    ASSUME CastInv, NEW r \in Reconcilers, Busy(r)
    PROVE  CastInv'
<1>1. /\ toggle' \in ToggleSet /\ toggle'.ok = FALSE /\ toggle'.on = toggle.on
      /\ toggle'.kept = toggle.kept /\ toggle'.pc \notin {"save", "before"}
      /\ toggle.pc # "save" /\ reading[Toggler] = "idle"
      /\ UNCHANGED <<policy, device, manager, holder, reading, snap, opened>>
  BY CastAdvances DEF Busy, MayCall
<1>2. CastType' /\ LockInv' /\ FreshInv'
  BY <1>1 DEF CastInv, CastType, LockInv, FreshInv
<1>3. OffInv'
  BY <1>1 DEF CastInv, OffInv
<1> QED BY <1>2, <1>3 DEF CastInv

\* The end of a reconcile: the rules are what its snapshot says, or, when it
\* reports an error, perhaps the old ones.
LEMMA CastEnds ==
    ASSUME CastInv, NEW r \in Reconcilers, ApplyRules(r) \/ ApplyFails(r)
    PROVE  CastInv'
<1>0. PICK ok \in BOOLEAN :
        /\ Advance(r, ok)
        /\ \/ opened' = IF reading[r] = "permit" THEN {snap[r].profile} ELSE {}
           \/ opened' = opened /\ ok = FALSE
  BY DEF ApplyRules, ApplyFails
<1>1. /\ reading[r] # "idle" /\ reading' = [reading EXCEPT ![r] = "idle"]
      /\ holder' = holder \ {r} /\ snap' = [snap EXCEPT ![r] = NoSnap]
      /\ UNCHANGED <<policy, device, manager>>
  BY DEF ApplyRules, ApplyFails
<1>2. NoSnap \in SnapSet
  <2>1. 0 \in Nat
    BY SMTT(40)
  <2> QED BY <2>1, CastBounds DEF NoSnap, SnapSet
<1>3. /\ toggle' \in ToggleSet
      /\ r # Toggler => toggle' = toggle
      /\ r = Toggler =>
           /\ toggle'.on = toggle.on /\ toggle'.kept = toggle.kept
           /\ toggle'.ok = (toggle.ok /\ ok)
           /\ toggle'.pc = IF toggle.pc = "before" THEN "resolver" ELSE "done"
  BY <1>0, CastAdvances
<1>4. holder = {r} /\ \A q \in Reconcilers : reading'[q] = "idle"
  <2>1. holder = {r} /\ \A q \in Reconcilers \ {r} : reading[q] = "idle"
    BY <1>1 DEF CastInv, LockInv
  <2> QED BY <1>1, <2>1 DEF CastInv, CastType
<1>5. CastType'
  BY <1>1, <1>2, <1>3 DEF CastInv, CastType, ReadingPlaces
<1>6. LockInv' /\ FreshInv'
  BY <1>4, CastBounds DEF LockInv, FreshInv, FreshSnap
<1>7. \A q \in Reconcilers : CleanSnap(reading'[q], snap'[q])
  BY <1>4 DEF CleanSnap
<1>8. CleanSnap(reading[r], snap[r]) /\ reading[r] = "permit" => snap[r].profile # CastTarget
  BY DEF CastInv, FreshInv, FreshSnap, CleanSnap
<1>9. OffInv'
  <2>1. CASE r = Toggler
    <3>1. toggle.pc \in {"before", "after"}
      BY <1>1, <2>1 DEF CastInv, LockInv
    <3>2. ~toggle.on /\ toggle.kept => ~policy[CastTarget]
      BY <3>1 DEF CastInv, OffInv
    <3>3. ~toggle.on /\ toggle.kept /\ toggle.ok => CleanSnap(reading[r], snap[r])
      BY <2>1, <3>1 DEF CastInv, OffInv
    <3>4. ~toggle.on /\ toggle.kept /\ toggle.ok /\ ok => CastTarget \notin opened'
      BY <1>0, <1>8, <3>3
    <3> QED BY <1>1, <1>3, <1>7, <2>1, <3>1, <3>2, <3>4, CastBounds DEF OffInv
  <2>2. CASE r # Toggler
    <3>1. toggle' = toggle
      BY <1>3, <2>2
    <3>2. ~toggle.on /\ toggle.kept /\ toggle.pc \notin {"save", "before"} /\ toggle.ok =>
            CastTarget \notin opened'
      BY <1>0, <1>8 DEF CastInv, OffInv
    <3> QED BY <1>1, <1>7, <3>1, <3>2, CastBounds DEF CastInv, OffInv
  <2> QED BY <2>1, <2>2
<1> QED BY <1>5, <1>6, <1>9 DEF CastInv
\* A change of the device keeps the applied policy or gives it a new version.
LEMMA DeviceMoves ==
    ASSUME CastInv, device' \in DeviceSet,
           \/ device'.version = device.version + 1
           \/ device'.version = device.version /\ device'.applied = device.applied,
           UNCHANGED <<reading, snap>>
    PROVE  FreshInv'
<1> SUFFICES ASSUME NEW r \in Reconcilers
             PROVE  FreshSnap(reading[r], snap[r], device')
  BY DEF FreshInv
<1>1. FreshSnap(reading[r], snap[r], device)
  BY DEF CastInv, FreshInv
<1>2. snap[r].version \in Nat /\ device.version \in Nat /\ device'.version \in Nat
  BY DEF CastInv, CastType, SnapSet, DeviceSet
<1>3. snap[r].version <= device.version =>
        /\ snap[r].version <= device'.version
        /\ snap[r].version = device'.version =>
             snap[r].version = device.version /\ device'.applied = device.applied
  BY <1>2, SMTT(40)
<1> QED BY <1>1, <1>3 DEF FreshSnap

\* The toggle's own steps.
LEMMA CastToggles ==
    ASSUME CastInv, SaveToggle \/ ReadResolver \/ Reapply
    PROVE  CastInv'
<1>1. toggle \in ToggleSet /\ device \in DeviceSet /\ reading[Toggler] = "idle"
  BY DEF CastInv, CastType, LockInv, SaveToggle, ReadResolver, Reapply
<1>2. CASE SaveToggle
  <2>1. /\ toggle' \in ToggleSet /\ toggle'.pc = "before" /\ toggle'.on = toggle.on
    BY <1>1, <1>2 DEF SaveToggle, ToggleSet, TogglePlaces
  <2>2. /\ policy' \in [CastProfiles -> BOOLEAN] /\ policy'[CastTarget] = toggle.on
    BY <1>1, <1>2, CastBounds DEF SaveToggle, CastInv, CastType, ToggleSet
  <2>3. UNCHANGED <<device, manager, holder, reading, snap, opened>>
    BY <1>2 DEF SaveToggle
  <2>4. CastType' /\ LockInv' /\ FreshInv'
    BY <1>1, <2>1, <2>2, <2>3 DEF CastInv, CastType, LockInv, FreshInv
  <2>5. OffInv'
    BY <1>1, <2>1, <2>2, <2>3 DEF OffInv, CleanSnap
  <2> QED BY <2>4, <2>5 DEF CastInv
<1>3. CASE ReadResolver
  <2>1. /\ toggle' \in ToggleSet /\ toggle'.pc \in {"reapply", "after"} /\ toggle'.on = toggle.on
        /\ toggle'.kept = toggle.kept /\ (toggle'.ok => toggle.ok)
    <3>1. device.version \in Nat
      BY <1>1 DEF DeviceSet
    <3> QED BY <1>1, <1>3, <3>1 DEF ReadResolver, ToggleSet, TogglePlaces
  <2>2. UNCHANGED <<policy, device, manager, holder, reading, snap, opened>> /\ toggle.pc = "resolver"
    BY <1>3 DEF ReadResolver
  <2>3. CastType' /\ LockInv' /\ FreshInv'
    BY <1>1, <2>1, <2>2 DEF CastInv, CastType, LockInv, FreshInv
  <2>4. OffInv'
    BY <2>1, <2>2 DEF CastInv, OffInv
  <2> QED BY <2>3, <2>4 DEF CastInv
<1>4. CASE Reapply
  <2>1. /\ toggle' \in ToggleSet /\ toggle'.pc = "after" /\ toggle'.on = toggle.on
        /\ toggle'.kept = toggle.kept /\ (toggle'.ok => toggle.ok)
    BY <1>1, <1>4 DEF Reapply, ToggleSet, TogglePlaces
  <2>2. UNCHANGED <<policy, manager, holder, reading, snap, opened>> /\ toggle.pc = "reapply"
    BY <1>4 DEF Reapply
  <2>3. device' = device \/ device' = [device EXCEPT !.applied = toggle.on, !.version = device.version + 1]
    BY <1>1, <1>4 DEF Reapply, DeviceSet
  <2>4. device' \in DeviceSet /\ (device' = device \/ device'.version = device.version + 1)
    <3>1. device.version + 1 \in Nat
      BY <1>1, SMTT(40) DEF DeviceSet
    <3> QED BY <1>1, <2>3, <3>1 DEF DeviceSet, ToggleSet
  <2>5. FreshInv'
    BY <1>1, <2>2, <2>4, DeviceMoves
  <2>6. CastType' /\ LockInv'
    BY <1>1, <2>1, <2>2, <2>4 DEF CastInv, CastType, LockInv
  <2>7. OffInv'
    BY <2>1, <2>2 DEF CastInv, OffInv
  <2> QED BY <2>5, <2>6, <2>7 DEF CastInv
<1> QED BY <1>2, <1>3, <1>4

\* The environment.
LEMMA CastEnvironment ==
    ASSUME CastInv, CastMove
    PROVE  CastInv'
<1>1. toggle \in ToggleSet /\ device \in DeviceSet /\ policy \in [CastProfiles -> BOOLEAN]
  BY DEF CastInv, CastType
<1>2. UNCHANGED <<holder, reading, snap, opened>>
  BY DEF CastMove
<1>3. ASSUME NEW p \in CastProfiles, policy' = [policy EXCEPT ![p] = ~@],
             toggle' = [toggle EXCEPT !.kept = @ /\ (p = CastTarget => toggle.pc = "save")],
             UNCHANGED <<device, manager>>
      PROVE  CastInv'
  <2> DEFINE k == toggle.kept /\ (p = CastTarget => toggle.pc = "save")
  <2>1. toggle' = [toggle EXCEPT !.kept = k] /\ k \in BOOLEAN
    BY <1>1, <1>3 DEF ToggleSet
  <2>2. k => toggle.kept /\ (p = CastTarget => toggle.pc = "save")
    OBVIOUS
  <2> HIDE DEF k
  <2>3. /\ toggle' \in ToggleSet /\ toggle'.pc = toggle.pc /\ toggle'.on = toggle.on
        /\ toggle'.ok = toggle.ok /\ toggle'.kept = k
    BY <1>1, <2>1 DEF ToggleSet
  <2>4. policy' \in [CastProfiles -> BOOLEAN] /\ (p # CastTarget => policy'[CastTarget] = policy[CastTarget])
    BY <1>1, <1>3, CastBounds
  <2>5. CastType' /\ LockInv' /\ FreshInv'
    BY <1>2, <1>3, <2>3, <2>4 DEF CastInv, CastType, LockInv, FreshInv
  <2>6. OffInv'
    BY <1>2, <2>2, <2>3, <2>4 DEF CastInv, OffInv
  <2> QED BY <2>5, <2>6 DEF CastInv
<1>4. ASSUME device' \in DeviceSet,
             \/ device'.version = device.version + 1
             \/ device'.version = device.version /\ device'.applied = device.applied,
             UNCHANGED <<policy, manager, toggle>>
      PROVE  CastInv'
  <2>1. FreshInv'
    BY <1>1, <1>2, <1>4, DeviceMoves
  <2> QED BY <1>2, <1>4, <2>1 DEF CastInv, CastType, LockInv, OffInv
<1>5. ASSUME NEW p \in CastProfiles,
             device' = [up |-> TRUE, act |-> device.act + 1, profile |-> p,
                        applied |-> policy[p], version |-> device.version + 1],
             UNCHANGED <<policy, manager, toggle>>
      PROVE  CastInv'
  <2>1. device.act + 1 \in Nat /\ device.version + 1 \in Nat
    BY <1>1, SMTT(40) DEF DeviceSet
  <2>2. device' \in DeviceSet /\ device'.version = device.version + 1
    BY <1>1, <1>5, <2>1 DEF DeviceSet
  <2> QED BY <1>4, <1>5, <2>2
<1>6. ASSUME device' = [device EXCEPT !.applied = ~@, !.version = @ + 1],
             UNCHANGED <<policy, manager, toggle>>
      PROVE  CastInv'
  <2>1. device.version + 1 \in Nat
    BY <1>1, SMTT(40) DEF DeviceSet
  <2>2. device' \in DeviceSet /\ device'.version = device.version + 1
    BY <1>1, <1>6, <2>1 DEF DeviceSet
  <2> QED BY <1>4, <1>6, <2>2
<1>7. ASSUME device' = [device EXCEPT !.up = FALSE], UNCHANGED <<policy, manager, toggle>>
      PROVE  CastInv'
  <2>1. /\ device' \in DeviceSet /\ device'.version = device.version
        /\ device'.applied = device.applied
    BY <1>1, <1>7 DEF DeviceSet
  <2> QED BY <1>4, <1>7, <2>1
<1>8. ASSUME manager' = 0, UNCHANGED <<policy, device, toggle>>
      PROVE  CastInv'
  BY <1>2, <1>8 DEF CastInv, CastType, LockInv, FreshInv, OffInv
<1> QED BY <1>3, <1>5, <1>6, <1>7, <1>8 DEF CastMove

\* One reconcile at a time, snapshots that existed and nothing older than the
\* toggle: the invariant behind ConsentFollowed.
LEMMA CastStep ==
    ASSUME CastInv, [CastNext]_castVars PROVE CastInv'
<1>1. CASE UNCHANGED castVars
  BY <1>1 DEF castVars, CastInv, CastType, LockInv, FreshInv, OffInv
<1>2. CASE CastNext
  <2>1. CASE LeaseExpires
    BY <2>1 DEF LeaseExpires, CastInv, CastType, LockInv, FreshInv, OffInv
  <2> QED BY <1>2, <2>1, CastBegins, CastBusy, CastReads, CastReadFails, CastEnds, CastToggles,
             CastEnvironment DEF CastNext
<1> QED BY <1>1, <1>2

\* CastInv is inductive: the transaction really serialises the reconciles of
\* cast_policy/mod.rs, and each snapshot that permits is of one instant.
THEOREM CastInductive == CastSpec => []CastInv
<1>1. CastInit => CastInv
  BY CastInitial
<1>2. CastInv /\ [CastNext]_castVars => CastInv'
  BY CastStep
<1> QED BY <1>1, <1>2, PTL DEF CastSpec

\* The firewall opens only on a snapshot whose saved and applied policies both
\* permitted discovery at one instant, and once the toggle reported off it
\* stays closed, for every number of reconciles, profiles and outside moves.
THEOREM FirewallFollowsConsent == CastSpec => ConsentFollowed
<1>1. CastInv /\ [CastNext]_castVars =>
        [/\ OffIsEnforced'
         /\ \A r \in Reconcilers :
              (reading[r] = "permit" /\ reading'[r] = "idle" /\ opened' # {})
                  => snap[r].saved /\ snap[r].fresh]_castVars
  <2> SUFFICES ASSUME CastInv, [CastNext]_castVars
               PROVE  /\ OffIsEnforced'
                      /\ \A r \in Reconcilers :
                           reading[r] = "permit" => snap[r].saved /\ snap[r].fresh
    OBVIOUS
  <2>1. CastInv'
    BY CastStep
  <2>2. OffIsEnforced'
    BY <2>1 DEF CastInv, OffInv, OffIsEnforced
  <2>3. \A r \in Reconcilers : reading[r] = "permit" => snap[r].saved /\ snap[r].fresh
    BY DEF CastInv, FreshInv, FreshSnap
  <2> QED BY <2>2, <2>3
<1> QED BY <1>1, CastInductive, PTL DEF CastSpec, ConsentFollowed
=============================================================================
