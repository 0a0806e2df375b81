--------------------------- MODULE ReferencePins ---------------------------
(***************************************************************************)
(* scripts/check_references.py: references.json pins the content of every  *)
(* cited document, .cache/references/ holds the content that was fetched,  *)
(* and a citation of a Lean file names a pinned document and an anchor in  *)
(* it.  A process is one invocation: --offline checks the citations,       *)
(* --refresh fetches and promotes what equals its pin, and                 *)
(* --acknowledge-drift pins what it fetches.  Neither file is locked, and  *)
(* both are written by truncating and filling.                             *)
(*                                                                         *)
(* Contents stand for their hashes.  What an address of a reviewer must    *)
(* look like is ReviewerAttribution's; here a pin names who made it.       *)
(*                                                                         *)
(* A definition commented "Mutant" is a bug the checks must find; no       *)
(* specification uses it.                                                  *)
(***************************************************************************)
EXTENDS Integers, FiniteSets, FiniteSetsExt, Functions

CONSTANTS
    Proc,       \* invocations of the script
    Slugs,      \* documents
    Contents,   \* what a document's address may serve, by its hash
    Citations,  \* [file, slug, anchor] of the tracked Lean files
    Malformed,  \* anchors outside the grammar of their document's mode
    Paged,      \* documents whose anchors are page ranges (pdf-locator)
    Pointed,    \* documents whose anchors are JSON pointers
    Finds,      \* <<anchor, content>>: the anchor is found in the content
    InRange,    \* page ranges within the registered number of pages
    Regimes,    \* what may happen around the script; one holds for a behaviour
    Pinned,     \* the content every document is pinned to at first
    Author,     \* who wrote the first registry, and edits it by hand
    Missing,    \* no such cache file
    Partial,    \* a file that was truncated and not yet filled
    Broken,     \* a registry that does not parse, or fails its schema
    Down,       \* an address that does not answer
    None

Bad == {Missing, Partial}
Ops == [op : {"offline", "refresh", "acknowledge"},
        how : {"slug", "corpus", "all", "none"},
        slugs : SUBSET Slugs,
        reviewed : BOOLEAN]

(* A registry: which content a document is pinned to, and by whom.         *)
Registries ==
    UNION {[S -> [sha : Contents, by : Proc \union {Author}]] : S \in SUBSET Slugs}

(* procs: who may start; commands: the command lines that may be given;    *)
(* serial: whether one is over before the next starts; hideable: the Lean  *)
(* files that may be unreadable, or not UTF-8; and bounds of how often an  *)
(* address serves something else, somebody edits registry or cache by      *)
(* hand, and a process is killed.                                          *)
ASSUME ReferenceAssumption ==
    /\ Pinned \in Contents /\ Pointed \cap Paged = {}
    /\ \A c \in Citations : c.slug \in Slugs
    /\ \A r \in Regimes :
        /\ r.procs \subseteq Proc /\ r.serial \in BOOLEAN
        /\ r.commands \subseteq Ops
        /\ \A c \in r.commands : c.how = "slug" => \E s \in Slugs : c.slugs = {s}
        /\ r.drifts \in Nat /\ r.edits \in Nat /\ r.kills \in Nat
    /\ Contents \cap {Missing, Partial, Down} = {}
    /\ Author \notin Proc /\ None \notin Proc
    /\ Broken \notin Registries /\ None \notin Registries

VARIABLES
    regime,
    registry,   \* references.json: slug to [sha, by], or Broken
    cache,      \* .cache/references/
    upstream,   \* what the documents' addresses serve
    unreadable, \* the Lean files that cannot be read as UTF-8
    pc,         \* where a process is
    cmd,        \* its command line
    loaded,     \* the registry it loaded, later the one it reads again
    todo,       \* citations it has to check, or documents to fetch
    at,         \* the one it is at
    verified,   \* documents whose cache it has hashed
    data,       \* what it fetched last
    code,       \* its exit code, or the worst so far
    faults,     \* the codes of failing citations
    disturbed,  \* history: processes beside which another one wrote
    reported,   \* history: <<slug, content>> a refresh reported as drift
    drifts, edits, kills

own  == <<cmd, loaded, todo, at, verified, data, code, faults>>
env  == <<regime, upstream, unreadable, drifts, edits, kills>>
vars == <<regime, registry, cache, upstream, unreadable, pc, cmd, loaded, todo, at, verified,
          data, code, faults, disturbed, reported, drifts, edits, kills>>

Files == {c.file : c \in Citations}
Idle == {p \in Proc : pc[p] = "idle"}
Active == {p \in Proc : pc[p] \notin {"idle", "done", "dead"}}

Init ==
    /\ regime \in Regimes
    /\ registry \in {[s \in S |-> [sha |-> Pinned, by |-> Author]] : S \in SUBSET Slugs}
    /\ cache \in [Slugs -> {Missing, Pinned}]
    /\ upstream = [s \in Slugs |-> Pinned]
    /\ unreadable \in SUBSET (regime.hideable \cap Files)
    /\ pc = [p \in Proc |-> "idle"] /\ cmd = [p \in Proc |-> None]
    /\ loaded = [p \in Proc |-> None] /\ todo = [p \in Proc |-> {}]
    /\ at = [p \in Proc |-> None] /\ verified = [p \in Proc |-> {}]
    /\ data = [p \in Proc |-> None]
    /\ code = [p \in Proc |-> 0] /\ faults = [p \in Proc |-> {}]
    /\ disturbed = {} /\ reported = {}
    /\ drifts = 0 /\ edits = 0 /\ kills = 0

(* Registry, cache or addresses change under every other process that has  *)
(* begun.                                                                  *)
Disturb(p) == disturbed' = disturbed \union (Proc \ (Idle \union {p}))

Goto(p, place) == pc' = [pc EXCEPT ![p] = place]
Exit(p, c) == Goto(p, "done") /\ code' = [code EXCEPT ![p] = c]

(* main and the checks of run_acknowledge_drift before it loads anything.  *)
Start(p) ==
    /\ pc[p] = "idle" /\ p \in regime.procs
    /\ regime.serial => Active = {}
    /\ \E c \in regime.commands :
        /\ cmd' = [cmd EXCEPT ![p] = c]
        /\ IF c.op = "acknowledge" /\ (~c.reviewed \/ c.how # "slug")
           THEN Exit(p, 9)
           ELSE Goto(p, "load") /\ UNCHANGED code
    /\ UNCHANGED <<registry, cache, loaded, todo, at, verified, data, faults,
                   disturbed, reported, env>>

(* load_registry refuses what does not parse or does not validate.         *)
LoadFails(p) ==
    /\ pc[p] = "load" /\ registry = Broken
    /\ Exit(p, 1)
    /\ UNCHANGED <<registry, cache, cmd, loaded, todo, at, verified, data, faults,
                   disturbed, reported, env>>

Selected(c) ==
    IF c.how = "all" THEN DOMAIN registry ELSE c.slugs \cap DOMAIN registry

(* load_registry, and what each command does with the arguments it has.    *)
Load(p) ==
    /\ pc[p] = "load" /\ registry # Broken
    /\ loaded' = [loaded EXCEPT ![p] = registry]
    /\ todo' = [todo EXCEPT ![p] = IF cmd[p].op = "refresh" THEN Selected(cmd[p]) ELSE {}]
    /\ CASE cmd[p].op # "offline" /\ cmd[p].how = "slug" /\ Selected(cmd[p]) = {} -> Exit(p, 2)
         [] cmd[p].how = "none" /\ cmd[p].op = "refresh" -> Exit(p, 9)
         [] cmd[p].op = "offline" -> Goto(p, "collect") /\ UNCHANGED code
         [] OTHER -> Goto(p, "fetch") /\ UNCHANGED code
    /\ UNCHANGED <<registry, cache, cmd, at, verified, data, faults, disturbed, reported, env>>

-----------------------------------------------------------------------------
(* --offline *)

(* The citations of the files that can be read.                            *)
Collected == {c \in Citations : c.file \notin unreadable}

(* collect_slug_citations: a file that cannot be read has no citation.     *)
Collect(p) ==
    /\ pc[p] = "collect"
    /\ todo' = [todo EXCEPT ![p] = Collected]
    /\ Goto(p, "verify")
    /\ UNCHANGED <<registry, cache, cmd, loaded, at, verified, data, code, faults,
                   disturbed, reported, env>>

(* Mutant: a cache file that exists is taken for the pinned one.           *)
PresenceOnly(entry, content) == IF content = Missing THEN {3} ELSE {}

(* verify_cache_integrity: 3 without a cache file, 4 if it is not what the *)
(* registry pins.                                                          *)
CacheFault(entry, content) ==
    IF content = Missing THEN {3} ELSE IF content # entry.sha THEN {4} ELSE {}

(* The next citation: its document's registration, and the hash of its     *)
(* cache file unless that was verified for an earlier citation.            *)
Verify(p) ==
    /\ pc[p] = "verify"
    /\ \E c \in todo[p] :
        LET registered == c.slug \in DOMAIN loaded[p]
            fault == IF ~registered THEN {2}
                     ELSE IF c.slug \in verified[p] THEN {}
                     ELSE CacheFault(loaded[p][c.slug], cache[c.slug])
        IN  /\ todo' = [todo EXCEPT ![p] = @ \ {c}]
            /\ faults' = [faults EXCEPT ![p] = @ \union fault]
            /\ IF fault = {}
               THEN /\ verified' = [verified EXCEPT ![p] = @ \union {c.slug}]
                    /\ at' = [at EXCEPT ![p] = c]
                    /\ Goto(p, "anchor")
               ELSE UNCHANGED <<verified, at, pc>>
    /\ UNCHANGED <<registry, cache, cmd, loaded, data, code, disturbed, reported, env>>

(* The five checkers: a locator outside the grammar, then one that is not  *)
(* found.  Page ranges are looked up in the registry, the others in the    *)
(* cache file.                                                             *)
AnchorFault(c, content) ==
    IF c.anchor \in Malformed THEN {5}
    ELSE IF IF c.slug \in Paged THEN c.anchor \in InRange ELSE <<c.anchor, content>> \in Finds
         THEN {}
         ELSE {6}

(* A checker opens the cache file again.  If it has gone meanwhile only    *)
(* the one for JSON pointers catches the error.                            *)
Unopened(c) ==
    /\ cache[c.slug] = Missing
    /\ c.anchor \notin Malformed /\ c.slug \notin Paged \union Pointed

Anchor(p) ==
    /\ pc[p] = "anchor" /\ ~Unopened(at[p])
    /\ faults' = [faults EXCEPT ![p] = @ \union AnchorFault(at[p], cache[at[p].slug])]
    /\ Goto(p, "verify")
    /\ UNCHANGED <<registry, cache, cmd, loaded, todo, at, verified, data, code,
                   disturbed, reported, env>>

AnchorRaises(p) ==
    /\ pc[p] = "anchor" /\ Unopened(at[p])
    /\ Exit(p, 1)
    /\ UNCHANGED <<registry, cache, cmd, loaded, todo, at, verified, data, faults,
                   disturbed, reported, env>>

PrimaryFault(codes) == IF codes = {} THEN 0 ELSE Min(codes)

(* run_offline returns the first code of the table that applies.           *)
Conclude(p) ==
    /\ pc[p] = "verify" /\ todo[p] = {}
    /\ Exit(p, PrimaryFault(faults[p]))
    /\ UNCHANGED <<registry, cache, cmd, loaded, todo, at, verified, data, faults,
                   disturbed, reported, env>>

-----------------------------------------------------------------------------
(* --refresh and --acknowledge-drift *)

(* Mutant: the outcome of the last document is the outcome of the run.     *)
Latest(worst, fault) == fault

Worst(worst, fault) == IF worst > fault THEN worst ELSE fault

(* A fetch that failed, or content that is not the pinned one.             *)
FetchFault(content, pin) == IF content = Down THEN 7 ELSE IF content # pin THEN 8 ELSE 0

Promotes(fault) == fault = 0

(* One target of run_refresh: what equals its pin is going to be promoted, *)
(* drift is reported, and the worst outcome so far is kept.                *)
Refresh(p) ==
    /\ pc[p] = "fetch" /\ cmd[p].op = "refresh"
    /\ \E s \in todo[p] :
        LET fault == FetchFault(upstream[s], loaded[p][s].sha)
        IN  /\ todo' = [todo EXCEPT ![p] = @ \ {s}]
            /\ at' = [at EXCEPT ![p] = s]
            /\ data' = [data EXCEPT ![p] = upstream[s]]
            /\ code' = [code EXCEPT ![p] = Worst(@, fault)]
            /\ reported' = IF fault = 8 THEN reported \union {<<s, upstream[s]>>} ELSE reported
            /\ IF Promotes(fault) THEN Goto(p, "write") ELSE UNCHANGED pc
    /\ UNCHANGED <<registry, cache, cmd, loaded, verified, faults, disturbed, env>>

RefreshEnds(p) ==
    /\ pc[p] = "fetch" /\ cmd[p].op = "refresh" /\ todo[p] = {}
    /\ Exit(p, code[p])
    /\ UNCHANGED <<registry, cache, cmd, loaded, todo, at, verified, data, faults,
                   disturbed, reported, env>>

(* There must be a difference from the pin that was loaded.                *)
AcknowledgeFault(content, pin) == IF content = Down THEN 7 ELSE IF content = pin THEN 9 ELSE 0

(* run_acknowledge_drift fetches once more.                                *)
Acknowledge(p) ==
    /\ pc[p] = "fetch" /\ cmd[p].op = "acknowledge"
    /\ \E s \in cmd[p].slugs :
        LET fault == AcknowledgeFault(upstream[s], loaded[p][s].sha)
        IN  /\ at' = [at EXCEPT ![p] = s]
            /\ data' = [data EXCEPT ![p] = upstream[s]]
            /\ IF fault # 0 THEN Exit(p, fault) ELSE Goto(p, "raw") /\ UNCHANGED code
    /\ UNCHANGED <<registry, cache, cmd, loaded, todo, verified, faults,
                   disturbed, reported, env>>

(* The registry is parsed again; an error here is not caught.              *)
ReadRaw(p) ==
    /\ pc[p] = "raw"
    /\ IF registry = Broken
       THEN Exit(p, 1) /\ UNCHANGED loaded
       ELSE /\ loaded' = [loaded EXCEPT ![p] = registry]
            /\ Goto(p, "truncate") /\ UNCHANGED code
    /\ UNCHANGED <<registry, cache, cmd, todo, at, verified, data, faults,
                   disturbed, reported, env>>

(* write_text opens, which truncates, and then writes.                     *)
TruncateRegistry(p) ==
    /\ pc[p] = "truncate"
    /\ registry' = Broken
    /\ Disturb(p) /\ Goto(p, "pin")
    /\ UNCHANGED <<cache, own, reported, env>>

(* Mutant: every entry gets the pin.                                       *)
RepinAll(entries, slug, content, by) == [s \in DOMAIN entries |-> [sha |-> content, by |-> by]]

(* _set_repin_metadata: every field of the entry of that name, if there is *)
(* one.                                                                    *)
Repin(entries, slug, content, by) ==
    [s \in DOMAIN entries |->
        IF s = slug THEN [sha |-> content, by |-> by] ELSE entries[s]]

WriteRegistry(p) ==
    /\ pc[p] = "pin"
    /\ registry' = Repin(loaded[p], at[p], data[p], p)
    /\ Disturb(p) /\ Goto(p, "write")
    /\ UNCHANGED <<cache, own, reported, env>>

(* write_bytes truncates as well.                                          *)
TruncateCache(p) ==
    /\ pc[p] = "write"
    /\ cache' = [cache EXCEPT ![at[p]] = Partial]
    /\ Disturb(p) /\ Goto(p, "fill")
    /\ UNCHANGED <<registry, own, reported, env>>

WriteCache(p) ==
    /\ pc[p] = "fill"
    /\ cache' = [cache EXCEPT ![at[p]] = data[p]]
    /\ Disturb(p)
    /\ Goto(p, IF cmd[p].op = "acknowledge" THEN "done" ELSE "fetch")
    /\ UNCHANGED <<registry, own, reported, env>>

-----------------------------------------------------------------------------
(* What happens around the script *)

(* A document's address serves something else, or nothing.                 *)
Drift(s) ==
    /\ drifts < regime.drifts
    /\ drifts' = drifts + 1
    /\ upstream' \in {[upstream EXCEPT ![s] = u] : u \in (Contents \union {Down}) \ {upstream[s]}}
    /\ UNCHANGED <<regime, registry, cache, unreadable, pc, own, disturbed, reported, edits, kills>>

(* A developer changes or removes one pin, leaves the file with a syntax   *)
(* error, or restores it.                                                  *)
EditRegistry(s) ==
    /\ edits < regime.edits
    /\ edits' = edits + 1
    /\ IF registry = Broken
       THEN registry' = [t \in Slugs |-> [sha |-> Pinned, by |-> Author]]
       ELSE registry' \in {Broken, Restrict(registry, DOMAIN registry \ {s})}
                \union {Repin(registry, s, c, Author) : c \in Contents}
    /\ Disturb(None)
    /\ UNCHANGED <<regime, cache, upstream, unreadable, pc, own, reported, drifts, kills>>

(* A cache file is lost, damaged or replaced.                              *)
EditCache(s) ==
    /\ edits < regime.edits
    /\ edits' = edits + 1
    /\ cache' \in {[cache EXCEPT ![s] = c] : c \in Contents \union Bad}
    /\ Disturb(None)
    /\ UNCHANGED <<regime, registry, upstream, unreadable, pc, own, reported, drifts, kills>>

Kill(p) ==
    /\ kills < regime.kills /\ p \in Active
    /\ kills' = kills + 1
    /\ Goto(p, "dead")
    /\ UNCHANGED <<regime, registry, cache, upstream, unreadable, own, disturbed, reported, drifts, edits>>

Step(p) ==
    \/ Start(p) \/ LoadFails(p) \/ Load(p)
    \/ Collect(p) \/ Verify(p) \/ Anchor(p) \/ AnchorRaises(p) \/ Conclude(p)
    \/ Refresh(p) \/ RefreshEnds(p)
    \/ Acknowledge(p) \/ ReadRaw(p) \/ TruncateRegistry(p) \/ WriteRegistry(p)
    \/ TruncateCache(p) \/ WriteCache(p)

Next ==
    \/ \E p \in Proc : Step(p) \/ Kill(p)
    \/ \E s \in Slugs : Drift(s) \/ EditRegistry(s) \/ EditCache(s)

Spec == Init /\ [][Next]_vars

-----------------------------------------------------------------------------
(* Properties *)

Ended(p, op) == pc[p] = "done" /\ cmd[p].op = op
Registered == IF registry = Broken THEN {} ELSE DOMAIN registry

TypeOK ==
    /\ regime \in Regimes
    /\ registry \in Registries \union {Broken}
    /\ cache \in [Slugs -> Contents \union Bad]
    /\ upstream \in [Slugs -> Contents \union {Down}]
    /\ unreadable \subseteq Files
    /\ pc \in [Proc -> {"idle", "load", "collect", "verify", "anchor", "fetch", "raw",
                        "truncate", "pin", "write", "fill", "done", "dead"}]
    /\ cmd \in [Proc -> regime.commands \union {None}]
    /\ loaded \in [Proc -> Registries \union {None}]
    /\ todo \in [Proc -> (SUBSET Slugs) \union SUBSET Citations]
    /\ at \in [Proc -> Slugs \union Citations \union {None}]
    /\ verified \in [Proc -> SUBSET Slugs]
    /\ data \in [Proc -> Contents \union {Down, None}]
    /\ code \in [Proc -> 0 .. 9] /\ faults \in [Proc -> SUBSET (2 .. 6)]
    /\ disturbed \subseteq Proc /\ reported \subseteq Slugs \X Contents
    /\ drifts \in 0 .. regime.drifts /\ edits \in 0 .. regime.edits /\ kills \in 0 .. regime.kills

(* No hash is bumped without leaving an attributed trail: whoever a pin    *)
(* names had asked for that document with a reviewer, and fetched exactly  *)
(* the pinned content, whatever ran beside.                                *)
PinsAreAttributed ==
    \A s \in Registered : registry[s].by \in Proc =>
        LET p == registry[s].by
        IN  /\ cmd[p].op = "acknowledge" /\ cmd[p].reviewed
            /\ s \in cmd[p].slugs /\ data[p] = registry[s].sha

(* The first fault of a citation, in the state as it is.                   *)
FirstFault(c) ==
    IF c.slug \notin Registered THEN {2}
    ELSE IF cache[c.slug] = Missing THEN {3}
    ELSE IF cache[c.slug] # registry[c.slug].sha THEN {4}
    ELSE AnchorFault(c, cache[c.slug])

(* The table of exit codes: if nobody wrote meanwhile, --offline returns   *)
(* the first code that applies to a citation it could read, and 0 only if  *)
(* every one is registered, has the pinned content in the cache and is     *)
(* found there.                                                            *)
OfflineCodeIsPrimary ==
    \A p \in Proc : Ended(p, "offline") /\ p \notin disturbed =>
        LET applies == UNION {FirstFault(c) : c \in Collected}
        IN  IF registry = Broken THEN code[p] = 1
            ELSE \/ code[p] = 0 /\ applies = {}
                 \/ code[p] \in applies /\ \A fault \in applies : code[p] <= fault

(* After a --refresh that succeeded every document it was asked for is in  *)
(* the cache as pinned, until somebody else writes.                        *)
RefreshHeals ==
    \A p \in Proc : Ended(p, "refresh") /\ code[p] = 0 /\ p \notin disturbed =>
        \A s \in Selected(cmd[p]) : cache[s] = registry[s].sha

(* The script on its own never leaves registry and cache in disagreement:  *)
(* run one at a time, none of them killed and nothing edited by hand, a    *)
(* cache file is missing or holds its pin.                                 *)
CacheFollowsPin ==
    regime.serial /\ Active = {} /\ edits = 0 /\ kills = 0 =>
        registry # Broken /\ \A s \in Registered : cache[s] \in {Missing, registry[s].sha}

(* Registry and cache, as the script leaves them: types, attributed pins,  *)
(* and a cache that follows them.                                          *)
RegistryInv == TypeOK /\ PinsAreAttributed /\ CacheFollowsPin

(* Violated.  "so acknowledging cannot be used to paper over a *second*,   *)
(* unreviewed drift between the --refresh run and this command": what is   *)
(* acknowledged was reported by a --refresh.                               *)
AcknowledgedWasReported ==
    \A p \in Proc : Ended(p, "acknowledge") /\ code[p] = 0 => <<at[p], data[p]>> \in reported

=============================================================================
