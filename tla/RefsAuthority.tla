--------------------------- MODULE RefsAuthority ---------------------------
(***************************************************************************)
(* The build authority of the declaration-coverage gate.  The launcher     *)
(* scripts/run_full_refs_coverage.py builds everything, records what it    *)
(* built in a one-time token and starts the gate, Tools/                   *)
(* CheckRefsCoverage.lean; the gate consumes the token, verifies it, scans *)
(* the compiled modules in workers that each consume a token of their own, *)
(* and verifies twice more before it lets its verdict stand.               *)
(*                                                                         *)
(* Meanwhile developers edit sources, build and change what git tracks.    *)
(* A source is a text and the time of its last write; a build product is   *)
(* the text it was compiled from and the time it was written.  The gate's  *)
(* executable is the product of the file Tool.                             *)
(*                                                                         *)
(* A definition commented "Mutant" is a bug the checks must find; no       *)
(* specification uses it.                                                  *)
(***************************************************************************)
EXTENDS Integers, Sequences, FiniteSets

CONSTANTS
    Launchers,  \* invocations of run_full_refs_coverage.py
    Raws,       \* gates started by hand with the nonce of some launcher
    Order,      \* the modules of the project, in the order of a census
    Tool,       \* Tools/CheckRefsCoverage.lean
    Umbrella,   \* the modules the umbrella worker loads
    BatchSize,  \* AUTHORITY_BUILD_BATCH_SIZE
    PoolSize,   \* how many scan workers run at a time (GASM_SCAN_CONCURRENCY)
    Budgets,    \* bounds: what may happen together in a behaviour
    None

Positions == DOMAIN Order

(* What a worker of the scan is given: a position in Order, 0 the umbrella. *)
Payloads == {0} \cup Positions

Modules == {Order[i] : i \in Positions}
Files == Modules \cup {Tool}
Gates == Launchers \cup Raws

(* No declaration at all, a cited one, one without a citation.             *)
Texts == {"none", "cited", "uncited"}

ASSUME RefsAuthorityAssumption ==
    /\ Launchers \cap Raws = {}
    /\ Order \in Seq(Modules) /\ \A i, j \in Positions : Order[i] = Order[j] => i = j
    /\ Tool \notin Modules /\ Umbrella \subseteq Modules
    /\ BatchSize \in Nat \ {0} /\ PoolSize \in Nat \ {0}
    /\ Budgets \subseteq [launchers : Nat, edits : Nat, retracks : Nat, kills : Nat]
    /\ None \notin Gates

VARIABLES
    source,    \* [Files -> text and time]
    product,   \* [Files -> the text compiled and the time, or Absent]
    census,    \* the modules git tracks
    clock, edits, retracks, kills,
    holder,    \* the launcher that holds the Lean process lease
    tokens,    \* the launchers whose .token file exists, complete
    workers,   \* the .worker files, <<launcher, payload>>
    lpc,       \* where each launcher is
    plan,      \* the modules it enumerated
    manifest,  \* what it recorded of each file
    gpc,       \* where each gate is
    nonce,     \* the launcher whose nonce a gate carries
    accepted,  \* whether it consumed the token
    pass,      \* 1, 2: the verifications; 3: the barrier
    at,        \* the position in Order a loop has come to
    seen,      \* the modules the gate discovered for its scan
    pool,      \* where each worker of its scan is, by the worker's payload
    loaded,    \* [Modules -> the text the scanned product was compiled from]
    lines,     \* [Modules -> the text whose citations were read]
    sound      \* whether all was as recorded when the barrier began

disk == <<source, product, census, clock>>
bounds == <<edits, retracks, kills>>
gate == <<gpc, nonce, accepted, pass, seen, pool, loaded, lines, sound>>
vars == <<disk, bounds, holder, tokens, workers, lpc, plan, manifest, at, gate>>

Absent == [of |-> "absent", at |-> 0]

(* What lake leaves after it built files: a product whose recorded source  *)
(* hash still matches is not touched.                                      *)
Made(files) ==
    [f \in Files |-> IF f \in files /\ product[f].of # source[f].text
                     THEN [of |-> source[f].text, at |-> clock + 1] ELSE product[f]]

Build(files) == product' = Made(files) /\ clock' = clock + 1

Unchecked == [text |-> "none", at |-> 0, of |-> "absent", built |-> 0]

Init ==
    /\ source = [f \in Files |-> [text |-> "none", at |-> 0]]
    /\ product = [f \in Files |-> Absent]
    /\ census = Modules
    /\ clock = 0 /\ edits = 0 /\ retracks = 0 /\ kills = 0
    /\ holder = None /\ tokens = {} /\ workers = {}
    /\ lpc = [l \in Launchers |-> "idle"]
    /\ plan = [l \in Launchers |-> {}]
    /\ manifest = [l \in Launchers |-> [f \in Files |-> Unchecked]]
    /\ gpc = [g \in Gates |-> "idle"]
    /\ nonce = [g \in Gates |-> IF g \in Launchers THEN g ELSE None]
    /\ accepted = [g \in Gates |-> FALSE]
    /\ pass = [g \in Gates |-> 0]
    /\ at = [g \in Gates |-> 1]
    /\ seen = [g \in Gates |-> {}]
    /\ pool = [g \in Gates |-> [p \in Payloads |-> "idle"]]
    /\ loaded = [g \in Gates |-> [m \in Modules |-> "absent"]]
    /\ lines = [g \in Gates |-> [m \in Modules |-> "none"]]
    /\ sound = [g \in Gates |-> FALSE]

(* Some budget has room for so many launchers, edits of files, changes of  *)
(* git's list and kills.                                                   *)
Affordable(launchers, e, r, k) ==
    \E b \in Budgets : launchers <= b.launchers /\ e <= b.edits /\ r <= b.retracks /\ k <= b.kills

Started == Cardinality({l \in Launchers : lpc[l] # "idle"})

-----------------------------------------------------------------------------
(* The launcher                                                            *)

LGoto(l, place) == lpc' = [lpc EXCEPT ![l] = place]
Restart(p) == at' = [at EXCEPT ![p] = 1]

(* The positions a loop over these modules has still to come to, and the   *)
(* module it comes to next.                                                *)
Left(modules, i) == {j \in Positions : i <= j /\ Order[j] \in modules}

First(positions) == CHOOSE i \in positions : \A j \in positions : i <= j

Current(p, modules) == Order[First(Left(modules, at[p]))]

Advance(p, modules) == at' = [at EXCEPT ![p] = First(Left(modules, @)) + 1]

Holds(l, place) == lpc[l] = place /\ holder = l

(* Leaving the lease block, normally or by an exception.                   *)
Release(l) == LGoto(l, "ended") /\ holder' = None

Begin(l) ==
    /\ lpc[l] = "idle" /\ holder = None
    /\ Affordable(Started + 1, edits, retracks, kills)
    /\ holder' = l /\ LGoto(l, "gate")
    /\ UNCHANGED <<disk, bounds, tokens, workers, plan, manifest, at, gate>>

(* Not opted in, or the lease was not granted: exit 2.                     *)
Decline(l) ==
    /\ lpc[l] = "idle"
    /\ Affordable(Started + 1, edits, retracks, kills)
    /\ LGoto(l, "ended")
    /\ UNCHANGED <<disk, bounds, holder, tokens, workers, plan, manifest, at, gate>>

BuildGate(l) ==
    /\ Holds(l, "gate")
    /\ \/ Build({Tool}) /\ LGoto(l, "plan") /\ UNCHANGED holder
       \/ Release(l) /\ UNCHANGED <<product, clock>>
    /\ UNCHANGED <<source, census, bounds, tokens, workers, plan, manifest, at, gate>>

AuthorityPlan(l) ==
    /\ Holds(l, "plan")
    /\ plan' = [plan EXCEPT ![l] = census]
    /\ LGoto(l, "build") /\ Restart(l)
    /\ UNCHANGED <<disk, bounds, holder, tokens, workers, manifest, gate>>

(* The batch of roots that ends at position last: as many as a batch holds *)
(* or all that are left; every module is a root.                           *)
Batch(l, last) == {j \in Left(plan[l], at[l]) : j <= last}

IsBatch(l, last) ==
    \/ Cardinality(Batch(l, last)) = BatchSize
    \/ Cardinality(Batch(l, last)) < BatchSize /\ Batch(l, last) = Left(plan[l], at[l])

AuthorityBuild(l) ==
    /\ Holds(l, "build")
    /\ \/ /\ Left(plan[l], at[l]) = {}
          /\ LGoto(l, "replan")
          /\ UNCHANGED <<product, clock, holder, at>>
       \/ \E last \in Left(plan[l], at[l]) :
          /\ IsBatch(l, last)
          /\ Build({Order[j] : j \in Batch(l, last)})
          /\ at' = [at EXCEPT ![l] = last + 1]
          /\ UNCHANGED <<lpc, holder>>
       \/ Release(l) /\ UNCHANGED <<product, clock, at>>
    /\ UNCHANGED <<source, census, bounds, tokens, workers, plan, manifest, gate>>

(* The census is taken again; if it moved, ValueError.                     *)
Replan(l) ==
    /\ Holds(l, "replan")
    /\ IF census = plan[l] THEN LGoto(l, "hash") /\ UNCHANGED holder ELSE Release(l)
    /\ Restart(l)
    /\ UNCHANGED <<disk, bounds, tokens, workers, plan, manifest, gate>>

(* write_build_authority: the hash of a source, then its stat and what is  *)
(* recorded of its product.                                                *)
HashSource(l) ==
    /\ Holds(l, "hash") /\ Left(plan[l], at[l]) # {}
    /\ LET m == Current(l, plan[l])
       IN IF product[m] = Absent
          THEN Release(l) /\ UNCHANGED manifest
          ELSE /\ manifest' = [manifest EXCEPT ![l][m].text = source[m].text]
               /\ LGoto(l, "stat") /\ UNCHANGED holder
    /\ UNCHANGED <<disk, bounds, tokens, workers, plan, at, gate>>

(* Mutant: the stat of the source stands for that of the product.          *)
SourceTwice(l, f) ==
    [manifest[l][f] EXCEPT !.at = source[f].at, !.of = product[f].of, !.built = source[f].at]

Recorded(l, f) ==
    [manifest[l][f] EXCEPT !.at = source[f].at, !.of = product[f].of, !.built = product[f].at]

StatSource(l) ==
    /\ Holds(l, "stat")
    /\ LET m == Current(l, plan[l])
       IN manifest' = [manifest EXCEPT ![l][m] = Recorded(l, m)]
    /\ LGoto(l, "hash") /\ Advance(l, plan[l])
    /\ UNCHANGED <<disk, bounds, holder, tokens, workers, plan, gate>>

(* The inputs and the gate's executable come last; the token is written.   *)
WriteAuthority(l) ==
    /\ Holds(l, "hash") /\ Left(plan[l], at[l]) = {}
    /\ manifest' = [manifest EXCEPT ![l][Tool] =
                        [Recorded(l, Tool) EXCEPT !.text = source[Tool].text]]
    /\ tokens' = tokens \cup {l}
    /\ LGoto(l, "spawn")
    /\ UNCHANGED <<disk, bounds, holder, workers, plan, at, gate>>

(* lake exe builds the executable if need be and starts it.                *)
Spawn(l) ==
    /\ Holds(l, "spawn")
    /\ \/ Build({Tool}) /\ LGoto(l, "wait") /\ gpc' = [gpc EXCEPT ![l] = "read"]
       \/ LGoto(l, "unlink") /\ UNCHANGED <<product, clock, gpc>>
    /\ UNCHANGED <<source, census, bounds, holder, tokens, workers, plan, manifest, at,
                   nonce, accepted, pass, seen, pool, loaded, lines, sound>>

GateEnded(g) == gpc[g] \in {"passed", "failed", "refused", "raised", "killed"}

Wait(l) ==
    /\ Holds(l, "wait") /\ GateEnded(l)
    /\ LGoto(l, "unlink")
    /\ UNCHANGED <<disk, bounds, holder, tokens, workers, plan, manifest, at, gate>>

Unlink(l) ==
    /\ Holds(l, "unlink")
    /\ tokens' = tokens \ {l}
    /\ Release(l)
    /\ UNCHANGED <<disk, bounds, workers, plan, manifest, at, gate>>

(* OSError, ValueError and the like before the gate is started: a failing  *)
(* write of the token leaves at most a file no gate accepts.               *)
Raises(l) ==
    /\ \E place \in {"gate", "plan", "build", "replan", "hash", "stat"} : Holds(l, place)
    /\ Release(l)
    /\ UNCHANGED <<disk, bounds, tokens, workers, plan, manifest, at, gate>>

-----------------------------------------------------------------------------
(* The gate: consuming its authority                                       *)

GGoto(g, place) == gpc' = [gpc EXCEPT ![g] = place]
OfGate == <<nonce, accepted, pass, seen, pool, loaded, lines, sound>>

(* The gate is run by hand with the nonce of a token that was written.     *)
StartRaw(g) ==
    /\ g \in Raws /\ gpc[g] = "idle" /\ product[Tool] # Absent
    /\ \E l \in Launchers :
          /\ lpc[l] \in {"spawn", "wait", "unlink", "ended", "killed"}
          /\ manifest[l][Tool] # Unchecked
          /\ nonce' = [nonce EXCEPT ![g] = l]
    /\ GGoto(g, "read")
    /\ UNCHANGED <<disk, bounds, holder, tokens, workers, lpc, plan, manifest, at,
                   accepted, pass, seen, pool, loaded, lines, sound>>

ReadToken(g) ==
    /\ gpc[g] = "read"
    /\ GGoto(g, IF nonce[g] \in tokens THEN "remove" ELSE "refused")
    /\ UNCHANGED <<disk, bounds, holder, tokens, workers, lpc, plan, manifest, at, OfGate>>

(* Mutant: a token that is already gone counts as removed.                 *)
RemoveIfThere(g) ==
    /\ gpc[g] = "remove"
    /\ tokens' = tokens \ {nonce[g]}
    /\ accepted' = [accepted EXCEPT ![g] = TRUE]
    /\ pass' = [pass EXCEPT ![g] = 1]
    /\ GGoto(g, "tool")
    /\ UNCHANGED <<disk, bounds, holder, workers, lpc, plan, manifest, at,
                   nonce, seen, pool, loaded, lines, sound>>

(* Removing a file that is gone throws, and the gate refuses.              *)
RemoveToken(g) ==
    /\ gpc[g] = "remove"
    /\ IF nonce[g] \in tokens
       THEN /\ tokens' = tokens \ {nonce[g]}
            /\ accepted' = [accepted EXCEPT ![g] = TRUE]
            /\ pass' = [pass EXCEPT ![g] = 1]
            /\ GGoto(g, "tool")
       ELSE GGoto(g, "refused") /\ UNCHANGED <<tokens, accepted, pass>>
    /\ UNCHANGED <<disk, bounds, holder, workers, lpc, plan, manifest, at,
                   nonce, seen, pool, loaded, lines, sound>>

-----------------------------------------------------------------------------
(* The gate: two verifications and a barrier                               *)

Entry(g, f) == manifest[nonce[g]][f]

(* The files have the identities that were recorded.                       *)
StatMatches(g, f) == source[f].at = Entry(g, f).at /\ product[f].at = Entry(g, f).built

(* Mutant: the trace is not compared with the source.                      *)
HashOnly(g, f) ==
    /\ StatMatches(g, f)
    /\ source[f].text = Entry(g, f).text
    /\ product[f].of = Entry(g, f).of

(* Contents too, and the product is no older than its source, which is     *)
(* the one its trace names.                                                *)
EntryVerifies(g, f) ==
    /\ StatMatches(g, f)
    /\ source[f].text = Entry(g, f).text
    /\ product[f].of = Entry(g, f).of
    /\ product[f].at >= source[f].at
    /\ product[f].of = source[f].text

(* The inputs and the executable: it has no trace to compare.              *)
ToolVerifies(g) ==
    /\ StatMatches(g, Tool)
    /\ source[Tool].text = Entry(g, Tool).text
    /\ pass[g] < 3 => product[Tool].at >= source[Tool].at

CheckTool(g) ==
    /\ gpc[g] = "tool"
    /\ GGoto(g, IF ToolVerifies(g) THEN "enumerate" ELSE "refused")
    /\ UNCHANGED <<disk, bounds, holder, tokens, workers, lpc, plan, manifest, at, OfGate>>

Grounded(m) == product[m].of = source[m].text /\ source[m].text # "uncited"

Enumerate(g) ==
    /\ gpc[g] = "enumerate"
    /\ sound' = [sound EXCEPT ![g] =
                    pass[g] = 3 /\ \A m \in seen[g] \cap plan[nonce[g]] : Grounded(m)]
    /\ GGoto(g, IF census = plan[nonce[g]] THEN "entries" ELSE "refused")
    /\ Restart(g)
    /\ UNCHANGED <<disk, bounds, holder, tokens, workers, lpc, plan, manifest,
                   nonce, accepted, pass, seen, pool, loaded, lines>>

(* The verdict of runGate: all modules loaded, all declarations cited.     *)
Verdict(g) ==
    IF \A m \in seen[g] : loaded[g][m] = "none" \/ (loaded[g][m] # "absent" /\ lines[g][m] = "cited")
    THEN "passed" ELSE "failed"

AfterPass(g) ==
    CASE pass[g] = 1 -> "discover" [] pass[g] = 2 -> "tool" [] OTHER -> Verdict(g)

CheckEntries(g) ==
    /\ gpc[g] = "entries"
    /\ IF Left(plan[nonce[g]], at[g]) = {}
       THEN /\ GGoto(g, AfterPass(g))
            /\ pass' = [pass EXCEPT ![g] = IF @ = 2 THEN 3 ELSE @]
            /\ UNCHANGED at
       ELSE LET m == Current(g, plan[nonce[g]])
            IN /\ GGoto(g, IF IF pass[g] = 3 THEN StatMatches(g, m) ELSE EntryVerifies(g, m)
                           THEN "entries" ELSE "refused")
               /\ Advance(g, plan[nonce[g]])
               /\ UNCHANGED pass
    /\ UNCHANGED <<disk, bounds, holder, tokens, workers, lpc, plan, manifest,
                   nonce, accepted, seen, pool, loaded, lines, sound>>

-----------------------------------------------------------------------------
(* The gate: the scan                                                      *)

(* runGate takes a census of its own, and starts with the umbrella alone.  *)
Discover(g) ==
    /\ gpc[g] = "discover"
    /\ seen' = [seen EXCEPT ![g] = census]
    /\ loaded' = [loaded EXCEPT ![g] = [m \in Modules |-> "absent"]]
    /\ pool' = [pool EXCEPT ![g] = [p \in Payloads |-> IF p = 0 THEN "queued" ELSE "idle"]]
    /\ GGoto(g, "scan")
    /\ UNCHANGED <<disk, bounds, holder, tokens, workers, lpc, plan, manifest, at,
                   nonce, accepted, pass, lines, sound>>

In(g, place) == {p \in Payloads : pool[g][p] = place}
Moves(g, p, place) == pool' = [pool EXCEPT ![g][p] = place]

(* The threads of the pool that are at a payload; one whose token could    *)
(* not be written has ended, and takes no other.                           *)
Taken(g) == In(g, "issued") \cup In(g, "answered") \cup In(g, "failed")

Takes(g, p) ==
    /\ gpc[g] = "scan" /\ p \in In(g, "queued")
    /\ \A q \in In(g, "queued") : p <= q
    /\ Cardinality(Taken(g)) < PoolSize

IssueWorker(g, p) ==
    /\ Takes(g, p)
    /\ \/ workers' = workers \cup {<<nonce[g], p>>} /\ Moves(g, p, "issued")
       \/ workers' \in {workers, workers \cup {<<nonce[g], p>>}} /\ Moves(g, p, "failed")
    /\ UNCHANGED <<disk, bounds, holder, tokens, lpc, plan, manifest, at,
                   gpc, nonce, accepted, pass, seen, loaded, lines, sound>>

Given(p) == IF p = 0 THEN Umbrella ELSE {Order[p]}

Loads(g, p) ==
    /\ \A m \in Given(p) : product[m] # Absent
    /\ loaded' = [loaded EXCEPT ![g] =
                     [m \in Modules |-> IF m \in Given(p) THEN product[m].of ELSE @[m]]]

(* The worker consumes its token and loads what it was given; or comes     *)
(* later than the token's five minutes; or is not started at all.          *)
Work(g, p) ==
    /\ gpc[g] = "scan" /\ p \in In(g, "issued")
    /\ \/ /\ workers' = workers \ {<<nonce[g], p>>}
          /\ Loads(g, p) \/ UNCHANGED loaded
       \/ UNCHANGED <<workers, loaded>>
    /\ Moves(g, p, "answered")
    /\ UNCHANGED <<disk, bounds, holder, tokens, lpc, plan, manifest, at,
                   gpc, nonce, accepted, pass, seen, lines, sound>>

(* The modules that the umbrella did not load: a worker of its own each.   *)
Missing(g) == {p \in Positions : Order[p] \in seen[g] /\ loaded[g][Order[p]] = "absent"}

(* The parent removes the worker's token.                                  *)
CollectWorker(g, p) ==
    /\ gpc[g] = "scan" /\ p \in In(g, "answered")
    /\ workers' = workers \ {<<nonce[g], p>>}
    /\ IF p = 0
       THEN pool' = [pool EXCEPT ![g] =
                        [q \in Payloads |-> IF q \in Missing(g) THEN "queued" ELSE "idle"]]
       ELSE Moves(g, p, "idle")
    /\ UNCHANGED <<disk, bounds, holder, tokens, lpc, plan, manifest, at,
                   gpc, nonce, accepted, pass, seen, loaded, lines, sound>>

Scan(g) == \E p \in Payloads : IssueWorker(g, p) \/ Work(g, p) \/ CollectWorker(g, p)

(* The gate waits for its workers in turn; an exception of one is thrown   *)
(* again, whatever the others are at, and ends the gate.                   *)
EndScan(g) ==
    /\ gpc[g] = "scan"
    /\ \/ In(g, "idle") = Payloads /\ GGoto(g, "lines") /\ Restart(g)
       \/ In(g, "failed") # {} /\ GGoto(g, "raised") /\ UNCHANGED at
    /\ UNCHANGED <<disk, bounds, holder, tokens, workers, lpc, plan, manifest, OfGate>>

(* Each file is read once for its citations; then the second verification. *)
ReadLines(g) ==
    /\ gpc[g] = "lines"
    /\ IF Left(seen[g], at[g]) = {}
       THEN /\ pass' = [pass EXCEPT ![g] = 2]
            /\ GGoto(g, "tool")
            /\ UNCHANGED <<lines, at>>
       ELSE /\ LET m == Current(g, seen[g])
               IN lines' = [lines EXCEPT ![g][m] = source[m].text]
            /\ Advance(g, seen[g])
            /\ UNCHANGED <<pass, gpc>>
    /\ UNCHANGED <<disk, bounds, holder, tokens, workers, lpc, plan, manifest,
                   nonce, accepted, seen, pool, loaded, sound>>

-----------------------------------------------------------------------------
(* The environment                                                         *)

(* A developer saves a file, or builds it outside the lease.               *)
Edit(f) ==
    /\ Affordable(Started, edits + 1, retracks, kills) /\ edits' = edits + 1
    /\ \/ /\ \E t \in Texts : source' = [source EXCEPT ![f] = [text |-> t, at |-> clock + 1]]
          /\ clock' = clock + 1
          /\ UNCHANGED product
       \/ Build({f}) /\ UNCHANGED source
    /\ UNCHANGED <<census, retracks, kills, holder, tokens, workers, lpc, plan, manifest, at, gate>>

(* git add, git rm --cached, git reset.                                    *)
Retrack(m) ==
    /\ Affordable(Started, edits, retracks + 1, kills) /\ retracks' = retracks + 1
    /\ census' = IF m \in census THEN census \ {m} ELSE census \cup {m}
    /\ UNCHANGED <<source, product, clock, edits, kills, holder, tokens, workers, lpc, plan,
                   manifest, at, gate>>

(* The gate of a killed launcher goes on, without its lease.               *)
KillLauncher(l) ==
    /\ Affordable(Started, edits, retracks, kills + 1) /\ kills' = kills + 1
    /\ lpc[l] \notin {"idle", "ended", "killed"}
    /\ LGoto(l, "killed") /\ holder' = None
    /\ UNCHANGED <<disk, edits, retracks, tokens, workers, plan, manifest, at, gate>>

KillGate(g) ==
    /\ Affordable(Started, edits, retracks, kills + 1) /\ kills' = kills + 1
    /\ gpc[g] # "idle" /\ ~GateEnded(g)
    /\ GGoto(g, "killed")
    /\ UNCHANGED <<disk, edits, retracks, holder, tokens, workers, lpc, plan, manifest, at, OfGate>>

Terminated ==
    /\ \A l \in Launchers : lpc[l] \in {"idle", "ended", "killed"}
    /\ \A g \in Gates : gpc[g] = "idle" \/ GateEnded(g)
    /\ UNCHANGED vars

LaunchStep(l) ==
    \/ Begin(l) \/ Decline(l) \/ BuildGate(l) \/ AuthorityPlan(l) \/ AuthorityBuild(l)
    \/ Replan(l) \/ HashSource(l) \/ StatSource(l) \/ WriteAuthority(l) \/ Spawn(l)
    \/ Wait(l) \/ Unlink(l) \/ Raises(l)

GateStep(g) ==
    \/ StartRaw(g) \/ ReadToken(g) \/ RemoveToken(g) \/ CheckTool(g) \/ Enumerate(g)
    \/ CheckEntries(g) \/ Discover(g) \/ Scan(g) \/ EndScan(g) \/ ReadLines(g)

Next ==
    \/ \E l \in Launchers : LaunchStep(l) \/ KillLauncher(l)
    \/ \E g \in Gates : GateStep(g) \/ KillGate(g)
    \/ \E f \in Files : Edit(f)
    \/ \E m \in Modules : Retrack(m)
    \/ Terminated

Spec == Init /\ [][Next]_vars

-----------------------------------------------------------------------------
(* Properties                                                              *)

PoolPlaces == {"idle", "queued", "issued", "answered", "failed"}

TypeOK ==
    /\ source \in [Files -> [text : Texts, at : 0 .. clock]]
    /\ product \in [Files -> [of : Texts \cup {"absent"}, at : 0 .. clock]]
    /\ census \subseteq Modules /\ clock \in Nat
    /\ edits \in Nat /\ retracks \in Nat /\ kills \in Nat
    /\ holder \in Launchers \cup {None}
    /\ tokens \subseteq Launchers /\ workers \subseteq Launchers \X Payloads
    /\ plan \in [Launchers -> SUBSET Modules]
    /\ at \in [Gates -> 1 .. Len(Order) + 1]
    /\ pool \in [Gates -> [Payloads -> PoolPlaces]]
    /\ nonce \in [Gates -> Launchers \cup {None}]
    /\ pass \in [Gates -> 0 .. 3]
    /\ \A g \in Gates : gpc[g] # "idle" => nonce[g] # None

(* A verdict of 0 is about one state of the tree: when the barrier began,  *)
(* every module that was scanned was compiled from its source and its      *)
(* source was cited, whoever wrote, built or was killed during the run.    *)
PassIsGrounded == \A g \in Gates : gpc[g] = "passed" => sound[g]

(* A token authorises one gate, also when two read it before either        *)
(* removes it ("one-attempt capabilities").                                *)
OneAttempt ==
    \A g, h \in Gates : accepted[g] /\ accepted[h] /\ nonce[g] = nonce[h] => g = h

(* A launcher that came to its end left no token behind, and a worker's    *)
(* token outlives its worker only if the gate was killed or ended by an    *)
(* exception of another worker.                                            *)
NothingLeft ==
    /\ \A l \in Launchers : lpc[l] = "ended" => l \notin tokens
    /\ \A w \in workers : \E g \in Gates :
          /\ w[1] = nonce[g] /\ w[2] \in Taken(g)
          /\ gpc[g] \in {"scan", "raised", "killed"}

(* A launcher whose checkout nobody touched gets its gate's verdict, not a *)
(* refusal: what Python recorded is what Lean verifies.                    *)
NoFalseRefusal ==
    edits = 0 /\ retracks = 0 /\ kills = 0 /\ (\A g \in Raws : gpc[g] = "idle") =>
        \A l \in Launchers : gpc[l] # "refused"

(* The life of the one-time capabilities, the manifest and the tokens of   *)
(* the workers: one gate is served by each, and only kills leave any.      *)
CapabilityInv == TypeOK /\ OneAttempt /\ NothingLeft

=============================================================================
