------------------------- MODULE ReferencePinsProofs -------------------------
(***************************************************************************)
(* Theorems about ReferencePins, for every number of invocations, of       *)
(* documents, contents and citations, and every regime.                    *)
(*                                                                         *)
(* Trail follows the pins through what every process has loaded: a process *)
(* may write back a pin it read long ago, so whoever a pin names must      *)
(* still hold what it fetched.  Checking and Fetching say what a process   *)
(* beside which nobody wrote knows of registry and cache in the middle of  *)
(* its run.  Alone says the same of processes that run one at a time.      *)
(***************************************************************************)
EXTENDS ReferencePins, TLAPS

Writing == {"write", "fill"}
Pinning == {"raw", "truncate", "pin"}

(* What a process holds at each place of its command.                      *)
Placed(p) ==
    /\ pc[p] # "idle" => cmd[p] \in regime.commands
    /\ pc[p] \in {"idle", "load"} => code[p] = 0 /\ faults[p] = {} /\ verified[p] = {}
    /\ pc[p] \in {"collect", "verify", "anchor"} =>
          cmd[p].op = "offline" /\ code[p] = 0 /\ loaded[p] \in Registries
    /\ pc[p] \in {"fetch"} \union Pinning \union Writing =>
          /\ cmd[p].op \in {"refresh", "acknowledge"} /\ loaded[p] \in Registries
          /\ cmd[p].op = "refresh" => todo[p] \subseteq Slugs
    /\ pc[p] \in Pinning => cmd[p].op = "acknowledge"
    /\ pc[p] \in {"load", "fetch"} \union Pinning \union Writing /\ cmd[p].op = "acknowledge" =>
          cmd[p].reviewed /\ cmd[p].how = "slug"
    /\ pc[p] \in Pinning \union Writing =>
          /\ at[p] \in Slugs /\ data[p] \in Contents
          /\ cmd[p].op = "acknowledge" => at[p] \in cmd[p].slugs
    /\ pc[p] = "collect" => faults[p] = {} /\ verified[p] = {}
    /\ pc[p] \in {"verify", "anchor"} => todo[p] \subseteq Citations
    /\ pc[p] = "anchor" => at[p] \in Citations

(* The process has pinned the document to the content it fetched.          *)
Pinner(p, slug, content) ==
    /\ pc[p] \in Writing \union {"done", "dead"}
    /\ cmd[p].op = "acknowledge" /\ cmd[p].reviewed /\ slug \in cmd[p].slugs
    /\ data[p] = content

Trailed(entries) ==
    \A s \in DOMAIN entries : entries[s].by \in Proc =>
        Pinner(entries[s].by, s, entries[s].sha)

(* The pins of the registry, and of every registry a process has loaded.   *)
Trail ==
    /\ registry # Broken => Trailed(registry)
    /\ \A p \in Proc : loaded[p] # None => Trailed(loaded[p])

(* The cache holds the pinned content or nothing, except for some slugs.   *)
Follows(entries, except) ==
    \A s \in DOMAIN entries \ except : cache[s] \in {Missing, entries[s].sha}

(* One at a time, without edits or kills: registry and cache agree but for *)
(* what the process at work is about to write.                             *)
Agreed == registry # Broken /\ Follows(registry, {})

Holds(p) ==
    /\ pc[p] # "pin" => registry # Broken
    /\ pc[p] \notin Writing \union {"pin"} => Follows(registry, {})
    /\ pc[p] \notin Writing \union {"load", "pin"} => loaded[p] = registry
    /\ pc[p] \in Writing /\ cmd[p].op = "refresh" => loaded[p] = registry
    /\ pc[p] = "pin" => Follows(loaded[p], {})
    /\ pc[p] \in Writing =>
          /\ Follows(registry, {at[p]})
          /\ at[p] \in DOMAIN registry => registry[at[p]].sha = data[p]

Apart == regime.serial /\ edits = 0 /\ kills = 0

Alone ==
    Apart =>
        /\ \A p, q \in Active : p = q
        /\ Active = {} => Agreed
        /\ \A p \in Active : Holds(p)

(* The answer of --offline, once it is there.                              *)
Answer(p) ==
    LET applies == UNION {FirstFault(c) : c \in Collected}
    IN  IF registry = Broken THEN code[p] = 1
        ELSE \/ code[p] = 0 /\ applies = {}
             \/ code[p] \in applies /\ \A fault \in applies : code[p] <= fault

(* The citations process p has dealt with.                                 *)
Checked(p) ==
    {c \in Collected \ todo[p] : pc[p] = "anchor" => c # at[p]}

(* An --offline beside which nobody wrote.                                 *)
Checking(p) ==
    pc[p] # "idle" /\ cmd[p].op = "offline" /\ p \notin disturbed =>
        /\ pc[p] \in {"collect", "verify", "anchor"} => loaded[p] = registry
        /\ pc[p] \in {"verify", "anchor"} =>
              /\ todo[p] \subseteq Collected
              /\ \A s \in verified[p] : s \in DOMAIN registry /\ cache[s] = registry[s].sha
              /\ \A f \in 2 .. 6 : f \in faults[p] <=> \E c \in Checked(p) : f \in FirstFault(c)
        /\ pc[p] = "anchor" => at[p] \in Collected \ todo[p] /\ at[p].slug \in verified[p]
        /\ pc[p] = "done" => Answer(p)

(* A --refresh beside which nobody wrote, as long as it may succeed.       *)
Fetching(p) ==
    pc[p] # "idle" /\ cmd[p].op = "refresh" /\ p \notin disturbed =>
        /\ pc[p] \in {"fetch"} \union Writing => loaded[p] = registry /\ todo[p] \subseteq Selected(cmd[p])
        /\ pc[p] \in Writing => at[p] \in Selected(cmd[p]) /\ data[p] = registry[at[p]].sha
        /\ pc[p] \in {"fetch", "done"} \union Writing /\ code[p] = 0 =>
              \A s \in Selected(cmd[p]) :
                  \/ cache[s] = registry[s].sha
                  \/ pc[p] # "done" /\ s \in todo[p]
                  \/ pc[p] \in Writing /\ s = at[p]

PinsInv ==
    /\ TypeOK /\ Trail /\ Alone
    /\ \A p \in Proc : Placed(p) /\ Checking(p) /\ Fetching(p)

-----------------------------------------------------------------------------
(* Lemmas about the model                                                  *)

LEMMA RegistryFields ==
    ASSUME NEW entries \in Registries
    PROVE  /\ DOMAIN entries \subseteq Slugs
           /\ \A s \in DOMAIN entries :
                 entries[s].sha \in Contents /\ entries[s].by \in Proc \union {Author}
BY DEF Registries

(* A pin replaces a pin.                                                   *)
LEMMA RepinType ==
    ASSUME NEW entries \in Registries, NEW slug, NEW content \in Contents,
           NEW by \in Proc \union {Author}
    PROVE  /\ Repin(entries, slug, content, by) \in Registries
           /\ DOMAIN Repin(entries, slug, content, by) = DOMAIN entries
           /\ \A s \in DOMAIN entries :
                 Repin(entries, slug, content, by)[s]
                    = IF s = slug THEN [sha |-> content, by |-> by] ELSE entries[s]
<1>1. PICK S \in SUBSET Slugs : entries \in [S -> [sha : Contents, by : Proc \union {Author}]]
  BY DEF Registries
<1>2. Repin(entries, slug, content, by) \in [S -> [sha : Contents, by : Proc \union {Author}]]
  BY <1>1 DEF Repin
<1>3. Repin(entries, slug, content, by) \in Registries
  BY <1>2 DEF Registries
<1> QED BY <1>3 DEF Repin

LEMMA RestrictType ==
    ASSUME NEW entries \in Registries, NEW S \in SUBSET DOMAIN entries
    PROVE  /\ Restrict(entries, S) \in Registries
           /\ DOMAIN Restrict(entries, S) = S
           /\ \A s \in S : Restrict(entries, S)[s] = entries[s]
<1>1. PICK T \in SUBSET Slugs : entries \in [T -> [sha : Contents, by : Proc \union {Author}]]
  BY DEF Registries
<1>2. Restrict(entries, S) \in [S -> [sha : Contents, by : Proc \union {Author}]]
  BY <1>1 DEF Restrict
<1>3. Restrict(entries, S) \in Registries
  BY <1>1, <1>2 DEF Registries
<1> QED BY <1>3 DEF Restrict

(* A command line is one of the regime's.                                  *)
LEMMA CommandType ==
    ASSUME TypeOK, NEW c \in regime.commands
    PROVE  /\ c \in Ops
           /\ c.how = "slug" => \E s \in Slugs : c.slugs = {s}
BY ReferenceAssumption DEF TypeOK

(* The least of a set of exit codes.                                       *)
LEMMA LeastCode ==
    ASSUME NEW codes \in SUBSET (2 .. 6)
    PROVE  IF codes = {} THEN PrimaryFault(codes) = 0
           ELSE PrimaryFault(codes) \in codes /\ \A f \in codes : PrimaryFault(codes) <= f
<1>1. CASE codes = {}
  BY <1>1 DEF PrimaryFault
<1>2. CASE codes # {}
  <2>1. \E x \in codes : \A f \in codes : x <= f
    <3>1. CASE 2 \in codes
      BY <3>1
    <3>2. CASE 2 \notin codes /\ 3 \in codes
      BY <3>2
    <3>3. CASE 2 \notin codes /\ 3 \notin codes /\ 4 \in codes
      BY <3>3
    <3>4. CASE 2 \notin codes /\ 3 \notin codes /\ 4 \notin codes /\ 5 \in codes
      BY <3>4
    <3>5. CASE codes = {6}
      BY <3>5
    <3>6. 2 .. 6 = {2, 3, 4, 5, 6}
      OBVIOUS
    <3> QED BY <1>2, <3>1, <3>2, <3>3, <3>4, <3>5, <3>6
  <2>2. PrimaryFault(codes) = CHOOSE x \in codes : \A f \in codes : x <= f
    BY <1>2 DEF PrimaryFault, Min
  <2> QED BY <1>2, <2>1, <2>2
<1> QED BY <1>1, <1>2

(* What --offline looks at is the registry, the cache and the files.       *)
LEMMA SameFaults ==
    ASSUME UNCHANGED <<registry, cache, unreadable>>
    PROVE  /\ Collected' = Collected
           /\ \A c : (FirstFault(c))' = FirstFault(c)
           /\ \A c : (Selected(c))' = Selected(c)
           /\ \A except : (Follows(registry, except))' <=> Follows(registry, except)
<1>1. Collected' = Collected
  BY DEF Collected
<1>2. \A c : (FirstFault(c))' = FirstFault(c)
  BY DEF FirstFault, Registered
<1>3. \A c : (Selected(c))' = Selected(c)
  BY DEF Selected
<1>4. \A except : (Follows(registry, except))' <=> Follows(registry, except)
  BY DEF Follows
<1> QED BY <1>1, <1>2, <1>3, <1>4

-----------------------------------------------------------------------------
(* Steps that write neither registry nor cache                             *)

(* What a process has is as it was.                                        *)
Steady(q) ==
    /\ pc'[q] = pc[q] /\ cmd'[q] = cmd[q] /\ loaded'[q] = loaded[q] /\ todo'[q] = todo[q]
    /\ at'[q] = at[q] /\ verified'[q] = verified[q] /\ data'[q] = data[q]
    /\ code'[q] = code[q] /\ faults'[q] = faults[q]

Quiet(p) ==
    /\ UNCHANGED <<regime, registry, cache, unreadable, disturbed, edits, kills>>
    /\ \A q \in Proc \ {p} : Steady(q)

LEMMA PlacedStays ==
    ASSUME NEW q \in Proc, Steady(q), regime' = regime, Placed(q)
    PROVE  Placed(q)'
BY DEF Steady, Placed, Pinning, Writing

LEMMA PinnerStays ==
    ASSUME NEW q \in Proc, Steady(q), NEW s, NEW c, Pinner(q, s, c)
    PROVE  Pinner(q, s, c)'
BY DEF Steady, Pinner, Writing

(* The exit code of a check answers for the same things.                   *)
LEMMA AnswerStays ==
    ASSUME NEW q \in Proc, code'[q] = code[q],
           UNCHANGED <<registry, cache, unreadable>>, Answer(q)
    PROVE  Answer(q)'
<1> DEFINE applies == UNION {FirstFault(c) : c \in Collected}
<1>1. applies' = applies
  BY SameFaults, Zenon
<1>2. Answer(q) <=> IF registry = Broken THEN code[q] = 1
                    ELSE \/ code[q] = 0 /\ applies = {}
                         \/ code[q] \in applies /\ \A fault \in applies : code[q] <= fault
  BY DEF Answer
<1>3. Answer(q)' <=> IF registry' = Broken THEN code'[q] = 1
                     ELSE \/ code'[q] = 0 /\ applies' = {}
                          \/ code'[q] \in applies' /\ \A fault \in applies' : code'[q] <= fault
  BY DEF Answer
<1> HIDE DEF applies
<1> QED BY <1>1, <1>2, <1>3

LEMMA CheckingStays ==
    ASSUME NEW q \in Proc, Steady(q), UNCHANGED <<registry, cache, unreadable>>,
           disturbed \subseteq disturbed', Checking(q)
    PROVE  Checking(q)'
<1>1. /\ Collected' = Collected /\ \A c : (FirstFault(c))' = FirstFault(c)
  BY SameFaults
<1>2. Checked(q)' = Checked(q)
  BY <1>1 DEF Checked, Steady
<1>3. Answer(q) => Answer(q)'
  BY AnswerStays DEF Steady
<1> QED BY <1>1, <1>2, <1>3 DEF Checking, Steady

LEMMA FetchingStays ==
    ASSUME NEW q \in Proc, Steady(q), UNCHANGED <<registry, cache>>,
           disturbed \subseteq disturbed', Fetching(q)
    PROVE  Fetching(q)'
<1>1. \A c : (Selected(c))' = Selected(c)
  BY DEF Selected
<1> QED BY <1>1 DEF Fetching, Steady, Writing

(* Whoever runs alone is the one that acts.                                *)
LEMMA AloneStep ==
    ASSUME TypeOK, Alone, NEW p \in Active, UNCHANGED <<regime, edits, kills>>,
           \A q \in Proc \ {p} : pc'[q] = pc[q],
           Apart /\ Holds(p) => IF p \in Active' THEN Holds(p)' ELSE Agreed'
    PROVE  Alone'
<1>1. p \in Proc /\ Apart' = Apart
  BY DEF Active, Apart
<1>2. ASSUME Apart PROVE /\ \A q \in Active' : q = p
                         /\ IF p \in Active' THEN Holds(p)' ELSE Agreed'
  BY <1>1, <1>2 DEF Alone, Active
<1> QED BY <1>1, <1>2 DEF Alone

LEMMA TrailStays ==
    ASSUME TypeOK, Trail, NEW p \in Proc, registry' = registry,
           \A q \in Proc \ {p} : Steady(q),
           \A s, c : Pinner(p, s, c) => Pinner(p, s, c)',
           loaded'[p] = loaded[p] \/ (loaded'[p] = registry /\ registry # Broken)
    PROVE  Trail'
<1>1. ASSUME NEW q \in Proc, NEW s, NEW c, Pinner(q, s, c) PROVE Pinner(q, s, c)'
  BY <1>1, PinnerStays
<1>2. ASSUME NEW entries, Trailed(entries) PROVE Trailed(entries)'
  BY <1>1, <1>2 DEF Trailed
<1>3. ASSUME registry' # Broken PROVE Trailed(registry)'
  <2>1. PICK entries : entries = registry
    OBVIOUS
  <2>2. Trailed(entries)'
    BY <1>2, <1>3, <2>1 DEF Trail
  <2> QED BY <2>1, <2>2 DEF Trailed
<1>4. ASSUME NEW q \in Proc, loaded'[q] # None PROVE Trailed(loaded[q])'
  <2>1. PICK entries : entries = loaded'[q]
    OBVIOUS
  <2>2. Trailed(entries)
    BY <1>4, <2>1 DEF Trail, Steady
  <2>3. Trailed(entries)'
    BY <1>2, <2>2
  <2> QED BY <2>1, <2>3 DEF Trailed
<1> QED BY <1>3, <1>4 DEF Trail

LEMMA QuietInv ==
    ASSUME PinsInv, NEW p \in Proc, Quiet(p),
           TypeOK', Placed(p)', Checking(p)', Fetching(p)', Alone',
           \A s, c : Pinner(p, s, c) => Pinner(p, s, c)',
           loaded'[p] = loaded[p] \/ (loaded'[p] = registry /\ registry # Broken)
    PROVE  PinsInv'
<1>1. Trail'
  BY TrailStays DEF PinsInv, Quiet
<1>2. ASSUME NEW q \in Proc PROVE Placed(q)' /\ Checking(q)' /\ Fetching(q)'
  BY PlacedStays, CheckingStays, FetchingStays DEF PinsInv, Quiet
<1> QED BY <1>1, <1>2 DEF PinsInv

(* A process that is where no command pins anything is no pinner.          *)
LEMMA NoPinner ==
    ASSUME NEW p \in Proc, pc[p] \notin Writing \union {"done", "dead"}
    PROVE  \A s, c : Pinner(p, s, c) => Pinner(p, s, c)'
BY DEF Pinner

LEMMA StartInv == ASSUME PinsInv, NEW p \in Proc, Start(p) PROVE PinsInv'
<1>1. PICK c \in regime.commands :
         /\ cmd' = [cmd EXCEPT ![p] = c]
         /\ IF c.op = "acknowledge" /\ (~c.reviewed \/ c.how # "slug")
            THEN Exit(p, 9)
            ELSE Goto(p, "load") /\ UNCHANGED code
  BY DEF Start
<1>2. /\ pc[p] = "idle" /\ TypeOK /\ Placed(p) /\ Alone
      /\ UNCHANGED <<regime, registry, cache, unreadable, disturbed, edits, kills,
                     upstream, drifts, reported, loaded, todo, at, verified, data, faults>>
      /\ regime.serial => Active = {}
  BY DEF Start, env, PinsInv
<1>3. \/ /\ c.op = "acknowledge" /\ (~c.reviewed \/ c.how # "slug")
         /\ pc' = [pc EXCEPT ![p] = "done"] /\ code' = [code EXCEPT ![p] = 9]
      \/ /\ ~(c.op = "acknowledge" /\ (~c.reviewed \/ c.how # "slug"))
         /\ pc' = [pc EXCEPT ![p] = "load"] /\ code' = code
  BY <1>1, Zenon DEF Exit, Goto
<1>4. cmd'[p] = c /\ pc'[p] \in {"load", "done"} /\ c \in Ops
      /\ \A q \in Proc \ {p} : pc'[q] = pc[q]
  BY <1>1, <1>2, <1>3, CommandType DEF TypeOK
<1>5. Quiet(p)
  BY <1>1, <1>2, <1>3 DEF Quiet, Steady, TypeOK
<1>6. TypeOK'
  BY <1>1, <1>2, <1>3 DEF TypeOK
<1>7. Placed(p)'
  <2>1. CASE pc'[p] = "load"
    <3>1. code'[p] = 0 /\ faults'[p] = {} /\ verified'[p] = {}
      BY <1>2, <1>3, <1>4, <2>1 DEF Placed, TypeOK
    <3>2. c.op = "acknowledge" => c.reviewed /\ c.how = "slug"
      BY <1>2, <1>3, <1>4, <2>1 DEF TypeOK
    <3> QED BY <1>2, <1>4, <2>1, <3>1, <3>2 DEF Placed, Pinning, Writing
  <2>2. CASE pc'[p] = "done"
    BY <1>2, <1>4, <2>2 DEF Placed, Pinning, Writing
  <2> QED BY <1>4, <2>1, <2>2
<1>8. pc'[p] = "done" => c.op = "acknowledge"
  BY <1>2, <1>3, <1>4 DEF TypeOK
<1>9. Checking(p)' /\ Fetching(p)'
  BY <1>4, <1>8 DEF Checking, Fetching, Writing
<1>10. Alone'
  <2>1. ASSUME Apart' PROVE /\ Active = {} /\ Agreed
    BY <1>2, <2>1 DEF Alone, Apart
  <2>2. Agreed' = Agreed
    BY <1>2, SameFaults DEF Agreed
  <2>3. ASSUME Apart', NEW q \in Active' PROVE q = p
    <3>1. q # p => q \in Active
      BY <1>4 DEF Active
    <3> QED BY <2>1, <2>3, <3>1
  <2>4. ASSUME Apart', p \in Active' PROVE Holds(p)'
    <3>1. pc'[p] = "load"
      BY <1>4, <2>4 DEF Active
    <3> QED BY <2>1, <2>2, <2>4, <3>1 DEF Holds, Agreed, Writing
  <2> QED BY <2>1, <2>2, <2>3, <2>4 DEF Alone
<1> QED BY <1>2, <1>5, <1>6, <1>7, <1>9, <1>10, NoPinner, QuietInv DEF Writing

LEMMA LoadFailsInv == ASSUME PinsInv, NEW p \in Proc, LoadFails(p) PROVE PinsInv'
<1>1. /\ pc[p] = "load" /\ registry = Broken /\ TypeOK /\ Placed(p) /\ Alone
      /\ pc' = [pc EXCEPT ![p] = "done"] /\ code' = [code EXCEPT ![p] = 1]
      /\ UNCHANGED <<regime, registry, cache, unreadable, disturbed, edits, kills,
                     upstream, drifts, reported, cmd, loaded, todo, at, verified, data, faults>>
  BY DEF LoadFails, Exit, Goto, env, PinsInv
<1>2. /\ pc'[p] = "done" /\ code'[p] = 1 /\ cmd'[p] = cmd[p] /\ p \in Active
      /\ \A q \in Proc \ {p} : pc'[q] = pc[q]
  BY <1>1 DEF TypeOK, Active
<1>3. Quiet(p) /\ TypeOK'
  BY <1>1 DEF Quiet, Steady, TypeOK
<1>4. Placed(p)'
  BY <1>1, <1>2 DEF Placed, Pinning, Writing
<1>5. Checking(p)' /\ Fetching(p)'
  BY <1>1, <1>2 DEF Checking, Fetching, Answer, Writing
<1>6. Alone'
  BY <1>1, <1>2, AloneStep DEF Holds
<1> QED BY <1>1, <1>3, <1>4, <1>5, <1>6, NoPinner, QuietInv DEF Writing

LEMMA LoadInv == ASSUME PinsInv, NEW p \in Proc, Load(p) PROVE PinsInv'
<1>1. /\ pc[p] = "load" /\ registry # Broken /\ TypeOK /\ Placed(p) /\ Alone
      /\ loaded' = [loaded EXCEPT ![p] = registry]
      /\ todo' = [todo EXCEPT ![p] = IF cmd[p].op = "refresh" THEN Selected(cmd[p]) ELSE {}]
      /\ UNCHANGED <<regime, registry, cache, unreadable, disturbed, edits, kills,
                     upstream, drifts, reported, cmd, at, verified, data, faults>>
  BY DEF Load, env, PinsInv
<1>2. /\ pc'[p] \in {"collect", "fetch", "done"}
      /\ \A q \in Proc \ {p} : pc'[q] = pc[q] /\ code'[q] = code[q]
      /\ code' \in [Proc -> 0 .. 9]
      /\ pc' \in [Proc -> {"idle", "load", "collect", "verify", "anchor", "fetch", "raw",
                           "truncate", "pin", "write", "fill", "done", "dead"}]
      /\ pc'[p] # "done" => code'[p] = 0
      /\ pc'[p] = "done" => cmd[p].op # "offline" /\ code'[p] # 0
      /\ pc'[p] = "collect" => cmd[p].op = "offline"
      /\ pc'[p] = "fetch" => cmd[p].op # "offline"
  <2>1. \/ /\ pc' = [pc EXCEPT ![p] = "done"] /\ code' = [code EXCEPT ![p] = 2]
           /\ cmd[p].op # "offline"
        \/ /\ pc' = [pc EXCEPT ![p] = "done"] /\ code' = [code EXCEPT ![p] = 9]
           /\ cmd[p].op # "offline"
        \/ pc' = [pc EXCEPT ![p] = "collect"] /\ code' = code /\ cmd[p].op = "offline"
        \/ pc' = [pc EXCEPT ![p] = "fetch"] /\ code' = code /\ cmd[p].op # "offline"
    BY DEF Load, Exit, Goto
  <2> QED BY <1>1, <2>1 DEF TypeOK, Placed
<1>3. /\ registry \in Registries /\ cmd[p] \in Ops /\ cmd[p] \in regime.commands
      /\ Selected(cmd[p]) \subseteq Slugs
  <2>1. registry \in Registries /\ cmd[p] \in regime.commands
    BY <1>1 DEF TypeOK, Placed
  <2>2. cmd[p] \in Ops
    BY <1>1, <2>1, CommandType
  <2> QED BY <2>1, <2>2, RegistryFields DEF Selected, Ops
<1>4. /\ loaded'[p] = registry /\ cmd'[p] = cmd[p] /\ p \in Active
      /\ cmd[p].op = "refresh" => todo'[p] = Selected(cmd[p])
      /\ cmd[p].op # "refresh" => todo'[p] = {}
  BY <1>1 DEF TypeOK, Active
<1>5. Quiet(p)
  BY <1>1, <1>2 DEF Quiet, Steady, TypeOK
<1>6. TypeOK'
  BY <1>1, <1>2, <1>3, <1>4, <1>5 DEF TypeOK, Quiet, Steady
<1>7. Placed(p)'
  BY <1>1, <1>2, <1>3, <1>4 DEF Placed, Pinning, Writing, Ops
<1>8. Checking(p)'
  BY <1>1, <1>2, <1>4 DEF Checking
<1>9. Fetching(p)'
  <2>1. (Selected(cmd[p]))' = Selected(cmd[p])
    BY <1>1, <1>4 DEF Selected
  <2> QED BY <1>1, <1>2, <1>4, <2>1 DEF Fetching, Writing
<1>10. Alone'
  <2>1. Follows(registry, {})' <=> Follows(registry, {})
    BY <1>1, SameFaults
  <2> QED BY <1>1, <1>2, <1>4, <2>1, AloneStep DEF Holds, Agreed, Writing
<1> QED BY <1>1, <1>4, <1>5, <1>6, <1>7, <1>8, <1>9, <1>10, NoPinner, QuietInv DEF Writing

-----------------------------------------------------------------------------
(* --offline                                                               *)

LEMMA AnchorFaultType ==
    \A c, content : AnchorFault(c, content) \in SUBSET (2 .. 6)
BY DEF AnchorFault

LEMMA FirstFaultType == \A c : FirstFault(c) \in SUBSET (2 .. 6)
<1>1. ASSUME NEW c PROVE FirstFault(c) \in SUBSET (2 .. 6)
  <2>1. FirstFault(c) \in {{2}, {3}, {4}, AnchorFault(c, cache[c.slug])}
    BY DEF FirstFault
  <2> QED BY <2>1, AnchorFaultType
<1> QED BY <1>1

(* What --offline has while it checks, and what its steps leave.           *)
LEMMA OfflineStep ==
    ASSUME PinsInv, NEW p \in Active, Quiet(p), TypeOK', cmd[p].op = "offline",
           pc[p] \in {"collect", "verify", "anchor"},
           UNCHANGED <<cmd, loaded>>, pc'[p] \in {"verify", "anchor", "done"},
           Placed(p)', Checking(p)'
    PROVE  PinsInv'
<1>1. p \in Proc /\ TypeOK /\ Alone /\ \A q \in Proc \ {p} : pc'[q] = pc[q]
  BY DEF Active, PinsInv, Quiet, Steady
<1>2. UNCHANGED <<regime, registry, cache, unreadable, disturbed, edits, kills>>
  BY DEF Quiet
<1>3. Fetching(p)'
  BY DEF Fetching
<1>4. Alone'
  <2>1. Follows(registry, {})' <=> Follows(registry, {})
    BY <1>2, SameFaults
  <2> QED BY <1>1, <1>2, <2>1, AloneStep DEF Holds, Agreed, Writing
<1> QED BY <1>1, <1>3, <1>4, NoPinner, QuietInv DEF Writing

LEMMA CollectInv == ASSUME PinsInv, NEW p \in Proc, Collect(p) PROVE PinsInv'
<1>1. /\ pc[p] = "collect" /\ TypeOK /\ Placed(p) /\ Checking(p)
      /\ todo' = [todo EXCEPT ![p] = Collected] /\ pc' = [pc EXCEPT ![p] = "verify"]
      /\ UNCHANGED <<regime, registry, cache, unreadable, disturbed, edits, kills,
                     upstream, drifts, reported, cmd, loaded, at, verified, data, code, faults>>
  BY DEF Collect, Goto, env, PinsInv
<1>2. /\ pc'[p] = "verify" /\ todo'[p] = Collected /\ p \in Active
      /\ Collected' = Collected /\ Collected \subseteq Citations
  BY <1>1, SameFaults DEF TypeOK, Active, Collected
<1>3. Quiet(p) /\ TypeOK'
  BY <1>1, <1>2 DEF Quiet, Steady, TypeOK
<1>4. cmd[p].op = "offline" /\ faults[p] = {} /\ verified[p] = {} /\ code[p] = 0
  BY <1>1 DEF Placed
<1>5. Placed(p)'
  BY <1>1, <1>2, <1>4 DEF Placed, Pinning, Writing
<1>6. Checking(p)'
  <2>1. Checked(p)' = {}
    BY <1>2 DEF Checked
  <2> QED BY <1>1, <1>2, <1>4, <2>1 DEF Checking
<1> QED BY <1>1, <1>2, <1>3, <1>4, <1>5, <1>6, OfflineStep

LEMMA VerifyInv == ASSUME PinsInv, NEW p \in Proc, Verify(p) PROVE PinsInv'
<1> DEFINE Fault(c) == IF c.slug \notin DOMAIN loaded[p] THEN {2}
                       ELSE IF c.slug \in verified[p] THEN {}
                       ELSE CacheFault(loaded[p][c.slug], cache[c.slug])
<1>1. PICK c \in todo[p] :
         /\ todo' = [todo EXCEPT ![p] = @ \ {c}]
         /\ faults' = [faults EXCEPT ![p] = @ \union Fault(c)]
         /\ IF Fault(c) = {}
            THEN /\ verified' = [verified EXCEPT ![p] = @ \union {c.slug}]
                 /\ at' = [at EXCEPT ![p] = c]
                 /\ Goto(p, "anchor")
            ELSE UNCHANGED <<verified, at, pc>>
  BY DEF Verify
<1>2. /\ pc[p] = "verify" /\ TypeOK /\ Placed(p) /\ Checking(p)
      /\ UNCHANGED <<regime, registry, cache, unreadable, disturbed, edits, kills,
                     upstream, drifts, reported, cmd, loaded, data, code>>
  BY DEF Verify, env, PinsInv
<1>3. /\ cmd[p].op = "offline" /\ code[p] = 0 /\ p \in Active
      /\ c \in Citations /\ c.slug \in Slugs /\ todo[p] \subseteq Citations
  BY <1>2, ReferenceAssumption DEF Placed, Active
<1>4. PICK fault : fault = Fault(c)
  OBVIOUS
<1>5. fault \in SUBSET (2 .. 6)
  BY <1>4 DEF CacheFault
<1>6. \/ /\ fault = {} /\ pc' = [pc EXCEPT ![p] = "anchor"] /\ at' = [at EXCEPT ![p] = c]
         /\ verified' = [verified EXCEPT ![p] = @ \union {c.slug}]
      \/ fault # {} /\ pc' = pc /\ at' = at /\ verified' = verified
  BY <1>1, <1>4, Zenon DEF Goto
<1>7. /\ todo' = [todo EXCEPT ![p] = @ \ {c}] /\ faults' = [faults EXCEPT ![p] = @ \union fault]
      /\ todo'[p] = todo[p] \ {c} /\ faults'[p] = faults[p] \union fault
  BY <1>1, <1>2, <1>4 DEF TypeOK
<1>8. \/ fault = {} /\ pc'[p] = "anchor" /\ at'[p] = c /\ verified'[p] = verified[p] \union {c.slug}
      \/ fault # {} /\ pc'[p] = "verify" /\ verified'[p] = verified[p]
  BY <1>2, <1>6 DEF TypeOK
<1>9. Quiet(p)
  BY <1>2, <1>6, <1>7 DEF Quiet, Steady, TypeOK
<1>10. TypeOK'
  <2>1. faults' \in [Proc -> SUBSET (2 .. 6)] /\ todo' \in [Proc -> (SUBSET Slugs) \union SUBSET Citations]
    BY <1>2, <1>3, <1>5, <1>7 DEF TypeOK
  <2>2. verified' \in [Proc -> SUBSET Slugs] /\ at' \in [Proc -> Slugs \union Citations \union {None}]
    BY <1>2, <1>3, <1>6 DEF TypeOK
  <2>3. pc' \in [Proc -> {"idle", "load", "collect", "verify", "anchor", "fetch", "raw",
                          "truncate", "pin", "write", "fill", "done", "dead"}]
    BY <1>2, <1>6 DEF TypeOK
  <2> QED BY <1>2, <2>1, <2>2, <2>3 DEF TypeOK
<1>11. Placed(p)'
  BY <1>2, <1>3, <1>7, <1>8 DEF Placed, Pinning, Writing
<1>12. Checking(p)'
  <2> SUFFICES ASSUME p \notin disturbed PROVE Checking(p)'
    BY <1>2 DEF Checking
  <2>1. /\ loaded[p] = registry /\ todo[p] \subseteq Collected /\ registry \in Registries
        /\ registry # Broken
        /\ \A s \in verified[p] : s \in DOMAIN registry /\ cache[s] = registry[s].sha
        /\ \A f \in 2 .. 6 : f \in faults[p] <=> \E d \in Checked(p) : f \in FirstFault(d)
    BY <1>2, <1>3, ReferenceAssumption DEF Checking, Placed
  <2>2. ASSUME fault # {} PROVE FirstFault(c) = fault
    <3>1. CASE c.slug \notin DOMAIN registry
      <4>1. fault = {2}
        BY <1>4, <2>1, <3>1
      <4>2. c.slug \notin Registered
        BY <2>1, <3>1 DEF Registered
      <4>3. FirstFault(c) = {2}
        BY ONLY <4>2 DEF FirstFault
      <4> QED BY <4>1, <4>3
    <3>2. CASE c.slug \in DOMAIN registry
      <4>1. fault = CacheFault(registry[c.slug], cache[c.slug])
        BY <1>4, <2>1, <2>2, <3>2
      <4>2. cache[c.slug] = Missing \/ cache[c.slug] # registry[c.slug].sha
        BY <2>2, <4>1 DEF CacheFault
      <4> QED BY <2>1, <3>2, <4>1, <4>2 DEF FirstFault, Registered, CacheFault
    <3> QED BY <3>1, <3>2
  <2>3. fault = {} => c.slug \in DOMAIN registry /\ cache[c.slug] = registry[c.slug].sha
    BY <1>4, <2>1 DEF CacheFault
  <2>4. /\ Collected' = Collected /\ \A d : (FirstFault(d))' = FirstFault(d)
    BY <1>2, SameFaults
  <2>5. CASE fault = {}
    <3>1. Checked(p)' = Checked(p)
      BY <1>2, <1>7, <1>8, <2>1, <2>4, <2>5 DEF Checked
    <3>2. faults'[p] = faults[p]
      BY <1>7, <2>5
    <3> QED BY <1>2, <1>7, <1>8, <2>1, <2>3, <2>4, <2>5, <3>1, <3>2 DEF Checking
  <2>6. CASE fault # {}
    <3>1. Checked(p)' = Checked(p) \union {c}
      BY <1>2, <1>7, <1>8, <2>1, <2>4, <2>6 DEF Checked
    <3>2. \A f \in 2 .. 6 : f \in faults'[p] <=> \E d \in Checked(p)' : f \in FirstFault(d)
      BY <1>7, <2>1, <2>2, <2>6, <3>1
    <3> QED BY <1>2, <1>7, <1>8, <2>1, <2>4, <2>6, <3>2 DEF Checking
  <2> QED BY <2>5, <2>6
<1> QED BY <1>2, <1>3, <1>8, <1>9, <1>10, <1>11, <1>12, OfflineStep

(* What a check that nobody disturbed knows of the citation it is at.      *)
LEMMA AtAnchor ==
    ASSUME PinsInv, NEW p \in Proc, pc[p] = "anchor", p \notin disturbed
    PROVE  /\ loaded[p] = registry /\ registry \in Registries /\ todo[p] \subseteq Collected
           /\ \A s \in verified[p] : s \in DOMAIN registry /\ cache[s] = registry[s].sha
           /\ \A f \in 2 .. 6 : f \in faults[p] <=> \E d \in Checked(p) : f \in FirstFault(d)
           /\ at[p] \in Collected \ todo[p]
           /\ cache[at[p].slug] # Missing
           /\ FirstFault(at[p]) = AnchorFault(at[p], cache[at[p].slug])
<1>1. /\ loaded[p] = registry /\ registry \in Registries /\ todo[p] \subseteq Collected
      /\ \A s \in verified[p] : s \in DOMAIN registry /\ cache[s] = registry[s].sha
      /\ \A f \in 2 .. 6 : f \in faults[p] <=> \E d \in Checked(p) : f \in FirstFault(d)
      /\ at[p] \in Collected \ todo[p] /\ at[p].slug \in verified[p]
  BY DEF PinsInv, Placed, Checking
<1>2. cache[at[p].slug] \in Contents /\ registry # Broken
  BY <1>1, RegistryFields, ReferenceAssumption
<1>3. cache[at[p].slug] # Missing
  BY <1>2, ReferenceAssumption
<1>4. FirstFault(at[p]) = AnchorFault(at[p], cache[at[p].slug])
  BY <1>1, <1>2, <1>3 DEF FirstFault, Registered
<1> QED BY <1>1, <1>3, <1>4

LEMMA AnchorInv == ASSUME PinsInv, NEW p \in Proc, Anchor(p) PROVE PinsInv'
<1>1. PICK fault : fault = AnchorFault(at[p], cache[at[p].slug])
  OBVIOUS
<1>2. /\ pc[p] = "anchor" /\ TypeOK /\ Placed(p)
      /\ faults' = [faults EXCEPT ![p] = @ \union fault] /\ pc' = [pc EXCEPT ![p] = "verify"]
      /\ UNCHANGED <<regime, registry, cache, unreadable, disturbed, edits, kills,
                     upstream, drifts, reported, cmd, loaded, todo, at, verified, data, code>>
  BY <1>1 DEF Anchor, Goto, env, PinsInv
<1>3. /\ pc'[p] = "verify" /\ p \in Active /\ faults'[p] = faults[p] \union fault
      /\ fault \in SUBSET (2 .. 6) /\ cmd[p].op = "offline"
  BY <1>1, <1>2, AnchorFaultType DEF TypeOK, Active, Placed
<1>4. Quiet(p) /\ TypeOK'
  BY <1>2, <1>3 DEF Quiet, Steady, TypeOK
<1>5. Placed(p)'
  BY <1>2, <1>3 DEF Placed, Pinning, Writing
<1>6. Checking(p)'
  <2> SUFFICES ASSUME p \notin disturbed PROVE Checking(p)'
    BY <1>2 DEF Checking
  <2>1. /\ loaded[p] = registry /\ todo[p] \subseteq Collected
        /\ \A s \in verified[p] : s \in DOMAIN registry /\ cache[s] = registry[s].sha
        /\ \A f \in 2 .. 6 : f \in faults[p] <=> \E d \in Checked(p) : f \in FirstFault(d)
        /\ at[p] \in Collected \ todo[p] /\ FirstFault(at[p]) = fault
    BY <1>1, <1>2, AtAnchor
  <2>2. /\ Collected' = Collected /\ \A d : (FirstFault(d))' = FirstFault(d)
    BY <1>2, SameFaults
  <2>3. Checked(p)' = Checked(p) \union {at[p]}
    BY <1>2, <1>3, <2>1, <2>2 DEF Checked
  <2>4. \A f \in 2 .. 6 : f \in faults'[p] <=> \E d \in Checked(p)' : f \in FirstFault(d)
    BY <1>3, <2>1, <2>3
  <2> QED BY <1>2, <1>3, <2>1, <2>2, <2>4 DEF Checking
<1> QED BY <1>2, <1>3, <1>4, <1>5, <1>6, OfflineStep

LEMMA AnchorRaisesInv == ASSUME PinsInv, NEW p \in Proc, AnchorRaises(p) PROVE PinsInv'
<1>1. /\ pc[p] = "anchor" /\ TypeOK /\ Placed(p) /\ cache[at[p].slug] = Missing
      /\ pc' = [pc EXCEPT ![p] = "done"] /\ code' = [code EXCEPT ![p] = 1]
      /\ UNCHANGED <<regime, registry, cache, unreadable, disturbed, edits, kills,
                     upstream, drifts, reported, cmd, loaded, todo, at, verified, data, faults>>
  BY DEF AnchorRaises, Unopened, Exit, Goto, env, PinsInv
<1>2. pc'[p] = "done" /\ p \in Active /\ cmd[p].op = "offline"
  BY <1>1 DEF TypeOK, Active, Placed
<1>3. Quiet(p) /\ TypeOK'
  BY <1>1 DEF Quiet, Steady, TypeOK
<1>4. Placed(p)'
  BY <1>1, <1>2 DEF Placed, Pinning, Writing
<1>5. Checking(p)'
  BY <1>1, AtAnchor DEF Checking
<1> QED BY <1>1, <1>2, <1>3, <1>4, <1>5, OfflineStep

LEMMA ConcludeInv == ASSUME PinsInv, NEW p \in Proc, Conclude(p) PROVE PinsInv'
<1>1. PICK result : result = PrimaryFault(faults[p])
  OBVIOUS
<1>2. /\ pc[p] = "verify" /\ todo[p] = {} /\ TypeOK /\ Placed(p) /\ Checking(p)
      /\ pc' = [pc EXCEPT ![p] = "done"] /\ code' = [code EXCEPT ![p] = result]
      /\ UNCHANGED <<regime, registry, cache, unreadable, disturbed, edits, kills,
                     upstream, drifts, reported, cmd, loaded, todo, at, verified, data, faults>>
  BY <1>1 DEF Conclude, Exit, Goto, env, PinsInv
<1>3. faults[p] \in SUBSET (2 .. 6)
  BY <1>2 DEF TypeOK
<1>4. /\ faults[p] = {} => result = 0
      /\ faults[p] # {} => result \in faults[p] /\ \A f \in faults[p] : result <= f
  BY <1>1, <1>3, LeastCode
<1>5. result \in 0 .. 9
  BY <1>3, <1>4
<1>6. /\ pc'[p] = "done" /\ code'[p] = result /\ p \in Active /\ cmd[p].op = "offline"
  BY <1>2 DEF TypeOK, Active, Placed
<1>7. Quiet(p) /\ TypeOK'
  BY <1>2, <1>5 DEF Quiet, Steady, TypeOK
<1>8. Placed(p)'
  BY <1>2, <1>6 DEF Placed, Pinning, Writing
<1>9. Checking(p)'
  <2> SUFFICES ASSUME p \notin disturbed PROVE Checking(p)'
    BY <1>2 DEF Checking
  <2>1. /\ loaded[p] = registry /\ registry \in Registries /\ registry # Broken
        /\ \A f \in 2 .. 6 : f \in faults[p] <=> \E d \in Checked(p) : f \in FirstFault(d)
    BY <1>2, <1>6, ReferenceAssumption DEF Checking, Placed
  <2>2. Checked(p) = Collected
    BY <1>2 DEF Checked
  <2> DEFINE applies == UNION {FirstFault(c) : c \in Collected}
  <2>3. \A f : f \in applies <=> \E d \in Collected : f \in FirstFault(d)
    OBVIOUS
  <2>4. applies' = applies
    BY <1>2, SameFaults, Zenon
  <2>5. \A f \in applies : f \in 2 .. 6
    BY <2>3, FirstFaultType
  <2>6. Answer(p)' <=> IF registry' = Broken THEN code'[p] = 1
                       ELSE \/ code'[p] = 0 /\ applies' = {}
                            \/ code'[p] \in applies' /\ \A fault \in applies' : code'[p] <= fault
    BY DEF Answer
  <2> HIDE DEF applies
  <2>7. applies = faults[p]
    BY <1>3, <2>1, <2>2, <2>3, <2>5
  <2>8. Answer(p)'
    BY <1>2, <1>4, <1>6, <2>1, <2>4, <2>6, <2>7
  <2> QED BY <1>6, <2>8 DEF Checking
<1> QED BY <1>2, <1>6, <1>7, <1>8, <1>9, OfflineStep

-----------------------------------------------------------------------------
(* --refresh and --acknowledge-drift, where they only read                 *)

LEMMA RefreshInv == ASSUME PinsInv, NEW p \in Proc, Refresh(p) PROVE PinsInv'
<1>1. PICK s \in todo[p] :
         LET fault == FetchFault(upstream[s], loaded[p][s].sha)
         IN  /\ todo' = [todo EXCEPT ![p] = @ \ {s}]
             /\ at' = [at EXCEPT ![p] = s]
             /\ data' = [data EXCEPT ![p] = upstream[s]]
             /\ code' = [code EXCEPT ![p] = Worst(@, fault)]
             /\ reported' = IF fault = 8 THEN reported \union {<<s, upstream[s]>>} ELSE reported
             /\ IF Promotes(fault) THEN Goto(p, "write") ELSE UNCHANGED pc
  BY DEF Refresh
<1>2. PICK fault : fault = FetchFault(upstream[s], loaded[p][s].sha)
  OBVIOUS
<1>3. PICK content : content = upstream[s]
  OBVIOUS
<1>4. /\ pc[p] = "fetch" /\ cmd[p].op = "refresh" /\ TypeOK /\ Placed(p) /\ Fetching(p) /\ Alone
      /\ UNCHANGED <<regime, registry, cache, unreadable, disturbed, edits, kills,
                     upstream, drifts, cmd, loaded, verified, faults>>
  BY DEF Refresh, env, PinsInv
<1>5. /\ s \in Slugs /\ p \in Active /\ loaded[p] \in Registries /\ cmd[p] \in regime.commands
      /\ todo[p] \subseteq Slugs
  BY <1>4 DEF Placed, Active
<1>6. /\ content \in Contents \union {Down} /\ fault \in {0, 7, 8}
      /\ fault # 7 => content \in Contents
      /\ fault = 0 => content = loaded[p][s].sha
  BY <1>2, <1>3, <1>4, <1>5 DEF FetchFault, TypeOK
<1>7. PICK worst : worst = Worst(code[p], fault)
  OBVIOUS
<1>8. worst \in 0 .. 9 /\ (worst = 0 <=> code[p] = 0 /\ fault = 0)
  BY <1>4, <1>6, <1>7 DEF Worst, TypeOK
<1>9. /\ todo' = [todo EXCEPT ![p] = @ \ {s}] /\ at' = [at EXCEPT ![p] = s]
      /\ data' = [data EXCEPT ![p] = content] /\ code' = [code EXCEPT ![p] = worst]
      /\ \/ fault = 0 /\ pc' = [pc EXCEPT ![p] = "write"]
         \/ fault # 0 /\ pc' = pc
  BY <1>1, <1>2, <1>3, <1>7 DEF Promotes, Goto
<1>10. reported' \subseteq Slugs \X Contents
  <2>1. reported' = IF fault = 8 THEN reported \union {<<s, content>>} ELSE reported
    BY <1>1, <1>2, <1>3
  <2> QED BY <1>4, <1>5, <1>6, <2>1 DEF TypeOK
<1>11. /\ todo'[p] = todo[p] \ {s} /\ at'[p] = s /\ data'[p] = content /\ code'[p] = worst
       /\ cmd'[p] = cmd[p] /\ loaded'[p] = loaded[p]
       /\ \/ fault = 0 /\ pc'[p] = "write"
          \/ fault # 0 /\ pc'[p] = "fetch"
  BY <1>4, <1>9 DEF TypeOK
<1>12. Quiet(p)
  BY <1>4, <1>9 DEF Quiet, Steady, TypeOK
<1>13. TypeOK'
  <2>1. /\ todo' \in [Proc -> (SUBSET Slugs) \union SUBSET Citations]
        /\ at' \in [Proc -> Slugs \union Citations \union {None}]
        /\ data' \in [Proc -> Contents \union {Down, None}] /\ code' \in [Proc -> 0 .. 9]
    BY <1>4, <1>5, <1>6, <1>8, <1>9 DEF TypeOK
  <2>2. pc' \in [Proc -> {"idle", "load", "collect", "verify", "anchor", "fetch", "raw",
                          "truncate", "pin", "write", "fill", "done", "dead"}]
    BY <1>4, <1>9 DEF TypeOK
  <2> QED BY <1>4, <1>10, <2>1, <2>2 DEF TypeOK
<1>14. Placed(p)'
  BY <1>4, <1>5, <1>6, <1>11 DEF Placed, Pinning, Writing
<1>15. Checking(p)'
  BY <1>4 DEF Checking
<1>16. Fetching(p)'
  <2> SUFFICES ASSUME p \notin disturbed PROVE Fetching(p)'
    BY <1>4 DEF Fetching
  <2>1. \A c : (Selected(c))' = Selected(c)
    BY <1>4, SameFaults
  <2>2. /\ loaded[p] = registry /\ todo[p] \subseteq Selected(cmd[p])
        /\ code[p] = 0 => \A t \in Selected(cmd[p]) : cache[t] = registry[t].sha \/ t \in todo[p]
    BY <1>4 DEF Fetching, Writing
  <2> QED BY <1>4, <1>6, <1>8, <1>11, <2>1, <2>2 DEF Fetching, Writing
<1>17. Alone'
  <2>1. Follows(registry, {})' <=> Follows(registry, {})
    BY <1>4, SameFaults
  <2>2. Follows(registry, {}) => Follows(registry, {at[p]})'
    BY <1>4 DEF Follows
  <2>3. ASSUME Holds(p) PROVE p \in Active' /\ Holds(p)'
    <3>1. registry # Broken /\ Follows(registry, {}) /\ loaded[p] = registry
      BY <1>4, <2>3 DEF Holds, Writing
    <3>2. CASE fault = 0
      <4>1. pc'[p] = "write" /\ content = registry[s].sha
        BY <1>6, <1>11, <3>1, <3>2
      <4> QED BY <1>4, <1>5, <1>11, <2>2, <3>1, <4>1 DEF Holds, Active, Writing
    <3>3. CASE fault # 0
      <4>1. pc'[p] = "fetch"
        BY <1>11, <3>3
      <4> QED BY <1>4, <1>5, <1>11, <2>1, <3>1, <4>1 DEF Holds, Active, Writing
    <3> QED BY <3>2, <3>3
  <2> QED BY <1>4, <1>5, <1>12, <2>3, AloneStep DEF Quiet, Steady
<1> QED BY <1>4, <1>11, <1>12, <1>13, <1>14, <1>15, <1>16, <1>17, NoPinner, QuietInv DEF Writing

LEMMA RefreshEndsInv == ASSUME PinsInv, NEW p \in Proc, RefreshEnds(p) PROVE PinsInv'
<1>1. /\ pc[p] = "fetch" /\ cmd[p].op = "refresh" /\ todo[p] = {}
      /\ TypeOK /\ Placed(p) /\ Fetching(p) /\ Alone
      /\ pc' = [pc EXCEPT ![p] = "done"] /\ code' = [code EXCEPT ![p] = code[p]]
      /\ UNCHANGED <<regime, registry, cache, unreadable, disturbed, edits, kills,
                     upstream, drifts, reported, cmd, loaded, todo, at, verified, data, faults>>
  BY DEF RefreshEnds, Exit, Goto, env, PinsInv
<1>2. pc'[p] = "done" /\ p \in Active /\ code' = code
  BY <1>1 DEF TypeOK, Active
<1>3. Quiet(p) /\ TypeOK'
  BY <1>1, <1>2 DEF Quiet, Steady, TypeOK
<1>4. Placed(p)'
  BY <1>1, <1>2 DEF Placed, Pinning, Writing
<1>5. Checking(p)'
  BY <1>1 DEF Checking
<1>6. Fetching(p)'
  <2>1. \A c : (Selected(c))' = Selected(c)
    BY <1>1, SameFaults
  <2> QED BY <1>1, <1>2, <2>1 DEF Fetching, Writing
<1>7. Alone'
  <2>1. Follows(registry, {})' <=> Follows(registry, {})
    BY <1>1, SameFaults
  <2> QED BY <1>1, <1>2, <1>3, <2>1, AloneStep DEF Holds, Agreed, Active, Writing, Quiet, Steady
<1> QED BY <1>1, <1>3, <1>4, <1>5, <1>6, <1>7, NoPinner, QuietInv DEF Writing

LEMMA AcknowledgeInv == ASSUME PinsInv, NEW p \in Proc, Acknowledge(p) PROVE PinsInv'
<1>1. PICK s \in cmd[p].slugs :
         LET fault == AcknowledgeFault(upstream[s], loaded[p][s].sha)
         IN  /\ at' = [at EXCEPT ![p] = s]
             /\ data' = [data EXCEPT ![p] = upstream[s]]
             /\ IF fault # 0 THEN Exit(p, fault) ELSE Goto(p, "raw") /\ UNCHANGED code
  BY DEF Acknowledge
<1>2. PICK fault : fault = AcknowledgeFault(upstream[s], loaded[p][s].sha)
  OBVIOUS
<1>3. PICK content : content = upstream[s]
  OBVIOUS
<1>4. /\ pc[p] = "fetch" /\ cmd[p].op = "acknowledge" /\ TypeOK /\ Placed(p) /\ Alone
      /\ UNCHANGED <<regime, registry, cache, unreadable, disturbed, edits, kills,
                     upstream, drifts, reported, cmd, loaded, todo, verified, faults>>
  BY DEF Acknowledge, env, PinsInv
<1>5. /\ p \in Active /\ loaded[p] \in Registries /\ cmd[p] \in regime.commands
      /\ cmd[p].reviewed /\ cmd[p].how = "slug"
  BY <1>4 DEF Placed, Active
<1>6. s \in Slugs
  BY <1>4, <1>5, CommandType DEF Ops
<1>7. /\ content \in Contents \union {Down} /\ fault \in {0, 7, 9}
      /\ fault # 7 => content \in Contents
  BY <1>2, <1>3, <1>4, <1>6 DEF AcknowledgeFault, TypeOK
<1>8. /\ at' = [at EXCEPT ![p] = s] /\ data' = [data EXCEPT ![p] = content]
      /\ \/ fault # 0 /\ pc' = [pc EXCEPT ![p] = "done"] /\ code' = [code EXCEPT ![p] = fault]
         \/ fault = 0 /\ pc' = [pc EXCEPT ![p] = "raw"] /\ code' = code
  BY <1>1, <1>2, <1>3 DEF Exit, Goto
<1>9. /\ at'[p] = s /\ data'[p] = content /\ cmd'[p] = cmd[p] /\ loaded'[p] = loaded[p]
      /\ \/ fault = 0 /\ pc'[p] = "raw"
         \/ fault # 0 /\ pc'[p] = "done"
  BY <1>4, <1>8 DEF TypeOK
<1>10. Quiet(p)
  BY <1>4, <1>8 DEF Quiet, Steady, TypeOK
<1>11. TypeOK'
  <2>1. /\ at' \in [Proc -> Slugs \union Citations \union {None}]
        /\ data' \in [Proc -> Contents \union {Down, None}]
    BY <1>4, <1>6, <1>7, <1>8 DEF TypeOK
  <2>2. /\ code' \in [Proc -> 0 .. 9]
        /\ pc' \in [Proc -> {"idle", "load", "collect", "verify", "anchor", "fetch", "raw",
                             "truncate", "pin", "write", "fill", "done", "dead"}]
    BY <1>4, <1>7, <1>8 DEF TypeOK
  <2> QED BY <1>4, <2>1, <2>2 DEF TypeOK
<1>12. Placed(p)'
  BY <1>4, <1>5, <1>6, <1>7, <1>9 DEF Placed, Pinning, Writing
<1>13. Checking(p)' /\ Fetching(p)'
  BY <1>4 DEF Checking, Fetching
<1>14. Alone'
  <2>1. Follows(registry, {})' <=> Follows(registry, {})
    BY <1>4, SameFaults
  <2> QED BY <1>4, <1>5, <1>9, <1>10, <2>1, AloneStep DEF Holds, Agreed, Active, Writing, Quiet, Steady
<1> QED BY <1>4, <1>9, <1>10, <1>11, <1>12, <1>13, <1>14, NoPinner, QuietInv DEF Writing

LEMMA ReadRawInv == ASSUME PinsInv, NEW p \in Proc, ReadRaw(p) PROVE PinsInv'
<1>1. /\ pc[p] = "raw" /\ TypeOK /\ Placed(p) /\ Alone
      /\ UNCHANGED <<regime, registry, cache, unreadable, disturbed, edits, kills,
                     upstream, drifts, reported, cmd, todo, at, verified, data, faults>>
      /\ \/ /\ registry = Broken /\ loaded' = loaded
            /\ pc' = [pc EXCEPT ![p] = "done"] /\ code' = [code EXCEPT ![p] = 1]
         \/ /\ registry # Broken /\ loaded' = [loaded EXCEPT ![p] = registry]
            /\ pc' = [pc EXCEPT ![p] = "truncate"] /\ code' = code
  BY DEF ReadRaw, Exit, Goto, env, PinsInv
<1>2. /\ p \in Active
      /\ \/ registry = Broken /\ loaded'[p] = loaded[p] /\ pc'[p] = "done"
         \/ registry # Broken /\ loaded'[p] = registry /\ pc'[p] = "truncate"
  BY <1>1 DEF TypeOK, Active
<1>3. Quiet(p)
  BY <1>1 DEF Quiet, Steady, TypeOK
<1>4. TypeOK'
  <2>1. /\ code' \in [Proc -> 0 .. 9] /\ loaded' \in [Proc -> Registries \union {None}]
        /\ pc' \in [Proc -> {"idle", "load", "collect", "verify", "anchor", "fetch", "raw",
                             "truncate", "pin", "write", "fill", "done", "dead"}]
    BY <1>1 DEF TypeOK
  <2> QED BY <1>1, <2>1 DEF TypeOK
<1>5. cmd[p].op = "acknowledge"
  BY <1>1 DEF Placed, Pinning
<1>6. Placed(p)'
  BY <1>1, <1>2, <1>5 DEF Placed, Pinning, Writing, TypeOK
<1>7. Checking(p)' /\ Fetching(p)'
  BY <1>1, <1>5 DEF Checking, Fetching
<1>8. Alone'
  <2>1. Follows(registry, {})' <=> Follows(registry, {})
    BY <1>1, SameFaults
  <2> QED BY <1>1, <1>2, <1>3, <2>1, AloneStep DEF Holds, Agreed, Active, Writing, Quiet, Steady
<1> QED BY <1>1, <1>2, <1>3, <1>4, <1>6, <1>7, <1>8, NoPinner, QuietInv DEF Writing

-----------------------------------------------------------------------------
(* Steps that write registry or cache                                      *)

(* Everybody but the writer who has begun is disturbed.                    *)
Wrote(p) ==
    /\ disturbed' = disturbed \union (Proc \ (Idle \union {p}))
    /\ regime' = regime
    /\ \A q \in Proc \ {p} : Steady(q)

LEMMA Bystanders ==
    ASSUME PinsInv, NEW p, Wrote(p), NEW q \in Proc \ {p}
    PROVE  Placed(q)' /\ Checking(q)' /\ Fetching(q)'
<1>1. Placed(q)'
  BY PlacedStays DEF PinsInv, Wrote
<1>2. pc'[q] = "idle" \/ q \in disturbed'
  BY DEF Wrote, Steady, Idle
<1> QED BY <1>1, <1>2 DEF Checking, Fetching

(* The trail of the pins survives a step of p whose registries come from   *)
(* what was trailed.                                                       *)
LEMMA TrailWritten ==
    ASSUME Trail, NEW p, \A q \in Proc \ {p} : Steady(q), loaded' = loaded,
           \A s, c : p \in Proc /\ Pinner(p, s, c) => Pinner(p, s, c)',
           registry' # Broken => Trailed(registry)'
    PROVE  Trail'
<1>1. ASSUME NEW q \in Proc, NEW s, NEW c, Pinner(q, s, c) PROVE Pinner(q, s, c)'
  BY <1>1, PinnerStays
<1>2. ASSUME NEW q \in Proc, loaded'[q] # None PROVE Trailed(loaded[q])'
  <2>1. Trailed(loaded[q])
    BY <1>2 DEF Trail
  <2> QED BY <1>1, <2>1 DEF Trailed
<1> QED BY <1>2 DEF Trail

(* A registry whose attributed pins were trailed is trailed afterwards.    *)
LEMMA TrailKept ==
    ASSUME NEW p, \A q \in Proc \ {p} : Steady(q),
           \A s, c : p \in Proc /\ Pinner(p, s, c) => Pinner(p, s, c)',
           NEW entries, Trailed(entries)
    PROVE  Trailed(entries)'
<1>1. ASSUME NEW q \in Proc, NEW s, NEW c, Pinner(q, s, c) PROVE Pinner(q, s, c)'
  BY <1>1, PinnerStays
<1> QED BY <1>1 DEF Trailed

LEMMA TruncateRegistryInv == ASSUME PinsInv, NEW p \in Proc, TruncateRegistry(p) PROVE PinsInv'
<1>1. /\ pc[p] = "truncate" /\ TypeOK /\ Placed(p) /\ Alone /\ Trail
      /\ registry' = Broken /\ pc' = [pc EXCEPT ![p] = "pin"]
      /\ disturbed' = disturbed \union (Proc \ (Idle \union {p}))
      /\ UNCHANGED <<regime, cache, unreadable, edits, kills, upstream, drifts, reported,
                     cmd, loaded, todo, at, verified, data, code, faults>>
  BY DEF TruncateRegistry, Disturb, Goto, own, env, PinsInv
<1>2. /\ pc'[p] = "pin" /\ p \in Active /\ cmd[p].op = "acknowledge"
      /\ \A q \in Proc \ {p} : Steady(q)
  BY <1>1 DEF TypeOK, Active, Steady, Placed, Pinning
<1>3. TypeOK'
  BY <1>1 DEF TypeOK
<1>4. Placed(p)' /\ Checking(p)' /\ Fetching(p)'
  BY <1>1, <1>2 DEF Placed, Checking, Fetching, Pinning, Writing
<1>5. Trail'
  <2>1. \A s, c : Pinner(p, s, c) => Pinner(p, s, c)'
    BY <1>1, NoPinner DEF Writing
  <2> QED BY <1>1, <1>2, <2>1, TrailWritten
<1>6. Alone'
  <2>1. Follows(loaded[p], {})' <=> Follows(loaded[p], {})
    BY <1>1 DEF Follows
  <2>2. ASSUME Holds(p) PROVE p \in Active' /\ Holds(p)'
    BY <1>1, <1>2, <2>1, <2>2 DEF Holds, Active, Writing
  <2> QED BY <1>1, <1>2, <2>2, AloneStep DEF Steady
<1>7. Wrote(p)
  BY <1>1, <1>2 DEF Wrote
<1> QED BY <1>3, <1>4, <1>5, <1>6, <1>7, Bystanders DEF PinsInv

LEMMA WriteRegistryInv == ASSUME PinsInv, NEW p \in Proc, WriteRegistry(p) PROVE PinsInv'
<1>1. /\ pc[p] = "pin" /\ TypeOK /\ Placed(p) /\ Alone /\ Trail
      /\ registry' = Repin(loaded[p], at[p], data[p], p) /\ pc' = [pc EXCEPT ![p] = "write"]
      /\ disturbed' = disturbed \union (Proc \ (Idle \union {p}))
      /\ UNCHANGED <<regime, cache, unreadable, edits, kills, upstream, drifts, reported,
                     cmd, loaded, todo, at, verified, data, code, faults>>
  BY DEF WriteRegistry, Disturb, Goto, own, env, PinsInv
<1>2. /\ pc'[p] = "write" /\ p \in Active
      /\ cmd[p].op = "acknowledge" /\ cmd[p].reviewed /\ cmd[p].how = "slug"
      /\ loaded[p] \in Registries /\ at[p] \in Slugs /\ data[p] \in Contents
      /\ at[p] \in cmd[p].slugs
      /\ \A q \in Proc \ {p} : Steady(q)
  BY <1>1 DEF TypeOK, Active, Steady, Placed, Pinning
<1>3. /\ registry' \in Registries /\ DOMAIN registry' = DOMAIN loaded[p]
      /\ \A s \in DOMAIN registry' :
            registry'[s] = IF s = at[p] THEN [sha |-> data[p], by |-> p] ELSE loaded[p][s]
  <2>1. PICK entries, slug, content : entries = loaded[p] /\ slug = at[p] /\ content = data[p]
    OBVIOUS
  <2>2. entries \in Registries /\ content \in Contents /\ p \in Proc \union {Author}
    BY <1>2, <2>1
  <2>3. /\ Repin(entries, slug, content, p) \in Registries
        /\ DOMAIN Repin(entries, slug, content, p) = DOMAIN entries
        /\ \A s \in DOMAIN entries :
              Repin(entries, slug, content, p)[s]
                 = IF s = slug THEN [sha |-> content, by |-> p] ELSE entries[s]
    BY ONLY <2>2, RepinType
  <2>4. registry' = Repin(entries, slug, content, p)
    BY <1>1, <2>1
  <2> QED BY <2>1, <2>3, <2>4
<1>4. TypeOK'
  BY <1>1, <1>3 DEF TypeOK
<1>5. Placed(p)' /\ Checking(p)' /\ Fetching(p)'
  BY <1>1, <1>2 DEF Placed, Checking, Fetching, Pinning, Writing
<1>6. Trail'
  <2>1. \A s, c : Pinner(p, s, c) => Pinner(p, s, c)'
    BY <1>1, NoPinner DEF Writing
  <2>2. PICK entries : entries = loaded[p]
    OBVIOUS
  <2>3. Trailed(entries)'
    <3>1. Trailed(entries)
      BY <1>1, <1>2, <2>2, ReferenceAssumption DEF Trail
    <3> QED BY <1>2, <2>1, <3>1, TrailKept
  <2>4. Pinner(p, at[p], data[p])'
    BY <1>1, <1>2 DEF Pinner, Writing
  <2>5. ASSUME NEW s \in DOMAIN registry', registry'[s].by \in Proc
        PROVE  Pinner(registry[s].by, s, registry[s].sha)'
    <3>1. CASE s = at[p]
      BY <1>1, <1>3, <2>4, <3>1 DEF Pinner
    <3>2. CASE s # at[p]
      BY <1>3, <2>2, <2>3, <2>5, <3>2 DEF Trailed, Pinner
    <3> QED BY <3>1, <3>2
  <2>6. Trailed(registry)'
    BY <2>5 DEF Trailed
  <2> QED BY <1>1, <1>2, <2>1, <2>6, TrailWritten
<1>7. Alone'
  <2>1. ASSUME Holds(p) PROVE p \in Active' /\ Holds(p)'
    <3>1. Follows(loaded[p], {})
      BY <1>1, <2>1 DEF Holds
    <3>2. registry' # Broken
      BY <1>3, ReferenceAssumption
    <3>3. Follows(registry, {at[p]})'
      BY <1>1, <1>3, <3>1 DEF Follows
    <3>4. at[p] \in DOMAIN registry' => registry'[at[p]].sha = data[p]
      BY <1>3
    <3> QED BY <1>1, <1>2, <3>2, <3>3, <3>4 DEF Holds, Active, Writing
  <2> QED BY <1>1, <1>2, <2>1, AloneStep DEF Steady
<1>8. Wrote(p)
  BY <1>1, <1>2 DEF Wrote
<1> QED BY <1>4, <1>5, <1>6, <1>7, <1>8, Bystanders DEF PinsInv

(* A step that writes the cache, and not the registry.                     *)
LEMMA TruncateCacheInv == ASSUME PinsInv, NEW p \in Proc, TruncateCache(p) PROVE PinsInv'
<1>1. /\ pc[p] = "write" /\ TypeOK /\ Placed(p) /\ Alone /\ Trail /\ Fetching(p)
      /\ cache' = [cache EXCEPT ![at[p]] = Partial] /\ pc' = [pc EXCEPT ![p] = "fill"]
      /\ disturbed' = disturbed \union (Proc \ (Idle \union {p}))
      /\ UNCHANGED <<regime, registry, unreadable, edits, kills, upstream, drifts, reported,
                     cmd, loaded, todo, at, verified, data, code, faults>>
  BY DEF TruncateCache, Disturb, Goto, own, env, PinsInv
<1>2. /\ pc'[p] = "fill" /\ p \in Active /\ cmd[p].op \in {"refresh", "acknowledge"}
      /\ at[p] \in Slugs
      /\ \A q \in Proc \ {p} : Steady(q)
  BY <1>1 DEF TypeOK, Active, Steady, Placed, Pinning, Writing
<1>3. \A s \in Slugs : cache'[s] = IF s = at[p] THEN Partial ELSE cache[s]
  BY <1>1 DEF TypeOK
<1>4. TypeOK'
  BY <1>1 DEF TypeOK, Bad
<1>5. Placed(p)' /\ Checking(p)'
  BY <1>1, <1>2 DEF Placed, Checking, Pinning, Writing
<1>6. Fetching(p)'
  <2> SUFFICES ASSUME p \notin disturbed, cmd[p].op = "refresh" PROVE Fetching(p)'
    BY <1>1 DEF Fetching
  <2>1. (Selected(cmd[p]))' = Selected(cmd[p])
    BY <1>1 DEF Selected
  <2>2. /\ loaded[p] = registry /\ loaded[p] \in Registries /\ todo[p] \subseteq Selected(cmd[p])
        /\ at[p] \in Selected(cmd[p]) /\ data[p] = registry[at[p]].sha
        /\ code[p] = 0 =>
              \A s \in Selected(cmd[p]) : cache[s] = registry[s].sha \/ s \in todo[p] \/ s = at[p]
    BY <1>1 DEF Fetching, Placed, Writing
  <2>3. Selected(cmd[p]) \subseteq Slugs
    BY <2>2, RegistryFields DEF Selected
  <2> QED BY <1>1, <1>2, <1>3, <2>1, <2>2, <2>3 DEF Fetching, Writing
<1>7. Trail'
  <2>1. \A s, c : Pinner(p, s, c) => Pinner(p, s, c)'
    BY <1>1, <1>2 DEF Pinner, Writing
  <2>2. ASSUME registry' # Broken PROVE Trailed(registry)'
    <3>1. PICK entries : entries = registry
      OBVIOUS
    <3>2. Trailed(entries)'
      BY <1>1, <1>2, <2>1, <2>2, <3>1, TrailKept DEF Trail
    <3> QED BY <1>1, <3>1, <3>2 DEF Trailed
  <2> QED BY <1>1, <1>2, <2>1, <2>2, TrailWritten
<1>8. Alone'
  <2>1. ASSUME Holds(p) PROVE p \in Active' /\ Holds(p)'
    <3>1. /\ registry # Broken /\ Follows(registry, {at[p]})
          /\ cmd[p].op = "refresh" => loaded[p] = registry
          /\ at[p] \in DOMAIN registry => registry[at[p]].sha = data[p]
      BY <1>1, <2>1 DEF Holds, Writing
    <3>2. DOMAIN registry \subseteq Slugs
      BY <1>1, <3>1, RegistryFields DEF TypeOK
    <3>3. Follows(registry, {at[p]})'
      BY <1>1, <1>3, <3>1, <3>2 DEF Follows
    <3> QED BY <1>1, <1>2, <3>1, <3>3 DEF Holds, Active, Writing
  <2> QED BY <1>1, <1>2, <2>1, AloneStep DEF Steady
<1>9. Wrote(p)
  BY <1>1, <1>2 DEF Wrote
<1> QED BY <1>4, <1>5, <1>6, <1>7, <1>8, <1>9, Bystanders DEF PinsInv

LEMMA WriteCacheInv == ASSUME PinsInv, NEW p \in Proc, WriteCache(p) PROVE PinsInv'
<1>1. /\ pc[p] = "fill" /\ TypeOK /\ Placed(p) /\ Alone /\ Trail /\ Fetching(p)
      /\ cache' = [cache EXCEPT ![at[p]] = data[p]]
      /\ disturbed' = disturbed \union (Proc \ (Idle \union {p}))
      /\ UNCHANGED <<regime, registry, unreadable, edits, kills, upstream, drifts, reported,
                     cmd, loaded, todo, at, verified, data, code, faults>>
      /\ \/ cmd[p].op = "acknowledge" /\ pc' = [pc EXCEPT ![p] = "done"]
         \/ cmd[p].op # "acknowledge" /\ pc' = [pc EXCEPT ![p] = "fetch"]
  BY DEF WriteCache, Disturb, Goto, own, env, PinsInv
<1>2. /\ p \in Active /\ cmd[p].op \in {"refresh", "acknowledge"}
      /\ \/ cmd[p].op = "acknowledge" /\ pc'[p] = "done"
         \/ cmd[p].op = "refresh" /\ pc'[p] = "fetch"
      /\ at[p] \in Slugs /\ data[p] \in Contents
      /\ \A q \in Proc \ {p} : Steady(q)
  BY <1>1 DEF TypeOK, Active, Steady, Placed, Pinning, Writing
<1>3. \A s \in Slugs : cache'[s] = IF s = at[p] THEN data[p] ELSE cache[s]
  BY <1>1 DEF TypeOK
<1>4. TypeOK'
  <2>1. cache' \in [Slugs -> Contents \union Bad]
    BY <1>1, <1>2 DEF TypeOK
  <2>2. pc' \in [Proc -> {"idle", "load", "collect", "verify", "anchor", "fetch", "raw",
                          "truncate", "pin", "write", "fill", "done", "dead"}]
    BY <1>1 DEF TypeOK
  <2> QED BY <1>1, <2>1, <2>2 DEF TypeOK
<1>5. Placed(p)' /\ Checking(p)'
  BY <1>1, <1>2 DEF Placed, Checking, Pinning, Writing
<1>6. Fetching(p)'
  <2> SUFFICES ASSUME p \notin disturbed, cmd[p].op = "refresh" PROVE Fetching(p)'
    BY <1>1 DEF Fetching
  <2>1. (Selected(cmd[p]))' = Selected(cmd[p])
    BY <1>1 DEF Selected
  <2>2. /\ loaded[p] = registry /\ loaded[p] \in Registries /\ todo[p] \subseteq Selected(cmd[p])
        /\ at[p] \in Selected(cmd[p]) /\ data[p] = registry[at[p]].sha
        /\ code[p] = 0 =>
              \A s \in Selected(cmd[p]) : cache[s] = registry[s].sha \/ s \in todo[p] \/ s = at[p]
    BY <1>1 DEF Fetching, Placed, Writing
  <2>3. Selected(cmd[p]) \subseteq Slugs
    BY <2>2, RegistryFields DEF Selected
  <2> QED BY <1>1, <1>2, <1>3, <2>1, <2>2, <2>3 DEF Fetching, Writing
<1>7. Trail'
  <2>1. \A s, c : Pinner(p, s, c) => Pinner(p, s, c)'
    BY <1>1, <1>2 DEF Pinner, Writing
  <2>2. ASSUME registry' # Broken PROVE Trailed(registry)'
    <3>1. PICK entries : entries = registry
      OBVIOUS
    <3>2. Trailed(entries)'
      BY <1>1, <1>2, <2>1, <2>2, <3>1, TrailKept DEF Trail
    <3> QED BY <1>1, <3>1, <3>2 DEF Trailed
  <2> QED BY <1>1, <1>2, <2>1, <2>2, TrailWritten
<1>8. Alone'
  <2>1. ASSUME Holds(p) PROVE IF p \in Active' THEN Holds(p)' ELSE Agreed'
    <3>1. /\ registry # Broken /\ Follows(registry, {at[p]})
          /\ cmd[p].op = "refresh" => loaded[p] = registry
          /\ at[p] \in DOMAIN registry => registry[at[p]].sha = data[p]
      BY <1>1, <2>1 DEF Holds, Writing
    <3>2. DOMAIN registry \subseteq Slugs
      BY <1>1, <3>1, RegistryFields DEF TypeOK
    <3>3. Follows(registry, {})'
      BY <1>1, <1>3, <3>1, <3>2 DEF Follows
    <3> QED BY <1>1, <1>2, <3>1, <3>3 DEF Holds, Agreed, Active, Writing
  <2> QED BY <1>1, <1>2, <2>1, AloneStep DEF Steady
<1>9. Wrote(p)
  BY <1>1, <1>2 DEF Wrote
<1> QED BY <1>4, <1>5, <1>6, <1>7, <1>8, <1>9, Bystanders DEF PinsInv

-----------------------------------------------------------------------------
(* What happens around the script                                          *)

LEMMA DriftInv == ASSUME PinsInv, NEW s \in Slugs, Drift(s) PROVE PinsInv'
<1>1. PICK u \in (Contents \union {Down}) \ {upstream[s]} : upstream' = [upstream EXCEPT ![s] = u]
  BY DEF Drift
<1>2. /\ drifts < regime.drifts /\ drifts' = drifts + 1 /\ TypeOK /\ Trail /\ Alone
      /\ UNCHANGED <<regime, registry, cache, unreadable, pc, cmd, loaded, todo, at, verified,
                     data, code, faults, disturbed, reported, edits, kills>>
  BY DEF Drift, own, PinsInv
<1>3. drifts' \in 0 .. regime.drifts
  <2>1. regime.drifts \in Nat
    BY <1>2, ReferenceAssumption DEF TypeOK
  <2> QED BY <1>2, <2>1 DEF TypeOK
<1>4. TypeOK'
  <2>1. upstream' \in [Slugs -> Contents \union {Down}]
    BY <1>1, <1>2 DEF TypeOK
  <2> QED BY <1>2, <1>3, <2>1 DEF TypeOK
<1>5. \A q \in Proc : Steady(q)
  BY <1>2 DEF Steady
<1>6. \A q \in Proc : Placed(q)' /\ Checking(q)' /\ Fetching(q)'
  BY <1>2, <1>5, PlacedStays, CheckingStays, FetchingStays DEF PinsInv
<1>7. Trail'
  BY <1>2 DEF Trail, Trailed, Pinner
<1>8. Alone'
  <2>1. Active' = Active /\ Agreed' = Agreed /\ Apart' = Apart
    BY <1>2 DEF Active, Agreed, Follows, Apart
  <2>2. ASSUME NEW q \in Active, Holds(q) PROVE Holds(q)'
    BY <1>2, <2>2 DEF Holds, Follows, Writing
  <2> QED BY <1>2, <2>1, <2>2 DEF Alone
<1> QED BY <1>4, <1>6, <1>7, <1>8 DEF PinsInv

(* An edit by hand: everybody who has begun is disturbed, and nothing is   *)
(* claimed of what runs alone.                                             *)
LEMMA EditInv ==
    ASSUME PinsInv, edits < regime.edits, edits' = edits + 1, Disturb(None),
           UNCHANGED <<regime, pc, own, kills>>, TypeOK', registry' # Broken => Trailed(registry)'
    PROVE  PinsInv'
<1>1. /\ TypeOK /\ Trail /\ edits \in Nat
      /\ UNCHANGED <<pc, cmd, loaded, todo, at, verified, data, code, faults>>
  <2>1. regime.edits \in Nat
    BY ReferenceAssumption DEF PinsInv, TypeOK
  <2> QED BY <2>1 DEF PinsInv, TypeOK, own
<1>2. Wrote(None) /\ \A q \in Proc : Steady(q)
  BY <1>1 DEF Wrote, Steady, Disturb
<1>3. \A q \in Proc : Placed(q)' /\ Checking(q)' /\ Fetching(q)'
  BY <1>2, Bystanders, ReferenceAssumption
<1>4. Trail'
  BY <1>1, <1>2, TrailWritten, ReferenceAssumption
<1>5. Alone'
  BY <1>1 DEF Alone, Apart
<1> QED BY <1>3, <1>4, <1>5 DEF PinsInv

LEMMA EditRegistryInv == ASSUME PinsInv, NEW s \in Slugs, EditRegistry(s) PROVE PinsInv'
<1>1. /\ edits < regime.edits /\ edits' = edits + 1 /\ Disturb(None)
      /\ UNCHANGED <<regime, pc, own, kills>> /\ TypeOK /\ Trail
      /\ UNCHANGED <<cache, upstream, unreadable, reported, drifts, cmd, loaded, todo, at,
                     verified, data, code, faults>>
  BY DEF EditRegistry, own, PinsInv
<1>2. edits' \in 0 .. regime.edits /\ disturbed' \subseteq Proc
  <2>1. regime.edits \in Nat
    BY <1>1, ReferenceAssumption DEF TypeOK
  <2> QED BY <1>1, <2>1 DEF TypeOK, Disturb
<1>3. ASSUME NEW q \in Proc, NEW t, NEW c, Pinner(q, t, c) PROVE Pinner(q, t, c)'
  BY <1>1, <1>3 DEF Pinner
<1>4. registry' \in Registries \union {Broken} /\ (registry' # Broken => Trailed(registry)')
  <2>1. CASE registry = Broken
    <3>1. registry' = [t \in Slugs |-> [sha |-> Pinned, by |-> Author]]
      BY <2>1 DEF EditRegistry
    <3>2. registry' \in [Slugs -> [sha : Contents, by : Proc \union {Author}]]
      BY <3>1, ReferenceAssumption
    <3>3. registry' \in Registries
      BY <3>2 DEF Registries
    <3>4. Trailed(registry)'
      BY <3>1, ReferenceAssumption DEF Trailed
    <3> QED BY <3>3, <3>4
  <2>2. CASE registry # Broken
    <3>1. registry \in Registries /\ Trailed(registry)
      BY <1>1, <2>2 DEF TypeOK, Trail
    <3>2. PICK entries : entries = registry
      OBVIOUS
    <3>3. entries \in Registries /\ Trailed(entries)'
      BY <1>3, <3>1, <3>2 DEF Trailed
    <3>4. CASE registry' = Broken
      BY <3>4
    <3>5. CASE registry' = Restrict(registry, DOMAIN registry \ {s})
      <4>1. PICK T : T = DOMAIN entries \ {s}
        OBVIOUS
      <4>2. /\ registry' \in Registries /\ DOMAIN registry' = T
            /\ \A t \in T : registry'[t] = entries[t]
        BY <3>2, <3>3, <3>5, <4>1, RestrictType
      <4>3. Trailed(registry)'
        BY <3>3, <4>1, <4>2 DEF Trailed
      <4> QED BY <4>2, <4>3
    <3>6. ASSUME NEW c \in Contents, registry' = Repin(registry, s, c, Author)
          PROVE  registry' \in Registries /\ Trailed(registry)'
      <4>1. registry' = Repin(entries, s, c, Author)
        BY <3>2, <3>6
      <4>2. /\ registry' \in Registries /\ DOMAIN registry' = DOMAIN entries
            /\ \A t \in DOMAIN entries :
                  registry'[t] = IF t = s THEN [sha |-> c, by |-> Author] ELSE entries[t]
        BY <3>3, <4>1, RepinType
      <4>3. ASSUME NEW t \in DOMAIN registry', registry'[t].by \in Proc
            PROVE  Pinner(registry[t].by, t, registry[t].sha)'
        <5>1. t # s /\ registry'[t] = entries[t]
          BY <4>2, <4>3, ReferenceAssumption
        <5>2. Pinner(entries[t].by, t, entries[t].sha)'
          BY <3>3, <4>2, <4>3, <5>1 DEF Trailed
        <5> QED BY <5>1, <5>2 DEF Pinner
      <4>4. Trailed(registry)'
        BY <4>3 DEF Trailed
      <4> QED BY <4>2, <4>4
    <3> QED BY <2>2, <3>4, <3>5, <3>6 DEF EditRegistry
  <2> QED BY <2>1, <2>2
<1>5. TypeOK'
  BY <1>1, <1>2, <1>4 DEF TypeOK
<1> QED BY <1>1, <1>4, <1>5, EditInv

LEMMA EditCacheInv == ASSUME PinsInv, NEW s \in Slugs, EditCache(s) PROVE PinsInv'
<1>1. /\ edits < regime.edits /\ edits' = edits + 1 /\ Disturb(None)
      /\ UNCHANGED <<regime, pc, own, kills>> /\ TypeOK /\ Trail
      /\ UNCHANGED <<registry, upstream, unreadable, reported, drifts, cmd, loaded, todo, at,
                     verified, data, code, faults>>
  BY DEF EditCache, own, PinsInv
<1>2. PICK c \in Contents \union Bad : cache' = [cache EXCEPT ![s] = c]
  BY DEF EditCache
<1>3. edits' \in 0 .. regime.edits /\ disturbed' \subseteq Proc
  <2>1. regime.edits \in Nat
    BY <1>1, ReferenceAssumption DEF TypeOK
  <2> QED BY <1>1, <2>1 DEF TypeOK, Disturb
<1>4. TypeOK'
  <2>1. cache' \in [Slugs -> Contents \union Bad]
    BY <1>1, <1>2 DEF TypeOK
  <2> QED BY <1>1, <1>3, <2>1 DEF TypeOK
<1>5. registry' # Broken => Trailed(registry)'
  BY <1>1 DEF Trail, Trailed, Pinner
<1> QED BY <1>1, <1>4, <1>5, EditInv

LEMMA KillInv == ASSUME PinsInv, NEW p \in Proc, Kill(p) PROVE PinsInv'
<1>1. /\ kills < regime.kills /\ kills' = kills + 1 /\ p \in Active /\ TypeOK /\ Trail /\ Placed(p)
      /\ pc' = [pc EXCEPT ![p] = "dead"]
      /\ UNCHANGED <<regime, registry, cache, upstream, unreadable, cmd, loaded, todo, at, verified,
                     data, code, faults, disturbed, reported, drifts, edits>>
  BY DEF Kill, Goto, own, PinsInv
<1>2. kills' \in 0 .. regime.kills /\ kills' # 0
  <2>1. regime.kills \in Nat
    BY <1>1, ReferenceAssumption DEF TypeOK
  <2> QED BY <1>1, <2>1 DEF TypeOK
<1>3. /\ pc'[p] = "dead" /\ pc[p] # "idle" /\ TypeOK'
      /\ \A q \in Proc \ {p} : Steady(q)
  BY <1>1, <1>2 DEF TypeOK, Active, Steady
<1>4. Placed(p)' /\ Checking(p)' /\ Fetching(p)'
  BY <1>1, <1>3 DEF Placed, Checking, Fetching, Pinning, Writing
<1>5. \A q \in Proc : Placed(q)' /\ Checking(q)' /\ Fetching(q)'
  BY <1>1, <1>3, <1>4, PlacedStays, CheckingStays, FetchingStays DEF PinsInv
<1>6. Trail'
  <2>1. \A s, c : Pinner(p, s, c) => Pinner(p, s, c)'
    BY <1>1, <1>3 DEF Pinner
  <2> QED BY <1>1, <1>3, <2>1, TrailStays
<1>7. Alone'
  BY <1>2 DEF Alone, Apart
<1> QED BY <1>3, <1>5, <1>6, <1>7 DEF PinsInv

-----------------------------------------------------------------------------
(* The invariant                                                           *)

LEMMA PinsInit == Init => PinsInv
<1> SUFFICES ASSUME Init PROVE PinsInv
  OBVIOUS
<1>1. PICK S \in SUBSET Slugs : registry = [s \in S |-> [sha |-> Pinned, by |-> Author]]
  BY DEF Init
<1>2. /\ regime \in Regimes /\ cache \in [Slugs -> {Missing, Pinned}]
      /\ upstream = [s \in Slugs |-> Pinned] /\ unreadable \subseteq Files
      /\ pc = [p \in Proc |-> "idle"] /\ cmd = [p \in Proc |-> None]
      /\ loaded = [p \in Proc |-> None] /\ todo = [p \in Proc |-> {}]
      /\ at = [p \in Proc |-> None] /\ verified = [p \in Proc |-> {}]
      /\ data = [p \in Proc |-> None]
      /\ code = [p \in Proc |-> 0] /\ faults = [p \in Proc |-> {}]
      /\ disturbed = {} /\ reported = {} /\ drifts = 0 /\ edits = 0 /\ kills = 0
  BY DEF Init
<1>3. registry \in Registries /\ registry # Broken
  <2>1. registry \in [S -> [sha : Contents, by : Proc \union {Author}]]
    BY <1>1, ReferenceAssumption
  <2> QED BY <2>1, ReferenceAssumption DEF Registries
<1>4. TypeOK
  <2>1. regime.drifts \in Nat /\ regime.edits \in Nat /\ regime.kills \in Nat
    BY <1>2, ReferenceAssumption
  <2>2. Pinned \in Contents
    BY ReferenceAssumption
  <2> QED BY <1>2, <1>3, <2>1, <2>2 DEF TypeOK, Bad
<1>5. Trail
  BY <1>1, <1>2, ReferenceAssumption DEF Trail, Trailed
<1>6. Alone
  <2>1. Active = {}
    BY <1>2 DEF Active
  <2>2. Agreed
    BY <1>1, <1>2, <1>3 DEF Agreed, Follows
  <2> QED BY <2>1, <2>2 DEF Alone
<1>7. \A p \in Proc : Placed(p) /\ Checking(p) /\ Fetching(p)
  BY <1>2 DEF Placed, Checking, Fetching, Pinning, Writing
<1> QED BY <1>4, <1>5, <1>6, <1>7 DEF PinsInv

LEMMA PinsStep == PinsInv /\ [Next]_vars => PinsInv'
<1> SUFFICES ASSUME PinsInv, [Next]_vars PROVE PinsInv'
  OBVIOUS
<1>1. ASSUME NEW p \in Proc, Step(p) PROVE PinsInv'
  BY <1>1, StartInv, LoadFailsInv, LoadInv, CollectInv, VerifyInv, AnchorInv, AnchorRaisesInv,
     ConcludeInv, RefreshInv, RefreshEndsInv, AcknowledgeInv, ReadRawInv, TruncateRegistryInv,
     WriteRegistryInv, TruncateCacheInv, WriteCacheInv DEF Step
<1>2. ASSUME NEW p \in Proc, Kill(p) PROVE PinsInv'
  BY <1>2, KillInv
<1>3. ASSUME NEW s \in Slugs, Drift(s) \/ EditRegistry(s) \/ EditCache(s) PROVE PinsInv'
  BY <1>3, DriftInv, EditRegistryInv, EditCacheInv
<1>4. CASE UNCHANGED vars
  <2>1. UNCHANGED <<regime, registry, cache, upstream, unreadable, pc, cmd, loaded, todo, at, verified,
                    data, code, faults, disturbed, reported, drifts, edits, kills>>
    BY <1>4 DEF vars
  <2>2. TypeOK' /\ Trail'
    BY <2>1 DEF PinsInv, TypeOK, Trail, Trailed, Pinner
  <2>3. Alone'
    <3>1. Active' = Active /\ Agreed' = Agreed /\ Apart' = Apart
      BY <2>1 DEF Active, Agreed, Follows, Apart
    <3>2. ASSUME NEW q \in Active, Holds(q) PROVE Holds(q)'
      BY <2>1, <3>2 DEF Holds, Follows, Writing
    <3> QED BY <3>1, <3>2 DEF Alone, PinsInv
  <2>4. \A q \in Proc : Placed(q)' /\ Checking(q)' /\ Fetching(q)'
    BY <2>1, PlacedStays, CheckingStays, FetchingStays DEF PinsInv, Steady
  <2> QED BY <2>2, <2>3, <2>4 DEF PinsInv
<1> QED BY <1>1, <1>2, <1>3, <1>4 DEF Next

LEMMA PinsAlways == Spec => []PinsInv
BY PinsInit, PinsStep, PTL DEF Spec

(* RegistryInv: the types of registry, cache and processes; a pin names    *)
(* somebody who asked for the document with a reviewer and fetched exactly *)
(* what is pinned, whatever ran beside; and commands run one at a time     *)
(* leave every cache file missing or as pinned.                            *)
THEOREM PinsAreAttributedAndFollowed == Spec => []RegistryInv
<1>1. PinsInv => PinsAreAttributed
  <2> SUFFICES ASSUME PinsInv, NEW s \in Registered, registry[s].by \in Proc
               PROVE  /\ cmd[registry[s].by].op = "acknowledge" /\ cmd[registry[s].by].reviewed
                      /\ s \in cmd[registry[s].by].slugs /\ data[registry[s].by] = registry[s].sha
    BY DEF PinsAreAttributed
  <2> QED BY DEF PinsInv, Trail, Trailed, Pinner, Registered
<1>2. PinsInv => CacheFollowsPin
  BY DEF PinsInv, Alone, Apart, Agreed, Follows, CacheFollowsPin, Registered
<1>3. PinsInv => RegistryInv
  BY <1>1, <1>2 DEF PinsInv, RegistryInv
<1> QED BY <1>3, PinsAlways, PTL

(* OfflineCodeIsPrimary: an --offline beside which nobody wrote returns    *)
(* the first code of run_offline's table that applies to a citation it     *)
(* could read, and 0 only if none does.                                    *)
THEOREM OfflineReturnsPrimaryCode == Spec => []OfflineCodeIsPrimary
<1>1. PinsInv => OfflineCodeIsPrimary
  <2> SUFFICES ASSUME PinsInv, NEW p \in Proc, Ended(p, "offline"), p \notin disturbed
               PROVE  Answer(p)
    BY DEF OfflineCodeIsPrimary, Answer
  <2> QED BY DEF PinsInv, Checking, Ended
<1> QED BY <1>1, PinsAlways, PTL

(* RefreshHeals: after a run_refresh that returned 0 every document it was *)
(* asked for is in the cache as pinned, until somebody else writes.        *)
THEOREM SuccessfulRefreshHeals == Spec => []RefreshHeals
<1>1. PinsInv => RefreshHeals
  BY DEF PinsInv, Fetching, RefreshHeals, Ended, Writing
<1> QED BY <1>1, PinsAlways, PTL
=============================================================================
