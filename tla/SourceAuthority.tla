-------------------------- MODULE SourceAuthority --------------------------
(***************************************************************************)
(* scripts/check_no_ignored_lean_sources.py: whether what Lean can import  *)
(* in this checkout is what it could import in a clean checkout of HEAD.   *)
(* The gate compares four authorities that Git and Lake keep apart: the    *)
(* files, the index, the committed tree and the compiled modules.  It      *)
(* reads them one after the other while a developer may go on working.     *)
(*                                                                         *)
(* A path stands for a file that may hold a Lean module.  Of a file's      *)
(* bytes the text, and whether its lines end in CRLF, are told apart.      *)
(*                                                                         *)
(* A definition commented "Mutant" is a bug the checks must find; no       *)
(* specification uses it.                                                  *)
(***************************************************************************)
EXTENDS Integers, FiniteSets

CONSTANTS
    Paths,      \* the Lean files there may be
    Texts,      \* what they may say
    LoneCr,     \* a text with a CR that ends no line
    Empty,      \* the text of no line
    Infra,      \* paths below .git or .lake at the top
    Odd,        \* paths whose extension is .Lean, .LEAN, ...
    Roots,      \* the roots of the targets in lakefile.toml
    DirOf,      \* the directory of a path
    Regimes,    \* what checkouts there are; one for a behaviour
    None

Bytes == [text : Texts, crlf : BOOLEAN]

(* What the committed tree, the index and the disk have of a path.         *)
Blobs == [bytes : Bytes, plain : BOOLEAN]
Entries == [bytes : Bytes, plain : BOOLEAN, merged : BOOLEAN, flagged : BOOLEAN]
OnDisk == [bytes : Bytes, link : BOOLEAN]

(* paths: those a developer works on; crlf: whether Git ends lines in LF   *)
(* when it adds a file; edits: bound of the developer's steps.             *)
ASSUME SourceAssumption ==
    /\ Infra \subseteq Paths /\ Odd \subseteq Paths /\ Roots \subseteq Paths
    /\ LoneCr \in Texts /\ Empty \in Texts
    /\ DOMAIN DirOf = Paths
    /\ Regimes \subseteq [paths : {S \in SUBSET Paths : Roots \subseteq S},
                          crlf : BOOLEAN, edits : Nat]
    /\ None \notin Blobs \union Entries \union OnDisk \union {0, 1, 2}

VARIABLES
    regime,
    head,       \* the committed tree: bytes, and whether the mode is 100644
    index,      \* the index: also whether an entry is merged, and flagged
    work,       \* the files: bytes, and whether the file is a link
    fresh,      \* paths whose file is as old and as long as the index says
    closed,     \* directories that are repositories of their own, or links
    hidden,     \* path to the ways of matching in which an ignore rule hides it
    oleans,     \* paths with a compiled module
    pc,         \* where the gate is
    sources,    \* the Lean files it found
    indexed,    \* the index it read
    committed,  \* the committed tree it read
    left,       \* the files it has to compare
    errors,     \* what it found wrong
    code,       \* its exit code
    disturbed,  \* history: files, rules or compiled modules changed meanwhile
    moved,      \* history: index or HEAD changed meanwhile
    edits

dev   == <<regime, head, index, work, fresh, closed, hidden, oleans, disturbed, moved, edits>>
found == <<sources, indexed, committed, left, errors>>
vars  == <<regime, head, index, work, fresh, closed, hidden, oleans, pc, sources, indexed,
           committed, left, errors, code, disturbed, moved, edits>>

Trees == [Paths -> Blobs \union {None}]
Indexes == [Paths -> Entries \union {None}]
FileSets == [Paths -> OnDisk \union {None}]

Present(tree) == {p \in Paths : tree[p] # None}

Entry(e) == [bytes |-> e.bytes, plain |-> e.plain, merged |-> TRUE, flagged |-> FALSE]
File(bytes) == [bytes |-> bytes, link |-> FALSE]
IndexOf(tree) == [p \in Paths |-> IF tree[p] = None THEN None ELSE Entry(tree[p])]

(* What Git stores of a file, and what it makes of it in the checkout.     *)
Clean(bytes) == [bytes EXCEPT !.crlf = IF regime.crlf THEN FALSE ELSE @]
Smudge(bytes) == [bytes EXCEPT !.crlf = @ \/ regime.crlf]
FilesOf(tree) ==
    [p \in Paths |-> IF tree[p] = None THEN None ELSE File(Smudge(tree[p].bytes))]

(* A clean checkout of a commit that has the roots, and nothing below .git *)
(* or .lake.                                                               *)
Init ==
    /\ regime \in Regimes
    /\ \E R \in SUBSET (regime.paths \ (Infra \union Odd)), t \in Texts :
        /\ Roots \subseteq R
        /\ head = [p \in Paths |-> IF p \in R THEN [bytes |-> [text |-> t, crlf |-> FALSE],
                                                    plain |-> TRUE] ELSE None]
    /\ index = IndexOf(head) /\ work = FilesOf(head) /\ fresh = Present(work)
    /\ closed = {} /\ hidden = [p \in Paths |-> {}] /\ oleans = {}
    /\ pc = "idle" /\ sources = {} /\ left = {} /\ errors = {} /\ code = None
    /\ indexed = [p \in Paths |-> None] /\ committed = [p \in Paths |-> None]
    /\ disturbed = FALSE /\ moved = FALSE /\ edits = 0

-----------------------------------------------------------------------------
(* The gate *)

About(kind, paths) == {<<kind, p>> : p \in paths}
Goto(place) == pc' = place
Found(more) == errors' = errors \union more

(* main: the controls of self_test are in a directory of their own;        *)
(* configured_modules refuses a lakefile without roots.                    *)
Begin ==
    /\ pc = "idle"
    /\ IF Roots = {} THEN Goto("done") /\ code' = 2 ELSE Goto("infrastructure") /\ UNCHANGED code
    /\ disturbed' = FALSE /\ moved' = FALSE
    /\ UNCHANGED <<regime, head, index, work, fresh, closed, hidden, oleans, edits, found>>

Reached(p) == DirOf[p] \notin closed

(* Mutant: what lies below .git and .lake is nobody's business.            *)
NoInfrastructure == {}

(* The first walk of lean_sources.                                         *)
InfrastructureErrors == About("infrastructure", {p \in Present(work) \cap Infra : Reached(p)})

WalkInfrastructure ==
    /\ pc = "infrastructure" /\ Goto("sources")
    /\ Found(InfrastructureErrors \union About("root", {r \in Roots : work[r] = None}))
    /\ UNCHANGED <<sources, indexed, committed, left, code, dev>>

(* The second walk: links and repositories are not entered, and forbidden. *)
(* A directory of the first walk that is one of these is forbidden there.  *)
WalkSources ==
    /\ pc = "sources" /\ Goto("stage")
    /\ LET reached == {p \in Present(work) \ Infra : Reached(p)}
       IN  /\ sources' = {p \in reached \ Odd : ~work[p].link}
           /\ Found(About("boundary", {p \in Paths : ~Reached(p)})
                    \union About("casing", reached \cap Odd)
                    \union About("link", {p \in reached \ Odd : work[p].link}))
    /\ UNCHANGED <<indexed, committed, left, code, dev>>

(* git ls-files --stage, and parse_index_stage_output.                     *)
ReadIndex ==
    /\ pc = "stage" /\ Goto("head")
    /\ indexed' = index
    /\ Found(About("casing", Present(index) \cap Odd)
             \union About("unmerged", {p \in Present(index) : ~index[p].merged})
             \union About("mode", {p \in Present(index) : ~index[p].plain}))
    /\ UNCHANGED <<sources, committed, left, code, dev>>

EntryDiffers(entry, blob) == entry.plain # blob.plain \/ entry.bytes # blob.bytes

(* git ls-tree HEAD, and the comparison with the index that was read.      *)
ReadHead ==
    /\ pc = "head" /\ Goto("flags")
    /\ committed' = head
    /\ LET both == Present(indexed) \cap Present(head)
       IN  Found(About("staged", Present(indexed) \ Present(head))
                 \union About("unindexed", Present(head) \ Present(indexed))
                 \union About("differs", {p \in both : EntryDiffers(indexed[p], head[p])}))
    /\ UNCHANGED <<sources, indexed, left, code, dev>>

(* git ls-files -v: assume-unchanged, skip-worktree and unmerged entries.  *)
ReadFlags ==
    /\ pc = "flags" /\ Goto("diff")
    /\ Found(About("flag", {p \in Present(index) : index[p].flagged \/ ~index[p].merged}))
    /\ UNCHANGED <<sources, indexed, committed, left, code, dev>>

(* git diff-files names an unmerged entry, and one whose file is not as    *)
(* old or as long as the index says, without reading it; a flagged one it  *)
(* leaves out.                                                             *)
Differing ==
    {p \in Present(index) \ Odd : ~index[p].flagged /\ (p \notin fresh \/ work[p] = None \/ ~index[p].merged)}

DiffFiles ==
    /\ pc = "diff" /\ Goto("bytes")
    /\ Found(About("diff", Differing))
    /\ left' = Present(committed)
    /\ UNCHANGED <<sources, indexed, committed, code, dev>>

(* Mutant: only LF is expected in a checkout.                              *)
SameBytes(a, b) == a = b

(* normalized_lean_bytes: a CR before an LF does not count.                *)
SameText(a, b) == a.text = b.text

(* One committed path: its file, if there is one, against its blob.  A     *)
(* lone CR in either is an error that ends the gate.                       *)
CompareBytes ==
    /\ pc = "bytes"
    /\ \E p \in left :
        IF work[p] = None
        THEN left' = left \ {p} /\ UNCHANGED <<pc, code, errors>>
        ELSE IF LoneCr \in {work[p].bytes.text, committed[p].bytes.text}
        THEN Goto("done") /\ code' = 2 /\ UNCHANGED <<left, errors>>
        ELSE /\ left' = left \ {p}
             /\ Found(About("bytes", IF SameText(work[p].bytes, committed[p].bytes)
                                     THEN {} ELSE {p}))
             /\ UNCHANGED <<pc, code>>
    /\ UNCHANGED <<sources, indexed, committed, dev>>

CodeOf(bad) == IF bad = {} THEN 0 ELSE 1

(* main compares what was found with the index, and reports.               *)
Compare ==
    /\ pc = "bytes" /\ left = {}
    /\ LET bad == errors \union About("untracked", sources \ Present(indexed))
                         \union About("absent", Present(indexed) \ sources)
       IN  /\ errors' = bad
           /\ IF bad = {} THEN Goto("native") /\ UNCHANGED code
              ELSE Goto("done") /\ code' = CodeOf(bad)
    /\ UNCHANGED <<sources, indexed, committed, left, dev>>

(* ignored_sources: git check-ignore, by exact names and then by names     *)
(* without case; what both found is reported together.                     *)
Hidden(way) == {p \in sources : way \in hidden[p]}

CheckIgnoredNative ==
    /\ pc = "native" /\ Goto("folded")
    /\ Found(About("ignored", Hidden("native")))
    /\ UNCHANGED <<sources, indexed, committed, left, code, dev>>

CheckIgnoredFolded ==
    /\ pc = "folded"
    /\ LET bad == errors \union About("ignored", Hidden("folded"))
       IN  /\ errors' = bad
           /\ IF bad = {} THEN Goto("stale") /\ UNCHANGED code
              ELSE Goto("done") /\ code' = CodeOf(bad)
    /\ UNCHANGED <<sources, indexed, committed, left, dev>>

(* stale_project_oleans, and PASS.                                         *)
CheckStale ==
    /\ pc = "stale" /\ Goto("done")
    /\ Found(About("stale", oleans \ sources))
    /\ code' = CodeOf(oleans \ sources)
    /\ UNCHANGED <<sources, indexed, committed, left, dev>>

Gate ==
    \/ Begin \/ WalkInfrastructure \/ WalkSources
    \/ ReadIndex \/ ReadHead \/ ReadFlags \/ DiffFiles \/ CompareBytes \/ Compare
    \/ CheckIgnoredNative \/ CheckIgnoredFolded \/ CheckStale

-----------------------------------------------------------------------------
(* The developer *)

Edit == pc # "done" /\ edits < regime.edits /\ edits' = edits + 1
gate == <<pc, sources, indexed, committed, left, errors, code>>

(* A file is written, replaced by a link, or deleted.                      *)
Write(p) ==
    /\ Edit
    /\ \E f \in OnDisk \union {None} : f # work[p] /\ work' = [work EXCEPT ![p] = f]
    /\ fresh' = fresh \ {p} /\ disturbed' = TRUE
    /\ UNCHANGED <<regime, head, index, closed, hidden, oleans, moved, gate>>

(* A file is saved as it is.                                               *)
Touch(p) ==
    /\ Edit /\ p \in fresh
    /\ fresh' = fresh \ {p}
    /\ UNCHANGED <<regime, head, index, work, closed, hidden, oleans, disturbed, moved, gate>>

(* git add, git add -N, git rm --cached, git update-index with a flag or a *)
(* mode, a merge that stops.                                               *)
Stage(p) ==
    /\ Edit
    /\ \/ /\ work[p] # None
          /\ index' = [index EXCEPT ![p] = Entry([bytes |-> Clean(work[p].bytes),
                                                  plain |-> ~work[p].link])]
          /\ fresh' = fresh \union {p}
       \/ /\ work[p] # None /\ index[p] = None
          /\ index' = [index EXCEPT ![p] = Entry([bytes |-> [text |-> Empty, crlf |-> FALSE],
                                                  plain |-> TRUE])]
          /\ UNCHANGED fresh
       \/ /\ index[p] # None
          /\ \/ index' = [index EXCEPT ![p] = None]
             \/ index' = [index EXCEPT ![p].flagged = ~@]
             \/ index' = [index EXCEPT ![p].plain = ~@]
             \/ index' = [index EXCEPT ![p].merged = FALSE]
          /\ fresh' = IF index'[p] = None THEN fresh \ {p} ELSE fresh
    /\ moved' = TRUE
    /\ UNCHANGED <<regime, head, work, closed, hidden, oleans, disturbed, gate>>

(* git commit takes the index.                                             *)
Commit ==
    /\ Edit /\ \A p \in Present(index) : index[p].merged
    /\ head' = [p \in Paths |-> IF index[p] = None THEN None
                                ELSE [bytes |-> index[p].bytes, plain |-> index[p].plain]]
    /\ moved' = TRUE
    /\ UNCHANGED <<regime, index, work, fresh, closed, hidden, oleans, disturbed, gate>>

(* An ignore rule is written that hides a path as it is spelled, when case *)
(* does not count, or both: a negation may take either back.               *)
Ignore(p) ==
    /\ Edit
    /\ \E ways \in {{"native"}, {"folded"}, {"native", "folded"}} :
          hidden' = [hidden EXCEPT ![p] = ways]
    /\ disturbed' = TRUE
    /\ UNCHANGED <<regime, head, index, work, fresh, closed, oleans, moved, gate>>

(* A build leaves a compiled module of every file.                         *)
Build ==
    /\ Edit
    /\ oleans' = oleans \union (Present(work) \ Infra)
    /\ disturbed' = TRUE
    /\ UNCHANGED <<regime, head, index, work, fresh, closed, hidden, moved, gate>>

(* A directory becomes a worktree, a clone or a link.                      *)
Close(p) ==
    /\ Edit /\ p \notin Roots
    /\ closed' = closed \union {DirOf[p]}
    /\ disturbed' = TRUE
    /\ UNCHANGED <<regime, head, index, work, fresh, hidden, oleans, moved, gate>>

Developer ==
    \/ \E p \in regime.paths : Write(p) \/ Touch(p) \/ Stage(p) \/ Ignore(p) \/ Close(p)
    \/ Commit \/ Build

Next == Gate \/ Developer

Spec == Init /\ [][Next]_vars

-----------------------------------------------------------------------------
(* Properties *)

TypeOK ==
    /\ regime \in Regimes
    /\ head \in Trees /\ index \in Indexes /\ work \in FileSets
    /\ fresh \subseteq Paths /\ closed \subseteq {DirOf[p] : p \in Paths}
    /\ hidden \in [Paths -> SUBSET {"native", "folded"}] /\ oleans \subseteq Paths
    /\ pc \in {"idle", "infrastructure", "sources", "stage", "head", "flags", "diff",
               "bytes", "native", "folded", "stale", "done"}
    /\ sources \subseteq Paths /\ left \subseteq Paths
    /\ indexed \in Indexes /\ committed \in Trees
    /\ \A e \in errors : e[2] \in Paths
    /\ code \in {None, 0, 1, 2}
    /\ disturbed \in BOOLEAN /\ moved \in BOOLEAN /\ edits \in 0 .. regime.edits

(* What importing a path gives here, and in a clean checkout of a tree.    *)
Here(p) ==
    IF work[p] # None THEN (IF work[p].link \/ ~Reached(p) THEN "elsewhere" ELSE work[p].bytes.text)
    ELSE IF p \in oleans THEN "stale" ELSE None
Cloned(tree, p) == IF tree[p] = None THEN None ELSE tree[p].bytes.text

(* A PASS without a write to the files, the rules or the compiled modules  *)
(* while it ran says that importing any path here gives what it gives in a *)
(* clean checkout of the commit it read, even if the index and HEAD moved; *)
(* if they did not, the index that the other gates enumerate is that       *)
(* commit.                                                                 *)
PassIsCleanCheckout ==
    code = 0 /\ ~disturbed =>
        /\ \A p \in Paths : Here(p) = Cloned(committed, p)
        /\ ~moved => head = committed /\ index = IndexOf(head)

(* Every source that passed can be reviewed: no ignore rule hides it from  *)
(* `git add`, on a file system of either kind.                             *)
PassIsNotIgnored == code = 0 /\ ~disturbed => \A p \in Present(work) : hidden[p] = {}

(* A checkout of HEAD in order: nothing else around, and nothing touched.  *)
InOrder ==
    /\ index = IndexOf(head) /\ closed = {}
    /\ Present(head) \cap (Infra \union Odd) = {} /\ Present(work) = Present(head)
    /\ \A p \in Present(head) :
        /\ head[p].plain /\ head[p].bytes.text # LoneCr /\ hidden[p] = {}
        /\ ~work[p].link /\ Clean(work[p].bytes) = head[p].bytes /\ p \in fresh
    /\ Roots \subseteq Present(head) /\ Roots # {} /\ oleans \subseteq Present(head)

(* A checkout in order passes, however Git ends its lines: no refusal is   *)
(* made up.                                                                *)
NoFalseRefusal == pc = "done" /\ ~disturbed /\ ~moved /\ InOrder => code = 0

(* What a PASS is worth.                                                   *)
PassInv == TypeOK /\ PassIsCleanCheckout /\ PassIsNotIgnored

=============================================================================
