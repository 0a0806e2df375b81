------------------------- MODULE OrphanModules -------------------------
(***************************************************************************)
(* scripts/check_orphan_modules.py: every Lean file git tracks must be     *)
(* reachable over imports from a root that lakefile.toml declares.  The    *)
(* gate takes git's list, derives the roots, walks the imports breadth     *)
(* first, one file at a time, and names for each file it did not reach the *)
(* library that should import it.                                          *)
(*                                                                         *)
(* What it lists is the index; what it reads is the working tree, which    *)
(* developers change meanwhile.  A module is the sequence of the parts of  *)
(* its name, a file the set of its imports.  The lists of the walk are     *)
(* sets here: the files of a frontier are read in any order.               *)
(*                                                                         *)
(* A definition commented "Mutant" is a bug the checks must find; no       *)
(* specification uses it.                                                  *)
(***************************************************************************)
EXTENDS Integers, Sequences, SequencesExt

CONSTANTS
    Names,      \* the modules of the project
    Lakefiles,  \* the lakefiles to start from: sequences of rows
    Graphs,     \* the import graphs to start from
    Untracked,  \* sets of files that git may not list
    MaxEdits,   \* bound: how often a file of the working tree changes
    Changing,   \* bound: the import graphs whose files change
    Gone        \* no file

(* A row of lakefile.toml: the heading of a table, a key of one, or a      *)
(* comment.  Values holds the quoted strings on the row.                   *)
Heading(table) == [head |-> table, key |-> "", values |-> <<>>]
Key(key, values) == [head |-> "", key |-> key, values |-> values]

Rows == [head : STRING, key : STRING, values : Seq(Seq(STRING))]

ASSUME OrphanAssumption ==
    /\ MaxEdits \in Nat
    /\ Names \subseteq Seq(STRING) /\ Lakefiles \subseteq Seq(Rows)
    /\ Graphs \subseteq [Names -> SUBSET Names] /\ Changing \subseteq Graphs
    /\ \A u \in Untracked : u \subseteq Names

VARIABLES
    lakefile,
    index,     \* [Names -> what the tracked file imports, as git has it]
    tree,      \* [Names -> what the file on disk imports, or Gone]
    tracked,
    edits,
    pc,        \* "list", "roots", "walk", "report", "ended"
    files,     \* the modules git listed
    roots,     \* the roots derived
    errors,    \* whether there were any
    depth,     \* [modules reached -> depth]
    frontier, nxt,
    orphans,   \* what the report names
    code

inputs == <<lakefile, index, tree, tracked, edits>>
orphanVars == <<inputs, pc, files, roots, errors, depth, frontier, nxt, orphans, code>>

-----------------------------------------------------------------------------
(* lakefile.toml                                                           *)

IsHeading(row) == row.head # ""

(* The last heading before row i is row j.                                 *)
Within(i, j) ==
    /\ j < i /\ ~IsHeading(lakefile[i])
    /\ \A k \in j + 1 .. i - 1 : ~IsHeading(lakefile[k])

(* _parse_tables: a table is the position of its heading.                  *)
Tables(table) == {j \in DOMAIN lakefile : lakefile[j].head = table}

Says(j, key) == {i \in DOMAIN lakefile : Within(i, j) /\ lakefile[i].key = key}

LastRow(is) == CHOOSE i \in is : \A k \in is : k <= i

(* What the last row of the table with this key says.                      *)
Value(j, key) == IF Says(j, key) = {} THEN <<>> ELSE lakefile[LastRow(Says(j, key))].values

LibRoots == {[module |-> m, kind |-> "lean_lib"] :
                m \in UNION {ToSet(Value(j, "roots")) : j \in Tables("lean_lib")}}

ExeRoots == {[module |-> Value(j, "root")[1], kind |-> "lean_exe"] :
                j \in {i \in Tables("lean_exe") : Value(i, "root") # <<>>}}

(* derive_build_roots                                                      *)
DerivedRoots == LibRoots \cup ExeRoots

DerivationErrors ==
    \/ \E j \in Tables("lean_lib") : Value(j, "roots") = <<>>
    \/ \E j \in Tables("lean_exe") : Value(j, "root") = <<>>
    \/ DerivedRoots = {}

-----------------------------------------------------------------------------
(* compute                                                                 *)

OrphanInit ==
    /\ lakefile \in Lakefiles
    /\ index \in Graphs /\ tree = index
    /\ \E u \in Untracked : tracked = Names \ u
    /\ edits = 0
    /\ pc = "list" /\ files = {} /\ roots = {} /\ errors = FALSE
    /\ depth = [m \in {} |-> 0] /\ frontier = {} /\ nxt = {} /\ orphans = {} /\ code = 0

(* git ls-files; a failure of git is exit code 1.                          *)
ListTracked ==
    /\ pc = "list"
    /\ \/ files' = tracked /\ pc' = "roots" /\ UNCHANGED code
       \/ code' = 1 /\ pc' = "ended" /\ UNCHANGED files
    /\ UNCHANGED <<inputs, roots, errors, depth, frontier, nxt, orphans>>

MissingRoots(rs) == \E r \in rs : r.module \notin files

(* A root two targets declare is read once; reading it again would add     *)
(* only what an edit in between added.                                     *)
DeriveRoots ==
    /\ pc = "roots"
    /\ roots' = DerivedRoots
    /\ errors' = (DerivationErrors \/ MissingRoots(DerivedRoots))
    /\ frontier' = {r.module : r \in DerivedRoots} \cap files
    /\ depth' = [m \in frontier' |-> 0]
    /\ pc' = "walk"
    /\ UNCHANGED <<inputs, files, nxt, orphans, code>>

(* What reading the imports of a module adds to the walk.                  *)
Discovered(m) == {i \in tree[m] : i \in files /\ i \notin DOMAIN depth}

(* Mutant: every module found is one deeper than the roots.                *)
FlatDepth(m) == 1

DepthBelow(m) == depth[m] + 1

ReadImports(m) ==
    /\ pc = "walk" /\ m \in frontier /\ tree[m] # Gone
    /\ depth' = [i \in DOMAIN depth \cup Discovered(m) |->
                    IF i \in DOMAIN depth THEN depth[i] ELSE DepthBelow(m)]
    /\ nxt' = nxt \cup Discovered(m)
    /\ frontier' = frontier \ {m}
    /\ UNCHANGED <<inputs, pc, files, roots, errors, orphans, code>>

(* A tracked file that is not there raises: exit code 1.                   *)
ReadRaises(m) ==
    /\ pc = "walk" /\ m \in frontier /\ tree[m] = Gone
    /\ code' = 1 /\ pc' = "ended"
    /\ UNCHANGED <<inputs, files, roots, errors, depth, frontier, nxt, orphans>>

NextFrontier ==
    /\ pc = "walk" /\ frontier = {}
    /\ pc' = IF nxt = {} THEN "report" ELSE "walk"
    /\ frontier' = nxt /\ nxt' = {}
    /\ UNCHANGED <<inputs, files, roots, errors, depth, orphans, code>>

LibraryPrefixes(m) == {r.module : r \in {x \in roots : x.kind = "lean_lib" /\ IsPrefix(x.module, m)}}

Longest(names) == CHOOSE p \in names : \A q \in names : Len(q) <= Len(p)

(* _owning_library: the longest prefix.                                    *)
OwningLibrary(m) == IF LibraryPrefixes(m) = {} THEN <<>> ELSE Longest(LibraryPrefixes(m))

(* Mutant: errors of the lakefile are reported but do not fail the gate.   *)
CodeOfOrphans(found, failed) == IF found # {} THEN 1 ELSE 0

ResultExitCode(found, failed) == IF found # {} \/ failed THEN 1 ELSE 0

Report ==
    /\ pc = "report"
    /\ orphans' = {[module |-> m, owner |-> OwningLibrary(m)] : m \in files \ DOMAIN depth}
    /\ code' = ResultExitCode(orphans', errors)
    /\ pc' = "ended"
    /\ UNCHANGED <<inputs, files, roots, errors, depth, frontier, nxt>>

(* A developer saves or removes a file; git does not know yet.             *)
Edit(m) ==
    /\ edits < MaxEdits /\ index \in Changing /\ pc # "ended"
    /\ edits' = edits + 1
    /\ \E new \in SUBSET Names \cup {Gone} : tree' = [tree EXCEPT ![m] = new]
    /\ UNCHANGED <<lakefile, index, tracked, pc, files, roots, errors, depth, frontier, nxt,
                   orphans, code>>

OrphanTerminated == pc = "ended" /\ UNCHANGED orphanVars

OrphanNext ==
    \/ ListTracked \/ DeriveRoots \/ NextFrontier \/ Report
    \/ \E m \in Names : ReadImports(m) \/ ReadRaises(m) \/ Edit(m)
    \/ OrphanTerminated

OrphanSpec == OrphanInit /\ [][OrphanNext]_orphanVars

-----------------------------------------------------------------------------
(* Properties                                                              *)

OrphanTypeOK ==
    /\ index \in [Names -> SUBSET Names]
    /\ tree \in [Names -> SUBSET Names \cup {Gone}]
    /\ tracked \subseteq Names /\ files \subseteq Names /\ edits \in 0 .. MaxEdits
    /\ depth \in [DOMAIN depth -> Nat] /\ DOMAIN depth \subseteq files
    /\ frontier \cup nxt \subseteq DOMAIN depth
    /\ \A m \in nxt : \A k \in frontier : depth[m] = depth[k] + 1
    /\ code \in 0 .. 1

DeclaredModules == {r.module : r \in DerivedRoots} \cap tracked

(* Reference: a path of n imports leads from a root to m, through files    *)
(* git lists.                                                              *)
Path(graph, n, m) ==
    \E p \in [0 .. n -> Names] :
        /\ p[0] \in DeclaredModules /\ p[n] = m
        /\ \A i \in 1 .. n : p[i] \in graph[p[i - 1]] \cap tracked

(* Reference: what every set has that has the roots and what it imports.   *)
Reachable(graph) ==
    {m \in Names :
        \A set \in SUBSET Names :
            /\ DeclaredModules \subseteq set
            /\ \A x \in set : graph[x] \cap tracked \subseteq set
            => m \in set}

Walked == pc = "report" \/ (pc = "ended" /\ frontier = {} /\ files # {})

(* In a tree that holds still, the walk reaches exactly what can be        *)
(* reached, at its distance from the nearest root.                         *)
WalkIsReachability ==
    edits = 0 /\ Walked =>
        /\ DOMAIN depth = Reachable(tree)
        /\ \A m \in DOMAIN depth : /\ Path(tree, depth[m], m)
                                   /\ \A n \in 0 .. depth[m] - 1 : ~Path(tree, n, m)

Green == pc = "ended" /\ code = 0

(* Without edits, green is never vacuous: every target of the lakefile has *)
(* a root git lists, and every file it lists is built.                     *)
GreenIsNotVacuous ==
    edits = 0 /\ Green =>
        /\ tracked \subseteq Reachable(index)
        /\ \A j \in Tables("lean_lib") \cup Tables("lean_exe") :
              \E i \in DOMAIN lakefile :
                  /\ Within(i, j) /\ lakefile[i].values # <<>>
                  /\ lakefile[i].values[1] \in tracked

(* If the only complaint is orphans, adding the import lines the report    *)
(* asks for makes every file that has a library reachable.                 *)
Fixed ==
    [m \in Names |-> tree[m] \cup {o.module : o \in {p \in orphans : p.owner = m}}]

FixSuffices ==
    edits = 0 /\ pc = "ended" /\ ~errors =>
        \A o \in orphans : o.owner # <<>> => o.module \in Reachable(Fixed)

(* The walk is right, and so is what the report asks for.                  *)
WalkInv == OrphanTypeOK /\ WalkIsReachability /\ FixSuffices

=============================================================================
