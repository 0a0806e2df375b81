------------------------ MODULE SourceAuthorityProofs ------------------------
(***************************************************************************)
(* Theorems about SourceAuthority, for every set of paths and texts, every *)
(* layout of directories, every set of roots and any number of steps of a  *)
(* developer.                                                              *)
(*                                                                         *)
(* A PASS is worth what its readings were worth when they were made.  The  *)
(* gate goes on in one direction, so what a reading established is stated  *)
(* for all later places, as long as nothing was found wrong (Clear):       *)
(* Recorded relates what the gate has read to each other, whatever happens *)
(* around it; Files relates it to the files as long as nobody wrote them,  *)
(* Commits to the index and HEAD as long as these did not move.  Peace     *)
(* says that a checkout in order gives no reason for a complaint.          *)
(***************************************************************************)
EXTENDS SourceAuthority, TLAPS

(* The places behind a step of the gate that found nothing wrong.          *)
BehindFolded == {"stale"}
BehindNative == {"folded"} \union BehindFolded
BehindCompare == {"native"} \union BehindNative
BehindDiff == {"bytes"} \union BehindCompare
BehindFlags == {"diff"} \union BehindDiff
BehindHead == {"flags"} \union BehindFlags
BehindStage == {"head"} \union BehindHead
BehindSources == {"stage"} \union BehindStage
BehindInfrastructure == {"sources"} \union BehindSources

(* The gate is at one of the places, or has passed, without an error.      *)
Clear(places) == errors = {} /\ (pc \in places \/ code = 0)

(* The exit code is there at the end, and 0 only without an error.         *)
Reported ==
    /\ pc # "done" <=> code = None
    /\ code = 0 => errors = {}
    /\ pc \in {"idle", "native", "stale"} => errors = {}

(* The index that was read is merged, of plain files, and the commit that  *)
(* was read; the sources are what it names.                                *)
Recorded ==
    /\ Clear(BehindStage) => \A p \in Present(indexed) : indexed[p].merged /\ indexed[p].plain
    /\ Clear(BehindHead) =>
          /\ Present(indexed) = Present(committed)
          /\ \A p \in Present(indexed) : ~EntryDiffers(indexed[p], committed[p])
    /\ Clear(BehindCompare) => sources = Present(indexed) /\ left = {}

(* What was found of the files is so still.                                *)
Files ==
    ~disturbed =>
        /\ Clear(BehindInfrastructure) => \A p \in Present(work) \cap Infra : ~Reached(p)
        /\ Clear(BehindSources) =>
              /\ sources = Present(work)
              /\ \A p \in Present(work) : Reached(p) /\ ~work[p].link
        /\ Clear(BehindDiff) =>
              \A p \in Present(committed) \cap Present(work) :
                  p \in left \/ SameText(work[p].bytes, committed[p].bytes)
        /\ Clear(BehindNative) => Hidden("native") = {}
        /\ Clear(BehindFolded) => Hidden("folded") = {}
        /\ code = 0 => oleans \subseteq sources

(* What was found of the index and HEAD is so still.                       *)
Commits ==
    ~moved =>
        /\ Clear(BehindStage) => indexed = index
        /\ Clear(BehindHead) => committed = head
        /\ Clear(BehindFlags) => \A p \in Present(index) : ~index[p].flagged

(* In a checkout in order nothing is found wrong.                          *)
Peace ==
    ~disturbed /\ ~moved /\ InOrder =>
        /\ errors = {} /\ code \in {None, 0}
        /\ pc \in BehindSources => sources = Present(work)
        /\ pc \in BehindStage => indexed = index
        /\ pc \in BehindHead => committed = head

SourceInv == TypeOK /\ Reported /\ Recorded /\ Files /\ Commits /\ Peace

USE DEF BehindFolded, BehindNative, BehindCompare, BehindDiff, BehindFlags, BehindHead,
        BehindStage, BehindSources, BehindInfrastructure

-----------------------------------------------------------------------------
(* Operators                                                               *)

LEMMA AboutEmpty == \A kind, paths : About(kind, paths) = {} <=> paths = {}
BY DEF About

LEMMA AboutPaths ==
    ASSUME NEW kind, NEW paths \in SUBSET Paths
    PROVE  \A e \in About(kind, paths) : e[2] \in Paths
BY DEF About

LEMMA PresentPaths == \A tree : Present(tree) \subseteq Paths
BY DEF Present

(* What there is of a present path is a record of its kind.                *)
LEMMA PresentTypes ==
    ASSUME TypeOK
    PROVE  /\ \A p \in Present(work) : work[p] \in OnDisk
           /\ \A p \in Present(index) : index[p] \in Entries
           /\ \A p \in Present(head) : head[p] \in Blobs
           /\ \A p \in Present(indexed) : indexed[p] \in Entries
           /\ \A p \in Present(committed) : committed[p] \in Blobs
BY DEF Present, TypeOK, Trees, Indexes, FileSets

(* What Git does to a file leaves its text.                                *)
LEMMA LineEnds ==
    ASSUME NEW b \in Bytes, NEW ends \in BOOLEAN
    PROVE  LET c == [b EXCEPT !.crlf = ends] IN c \in Bytes /\ c.text = b.text
BY DEF Bytes

LEMMA CleanType ==
    ASSUME regime \in Regimes, NEW b \in Bytes
    PROVE  /\ Clean(b) \in Bytes /\ Clean(b).text = b.text
           /\ Smudge(b) \in Bytes /\ Smudge(b).text = b.text
<1>1. regime.crlf \in BOOLEAN /\ b.crlf \in BOOLEAN
  BY SourceAssumption DEF Bytes
<1>2. PICK e \in BOOLEAN : e = IF regime.crlf THEN FALSE ELSE b.crlf
  BY <1>1
<1>3. PICK d \in BOOLEAN : d = (b.crlf \/ regime.crlf)
  OBVIOUS
<1>4. Clean(b) = [b EXCEPT !.crlf = e] /\ Smudge(b) = [b EXCEPT !.crlf = d]
  BY <1>2, <1>3, Zenon DEF Clean, Smudge
<1> QED BY <1>4, LineEnds

LEMMA EntryType == ASSUME NEW e \in Blobs PROVE Entry(e) \in Entries
BY DEF Entry, Blobs, Entries

(* The index of a tree.                                                    *)
LEMMA IndexOfTree ==
    ASSUME NEW tree \in Trees
    PROVE  /\ IndexOf(tree) \in Indexes
           /\ Present(IndexOf(tree)) = Present(tree)
           /\ \A p \in Present(tree) : IndexOf(tree)[p] = Entry(tree[p])
<1>1. \A p \in Paths : tree[p] # None => tree[p] \in Blobs /\ Entry(tree[p]) \in Entries
  BY EntryType DEF Trees
<1>2. \A p \in Paths : tree[p] # None => Entry(tree[p]) # None
  BY <1>1, SourceAssumption
<1> QED BY <1>1, <1>2 DEF IndexOf, Present, Indexes

(* An index that names the paths of a tree, each merged, plain, unflagged  *)
(* and of the bytes of the tree, is the index of the tree.                 *)
LEMMA IndexIsOfTree ==
    ASSUME NEW tree \in Trees, NEW entries \in Indexes, Present(entries) = Present(tree),
           \A p \in Present(entries) :
              /\ entries[p].merged /\ entries[p].plain /\ ~entries[p].flagged
              /\ ~EntryDiffers(entries[p], tree[p])
    PROVE  entries = IndexOf(tree)
<1>1. ASSUME NEW p \in Paths PROVE entries[p] = IndexOf(tree)[p]
  <2>1. CASE tree[p] = None
    BY <2>1 DEF IndexOf, Present
  <2>2. CASE tree[p] # None
    <3>1. entries[p] \in Entries /\ p \in Present(entries)
      BY <2>2 DEF Present, Indexes
    <3>2. entries[p] = [bytes |-> entries[p].bytes, plain |-> entries[p].plain,
                        merged |-> entries[p].merged, flagged |-> entries[p].flagged]
      BY <3>1 DEF Entries
    <3>3. entries[p].plain = TRUE /\ tree[p].plain = TRUE /\ entries[p].merged = TRUE /\ entries[p].flagged = FALSE
          /\ entries[p].bytes = tree[p].bytes
      BY <3>1 DEF Entries, EntryDiffers
    <3> QED BY <2>2, <3>2, <3>3 DEF IndexOf, Entry
  <2> QED BY <2>1, <2>2
<1>2. IndexOf(tree) \in [Paths -> Entries \union {None}]
  BY IndexOfTree DEF Indexes
<1> QED BY <1>1, <1>2 DEF Indexes

(* The order of a checkout is a matter of what the developer has.          *)
LEMMA SameOrder ==
    ASSUME UNCHANGED <<regime, head, index, work, fresh, closed, hidden, oleans>>
    PROVE  InOrder' <=> InOrder
BY DEF InOrder, IndexOf, Present, Clean, Entry

(* What a checkout in order is like.                                       *)
LEMMA Ordered ==
    ASSUME TypeOK, InOrder
    PROVE  /\ Roots # {} /\ \A p \in Paths : Reached(p)
           /\ Present(index) = Present(head) /\ Present(work) = Present(head)
           /\ Present(head) \cap Infra = {} /\ Present(head) \cap Odd = {}
           /\ \A p \in Present(head) :
                 /\ index[p].merged /\ index[p].plain /\ ~index[p].flagged
                 /\ ~EntryDiffers(index[p], head[p])
                 /\ work[p].bytes.text = head[p].bytes.text /\ head[p].bytes.text # LoneCr
                 /\ ~work[p].link /\ hidden[p] = {} /\ p \in fresh
           /\ oleans \subseteq Present(head) /\ Roots \subseteq Present(head)
<1>1. head \in Trees
  BY DEF TypeOK
<1>2. \A p \in Paths : Reached(p)
  BY DEF InOrder, Reached
<1>3. Present(index) = Present(head)
  BY <1>1, IndexOfTree DEF InOrder
<1>5. ASSUME NEW p \in Present(head)
      PROVE  /\ index[p].merged /\ index[p].plain /\ ~index[p].flagged
             /\ ~EntryDiffers(index[p], head[p])
  <2>1. index[p] = Entry(head[p]) /\ head[p].plain
    BY <1>1, IndexOfTree DEF InOrder
  <2> QED BY <2>1 DEF Entry, EntryDiffers
<1>4. ASSUME NEW p \in Present(head) PROVE work[p].bytes.text = head[p].bytes.text
  <2>1. work[p] \in OnDisk /\ Clean(work[p].bytes) = head[p].bytes
    BY PresentTypes DEF InOrder
  <2>2. regime \in Regimes /\ work[p].bytes \in Bytes
    BY <2>1 DEF TypeOK, OnDisk
  <2> QED BY <2>1, <2>2, CleanType
<1> QED BY <1>2, <1>3, <1>4, <1>5 DEF InOrder

-----------------------------------------------------------------------------
(* The first state                                                         *)

LEMMA SourceInit == Init => SourceInv
<1> SUFFICES ASSUME Init PROVE SourceInv
  OBVIOUS
<1>0. /\ regime \in Regimes /\ index = IndexOf(head) /\ work = FilesOf(head)
      /\ fresh = Present(work)
      /\ closed = {} /\ hidden = [p \in Paths |-> {}] /\ oleans = {}
      /\ pc = "idle" /\ sources = {} /\ left = {} /\ errors = {} /\ code = None
      /\ indexed = [p \in Paths |-> None] /\ committed = [p \in Paths |-> None]
      /\ disturbed = FALSE /\ moved = FALSE /\ edits = 0
  BY DEF Init
<1>1. head \in Trees
  <2>1. PICK R \in SUBSET (regime.paths \ (Infra \union Odd)), t \in Texts :
           head = [p \in Paths |-> IF p \in R THEN [bytes |-> [text |-> t, crlf |-> FALSE],
                                                    plain |-> TRUE] ELSE None]
    BY DEF Init
  <2>2. [bytes |-> [text |-> t, crlf |-> FALSE], plain |-> TRUE] \in Blobs
    BY DEF Blobs, Bytes
  <2> QED BY <2>1, <2>2 DEF Trees
<1>2. index \in Indexes
  BY <1>0, <1>1, IndexOfTree
<1>3. work \in FileSets
  <2>1. ASSUME NEW p \in Paths, head[p] # None PROVE File(Smudge(head[p].bytes)) \in OnDisk
    <3>1. head[p].bytes \in Bytes
      BY <1>1, <2>1 DEF Trees, Blobs
    <3>2. Smudge(head[p].bytes) \in Bytes
      BY <1>0, <3>1, CleanType
    <3> QED BY <3>2 DEF File, OnDisk
  <2> QED BY <1>0, <2>1 DEF FilesOf, FileSets
<1>4. indexed \in Indexes /\ committed \in Trees
  BY <1>0 DEF Indexes, Trees
<1>5. regime.edits \in Nat
  BY <1>0, SourceAssumption
<1>6. TypeOK
  <2>1. fresh \subseteq Paths /\ closed \subseteq {DirOf[p] : p \in Paths}
        /\ hidden \in [Paths -> SUBSET {"native", "folded"}] /\ edits \in 0 .. regime.edits
    BY <1>0, <1>5, PresentPaths
  <2> QED BY <1>0, <1>1, <1>2, <1>3, <1>4, <2>1 DEF TypeOK
<1>7. code # 0 /\ pc \notin BehindInfrastructure
  BY <1>0, SourceAssumption
<1>8. Reported /\ Recorded /\ Files /\ Commits /\ Peace
  BY <1>0, <1>7, SourceAssumption DEF Reported, Recorded, Files, Commits, Peace, Clear
<1> QED BY <1>6, <1>8 DEF SourceInv


-----------------------------------------------------------------------------
(* The gate                                                                *)

(* What no step of the gate but the first changes.                         *)
Frame == UNCHANGED dev

LEMMA FrameFacts ==
    ASSUME Frame
    PROVE  /\ InOrder' <=> InOrder
           /\ UNCHANGED <<regime, head, index, work, fresh, closed, hidden, oleans, edits>>
           /\ UNCHANGED <<disturbed, moved>>
<1>1. UNCHANGED <<regime, head, index, work, fresh, closed, hidden, oleans>>
  BY DEF Frame, dev
<1> QED BY <1>1, SameOrder DEF Frame, dev

(* Until the gate has its exit code, it is at one of its places.           *)
LEMMA AtPlace ==
    ASSUME SourceInv, pc # "done"
    PROVE  code = None /\ code # 0
BY SourceAssumption DEF SourceInv, Reported

LEMMA BeginInv == ASSUME SourceInv, Begin PROVE SourceInv'
<1>1. /\ pc = "idle" /\ disturbed' = FALSE /\ moved' = FALSE /\ errors = {} /\ code = None
      /\ UNCHANGED <<regime, head, index, work, fresh, closed, hidden, oleans, edits,
                     sources, indexed, committed, left, errors>>
      /\ \/ Roots = {} /\ pc' = "done" /\ code' = 2
         \/ Roots # {} /\ pc' = "infrastructure" /\ code' = None
  BY SourceAssumption DEF Begin, Goto, found, SourceInv, Reported
<1>2. TypeOK'
  BY <1>1 DEF SourceInv, TypeOK
<1>3. ~Clear(BehindInfrastructure)' /\ code' # 0
  BY <1>1, SourceAssumption DEF Clear
<1>4. Reported' /\ Recorded' /\ Files' /\ Commits'
  BY <1>1, <1>3, SourceAssumption DEF Reported, Recorded, Files, Commits, Clear
<1>5. Peace'
  <2>1. InOrder' => Roots # {}
    BY DEF InOrder
  <2> QED BY <1>1, <2>1 DEF Peace
<1> QED BY <1>2, <1>4, <1>5 DEF SourceInv

LEMMA WalkInfrastructureInv == ASSUME SourceInv, WalkInfrastructure PROVE SourceInv'
<1>1. /\ pc = "infrastructure" /\ pc' = "sources"
      /\ errors' = errors \union InfrastructureErrors \union About("root", {r \in Roots : work[r] = None})
      /\ UNCHANGED <<sources, indexed, committed, left, code>> /\ Frame
  BY DEF WalkInfrastructure, Goto, Found, Frame
<1>2. code = None /\ code' = None /\ code' # 0 /\ Frame
  BY <1>1, AtPlace
<1>f. /\ InOrder' <=> InOrder
      /\ UNCHANGED <<regime, head, index, work, fresh, closed, hidden, oleans, edits>>
      /\ UNCHANGED <<disturbed, moved>>
  BY <1>2, FrameFacts
<1> DEFINE bad == {p \in Present(work) \cap Infra : Reached(p)}
           gone == {r \in Roots : work[r] = None}
<1>3. /\ bad \in SUBSET Paths /\ gone \in SUBSET Paths
      /\ errors' = errors \union About("infrastructure", bad) \union About("root", gone)
      /\ errors' = {} <=> errors = {} /\ bad = {} /\ gone = {}
  <2>1. bad \in SUBSET Paths /\ gone \in SUBSET Paths
    BY SourceAssumption, PresentPaths
  <2>2. InfrastructureErrors = About("infrastructure", bad)
    BY DEF InfrastructureErrors
  <2>3. About("infrastructure", bad) = {} <=> bad = {}
    BY AboutEmpty, Zenon
  <2>4. About("root", gone) = {} <=> gone = {}
    BY AboutEmpty, Zenon
  <2>5. errors' = errors \union About("infrastructure", bad) \union About("root", gone)
    BY <1>1, <2>2
  <2> HIDE DEF bad, gone
  <2> QED BY <2>1, <2>3, <2>4, <2>5
<1>4. TypeOK'
  <2>1. \A e \in errors' : e[2] \in Paths
    BY <1>3, AboutPaths DEF SourceInv, TypeOK
  <2> QED BY <1>1, <1>f, <2>1 DEF SourceInv, TypeOK
<1>5. Reported' /\ Recorded' /\ Commits'
  BY <1>1, <1>2 DEF Reported, Recorded, Commits, Clear
<1>6. Files'
  <2>1. Clear(BehindInfrastructure)' => \A p \in Present(work) \cap Infra : ~Reached(p)
    BY <1>3 DEF Clear
  <2>2. (\A p \in Present(work) \cap Infra : ~Reached(p))
         => (\A p \in Present(work) \cap Infra : ~Reached(p))'
    BY <1>f DEF Present, Reached
  <2> QED BY <1>1, <1>2, <2>1, <2>2 DEF Files, Clear
<1>7. Peace'
  <2> SUFFICES ASSUME ~disturbed, ~moved, InOrder PROVE errors' = {}
    BY <1>1, <1>2, <1>f DEF Peace
  <2>1. errors = {} /\ bad = {} /\ gone = {}
    BY Ordered DEF SourceInv, Peace, Present
  <2> QED BY <1>3, <2>1
<1> QED BY <1>4, <1>5, <1>6, <1>7 DEF SourceInv


LEMMA WalkSourcesInv == ASSUME SourceInv, WalkSources PROVE SourceInv'
<1> DEFINE reached == {p \in Present(work) \ Infra : Reached(p)}
           shut == {p \in Paths : ~Reached(p)}
           odd == reached \cap Odd
           links == {p \in reached \ Odd : work[p].link}
<1>1. /\ pc = "sources" /\ pc' = "stage"
      /\ sources' = {p \in reached \ Odd : ~work[p].link}
      /\ errors' = errors \union (About("boundary", shut) \union About("casing", odd)
                                  \union About("link", links))
      /\ UNCHANGED <<indexed, committed, left, code>> /\ Frame
  BY DEF WalkSources, Goto, Found, Frame
<1>2. code = None /\ code' = None /\ code' # 0 /\ Frame
  BY <1>1, AtPlace
<1>f. /\ InOrder' <=> InOrder
      /\ UNCHANGED <<regime, head, index, work, fresh, closed, hidden, oleans, edits>>
      /\ UNCHANGED <<disturbed, moved>>
  BY <1>2, FrameFacts
<1>3. /\ shut \in SUBSET Paths /\ odd \in SUBSET Paths /\ links \in SUBSET Paths
      /\ errors' = {} <=> errors = {} /\ shut = {} /\ odd = {} /\ links = {}
  <2>1. shut \in SUBSET Paths /\ odd \in SUBSET Paths /\ links \in SUBSET Paths
    BY PresentPaths
  <2>2. /\ About("boundary", shut) = {} <=> shut = {}
        /\ About("casing", odd) = {} <=> odd = {}
        /\ About("link", links) = {} <=> links = {}
    BY AboutEmpty, Zenon
  <2>3. errors' = errors \union (About("boundary", shut) \union About("casing", odd)
                                 \union About("link", links))
    BY <1>1
  <2> HIDE DEF shut, odd, links
  <2> QED BY <2>1, <2>2, <2>3
<1>4. TypeOK'
  <2>1. \A e \in errors' : e[2] \in Paths
    <3>1. /\ \A e \in About("boundary", shut) : e[2] \in Paths
          /\ \A e \in About("casing", odd) : e[2] \in Paths
          /\ \A e \in About("link", links) : e[2] \in Paths
      BY <1>3, AboutPaths
    <3> QED BY <1>1, <3>1 DEF SourceInv, TypeOK
  <2>2. sources' \subseteq Paths
    BY <1>1, PresentPaths
  <2> QED BY <1>1, <1>f, <2>1, <2>2 DEF SourceInv, TypeOK
<1>5. Reported' /\ Recorded' /\ Commits'
  BY <1>1, <1>2 DEF Reported, Recorded, Commits, Clear
<1>6. Files'
  <2> SUFFICES ASSUME ~disturbed, errors' = {}
               PROVE  /\ sources' = Present(work)
                      /\ \A p \in Present(work) : Reached(p) /\ ~work[p].link
                      /\ Present(work) \cap Infra = {}
    <3>1. Present(work)' = Present(work) /\ (\A p \in Paths : Reached(p)' <=> Reached(p))
      BY <1>f DEF Present, Reached
    <3> QED BY <1>1, <1>2, <1>f, <3>1, PresentPaths DEF Files, Clear
  <2>1. errors = {} /\ shut = {} /\ odd = {} /\ links = {}
    BY <1>3
  <2>2. \A p \in Present(work) \cap Infra : ~Reached(p)
    BY <1>1, <2>1, ~disturbed DEF SourceInv, Files, Clear
  <2>3. \A p \in Present(work) : Reached(p) /\ p \notin Infra
    BY <2>1, <2>2, PresentPaths
  <2>4. \A p \in Present(work) : p \notin Odd /\ ~work[p].link
    BY <2>1, <2>3
  <2> QED BY <1>1, <2>3, <2>4
<1>7. Peace'
  <2> SUFFICES ASSUME ~disturbed, ~moved, InOrder
               PROVE  errors' = {} /\ sources' = Present(work)
    BY <1>1, <1>2, <1>f DEF Peace, Present
  <2>1. errors = {} /\ shut = {} /\ odd = {} /\ links = {}
    BY Ordered DEF SourceInv, Peace
  <2>2. reached = Present(work)
    BY Ordered, PresentPaths DEF SourceInv
  <2> QED BY <1>1, <1>3, <2>1, <2>2
<1> QED BY <1>4, <1>5, <1>6, <1>7 DEF SourceInv

LEMMA ReadIndexInv == ASSUME SourceInv, ReadIndex PROVE SourceInv'
<1> DEFINE odd == Present(index) \cap Odd
           unmerged == {p \in Present(index) : ~index[p].merged}
           modes == {p \in Present(index) : ~index[p].plain}
<1>1. /\ pc = "stage" /\ pc' = "head" /\ indexed' = index
      /\ errors' = errors \union (About("casing", odd) \union About("unmerged", unmerged)
                                  \union About("mode", modes))
      /\ UNCHANGED <<sources, committed, left, code>> /\ Frame
  BY DEF ReadIndex, Goto, Found, Frame
<1>2. code = None /\ code' = None /\ code' # 0 /\ Frame
  BY <1>1, AtPlace
<1>f. /\ InOrder' <=> InOrder
      /\ UNCHANGED <<regime, head, index, work, fresh, closed, hidden, oleans, edits>>
      /\ UNCHANGED <<disturbed, moved>>
  BY <1>2, FrameFacts
<1>3. /\ odd \in SUBSET Paths /\ unmerged \in SUBSET Paths /\ modes \in SUBSET Paths
      /\ errors' = {} <=> errors = {} /\ odd = {} /\ unmerged = {} /\ modes = {}
  <2>1. odd \in SUBSET Paths /\ unmerged \in SUBSET Paths /\ modes \in SUBSET Paths
    BY PresentPaths
  <2>2. /\ About("casing", odd) = {} <=> odd = {}
        /\ About("unmerged", unmerged) = {} <=> unmerged = {}
        /\ About("mode", modes) = {} <=> modes = {}
    BY AboutEmpty, Zenon
  <2>3. errors' = errors \union (About("casing", odd) \union About("unmerged", unmerged)
                                 \union About("mode", modes))
    BY <1>1
  <2> HIDE DEF odd, unmerged, modes
  <2> QED BY <2>1, <2>2, <2>3
<1>4. TypeOK'
  <2>1. \A e \in errors' : e[2] \in Paths
    <3>1. /\ \A e \in About("casing", odd) : e[2] \in Paths
          /\ \A e \in About("unmerged", unmerged) : e[2] \in Paths
          /\ \A e \in About("mode", modes) : e[2] \in Paths
      BY <1>3, AboutPaths
    <3> QED BY <1>1, <3>1 DEF SourceInv, TypeOK
  <2> QED BY <1>1, <1>f, <2>1 DEF SourceInv, TypeOK
<1>5. Reported' /\ Files'
  BY <1>1, <1>2, <1>3, <1>f DEF SourceInv, Reported, Files, Clear, Present, Reached
<1>6. Recorded' /\ Commits'
  BY <1>1, <1>2, <1>3, <1>f DEF Recorded, Commits, Clear, Present
<1>7. Peace'
  <2> SUFFICES ASSUME ~disturbed, ~moved, InOrder
               PROVE  errors' = {} /\ sources = Present(work)
    BY <1>1, <1>2, <1>f DEF Peace, Present
  <2>1. errors = {} /\ sources = Present(work)
    BY <1>1 DEF SourceInv, Peace
  <2>2. odd = {} /\ unmerged = {} /\ modes = {}
    BY Ordered DEF SourceInv
  <2> QED BY <1>3, <2>1, <2>2
<1> QED BY <1>4, <1>5, <1>6, <1>7 DEF SourceInv


LEMMA ReadHeadInv == ASSUME SourceInv, ReadHead PROVE SourceInv'
<1> DEFINE both == Present(indexed) \cap Present(head)
           staged == Present(indexed) \ Present(head)
           unindexed == Present(head) \ Present(indexed)
           differ == {p \in both : EntryDiffers(indexed[p], head[p])}
<1>1. /\ pc = "head" /\ pc' = "flags" /\ committed' = head
      /\ errors' = errors \union (About("staged", staged) \union About("unindexed", unindexed)
                                  \union About("differs", differ))
      /\ UNCHANGED <<sources, indexed, left, code>> /\ Frame
  BY DEF ReadHead, Goto, Found, Frame
<1>2. code = None /\ code' = None /\ code' # 0 /\ Frame
  BY <1>1, AtPlace
<1>f. /\ InOrder' <=> InOrder
      /\ UNCHANGED <<regime, head, index, work, fresh, closed, hidden, oleans, edits>>
      /\ UNCHANGED <<disturbed, moved>>
  BY <1>2, FrameFacts
<1>3. /\ staged \in SUBSET Paths /\ unindexed \in SUBSET Paths /\ differ \in SUBSET Paths
      /\ errors' = {} <=> errors = {} /\ staged = {} /\ unindexed = {} /\ differ = {}
  <2>1. staged \in SUBSET Paths /\ unindexed \in SUBSET Paths /\ differ \in SUBSET Paths
    BY PresentPaths
  <2>2. /\ About("staged", staged) = {} <=> staged = {}
        /\ About("unindexed", unindexed) = {} <=> unindexed = {}
        /\ About("differs", differ) = {} <=> differ = {}
    BY AboutEmpty, Zenon
  <2>3. errors' = errors \union (About("staged", staged) \union About("unindexed", unindexed)
                                 \union About("differs", differ))
    BY <1>1
  <2> HIDE DEF staged, unindexed, differ
  <2> QED BY <2>1, <2>2, <2>3
<1>4. TypeOK'
  <2>1. \A e \in errors' : e[2] \in Paths
    <3>1. /\ \A e \in About("staged", staged) : e[2] \in Paths
          /\ \A e \in About("unindexed", unindexed) : e[2] \in Paths
          /\ \A e \in About("differs", differ) : e[2] \in Paths
      BY <1>3, AboutPaths
    <3> QED BY <1>1, <3>1 DEF SourceInv, TypeOK
  <2> QED BY <1>1, <1>f, <2>1 DEF SourceInv, TypeOK
<1>5. Reported' /\ Files' /\ Commits'
  BY <1>1, <1>2, <1>3, <1>f DEF SourceInv, Reported, Files, Commits, Clear, Present, Reached
<1>6. Recorded'
  BY <1>1, <1>2, <1>3 DEF SourceInv, Recorded, Clear, Present
<1>7. Peace'
  <2> SUFFICES ASSUME ~disturbed, ~moved, InOrder
               PROVE  errors' = {} /\ sources = Present(work) /\ indexed = index
    BY <1>1, <1>2, <1>f DEF Peace, Present
  <2>1. errors = {} /\ sources = Present(work) /\ indexed = index
    BY <1>1 DEF SourceInv, Peace
  <2>2. staged = {} /\ unindexed = {} /\ differ = {}
    BY <2>1, Ordered DEF SourceInv
  <2> QED BY <1>3, <2>1, <2>2
<1> QED BY <1>4, <1>5, <1>6, <1>7 DEF SourceInv

LEMMA ReadFlagsInv == ASSUME SourceInv, ReadFlags PROVE SourceInv'
<1> DEFINE flags == {p \in Present(index) : index[p].flagged \/ ~index[p].merged}
<1>1. /\ pc = "flags" /\ pc' = "diff" /\ errors' = errors \union About("flag", flags)
      /\ UNCHANGED <<sources, indexed, committed, left, code>> /\ Frame
  BY DEF ReadFlags, Goto, Found, Frame
<1>2. code = None /\ code' = None /\ code' # 0 /\ Frame
  BY <1>1, AtPlace
<1>f. /\ InOrder' <=> InOrder
      /\ UNCHANGED <<regime, head, index, work, fresh, closed, hidden, oleans, edits>>
      /\ UNCHANGED <<disturbed, moved>>
  BY <1>2, FrameFacts
<1>3. flags \in SUBSET Paths /\ (errors' = {} <=> errors = {} /\ flags = {})
  <2>1. flags \in SUBSET Paths /\ (About("flag", flags) = {} <=> flags = {})
    BY PresentPaths, AboutEmpty
  <2> QED BY <1>1, <2>1
<1>4. TypeOK'
  <2>1. \A e \in errors' : e[2] \in Paths
    BY <1>1, <1>3, AboutPaths DEF SourceInv, TypeOK
  <2> QED BY <1>1, <1>f, <2>1 DEF SourceInv, TypeOK
<1>5. Reported' /\ Files' /\ Recorded' /\ Commits'
  BY <1>1, <1>2, <1>3, <1>f
  DEF SourceInv, Reported, Recorded, Files, Commits, Clear, Present, Reached
<1>7. Peace'
  <2> SUFFICES ASSUME ~disturbed, ~moved, InOrder
               PROVE  /\ errors' = {} /\ sources = Present(work) /\ indexed = index
                      /\ committed = head
    BY <1>1, <1>2, <1>f DEF Peace, Present
  <2>1. errors = {} /\ sources = Present(work) /\ indexed = index /\ committed = head
    BY <1>1 DEF SourceInv, Peace
  <2>2. flags = {}
    BY Ordered DEF SourceInv
  <2> QED BY <1>3, <2>1, <2>2
<1> QED BY <1>4, <1>5, <1>7 DEF SourceInv

LEMMA DiffFilesInv == ASSUME SourceInv, DiffFiles PROVE SourceInv'
<1>1. /\ pc = "diff" /\ pc' = "bytes" /\ errors' = errors \union About("diff", Differing)
      /\ left' = Present(committed)
      /\ UNCHANGED <<sources, indexed, committed, code>> /\ Frame
  BY DEF DiffFiles, Goto, Found, Frame
<1>2. code = None /\ code' = None /\ code' # 0 /\ Frame
  BY <1>1, AtPlace
<1>f. /\ InOrder' <=> InOrder
      /\ UNCHANGED <<regime, head, index, work, fresh, closed, hidden, oleans, edits>>
      /\ UNCHANGED <<disturbed, moved>>
  BY <1>2, FrameFacts
<1>3. Differing \in SUBSET Paths /\ (errors' = {} <=> errors = {} /\ Differing = {})
  <2>1. Differing \in SUBSET Paths /\ (About("diff", Differing) = {} <=> Differing = {})
    BY PresentPaths, AboutEmpty DEF Differing
  <2> QED BY <1>1, <2>1
<1>4. TypeOK'
  <2>1. \A e \in errors' : e[2] \in Paths
    BY <1>1, <1>3, AboutPaths DEF SourceInv, TypeOK
  <2> QED BY <1>1, <1>f, <2>1, PresentPaths DEF SourceInv, TypeOK
<1>5. Reported' /\ Recorded' /\ Commits'
  BY <1>1, <1>2, <1>3, <1>f DEF SourceInv, Reported, Recorded, Commits, Clear, Present
<1>6. Files'
  BY <1>1, <1>2, <1>3, <1>f DEF SourceInv, Files, Clear, Present, Reached
<1>7. Peace'
  <2> SUFFICES ASSUME ~disturbed, ~moved, InOrder
               PROVE  /\ errors' = {} /\ sources = Present(work) /\ indexed = index
                      /\ committed = head
    BY <1>1, <1>2, <1>f DEF Peace, Present
  <2>1. errors = {} /\ sources = Present(work) /\ indexed = index /\ committed = head
    BY <1>1 DEF SourceInv, Peace
  <2>2. Differing = {}
    BY Ordered DEF SourceInv, Differing, Present
  <2> QED BY <1>3, <2>1, <2>2
<1> QED BY <1>4, <1>5, <1>6, <1>7 DEF SourceInv

LEMMA CompareBytesInv == ASSUME SourceInv, CompareBytes PROVE SourceInv'
<1>1. PICK p \in left :
        IF work[p] = None
        THEN left' = left \ {p} /\ UNCHANGED <<pc, code, errors>>
        ELSE IF LoneCr \in {work[p].bytes.text, committed[p].bytes.text}
        THEN Goto("done") /\ code' = 2 /\ UNCHANGED <<left, errors>>
        ELSE /\ left' = left \ {p}
             /\ Found(About("bytes", IF SameText(work[p].bytes, committed[p].bytes)
                                     THEN {} ELSE {p}))
             /\ UNCHANGED <<pc, code>>
  BY DEF CompareBytes
<1>2. /\ pc = "bytes" /\ code = None /\ code # 0 /\ Frame
      /\ UNCHANGED <<sources, indexed, committed>> /\ p \in Paths
  BY AtPlace DEF CompareBytes, Frame, SourceInv, TypeOK
<1>f. /\ InOrder' <=> InOrder
      /\ UNCHANGED <<regime, head, index, work, fresh, closed, hidden, oleans, edits>>
      /\ UNCHANGED <<disturbed, moved>>
  BY <1>2, FrameFacts
<1>3. ASSUME pc' = pc, code' = code, left' = left \ {p},
             errors' = {} => errors = {}, \A e \in errors' : e[2] \in Paths,
             errors' = {} => work[p] = None \/ SameText(work[p].bytes, committed[p].bytes),
             errors' = errors \/ (~SameText(work[p].bytes, committed[p].bytes) /\ work[p] # None)
      PROVE  SourceInv'
  <2>1. TypeOK'
    BY <1>2, <1>3, <1>f DEF SourceInv, TypeOK
  <2>2. Reported' /\ Recorded' /\ Commits'
    BY <1>2, <1>3, <1>f DEF SourceInv, Reported, Recorded, Commits, Clear, Present
  <2>3. Files'
    BY <1>2, <1>3, <1>f DEF SourceInv, Files, Clear, Present, Reached
  <2>4. Peace'
    <3> SUFFICES ASSUME ~disturbed, ~moved, InOrder PROVE errors' = {}
      BY <1>2, <1>3, <1>f DEF SourceInv, Peace, Present
    <3>1. errors = {} /\ committed = head
      BY <1>2 DEF SourceInv, Peace
    <3>2. work[p] # None => p \in Present(head)
      BY <1>2, Ordered DEF SourceInv, Present
    <3> QED BY <1>3, <3>1, <3>2, Ordered DEF SourceInv, SameText
  <2> QED BY <2>1, <2>2, <2>3, <2>4 DEF SourceInv
<1>4. CASE work[p] = None
  <2>1. pc' = pc /\ code' = code /\ left' = left \ {p} /\ errors' = errors
    BY <1>1, <1>4
  <2>2. \A e \in errors' : e[2] \in Paths
    BY <2>1 DEF SourceInv, TypeOK
  <2>3. errors' = {} => work[p] = None \/ SameText(work[p].bytes, committed[p].bytes)
    BY <1>4
  <2>4. /\ errors' = {} => errors = {}
        /\ errors' = errors \/ (~SameText(work[p].bytes, committed[p].bytes) /\ work[p] # None)
    BY <2>1
  <2> QED BY <1>3, <2>1, <2>2, <2>3, <2>4, Zenon
<1>5. CASE work[p] # None /\ LoneCr \in {work[p].bytes.text, committed[p].bytes.text}
  <2>1. pc' = "done" /\ code' = 2 /\ UNCHANGED <<left, errors>>
    BY <1>1, <1>5 DEF Goto
  <2>2. TypeOK'
    BY <1>2, <1>f, <2>1 DEF SourceInv, TypeOK
  <2>3. code' # 0 /\ code' # None
    BY <2>1, SourceAssumption
  <2>4. Reported' /\ Recorded' /\ Commits' /\ Files'
    BY <2>1, <2>3 DEF SourceInv, Reported, Recorded, Commits, Files, Clear
  <2>5. Peace'
    <3> SUFFICES ASSUME ~disturbed, ~moved, InOrder PROVE FALSE
      BY <1>f DEF Peace
    <3>1. committed = head
      BY <1>2 DEF SourceInv, Peace
    <3>2. p \in Present(head)
      BY <1>2, <1>5, Ordered DEF SourceInv, Present
    <3> QED BY <1>5, <3>1, <3>2, Ordered DEF SourceInv
  <2> QED BY <2>2, <2>4, <2>5 DEF SourceInv
<1>6. CASE work[p] # None /\ LoneCr \notin {work[p].bytes.text, committed[p].bytes.text}
  <2>1. CASE SameText(work[p].bytes, committed[p].bytes)
    <3>1. errors' = errors
      BY <1>1, <1>6, <2>1, AboutEmpty DEF Found
    <3> QED BY <1>1, <1>3, <1>6, <2>1, <3>1 DEF SourceInv, TypeOK
  <2>2. CASE ~SameText(work[p].bytes, committed[p].bytes)
    <3>1. errors' = errors \union About("bytes", {p})
      BY <1>1, <1>6, <2>2 DEF Found
    <3>2. About("bytes", {p}) # {} /\ \A e \in About("bytes", {p}) : e[2] \in Paths
      BY <1>2, AboutEmpty, AboutPaths
    <3>3. \A e \in errors' : e[2] \in Paths
      BY <3>1, <3>2 DEF SourceInv, TypeOK
    <3> QED BY <1>1, <1>3, <1>6, <2>2, <3>1, <3>2, <3>3
  <2> QED BY <2>1, <2>2
<1> QED BY <1>4, <1>5, <1>6


LEMMA CompareInv == ASSUME SourceInv, Compare PROVE SourceInv'
<1> DEFINE untracked == sources \ Present(indexed)
           absent == Present(indexed) \ sources
<1>1. /\ pc = "bytes" /\ left = {}
      /\ errors' = errors \union About("untracked", untracked) \union About("absent", absent)
      /\ IF errors' = {} THEN pc' = "native" /\ UNCHANGED code
         ELSE pc' = "done" /\ code' = 1
      /\ UNCHANGED <<sources, indexed, committed, left>> /\ Frame
  BY DEF Compare, Goto, CodeOf, Frame
<1>2. code = None /\ code # 0 /\ Frame
  BY <1>1, AtPlace
<1>f. /\ InOrder' <=> InOrder
      /\ UNCHANGED <<regime, head, index, work, fresh, closed, hidden, oleans, edits>>
      /\ UNCHANGED <<disturbed, moved>>
  BY <1>2, FrameFacts
<1>3. /\ untracked \in SUBSET Paths /\ absent \in SUBSET Paths
      /\ errors' = {} <=> errors = {} /\ untracked = {} /\ absent = {}
  <2>1. untracked \in SUBSET Paths /\ absent \in SUBSET Paths
    BY PresentPaths DEF SourceInv, TypeOK
  <2>2. /\ About("untracked", untracked) = {} <=> untracked = {}
        /\ About("absent", absent) = {} <=> absent = {}
    BY AboutEmpty, Zenon
  <2>3. errors' = errors \union About("untracked", untracked) \union About("absent", absent)
    BY <1>1
  <2> HIDE DEF untracked, absent
  <2> QED BY <2>1, <2>2, <2>3
<1>4. TypeOK'
  <2>1. \A e \in errors' : e[2] \in Paths
    <3>1. /\ \A e \in About("untracked", untracked) : e[2] \in Paths
          /\ \A e \in About("absent", absent) : e[2] \in Paths
      BY <1>3, AboutPaths
    <3> QED BY <1>1, <3>1 DEF SourceInv, TypeOK
  <2> QED BY <1>1, <1>f, <2>1 DEF SourceInv, TypeOK
<1>5. code' # 0 /\ (pc' # "done" <=> code' = None)
  BY <1>1, <1>2, SourceAssumption
<1>6. Reported' /\ Recorded' /\ Files' /\ Commits'
  <2>1. errors' = {} => sources = Present(indexed)
    BY <1>3
  <2> QED BY <1>1, <1>3, <1>5, <1>f, <2>1
      DEF SourceInv, Reported, Recorded, Files, Commits, Clear, Present, Reached
<1>7. Peace'
  <2> SUFFICES ASSUME ~disturbed, ~moved, InOrder
               PROVE  /\ errors' = {} /\ sources = Present(work) /\ indexed = index
                      /\ committed = head
    BY <1>1, <1>2, <1>f DEF Peace, Present
  <2>1. errors = {} /\ sources = Present(work) /\ indexed = index /\ committed = head
    BY <1>1 DEF SourceInv, Peace
  <2>2. untracked = {} /\ absent = {}
    BY <2>1, Ordered DEF SourceInv
  <2> QED BY <1>3, <2>1, <2>2
<1> QED BY <1>4, <1>6, <1>7 DEF SourceInv

LEMMA CheckIgnoredNativeInv == ASSUME SourceInv, CheckIgnoredNative PROVE SourceInv'
<1>1. /\ pc = "native" /\ pc' = "folded" /\ errors' = errors \union About("ignored", Hidden("native"))
      /\ UNCHANGED <<sources, indexed, committed, left, code>> /\ Frame
  BY DEF CheckIgnoredNative, Goto, Found, Frame
<1>2. code = None /\ code' = None /\ code' # 0 /\ Frame
  BY <1>1, AtPlace
<1>f. /\ InOrder' <=> InOrder
      /\ UNCHANGED <<regime, head, index, work, fresh, closed, hidden, oleans, edits>>
      /\ UNCHANGED <<disturbed, moved>>
  BY <1>2, FrameFacts
<1>3. Hidden("native") \in SUBSET Paths /\ (errors' = {} <=> errors = {} /\ Hidden("native") = {})
  <2>1. /\ Hidden("native") \in SUBSET Paths
        /\ About("ignored", Hidden("native")) = {} <=> Hidden("native") = {}
    BY AboutEmpty DEF Hidden, SourceInv, TypeOK
  <2> QED BY <1>1, <2>1
<1>4. TypeOK'
  <2>1. \A e \in errors' : e[2] \in Paths
    BY <1>1, <1>3, AboutPaths DEF SourceInv, TypeOK
  <2> QED BY <1>1, <1>f, <2>1 DEF SourceInv, TypeOK
<1>5. Reported' /\ Recorded' /\ Commits'
  BY <1>1, <1>2, <1>3, <1>f DEF SourceInv, Reported, Recorded, Commits, Clear, Present
<1>6. Files'
  <2>1. Hidden("native")' = Hidden("native")
    BY <1>1, <1>f DEF Hidden
  <2> QED BY <1>1, <1>2, <1>3, <1>f, <2>1 DEF SourceInv, Files, Clear, Present, Reached
<1>7. Peace'
  <2> SUFFICES ASSUME ~disturbed, ~moved, InOrder
               PROVE  /\ errors' = {} /\ sources = Present(work) /\ indexed = index
                      /\ committed = head
    BY <1>1, <1>2, <1>f DEF Peace, Present
  <2>1. errors = {} /\ sources = Present(work) /\ indexed = index /\ committed = head
    BY <1>1 DEF SourceInv, Peace
  <2>2. Hidden("native") = {}
    BY <2>1, Ordered DEF SourceInv, Hidden
  <2> QED BY <1>3, <2>1, <2>2
<1> QED BY <1>4, <1>5, <1>6, <1>7 DEF SourceInv

LEMMA CheckIgnoredFoldedInv == ASSUME SourceInv, CheckIgnoredFolded PROVE SourceInv'
<1>1. /\ pc = "folded" /\ errors' = errors \union About("ignored", Hidden("folded"))
      /\ IF errors' = {} THEN pc' = "stale" /\ UNCHANGED code
         ELSE pc' = "done" /\ code' = 1
      /\ UNCHANGED <<sources, indexed, committed, left>> /\ Frame
  BY DEF CheckIgnoredFolded, Goto, CodeOf, Frame
<1>2. code = None /\ code # 0 /\ Frame
  BY <1>1, AtPlace
<1>f. /\ InOrder' <=> InOrder
      /\ UNCHANGED <<regime, head, index, work, fresh, closed, hidden, oleans, edits>>
      /\ UNCHANGED <<disturbed, moved>>
  BY <1>2, FrameFacts
<1>3. Hidden("folded") \in SUBSET Paths /\ (errors' = {} <=> errors = {} /\ Hidden("folded") = {})
  <2>1. /\ Hidden("folded") \in SUBSET Paths
        /\ About("ignored", Hidden("folded")) = {} <=> Hidden("folded") = {}
    BY AboutEmpty DEF Hidden, SourceInv, TypeOK
  <2> QED BY <1>1, <2>1
<1>4. TypeOK'
  <2>1. \A e \in errors' : e[2] \in Paths
    BY <1>1, <1>3, AboutPaths DEF SourceInv, TypeOK
  <2> QED BY <1>1, <1>f, <2>1 DEF SourceInv, TypeOK
<1>5. code' # 0 /\ (pc' # "done" <=> code' = None)
  BY <1>1, <1>2, SourceAssumption
<1>6. Reported' /\ Recorded' /\ Commits'
  BY <1>1, <1>3, <1>5, <1>f DEF SourceInv, Reported, Recorded, Commits, Clear, Present
<1>7. Files'
  <2>1. Hidden("native")' = Hidden("native") /\ Hidden("folded")' = Hidden("folded")
    BY <1>1, <1>f DEF Hidden
  <2> QED BY <1>1, <1>3, <1>5, <1>f, <2>1 DEF SourceInv, Files, Clear, Present, Reached
<1>8. Peace'
  <2> SUFFICES ASSUME ~disturbed, ~moved, InOrder
               PROVE  /\ errors' = {} /\ sources = Present(work) /\ indexed = index
                      /\ committed = head
    BY <1>1, <1>2, <1>f DEF Peace, Present
  <2>1. errors = {} /\ sources = Present(work) /\ indexed = index /\ committed = head
    BY <1>1 DEF SourceInv, Peace
  <2>2. Hidden("folded") = {}
    BY <2>1, Ordered DEF SourceInv, Hidden
  <2> QED BY <1>3, <2>1, <2>2
<1> QED BY <1>4, <1>6, <1>7, <1>8 DEF SourceInv

LEMMA CheckStaleInv == ASSUME SourceInv, CheckStale PROVE SourceInv'
<1> DEFINE stale == oleans \ sources
<1>1. /\ pc = "stale" /\ pc' = "done" /\ errors' = errors \union About("stale", stale)
      /\ code' = IF stale = {} THEN 0 ELSE 1
      /\ UNCHANGED <<sources, indexed, committed, left>> /\ Frame
  BY DEF CheckStale, Goto, Found, CodeOf, Frame
<1>2. code = None /\ code # 0 /\ Frame
  BY <1>1, AtPlace
<1>f. /\ InOrder' <=> InOrder
      /\ UNCHANGED <<regime, head, index, work, fresh, closed, hidden, oleans, edits>>
      /\ UNCHANGED <<disturbed, moved>>
  BY <1>2, FrameFacts
<1>3. stale \in SUBSET Paths /\ (errors' = {} <=> errors = {} /\ stale = {})
  <2>1. stale \in SUBSET Paths /\ (About("stale", stale) = {} <=> stale = {})
    BY AboutEmpty DEF SourceInv, TypeOK
  <2> QED BY <1>1, <2>1
<1>4. TypeOK'
  <2>1. \A e \in errors' : e[2] \in Paths
    BY <1>1, <1>3, AboutPaths DEF SourceInv, TypeOK
  <2> QED BY <1>1, <1>f, <2>1 DEF SourceInv, TypeOK
<1>5. Reported' /\ Recorded' /\ Commits'
  <2>1. errors = {}
    BY <1>1 DEF SourceInv, Reported
  <2>2. Reported'
    <3>1. code' # None /\ (code' = 0 => stale = {})
      BY <1>1, SourceAssumption
    <3> QED BY <1>1, <1>3, <2>1, <3>1 DEF Reported
  <2> QED BY <1>1, <1>3, <1>f, <2>1, <2>2 DEF SourceInv, Recorded, Commits, Clear, Present
<1>6. Files'
  <2>1. Hidden("native")' = Hidden("native") /\ Hidden("folded")' = Hidden("folded")
    BY <1>1, <1>f DEF Hidden
  <2> QED BY <1>1, <1>3, <1>f, <2>1 DEF SourceInv, Files, Clear, Present, Reached
<1>7. Peace'
  <2> SUFFICES ASSUME ~disturbed, ~moved, InOrder PROVE errors' = {} /\ stale = {}
    BY <1>1, <1>2, <1>f DEF Peace
  <2>1. errors = {} /\ sources = Present(work)
    BY <1>1 DEF SourceInv, Peace
  <2>2. stale = {}
    BY <2>1, Ordered DEF SourceInv
  <2> QED BY <1>3, <2>1, <2>2
<1> QED BY <1>4, <1>5, <1>6, <1>7 DEF SourceInv


-----------------------------------------------------------------------------
(* The developer                                                           *)

(* A step that leaves the gate alone, and says what it may have upset.     *)
Apart ==
    /\ UNCHANGED <<regime, pc, sources, indexed, committed, left, errors, code>>
    /\ disturbed' = TRUE \/ UNCHANGED <<work, closed, hidden, oleans, disturbed>>
    /\ moved' = TRUE \/ (UNCHANGED <<head, index, moved>> /\ fresh' \subseteq fresh)

LEMMA ApartInv == ASSUME SourceInv, Apart, TypeOK' PROVE SourceInv'
<1>1. UNCHANGED <<regime, pc, sources, indexed, committed, left, errors, code>>
  BY DEF Apart
<1>2. Reported' /\ Recorded'
  BY <1>1 DEF SourceInv, Reported, Recorded, Clear, Present
<1>3. Files'
  <2> SUFFICES ASSUME UNCHANGED <<work, closed, hidden, oleans, disturbed>> PROVE Files'
    BY DEF Apart, Files
  <2>1. Hidden("native")' = Hidden("native") /\ Hidden("folded")' = Hidden("folded")
    BY <1>1 DEF Hidden
  <2> QED BY <1>1, <2>1 DEF SourceInv, Files, Clear, Present, Reached
<1>4. Commits'
  BY <1>1 DEF SourceInv, Apart, Commits, Clear, Present
<1>5. Peace'
  <2> SUFFICES ASSUME ~disturbed', ~moved', InOrder'
               PROVE  /\ InOrder /\ UNCHANGED <<head, index, moved, work, disturbed>>
    BY <1>1 DEF SourceInv, Peace, Present
  <2>1. UNCHANGED <<regime, head, index, moved, work, closed, hidden, oleans, disturbed>>
        /\ fresh' \subseteq fresh
    BY <1>1 DEF Apart
  <2> QED BY <2>1 DEF InOrder, IndexOf, Present, Clean, Entry
<1> QED BY <1>2, <1>3, <1>4, <1>5 DEF SourceInv

LEMMA EditType ==
    ASSUME SourceInv, Edit
    PROVE  edits' \in 0 .. regime.edits
<1>1. regime.edits \in Nat
  BY SourceAssumption DEF SourceInv, TypeOK
<1> QED BY <1>1 DEF SourceInv, TypeOK, Edit

(* What a path is staged as is an entry.                                   *)
LEMMA StagedType ==
    ASSUME TypeOK, NEW p \in Paths
    PROVE  /\ work[p] # None =>
                 Entry([bytes |-> Clean(work[p].bytes), plain |-> ~work[p].link]) \in Entries
           /\ Entry([bytes |-> [text |-> Empty, crlf |-> FALSE], plain |-> TRUE]) \in Entries
           /\ index[p] # None =>
                 /\ [index[p] EXCEPT !.flagged = ~@] \in Entries
                 /\ [index[p] EXCEPT !.plain = ~@] \in Entries
                 /\ [index[p] EXCEPT !.merged = FALSE] \in Entries
<1>1. ASSUME work[p] # None
      PROVE  Entry([bytes |-> Clean(work[p].bytes), plain |-> ~work[p].link]) \in Entries
  <2>1. work[p] \in OnDisk
    BY <1>1 DEF TypeOK, FileSets
  <2>2. regime \in Regimes /\ work[p].bytes \in Bytes /\ work[p].link \in BOOLEAN
    BY <2>1 DEF TypeOK, OnDisk
  <2>3. Clean(work[p].bytes) \in Bytes
    BY <2>2, CleanType
  <2>4. [bytes |-> Clean(work[p].bytes), plain |-> ~work[p].link] \in Blobs
    BY <2>2, <2>3 DEF Blobs
  <2> QED BY <2>4, EntryType
<1>2. [bytes |-> [text |-> Empty, crlf |-> FALSE], plain |-> TRUE] \in Blobs
  BY SourceAssumption DEF Blobs, Bytes
<1>3. ASSUME index[p] # None
      PROVE  /\ [index[p] EXCEPT !.flagged = ~@] \in Entries
             /\ [index[p] EXCEPT !.plain = ~@] \in Entries
             /\ [index[p] EXCEPT !.merged = FALSE] \in Entries
  <2>1. index[p] \in Entries
    BY <1>3 DEF TypeOK, Indexes
  <2>2. ASSUME NEW b \in BOOLEAN
        PROVE  /\ [index[p] EXCEPT !.flagged = b] \in Entries
               /\ [index[p] EXCEPT !.plain = b] \in Entries
               /\ [index[p] EXCEPT !.merged = b] \in Entries
    BY <2>1 DEF Entries
  <2>3. PICK f \in BOOLEAN : f = ~index[p].flagged
    OBVIOUS
  <2>4. PICK g \in BOOLEAN : g = ~index[p].plain
    OBVIOUS
  <2>5. [index[p] EXCEPT !.flagged = ~@] = [index[p] EXCEPT !.flagged = f]
        /\ [index[p] EXCEPT !.plain = ~@] = [index[p] EXCEPT !.plain = g]
    BY <2>3, <2>4, Zenon
  <2> QED BY <2>2, <2>5
<1> QED BY <1>1, <1>2, <1>3, EntryType

LEMMA DeveloperInv == ASSUME SourceInv, Developer PROVE SourceInv'
<1>0. /\ \A r \in Regimes : r.paths \subseteq Paths
      /\ regime.paths \subseteq Paths
  BY SourceAssumption DEF SourceInv, TypeOK
<1>1. ASSUME NEW p \in regime.paths, Write(p) PROVE SourceInv'
  <2>1. PICK f \in OnDisk \union {None} : work' = [work EXCEPT ![p] = f]
    BY <1>1 DEF Write
  <2>2. work' \in FileSets
    BY <1>0, <2>1 DEF SourceInv, TypeOK, FileSets
  <2>3. TypeOK'
    BY <1>1, <2>2, EditType DEF Write, gate, SourceInv, TypeOK
  <2>4. Apart
    BY <1>1 DEF Write, gate, Apart
  <2> QED BY <2>3, <2>4, ApartInv
<1>2. ASSUME NEW p \in regime.paths, Touch(p) PROVE SourceInv'
  <2>1. TypeOK'
    BY <1>2, EditType DEF Touch, gate, SourceInv, TypeOK
  <2>2. Apart
    BY <1>2 DEF Touch, gate, Apart
  <2> QED BY <2>1, <2>2, ApartInv
<1>3. ASSUME NEW p \in regime.paths, Stage(p) PROVE SourceInv'
  <2>0. p \in Paths
    BY <1>0
  <2>1. PICK e \in Entries \union {None} : index' = [index EXCEPT ![p] = e]
    BY <1>3, <2>0, StagedType DEF Stage, SourceInv, TypeOK, Indexes
  <2>2. index' \in Indexes
    BY <2>0, <2>1 DEF SourceInv, TypeOK, Indexes
  <2>3. fresh' \subseteq Paths
    BY <1>3, <2>0 DEF Stage, SourceInv, TypeOK
  <2>4. TypeOK'
    BY <1>3, <2>2, <2>3, EditType DEF Stage, gate, SourceInv, TypeOK
  <2>5. Apart
    BY <1>3 DEF Stage, gate, Apart
  <2> QED BY <2>4, <2>5, ApartInv
<1>4. ASSUME NEW p \in regime.paths, Ignore(p) PROVE SourceInv'
  <2>1. hidden' \in [Paths -> SUBSET {"native", "folded"}]
    BY <1>0, <1>4 DEF Ignore, SourceInv, TypeOK
  <2>2. TypeOK'
    BY <1>4, <2>1, EditType DEF Ignore, gate, SourceInv, TypeOK
  <2>3. Apart
    BY <1>4 DEF Ignore, gate, Apart
  <2> QED BY <2>2, <2>3, ApartInv
<1>5. ASSUME NEW p \in regime.paths, Close(p) PROVE SourceInv'
  <2>1. closed' \subseteq {DirOf[q] : q \in Paths}
    BY <1>0, <1>5 DEF Close, SourceInv, TypeOK
  <2>2. TypeOK'
    BY <1>5, <2>1, EditType DEF Close, gate, SourceInv, TypeOK
  <2>3. Apart
    BY <1>5 DEF Close, gate, Apart
  <2> QED BY <2>2, <2>3, ApartInv
<1>6. ASSUME Commit PROVE SourceInv'
  <2>1. head' \in Trees
    <3>1. ASSUME NEW p \in Paths, index[p] # None
          PROVE  [bytes |-> index[p].bytes, plain |-> index[p].plain] \in Blobs
      BY <3>1 DEF SourceInv, TypeOK, Indexes, Entries, Blobs
    <3> QED BY <1>6, <3>1 DEF Commit, Trees
  <2>2. TypeOK'
    BY <1>6, <2>1, EditType DEF Commit, gate, SourceInv, TypeOK
  <2>3. Apart
    BY <1>6 DEF Commit, gate, Apart
  <2> QED BY <2>2, <2>3, ApartInv
<1>7. ASSUME Build PROVE SourceInv'
  <2>1. oleans' \subseteq Paths
    BY <1>7, PresentPaths DEF Build, SourceInv, TypeOK
  <2>2. TypeOK'
    BY <1>7, <2>1, EditType DEF Build, gate, SourceInv, TypeOK
  <2>3. Apart
    BY <1>7 DEF Build, gate, Apart
  <2> QED BY <2>2, <2>3, ApartInv
<1> QED BY <1>1, <1>2, <1>3, <1>4, <1>5, <1>6, <1>7 DEF Developer

-----------------------------------------------------------------------------
(* The theorems                                                            *)

LEMMA SourceStep == SourceInv /\ [Next]_vars => SourceInv'
<1> SUFFICES ASSUME SourceInv, [Next]_vars PROVE SourceInv'
  OBVIOUS
<1>1. CASE Gate
  BY <1>1, BeginInv, WalkInfrastructureInv, WalkSourcesInv, ReadIndexInv, ReadHeadInv,
     ReadFlagsInv, DiffFilesInv, CompareBytesInv, CompareInv, CheckIgnoredNativeInv,
     CheckIgnoredFoldedInv, CheckStaleInv DEF Gate
<1>2. CASE Developer
  BY <1>2, DeveloperInv
<1>3. CASE UNCHANGED vars
  <2>1. TypeOK'
    BY <1>3 DEF vars, SourceInv, TypeOK
  <2>2. Apart
    BY <1>3 DEF vars, Apart
  <2> QED BY <2>1, <2>2, ApartInv
<1> QED BY <1>1, <1>2, <1>3 DEF Next

LEMMA SourceAlways == Spec => []SourceInv
BY SourceInit, SourceStep, PTL DEF Spec

(* A PASS of check_no_ignored_lean_sources.py during which nobody wrote a  *)
(* file, an ignore rule or a compiled module says that importing any path  *)
(* gives here what it gives in a clean checkout of the commit it read, and *)
(* that no source is hidden from `git add`; if the index and HEAD stood    *)
(* still as well, they are that commit.                                    *)
THEOREM PassMeansCleanCheckout == Spec => []PassInv
<1>1. ASSUME SourceInv PROVE PassInv
  <2> SUFFICES ASSUME code = 0, ~disturbed
               PROVE  /\ \A p \in Paths : Here(p) = Cloned(committed, p)
                      /\ ~moved => head = committed /\ index = IndexOf(head)
                      /\ \A p \in Present(work) : hidden[p] = {}
    BY <1>1 DEF PassInv, PassIsCleanCheckout, PassIsNotIgnored, SourceInv
  <2>1. errors = {} /\ \A places : Clear(places)
    BY <1>1 DEF SourceInv, Reported, Clear
  <2>2. /\ Present(work) = sources /\ sources = Present(indexed)
        /\ Present(indexed) = Present(committed) /\ left = {}
    BY <1>1, <2>1 DEF SourceInv, Files, Recorded
  <2>3. ASSUME NEW p \in Paths PROVE Here(p) = Cloned(committed, p)
    <3>1. CASE work[p] = None
      <4>1. p \notin Present(work) /\ committed[p] = None
        BY <2>2, <3>1 DEF Present
      <4>2. p \notin oleans
        BY <1>1, <2>2, <4>1 DEF SourceInv, Files
      <4> QED BY <3>1, <4>1, <4>2 DEF Here, Cloned
    <3>2. CASE work[p] # None
      <4>1. p \in Present(work) /\ p \in Present(committed) /\ committed[p] # None
        BY <2>2, <3>2 DEF Present
      <4>2. Reached(p) /\ ~work[p].link /\ SameText(work[p].bytes, committed[p].bytes)
        BY <1>1, <2>1, <2>2, <4>1 DEF SourceInv, Files
      <4> QED BY <3>2, <4>1, <4>2 DEF Here, Cloned, SameText
    <3> QED BY <3>1, <3>2
  <2>4. ASSUME ~moved PROVE head = committed /\ index = IndexOf(head)
    <3>1. indexed = index /\ committed = head /\ \A p \in Present(index) : ~index[p].flagged
      BY <1>1, <2>1, <2>4 DEF SourceInv, Commits
    <3>2. \A p \in Present(index) :
             /\ index[p].merged /\ index[p].plain /\ ~EntryDiffers(index[p], head[p])
      BY <1>1, <2>1, <3>1 DEF SourceInv, Recorded
    <3> QED BY <1>1, <2>2, <3>1, <3>2, IndexIsOfTree DEF SourceInv, TypeOK
  <2>5. ASSUME NEW p \in Present(work) PROVE hidden[p] = {}
    <3>1. Hidden("native") = {} /\ Hidden("folded") = {}
      BY <1>1, <2>1 DEF SourceInv, Files
    <3> QED BY <1>1, <2>2, <3>1, PresentPaths DEF Hidden, SourceInv, TypeOK
  <2> QED BY <2>3, <2>4, <2>5
<1> QED BY <1>1, SourceAlways, PTL

(* A checkout of HEAD in order, in which nothing was saved without need,   *)
(* passes: none of the readings of check_no_ignored_lean_sources.py makes  *)
(* a refusal up, whichever way Git ends its lines.                         *)
THEOREM CheckoutsInOrderPass == Spec => []NoFalseRefusal
<1>1. SourceInv => NoFalseRefusal
  BY DEF SourceInv, Peace, Reported, NoFalseRefusal
<1> QED BY <1>1, SourceAlways, PTL

=============================================================================
