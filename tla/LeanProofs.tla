----------------------------- MODULE LeanProofs -----------------------------
(***************************************************************************)
(* Theorems about three programs that are written in Lean: the allocator   *)
(* (SmolAlloc), the request runtime (HttpRuntime) and the pool of the gate *)
(* tools (WorkerPool).  They share no state; each part below is about one. *)
(***************************************************************************)
EXTENDS SmolAlloc, HttpRuntime, WorkerPool,
        FiniteSetTheorems, SequenceTheorems, WellFoundedInduction, TLAPS

-----------------------------------------------------------------------------
(***************************************************************************)
(* SmolAlloc, for every page size, every set of request sizes and every    *)
(* bound.                                                                  *)
(*                                                                         *)
(* The obligations are exact because free refuses what is not active and   *)
(* malloc takes only what is free or fresh; that a fetched block is fresh  *)
(* follows from the blocks lying below the page frontier (Below), which in *)
(* turn needs the rounding of the page count (PagesSuffice).               *)
(*                                                                         *)
(* The free list is a finite sequence of distinct free blocks (Listed); it *)
(* is then no longer than the search has fuel (ListFitsFuel), so the walk  *)
(* along the links is that sequence (WalkIsList).  The live bytes are      *)
(* counted as addresses, which add up because blocks are disjoint.         *)
(***************************************************************************)

(* Rounding up: the pages fetched hold the header and the payload.         *)
LEMMA CeilingDivision ==
    ASSUME NEW n \in Nat, NEW p \in Nat \ {0}
    PROVE  /\ (n + p - 1) \div p \in Nat
           /\ n <= p * ((n + p - 1) \div p)
<1> DEFINE q == (n + p - 1) \div p
<1>1. q \in Int /\ p * q <= n + p - 1 /\ n + p - 1 < p * q + p
  BY Z3
<1> QED BY <1>1

LEMMA SizeType == ASSUME NEW n \in Requests PROVE Align8(n) \in Sizes /\ Align8(n) \in Nat
<1>1. n \in Nat
  BY SmolAssumption
<1>2. (n + 7) \div 8 \in Nat
  BY <1>1
<1> QED BY <1>2 DEF Align8, Sizes

LEMMA SizesNat == Sizes \subseteq Nat
BY SizeType DEF Sizes

(* The pages of a block hold it, so there is at least one.                 *)
LEMMA PagesSuffice ==
    ASSUME NEW size \in Nat
    PROVE  /\ NumPages(size) \in Nat \ {0}
           /\ size + HeaderSize <= PageSize * NumPages(size)
<1>1. /\ NumPages(size) \in Nat
      /\ size + HeaderSize <= PageSize * NumPages(size)
  BY SmolAssumption, CeilingDivision DEF NumPages, HeaderSize
<1>2. NumPages(size) # 0
  BY <1>1, SmolAssumption DEF HeaderSize
<1> QED BY <1>1, <1>2

-----------------------------------------------------------------------------

Blocks ==
    /\ DOMAIN blocks \subseteq Bases
    /\ IsFiniteSet(DOMAIN blocks)
    /\ \A a \in DOMAIN blocks : blocks[a] \in Header
    /\ freeListHead \in Bases \cup {NoBlock}
    /\ freeObligations \in [Payloads -> Nat]
    /\ activeBorrows \in Nat
    /\ allocatedPages \in Nat

AllocInv == Blocks /\ BlocksDisjoint /\ ObligationsExact

LEMMA BasesInt == Bases \subseteq Nat
BY SmolAssumption DEF Bases

LEMMA ActiveFinite == ASSUME Blocks PROVE IsFiniteSet(Active) /\ Cardinality(Active) \in Nat
BY FS_Subset, FS_CardinalityType DEF Blocks, Active

LEMMA InitAllocInv == AllocInit => AllocInv
<1> SUFFICES ASSUME AllocInit PROVE AllocInv
  OBVIOUS
<1>1. DOMAIN blocks = {} /\ Active = {}
  BY DEF AllocInit, Active
<1>2. Blocks
  BY <1>1, FS_EmptySet DEF AllocInit, Blocks
<1>3. BlocksDisjoint
  BY <1>1 DEF BlocksDisjoint
<1>4. ObligationsExact
  BY <1>1, FS_EmptySet DEF AllocInit, ObligationsExact, Payloads
<1> QED BY <1>2, <1>3, <1>4 DEF AllocInv

(* Only the flags and links of blocks change: where they lie does not.     *)
LEMMA SameLayout ==
    ASSUME BlocksDisjoint, DOMAIN blocks' = DOMAIN blocks, allocatedPages' = allocatedPages,
           \A a \in DOMAIN blocks : blocks'[a].blockSize = blocks[a].blockSize
    PROVE  BlocksDisjoint'
BY DEF BlocksDisjoint

LEMMA ReuseInv ==
    ASSUME AllocInv, NEW size, NEW a \in DOMAIN blocks, MallocReuse(size, a)
    PROVE  AllocInv'
<1> USE DEF AllocInv
<1>1. /\ blocks[a].isFree
      /\ blocks' = [blocks EXCEPT ![a].isFree = FALSE]
      /\ freeObligations' = [freeObligations EXCEPT ![Payload(a)] = @ + 1]
      /\ freeListHead' = blocks[a].nextFree
      /\ activeBorrows' = activeBorrows + 1
      /\ UNCHANGED <<pageObligations, allocatedPages>>
  BY DEF MallocReuse, FirstFit, Fits
<1>2. /\ DOMAIN blocks' = DOMAIN blocks
      /\ blocks'[a] = [blocks[a] EXCEPT !.isFree = FALSE]
      /\ blocks'[a] \in Header
      /\ blocks'[a].isFree = FALSE /\ blocks'[a].blockSize = blocks[a].blockSize
      /\ \A b \in DOMAIN blocks \ {a} : blocks'[b] = blocks[b]
  <2>1. /\ DOMAIN blocks' = DOMAIN blocks
        /\ blocks'[a] = [blocks[a] EXCEPT !.isFree = FALSE]
        /\ \A b \in DOMAIN blocks \ {a} : blocks'[b] = blocks[b]
    BY <1>1
  <2>2. blocks[a] \in Header
    BY DEF Blocks
  <2> QED BY <2>1, <2>2 DEF Header
<1>3. a \notin Active /\ Active' = Active \cup {a}
  BY <1>1, <1>2 DEF Active
<1>4. Blocks'
  <2>1. freeListHead' \in Bases \cup {NoBlock}
    BY <1>1 DEF Blocks, Header
  <2>2. \A b \in DOMAIN blocks' : blocks'[b] \in Header
    BY <1>2 DEF Blocks
  <2>3. freeObligations' \in [Payloads -> Nat] /\ activeBorrows' \in Nat
    <3>1. Payload(a) \in Payloads
      BY DEF Blocks, Payloads
    <3> QED BY <1>1, <3>1 DEF Blocks
  <2> QED BY <1>1, <1>2, <2>1, <2>2, <2>3 DEF Blocks
<1>5. BlocksDisjoint'
  BY <1>1, <1>2, SameLayout
<1>6. ObligationsExact'
  <2>1. activeBorrows' = Cardinality(Active')
    BY <1>1, <1>3, ActiveFinite, FS_AddElement DEF ObligationsExact
  <2>2. ASSUME NEW b \in Bases
        PROVE  freeObligations'[Payload(b)] = IF b \in Active' THEN 1 ELSE 0
    <3>1. a \in Bases /\ Payload(a) \in Payloads /\ Payload(b) \in Payloads
      BY DEF Blocks, Payloads
    <3>2. Payload(a) = Payload(b) => a = b
      BY <3>1, BasesInt DEF Payload, HeaderSize
    <3> QED BY <1>1, <1>3, <3>1, <3>2 DEF Blocks, ObligationsExact
  <2> QED BY <1>1, <1>2, <2>1, <2>2 DEF ObligationsExact
<1> QED BY <1>4, <1>5, <1>6

LEMMA FreeInv ==
    ASSUME AllocInv, NEW ptr \in Payloads, Free(ptr)
    PROVE  AllocInv'
<1> USE DEF AllocInv
<1> DEFINE a == ptr - HeaderSize
<1>1. /\ a \in Active
      /\ blocks' = [blocks EXCEPT ![a].isFree = TRUE, ![a].nextFree = freeListHead]
      /\ freeObligations' = [freeObligations EXCEPT ![ptr] = 0]
      /\ freeListHead' = a
      /\ activeBorrows' = Monus(activeBorrows, 1)
      /\ UNCHANGED <<pageObligations, allocatedPages>>
  BY DEF Free
<1>2. ptr = Payload(a) /\ a \in Bases
  BY BasesInt DEF Payloads, Payload, HeaderSize
<1> HIDE DEF a
<1>3. /\ a \in DOMAIN blocks /\ DOMAIN blocks' = DOMAIN blocks
      /\ blocks'[a] \in Header
      /\ blocks'[a].isFree = TRUE /\ blocks'[a].blockSize = blocks[a].blockSize
      /\ \A b \in DOMAIN blocks \ {a} : blocks'[b] = blocks[b]
  <2>1. /\ a \in DOMAIN blocks /\ DOMAIN blocks' = DOMAIN blocks
        /\ blocks'[a] = [[blocks[a] EXCEPT !.isFree = TRUE] EXCEPT !.nextFree = freeListHead]
        /\ \A b \in DOMAIN blocks \ {a} : blocks'[b] = blocks[b]
    BY <1>1 DEF Active
  <2>2. blocks[a] \in Header /\ freeListHead \in Bases \cup {NoBlock}
    BY <2>1 DEF Blocks
  <2> QED BY <2>1, <2>2 DEF Header
<1>4. Active' = Active \ {a}
  BY <1>3 DEF Active
<1>5. activeBorrows = Cardinality(Active) /\ activeBorrows' = Cardinality(Active')
  <2>1. Cardinality(Active \ {a}) = Cardinality(Active) - 1 /\ Cardinality(Active \ {a}) \in Nat
    BY <1>1, ActiveFinite, FS_RemoveElement, FS_CardinalityType
  <2> QED BY <1>1, <1>4, <2>1 DEF ObligationsExact, Monus, Blocks
<1>6. Blocks'
  <2>1. \A b \in DOMAIN blocks' : blocks'[b] \in Header
    BY <1>3 DEF Blocks
  <2>2. freeObligations' \in [Payloads -> Nat] /\ activeBorrows' \in Nat
    BY <1>1 DEF Blocks, Monus
  <2> QED BY <1>1, <1>2, <1>3, <2>1, <2>2 DEF Blocks
<1>7. BlocksDisjoint'
  BY <1>1, <1>3, SameLayout
<1>8. ObligationsExact'
  <2>1. ASSUME NEW b \in Bases
        PROVE  freeObligations'[Payload(b)] = IF b \in Active' THEN 1 ELSE 0
    <3>1. Payload(a) \in Payloads /\ Payload(b) \in Payloads
      BY <1>2 DEF Payloads
    <3>2. Payload(a) = Payload(b) => a = b
      BY <1>2, BasesInt DEF Payload, HeaderSize
    <3> QED BY <1>1, <1>2, <1>4, <3>1, <3>2 DEF Blocks, ObligationsExact
  <2> QED BY <1>1, <1>3, <1>5, <2>1 DEF ObligationsExact
<1> QED BY <1>6, <1>7, <1>8

(* The page frontier is above every block, so the fetched block is new; its*)
(* pages end at the new frontier.                                          *)
LEMMA FetchInv ==
    ASSUME AllocInv, NEW size \in Sizes, MallocFetch(size)
    PROVE  AllocInv'
<1> USE DEF AllocInv
<1> DEFINE base == PageSize * allocatedPages
           pages == NumPages(size)
           fresh == [blockSize |-> size, isFree |-> FALSE, nextFree |-> NoBlock]
<1>1. /\ allocatedPages + pages <= MaxPages
      /\ blocks' = [a \in DOMAIN blocks \cup {base} |-> IF a = base THEN fresh ELSE blocks[a]]
      /\ freeObligations' = [freeObligations EXCEPT ![Payload(base)] = @ + 1]
      /\ pageObligations' = pageObligations \cup {base}
      /\ allocatedPages' = allocatedPages + pages
      /\ activeBorrows' = activeBorrows + 1
      /\ freeListHead' = freeListHead
  BY DEF MallocFetch
<1>2. /\ size \in Nat /\ pages \in Nat \ {0} /\ size + HeaderSize <= PageSize * pages
      /\ allocatedPages \in Nat /\ PageSize \in Nat \ {0} /\ MaxPages \in Nat
  BY SizesNat, PagesSuffice, SmolAssumption DEF Blocks
<1>3. /\ base \in Nat /\ base \in Bases
      /\ PageSize * allocatedPages' = base + PageSize * pages
      /\ PageSize * pages \in Nat
  <2>1. allocatedPages \in 0 .. MaxPages - 1
    BY <1>1, <1>2
  <2>2. base \in Nat /\ PageSize * pages \in Nat
    BY <1>2
  <2>3. PageSize * (allocatedPages + pages) = base + PageSize * pages
    BY <1>2, Z3
  <2> QED BY <1>1, <2>1, <2>2, <2>3 DEF Bases
<1>4. Payload(base) + size <= PageSize * allocatedPages'
  BY <1>2, <1>3 DEF Payload, HeaderSize
<1> HIDE DEF base, pages
<1>5. \A a \in DOMAIN blocks :
         /\ a \in Nat /\ blocks[a].blockSize \in Nat
         /\ Payload(a) + blocks[a].blockSize <= base
         /\ a < base
  <2> SUFFICES ASSUME NEW a \in DOMAIN blocks
               PROVE  /\ a \in Nat /\ blocks[a].blockSize \in Nat
                      /\ Payload(a) + blocks[a].blockSize <= base
                      /\ a < base
    OBVIOUS
  <2>1. a \in Nat /\ blocks[a].blockSize \in Nat
    BY BasesInt, SizesNat DEF Blocks, Header
  <2>2. Payload(a) + blocks[a].blockSize <= base
    BY DEF BlocksDisjoint, base
  <2> QED BY <1>3, <2>1, <2>2 DEF Payload, HeaderSize
<1>6. /\ base \notin DOMAIN blocks
      /\ DOMAIN blocks' = DOMAIN blocks \cup {base}
      /\ blocks'[base] = fresh
      /\ \A a \in DOMAIN blocks : blocks'[a] = blocks[a]
  BY <1>1, <1>3, <1>5
<1>7. base \notin Active /\ Active' = Active \cup {base}
  BY <1>6 DEF Active
<1>8. Blocks'
  <2>1. \A a \in DOMAIN blocks' : blocks'[a] \in Header
    <3>1. fresh \in Header
      BY DEF Header
    <3>2. blocks'[base] \in Header
      BY <1>6, <3>1
    <3> HIDE DEF fresh
    <3> QED BY <1>6, <3>2 DEF Blocks
  <2>2. IsFiniteSet(DOMAIN blocks')
    BY <1>6, FS_AddElement DEF Blocks
  <2>3. freeObligations' \in [Payloads -> Nat]
    <3>1. Payload(base) \in Payloads
      BY <1>3 DEF Payloads
    <3> QED BY <1>1, <3>1 DEF Blocks
  <2>4. DOMAIN blocks' \subseteq Bases
    BY <1>3, <1>6 DEF Blocks
  <2>5. freeListHead' \in Bases \cup {NoBlock}
    BY <1>1 DEF Blocks
  <2>6. activeBorrows' \in Nat /\ allocatedPages' \in Nat
    BY <1>1, <1>2 DEF Blocks
  <2> QED BY <2>1, <2>2, <2>3, <2>4, <2>5, <2>6 DEF Blocks
<1>9. BlocksDisjoint'
  <2> SUFFICES ASSUME NEW a \in DOMAIN blocks'
               PROVE  /\ Payload(a) + blocks'[a].blockSize <= PageSize * allocatedPages'
                      /\ \A b \in DOMAIN blocks' : a < b => Payload(a) + blocks'[a].blockSize <= b
    BY DEF BlocksDisjoint
  <2>1. CASE a = base
    <3>1. blocks'[a].blockSize = size
      BY <1>6, <2>1
    <3>2. \A b \in DOMAIN blocks' : ~(a < b)
      BY <1>3, <1>5, <1>6, <2>1
    <3> QED BY <1>4, <2>1, <3>1, <3>2
  <2>2. CASE a \in DOMAIN blocks
    <3>1. blocks'[a].blockSize = blocks[a].blockSize
      BY <1>6, <2>2
    <3>2. Payload(a) + blocks[a].blockSize <= PageSize * allocatedPages'
      BY <1>3, <1>5, <2>2 DEF Payload, HeaderSize
    <3>3. ASSUME NEW b \in DOMAIN blocks', a < b PROVE Payload(a) + blocks[a].blockSize <= b
      BY <1>5, <1>6, <2>2, <3>3 DEF BlocksDisjoint
    <3> QED BY <3>1, <3>2, <3>3
  <2> QED BY <1>6, <2>1, <2>2
<1>10. ObligationsExact'
  <2>1. activeBorrows' = Cardinality(Active')
    BY <1>1, <1>7, ActiveFinite, FS_AddElement DEF ObligationsExact
  <2>2. ASSUME NEW b \in Bases
        PROVE  freeObligations'[Payload(b)] = IF b \in Active' THEN 1 ELSE 0
    <3>1. Payload(base) \in Payloads /\ Payload(b) \in Payloads
      BY <1>3 DEF Payloads
    <3>2. Payload(base) = Payload(b) => base = b
      BY <1>3, BasesInt DEF Payload, HeaderSize
    <3> QED BY <1>1, <1>3, <1>7, <3>1, <3>2 DEF Blocks, ObligationsExact
  <2> QED BY <1>1, <1>6, <2>1, <2>2 DEF ObligationsExact
<1> QED BY <1>8, <1>9, <1>10

LEMMA NextAllocInv == AllocInv /\ [AllocNext]_allocVars => AllocInv'
<1> SUFFICES ASSUME AllocInv, [AllocNext]_allocVars PROVE AllocInv'
  OBVIOUS
<1>1. ASSUME NEW n \in Requests, NEW a \in DOMAIN blocks, MallocReuse(Align8(n), a)
      PROVE  AllocInv'
  BY <1>1, ReuseInv
<1>2. ASSUME NEW n \in Requests, MallocFetch(Align8(n)) PROVE AllocInv'
  BY <1>2, SizeType, FetchInv
<1>3. ASSUME NEW ptr \in Payloads, Free(ptr) PROVE AllocInv'
  BY <1>3, FreeInv
<1>4. CASE UNCHANGED allocVars
  BY <1>4 DEF allocVars, usage, obligations, AllocInv, Blocks, BlocksDisjoint, ObligationsExact, Active
<1> QED BY <1>1, <1>2, <1>3, <1>4 DEF AllocNext, MallocFails, FreeRefused

(* Every malloc and free keeps the layout of the heap and the ledgers of   *)
(* obligations.                                                            *)
THEOREM AllocInvariant == AllocSpec => []AllocInv
<1>1. AllocInit => AllocInv
  BY InitAllocInv
<1>2. AllocInv /\ [AllocNext]_allocVars => AllocInv'
  BY NextAllocInv
<1> QED BY <1>1, <1>2, PTL DEF AllocSpec

(* Linear obligation conservation holds for every sequence of mallocs and  *)
(* frees, whatever pointers are freed and whenever the page source fails.  *)
THEOREM ObligationsConserved == AllocSpec => []ObligationsExact
<1>1. AllocInv => ObligationsExact
  BY DEF AllocInv
<1> QED BY <1>1, AllocInvariant, PTL

(* No two blocks, in use or free, ever overlap.                            *)
THEOREM NoOverlap == AllocSpec => []BlocksDisjoint
<1>1. AllocInv => BlocksDisjoint
  BY DEF AllocInv
<1> QED BY <1>1, AllocInvariant, PTL

-----------------------------------------------------------------------------
(* The free list                                                           *)

(* A set of naturals that is not empty has a least element.                *)
LEMMA LeastNat ==
    ASSUME NEW T \in SUBSET Nat, T # {}
    PROVE  \E n \in T : \A m \in T : n <= m
<1> DEFINE Before == {p \in Nat \X Nat : p[1] < p[2]}
<1>1. IsWellFoundedOn(Before, Nat)
  BY NatLessThanWellFounded DEF OpToRel
<1>2. \A m, n \in Nat : m < n => <<m, n>> \in Before
  OBVIOUS
<1> HIDE DEF Before
<1>3. PICK n \in T : \A m \in T : <<m, n>> \notin Before
  BY <1>1, WFMin
<1>4. \A m \in T : ~(m < n)
  BY <1>2, <1>3
<1> QED BY <1>4

(* s lists the k free blocks the head leads to, each once, then NoBlock.   *)
ListOf(heap, head, s, k) ==
    /\ k \in Nat /\ s \in [0 .. k -> Bases \cup {NoBlock}]
    /\ s[0] = head /\ s[k] = NoBlock
    /\ \A i \in 0 .. k - 1 :
          /\ s[i] \in DOMAIN heap /\ heap[s[i]].isFree
          /\ s[i + 1] = heap[s[i]].nextFree
    /\ \A i, j \in 0 .. k - 1 : s[i] = s[j] => i = j

Listed == \E k, s : k \in Nat /\ ListOf(blocks, freeListHead, s, k)

(* The list is no longer than the search has fuel.                         *)
LEMMA ListFitsFuel ==
    ASSUME Blocks, NEW k \in Nat, NEW s, ListOf(blocks, freeListHead, s, k)
    PROVE  Fuel \in Nat /\ k <= Fuel
<1> DEFINE f == [i \in 0 .. k - 1 |-> s[i]]
<1>1. f \in Injection(0 .. k - 1, DOMAIN blocks)
  BY DEF ListOf, Injection, IsInjective
<1>2. Cardinality(0 .. k - 1) <= Cardinality(DOMAIN blocks)
  BY <1>1, FS_Injection DEF Blocks
<1>3. Cardinality(0 .. k - 1) = k
  BY FS_Interval
<1> QED BY <1>2, <1>3, FS_CardinalityType DEF Fuel, Blocks

LEMMA NoneIsNoBlock == ASSUME Blocks PROVE NoBlock \notin DOMAIN blocks
BY BasesInt DEF Blocks, NoBlock

(* The search walks along the list and stays at NoBlock behind its end.    *)
LEMMA WalkIsList ==
    ASSUME Blocks, NEW k \in Nat, NEW s, ListOf(blocks, freeListHead, s, k)
    PROVE  Walk = [n \in 0 .. Fuel |-> IF n <= k THEN s[n] ELSE NoBlock]
<1> DEFINE w == [n \in 0 .. Fuel |-> IF n <= k THEN s[n] ELSE NoBlock]
           Follow(v, n) == IF n = 0 THEN freeListHead
                         ELSE IF v[n - 1] \in DOMAIN blocks THEN blocks[v[n - 1]].nextFree
                         ELSE NoBlock
<1>0. Fuel \in Nat /\ k <= Fuel
  BY ListFitsFuel
<1>1. ASSUME NEW n \in 0 .. Fuel PROVE w[n] = Follow(w, n)
  <2>1. CASE n = 0
    BY <1>0, <2>1 DEF ListOf
  <2>2. CASE n \in 1 .. k
    <3>1. n - 1 \in 0 .. k - 1 /\ w[n - 1] = s[n - 1] /\ w[n] = s[n]
      BY <1>0, <2>2
    <3>2. s[n - 1] \in DOMAIN blocks /\ s[(n - 1) + 1] = blocks[s[n - 1]].nextFree
      BY <3>1 DEF ListOf
    <3> QED BY <2>2, <3>1, <3>2
  <2>3. CASE n > k
    <3>0. s[k] = NoBlock
      BY DEF ListOf
    <3>1. w[n] = NoBlock /\ w[n - 1] = NoBlock /\ n # 0
      <4>1. n \in Nat /\ n - 1 \in 0 .. Fuel
        BY <1>0, <2>3
      <4>2. n - 1 <= k => n - 1 = k
        BY <2>3, <4>1
      <4> QED BY <2>3, <3>0, <4>1, <4>2
    <3> QED BY <3>1, NoneIsNoBlock
  <2> QED BY <1>0, <2>1, <2>2, <2>3
<1>2. w = [n \in 0 .. Fuel |-> IF n = 0 THEN freeListHead
                               ELSE IF w[n - 1] \in DOMAIN blocks THEN blocks[w[n - 1]].nextFree
                               ELSE NoBlock]
  <2>1. w = [n \in 0 .. Fuel |-> w[n]]
    OBVIOUS
  <2> HIDE DEF w
  <2> QED BY <1>1, <2>1
<1> HIDE DEF w
<1>3. Walk = [n \in 0 .. Fuel |-> IF n = 0 THEN freeListHead
                               ELSE IF Walk[n - 1] \in DOMAIN blocks THEN blocks[Walk[n - 1]].nextFree
                               ELSE NoBlock]
  BY <1>2, Zenon DEF Walk
<1>4. \A n \in 0 .. Fuel : Walk[n] = Follow(Walk, n)
  BY <1>3
<1>5. ASSUME {n \in 0 .. Fuel : Walk[n] # w[n]} # {} PROVE FALSE
  <2> DEFINE D == {n \in 0 .. Fuel : Walk[n] # w[n]}
  <2>0. D \in SUBSET Nat /\ D # {}
    BY <1>0, <1>5
  <2> HIDE DEF D
  <2>1. PICK n \in D : \A m \in D : n <= m
    BY <2>0, LeastNat
  <2> USE DEF D
  <2>2. n # 0
    BY <1>1, <1>4, <2>1
  <2>3. n - 1 \in 0 .. Fuel /\ n - 1 \notin D
    BY <1>0, <2>1, <2>2
  <2>4. Walk[n - 1] = w[n - 1]
    BY <2>3
  <2> QED BY <1>1, <1>4, <2>1, <2>2, <2>4
<1>6. \A n \in 0 .. Fuel : Walk[n] = w[n]
  BY <1>5
<1>7. Walk = w
  BY <1>2, <1>3, <1>6
<1> QED BY <1>7 DEF w

(* So the list is sound.                                                   *)
LEMMA ListedIsSound ==
    ASSUME Blocks, Listed
    PROVE  FreeListSound
<1>1. PICK k, s : k \in Nat /\ ListOf(blocks, freeListHead, s, k)
  BY DEF Listed
<1>2. Walk = [n \in 0 .. Fuel |-> IF n <= k THEN s[n] ELSE NoBlock]
  BY <1>1, WalkIsList
<1>3. Fuel \in Nat /\ k <= Fuel
  BY <1>1, ListFitsFuel
<1>4. \A n \in 0 .. k : s[n] # NoBlock => s[n] \in DOMAIN blocks \ Active
  BY <1>1 DEF ListOf, Active
<1>5. Walk[Fuel] = NoBlock
  BY <1>1, <1>2, <1>3 DEF ListOf
<1>6. DOMAIN Walk = 0 .. Fuel
  BY <1>2
<1>7. \A n \in 0 .. Fuel : Walk[n] # NoBlock => Walk[n] \in DOMAIN blocks \ Active
  BY <1>2, <1>3, <1>4
<1> QED BY <1>5, <1>6, <1>7 DEF FreeListSound

(* A list survives what leaves the blocks on it as they are.               *)
LEMMA ListFrame ==
    ASSUME NEW heap, NEW head, NEW new, NEW k, NEW s, ListOf(heap, head, s, k),
           \A i \in 0 .. k - 1 : s[i] \in DOMAIN new /\ new[s[i]] = heap[s[i]]
    PROVE  ListOf(new, head, s, k)
BY DEF ListOf

(* malloc takes a block from the list and cuts the list behind it; what is *)
(* dropped before it is lost to the search, but nothing becomes cyclic.    *)
LEMMA ReuseListed ==
    ASSUME Blocks, Listed, NEW size, NEW a \in DOMAIN blocks, MallocReuse(size, a)
    PROVE  Listed'
<1>1. PICK k, s : k \in Nat /\ ListOf(blocks, freeListHead, s, k)
  BY DEF Listed
<1>2. Walk = [n \in 0 .. Fuel |-> IF n <= k THEN s[n] ELSE NoBlock]
  BY <1>1, WalkIsList
<1>3. Fuel \in Nat /\ k <= Fuel
  BY <1>1, ListFitsFuel
<1>4. /\ blocks' = [blocks EXCEPT ![a].isFree = FALSE]
      /\ freeListHead' = blocks[a].nextFree
      /\ \E n \in 0 .. Fuel - 1 : Walk[n] = a
  BY DEF MallocReuse, FirstFit
<1>5. PICK n \in 0 .. Fuel - 1 : Walk[n] = a
  BY <1>4
<1>6. n \in 0 .. k - 1 /\ s[n] = a /\ k \in Nat /\ s \in [0 .. k -> Bases \cup {NoBlock}]
  <2>1. a # NoBlock
    BY NoneIsNoBlock
  <2> QED BY <1>1, <1>2, <1>3, <1>5, <2>1 DEF ListOf
<1> DEFINE t == [i \in 0 .. k - n - 1 |-> s[n + 1 + i]]
<1>7. /\ k - n - 1 \in Nat
      /\ t \in [0 .. k - n - 1 -> Bases \cup {NoBlock}]
      /\ t[0] = s[n + 1] /\ t[k - n - 1] = s[k]
  BY <1>6
<1>8. \A i \in 0 .. k - n - 2 :
         /\ n + 1 + i \in 0 .. k - 1 /\ n + 1 + i # n
         /\ t[i] = s[n + 1 + i] /\ t[i + 1] = s[(n + 1 + i) + 1]
  BY <1>6
<1> HIDE DEF t
<1>9. ListOf(blocks, blocks[a].nextFree, t, k - n - 1)
  <2>1. s[n + 1] = blocks[a].nextFree /\ s[k] = NoBlock
    BY <1>1, <1>6 DEF ListOf
  <2>2. \A i \in 0 .. k - n - 2 :
          t[i] \in DOMAIN blocks /\ blocks[t[i]].isFree /\ t[i + 1] = blocks[t[i]].nextFree
    BY <1>1, <1>8 DEF ListOf
  <2>3. ASSUME NEW i \in 0 .. k - n - 2, NEW j \in 0 .. k - n - 2, t[i] = t[j] PROVE i = j
    <3>1. n + 1 + i = n + 1 + j
      BY <1>1, <1>8, <2>3 DEF ListOf
    <3> QED BY <1>6, <3>1
  <2>4. (k - n - 1) - 1 = k - n - 2
    BY <1>6
  <2> QED BY <1>7, <2>1, <2>2, <2>3, <2>4 DEF ListOf
<1>10. ASSUME NEW i \in 0 .. (k - n - 1) - 1
       PROVE  t[i] \in DOMAIN blocks' /\ blocks'[t[i]] = blocks[t[i]]
  <2>1. i \in 0 .. k - n - 2
    BY <1>6
  <2>2. t[i] # a
    BY <1>1, <1>6, <1>8, <2>1 DEF ListOf
  <2>3. t[i] \in DOMAIN blocks
    BY <1>9 DEF ListOf
  <2> QED BY <1>4, <2>2, <2>3
<1>11. ListOf(blocks', freeListHead', t, k - n - 1)
  BY <1>4, <1>9, <1>10, ListFrame
<1> QED BY <1>7, <1>11 DEF Listed

(* free puts an active block, which cannot be on the list, in front of it. *)
LEMMA FreeListed ==
    ASSUME Blocks, Listed, NEW ptr \in Payloads, Free(ptr)
    PROVE  Listed'
<1> DEFINE a == ptr - HeaderSize
<1>1. PICK k, s : k \in Nat /\ ListOf(blocks, freeListHead, s, k)
  BY DEF Listed
<1>2. /\ a \in Active
      /\ blocks' = [blocks EXCEPT ![a].isFree = TRUE, ![a].nextFree = freeListHead]
      /\ freeListHead' = a
  BY DEF Free
<1> HIDE DEF a
<1>3. /\ a \in DOMAIN blocks /\ ~blocks[a].isFree /\ a \in Bases
      /\ k \in Nat /\ s \in [0 .. k -> Bases \cup {NoBlock}]
  BY <1>1, <1>2 DEF Active, Blocks, ListOf
<1>4. /\ DOMAIN blocks' = DOMAIN blocks
      /\ blocks'[a].isFree = TRUE /\ blocks'[a].nextFree = freeListHead
      /\ \A b \in DOMAIN blocks \ {a} : blocks'[b] = blocks[b]
  <2>1. /\ DOMAIN blocks' = DOMAIN blocks
        /\ blocks'[a] = [[blocks[a] EXCEPT !.isFree = TRUE] EXCEPT !.nextFree = freeListHead]
        /\ \A b \in DOMAIN blocks \ {a} : blocks'[b] = blocks[b]
    BY <1>2, <1>3
  <2>2. blocks[a] \in Header
    BY <1>3 DEF Blocks
  <2> QED BY <2>1, <2>2 DEF Header
<1> DEFINE t == [i \in 0 .. k + 1 |-> IF i = 0 THEN a ELSE s[i - 1]]
<1>5. /\ t \in [0 .. k + 1 -> Bases \cup {NoBlock}]
      /\ t[0] = a /\ t[1] = s[0] /\ t[k + 1] = s[k]
      /\ \A i \in 1 .. k : i - 1 \in 0 .. k - 1 /\ t[i] = s[i - 1] /\ t[i + 1] = s[(i - 1) + 1]
  BY <1>3
<1> HIDE DEF t
<1>6. \A i \in 0 .. k - 1 : s[i] # a /\ s[i] \in DOMAIN blocks
  BY <1>1, <1>3 DEF ListOf
<1>7. \A i \in 1 .. k :
        t[i] \in DOMAIN blocks' /\ blocks'[t[i]].isFree /\ t[i + 1] = blocks'[t[i]].nextFree
  BY <1>1, <1>4, <1>5, <1>6 DEF ListOf
<1>8. t[0] \in DOMAIN blocks' /\ blocks'[t[0]].isFree /\ t[0 + 1] = blocks'[t[0]].nextFree
  BY <1>1, <1>3, <1>4, <1>5 DEF ListOf
<1>9. ASSUME NEW i \in 0 .. k, NEW j \in 0 .. k, t[i] = t[j] PROVE i = j
  <2>1. CASE i = 0 \/ j = 0
    BY <1>5, <1>6, <1>9, <2>1
  <2>2. CASE i # 0 /\ j # 0
    <3>1. s[i - 1] = s[j - 1] /\ i - 1 \in 0 .. k - 1 /\ j - 1 \in 0 .. k - 1
      BY <1>5, <1>9, <2>2
    <3>2. i - 1 = j - 1
      BY <1>1, <3>1 DEF ListOf
    <3> QED BY <3>2
  <2> QED BY <2>1, <2>2
<1>10. \A i \in 0 .. k : i = 0 \/ i \in 1 .. k
  BY <1>3
<1>11. (k + 1) - 1 = k /\ k + 1 \in Nat
  BY <1>3
<1>12. ListOf(blocks', freeListHead', t, k + 1)
  <2>1. t[0] = freeListHead' /\ t[k + 1] = NoBlock
    BY <1>1, <1>2, <1>5 DEF ListOf
  <2>2. \A i \in 0 .. k :
          t[i] \in DOMAIN blocks' /\ blocks'[t[i]].isFree /\ t[i + 1] = blocks'[t[i]].nextFree
    BY <1>7, <1>8, <1>10
  <2> QED BY <1>5, <1>9, <1>11, <2>1, <2>2 DEF ListOf
<1> QED BY <1>5, <1>11, <1>12 DEF Listed

(* A fetched block is new and handed out at once.                          *)
LEMMA FetchListed ==
    ASSUME AllocInv, Listed, NEW size \in Sizes, MallocFetch(size)
    PROVE  Listed'
<1> DEFINE base == PageSize * allocatedPages
<1>1. PICK k, s : k \in Nat /\ ListOf(blocks, freeListHead, s, k)
  BY DEF Listed
<1>2. /\ DOMAIN blocks' = DOMAIN blocks \cup {base}
      /\ \A b \in DOMAIN blocks : b # base => blocks'[b] = blocks[b]
      /\ freeListHead' = freeListHead
  BY DEF MallocFetch
<1>3. \A b \in DOMAIN blocks : b < base
  <2> TAKE b \in DOMAIN blocks
  <2>0. base \in Nat
    <3>1. allocatedPages \in Nat /\ PageSize \in Nat
      BY SmolAssumption DEF AllocInv, Blocks
    <3> QED BY <3>1
  <2>1. b \in Nat /\ blocks[b].blockSize \in Nat
    BY BasesInt, SizesNat DEF AllocInv, Blocks, Header
  <2>2. Payload(b) + blocks[b].blockSize <= base
    BY DEF AllocInv, BlocksDisjoint
  <2> HIDE DEF base
  <2> QED BY <2>0, <2>1, <2>2 DEF Payload, HeaderSize
<1>4. base \notin DOMAIN blocks
  <2>1. base \in Nat
    <3>1. allocatedPages \in Nat /\ PageSize \in Nat
      BY SmolAssumption DEF AllocInv, Blocks
    <3> QED BY <3>1
  <2> HIDE DEF base
  <2> QED BY <1>3, <2>1
<1>5. ListOf(blocks', freeListHead, s, k)
  <2>1. \A i \in 0 .. k - 1 : s[i] \in DOMAIN blocks
    BY <1>1 DEF ListOf
  <2>2. \A i \in 0 .. k - 1 : s[i] \in DOMAIN blocks' /\ blocks'[s[i]] = blocks[s[i]]
    BY <1>2, <1>4, <2>1
  <2> QED BY <1>1, <2>2, ListFrame
<1> QED BY <1>1, <1>2, <1>5 DEF Listed

LEMMA InitListed == AllocInit => Listed
<1> SUFFICES ASSUME AllocInit PROVE Listed
  OBVIOUS
<1> DEFINE s == [i \in 0 .. 0 |-> NoBlock]
<1>1. s \in [0 .. 0 -> Bases \cup {NoBlock}] /\ s[0] = NoBlock
  OBVIOUS
<1> HIDE DEF s
<1>2. ListOf(blocks, freeListHead, s, 0)
  BY <1>1 DEF AllocInit, ListOf
<1> QED BY <1>1, <1>2 DEF Listed

-----------------------------------------------------------------------------
(* The figures                                                             *)

Figures ==
    /\ liveBytes \in Nat /\ peakLiveBytes \in Nat
    /\ totalAllocatedBytes \in 0 .. MaxTotal
    /\ pageCount \in 0 .. MaxPages /\ allocatedPages \in 0 .. MaxPages
    /\ Accounted

(* A payload has as many addresses as its header says, ...                 *)
LEMMA ExtentSize ==
    ASSUME Blocks, NEW a \in DOMAIN blocks
    PROVE  /\ IsFiniteSet(Extent(a)) /\ Cardinality(Extent(a)) = blocks[a].blockSize
           /\ blocks[a].blockSize \in Nat
<1>1. a \in Nat /\ blocks[a].blockSize \in Nat
  BY BasesInt, SizesNat DEF Blocks, Header
<1> DEFINE last == Payload(a) + blocks[a].blockSize - 1
<1>2. /\ Payload(a) \in Int /\ last \in Int
      /\ last - Payload(a) + 1 = blocks[a].blockSize
      /\ Payload(a) > last => blocks[a].blockSize = 0
  BY <1>1 DEF Payload, HeaderSize
<1>3. Extent(a) = Payload(a) .. last
  BY DEF Extent
<1> HIDE DEF last
<1>4. IsFiniteSet(Extent(a)) /\ Cardinality(Extent(a)) = blocks[a].blockSize
  BY <1>2, <1>3, FS_Interval
<1> QED BY <1>1, <1>4

(* ... and no two payloads share one.                                      *)
LEMMA ExtentsDisjoint ==
    ASSUME Blocks, BlocksDisjoint, NEW a \in DOMAIN blocks, NEW b \in DOMAIN blocks, a # b
    PROVE  Extent(a) \cap Extent(b) = {}
<1>1. /\ a \in Nat /\ b \in Nat
      /\ blocks[a].blockSize \in Nat /\ blocks[b].blockSize \in Nat
  BY BasesInt, SizesNat DEF Blocks, Header
<1>2. \/ Payload(a) + blocks[a].blockSize <= b
      \/ Payload(b) + blocks[b].blockSize <= a
  BY <1>1 DEF BlocksDisjoint
<1> QED BY <1>1, <1>2 DEF Extent, Payload, HeaderSize

LEMMA InUseFinite == ASSUME Blocks PROVE IsFiniteSet(InUse) /\ Cardinality(InUse) \in Nat
<1>1. IsFiniteSet({Extent(a) : a \in Active})
  <2> DEFINE f == [a \in Active |-> Extent(a)]
  <2>1. f \in Surjection(Active, {Extent(a) : a \in Active})
    BY DEF Surjection
  <2> QED BY <2>1, ActiveFinite, FS_Surjection
<1>2. \A S \in {Extent(a) : a \in Active} : IsFiniteSet(S)
  BY ExtentSize DEF Active
<1> QED BY <1>1, <1>2, FS_UNION, FS_CardinalityType DEF InUse

(* Finite sets without a common member: the sizes add up.                  *)
LEMMA DisjointSum ==
    ASSUME NEW S, NEW T, IsFiniteSet(S), IsFiniteSet(T), S \cap T = {}
    PROVE  /\ Cardinality(S \cup T) = Cardinality(S) + Cardinality(T)
           /\ Cardinality(S) \in Nat /\ Cardinality(T) \in Nat
<1>1. Cardinality(S) \in Nat /\ Cardinality(T) \in Nat
  BY FS_CardinalityType
<1>2. Cardinality(S \cup T) = Cardinality(S) + Cardinality(T) - Cardinality(S \cap T)
  BY FS_Union
<1>3. Cardinality(S \cap T) = 0
  BY FS_EmptySet
<1> QED BY <1>1, <1>2, <1>3

(* What malloc records.                                                    *)
LEMMA Recorded ==
    ASSUME Figures, NEW bytes \in Nat, RecordAllocation(bytes),
           totalAllocatedBytes + bytes <= MaxTotal
    PROVE  /\ liveBytes' = liveBytes + bytes
           /\ liveBytes' \in Nat /\ peakLiveBytes' \in Nat
           /\ totalAllocatedBytes' \in 0 .. MaxTotal
           /\ liveBytes' <= peakLiveBytes' /\ peakLiveBytes' <= totalAllocatedBytes'
BY SmolAssumption DEF Figures, Accounted, RecordAllocation

LEMMA ReuseFigures ==
    ASSUME AllocInv, Figures, NEW size, NEW a \in DOMAIN blocks, MallocReuse(size, a)
    PROVE  Figures'
<1> USE DEF AllocInv
<1>1. /\ blocks[a].isFree /\ blocks' = [blocks EXCEPT ![a].isFree = FALSE]
      /\ RecordAllocation(blocks[a].blockSize)
      /\ totalAllocatedBytes + blocks[a].blockSize <= MaxTotal
      /\ UNCHANGED <<pageCount, allocatedPages>>
  BY DEF MallocReuse, FirstFit, Fits
<1>2. /\ DOMAIN blocks' = DOMAIN blocks
      /\ blocks'[a].isFree = FALSE /\ blocks'[a].blockSize = blocks[a].blockSize
      /\ \A b \in DOMAIN blocks \ {a} : blocks'[b] = blocks[b]
  <2>1. /\ DOMAIN blocks' = DOMAIN blocks
        /\ blocks'[a] = [blocks[a] EXCEPT !.isFree = FALSE]
        /\ \A b \in DOMAIN blocks \ {a} : blocks'[b] = blocks[b]
    BY <1>1
  <2>2. blocks[a] \in Header
    BY DEF Blocks
  <2> QED BY <2>1, <2>2 DEF Header
<1>3. a \notin Active /\ Active' = Active \cup {a}
  BY <1>1, <1>2 DEF Active
<1>4. InUse' = InUse \cup Extent(a)
  <2>1. \A b \in DOMAIN blocks : Extent(b)' = Extent(b)
    BY <1>2 DEF Extent
  <2> QED BY <1>3, <2>1 DEF InUse, Active
<1>5. InUse \cap Extent(a) = {}
  BY <1>3, ExtentsDisjoint DEF InUse, Active
<1>6. Cardinality(InUse') = liveBytes + blocks[a].blockSize /\ blocks[a].blockSize \in Nat
  BY <1>4, <1>5, ExtentSize, InUseFinite, DisjointSum DEF Figures, Accounted
<1> QED BY <1>1, <1>6, Recorded DEF Figures, Accounted

LEMMA FreeFigures ==
    ASSUME AllocInv, Figures, NEW ptr \in Payloads, Free(ptr)
    PROVE  Figures'
<1> USE DEF AllocInv
<1> DEFINE a == ptr - HeaderSize
<1>1. /\ a \in Active
      /\ blocks' = [blocks EXCEPT ![a].isFree = TRUE, ![a].nextFree = freeListHead]
      /\ liveBytes' = Monus(liveBytes, blocks[a].blockSize)
      /\ UNCHANGED <<pageCount, allocatedPages, peakLiveBytes, totalAllocatedBytes>>
  BY DEF Free
<1> HIDE DEF a
<1>2. /\ a \in DOMAIN blocks /\ DOMAIN blocks' = DOMAIN blocks
      /\ blocks'[a].isFree = TRUE
      /\ \A b \in DOMAIN blocks \ {a} : blocks'[b] = blocks[b]
  <2>1. /\ a \in DOMAIN blocks /\ DOMAIN blocks' = DOMAIN blocks
        /\ blocks'[a] = [[blocks[a] EXCEPT !.isFree = TRUE] EXCEPT !.nextFree = freeListHead]
        /\ \A b \in DOMAIN blocks \ {a} : blocks'[b] = blocks[b]
    BY <1>1 DEF Active
  <2>2. blocks[a] \in Header
    BY <2>1 DEF Blocks
  <2> QED BY <2>1, <2>2 DEF Header
<1>3. Active' = Active \ {a}
  BY <1>2 DEF Active
<1>4. InUse = InUse' \cup Extent(a) /\ InUse' \cap Extent(a) = {}
  <2>1. \A b \in Active' : Extent(b)' = Extent(b) /\ b \in DOMAIN blocks /\ b # a
    BY <1>2, <1>3 DEF Extent, Active
  <2>2. \A b \in Active' : Extent(b) \cap Extent(a) = {}
    BY <1>2, <2>1, ExtentsDisjoint
  <2>3. InUse' = UNION {Extent(b) : b \in Active'}
    BY <2>1 DEF InUse
  <2> QED BY <1>1, <1>3, <2>2, <2>3 DEF InUse
<1>5. /\ liveBytes = Cardinality(InUse') + blocks[a].blockSize
      /\ Cardinality(InUse') \in Nat /\ blocks[a].blockSize \in Nat
  <2>1. IsFiniteSet(InUse')
    BY <1>4, InUseFinite, FS_Subset
  <2> QED BY <1>2, <1>4, <2>1, ExtentSize, DisjointSum DEF Figures, Accounted
<1>6. liveBytes' = Cardinality(InUse')
  BY <1>1, <1>5 DEF Monus
<1> QED BY <1>1, <1>5, <1>6, SmolAssumption DEF Figures, Accounted

LEMMA FetchFigures ==
    ASSUME AllocInv, Figures, NEW size \in Sizes, MallocFetch(size)
    PROVE  Figures'
<1> USE DEF AllocInv
<1>0. PICK base : base = PageSize * allocatedPages
  OBVIOUS
<1> DEFINE fresh == [blockSize |-> size, isFree |-> FALSE, nextFree |-> NoBlock]
<1>1. /\ blocks' = [a \in DOMAIN blocks \cup {base} |-> IF a = base THEN fresh ELSE blocks[a]]
      /\ RecordAllocation(size)
      /\ totalAllocatedBytes + size <= MaxTotal
      /\ allocatedPages + NumPages(size) <= MaxPages
      /\ pageCount' = pageCount + NumPages(size)
      /\ allocatedPages' = allocatedPages + NumPages(size)
  BY <1>0 DEF MallocFetch
<1>2. size \in Nat /\ NumPages(size) \in Nat
  BY SizesNat, PagesSuffice
<1>3. base \in Nat
  <2>1. allocatedPages \in Nat /\ PageSize \in Nat
    BY SmolAssumption DEF Blocks
  <2> QED BY <1>0, <2>1
<1>4. Payload(base) + size <= PageSize * allocatedPages' /\ AllocInv'
  <2>1. AllocInv'
    BY FetchInv
  <2>2. base \in DOMAIN blocks' /\ blocks'[base].blockSize = size
    BY <1>1
  <2> QED BY <2>1, <2>2 DEF BlocksDisjoint
<1>5. \A a \in DOMAIN blocks :
         a \in Nat /\ blocks[a].blockSize \in Nat /\ Payload(a) + blocks[a].blockSize <= base
  BY <1>0, BasesInt, SizesNat DEF Blocks, Header, BlocksDisjoint
<1>6. base \notin DOMAIN blocks
  BY <1>3, <1>5 DEF Payload, HeaderSize
<1>7. /\ DOMAIN blocks' = DOMAIN blocks \cup {base}
      /\ blocks'[base].isFree = FALSE /\ blocks'[base].blockSize = size
      /\ \A a \in DOMAIN blocks : blocks'[a] = blocks[a]
  BY <1>1, <1>6
<1>8. Active' = Active \cup {base}
  BY <1>6, <1>7 DEF Active
<1> DEFINE E == Payload(base) .. Payload(base) + size - 1
<1>9. InUse' = InUse \cup E
  <2>1. \A a \in Active : Extent(a)' = Extent(a)
    BY <1>7 DEF Extent, Active
  <2>2. Extent(base)' = E
    BY <1>7 DEF Extent
  <2> HIDE DEF E
  <2> QED BY <1>8, <2>1, <2>2 DEF InUse
<1>10. InUse \cap E = {}
  <2>1. \A a \in Active : Extent(a) \cap E = {}
    BY <1>2, <1>3, <1>5 DEF Extent, Payload, HeaderSize, Active
  <2> HIDE DEF E
  <2> QED BY <2>1 DEF InUse
<1>11. IsFiniteSet(E) /\ Cardinality(E) = size
  <2>1. Payload(base) \in Int /\ Payload(base) + size - 1 \in Int
    BY <1>2, <1>3 DEF Payload, HeaderSize
  <2> QED BY <1>2, <2>1, FS_Interval
<1> HIDE DEF E
<1>12. Cardinality(InUse') = liveBytes + size
  BY <1>9, <1>10, <1>11, InUseFinite, DisjointSum DEF Figures, Accounted
<1> QED BY <1>1, <1>2, <1>12, Recorded, SmolAssumption DEF Figures, Accounted

-----------------------------------------------------------------------------

HeapIInv == AllocInv /\ Figures /\ Listed

LEMMA HeapInit == AllocInit => HeapIInv
<1> SUFFICES ASSUME AllocInit PROVE HeapIInv
  OBVIOUS
<1>1. Figures
  <2>1. InUse = {}
    BY DEF AllocInit, InUse, Active
  <2> QED BY <2>1, SmolAssumption, FS_EmptySet DEF AllocInit, Figures, Accounted
<1> QED BY <1>1, InitAllocInv, InitListed DEF HeapIInv

LEMMA HeapNext == HeapIInv /\ [AllocNext]_allocVars => HeapIInv'
<1> SUFFICES ASSUME HeapIInv, [AllocNext]_allocVars PROVE Figures' /\ Listed'
  BY NextAllocInv DEF HeapIInv
<1> USE DEF HeapIInv
<1>1. ASSUME NEW n \in Requests, NEW a \in DOMAIN blocks, MallocReuse(Align8(n), a)
      PROVE  Figures' /\ Listed'
  BY <1>1, ReuseFigures, ReuseListed DEF AllocInv
<1>2. ASSUME NEW n \in Requests, MallocFetch(Align8(n)) PROVE Figures' /\ Listed'
  BY <1>2, SizeType, FetchFigures, FetchListed
<1>3. ASSUME NEW ptr \in Payloads, Free(ptr) PROVE Figures' /\ Listed'
  BY <1>3, FreeFigures, FreeListed DEF AllocInv
<1>4. CASE UNCHANGED allocVars
  BY <1>4 DEF allocVars, usage, obligations, Figures, Accounted, InUse, Extent, Active, Listed
<1> QED BY <1>1, <1>2, <1>3, <1>4 DEF AllocNext, MallocFails, FreeRefused

(* After any sequence of mallocs and frees the free list is a finite list  *)
(* of free blocks that the search reaches the end of, and the live bytes   *)
(* are as many as there are addresses handed out: of                       *)
(* Stdlib/SmolAlloc/Spec.lean, for every page size and all request sizes.  *)
THEOREM HeapSound == AllocSpec => []HeapInv
<1>1. HeapIInv => HeapInv
  <2> SUFFICES ASSUME HeapIInv PROVE HeapInv
    OBVIOUS
  <2>1. FreeListSound
    BY ListedIsSound DEF HeapIInv, AllocInv
  <2>2. AllocTypeOK
    BY DEF HeapIInv, AllocInv, Blocks, Figures, AllocTypeOK, ObligationsExact
  <2> QED BY <2>1, <2>2 DEF HeapIInv, Figures, HeapInv
<1> QED BY <1>1, HeapInit, HeapNext, PTL DEF AllocSpec

-----------------------------------------------------------------------------
(***************************************************************************)
(* HttpRuntime, for every alphabet, budget, transfer size, grammar and     *)
(* list of requests.                                                       *)
(*                                                                         *)
(* AnswersByLine and ObservesExactly speak of answers that were given;     *)
(* they become inductive with what the parser knows in the middle of a     *)
(* request (Undecided: there is no line end so far, a CR is held back      *)
(* exactly after a CR, and what is retained is the consumed prefix until   *)
(* two CRs meet) and with what a decision is worth (Decided).              *)
(***************************************************************************)

Driving == {"recv", "send", "close"}

(* Between two connections the driver is in its default state.             *)
FreshDrive ==
    phase \notin Driving =>
        /\ line = <<>> /\ pendingCR = FALSE /\ pos = 0
        /\ current = <<>> /\ flushed = <<>> /\ chunks = <<>>
        /\ result = "none"

(* What was received and sent belongs to the requests in their order.      *)
Counted ==
    /\ phase = "listen" => served = 0
    /\ phase \in Driving \cup {"accept"} => served < Len(requests)
    /\ Len(sent) = IF phase = "close" THEN served + 1 ELSE served
    /\ Len(received) = IF phase \in {"send", "close"} THEN served + 1 ELSE served

(* The driver is inside its request, and leaves it only with a decision or *)
(* at its end, with nothing left to flush.                                 *)
Positioned ==
    /\ phase \in Driving => pos <= Len(Request) /\ (result # "none" => current = <<>>)
    /\ phase \in {"send", "close"} =>
          current = <<>> /\ (result # "none" \/ pos = Len(Request))

(* The bytes of the prefix that are in the line, a held-back CR left out.  *)
Kept == IF pendingCR THEN pos - 1 ELSE pos

(* What the parser knows of request r before it decides.                   *)
Undecided(r) ==
    /\ \A i \in 1 .. pos - 1 : ~(r[i] = CR /\ r[i + 1] = LF)
    /\ pendingCR <=> pos > 0 /\ r[pos] = CR
    /\ Len(line) >= Kept
    /\ \/ line = SubSeq(r, 1, Kept)
       \/ /\ \E i \in 1 .. pos - 1 : r[i] = CR /\ r[i + 1] = CR
          /\ \E i \in DOMAIN line : line[i] = CR

(* What an answer to request r may be.                                     *)
Correct(r, route) == route = Answer(r) \/ (DoubleCR(r) /\ route = "resourceExhausted")

(* What a decision is worth.                                               *)
Decided(r) ==
    /\ Correct(r, result)
    /\ ~DoubleCR(r) => pos = ObservedSize(r)

Parsed ==
    phase \in Driving => IF result = "none" THEN Undecided(Request) ELSE Decided(Request)

HttpInv ==
    /\ TypeOK /\ FreshDrive /\ Counted /\ Positioned /\ TransfersTile /\ Parsed
    /\ AnswersByLine /\ ObservesExactly

-----------------------------------------------------------------------------
(* Facts about sequences                                                   *)

(* One more byte of a prefix.                                              *)
LEMMA PrefixGrows ==
    ASSUME NEW S, NEW r \in Seq(S), NEW n \in 0 .. Len(r) - 1
    PROVE  SubSeq(r, 1, n + 1) = Append(SubSeq(r, 1, n), r[n + 1])
<1>1. Len(r) \in Nat /\ n + 1 \in 1 .. Len(r) /\ 1 \in 1 .. Len(r) /\ (n + 1) - 1 = n
  BY LenProperties
<1>2. SubSeq(r, 1, n + 1) = SubSeq(r, 1, n) \o <<r[n + 1]>>
  <2>1. n + 1 \in 1 .. Len(r) /\ 1 \in 1 .. Len(r)
    BY <1>1
  <2> QED BY <1>1, <2>1, SubSeqRecursiveSecond
<1>3. SubSeq(r, 1, n) \in Seq(S) /\ r[n + 1] \in S
  <2>1. \A i \in 1 .. n : r[i] \in S
    BY <1>1, ElementOfSeq
  <2> QED BY <1>1, <2>1, SubSeqProperties, ElementOfSeq
<1> QED BY <1>2, <1>3, AppendIsConcat

(* A byte joins the right part of a concatenation.                         *)
LEMMA AppendRight ==
    ASSUME NEW S, NEW s \in Seq(S), NEW t \in Seq(S), NEW e \in S
    PROVE  s \o Append(t, e) = Append(s \o t, e)
<1>1. Append(t, e) = t \o <<e>> /\ <<e>> \in Seq(S)
  BY AppendIsConcat
<1>2. s \o t \in Seq(S)
  BY ConcatProperties
<1>3. Append(s \o t, e) = (s \o t) \o <<e>>
  BY <1>2, AppendIsConcat
<1> QED BY <1>1, <1>3, ConcatAssociative

(* A nonempty set of naturals has a least element.                         *)
LEMMA LeastElement ==
    ASSUME NEW T, T \subseteq Nat, T # {}
    PROVE  \E x \in T : \A y \in T : x <= y
<1> DEFINE R == {p \in Nat \X Nat : p[1] < p[2]}
<1>1. IsWellFoundedOn(R, Nat)
  BY NatLessThanWellFounded DEF OpToRel
<1>2. \A x, y \in Nat : y < x => <<y, x>> \in R
  OBVIOUS
<1> HIDE DEF R
<1>3. PICK x \in T : \A y \in T : <<y, x>> \notin R
  BY <1>1, WFMin
<1>4. \A y \in T : x <= y
  <2> TAKE y \in T
  <2>1. x \in Nat /\ y \in Nat
    OBVIOUS
  <2>2. ~(y < x)
    BY <1>2, <1>3, <2>1
  <2> QED BY <2>1, <2>2
<1> QED BY <1>4

(* A prefix is a sequence, and holds what its whole holds.                 *)
LEMMA PrefixProperties ==
    ASSUME NEW S, NEW r \in Seq(S), NEW n \in 0 .. Len(r)
    PROVE  /\ SubSeq(r, 1, n) \in Seq(S)
           /\ Len(SubSeq(r, 1, n)) = n
           /\ \A i \in 1 .. n : SubSeq(r, 1, n)[i] = r[i]
<1>1. Len(r) \in Nat /\ \A i \in 1 .. n : r[i] \in S
  BY LenProperties, ElementOfSeq
<1> QED BY <1>1, SubSeqProperties

-----------------------------------------------------------------------------
(* Facts about requests and lines                                          *)

LEMMA RouteOfType == ASSUME NEW l PROVE RouteOf(l) \in Routes
BY HttpAssumption DEF RouteOf, Routes

(* A line that holds a CR does not parse.                                  *)
LEMMA NoCRParses ==
    ASSUME NEW l, \E i \in DOMAIN l : l[i] = CR
    PROVE  RouteOf(l) = "badRequest"
BY HttpAssumption DEF RouteOf

(* The request that is driven is one.                                      *)
LEMMA RequestType ==
    ASSUME TypeOK, served < Len(requests)
    PROVE  Request \in Seq(Bytes) /\ Len(Request) \in Nat
<1>1. served + 1 \in 1 .. Len(requests)
  BY LenProperties DEF TypeOK
<1>2. Request \in Seq(Bytes)
  BY <1>1, ElementOfSeq DEF TypeOK, Request
<1> QED BY <1>2, LenProperties

(* A first CR LF is the end of the line.                                   *)
LEMMA LineWithEnd ==
    ASSUME NEW r \in Seq(Bytes), NEW n \in 1 .. Len(r) - 1,
           r[n] = CR, r[n + 1] = LF,
           \A i \in 1 .. n - 1 : ~(r[i] = CR /\ r[i + 1] = LF)
    PROVE  /\ LineEnds(r) # {} /\ FirstEnd(r) = n
           /\ RequestLine(r) = SubSeq(r, 1, n - 1)
           /\ LineSize(r) = n - 1
<1>0. Len(r) \in Nat
  BY LenProperties
<1>1. n \in LineEnds(r) /\ LineEnds(r) \subseteq Int /\ \A j \in LineEnds(r) : n <= j
  BY <1>0 DEF LineEnds
<1>2. FirstEnd(r) \in LineEnds(r) /\ \A j \in LineEnds(r) : FirstEnd(r) <= j
  BY <1>1 DEF FirstEnd
<1>3. FirstEnd(r) = n
  BY <1>1, <1>2
<1>4. RequestLine(r) = SubSeq(r, 1, n - 1)
  BY <1>1, <1>3 DEF RequestLine
<1>5. Len(SubSeq(r, 1, n - 1)) = n - 1
  BY <1>0, PrefixProperties
<1> QED BY <1>1, <1>3, <1>4, <1>5 DEF LineSize

(* Without CR LF the line is the request.                                  *)
LEMMA LineWithoutEnd ==
    ASSUME NEW r \in Seq(Bytes),
           \A i \in 1 .. Len(r) - 1 : ~(r[i] = CR /\ r[i + 1] = LF)
    PROVE  /\ LineEnds(r) = {} /\ RequestLine(r) = r
           /\ LineSize(r) = IF Len(r) > 0 /\ r[Len(r)] = CR THEN Len(r) - 1 ELSE Len(r)
<1>1. LineEnds(r) = {}
  BY DEF LineEnds
<1>2. r # <<>> <=> Len(r) > 0
  BY EmptySeq
<1> QED BY <1>1, <1>2 DEF RequestLine, LineSize

-----------------------------------------------------------------------------
(* What the parser's knowledge is worth at the three places it decides     *)

(* At CR LF the retained line gives the answer.                            *)
LEMMA EndIsCorrect ==
    ASSUME TypeOK, NEW r \in Seq(Bytes), pos < Len(r), Undecided(r),
           pendingCR, r[pos + 1] = LF
    PROVE  RouteOf(line) = Answer(r) /\ pos + 1 = ObservedSize(r)
<1>0. Len(r) \in Nat /\ pos \in 1 .. Len(r) - 1 /\ Kept = pos - 1
  <2>1. pos \in Nat /\ pos > 0
    BY DEF TypeOK, Undecided
  <2>2. Kept = pos - 1
    BY DEF Kept
  <2> QED BY ONLY <2>1, <2>2, LenProperties, r \in Seq(Bytes), pos < Len(r)
<1>1. /\ LineEnds(r) # {} /\ FirstEnd(r) = pos
      /\ RequestLine(r) = SubSeq(r, 1, pos - 1) /\ LineSize(r) = pos - 1
  BY <1>0, LineWithEnd DEF Undecided
<1>2. pos - 1 <= Budget
  BY <1>0, HttpAssumption, LenProperties DEF TypeOK, Undecided
<1>3. ~(LineSize(r) > Budget)
  BY <1>0, <1>1, <1>2, HttpAssumption
<1>4. RouteOf(line) = RouteOf(RequestLine(r))
  <2>1. CASE line = SubSeq(r, 1, Kept)
    BY <2>1, <1>0, <1>1
  <2>2. CASE /\ \E i \in 1 .. pos - 1 : r[i] = CR /\ r[i + 1] = CR
             /\ \E i \in DOMAIN line : line[i] = CR
    <3>1. RouteOf(line) = "badRequest"
      BY <2>2, NoCRParses
    <3>2. PICK i \in 1 .. pos - 1 : r[i] = CR
      BY <2>2
    <3>3. /\ SubSeq(r, 1, pos - 1) \in Seq(Bytes) /\ Len(SubSeq(r, 1, pos - 1)) = pos - 1
          /\ SubSeq(r, 1, pos - 1)[i] = r[i]
      BY <1>0, <3>2, PrefixProperties
    <3>4. i \in DOMAIN SubSeq(r, 1, pos - 1)
      BY <3>2, <3>3, LenProperties
    <3>5. RouteOf(RequestLine(r)) = "badRequest"
      BY <1>1, <3>2, <3>3, <3>4, NoCRParses
    <3> QED BY <3>1, <3>5
  <2> QED BY <2>1, <2>2 DEF Undecided
<1> QED BY <1>0, <1>1, <1>3, <1>4 DEF Answer, ObservedSize

(* At the end of the request the finished line gives the answer.           *)
LEMMA FinishIsCorrect ==
    ASSUME TypeOK, NEW r \in Seq(Bytes), pos = Len(r), Undecided(r)
    PROVE  RouteOf(FinishedLine) = Answer(r) /\ pos = ObservedSize(r)
<1>0. Len(r) \in Nat
  BY LenProperties
<1>1. /\ LineEnds(r) = {} /\ RequestLine(r) = r
      /\ LineSize(r) = IF Len(r) > 0 /\ r[Len(r)] = CR THEN Len(r) - 1 ELSE Len(r)
  BY LineWithoutEnd DEF Undecided
<1>2. LineSize(r) = Kept
  BY <1>0, <1>1 DEF Undecided, Kept
<1>3. ~(LineSize(r) > Budget)
  BY <1>0, <1>1, <1>2, HttpAssumption, LenProperties DEF TypeOK, Undecided
<1>4. RouteOf(FinishedLine) = RouteOf(r)
  <2>1. CASE line = SubSeq(r, 1, Kept) /\ pendingCR
    <3>1. pos - 1 \in 0 .. Len(r) - 1 /\ (pos - 1) + 1 = pos /\ Kept = pos - 1 /\ r[pos] = CR
      BY <2>1, <1>0 DEF Undecided, Kept
    <3>2. SubSeq(r, 1, pos) = Append(SubSeq(r, 1, pos - 1), CR)
      BY <3>1, PrefixGrows
    <3>3. SubSeq(r, 1, pos) = r
      BY SubSeqFull
    <3> QED BY <2>1, <3>1, <3>2, <3>3 DEF FinishedLine
  <2>2. CASE line = SubSeq(r, 1, Kept) /\ ~pendingCR
    BY <2>2, SubSeqFull DEF FinishedLine, Kept
  <2>3. CASE /\ \E i \in 1 .. pos - 1 : r[i] = CR /\ r[i + 1] = CR
             /\ \E i \in DOMAIN line : line[i] = CR
    <3>1. PICK i \in DOMAIN line : line[i] = CR
      BY <2>3
    <3>2. i \in DOMAIN FinishedLine /\ FinishedLine[i] = CR
      BY <3>1, AppendProperties, LenProperties, HttpAssumption DEF FinishedLine, TypeOK
    <3>3. \E j \in DOMAIN r : r[j] = CR
      BY <2>3, <1>0, LenProperties
    <3> QED BY <3>2, <3>3, NoCRParses
  <2> QED BY <2>1, <2>2, <2>3 DEF Undecided
<1> QED BY <1>1, <1>3, <1>4 DEF Answer, ObservedSize

(* A line that does not fit, without two CRs in a row, is too long.        *)
LEMMA ExhaustIsCorrect ==
    ASSUME TypeOK, NEW r \in Seq(Bytes), pos < Len(r), Undecided(r), ~DoubleCR(r),
           IF pendingCR THEN r[pos + 1] # LF ELSE r[pos + 1] # CR,
           Len(line) + (IF pendingCR THEN 2 ELSE 1) > Budget
    PROVE  Answer(r) = "resourceExhausted" /\ pos + 1 = ObservedSize(r)
<1>0. Len(r) \in Nat /\ pos \in 0 .. Len(r) - 1 /\ Budget \in Nat
  BY LenProperties, HttpAssumption DEF TypeOK
<1>1. r[pos + 1] # CR
  BY <1>0 DEF Undecided, DoubleCR
<1>2. line = SubSeq(r, 1, Kept) /\ Kept \in 0 .. Len(r)
  BY <1>0 DEF Undecided, Kept, DoubleCR
<1>3. Len(line) = Kept /\ Kept <= Budget
  BY <1>2, PrefixProperties DEF TypeOK
<1>4. pos + 1 > Budget
  BY <1>0, <1>3 DEF Kept
<1>5. \A i \in LineEnds(r) : i >= pos + 2
  BY <1>0, <1>1 DEF LineEnds, Undecided
<1>6. LineSize(r) > Budget
  <2>1. CASE LineEnds(r) = {}
    <3>1. \A i \in 1 .. Len(r) - 1 : ~(r[i] = CR /\ r[i + 1] = LF)
      BY <2>1 DEF LineEnds
    <3>2. LineSize(r) = IF Len(r) > 0 /\ r[Len(r)] = CR THEN Len(r) - 1 ELSE Len(r)
      BY <3>1, LineWithoutEnd
    <3> QED BY <3>2, <1>0, <1>1, <1>4
  <2>2. CASE LineEnds(r) # {}
    <3>1. LineEnds(r) \subseteq Nat
      BY DEF LineEnds
    <3>2. FirstEnd(r) \in LineEnds(r)
      BY <2>2, <3>1, LeastElement DEF FirstEnd
    <3>3. FirstEnd(r) - 1 \in 0 .. Len(r) /\ FirstEnd(r) >= pos + 2
      BY <1>0, <1>5, <3>2 DEF LineEnds
    <3>4. Len(SubSeq(r, 1, FirstEnd(r) - 1)) = FirstEnd(r) - 1
      BY <3>3, PrefixProperties
    <3>5. LineSize(r) = FirstEnd(r) - 1
      BY <2>2, <3>4 DEF LineSize, RequestLine
    <3> QED BY <1>0, <1>4, <3>1, <3>2, <3>3, <3>5
  <2> QED BY <2>1, <2>2
<1>7. IF r[Budget + 1] = CR THEN pos = Budget + 1 ELSE pos = Budget
  BY <1>0, <1>1, <1>3, <1>4 DEF Undecided, Kept, DoubleCR
<1> QED BY <1>0, <1>6, <1>7 DEF Answer, ObservedSize

-----------------------------------------------------------------------------
(* The steps                                                               *)

LEMMA InitHttp == Init => HttpInv
<1> SUFFICES ASSUME Init PROVE HttpInv
  OBVIOUS
<1> USE DEF Init, Driving
<1>1. requests \in Seq(Seq(Bytes)) /\ Len(requests) \in Nat
  BY HttpAssumption, LenProperties
<1>2. TypeOK
  <2>1. /\ <<>> \in Seq(Bytes) /\ Len(<<>>) = 0 /\ <<>> \in Seq(Nat)
        /\ <<>> \in Seq(Seq(Bytes)) /\ <<>> \in Seq(Routes)
    BY EmptySeq
  <2>2. line \in Seq(Bytes) /\ Len(line) <= Budget /\ served \in 0 .. Len(requests)
    BY <1>1, <2>1, HttpAssumption
  <2> QED BY <1>1, <2>1, <2>2 DEF TypeOK
<1>3. FreshDrive /\ Counted /\ Positioned /\ Parsed
  BY EmptySeq DEF FreshDrive, Counted, Positioned, Parsed
<1>4. TransfersTile
  BY HttpAssumption, EmptySeq, LenProperties DEF TransfersTile
<1>5. AnswersByLine /\ ObservesExactly
  BY EmptySeq, LenProperties DEF AnswersByLine, ObservesExactly
<1> QED BY <1>2, <1>3, <1>4, <1>5 DEF HttpInv

(* Listening, and closing, leads to the next request or to the end; the    *)
(* driver is in its default state.                                         *)
LEMMA ConnectionInv ==
    ASSUME HttpInv, Listen \/ Accept \/ Close
    PROVE  HttpInv'
<1> USE DEF HttpInv, Driving
<1>0. /\ served \in Nat /\ Len(requests) \in Nat /\ Len(sent) \in Nat /\ Len(received) \in Nat
      /\ <<>> \in Seq(Bytes) /\ <<>> \in Seq(Nat) /\ Len(<<>>) = 0
  BY LenProperties, EmptySeq DEF TypeOK
<1>1. CASE Listen
  <2> USE <1>0, <1>1 DEF Listen, NextConnection, drive
  <2>1. TypeOK' /\ FreshDrive' /\ Counted' /\ Positioned' /\ Parsed'
    BY DEF TypeOK, FreshDrive, Counted, Positioned, Parsed
  <2>2. TransfersTile'
    BY DEF TransfersTile, FreshDrive
  <2> QED BY <2>1, <2>2 DEF AnswersByLine, ObservesExactly
<1>2. CASE Accept
  <2> USE <1>0, <1>2 DEF Accept, drive
  <2>1. TypeOK' /\ FreshDrive' /\ Counted'
    BY DEF TypeOK, FreshDrive, Counted
  <2>2. Request' = Request /\ Request \in Seq(Bytes) /\ Len(Request) \in Nat
    BY RequestType DEF Request, Counted
  <2>3. Positioned' /\ TransfersTile'
    <3>1. SubSeq(Request, 1, 0) = <<>> /\ <<>> \o <<>> = <<>>
      BY <2>2, PrefixProperties, EmptySeq, ConcatEmptySeq
    <3>2. Positioned'
      BY <2>2 DEF Positioned, FreshDrive
    <3> QED BY <2>2, <3>1, <3>2 DEF TransfersTile, FreshDrive
  <2>4. Parsed'
    <3>1. SubSeq(Request, 1, 0) = <<>>
      BY <2>2, PrefixProperties, EmptySeq
    <3> QED BY <2>2, <3>1 DEF Parsed, Undecided, Kept, FreshDrive
  <2> QED BY <2>1, <2>3, <2>4 DEF AnswersByLine, ObservesExactly
<1>3. CASE Close
  <2> USE <1>0, <1>3 DEF Close, NextConnection
  <2>1. TypeOK'
    <3>1. line' \in Seq(Bytes) /\ Len(line') <= Budget /\ served' \in 0 .. Len(requests')
      BY HttpAssumption DEF TypeOK, Counted
    <3> QED BY <3>1 DEF TypeOK
  <2>2. FreshDrive' /\ Counted' /\ Positioned' /\ Parsed'
    BY DEF TypeOK, FreshDrive, Counted, Positioned, Parsed
  <2>3. TransfersTile'
    BY HttpAssumption, LenProperties DEF TransfersTile
  <2> QED BY <2>1, <2>2, <2>3 DEF AnswersByLine, ObservesExactly
<1> QED BY <1>1, <1>2, <1>3

(* What every byte does, whatever the parser makes of it: it joins the     *)
(* transfers, and nothing else of the connection changes.                  *)
LEMMA ReadByteInv ==
    ASSUME HttpInv, NEW decided \in BOOLEAN, ReadByte(decided),
           decided <=> result' # "none"
    PROVE  /\ FreshDrive' /\ Counted' /\ Positioned' /\ TransfersTile'
           /\ AnswersByLine' /\ ObservesExactly'
           /\ requests' = requests /\ served' = served /\ phase' = phase /\ pos' = pos + 1
           /\ received' = received /\ sent' = sent
           /\ current' \in Seq(Bytes) /\ flushed' \in Seq(Bytes) /\ chunks' \in Seq(Nat)
           /\ Request' = Request /\ Request \in Seq(Bytes) /\ Byte \in Bytes
           /\ pos \in 0 .. Len(Request) - 1 /\ Len(Request) \in Nat
           /\ Undecided(Request)
<1> USE DEF HttpInv, Driving
<1>1. /\ phase = "recv" /\ result = "none" /\ pos < Len(Request)
      /\ requests' = requests /\ served' = served /\ phase' = phase /\ pos' = pos + 1
      /\ received' = received /\ sent' = sent
      /\ Transfer(decided)
  BY DEF ReadByte
<1>2. /\ served < Len(requests) /\ Request \in Seq(Bytes) /\ Len(Request) \in Nat
      /\ pos \in 0 .. Len(Request) - 1 /\ Request' = Request
  BY <1>1, RequestType DEF Counted, TypeOK, Request
<1>3. Byte \in Bytes
  BY <1>2, ElementOfSeq DEF Byte
<1> DEFINE bytes == Append(current, Byte)
<1>4. bytes \in Seq(Bytes) /\ Len(bytes) = Len(current) + 1 /\ Len(current) \in Nat
  BY <1>3, AppendProperties, LenProperties DEF TypeOK
<1>5. flushed \o bytes = SubSeq(Request, 1, pos + 1)
  <2>1. flushed \o bytes = Append(flushed \o current, Byte)
    BY <1>3, AppendRight DEF TypeOK
  <2>2. flushed \o current = SubSeq(Request, 1, pos)
    BY <1>1 DEF TransfersTile
  <2> QED BY <1>2, <2>1, <2>2, PrefixGrows DEF Byte
<1>6. \A i \in DOMAIN chunks : chunks[i] = ReadChunk
  BY <1>1 DEF TransfersTile
<1>7. CASE decided \/ Len(bytes) = ReadChunk
  <2>1. /\ flushed' = flushed \o bytes /\ current' = <<>>
        /\ chunks' = Append(chunks, Len(bytes))
    BY <1>1, <1>7 DEF Transfer
  <2>2. /\ flushed' \in Seq(Bytes) /\ current' \in Seq(Bytes) /\ Len(current') = 0
        /\ flushed' \o current' = flushed'
    BY <1>4, <2>1, ConcatProperties, ConcatEmptySeq, EmptySeq DEF TypeOK
  <2>3. /\ chunks' \in Seq(Nat) /\ DOMAIN chunks' = 1 .. Len(chunks) + 1
        /\ Len(chunks') = Len(chunks) + 1 /\ Len(chunks) \in Nat
        /\ DOMAIN chunks = 1 .. Len(chunks)
        /\ \A i \in 1 .. Len(chunks) : chunks'[i] = chunks[i]
        /\ chunks'[Len(chunks) + 1] = Len(bytes)
    BY <1>4, <2>1, AppendProperties, LenProperties DEF TypeOK
  <2>4. \A i \in DOMAIN chunks' :
            chunks'[i] = ReadChunk \/ (i = Len(chunks') /\ result' # "none")
    BY <1>6, <1>7, <2>3
  <2>5. TransfersTile'
    BY <1>1, <1>2, <1>5, <2>1, <2>2, <2>4, HttpAssumption DEF TransfersTile
  <2> QED BY <1>1, <1>2, <1>3, <2>2, <2>3, <2>5
          DEF FreshDrive, Counted, Positioned, AnswersByLine, ObservesExactly, Parsed
<1>8. CASE ~(decided \/ Len(bytes) = ReadChunk)
  <2>1. flushed' = flushed /\ current' = bytes /\ chunks' = chunks
    BY <1>1, <1>8 DEF Transfer
  <2>2. Len(current') < ReadChunk
    BY <1>4, <1>8, <2>1, HttpAssumption DEF TransfersTile
  <2>3. TransfersTile'
    BY <1>1, <1>2, <1>5, <1>6, <2>1, <2>2 DEF TransfersTile
  <2>4. Positioned'
    <3>1. result' = "none"
      BY <1>8
    <3> QED BY <1>1, <1>2, <3>1 DEF Positioned
  <2>5. FreshDrive' /\ Counted' /\ AnswersByLine' /\ ObservesExactly'
    BY <1>1, <1>2 DEF FreshDrive, Counted, AnswersByLine, ObservesExactly
  <2>6. chunks' \in Seq(Nat) /\ flushed' \in Seq(Bytes)
    BY <2>1 DEF TypeOK
  <2> QED BY <1>1, <1>2, <1>3, <1>4, <2>1, <2>3, <2>4, <2>5, <2>6 DEF Parsed
<1> QED BY <1>7, <1>8

(* A byte that decides: what the parser knew makes the decision correct.   *)
LEMMA EndLineInv == ASSUME HttpInv, EndLine PROVE HttpInv'
<1>1. /\ ReadByte(TRUE) /\ pendingCR /\ Byte = LF /\ result' = RouteOf(line)
      /\ line' = line /\ pendingCR' = pendingCR
  BY DEF EndLine
<1>2. result' \in Routes /\ result' # "none"
  BY <1>1, RouteOfType DEF Routes
<1>3. /\ FreshDrive' /\ Counted' /\ Positioned' /\ TransfersTile'
      /\ AnswersByLine' /\ ObservesExactly'
      /\ requests' = requests /\ served' = served /\ phase' = phase /\ pos' = pos + 1
      /\ received' = received /\ sent' = sent
      /\ current' \in Seq(Bytes) /\ flushed' \in Seq(Bytes) /\ chunks' \in Seq(Nat)
      /\ Request' = Request /\ Request \in Seq(Bytes) /\ Byte \in Bytes
      /\ pos \in 0 .. Len(Request) - 1 /\ Len(Request) \in Nat
      /\ Undecided(Request)
  BY <1>1, <1>2, ReadByteInv
<1>4. TypeOK'
  BY <1>1, <1>2, <1>3 DEF HttpInv, TypeOK
<1>5. RouteOf(line) = Answer(Request) /\ pos + 1 = ObservedSize(Request)
  BY <1>1, <1>3, EndIsCorrect DEF HttpInv, Byte
<1>6. Parsed'
  BY <1>1, <1>2, <1>3, <1>5 DEF Parsed, Decided, Correct
<1> QED BY <1>3, <1>4, <1>6 DEF HttpInv

LEMMA ExhaustInv == ASSUME HttpInv, Exhaust PROVE HttpInv'
<1>1. /\ ReadByte(TRUE) /\ Ordinary /\ Len(line) + Len(Retained) > Budget
      /\ result' = "resourceExhausted" /\ line' = line /\ pendingCR' = pendingCR
  BY DEF Exhaust
<1>2. result' \in Routes /\ result' # "none"
  BY <1>1 DEF Routes
<1>3. /\ FreshDrive' /\ Counted' /\ Positioned' /\ TransfersTile'
      /\ AnswersByLine' /\ ObservesExactly'
      /\ requests' = requests /\ served' = served /\ phase' = phase /\ pos' = pos + 1
      /\ received' = received /\ sent' = sent
      /\ current' \in Seq(Bytes) /\ flushed' \in Seq(Bytes) /\ chunks' \in Seq(Nat)
      /\ Request' = Request /\ Request \in Seq(Bytes) /\ Byte \in Bytes
      /\ pos \in 0 .. Len(Request) - 1 /\ Len(Request) \in Nat
      /\ Undecided(Request)
  BY <1>1, <1>2, ReadByteInv
<1>4. TypeOK'
  BY <1>1, <1>2, <1>3 DEF HttpInv, TypeOK
<1>5. ~DoubleCR(Request) =>
         Answer(Request) = "resourceExhausted" /\ pos + 1 = ObservedSize(Request)
  <2>1. Len(line) + (IF pendingCR THEN 2 ELSE 1) > Budget
    BY <1>1 DEF Retained
  <2>2. IF pendingCR THEN Request[pos + 1] # LF ELSE Request[pos + 1] # CR
    BY <1>1 DEF Ordinary, Byte
  <2> QED BY <1>3, <2>1, <2>2, ExhaustIsCorrect DEF HttpInv
<1>6. Parsed'
  BY <1>1, <1>2, <1>3, <1>5 DEF Parsed, Decided, Correct
<1> QED BY <1>3, <1>4, <1>6 DEF HttpInv

(* A CR that is held back: the line stays, and the prefix it stands for.   *)
LEMMA HoldCRInv == ASSUME HttpInv, HoldCR PROVE HttpInv'
<1>1. /\ ReadByte(FALSE) /\ ~pendingCR /\ Byte = CR /\ pendingCR' = TRUE
      /\ line' = line /\ result' = result /\ result' = "none"
  BY DEF HoldCR, ReadByte
<1>3. /\ FreshDrive' /\ Counted' /\ Positioned' /\ TransfersTile'
      /\ AnswersByLine' /\ ObservesExactly'
      /\ requests' = requests /\ served' = served /\ phase' = phase /\ pos' = pos + 1
      /\ received' = received /\ sent' = sent
      /\ current' \in Seq(Bytes) /\ flushed' \in Seq(Bytes) /\ chunks' \in Seq(Nat)
      /\ Request' = Request /\ Request \in Seq(Bytes) /\ Byte \in Bytes
      /\ pos \in 0 .. Len(Request) - 1 /\ Len(Request) \in Nat
      /\ Undecided(Request)
  BY <1>1, ReadByteInv
<1>4. TypeOK'
  BY <1>1, <1>3 DEF HttpInv, TypeOK
<1>5. Undecided(Request)'
  <2> USE <1>1, <1>3 DEF Undecided
  <2>1. Kept' = Kept /\ Kept = pos
    BY DEF Kept
  <2>2. \A i \in 1 .. pos' - 1 : ~(Request[i] = CR /\ Request[i + 1] = LF)
    BY HttpAssumption DEF Byte
  <2>3. pendingCR' <=> pos' > 0 /\ Request[pos'] = CR
    BY DEF Byte
  <2>4. \/ line' = SubSeq(Request, 1, Kept')
        \/ /\ \E i \in 1 .. pos' - 1 : Request[i] = CR /\ Request[i + 1] = CR
           /\ \E i \in DOMAIN line' : line'[i] = CR
    <3>1. CASE line = SubSeq(Request, 1, Kept)
      BY ONLY <1>1, <2>1, <3>1
    <3>2. CASE /\ \E i \in 1 .. pos - 1 : Request[i] = CR /\ Request[i + 1] = CR
               /\ \E i \in DOMAIN line : line[i] = CR
      <4>1. line' = line /\ pos' = pos + 1 /\ pos \in Nat
        BY ONLY <1>1, <1>3
      <4> QED BY ONLY <4>1, <3>2
    <3> QED BY <3>1, <3>2
  <2> QED BY <2>1, <2>2, <2>3, <2>4
<1> QED BY <1>1, <1>3, <1>4, <1>5 DEF HttpInv, Parsed

(* What the line becomes when a byte, and a CR before it, is retained.     *)
LEMMA RetainedProperties ==
    ASSUME TypeOK, Byte \in Bytes
    PROVE  /\ line \o Retained \in Seq(Bytes)
           /\ Len(line \o Retained) = Len(line) + Len(Retained)
           /\ Len(Retained) = IF pendingCR THEN 2 ELSE 1
           /\ \A i \in DOMAIN line : i \in DOMAIN (line \o Retained) /\ (line \o Retained)[i] = line[i]
           /\ pendingCR => \E i \in DOMAIN (line \o Retained) : (line \o Retained)[i] = CR
           /\ ~pendingCR => line \o Retained = Append(line, Byte)
           /\ pendingCR => line \o Retained = Append(Append(line, CR), Byte)
<1>1. line \in Seq(Bytes) /\ Len(line) \in Nat /\ DOMAIN line = 1 .. Len(line) /\ CR \in Bytes
  BY LenProperties, HttpAssumption DEF TypeOK
<1>2. CASE ~pendingCR
  <2>1. Retained = <<Byte>> /\ line \o Retained = Append(line, Byte) /\ Len(Retained) = 1
    BY <1>1, <1>2, AppendIsConcat DEF Retained
  <2> QED BY <1>1, <1>2, <2>1, AppendProperties, LenProperties
<1>3. CASE pendingCR
  <2>1. Retained = <<CR, Byte>> /\ Len(Retained) = 2
    BY <1>3 DEF Retained
  <2>2. Retained = Append(<<CR>>, Byte) /\ <<CR>> \in Seq(Bytes)
    BY <1>1, <2>1
  <2>3. line \o Retained = Append(line \o <<CR>>, Byte)
    BY <1>1, <2>2, AppendRight
  <2>4. line \o <<CR>> = Append(line, CR)
    BY <1>1, AppendIsConcat
  <2>5. /\ Append(line, CR) \in Seq(Bytes) /\ Len(Append(line, CR)) = Len(line) + 1
        /\ \A i \in 1 .. Len(line) : Append(line, CR)[i] = line[i]
        /\ Append(line, CR)[Len(line) + 1] = CR
    BY <1>1, AppendProperties
  <2> DEFINE longer == Append(Append(line, CR), Byte)
  <2>6. /\ longer \in Seq(Bytes) /\ Len(longer) = Len(line) + 2
        /\ \A i \in 1 .. Len(line) + 1 : longer[i] = Append(line, CR)[i]
        /\ DOMAIN longer = 1 .. Len(line) + 2
    <3>1. /\ longer \in Seq(Bytes) /\ Len(longer) = Len(Append(line, CR)) + 1
          /\ \A i \in 1 .. Len(Append(line, CR)) : longer[i] = Append(line, CR)[i]
      BY <2>5, AppendProperties
    <3> QED BY <1>1, <2>5, <3>1, LenProperties
  <2>7. line \o Retained = longer
    BY <2>3, <2>4
  <2> HIDE DEF longer
  <2>8. longer[Len(line) + 1] = CR /\ Len(line) + 1 \in DOMAIN longer
    BY <1>1, <2>5, <2>6
  <2>9. \A i \in DOMAIN line : i \in DOMAIN longer /\ longer[i] = line[i]
    BY <1>1, <2>5, <2>6
  <2> QED BY <1>3, <2>1, <2>6, <2>7, <2>8, <2>9 DEF longer
<1> QED BY <1>2, <1>3

(* A retained byte: the line is the longer prefix still, or two CRs met.   *)
LEMMA RetainInv == ASSUME HttpInv, Retain PROVE HttpInv'
<1>1. /\ ReadByte(FALSE) /\ Ordinary /\ Len(line) + Len(Retained) <= Budget
      /\ line' = line \o Retained /\ pendingCR' = (pendingCR /\ Byte = CR)
      /\ result' = result /\ result' = "none"
  BY DEF Retain, ReadByte
<1>3. /\ FreshDrive' /\ Counted' /\ Positioned' /\ TransfersTile'
      /\ AnswersByLine' /\ ObservesExactly'
      /\ requests' = requests /\ served' = served /\ phase' = phase /\ pos' = pos + 1
      /\ received' = received /\ sent' = sent
      /\ current' \in Seq(Bytes) /\ flushed' \in Seq(Bytes) /\ chunks' \in Seq(Nat)
      /\ Request' = Request /\ Request \in Seq(Bytes) /\ Byte \in Bytes
      /\ pos \in 0 .. Len(Request) - 1 /\ Len(Request) \in Nat
      /\ Undecided(Request)
  BY <1>1, ReadByteInv
<1>4. /\ line' \in Seq(Bytes) /\ Len(line') = Len(line) + Len(Retained)
      /\ Len(Retained) = IF pendingCR THEN 2 ELSE 1
      /\ \A i \in DOMAIN line : i \in DOMAIN line' /\ line'[i] = line[i]
      /\ pendingCR => \E i \in DOMAIN line' : line'[i] = CR
      /\ ~pendingCR => line' = Append(line, Byte)
      /\ pendingCR => line' = Append(Append(line, CR), Byte)
      /\ pendingCR \in BOOLEAN /\ Len(line) \in Nat
  BY <1>1, <1>3, RetainedProperties, LenProperties DEF HttpInv, TypeOK
<1>5. TypeOK'
  BY <1>1, <1>3, <1>4 DEF HttpInv, TypeOK
<1>6. Undecided(Request)'
  <2>1. \A i \in 1 .. pos' - 1 : ~(Request[i] = CR /\ Request[i + 1] = LF)
    BY <1>1, <1>3, HttpAssumption DEF Undecided, Ordinary, Byte
  <2>2. pendingCR' <=> pos' > 0 /\ Request[pos'] = CR
    <3>1. pos' > 0 /\ Request[pos'] = Byte
      BY <1>3 DEF Byte
    <3>2. ~pendingCR => Byte # CR
      BY <1>1 DEF Ordinary
    <3> QED BY <1>1, <3>1, <3>2
  <2>3. Len(line') >= Kept'
    BY <1>1, <1>3, <1>4 DEF Undecided, Kept
  <2>4. \/ line' = SubSeq(Request, 1, Kept')
        \/ /\ \E i \in 1 .. pos' - 1 : Request[i] = CR /\ Request[i + 1] = CR
           /\ \E i \in DOMAIN line' : line'[i] = CR
    <3>1. CASE line = SubSeq(Request, 1, Kept) /\ ~pendingCR
      <4>1. Kept = pos /\ Kept' = pos + 1
        BY <1>1, <1>3, <3>1 DEF Kept
      <4>2. SubSeq(Request, 1, pos + 1) = Append(SubSeq(Request, 1, pos), Byte)
        BY <1>3, PrefixGrows DEF Byte
      <4>3. line' = Append(line, Byte)
        BY <1>4, <3>1
      <4>4. line = SubSeq(Request, 1, pos) /\ SubSeq(Request, 1, Kept') = SubSeq(Request, 1, pos + 1)
        BY <3>1, <4>1
      <4>5. line' = SubSeq(Request, 1, Kept')
        BY <4>2, <4>3, <4>4
      <4> QED BY <4>5
    <3>2. CASE line = SubSeq(Request, 1, Kept) /\ pendingCR /\ Byte # CR
      <4>1. /\ Kept = pos - 1 /\ Kept' = pos + 1 /\ Request[pos] = CR
            /\ pos - 1 \in 0 .. Len(Request) - 1 /\ (pos - 1) + 1 = pos
        <5>1. pos > 0 /\ Request[pos] = CR
          BY <1>3, <3>2 DEF Undecided
        <5>2. ~pendingCR'
          BY <1>1, <3>2
        <5> QED BY <1>3, <3>2, <5>1, <5>2 DEF Kept
      <4>2. SubSeq(Request, 1, pos) = Append(line, CR)
        BY <1>3, <3>2, <4>1, PrefixGrows
      <4>3. SubSeq(Request, 1, pos + 1) = Append(SubSeq(Request, 1, pos), Byte)
        BY <1>3, PrefixGrows DEF Byte
      <4> QED BY <1>4, <3>2, <4>1, <4>2, <4>3
    <3>3. CASE pendingCR /\ Byte = CR
      <4>1. pos \in 1 .. pos' - 1 /\ Request[pos] = CR /\ Request[pos + 1] = CR
        BY <1>3, <3>3 DEF Undecided, Byte
      <4> QED BY <1>4, <3>3, <4>1
    <3>4. CASE /\ \E i \in 1 .. pos - 1 : Request[i] = CR /\ Request[i + 1] = CR
               /\ \E i \in DOMAIN line : line[i] = CR
      <4>1. 1 .. pos - 1 \subseteq 1 .. pos' - 1
        BY <1>3
      <4> QED BY <1>4, <3>4, <4>1
    <3> QED BY <1>3, <1>4, <3>1, <3>2, <3>3, <3>4 DEF Undecided
  <2> QED BY <1>3, <2>1, <2>2, <2>3, <2>4 DEF Undecided
<1> QED BY <1>1, <1>3, <1>5, <1>6 DEF HttpInv, Parsed

(* The end of the drive: what was transferred is the observed part of the  *)
(* request, and the finished line gives the answer.                        *)
LEMMA ReceiveInv == ASSUME HttpInv, Receive PROVE HttpInv'
<1> USE DEF HttpInv, Driving
<1>1. /\ phase = "recv" /\ (result # "none" \/ pos = Len(Request))
      /\ flushed' = flushed \o current /\ current' = <<>>
      /\ chunks' = IF current = <<>> THEN chunks ELSE Append(chunks, Len(current))
      /\ received' = Append(received, flushed') /\ phase' = "send"
      /\ requests' = requests /\ served' = served /\ line' = line /\ pendingCR' = pendingCR
      /\ pos' = pos /\ result' = result /\ sent' = sent
  BY DEF Receive
<1>2. /\ served < Len(requests) /\ Request \in Seq(Bytes) /\ Len(Request) \in Nat
      /\ Request' = Request /\ served + 1 \in Nat /\ pos <= Len(Request)
  BY <1>1, RequestType DEF Counted, TypeOK, Request, Positioned
<1>3. /\ flushed' \in Seq(Bytes) /\ flushed' = SubSeq(Request, 1, pos)
      /\ <<>> \in Seq(Bytes) /\ Len(<<>>) = 0 /\ flushed' \o <<>> = flushed'
  <2>1. flushed' \in Seq(Bytes) /\ flushed' = SubSeq(Request, 1, pos)
    BY <1>1, ConcatProperties DEF TypeOK, TransfersTile
  <2> QED BY <2>1, EmptySeq, ConcatEmptySeq
<1>4. Len(current) \in Nat /\ Len(chunks) \in Nat /\ DOMAIN chunks = 1 .. Len(chunks)
  BY LenProperties DEF TypeOK
<1>5. /\ chunks' \in Seq(Nat)
      /\ \A i \in DOMAIN chunks' : chunks'[i] = ReadChunk \/ i = Len(chunks')
                                   \/ (i \in DOMAIN chunks /\ chunks'[i] = chunks[i])
      /\ current = <<>> => chunks' = chunks
  <2>1. CASE current = <<>>
    BY <1>1, <2>1 DEF TypeOK
  <2>2. CASE current # <<>>
    <3>1. chunks' = Append(chunks, Len(current)) /\ chunks \in Seq(Nat)
      BY <1>1, <2>2 DEF TypeOK
    <3>2. /\ chunks' \in Seq(Nat) /\ Len(chunks') = Len(chunks) + 1
          /\ \A i \in 1 .. Len(chunks) : chunks'[i] = chunks[i]
      BY <1>4, <3>1, AppendProperties
    <3>3. DOMAIN chunks' = 1 .. Len(chunks) + 1
      BY <3>2, LenProperties
    <3> QED BY <1>4, <2>2, <3>2, <3>3
  <2> QED BY <2>1, <2>2
<1>6. /\ received' \in Seq(Seq(Bytes)) /\ Len(received') = served + 1
      /\ \A i \in 1 .. served : received'[i] = received[i]
      /\ received'[served + 1] = flushed'
      /\ DOMAIN received' = 1 .. served + 1 /\ DOMAIN received = 1 .. served
  <2>1. Len(received) = served /\ DOMAIN received = 1 .. served
    BY <1>1, LenProperties DEF Counted, TypeOK
  <2>2. received \in Seq(Seq(Bytes)) /\ flushed' \in Seq(Bytes)
    BY <1>3 DEF TypeOK
  <2>3. /\ received' \in Seq(Seq(Bytes)) /\ Len(received') = served + 1
        /\ \A i \in 1 .. served : received'[i] = received[i]
        /\ received'[served + 1] = flushed'
    BY <1>1, <2>1, <2>2, AppendProperties
  <2> QED BY <2>1, <2>3, LenProperties
<1>7. TypeOK'
  BY <1>1, <1>3, <1>5, <1>6 DEF TypeOK
<1>8. FreshDrive' /\ Counted' /\ Positioned'
  BY <1>1, <1>2, <1>6 DEF FreshDrive, Counted, Positioned
<1>9. TransfersTile'
  <2>1. flushed' \o current' = SubSeq(Request, 1, pos') /\ Len(current') < ReadChunk
    BY <1>1, <1>3, HttpAssumption
  <2>2. \A i \in DOMAIN chunks' : chunks'[i] = ReadChunk \/ i = Len(chunks')
    <3>1. current # <<>> => result = "none"
      BY <1>1 DEF Positioned
    <3>2. \A i \in DOMAIN chunks :
              chunks[i] = ReadChunk \/ (i = Len(chunks) /\ result # "none")
      BY <1>1 DEF TransfersTile
    <3>3. CASE current = <<>>
      BY <1>5, <3>2, <3>3
    <3>4. CASE current # <<>>
      BY <1>5, <3>1, <3>2, <3>4
    <3> QED BY <3>3, <3>4
  <2> QED BY <1>1, <1>2, <2>1, <2>2 DEF TransfersTile
<1>10. Parsed'
  BY <1>1, <1>2 DEF Parsed, Undecided, Decided, Correct, Kept
<1>11. ~DoubleCR(Request) => flushed' = SubSeq(Request, 1, ObservedSize(Request))
  <2>1. CASE result = "none"
    BY <1>1, <1>2, <1>3, <2>1, FinishIsCorrect DEF Parsed
  <2>2. CASE result # "none"
    BY <1>1, <1>3, <2>2 DEF Parsed, Decided
  <2> QED BY <2>1, <2>2
<1>12. ObservesExactly'
  <2>1. \A i \in 1 .. served + 1 : i \in 1 .. served \/ i = served + 1
    BY DEF TypeOK
  <2>2. requests[served + 1] = Request
    BY DEF Request
  <2> QED BY <1>1, <1>6, <1>11, <2>1, <2>2 DEF ObservesExactly
<1>13. AnswersByLine'
  BY <1>1 DEF AnswersByLine
<1> QED BY <1>7, <1>8, <1>9, <1>10, <1>12, <1>13

(* The answer of a connection is the one its request deserves.             *)
LEMMA SendInv == ASSUME HttpInv, Send PROVE HttpInv'
<1> USE DEF HttpInv, Driving
<1>1. /\ phase = "send" /\ phase' = "close" /\ sent' = Append(sent, Route)
      /\ requests' = requests /\ served' = served /\ received' = received
      /\ line' = line /\ pendingCR' = pendingCR /\ pos' = pos /\ current' = current
      /\ flushed' = flushed /\ chunks' = chunks /\ result' = result
  BY DEF Send, drive
<1>2. /\ served < Len(requests) /\ Request \in Seq(Bytes) /\ Len(Request) \in Nat
      /\ Request' = Request /\ served + 1 \in Nat
  BY <1>1, RequestType DEF Counted, TypeOK, Request
<1>3. Route \in Routes /\ Correct(Request, Route)
  <2>1. CASE result = "none"
    <3>1. Route = RouteOf(FinishedLine) /\ pos = Len(Request) /\ Undecided(Request)
      BY <1>1, <2>1 DEF Route, Positioned, Parsed
    <3> QED BY <1>2, <3>1, FinishIsCorrect, RouteOfType DEF Correct
  <2>2. CASE result # "none"
    BY <1>1, <2>2 DEF Route, Parsed, Decided, TypeOK
  <2> QED BY <2>1, <2>2
<1>4. /\ sent' \in Seq(Routes) /\ Len(sent') = served + 1
      /\ \A i \in 1 .. served : sent'[i] = sent[i]
      /\ sent'[served + 1] = Route
      /\ DOMAIN sent' = 1 .. served + 1 /\ DOMAIN sent = 1 .. served
  <2>1. Len(sent) = served /\ DOMAIN sent = 1 .. served
    BY <1>1, LenProperties DEF Counted, TypeOK
  <2>2. sent \in Seq(Routes)
    BY DEF TypeOK
  <2>3. /\ sent' \in Seq(Routes) /\ Len(sent') = served + 1
        /\ \A i \in 1 .. served : sent'[i] = sent[i]
        /\ sent'[served + 1] = Route
    BY <1>1, <1>3, <2>1, <2>2, AppendProperties
  <2> QED BY <2>1, <2>3, LenProperties
<1>5. TypeOK'
  BY <1>1, <1>4 DEF TypeOK
<1>6. FreshDrive' /\ Counted' /\ Positioned'
  BY <1>1, <1>2, <1>4 DEF FreshDrive, Counted, Positioned
<1>7. TransfersTile'
  BY <1>1, <1>2 DEF TransfersTile
<1>8. Parsed'
  BY <1>1, <1>2 DEF Parsed, Undecided, Decided, Correct, Kept
<1>9. AnswersByLine'
  <2>1. \A i \in 1 .. served + 1 : i \in 1 .. served \/ i = served + 1
    BY DEF TypeOK
  <2>2. requests[served + 1] = Request
    BY DEF Request
  <2> QED BY <1>1, <1>3, <1>4, <2>1, <2>2 DEF AnswersByLine, Correct
<1>10. ObservesExactly'
  BY <1>1 DEF ObservesExactly
<1> QED BY <1>5, <1>6, <1>7, <1>8, <1>9, <1>10

LEMMA HttpStep == HttpInv /\ [Next]_vars => HttpInv'
<1> SUFFICES ASSUME HttpInv, [Next]_vars PROVE HttpInv'
  OBVIOUS
<1>1. CASE Listen \/ Accept \/ Close
  BY <1>1, ConnectionInv
<1>2. CASE DriveByte
  BY <1>2, EndLineInv, HoldCRInv, RetainInv, ExhaustInv DEF DriveByte
<1>3. CASE Receive \/ Send
  BY <1>3, ReceiveInv, SendInv
<1>4. CASE UNCHANGED vars
  BY <1>4 DEF vars, drive, HttpInv, TypeOK, FreshDrive, Counted, Positioned, TransfersTile,
              Parsed, Undecided, Decided, Correct, Kept, AnswersByLine, ObservesExactly, Request
<1> QED BY <1>1, <1>2, <1>3, <1>4 DEF Next, Step, Terminated

-----------------------------------------------------------------------------

(* The invariant, for every alphabet, budget, transfer size and grammar.   *)
THEOREM HttpInvariant == Spec => []HttpInv
<1>1. Init => HttpInv
  BY InitHttp
<1>2. HttpInv /\ [Next]_vars => HttpInv'
  BY HttpStep
<1> QED BY <1>1, <1>2, PTL DEF Spec

(* Types: the retained line never exceeds the budget.                      *)
THEOREM LineWithinBudget == Spec => []TypeOK
<1>1. HttpInv => TypeOK
  BY DEF HttpInv
<1> QED BY <1>1, HttpInvariant, PTL

(* The streamed answer is that of the whole request's line, however the    *)
(* bytes fall into transfers, unless two CRs in a row exhaust the budget.  *)
THEOREM StreamedAnswers == Spec => []AnswersByLine
<1>1. HttpInv => AnswersByLine
  BY DEF HttpInv
<1> QED BY <1>1, HttpInvariant, PTL

(* A connection observes exactly its own request up to the deciding byte.  *)
THEOREM ObservedPrefix == Spec => []ObservesExactly
<1>1. HttpInv => ObservesExactly
  BY DEF HttpInv
<1> QED BY <1>1, HttpInvariant, PTL

(* No byte is lost at the boundary of a transfer.                          *)
THEOREM TransfersLoseNothing == Spec => []TransfersTile
<1>1. HttpInv => TransfersTile
  BY DEF HttpInv
<1> QED BY <1>1, HttpInvariant, PTL

-----------------------------------------------------------------------------
(***************************************************************************)
(* WorkerPool, for every number of items and every concurrency, 0          *)
(* included.                                                               *)
(*                                                                         *)
(* The inductive invariant accounts for every item: it is still in the     *)
(* queue, or its result is in the array, or exactly one worker holds it    *)
(* (Claims, Progress).  With what the caller has waited for (Waited) this  *)
(* leaves no item without a result when the last task has been joined.     *)
(***************************************************************************)

Holds(w) == place[w] \in {"work", "store", "raised"}

(* A worker has one item that has left the queue and has no result, and    *)
(* shares it with no other worker.                                         *)
Claims ==
    \A w \in Workers : Holds(w) =>
        /\ item[w] \in Items /\ item[w] < next /\ results[item[w]] = None
        /\ place[w] = "store" => value[w] \in Values
        /\ \A v \in Workers \ {w} : Holds(v) => item[v] # item[w]

(* An item that has left the queue is held or has a result, and one in the *)
(* queue has none.                                                         *)
Progress ==
    \A i \in Items :
        /\ i >= next => results[i] = None
        /\ i < next => results[i] \in Values \/ \E w \in Workers : Holds(w) /\ item[w] = i

(* Workers end with the queue; the caller has waited for those before the  *)
(* one it waits for.                                                       *)
Waited ==
    /\ \A w \in Workers : place[w] = "ended" => next = N + 1
    /\ \A w \in Workers : w < joining => place[w] = "ended"

PoolInv == PoolTypeOK /\ Claims /\ Progress /\ Waited /\ AnswerIsComplete

LEMMA WorkersProperty ==
    /\ NumWorkers \in Nat /\ Workers \subseteq Nat
    /\ N > 0 => 1 \in Workers
BY PoolAssumption DEF NumWorkers, Workers

LEMMA PoolInitInv == PoolInit => PoolInv
<1> SUFFICES ASSUME PoolInit PROVE PoolInv
  OBVIOUS
<1> USE PoolAssumption, WorkersProperty DEF PoolInit
<1>1. PoolTypeOK
  BY DEF PoolTypeOK, Items
<1>2. Claims /\ Waited
  BY DEF Claims, Holds, Waited, Workers
<1>3. Progress
  BY DEF Progress, Items
<1>4. AnswerIsComplete
  BY DEF AnswerIsComplete
<1> QED BY <1>1, <1>2, <1>3, <1>4 DEF PoolInv

(* Where a step of a worker may lead it, and what it leaves alone.         *)
LEMMA WorkerType ==
    ASSUME PoolInv, NEW w \in Workers, Worker(w)
    PROVE  PoolTypeOK'
<1> USE PoolAssumption DEF PoolInv, PoolTypeOK
<1>1. CASE Take(w)
  BY <1>1 DEF Take, Remaining
<1>2. CASE Finish(w)
  BY <1>2 DEF Finish
<1>3. CASE Work(w)
  BY <1>3 DEF Work
<1>4. CASE WorkRaises(w)
  BY <1>4 DEF WorkRaises
<1>5. CASE Store(w)
  BY <1>5 DEF Store, Stored, Claims, Holds
<1> QED BY <1>1, <1>2, <1>3, <1>4, <1>5 DEF Worker

LEMMA WorkerClaims ==
    ASSUME PoolInv, NEW w \in Workers, Worker(w)
    PROVE  Claims' /\ Progress'
<1> USE PoolAssumption DEF PoolInv, PoolTypeOK, Claims, Progress, Holds
<1>1. CASE Take(w)
  <2> USE <1>1 DEF Take, Remaining
  <2>1. /\ place' = [place EXCEPT ![w] = "work"] /\ item' = [item EXCEPT ![w] = next]
        /\ next \in Items /\ next' = next + 1 /\ results' = results
    BY DEF Items
  <2>2. results[next] = None
    BY <2>1
  <2>3. Claims'
    BY <2>1, <2>2
  <2>4. Progress'
    <3> SUFFICES ASSUME NEW i \in Items
                 PROVE  /\ i >= next' => results'[i] = None
                        /\ i < next' => \/ results'[i] \in Values
                                        \/ \E v \in Workers : Holds(v)' /\ item'[v] = i
      BY DEF Progress
    <3>1. i >= next' => results'[i] = None
      BY <2>1 DEF Items
    <3>2. CASE i = next
      BY <2>1, <3>1, <3>2
    <3>3. ASSUME i < next, results[i] \notin Values
          PROVE  \E v \in Workers : Holds(v)' /\ item'[v] = i
      BY <2>1, <3>3
    <3> QED BY <2>1, <3>1, <3>2, <3>3 DEF Items
  <2> QED BY <2>3, <2>4
<1>2. CASE Finish(w)
  BY <1>2 DEF Finish
<1>3. CASE Work(w)
  BY <1>3 DEF Work
<1>4. CASE WorkRaises(w)
  BY <1>4 DEF WorkRaises
<1>5. CASE Store(w)
  <2>1. /\ place' = [place EXCEPT ![w] = "take"] /\ item' = item /\ next' = next
        /\ item[w] \in Items /\ value[w] \in Values /\ value' = value
        /\ results' = [results EXCEPT ![item[w]] = value[w]]
    BY <1>5 DEF Store, Stored
  <2>2. Claims'
    BY <1>5, <2>1 DEF Store
  <2>3. Progress'
    <3> SUFFICES ASSUME NEW i \in Items
                 PROVE  /\ i >= next' => results'[i] = None
                        /\ i < next' => \/ results'[i] \in Values
                                        \/ \E v \in Workers : Holds(v)' /\ item'[v] = i
      BY DEF Progress
    <3>1. item[w] < next
      BY <1>5 DEF Store
    <3>2. CASE i = item[w]
      BY <2>1, <3>1, <3>2 DEF Items
    <3>3. CASE i # item[w]
      <4>1. results'[i] = results[i]
        BY <2>1, <3>3
      <4>2. ASSUME NEW v \in Workers, Holds(v), item[v] = i PROVE Holds(v)' /\ item'[v] = i
        BY <2>1, <3>3, <4>2
      <4> QED BY <2>1, <4>1, <4>2
    <3> QED BY <3>2, <3>3
  <2> QED BY <2>2, <2>3
<1> QED BY <1>1, <1>2, <1>3, <1>4, <1>5 DEF Worker

LEMMA WorkerWaited ==
    ASSUME PoolInv, NEW w \in Workers, Worker(w)
    PROVE  Waited' /\ AnswerIsComplete'
<1> USE PoolAssumption DEF PoolInv, PoolTypeOK, Waited, AnswerIsComplete
<1>1. CASE Take(w)
  BY <1>1 DEF Take, Remaining
<1>2. CASE Finish(w)
  BY <1>2 DEF Finish
<1>3. CASE Work(w)
  BY <1>3 DEF Work
<1>4. CASE WorkRaises(w)
  BY <1>4 DEF WorkRaises
<1>5. CASE Store(w)
  BY <1>5 DEF Store
<1> QED BY <1>1, <1>2, <1>3, <1>4, <1>5 DEF Worker

(* When all tasks have been joined without an exception every item has a   *)
(* result.                                                                 *)
LEMMA NothingMissing ==
    ASSUME PoolInv, joining = NumWorkers + 1
    PROVE  /\ results \in [Items -> Values] /\ ~Missing
           /\ \A w \in Workers : place[w] = "ended"
<1> USE PoolAssumption, WorkersProperty DEF PoolInv, PoolTypeOK
<1>1. \A w \in Workers : place[w] = "ended"
  BY DEF Waited, Workers
<1>2. \A i \in Items : results[i] \in Values
  <2> SUFFICES ASSUME NEW i \in Items PROVE results[i] \in Values
    OBVIOUS
  <2>1. 1 \in Workers
    BY DEF Items
  <2>2. i < next
    BY <1>1, <2>1 DEF Waited, Items
  <2> QED BY <1>1, <2>2 DEF Progress, Holds
<1> QED BY <1>1, <1>2 DEF Missing

LEMMA CallerInv ==
    ASSUME PoolInv, Join \/ JoinRaises \/ Return
    PROVE  PoolInv'
<1> USE PoolAssumption, WorkersProperty
<1>1. CASE Join
  <2>1. joining' = joining + 1 /\ joining' \in 1 .. NumWorkers + 1
    BY <1>1 DEF Join, PoolInv, PoolTypeOK, Workers
  <2>2. PoolTypeOK' /\ Claims' /\ Progress'
    BY <1>1, <2>1 DEF Join, PoolInv, PoolTypeOK, Claims, Progress, Holds
  <2>3. Waited'
    BY <1>1, <2>1 DEF Join, PoolInv, PoolTypeOK, Waited, Workers, Ended
  <2>4. AnswerIsComplete'
    BY <1>1 DEF Join, AnswerIsComplete, PoolInv
  <2> QED BY <2>2, <2>3, <2>4 DEF PoolInv
<1>2. CASE JoinRaises
  BY <1>2 DEF JoinRaises, PoolInv, PoolTypeOK, Claims, Progress, Holds, Waited, AnswerIsComplete
<1>3. CASE Return
  <2>1. /\ results \in [Items -> Values] /\ ~Missing
        /\ \A w \in Workers : place[w] = "ended"
    BY <1>3, NothingMissing DEF Return
  <2>2. answer' = results
    BY <1>3, <2>1 DEF Return
  <2>3. PoolTypeOK' /\ AnswerIsComplete'
    BY <1>3, <2>1, <2>2 DEF Return, PoolInv, PoolTypeOK, AnswerIsComplete
  <2>4. Claims' /\ Progress' /\ Waited'
    BY <1>3 DEF Return, PoolInv, Claims, Progress, Holds, Waited
  <2> QED BY <2>3, <2>4 DEF PoolInv
<1> QED BY <1>1, <1>2, <1>3

LEMMA PoolNextInv == PoolInv /\ [PoolNext]_poolVars => PoolInv'
<1> SUFFICES ASSUME PoolInv, [PoolNext]_poolVars PROVE PoolInv'
  OBVIOUS
<1>1. CASE Join \/ JoinRaises \/ Return
  BY <1>1, CallerInv
<1>2. ASSUME NEW w \in Workers, Worker(w) PROVE PoolInv'
  BY <1>2, WorkerType, WorkerClaims, WorkerWaited DEF PoolInv
<1>3. CASE UNCHANGED poolVars
  BY <1>3 DEF poolVars, PoolInv, PoolTypeOK, Claims, Progress, Holds, Waited, AnswerIsComplete
<1> QED BY <1>1, <1>2, <1>3 DEF PoolNext

LEMMA SpecInv == PoolSpec => []PoolInv
<1>1. PoolInit => PoolInv
  BY PoolInitInv
<1>2. PoolInv /\ [PoolNext]_poolVars => PoolInv'
  BY PoolNextInv
<1> QED BY <1>1, <1>2, PTL DEF PoolSpec

(* The variables have their types.                                         *)
THEOREM PoolTypes == PoolSpec => []PoolTypeOK
<1>1. PoolInv => PoolTypeOK
  BY DEF PoolInv
<1> QED BY <1>1, SpecInv, PTL

(* runWorkerPool never returns with an item missing, never throws "item    *)
(* missing result", and never returns while one of its workers works.      *)
THEOREM PoolComplete == PoolSpec => []AnswerIsComplete
<1>1. PoolInv => AnswerIsComplete
  BY DEF PoolInv
<1> QED BY <1>1, SpecInv, PTL

-----------------------------------------------------------------------------
(* The refinement                                                          *)

LEMMA WorkerRefines ==
    ASSUME PoolInv, NEW w \in Workers, Worker(w)
    PROVE  [Map!MapNext]_<<Outcome, answer>>
<1> USE PoolAssumption DEF PoolInv, PoolTypeOK
<1>1. CASE Take(w) \/ Finish(w) \/ Work(w)
  <2>1. /\ \A v \in Workers : (place'[v] = "raised" <=> place[v] = "raised")
        /\ \A v \in Workers : place[v] = "raised" => item'[v] = item[v]
        /\ results' = results /\ answer' = answer
    BY <1>1 DEF Take, Finish, Work
  <2>2. Outcome' = Outcome
    BY <2>1 DEF Outcome
  <2> QED BY <2>1, <2>2
<1>2. CASE WorkRaises(w)
  <2>1. item[w] \in Items /\ results[item[w]] = None
    BY <1>2 DEF WorkRaises, Claims, Holds
  <2>2. \A v \in Workers : place[v] = "raised" => item[v] # item[w]
    BY <1>2 DEF WorkRaises, Claims, Holds
  <2>3. Outcome[item[w]] = None
    BY <2>1, <2>2 DEF Outcome
  <2>4. Outcome' = [Outcome EXCEPT ![item[w]] = Failed]
    BY <1>2, <2>1 DEF Outcome, WorkRaises
  <2>5. Map!Work(item[w])
    BY <1>2, <2>3, <2>4 DEF Map!Work, WorkRaises
  <2> QED BY <2>1, <2>5 DEF Map!MapNext
<1>3. CASE Store(w)
  <2>1. item[w] \in Items /\ results[item[w]] = None /\ value[w] \in Values
    BY <1>3 DEF Store, Claims, Holds
  <2>2. \A v \in Workers : place[v] = "raised" => item[v] # item[w]
    BY <1>3 DEF Store, Claims, Holds
  <2>3. Outcome[item[w]] = None
    BY <2>1, <2>2 DEF Outcome
  <2>4. Outcome' = [Outcome EXCEPT ![item[w]] = value[w]]
    <3>1. \A v \in Workers : place'[v] = "raised" <=> place[v] = "raised"
      BY <1>3 DEF Store
    <3>2. item' = item /\ results' = [results EXCEPT ![item[w]] = value[w]]
      BY <1>3 DEF Store, Stored
    <3> QED BY <2>1, <2>2, <3>1, <3>2 DEF Outcome
  <2>5. Map!Work(item[w])
    BY <1>3, <2>1, <2>3, <2>4 DEF Map!Work, Store
  <2> QED BY <2>1, <2>5 DEF Map!MapNext
<1> QED BY <1>1, <1>2, <1>3 DEF Worker

LEMMA CallerRefines ==
    ASSUME PoolInv, Join \/ JoinRaises \/ Return
    PROVE  [Map!MapNext]_<<Outcome, answer>>
<1> USE PoolAssumption DEF PoolInv, PoolTypeOK
<1>1. CASE Join
  BY <1>1 DEF Join, Outcome
<1>2. CASE JoinRaises
  <2>1. item[joining] \in Items /\ Outcome' = Outcome
    BY <1>2 DEF JoinRaises, Claims, Holds, Outcome
  <2>2. Outcome[item[joining]] = Failed
    BY <1>2, <2>1 DEF JoinRaises, Outcome
  <2>3. Map!Raise
    BY <1>2, <2>1, <2>2 DEF JoinRaises, Map!Raise
  <2> QED BY <2>3 DEF Map!MapNext
<1>3. CASE Return
  <2>1. /\ results \in [Items -> Values] /\ ~Missing
        /\ \A w \in Workers : place[w] = "ended"
    BY <1>3, NothingMissing DEF Return
  <2>2. Outcome = results /\ Outcome' = Outcome
    BY <1>3, <2>1 DEF Outcome, Return
  <2>3. Map!Return
    BY <1>3, <2>1, <2>2 DEF Return, Map!Return
  <2> QED BY <2>3 DEF Map!MapNext
<1> QED BY <1>1, <1>2, <1>3

(* runWorkerPool is a map in parallel: every item is worked on at most     *)
(* once, results keep the order of the items whatever the workers do, and  *)
(* an error that is thrown is one an item raised.                          *)
THEOREM PoolRefinement == PoolSpec => IsParallelMap
<1>1. PoolInit => Map!MapInit
  BY DEF PoolInit, Map!MapInit, Outcome
<1>2. PoolInv /\ [PoolNext]_poolVars => [Map!MapNext]_<<Outcome, answer>>
  <2> SUFFICES ASSUME PoolInv, [PoolNext]_poolVars PROVE [Map!MapNext]_<<Outcome, answer>>
    OBVIOUS
  <2>1. CASE Join \/ JoinRaises \/ Return
    BY <2>1, CallerRefines
  <2>2. ASSUME NEW w \in Workers, Worker(w) PROVE [Map!MapNext]_<<Outcome, answer>>
    BY <2>2, WorkerRefines
  <2>3. CASE UNCHANGED poolVars
    BY <2>3 DEF poolVars, Outcome
  <2> QED BY <2>1, <2>2, <2>3 DEF PoolNext
<1> QED BY <1>1, <1>2, SpecInv, PTL DEF PoolSpec, IsParallelMap, Map!MapSpec, Map!mapVars

=============================================================================
