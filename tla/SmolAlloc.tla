------------------------------ MODULE SmolAlloc ------------------------------
(***************************************************************************)
(* The first-fit allocator of Stdlib/SmolAlloc/Spec.lean: malloc and free   *)
(* over a page source that hands out consecutive pages and may run out.    *)
(* Addresses are bytes from the base of the arena.  A header's alignment   *)
(* is left out: malloc stores it and nothing reads it.                     *)
(*                                                                         *)
(* A definition commented "Mutant" is a bug the checks must find; no       *)
(* specification uses it.                                                  *)
(***************************************************************************)
EXTENDS Integers, FiniteSets

CONSTANTS
    Requests,  \* the sizes asked for
    PageSize,  \* PageSource.pageSize
    MaxPages,  \* bound: the pages the source can hand out
    MaxTotal   \* bound: the bytes handed out over the life of the allocator

ASSUME SmolAssumption ==
    /\ Requests \subseteq Nat /\ IsFiniteSet(Requests)
    /\ PageSize \in Nat \ {0}
    /\ MaxPages \in Nat /\ MaxTotal \in Nat

VARIABLES
    blocks,       \* header address -> [blockSize, isFree, nextFree]
    freeListHead, \* a header address, or NoBlock
    activeBorrows, liveBytes, peakLiveBytes, totalAllocatedBytes, pageCount,
    freeObligations, \* payload address -> how many FreeObligation tokens
    pageObligations, \* the bases of the ProcessPageObligation tokens
    allocatedPages   \* TracedPageState: the pages handed out so far

usage == <<activeBorrows, liveBytes, peakLiveBytes, totalAllocatedBytes>>
obligations == <<freeObligations, pageObligations>>
allocVars == <<blocks, freeListHead, usage, pageCount, obligations, allocatedPages>>

NoBlock == -1
HeaderSize == 32

Bases == {PageSize * n : n \in 0 .. MaxPages - 1}
Payload(base) == base + HeaderSize
Payloads == {Payload(base) : base \in Bases}

Align8(n) == ((n + 7) \div 8) * 8

Sizes == {Align8(n) : n \in Requests}

Header == [blockSize : Sizes, isFree : BOOLEAN, nextFree : Bases \cup {NoBlock}]

Active == {a \in DOMAIN blocks : ~blocks[a].isFree}

AllocInit ==
    /\ blocks = [a \in {} |-> NoBlock]
    /\ freeListHead = NoBlock
    /\ activeBorrows = 0 /\ liveBytes = 0 /\ peakLiveBytes = 0 /\ totalAllocatedBytes = 0
    /\ pageCount = 0 /\ allocatedPages = 0
    /\ freeObligations = [p \in Payloads |-> 0]
    /\ pageObligations = {}

-----------------------------------------------------------------------------

(* The address the search looks at after n steps along the free list; the  *)
(* search has as much fuel as there are blocks.                            *)
Fuel == Cardinality(DOMAIN blocks)

Walk[n \in 0 .. Fuel] ==
    IF n = 0 THEN freeListHead
    ELSE IF Walk[n - 1] \in DOMAIN blocks THEN blocks[Walk[n - 1]].nextFree ELSE NoBlock

Fits(a, size) == a \in DOMAIN blocks /\ blocks[a].isFree /\ blocks[a].blockSize >= size

NoFit(size) == \A n \in 0 .. Fuel - 1 : ~Fits(Walk[n], size)

FirstFit(size, a) ==
    /\ Fits(a, size)
    /\ \E n \in 0 .. Fuel - 1 : Walk[n] = a /\ \A m \in 0 .. n - 1 : ~Fits(Walk[m], size)

(* Mutant: the header is not counted among the bytes that need pages.      *)
NumPagesOfPayload(size) == (size + PageSize - 1) \div PageSize

NumPages(size) == (size + HeaderSize + PageSize - 1) \div PageSize

RecordAllocation(bytes) ==
    LET live == liveBytes + bytes
    IN  /\ liveBytes' = live
        /\ peakLiveBytes' = IF live > peakLiveBytes THEN live ELSE peakLiveBytes
        /\ totalAllocatedBytes' = totalAllocatedBytes + bytes

(* Mutant: the free list is left as it was.                                *)
MallocReuseKeepsHead(size, a) ==
    /\ FirstFit(size, a)
    /\ totalAllocatedBytes + blocks[a].blockSize <= MaxTotal
    /\ blocks' = [blocks EXCEPT ![a].isFree = FALSE]
    /\ freeListHead' = freeListHead
    /\ freeObligations' = [freeObligations EXCEPT ![Payload(a)] = @ + 1]
    /\ activeBorrows' = activeBorrows + 1
    /\ RecordAllocation(blocks[a].blockSize)
    /\ UNCHANGED <<pageCount, pageObligations, allocatedPages>>

(* A fitting block is taken, and the list goes on after it.                *)
MallocReuse(size, a) ==
    /\ FirstFit(size, a)
    /\ totalAllocatedBytes + blocks[a].blockSize <= MaxTotal
    /\ blocks' = [blocks EXCEPT ![a].isFree = FALSE]
    /\ freeListHead' = blocks[a].nextFree
    /\ freeObligations' = [freeObligations EXCEPT ![Payload(a)] = @ + 1]
    /\ activeBorrows' = activeBorrows + 1
    /\ RecordAllocation(blocks[a].blockSize)
    /\ UNCHANGED <<pageCount, pageObligations, allocatedPages>>

(* No block fits: the pages of a block of its own are fetched.             *)
MallocFetch(size) ==
    LET base == PageSize * allocatedPages
        fresh == [blockSize |-> size, isFree |-> FALSE, nextFree |-> NoBlock]
    IN  /\ NoFit(size)
        /\ allocatedPages + NumPages(size) <= MaxPages
        /\ totalAllocatedBytes + size <= MaxTotal
        /\ blocks' = [a \in DOMAIN blocks \cup {base} |-> IF a = base THEN fresh ELSE blocks[a]]
        /\ freeObligations' = [freeObligations EXCEPT ![Payload(base)] = @ + 1]
        /\ pageObligations' = pageObligations \cup {base}
        /\ pageCount' = pageCount + NumPages(size)
        /\ allocatedPages' = allocatedPages + NumPages(size)
        /\ activeBorrows' = activeBorrows + 1
        /\ RecordAllocation(size)
        /\ UNCHANGED freeListHead

(* fetchPages answers none: malloc answers none and nothing changes.       *)
MallocFails(size) ==
    /\ NoFit(size)
    /\ allocatedPages + NumPages(size) > MaxPages
    /\ UNCHANGED allocVars

(* Subtraction of natural numbers.                                         *)
Monus(m, n) == IF m > n THEN m - n ELSE 0

(* Mutant: a block that is free already is freed again.                    *)
FreeTwice(ptr) ==
    LET a == ptr - HeaderSize
    IN  /\ a \in DOMAIN blocks
        /\ blocks' = [blocks EXCEPT ![a].isFree = TRUE, ![a].nextFree = freeListHead]
        /\ freeListHead' = a
        /\ freeObligations' = [freeObligations EXCEPT ![ptr] = 0]
        /\ activeBorrows' = Monus(activeBorrows, 1)
        /\ liveBytes' = Monus(liveBytes, blocks[a].blockSize)
        /\ UNCHANGED <<pageCount, pageObligations, allocatedPages, peakLiveBytes, totalAllocatedBytes>>

(* An active block is linked to the front of the list.                     *)
Free(ptr) ==
    LET a == ptr - HeaderSize
    IN  /\ a \in Active
        /\ blocks' = [blocks EXCEPT ![a].isFree = TRUE, ![a].nextFree = freeListHead]
        /\ freeListHead' = a
        /\ freeObligations' = [freeObligations EXCEPT ![ptr] = 0]
        /\ activeBorrows' = Monus(activeBorrows, 1)
        /\ liveBytes' = Monus(liveBytes, blocks[a].blockSize)
        /\ UNCHANGED <<pageCount, pageObligations, allocatedPages, peakLiveBytes, totalAllocatedBytes>>

(* Any other pointer is refused: never handed out, or freed before.        *)
FreeRefused(ptr) ==
    /\ ptr - HeaderSize \notin Active
    /\ UNCHANGED allocVars

AllocNext ==
    \/ \E n \in Requests :
          \/ \E a \in DOMAIN blocks : MallocReuse(Align8(n), a)
          \/ MallocFetch(Align8(n)) \/ MallocFails(Align8(n))
    \/ \E ptr \in Payloads : Free(ptr) \/ FreeRefused(ptr)

AllocSpec == AllocInit /\ [][AllocNext]_allocVars

-----------------------------------------------------------------------------

AllocTypeOK ==
    /\ DOMAIN blocks \subseteq Bases
    /\ \A a \in DOMAIN blocks : blocks[a] \in Header
    /\ freeListHead \in Bases \cup {NoBlock}
    /\ activeBorrows \in Nat /\ liveBytes \in Nat /\ peakLiveBytes \in Nat
    /\ totalAllocatedBytes \in 0 .. MaxTotal
    /\ pageCount \in 0 .. MaxPages
    /\ freeObligations \in [Payloads -> Nat]
    /\ pageObligations \in SUBSET Bases
    /\ allocatedPages \in 0 .. MaxPages

(* What the free list reaches is free, and the list ends before the search *)
(* runs out of fuel: no sequence of calls makes it cyclic or leads it into *)
(* a block that is in use.                                                 *)
FreeListSound ==
    /\ Walk[Fuel] = NoBlock
    /\ \A n \in DOMAIN Walk : Walk[n] # NoBlock => Walk[n] \in DOMAIN blocks \ Active

(* The addresses of the payloads that are handed out.                      *)
Extent(a) == Payload(a) .. Payload(a) + blocks[a].blockSize - 1

InUse == UNION {Extent(a) : a \in Active}

(* The allocator's figures are those of the blocks: the bytes of the active*)
(* ones are live, and the peak is between the live and the total bytes.    *)
Accounted ==
    /\ liveBytes = Cardinality(InUse)
    /\ liveBytes <= peakLiveBytes /\ peakLiveBytes <= totalAllocatedBytes
    /\ pageCount = allocatedPages

(* Linear obligation conservation: exactly the active blocks owe a free,   *)
(* each of them once, as many as there are borrows, and every block owes   *)
(* its pages.                                                              *)
ObligationsExact ==
    /\ \A a \in Bases : freeObligations[Payload(a)] = IF a \in Active THEN 1 ELSE 0
    /\ activeBorrows = Cardinality(Active)
    /\ pageObligations = DOMAIN blocks

(* No two blocks share a byte, headers included, and none reaches beyond   *)
(* the pages that were handed out.                                         *)
BlocksDisjoint ==
    \A a \in DOMAIN blocks :
        /\ Payload(a) + blocks[a].blockSize <= PageSize * allocatedPages
        /\ \A b \in DOMAIN blocks : a < b => Payload(a) + blocks[a].blockSize <= b

(* The heap after any sequence of calls: types, a sound free list, and     *)
(* figures that are those of the blocks.                                   *)
HeapInv == AllocTypeOK /\ FreeListSound /\ Accounted

==============================================================================
