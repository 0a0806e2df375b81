--------------------------- MODULE LeaseTreeProofs ---------------------------
(***************************************************************************)
(* Theorems about the lease of lean_process_lease.py, alone (LeanLease)    *)
(* and with the process trees it is meant to serialize (LeaseTree), for    *)
(* every set of launchers and every timeout.                               *)
(*                                                                         *)
(* Of the lease alone, the type invariant and LockOwnedInside together are *)
(* inductive: the lock and the places of the clients determine each other, *)
(* so no path that raises, expires or is killed can leave the lock behind. *)
(* From them the refinement of the abstract lease follows step by step.    *)
(*                                                                         *)
(* Of the trees, two facts more are: a launcher and the one it waits for   *)
(* point at each other while both live (Links), and a chain of launchers   *)
(* that is intact ends in one whose block holds the lock (Rooted).  The    *)
(* second needs no bound on the length of the chain: the ancestors of a    *)
(* launcher are the least set closed under parent, so whatever is closed   *)
(* contains them.                                                          *)
(***************************************************************************)
EXTENDS LeaseTree, TLAPS

LeaseInv == LeaseTypeOK /\ LockOwnedInside

(* What a client does on its own: every action but the clock.              *)
ClientStep(c) ==
    \/ Enter(c) \/ EnterMisconfigured(c) \/ EnterNested(c)
    \/ TryLock(c) \/ ReserveStep(c) \/ DeadlineStep(c)
    \/ Leave(c) \/ LeaveNested(c) \/ Recover(c) \/ Crash(c)

(* The invariant holds before any launcher has called.                     *)
LEMMA LeaseInitInv == LeaseInit => LeaseInv
BY LeaseAssumption
   DEF LeaseInit, LeaseInv, LeaseTypeOK, LockOwnedInside, PcValues

(* One second passing moves sleepers to the next attempt and nobody into   *)
(* or out of the locked part.                                              *)
LEMMA TickInv == LeaseInv /\ Tick => LeaseInv'
<1> SUFFICES ASSUME LeaseInv, Tick PROVE LeaseInv'
  OBVIOUS
<1>1. LeaseTypeOK'
  BY LeaseAssumption DEF LeaseInv, LeaseTypeOK, Tick, PcValues
<1>2. LockOwnedInside'
  BY DEF LeaseInv, LeaseTypeOK, LockOwnedInside, Tick, PcValues
<1> QED BY <1>1, <1>2 DEF LeaseInv

(* A step of one client leaves every other client where it is, moves the   *)
(* lock only between itself and nobody, and keeps the two in agreement.    *)
LEMMA ClientInv ==
    ASSUME NEW c \in Clients, LeaseInv, ClientStep(c)
    PROVE  LeaseInv'
<1> USE DEF LeaseInv, LeaseTypeOK, LockOwnedInside, Goto, PcValues
<1>1. CASE Enter(c)
  BY <1>1, LeaseAssumption DEF Enter
<1>2. CASE EnterMisconfigured(c) \/ EnterNested(c) \/ LeaveNested(c) \/ Recover(c)
  BY <1>2 DEF EnterMisconfigured, EnterNested, LeaveNested, Recover
<1>3. CASE TryLock(c)
  BY <1>3, LeaseAssumption DEF TryLock
<1>4. CASE ReserveStep(c)
  BY <1>4, LeaseAssumption DEF ReserveStep, ReserveMet, ReserveShort, ReserveFails
<1>5. CASE DeadlineStep(c)
  BY <1>5 DEF DeadlineStep, Expire, Nap
<1>6. CASE Leave(c)
  BY <1>6, LeaseAssumption DEF Leave
<1>7. CASE Crash(c)
  BY <1>7, LeaseAssumption DEF Crash
<1> QED BY <1>1, <1>2, <1>3, <1>4, <1>5, <1>6, <1>7 DEF ClientStep

(* Every step of the host keeps both.                                      *)
LEMMA LeaseStepInv == LeaseInv /\ [LeaseNext]_leaseVars => LeaseInv'
<1> SUFFICES ASSUME LeaseInv, [LeaseNext]_leaseVars PROVE LeaseInv'
  OBVIOUS
<1>1. CASE Tick
  BY <1>1, TickInv
<1>2. ASSUME NEW c \in Clients, ClientStep(c) PROVE LeaseInv'
  BY <1>2, ClientInv
<1>3. CASE UNCHANGED leaseVars
  BY <1>3 DEF LeaseInv, LeaseTypeOK, LockOwnedInside, leaseVars
<1> QED BY <1>1, <1>2, <1>3 DEF LeaseNext, ClientStep

(* Both hold throughout, whoever calls, expires or is killed.             *)
THEOREM LeaseInvariant == LeaseSpec => []LeaseInv
<1>1. LeaseInit => LeaseInv
  BY LeaseInitInv
<1>2. LeaseInv /\ [LeaseNext]_leaseVars => LeaseInv'
  BY LeaseStepInv
<1> QED BY <1>1, <1>2, PTL DEF LeaseSpec

(* Type correctness of lean_process_lease() for every number of launchers. *)
THEOREM LeaseTypeCorrect == LeaseSpec => []LeaseTypeOK
<1>1. LeaseInv => LeaseTypeOK
  BY DEF LeaseInv
<1> QED BY <1>1, LeaseInvariant, PTL

(* The lock of the host is owned exactly by the launcher between its       *)
(* successful attempt and its finally clause, on every path.               *)
THEOREM LockNeverLeftBehind == LeaseSpec => []LockOwnedInside
<1>1. LeaseInv => LockOwnedInside
  BY DEF LeaseInv
<1> QED BY <1>1, LeaseInvariant, PTL

-----------------------------------------------------------------------------

(* At most one block runs, because the block's client owns the lock.       *)
LEMMA GrantedIsLock ==
    ASSUME LeaseInv
    PROVE  granted = IF lock # NoClient /\ pc[lock] = "body" THEN {lock} ELSE {}
BY LeaseAssumption DEF LeaseInv, LeaseTypeOK, LockOwnedInside, granted

(* Every step of the context manager is a step of the abstract lease or    *)
(* leaves the grant alone.                                                 *)
LEMMA LeaseStepSimulates ==
    LeaseInv /\ LeaseInv' /\ [LeaseNext]_leaseVars => [Abstract!LeaseNext]_granted
<1> SUFFICES ASSUME LeaseInv, LeaseInv', [LeaseNext]_leaseVars
             PROVE  [Abstract!LeaseNext]_granted
  OBVIOUS
<1> USE DEF LeaseInv, LeaseTypeOK
<1>1. CASE Tick
  <2>1. granted' = granted
    BY <1>1 DEF Tick, granted
  <2> QED BY <2>1
<1>2. ASSUME NEW c \in Clients, ClientStep(c) PROVE [Abstract!LeaseNext]_granted
  <2>1. CASE ReserveMet(c)
    <3>1. granted = {}
      BY <2>1, GrantedIsLock DEF ReserveMet, Goto, LockOwnedInside
    <3>2. granted' = {c}
      BY <2>1, <3>1 DEF ReserveMet, Goto, granted
    <3> QED BY <3>1, <3>2 DEF Abstract!LeaseNext, Abstract!Grant
  <2>2. CASE pc[c] = "body" /\ (Leave(c) \/ Crash(c))
    <3>0. lock = c
      BY <2>2 DEF LockOwnedInside
    <3>1. granted = {c}
      BY <2>2, <3>0, LeaseAssumption, GrantedIsLock
    <3>2. granted' = {}
      BY <2>2, <3>1 DEF Leave, Crash, Goto, granted
    <3> QED BY <3>1, <3>2 DEF Abstract!LeaseNext, Abstract!Revoke
  <2>3. CASE pc[c] # "body" /\ pc'[c] # "body"
    <3>1. \A d \in Clients \ {c} : pc'[d] = pc[d]
      BY <1>2 DEF ClientStep, Enter, EnterMisconfigured, EnterNested, TryLock, ReserveStep,
         ReserveMet, ReserveShort, ReserveFails, DeadlineStep, Expire, Nap, Leave,
         LeaveNested, Recover, Crash, Goto
    <3>2. granted' = granted
      BY <2>3, <3>1 DEF granted
    <3> QED BY <3>2
  <2> QED BY <1>2, <2>1, <2>2, <2>3
         DEF ClientStep, Enter, EnterMisconfigured, EnterNested, TryLock, ReserveStep,
             ReserveShort, ReserveFails, DeadlineStep, Expire, Nap, Leave, LeaveNested,
             Recover, Crash, Goto
<1>3. CASE UNCHANGED leaseVars
  BY <1>3 DEF leaseVars, granted
<1> QED BY <1>1, <1>2, <1>3 DEF LeaseNext, ClientStep

(* The context manager implements the abstract lease: blocks never overlap.*)
THEOREM LeanLeaseImplementsLease == LeaseSpec => ImplementsLease
<1>1. LeaseInit => Abstract!LeaseInit
  BY DEF LeaseInit, Abstract!LeaseInit, granted
<1>2. LeaseInv /\ LeaseInv' /\ [LeaseNext]_leaseVars => [Abstract!LeaseNext]_granted
  BY LeaseStepSimulates
<1> QED BY <1>1, <1>2, LeaseInvariant, PTL DEF LeaseSpec, ImplementsLease, Abstract!LeaseSpec

-----------------------------------------------------------------------------
(* Ancestors                                                               *)

Parents == [Clients -> Clients \cup {NoClient}]

(* A chain begins with the launcher itself, ...                            *)
LEMMA ChainSelf == ASSUME NEW up, NEW c \in Clients PROVE c \in Chain(up, c)
BY DEF Chain

(* ... goes on with the parents of its members, ...                        *)
LEMMA ChainClosed ==
    ASSUME NEW up \in Parents, NEW c \in Clients, NEW a \in Chain(up, c)
    PROVE  up[a] \in Chain(up, c) \cup {NoClient}
<1> SUFFICES ASSUME up[a] # NoClient PROVE up[a] \in Chain(up, c)
  OBVIOUS
<1>1. a \in Clients /\ up[a] \in Clients
  BY DEF Chain, Parents
<1>2. ASSUME NEW S \in SUBSET Clients, c \in S,
             \A x \in S : up[x] \in S \cup {NoClient}
      PROVE  up[a] \in S
  BY <1>2 DEF Chain
<1> QED BY <1>1, <1>2 DEF Chain

(* ... and contains nothing else.                                          *)
LEMMA ChainLeast ==
    ASSUME NEW up, NEW S \in SUBSET Clients, NEW c \in S,
           \A x \in S : up[x] \in S \cup {NoClient}
    PROVE  Chain(up, c) \subseteq S
BY DEF Chain

-----------------------------------------------------------------------------
(* The inductive invariant of the trees                                    *)

(* A launcher that waits for another one and the one it waits for point at *)
(* each other; a nested one has lost nothing but a parent that was killed. *)
Links ==
    \A c \in Clients :
        /\ child[c] # "none" => InBlock(c)
        /\ child[c] \in Clients => pc[child[c]] = "nested" /\ parent[child[c]] = c
        /\ pc[c] = "nested" =>
              /\ parent[c] \in Clients
              /\ pc[parent[c]] = "dead" \/ child[parent[c]] = c
        /\ pc[c] \notin {"nested", "dead"} => parent[c] = NoClient

(* An intact chain ends in the block of a launcher that took the lock.     *)
Rooted ==
    \A c \in Clients : Supervised(c) => \E a \in Ancestors(c) : pc[a] = "body"

Shape == LeaseInv /\ TreeTypeOK /\ Links

TreeIInv == Shape /\ Rooted

(* The same of any set of launchers in their blocks that no parent leads   *)
(* out of.                                                                 *)
LEMMA RootIn ==
    ASSUME TreeIInv, NEW S \in SUBSET Clients, NEW c \in S,
           \A x \in S : InBlock(x) /\ parent[x] \in S \cup {NoClient}
    PROVE  \E a \in S : pc[a] = "body"
<1>1. Ancestors(c) \subseteq S
  BY ChainLeast DEF Ancestors
<1>2. Supervised(c)
  BY <1>1 DEF Supervised
<1> QED BY <1>1, <1>2 DEF TreeIInv, Rooted

LEMMA TreeInitInv == Init => TreeIInv
<1> SUFFICES ASSUME Init PROVE TreeIInv
  OBVIOUS
<1> USE DEF Init
<1>1. LeaseInv
  BY LeaseInitInv
<1>2. TreeTypeOK
  BY <1>1 DEF LeaseInv, TreeTypeOK
<1>3. Links
  BY TreeAssumption DEF Links, LeaseInit
<1>4. Rooted
  BY ChainSelf DEF Rooted, Supervised, Ancestors, InBlock, LeaseInit
<1> QED BY <1>1, <1>2, <1>3, <1>4 DEF TreeIInv, Shape

(* A step after which launchers in their blocks are those of before, with  *)
(* the parents of before, uproots no chain.                                *)
LEMMA RootedFrame ==
    ASSUME TreeIInv, parent' \in Parents,
           \A x \in Clients :
              pc'[x] \in {"body", "nested"} =>
                 /\ InBlock(x) /\ parent'[x] = parent[x]
                 /\ pc[x] = "body" => pc'[x] = "body"
    PROVE  Rooted'
<1> SUFFICES ASSUME NEW c \in Clients,
                    \A a \in Chain(parent', c) : pc'[a] \in {"body", "nested"}
             PROVE  \E a \in Chain(parent', c) : pc'[a] = "body"
  BY DEF Rooted, Supervised, Ancestors, InBlock
<1> DEFINE S == Chain(parent', c)
<1>1. S \in SUBSET Clients /\ c \in S
  BY ChainSelf DEF Chain
<1>2. \A x \in S : pc'[x] \in {"body", "nested"} /\ parent'[x] \in S \cup {NoClient}
  BY ChainClosed
<1>3. \A x \in S : InBlock(x) /\ parent[x] \in S \cup {NoClient}
  BY <1>1, <1>2
<1> HIDE DEF S
<1>4. PICK a \in S : pc[a] = "body"
  BY <1>1, <1>3, RootIn
<1>5. pc'[a] = "body"
  BY <1>1, <1>2, <1>4
<1> QED BY <1>4, <1>5 DEF S

(* The lease as such does not notice the trees: every step but the timeout *)
(* of a gate is one of a client of the lease.                              *)
LEMMA TreeLeaseInv ==
    ASSUME TreeIInv, [Next]_vars
    PROVE  LeaseInv'
<1>1. LeaseInv
  BY DEF TreeIInv, Shape
<1>2. CASE Second
  BY <1>1, <1>2, TickInv DEF Second
<1>3. CASE UNCHANGED leaseVars
  BY <1>1, <1>3, LeaseStepInv
<1>4. ASSUME NEW c \in Clients, ClientStep(c) PROVE LeaseInv'
  BY <1>1, <1>4, ClientInv
<1>5. ASSUME NEW c \in Clients, GateTimeout(c) PROVE LeaseInv'
  <2>1. pc[c] = "body" /\ lock' = NoClient /\ left' = left
    BY <1>5 DEF GateTimeout
  <2>2. /\ pc' \in [Clients -> PcValues] /\ pc'[c] = "idle"
        /\ \A d \in Clients : pc'[d] \in {pc[d], "idle", "dead"}
    BY <1>1, <1>5 DEF GateTimeout, LeaseInv, LeaseTypeOK, PcValues
  <2>3. LeaseTypeOK'
    BY <1>1, <2>1, <2>2 DEF LeaseInv, LeaseTypeOK
  <2>4. LockOwnedInside'
    <3>1. lock = c
      BY <1>1, <2>1 DEF LeaseInv, LockOwnedInside
    <3> QED BY <1>1, <2>1, <2>2, <3>1, LeaseAssumption DEF LeaseInv, LockOwnedInside
  <2> QED BY <2>3, <2>4 DEF LeaseInv
<1>6. ASSUME NEW c \in Clients, NEW d \in Clients, StartLauncher(c, d) PROVE LeaseInv'
  BY <1>4, <1>6 DEF StartLauncher, ClientStep
<1>7. ASSUME NEW c \in Clients,
             \/ WaitStep(c) \/ LauncherEnds(c) \/ EndBlock(c) \/ KillLauncher(c)
      PROVE  LeaseInv'
  BY <1>4, <1>7 DEF WaitStep, LauncherEnds, EndBlock, KillLauncher, ClientStep
<1>8. ASSUME NEW c \in Clients, StartLean(c) \/ LeanEnds(c) \/ OrphanEnds(c)
      PROVE  LeaseInv'
  BY <1>3, <1>8 DEF StartLean, LeanEnds, OrphanEnds
<1>9. CASE UNCHANGED vars
  BY <1>3, <1>9 DEF vars, leaseVars
<1> QED BY <1>2, <1>5, <1>6, <1>7, <1>8, <1>9 DEF Next

-----------------------------------------------------------------------------
(* Steps that leave the trees alone                                        *)

(* A step that moves only launchers outside their blocks and never into    *)
(* nested keeps the links.                                                 *)
LEMMA LinksFrame ==
    ASSUME Shape, UNCHANGED treeVars,
           \A x \in Clients :
              \/ pc'[x] = pc[x]
              \/ /\ pc[x] \notin {"nested", "dead"} /\ child[x] = "none"
                 /\ pc'[x] \notin {"nested", "dead"}
    PROVE  Links'
<1> USE DEF Shape, Links, treeVars, InBlock
<1> SUFFICES ASSUME NEW c \in Clients
             PROVE  /\ child[c] # "none" => pc'[c] \in {"body", "nested"}
                    /\ child[c] \in Clients => pc'[child[c]] = "nested" /\ parent[child[c]] = c
                    /\ pc'[c] = "nested" =>
                          /\ parent[c] \in Clients
                          /\ pc'[parent[c]] = "dead" \/ child[parent[c]] = c
                    /\ pc'[c] \notin {"nested", "dead"} => parent[c] = NoClient
  OBVIOUS
<1>1. child[c] # "none" => pc'[c] \in {"body", "nested"}
  OBVIOUS
<1>2. child[c] \in Clients => pc'[child[c]] = "nested" /\ parent[child[c]] = c
  OBVIOUS
<1>3. pc'[c] = "nested" =>
         /\ parent[c] \in Clients
         /\ pc'[parent[c]] = "dead" \/ child[parent[c]] = c
  OBVIOUS
<1>4. pc'[c] \notin {"nested", "dead"} => parent[c] = NoClient
  OBVIOUS
<1> QED BY <1>1, <1>2, <1>3, <1>4

LEMMA TypesFrame ==
    ASSUME Shape, LeaseInv', UNCHANGED treeVars
    PROVE  TreeTypeOK'
BY DEF Shape, LeaseInv, TreeTypeOK, treeVars

LEMMA SecondInv == ASSUME TreeIInv, Second PROVE TreeIInv'
<1> USE DEF TreeIInv, Shape
<1>1. LeaseInv'
  BY TickInv DEF Second
<1>2. /\ UNCHANGED treeVars
      /\ \A x \in Clients : pc'[x] = IF pc[x] = "sleep" THEN "try" ELSE pc[x]
  BY DEF Second, Tick
<1>3. TreeTypeOK'
  BY <1>1, <1>2, TypesFrame
<1>4. Links'
  <2>1. \A x \in Clients : pc[x] = "sleep" => child[x] = "none"
    BY DEF Links, InBlock
  <2> QED BY <1>2, <2>1, LinksFrame
<1>5. Rooted'
  BY <1>2, RootedFrame DEF treeVars, TreeTypeOK, Parents, InBlock
<1> QED BY <1>1, <1>3, <1>4, <1>5

(* The context manager moves a launcher into its block only from reserve,  *)
(* where it holds the lock and so is a root itself.                        *)
LEMMA WaitStepInv == ASSUME TreeIInv, NEW c \in Clients, WaitStep(c) PROVE TreeIInv'
<1> USE DEF TreeIInv, Shape
<1>1. LeaseInv'
  BY ClientInv DEF WaitStep, ClientStep
<1>2. /\ UNCHANGED treeVars
      /\ pc[c] \in {"idle", "try", "reserve", "late", "error"}
      /\ pc'[c] \in {"try", "error", "reserve", "late", "sleep", "body", "idle"}
      /\ \A x \in Clients \ {c} : pc'[x] = pc[x]
  BY DEF WaitStep, Enter, EnterMisconfigured, TryLock, ReserveStep, ReserveMet, ReserveShort,
         ReserveFails, DeadlineStep, Expire, Nap, Recover, Goto, LeaseInv, LeaseTypeOK
<1>3. TreeTypeOK'
  BY <1>1, <1>2, TypesFrame
<1>4. child[c] = "none" /\ parent[c] = NoClient
  BY <1>2 DEF Links, InBlock
<1>5. Links'
  BY <1>2, <1>4, LinksFrame
<1>6. Rooted'
  <2> SUFFICES ASSUME NEW z \in Clients, \A a \in Chain(parent, z) : InBlock(a)'
               PROVE  \E a \in Chain(parent, z) : pc'[a] = "body"
    BY <1>2 DEF Rooted, Supervised, Ancestors, treeVars
  <2> DEFINE S == Chain(parent, z)
  <2>1. S \in SUBSET Clients /\ z \in S /\ \A x \in S : parent[x] \in S \cup {NoClient}
    BY ChainSelf, ChainClosed DEF Chain, TreeTypeOK, Parents
  <2>2. \A x \in S : InBlock(x)'
    OBVIOUS
  <2> HIDE DEF S
  <2>3. CASE c \in S
    <3>1. pc'[c] = "body"
      BY <1>2, <2>2, <2>3 DEF InBlock
    <3> QED BY <2>3, <3>1 DEF S
  <2>4. CASE c \notin S
    <3>1. \A x \in S : InBlock(x) /\ pc'[x] = pc[x]
      BY <1>2, <2>1, <2>2, <2>4 DEF InBlock
    <3>2. PICK a \in S : pc[a] = "body"
      BY <2>1, <3>1, RootIn
    <3> QED BY <3>1, <3>2 DEF S
  <2> QED BY <2>3, <2>4
<1> QED BY <1>1, <1>3, <1>5, <1>6

(* The end of a block that waits for nothing.                              *)
LEMMA EndBlockInv == ASSUME TreeIInv, NEW c \in Clients, EndBlock(c) PROVE TreeIInv'
<1> USE DEF TreeIInv, Shape
<1>1. LeaseInv'
  BY ClientInv DEF EndBlock, ClientStep
<1>2. /\ UNCHANGED treeVars /\ child[c] = "none"
      /\ pc[c] = "body" /\ pc'[c] = "idle"
      /\ \A x \in Clients \ {c} : pc'[x] = pc[x]
  BY DEF EndBlock, Leave, Goto, LeaseInv, LeaseTypeOK
<1>3. TreeTypeOK'
  BY <1>1, <1>2, TypesFrame
<1>4. Links'
  BY <1>2, LinksFrame
<1>5. Rooted'
  BY <1>2, RootedFrame DEF treeVars, TreeTypeOK, Parents, InBlock
<1> QED BY <1>1, <1>3, <1>4, <1>5

(* A command of a launcher, or one left behind, concerns no other launcher.*)
LEMMA LeanInv ==
    ASSUME TreeIInv, NEW c \in Clients, StartLean(c) \/ LeanEnds(c) \/ OrphanEnds(c)
    PROVE  TreeIInv'
<1> USE DEF TreeIInv, Shape
<1>1. /\ UNCHANGED leaseVars /\ UNCHANGED <<parent, top>>
      /\ orphans' \subseteq orphans
  BY DEF StartLean, LeanEnds, OrphanEnds
<1>2. /\ child' \in [Clients -> Clients \cup {"none", "lean"}]
      /\ \A x \in Clients \ {c} : child'[x] = child[x]
      /\ child'[c] # child[c] =>
           /\ child[c] \in {"none", "lean"} /\ child'[c] \in {"none", "lean"}
           /\ child'[c] # "none" => InBlock(c)
  BY DEF StartLean, LeanEnds, OrphanEnds, TreeTypeOK
<1>3. LeaseInv'
  BY <1>1, LeaseStepInv
<1>4. TreeTypeOK'
  BY <1>1, <1>2, <1>3 DEF LeaseInv, TreeTypeOK
<1>5. Links'
  <2> SUFFICES ASSUME NEW x \in Clients
               PROVE  /\ child'[x] # "none" => pc[x] \in {"body", "nested"}
                      /\ child'[x] \in Clients =>
                           pc[child'[x]] = "nested" /\ parent[child'[x]] = x
                      /\ pc[x] = "nested" =>
                           /\ parent[x] \in Clients
                           /\ pc[parent[x]] = "dead" \/ child'[parent[x]] = x
                      /\ pc[x] \notin {"nested", "dead"} => parent[x] = NoClient
    BY <1>1 DEF Links, InBlock, leaseVars
  <2>1. child[c] # child'[c] => child[c] \notin Clients /\ child'[c] \notin Clients
    BY <1>2, TreeAssumption
  <2> QED BY <1>2, <2>1 DEF Links, InBlock
<1>6. Rooted'
  BY <1>1, RootedFrame DEF leaseVars, TreeTypeOK, Parents, InBlock
<1> QED BY <1>3, <1>4, <1>5, <1>6

(* The new launcher hangs below one whose chain is what it was, and        *)
(* nobody hung below the new launcher.                                     *)
LEMMA StartLauncherInv ==
    ASSUME TreeIInv, NEW c \in Clients, NEW d \in Clients, StartLauncher(c, d)
    PROVE  TreeIInv'
<1> USE DEF TreeIInv, Shape
<1>1. /\ InBlock(c) /\ child[c] = "none" /\ pc[d] = "idle" /\ c # d
      /\ pc' = [pc EXCEPT ![d] = "nested"]
      /\ child' = [child EXCEPT ![c] = d]
      /\ parent' = [parent EXCEPT ![d] = c]
      /\ top' = [top EXCEPT ![d] = top[c]]
      /\ orphans' = orphans
  BY DEF StartLauncher, EnterNested, Goto, InBlock
<1>2. LeaseInv'
  BY ClientInv DEF StartLauncher, ClientStep
<1>3. TreeTypeOK'
  BY <1>1, <1>2 DEF LeaseInv, TreeTypeOK
<1>4. child[d] = "none" /\ \A x \in Clients : pc[x] = "nested" => parent[x] # d
  BY <1>1, TreeAssumption DEF Links, InBlock
<1>5. Links'
  <2> SUFFICES ASSUME NEW x \in Clients
               PROVE  /\ child'[x] # "none" => pc'[x] \in {"body", "nested"}
                      /\ child'[x] \in Clients =>
                           pc'[child'[x]] = "nested" /\ parent'[child'[x]] = x
                      /\ pc'[x] = "nested" =>
                           /\ parent'[x] \in Clients
                           /\ pc'[parent'[x]] = "dead" \/ child'[parent'[x]] = x
                      /\ pc'[x] \notin {"nested", "dead"} => parent'[x] = NoClient
    BY DEF Links, InBlock
  <2>1. CASE x = d
    BY <1>1, <1>4, <2>1 DEF TreeTypeOK, LeaseTypeOK, Links, InBlock
  <2>2. CASE x = c
    BY <1>1, <1>4, <2>2 DEF TreeTypeOK, LeaseTypeOK, Links, InBlock
  <2>3. CASE x \notin {c, d}
    BY <1>1, <1>4, <2>3, TreeAssumption DEF TreeTypeOK, LeaseTypeOK, LeaseInv, Links, InBlock
  <2> QED BY <2>1, <2>2, <2>3
<1>6. Rooted'
  <2> SUFFICES ASSUME NEW z \in Clients,
                      \A a \in Chain(parent', z) : pc'[a] \in {"body", "nested"}
               PROVE  \E a \in Chain(parent', z) : pc'[a] = "body"
    BY DEF Rooted, Supervised, Ancestors, InBlock
  <2> DEFINE S == Chain(parent', z)
  <2>0. parent' \in Parents
    BY <1>3 DEF TreeTypeOK, Parents
  <2>1. S \in SUBSET Clients /\ z \in S /\ \A x \in S : parent'[x] \in S \cup {NoClient}
    BY <2>0, ChainSelf, ChainClosed DEF Chain
  <2>2. \A x \in S : pc'[x] \in {"body", "nested"}
    OBVIOUS
  <2> HIDE DEF S
  <2>3. \A x \in S \ {d} : InBlock(x) /\ parent[x] = parent'[x] /\ parent[x] # d
    BY <1>1, <1>4, <2>1, <2>2, LeaseAssumption
       DEF TreeTypeOK, LeaseTypeOK, LeaseInv, InBlock, Links
  <2>4. PICK y \in S : y # d
    <3>1. d \in S => c \in S
      BY <1>1, <2>1, LeaseAssumption DEF TreeTypeOK
    <3> QED BY <1>1, <2>1, <3>1
  <2>5. PICK a \in S \ {d} : pc[a] = "body"
    <3>1. \A x \in S \ {d} : InBlock(x) /\ parent[x] \in (S \ {d}) \cup {NoClient}
      BY <2>1, <2>3
    <3> QED BY <2>1, <2>4, <3>1, RootIn
  <2> QED BY <1>1, <2>1, <2>5 DEF S, LeaseTypeOK, LeaseInv
<1> QED BY <1>2, <1>3, <1>5, <1>6

(* A nested launcher that ends waits for nothing, so it is nobody's parent.*)
LEMMA LauncherEndsInv ==
    ASSUME TreeIInv, NEW d \in Clients, LauncherEnds(d)
    PROVE  TreeIInv'
<1> USE DEF TreeIInv, Shape
<1>1. /\ pc[d] = "nested" /\ child[d] = "none"
      /\ pc' = [pc EXCEPT ![d] = "idle"]
      /\ child' = Reaped(d)
      /\ parent' = [parent EXCEPT ![d] = NoClient]
      /\ top' = [top EXCEPT ![d] = d]
      /\ orphans' = orphans
  BY DEF LauncherEnds, LeaveNested, Goto
<1>2. LeaseInv'
  BY ClientInv DEF LauncherEnds, ClientStep
<1>3. child' \in [Clients -> Clients \cup {"none", "lean"}]
  BY <1>1 DEF TreeTypeOK, Reaped
<1>4. TreeTypeOK'
  BY <1>1, <1>2, <1>3 DEF LeaseInv, TreeTypeOK
<1>5. Links'
  <2>1. \A x \in Clients :
           child'[x] = IF x = parent[d] /\ child[x] = d THEN "none" ELSE child[x]
    BY <1>1 DEF Reaped
  <2>2. \A x \in Clients : child'[x] # d
    BY <1>1, <2>1, TreeAssumption DEF Links
  <2>3. \A x \in Clients : pc[x] = "nested" => parent[x] # d
    BY <1>1, TreeAssumption DEF Links
  <2> SUFFICES ASSUME NEW x \in Clients
               PROVE  /\ child'[x] # "none" => pc'[x] \in {"body", "nested"}
                      /\ child'[x] \in Clients =>
                           pc'[child'[x]] = "nested" /\ parent'[child'[x]] = x
                      /\ pc'[x] = "nested" =>
                           /\ parent'[x] \in Clients
                           /\ pc'[parent'[x]] = "dead" \/ child'[parent'[x]] = x
                      /\ pc'[x] \notin {"nested", "dead"} => parent'[x] = NoClient
    BY DEF Links, InBlock
  <2>4. CASE x = d
    BY <1>1, <2>1, <2>2, <2>4 DEF TreeTypeOK, LeaseTypeOK, LeaseInv, Links, InBlock
  <2>5. CASE x # d
    BY <1>1, <2>1, <2>2, <2>3, <2>5, TreeAssumption
       DEF TreeTypeOK, LeaseTypeOK, LeaseInv, Links, InBlock
  <2> QED BY <2>4, <2>5
<1>6. Rooted'
  BY <1>1, <1>4, RootedFrame DEF TreeTypeOK, LeaseTypeOK, LeaseInv, Parents, InBlock
<1> QED BY <1>2, <1>4, <1>5, <1>6

(* Death breaks the chains through the dead launcher and no other.         *)
LEMMA KillInv ==
    ASSUME TreeIInv, NEW c \in Clients, KillLauncher(c)
    PROVE  TreeIInv'
<1> USE DEF TreeIInv, Shape
<1>1. /\ pc[c] # "dead"
      /\ pc' = [pc EXCEPT ![c] = "dead"]
      /\ child' = [Reaped(c) EXCEPT ![c] = "none"]
      /\ parent' = parent /\ top' = top
      /\ orphans' = orphans \cup LeftBehind(c)
  BY DEF KillLauncher, Crash
<1>2. LeaseInv'
  BY ClientInv DEF KillLauncher, ClientStep
<1>3. child' \in [Clients -> Clients \cup {"none", "lean"}]
  BY <1>1 DEF TreeTypeOK, Reaped
<1>4. TreeTypeOK'
  BY <1>1, <1>2, <1>3 DEF LeaseInv, TreeTypeOK, LeftBehind
<1>5. Links'
  <2>1. \A x \in Clients :
           child'[x] = IF x = c \/ (x = parent[c] /\ child[x] = c) THEN "none" ELSE child[x]
    BY <1>1 DEF Reaped
  <2>2. \A x \in Clients : child'[x] # c
    BY <1>1, <2>1, TreeAssumption DEF Links
  <2> SUFFICES ASSUME NEW x \in Clients
               PROVE  /\ child'[x] # "none" => pc'[x] \in {"body", "nested"}
                      /\ child'[x] \in Clients =>
                           pc'[child'[x]] = "nested" /\ parent[child'[x]] = x
                      /\ pc'[x] = "nested" =>
                           /\ parent[x] \in Clients
                           /\ pc'[parent[x]] = "dead" \/ child'[parent[x]] = x
                      /\ pc'[x] \notin {"nested", "dead"} => parent[x] = NoClient
    BY <1>1 DEF Links, InBlock
  <2>3. CASE x = c
    BY <1>1, <2>1, <2>2, <2>3, TreeAssumption DEF LeaseTypeOK, LeaseInv, Links, InBlock
  <2>4. CASE x # c
    BY <1>1, <2>1, <2>2, <2>4, TreeAssumption DEF LeaseTypeOK, LeaseInv, Links, InBlock
  <2> QED BY <2>3, <2>4
<1>6. Rooted'
  BY <1>1, <1>4, RootedFrame DEF TreeTypeOK, LeaseTypeOK, LeaseInv, Parents, InBlock
<1> QED BY <1>2, <1>4, <1>5, <1>6

(* The timeout of a gate ends a root together with the launcher it waits   *)
(* for.                                                                    *)
LEMMA TimeoutInv ==
    ASSUME TreeIInv, NEW c \in Clients, GateTimeout(c)
    PROVE  TreeIInv'
<1> USE DEF TreeIInv, Shape
<1>1. LeaseInv'
  BY TreeLeaseInv DEF Next
<1>2. /\ pc[c] = "body" /\ child[c] # "none" /\ parent' = parent /\ top' = top
  BY DEF GateTimeout
<1>3. CASE child[c] = "lean"
  <2>1. /\ pc' = [pc EXCEPT ![c] = "idle"]
        /\ child' = [child EXCEPT ![c] = "none"]
        /\ orphans' \subseteq orphans \cup {c}
    BY <1>3, TreeAssumption DEF GateTimeout
  <2>2. TreeTypeOK'
    BY <1>1, <1>2, <2>1 DEF LeaseInv, TreeTypeOK
  <2>3. Links'
    <3>1. \A x \in Clients : pc[x] = "nested" => parent[x] # c
      BY <1>2, <1>3, TreeAssumption DEF Links
    <3> SUFFICES ASSUME NEW x \in Clients
                 PROVE  /\ child'[x] # "none" => pc'[x] \in {"body", "nested"}
                        /\ child'[x] \in Clients =>
                             pc'[child'[x]] = "nested" /\ parent[child'[x]] = x
                        /\ pc'[x] = "nested" =>
                             /\ parent[x] \in Clients
                             /\ pc'[parent[x]] = "dead" \/ child'[parent[x]] = x
                        /\ pc'[x] \notin {"nested", "dead"} => parent[x] = NoClient
      BY <1>2 DEF Links, InBlock
    <3> QED BY <1>2, <2>1, <3>1, TreeAssumption DEF TreeTypeOK, LeaseTypeOK, LeaseInv, Links, InBlock
  <2>4. Rooted'
    BY <1>2, <2>1, <2>2, RootedFrame DEF TreeTypeOK, LeaseTypeOK, LeaseInv, Parents, InBlock
  <2> QED BY <1>1, <2>2, <2>3, <2>4
<1>4. CASE child[c] # "lean"
  <2>1. PICK d \in Clients :
           /\ child[c] = d
           /\ pc' = [pc EXCEPT ![c] = "idle", ![d] = "dead"]
           /\ child' = [child EXCEPT ![c] = "none", ![d] = "none"]
           /\ orphans' = orphans \cup LeftBehind(d)
    BY <1>4 DEF GateTimeout
  <2>2. c # d /\ pc[d] = "nested" /\ parent[d] = c
    BY <1>2, <2>1 DEF Links
  <2>3. TreeTypeOK'
    BY <1>1, <1>2, <2>1 DEF LeaseInv, TreeTypeOK, LeftBehind
  <2>4. Links'
    <3>1. \A x \in Clients :
             /\ pc'[x] = IF x = c THEN "idle" ELSE IF x = d THEN "dead" ELSE pc[x]
             /\ child'[x] = IF x = c \/ x = d THEN "none" ELSE child[x]
      BY <2>1, <2>2 DEF TreeTypeOK, LeaseTypeOK, LeaseInv
    <3>2. \A x \in Clients : pc[x] = "nested" /\ x # d => parent[x] # c
      BY <1>2, <2>1, TreeAssumption DEF Links
    <3>3. \A x \in Clients : child[x] = d => x = c
      BY <2>2 DEF Links
    <3>4. \A x \in Clients : child[x] # c
      BY <1>2 DEF Links
    <3> SUFFICES ASSUME NEW x \in Clients
                 PROVE  /\ child'[x] # "none" => pc'[x] \in {"body", "nested"}
                        /\ child'[x] \in Clients =>
                             pc'[child'[x]] = "nested" /\ parent[child'[x]] = x
                        /\ pc'[x] = "nested" =>
                             /\ parent[x] \in Clients
                             /\ pc'[parent[x]] = "dead" \/ child'[parent[x]] = x
                        /\ pc'[x] \notin {"nested", "dead"} => parent[x] = NoClient
      BY <1>2 DEF Links, InBlock
    <3>5. CASE x \in {c, d}
      BY <1>2, <2>2, <3>1, <3>5, TreeAssumption DEF Links
    <3>6. CASE x \notin {c, d}
      BY <3>1, <3>2, <3>3, <3>4, <3>6, TreeAssumption DEF Links, InBlock
    <3> QED BY <3>5, <3>6
  <2>5. Rooted'
    BY <1>2, <2>1, <2>2, <2>3, RootedFrame DEF TreeTypeOK, LeaseTypeOK, LeaseInv, Parents, InBlock
  <2> QED BY <1>1, <2>3, <2>4, <2>5
<1> QED BY <1>3, <1>4

-----------------------------------------------------------------------------
(* The theorems about the trees                                            *)

LEMMA TreeNextInv == TreeIInv /\ [Next]_vars => TreeIInv'
<1> SUFFICES ASSUME TreeIInv, [Next]_vars PROVE TreeIInv'
  OBVIOUS
<1>1. CASE Second
  BY <1>1, SecondInv
<1>2. ASSUME NEW c \in Clients, WaitStep(c) PROVE TreeIInv'
  BY <1>2, WaitStepInv
<1>3. ASSUME NEW c \in Clients, StartLean(c) \/ LeanEnds(c) \/ OrphanEnds(c)
      PROVE  TreeIInv'
  BY <1>3, LeanInv
<1>4. ASSUME NEW c \in Clients, LauncherEnds(c) PROVE TreeIInv'
  BY <1>4, LauncherEndsInv
<1>5. ASSUME NEW c \in Clients, EndBlock(c) PROVE TreeIInv'
  BY <1>5, EndBlockInv
<1>6. ASSUME NEW c \in Clients, KillLauncher(c) PROVE TreeIInv'
  BY <1>6, KillInv
<1>7. ASSUME NEW c \in Clients, GateTimeout(c) PROVE TreeIInv'
  BY <1>7, TimeoutInv
<1>8. ASSUME NEW c \in Clients, NEW d \in Clients, StartLauncher(c, d) PROVE TreeIInv'
  BY <1>8, StartLauncherInv
<1>9. CASE UNCHANGED vars
  BY <1>9 DEF vars, TreeIInv, Shape, Rooted, LeaseInv, LeaseTypeOK, LockOwnedInside,
     TreeTypeOK, Links, InBlock, Supervised, Ancestors
<1> QED BY <1>1, <1>2, <1>3, <1>4, <1>5, <1>6, <1>7, <1>8, <1>9 DEF Next

(* The links between launchers and the lease agree throughout, whatever is *)
(* started, killed or times out, for every set of launchers.               *)
THEOREM TreeInvariant == Spec => []TreeIInv
<1> QED BY TreeInitInv, TreeNextInv, PTL DEF Spec

(* Down an intact chain: each launcher in it is the one it was drawn from  *)
(* or waits for the next one.                                              *)
LEMMA ChainWaits ==
    ASSUME TreeIInv, NEW c \in Clients, Supervised(c), NEW a \in Ancestors(c)
    PROVE  a = c \/ child[a] \in Ancestors(c)
<1> DEFINE S == {x \in Ancestors(c) : x = c \/ child[x] \in Ancestors(c)}
<1>1. S \in SUBSET Clients /\ c \in S
  BY ChainSelf DEF Ancestors, Chain
<1>2. ASSUME NEW x \in S, parent[x] # NoClient PROVE parent[x] \in S
  <2>1. parent[x] \in Ancestors(c)
    BY <1>2, ChainClosed DEF Ancestors, TreeIInv, Shape, TreeTypeOK, Parents
  <2>2. InBlock(x) /\ InBlock(parent[x])
    BY <2>1 DEF Supervised
  <2>3. child[parent[x]] = x
    BY <1>1, <1>2, <2>2 DEF InBlock, TreeIInv, Shape, Links
  <2> QED BY <2>1, <2>3
<1>3. \A x \in S : parent[x] \in S \cup {NoClient}
  BY <1>2
<1> HIDE DEF S
<1>4. Ancestors(c) \subseteq S
  BY <1>1, <1>3, ChainLeast DEF Ancestors
<1> QED BY <1>4 DEF S

(* An intact chain ends in the owner of the lock, ...                      *)
LEMMA LockAtTop ==
    ASSUME TreeIInv, NEW c \in Clients, Supervised(c)
    PROVE  lock \in Ancestors(c)
<1>1. PICK a \in Ancestors(c) : pc[a] = "body"
  BY DEF TreeIInv, Rooted
<1>2. a \in Clients
  BY DEF Ancestors, Chain
<1> QED BY <1>1, <1>2 DEF TreeIInv, Shape, LeaseInv, LockOwnedInside

(* ... so two of them that start at a running Lean command are one: they   *)
(* share the owner of the lock, each launcher waits for one command only,  *)
(* and from the first place they share both go down the same way.          *)
LEMMA OneTree == TreeIInv => OneSupervisedTree
<1> SUFFICES ASSUME TreeIInv, NEW c \in LeanTrees, NEW d \in LeanTrees,
                    Supervised(c), Supervised(d)
             PROVE  c = d
  BY DEF OneSupervisedTree
<1>0. c \in Clients /\ d \in Clients /\ child[c] = "lean" /\ child[d] = "lean"
  BY DEF LeanTrees
<1> DEFINE S == {x \in Ancestors(d) : x \in Ancestors(c) => d \in Ancestors(c)}
<1>1. S \in SUBSET Clients /\ d \in S
  BY <1>0, ChainSelf DEF Ancestors, Chain
<1>2. ASSUME NEW x \in S, parent[x] # NoClient PROVE parent[x] \in S
  <2>1. parent[x] \in Ancestors(d)
    BY <1>0, <1>2, ChainClosed DEF Ancestors, TreeIInv, Shape, TreeTypeOK, Parents
  <2>2. InBlock(x) /\ InBlock(parent[x])
    BY <2>1 DEF Supervised
  <2>3. child[parent[x]] = x /\ x \in Clients
    BY <1>1, <1>2, <2>2 DEF InBlock, TreeIInv, Shape, Links
  <2>4. parent[x] \in Ancestors(c) => x \in Ancestors(c)
    BY <1>0, <2>3, ChainWaits, TreeAssumption
  <2> QED BY <2>1, <2>4
<1>3. \A x \in S : parent[x] \in S \cup {NoClient}
  BY <1>2
<1>4. lock \in S
  <2> HIDE DEF S
  <2>1. Ancestors(d) \subseteq S
    BY <1>0, <1>1, <1>3, ChainLeast DEF Ancestors
  <2> QED BY <1>0, <2>1, LockAtTop
<1>5. d \in Ancestors(c)
  BY <1>0, <1>4, LockAtTop
<1>6. Ancestors(c) \subseteq Clients
  BY DEF Ancestors, Chain
<1> QED BY <1>0, <1>5, <1>6, ChainWaits, TreeAssumption

(* Whatever is killed around them, the Lean trees whose launchers are      *)
(* alive run one at a time, each under a lease an ancestor holds: of       *)
(* lean_process_lease() with its inherited marker, for every number of     *)
(* launchers nested to any depth.                                          *)
THEOREM LeanTreesSerialized == Spec => []TreeInv
<1>1. TreeIInv => SupervisedUnderLease
  BY LockAtTop DEF SupervisedUnderLease, LeanTrees
<1>2. TreeIInv => TreeInv
  BY <1>1, OneTree DEF TreeInv, TreeIInv, Shape, LeaseInv
<1> QED BY <1>2, TreeInvariant, PTL

(* The lock of the host is owned exactly by a launcher inside, also when   *)
(* gates time out and launchers are killed with their commands running.    *)
THEOREM TreeLockNeverLeftBehind == Spec => []LockOwnedInside
<1>1. TreeIInv => LockOwnedInside
  BY DEF TreeIInv, Shape, LeaseInv
<1> QED BY <1>1, TreeInvariant, PTL

(* Giving the lease back with nobody killed uncovers no launcher below:    *)
(* the plan of the holder waits for the launchers it starts.               *)
THEOREM ReleaseUncoversNobody == Spec => ReleaseIsQuiet
<1> DEFINE Quiet ==
      \A c \in Clients :
         lock = c /\ lock' # c /\ (\A d \in Clients : pc'[d] = "dead" => pc[d] = "dead") =>
            \A d \in Clients \ {c} : Supervised(d) => c \notin Ancestors(d)
<1>1. TreeIInv /\ [Next]_vars => [Quiet]_vars
  <2> SUFFICES ASSUME TreeIInv, Next, NEW c \in Clients, lock = c, lock' # c,
                      \A d \in Clients : pc'[d] = "dead" => pc[d] = "dead",
                      NEW d \in Clients \ {c}, Supervised(d), c \in Ancestors(d)
               PROVE  FALSE
    OBVIOUS
  <2>1. child[c] \in Clients
    BY ChainWaits DEF Ancestors, Chain
  <2>2. pc[c] = "body"
    BY DEF TreeIInv, Shape, LeaseInv, LockOwnedInside, Supervised, InBlock
  <2>3. \A x \in Clients \ {c} : pc[x] \notin {"reserve", "body"}
    BY DEF TreeIInv, Shape, LeaseInv, LockOwnedInside
  <2>4. pc \in [Clients -> PcValues]
    BY DEF TreeIInv, Shape, LeaseInv, LeaseTypeOK
  <2>5. CASE Second
    BY <2>5 DEF Second, Tick
  <2>6. ASSUME NEW x \in Clients, WaitStep(x) PROVE FALSE
    BY <2>2, <2>3, <2>6, LeaseAssumption
       DEF WaitStep, Enter, EnterMisconfigured, TryLock, ReserveStep, ReserveMet,
           ReserveShort, ReserveFails, DeadlineStep, Expire, Nap, Recover, Goto
  <2>7. ASSUME NEW x \in Clients, StartLean(x) \/ LeanEnds(x) \/ OrphanEnds(x) PROVE FALSE
    BY <2>7 DEF StartLean, LeanEnds, OrphanEnds, leaseVars
  <2>8. ASSUME NEW x \in Clients, NEW y \in Clients, LauncherEnds(x) \/ StartLauncher(x, y)
        PROVE  FALSE
    BY <2>8 DEF LauncherEnds, StartLauncher, LeaveNested, EnterNested
  <2>9. ASSUME NEW x \in Clients, EndBlock(x) PROVE FALSE
    BY <2>1, <2>3, <2>9, TreeAssumption DEF EndBlock, Leave, Goto
  <2>10. ASSUME NEW x \in Clients, KillLauncher(x) PROVE FALSE
    BY <2>4, <2>10 DEF KillLauncher, Crash
  <2>11. ASSUME NEW x \in Clients, GateTimeout(x) PROVE FALSE
    <3>1. x = c
      BY <2>3, <2>11 DEF GateTimeout
    <3>2. PICK y \in Clients :
             child[c] = y /\ pc' = [pc EXCEPT ![c] = "idle", ![y] = "dead"]
      BY <2>1, <2>11, <3>1, TreeAssumption DEF GateTimeout
    <3>3. pc[y] = "nested"
      BY <3>2 DEF TreeIInv, Shape, Links
    <3> QED BY <2>4, <3>2, <3>3
  <2> QED BY <2>5, <2>6, <2>7, <2>8, <2>9, <2>10, <2>11 DEF Next
<1>2. Spec => [][Quiet]_vars
  BY <1>1, TreeInvariant, PTL DEF Spec
<1> QED BY <1>2 DEF ReleaseIsQuiet

(* A step of the trees is one of the lease, or the timeout of a gate,      *)
(* which revokes the grant.                                                *)
LEMMA TreeStepSimulates ==
    TreeIInv /\ TreeIInv' /\ [Next]_vars => [Abstract!LeaseNext]_granted
<1> SUFFICES ASSUME TreeIInv, TreeIInv', [Next]_vars PROVE [Abstract!LeaseNext]_granted
  OBVIOUS
<1>1. LeaseInv /\ LeaseInv'
  BY DEF TreeIInv, Shape
<1>2. CASE [LeaseNext]_leaseVars
  BY <1>1, <1>2, LeaseStepSimulates
<1>3. ASSUME NEW c \in Clients, GateTimeout(c) PROVE [Abstract!LeaseNext]_granted
  <2>1. pc[c] = "body" /\ lock = c
    BY <1>1, <1>3 DEF GateTimeout, LeaseInv, LockOwnedInside
  <2>2. granted = {c}
    BY <1>1, <2>1, GrantedIsLock, LeaseAssumption
  <2>3. granted' = {}
    <3>1. \A x \in Clients : pc'[x] \in {pc[x], "idle", "dead"} /\ pc'[c] = "idle"
      BY <1>1, <1>3 DEF GateTimeout, LeaseInv, LeaseTypeOK
    <3> QED BY <2>2, <3>1 DEF granted
  <2> QED BY <2>2, <2>3 DEF Abstract!LeaseNext, Abstract!Revoke
<1>4. ASSUME NEW c \in Clients,
             \/ WaitStep(c) \/ LauncherEnds(c) \/ EndBlock(c) \/ KillLauncher(c)
             \/ \E d \in Clients : StartLauncher(c, d)
      PROVE  LeaseNext
  BY <1>4 DEF WaitStep, LauncherEnds, EndBlock, KillLauncher, StartLauncher, LeaseNext
<1>5. ASSUME NEW c \in Clients, StartLean(c) \/ LeanEnds(c) \/ OrphanEnds(c)
      PROVE  UNCHANGED leaseVars
  BY <1>5 DEF StartLean, LeanEnds, OrphanEnds
<1>6. CASE Second
  BY <1>2, <1>6 DEF Second, LeaseNext
<1>7. CASE UNCHANGED vars
  BY <1>2, <1>7 DEF vars, leaseVars
<1> QED BY <1>2, <1>3, <1>4, <1>5, <1>6, <1>7 DEF Next

(* The blocks of the launchers started by hand follow the abstract lease   *)
(* with their trees as without them.                                       *)
THEOREM LeaseTreeImplementsLease == Spec => ImplementsLease
<1>1. Init => Abstract!LeaseInit
  BY DEF Init, LeaseInit, Abstract!LeaseInit, granted
<1>2. TreeIInv /\ TreeIInv' /\ [Next]_vars => [Abstract!LeaseNext]_granted
  BY TreeStepSimulates
<1> QED BY <1>1, <1>2, TreeInvariant, PTL DEF Spec, ImplementsLease, Abstract!LeaseSpec

=============================================================================
