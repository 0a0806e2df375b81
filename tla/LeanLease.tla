------------------------------ MODULE LeanLease ------------------------------
(***************************************************************************)
(* lean_process_lease(), the context manager of scripts/lean_process_lease *)
(* .py, as the threads and processes of one host execute it.               *)
(*                                                                         *)
(* A client is one thread of control that calls the context manager: a     *)
(* launcher process, or one worker thread of run_gates.py (each call opens *)
(* its own file, so two threads of one process exclude each other too).    *)
(* The clock is the time each client has left before its deadline; a tick  *)
(* is one second, the length of the sleep between two attempts.            *)
(*                                                                         *)
(* A definition commented "Mutant" is a bug the checks must find; no       *)
(* specification uses it.                                                  *)
(***************************************************************************)
EXTENDS Integers

CONSTANTS
    Clients,        \* threads of control that call lean_process_lease()
    NoClient,       \* the owner of a free lock
    Timeout,        \* GASM_LEAN_LEASE_TIMEOUT_SECONDS
    HasCommitStatus \* TRUE on Windows, where windows_commit_status() answers

ASSUME LeaseAssumption ==
    /\ NoClient \notin Clients
    /\ Timeout \in Nat \ {0}
    /\ HasCommitStatus \in BOOLEAN

VARIABLES
    lock,   \* the client whose open file holds the lock, or NoClient
    pc,     \* where each client is in lean_process_lease()
    left    \* seconds each client has before its deadline

leaseVars == <<lock, pc, left>>

(* idle     not in the context manager                                     *)
(* try      at the head of the loop, about to try the lock                 *)
(* reserve  the lock is held, the memory reserve is being compared         *)
(* late     the attempt failed, the deadline is about to be compared       *)
(* sleep    in time.sleep(1.0)                                             *)
(* body     the caller's block runs, the lock is held                      *)
(* nested   the caller's block runs under an ancestor's lease              *)
(* error    the context manager raised                                     *)
(* dead     the process was killed                                         *)
PcValues == {"idle", "try", "reserve", "late", "sleep", "body", "nested",
             "error", "dead"}

Waiting == {"try", "reserve", "late", "sleep"}

LeaseTypeOK ==
    /\ lock \in Clients \cup {NoClient}
    /\ pc \in [Clients -> PcValues]
    /\ left \in [Clients -> 0 .. Timeout]

LeaseInit ==
    /\ lock = NoClient
    /\ pc = [c \in Clients |-> "idle"]
    /\ left = [c \in Clients |-> 0]

Goto(c, from, to) == pc[c] = from /\ pc' = [pc EXCEPT ![c] = to]

(* A child of a lease holder has GASM_LEAN_LEASE_HELD=1 in its environment *)
(* and runs its block at once, without touching the lock.                  *)
EnterNested(c) == Goto(c, "idle", "nested") /\ UNCHANGED <<lock, left>>

LeaveNested(c) == Goto(c, "nested", "idle") /\ UNCHANGED <<lock, left>>

(* Without the marker the deadline is fixed and the loop begins.           *)
Enter(c) ==
    /\ Goto(c, "idle", "try")
    /\ left' = [left EXCEPT ![c] = Timeout]
    /\ UNCHANGED lock

(* A reserve or timeout variable that is not a number, or is too small,    *)
(* raises ValueError before the lock file is opened.                       *)
EnterMisconfigured(c) == Goto(c, "idle", "error") /\ UNCHANGED <<lock, left>>

(* Mutant: the lock is taken over the head of its holder.                  *)
TryLockOverHolder(c) == Goto(c, "try", "reserve") /\ lock' = c /\ UNCHANGED left

(* Mutant: the deadline is computed anew by every attempt.                 *)
TryLockRestartsDeadline(c) ==
    \/ /\ lock = NoClient
       /\ Goto(c, "try", "reserve")
       /\ lock' = c
       /\ UNCHANGED left
    \/ /\ lock # NoClient
       /\ Goto(c, "try", "late")
       /\ left' = [left EXCEPT ![c] = Timeout]
       /\ UNCHANGED lock

(* _try_lock is non-blocking: it takes the lock or reports BlockingIOError.*)
TryLock(c) ==
    \/ /\ lock = NoClient
       /\ Goto(c, "try", "reserve")
       /\ lock' = c
       /\ UNCHANGED left
    \/ /\ lock # NoClient
       /\ Goto(c, "try", "late")
       /\ UNCHANGED <<lock, left>>

(* The reserve is there, or the platform cannot tell: the block runs.      *)
ReserveMet(c) == Goto(c, "reserve", "body") /\ UNCHANGED <<lock, left>>

(* Windows reports too little memory: the finally clause unlocks and the   *)
(* loop goes on to its deadline.                                           *)
ReserveShort(c) ==
    /\ HasCommitStatus
    /\ Goto(c, "reserve", "late")
    /\ lock' = NoClient
    /\ UNCHANGED left

(* Mutant: the unlocking is not in a finally clause.                       *)
ReserveFailsLocked(c) ==
    /\ HasCommitStatus
    /\ Goto(c, "reserve", "error")
    /\ UNCHANGED <<lock, left>>

(* GlobalMemoryStatusEx fails: WinError leaves through the finally clause. *)
ReserveFails(c) ==
    /\ HasCommitStatus
    /\ Goto(c, "reserve", "error")
    /\ lock' = NoClient
    /\ UNCHANGED left

(* The deadline is compared only after an attempt that failed.             *)
Expire(c) == left[c] = 0 /\ Goto(c, "late", "error") /\ UNCHANGED <<lock, left>>

Nap(c) == left[c] > 0 /\ Goto(c, "late", "sleep") /\ UNCHANGED <<lock, left>>

(* The block returns or raises: the finally clause unlocks.                *)
Leave(c) ==
    /\ Goto(c, "body", "idle")
    /\ lock' = NoClient
    /\ UNCHANGED left

(* The caller reports the error and returns; it may call again.            *)
Recover(c) == Goto(c, "error", "idle") /\ UNCHANGED <<lock, left>>

(* The process is killed; the operating system drops its file lock.        *)
Crash(c) ==
    /\ pc[c] # "dead"
    /\ pc' = [pc EXCEPT ![c] = "dead"]
    /\ lock' = IF lock = c THEN NoClient ELSE lock
    /\ UNCHANGED left

(* One second passes for every client; a sleep of one second ends.         *)
Tick ==
    /\ pc' = [c \in Clients |-> IF pc[c] = "sleep" THEN "try" ELSE pc[c]]
    /\ left' = [c \in Clients |-> IF left[c] > 0 THEN left[c] - 1 ELSE 0]
    /\ UNCHANGED lock

ReserveStep(c) == ReserveMet(c) \/ ReserveShort(c) \/ ReserveFails(c)

DeadlineStep(c) == Expire(c) \/ Nap(c)

LeaseNext ==
    \/ Tick
    \/ \E c \in Clients :
          \/ Enter(c) \/ EnterMisconfigured(c) \/ EnterNested(c)
          \/ TryLock(c) \/ ReserveStep(c) \/ DeadlineStep(c)
          \/ Leave(c) \/ LeaveNested(c) \/ Recover(c) \/ Crash(c)

LeaseSpec == LeaseInit /\ [][LeaseNext]_leaseVars

(* The interpreter goes on running a client that waits and the clock       *)
(* advances; nothing obliges a block to end or a process to call.          *)
LeaseFairness ==
    /\ WF_leaseVars(Tick)
    /\ \A c \in Clients : WF_leaseVars(TryLock(c) \/ ReserveStep(c) \/ DeadlineStep(c))

-----------------------------------------------------------------------------

(* The file lock is never left behind: whoever owns it is inside the       *)
(* locked part of the loop or in the block, on every path that raises,     *)
(* unlocks or dies, and whoever is there owns it.                          *)
LockOwnedInside ==
    \A c \in Clients : lock = c <=> pc[c] \in {"reserve", "body"}

(* The blocks of the clients follow the abstract lease: the grant begins   *)
(* when the memory reserve is met, not when the lock is taken, and two     *)
(* blocks never overlap, whatever times out, raises or is killed.          *)
granted == {c \in Clients : pc[c] = "body"}

Abstract == INSTANCE Lease

ImplementsLease == Abstract!LeaseSpec

(* Every waiter ends up with the lease or with an error (TimeoutError),    *)
(* even when a holder keeps the lease for ever.                            *)
WaitEnds ==
    \A c \in Clients :
        pc[c] \in Waiting ~> pc[c] \notin Waiting

==============================================================================
