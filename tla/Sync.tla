-------------------------------- MODULE Sync --------------------------------
(***************************************************************************)
(* Mutexes and counting semaphores, kernel/sync.c, on top of the life      *)
(* cycle of ProcessLifecycle.  All callers come through the syscall gate,  *)
(* so one pass of the loop in sync_mutex_lock or sync_semaphore_wait, up   *)
(* to process_block_current, is one action; a process switched back in     *)
(* takes the next pass before anything else can run.                       *)
(*                                                                         *)
(* Procs are pids: the counter in process_acquire_pid does not come back   *)
(* to a pid within a run, so a dead process stays dead here.               *)
(***************************************************************************)
EXTENDS Integers, Sequences, ProcessLifecycle

CONSTANTS
  MAX_MUTEXES,            \* CONFIG_SYNC_MAX_MUTEXES
  MAX_SEMAPHORES,         \* CONFIG_SYNC_MAX_SEMAPHORES
  MAX_WAITERS,            \* CONFIG_SYNC_MAX_WAITERS
  NoProc,                 \* the owner -1
  InitialCounts,          \* arguments of sync_semaphore_create
  MaxSupply               \* bound on the initial count and posts of one semaphore

ASSUME SyncAssumption ==
  /\ MAX_MUTEXES \in Nat
  /\ MAX_SEMAPHORES \in Nat
  /\ MAX_WAITERS \in Nat \ {0}
  /\ NoProc \notin Procs
  /\ InitialCounts \subseteq Nat
  /\ MaxSupply \in Nat

Mutexes == 0 .. MAX_MUTEXES - 1
Semaphores == 0 .. MAX_SEMAPHORES - 1

NoCall == <<"user", 0>>
Calls == {NoCall} \cup ({"lock"} \X Mutexes) \cup ({"wait"} \X Semaphores)

VARIABLES
  call,                   \* the blocking call a process is inside of
  m_used, locked, owner, m_waiters,
  s_used, count, s_waiters,
  holding,                \* history: whose lock returned 0, not unlocked since
  dropped,                \* history: processes enqueue_waiter found no room for
  supply, grants, spent   \* history, per semaphore: the initial count plus the posts, the
                          \* waits that returned, the posts that woke a waiter instead

mutexVars == <<m_used, locked, owner, m_waiters, holding>>
semVars == <<s_used, count, s_waiters, supply, grants, spent>>
syncVars == <<status, call, mutexVars, semVars, dropped>>

-----------------------------------------------------------------------------
(* Helpers *)

WaiterExists(list, p) == \E i \in 1 .. Len(list) : list[i] = p

\* The list after `if (!waiter_exists) enqueue_waiter`, whose result is ignored.
WithWaiter(list, p) ==
  IF WaiterExists(list, p) \/ Len(list) >= MAX_WAITERS THEN list ELSE Append(list, p)

\* p is executing and is either in user code or back in the loop of call c.
Executes(p, c) == status[p] = "running" /\ call[p] \in {NoCall, c}

Return(p) == call' = [call EXCEPT ![p] = NoCall] /\ UNCHANGED status

\* Enqueue on `list` and process_block_current.
Block(p, c, list) ==
  /\ Blocked(p)
  /\ call' = [call EXCEPT ![p] = c]
  /\ dropped' = IF WaiterExists(WithWaiter(list, p), p) THEN dropped ELSE dropped \cup {p}

WakeNobody(w) == UNCHANGED status       \* mutant: process_wake is not called
WakeEverybody(w) ==                     \* mutant: all blocked processes are woken
  status' = [p \in Procs |-> IF status[p] = "waiting" THEN "ready" ELSE status[p]]

\* process_lookup and process_wake of a pid taken from a waiter list.
WakeWaiter(w) ==
  status' = IF status[w] = "waiting" THEN [status EXCEPT ![w] = "ready"] ELSE status

-----------------------------------------------------------------------------

SyncInit ==
  /\ LInit
  /\ call = [p \in Procs |-> NoCall]
  /\ m_used = [m \in Mutexes |-> FALSE]
  /\ locked = [m \in Mutexes |-> FALSE]
  /\ owner = [m \in Mutexes |-> NoProc]
  /\ m_waiters = [m \in Mutexes |-> <<>>]
  /\ holding = [m \in Mutexes |-> {}]
  /\ s_used = [s \in Semaphores |-> FALSE]
  /\ count = [s \in Semaphores |-> 0]
  /\ s_waiters = [s \in Semaphores |-> <<>>]
  /\ supply = [s \in Semaphores |-> 0]
  /\ grants = [s \in Semaphores |-> 0]
  /\ spent = [s \in Semaphores |-> 0]
  /\ dropped = {}

\* Scheduling.  A process inside a call is not preempted: its gate keeps interrupts off.
Create(p) == Created(p) /\ UNCHANGED <<call, mutexVars, semVars, dropped>>
Dispatch(p) == Dispatched(p) /\ UNCHANGED <<call, mutexVars, semVars, dropped>>
Preempt(p) ==
  /\ call[p] = NoCall
  /\ Descheduled(p)
  /\ UNCHANGED <<call, mutexVars, semVars, dropped>>

\* process_exit releases no mutex.
Exit(p) ==
  /\ call[p] = NoCall
  /\ Exited(p)
  /\ UNCHANGED <<call, mutexVars, semVars, dropped>>

MutexCreate(p) ==
  /\ Executes(p, NoCall)
  /\ \E m \in Mutexes :
        /\ ~m_used[m]
        /\ \A n \in 0 .. m - 1 : m_used[n]
        /\ m_used' = [m_used EXCEPT ![m] = TRUE]
        /\ locked' = [locked EXCEPT ![m] = FALSE]
        /\ owner' = [owner EXCEPT ![m] = NoProc]
        /\ m_waiters' = [m_waiters EXCEPT ![m] = <<>>]
  /\ UNCHANGED <<status, call, holding, semVars, dropped>>

LockRejected(p, m) ==
  /\ Executes(p, <<"lock", m>>)
  /\ ~m_used[m]
  /\ Return(p)
  /\ UNCHANGED <<mutexVars, semVars, dropped>>

LockTaken(p, m) ==                      \* mutant: `locked` is not looked at
  /\ Executes(p, <<"lock", m>>)
  /\ m_used[m]
  /\ locked' = [locked EXCEPT ![m] = TRUE]
  /\ owner' = [owner EXCEPT ![m] = p]
  /\ holding' = [holding EXCEPT ![m] = @ \cup {p}]
  /\ Return(p)
  /\ UNCHANGED <<m_used, m_waiters, semVars, dropped>>

LockFree(p, m) ==
  /\ Executes(p, <<"lock", m>>)
  /\ m_used[m] /\ ~locked[m]
  /\ locked' = [locked EXCEPT ![m] = TRUE]
  /\ owner' = [owner EXCEPT ![m] = p]
  /\ holding' = [holding EXCEPT ![m] = @ \cup {p}]
  /\ Return(p)
  /\ UNCHANGED <<m_used, m_waiters, semVars, dropped>>

\* Locked again by its owner, or handed over by the previous one.
LockOwned(p, m) ==
  /\ Executes(p, <<"lock", m>>)
  /\ m_used[m] /\ locked[m] /\ owner[m] = p
  /\ holding' = [holding EXCEPT ![m] = @ \cup {p}]
  /\ Return(p)
  /\ UNCHANGED <<m_used, locked, owner, m_waiters, semVars, dropped>>

LockContended(p, m) ==
  /\ Executes(p, <<"lock", m>>)
  /\ m_used[m] /\ locked[m] /\ owner[m] # p
  /\ m_waiters' = [m_waiters EXCEPT ![m] = WithWaiter(@, p)]
  /\ Block(p, <<"lock", m>>, m_waiters[m])
  /\ UNCHANGED <<m_used, locked, owner, holding, semVars>>

MutexLock(p, m) ==
  LockRejected(p, m) \/ LockFree(p, m) \/ LockOwned(p, m) \/ LockContended(p, m)

\* Anyone but the owner of a locked mutex gets -1 and changes nothing.
MutexUnlock(p, m) ==
  /\ Executes(p, NoCall)
  /\ m_used[m] /\ locked[m] /\ owner[m] = p
  /\ IF m_waiters[m] # <<>>
     THEN LET w == Head(m_waiters[m]) IN
          /\ m_waiters' = [m_waiters EXCEPT ![m] = Tail(@)]
          /\ owner' = [owner EXCEPT ![m] = w]
          /\ UNCHANGED locked
          /\ WakeWaiter(w)
     ELSE /\ locked' = [locked EXCEPT ![m] = FALSE]
          /\ owner' = [owner EXCEPT ![m] = NoProc]
          /\ UNCHANGED <<m_waiters, status>>
  /\ holding' = [holding EXCEPT ![m] = @ \ {p}]
  /\ UNCHANGED <<call, m_used, semVars, dropped>>

SemaphoreCreate(p, c) ==
  /\ Executes(p, NoCall)
  /\ \E s \in Semaphores :
        /\ ~s_used[s]
        /\ \A r \in 0 .. s - 1 : s_used[r]
        /\ s_used' = [s_used EXCEPT ![s] = TRUE]
        /\ count' = [count EXCEPT ![s] = c]
        /\ s_waiters' = [s_waiters EXCEPT ![s] = <<>>]
        /\ supply' = [supply EXCEPT ![s] = c]
  /\ UNCHANGED <<status, call, grants, spent, mutexVars, dropped>>

WaitRejected(p, s) ==
  /\ Executes(p, <<"wait", s>>)
  /\ ~s_used[s]
  /\ Return(p)
  /\ UNCHANGED <<mutexVars, semVars, dropped>>

WaitKeepsCount(p, s) ==                 \* mutant: `count` is not decremented
  /\ Executes(p, <<"wait", s>>)
  /\ s_used[s] /\ count[s] > 0
  /\ grants' = [grants EXCEPT ![s] = @ + 1]
  /\ Return(p)
  /\ UNCHANGED <<s_used, count, s_waiters, supply, spent, mutexVars, dropped>>

WaitGranted(p, s) ==
  /\ Executes(p, <<"wait", s>>)
  /\ s_used[s] /\ count[s] > 0
  /\ count' = [count EXCEPT ![s] = @ - 1]
  /\ grants' = [grants EXCEPT ![s] = @ + 1]
  /\ Return(p)
  /\ UNCHANGED <<s_used, s_waiters, supply, spent, mutexVars, dropped>>

WaitBlocked(p, s) ==
  /\ Executes(p, <<"wait", s>>)
  /\ s_used[s] /\ count[s] <= 0
  /\ s_waiters' = [s_waiters EXCEPT ![s] = WithWaiter(@, p)]
  /\ Block(p, <<"wait", s>>, s_waiters[s])
  /\ UNCHANGED <<s_used, count, supply, grants, spent, mutexVars>>

SemaphoreWait(p, s) == WaitRejected(p, s) \/ WaitGranted(p, s) \/ WaitBlocked(p, s)

PostCountsToo(p, s) ==                  \* mutant: counts although it wakes a waiter
  /\ Executes(p, NoCall)
  /\ s_used[s] /\ supply[s] < MaxSupply
  /\ s_waiters[s] # <<>>
  /\ s_waiters' = [s_waiters EXCEPT ![s] = Tail(@)]
  /\ WakeWaiter(Head(s_waiters[s]))
  /\ count' = [count EXCEPT ![s] = @ + 1]
  /\ supply' = [supply EXCEPT ![s] = @ + 1]
  /\ UNCHANGED <<call, s_used, grants, spent, mutexVars, dropped>>

\* With a waiter queued the post only wakes it; the count does not change.
SemaphorePost(p, s) ==
  /\ Executes(p, NoCall)
  /\ s_used[s]
  /\ supply[s] < MaxSupply
  /\ IF s_waiters[s] # <<>>
     THEN /\ s_waiters' = [s_waiters EXCEPT ![s] = Tail(@)]
          /\ WakeWaiter(Head(s_waiters[s]))
          /\ spent' = [spent EXCEPT ![s] = @ + 1]
          /\ UNCHANGED count
     ELSE /\ count' = [count EXCEPT ![s] = @ + 1]
          /\ UNCHANGED <<s_waiters, spent, status>>
  /\ supply' = [supply EXCEPT ![s] = @ + 1]
  /\ UNCHANGED <<call, s_used, grants, mutexVars, dropped>>

\* Every process has exited or is blocked: the idle thread has the CPU for good.
OnlyIdle ==
  /\ \A p \in Procs : status[p] \notin {"absent", "ready", "running"}
  /\ UNCHANGED syncVars

SyncNext ==
  \/ OnlyIdle
  \/ \E p \in Procs :
       \/ Create(p) \/ Dispatch(p) \/ Preempt(p) \/ Exit(p) \/ MutexCreate(p)
       \/ \E m \in Mutexes : MutexLock(p, m) \/ MutexUnlock(p, m)
       \/ \E c \in InitialCounts : SemaphoreCreate(p, c)
       \/ \E s \in Semaphores : SemaphoreWait(p, s) \/ SemaphorePost(p, s)

SyncSpec == SyncInit /\ [][SyncNext]_syncVars

-----------------------------------------------------------------------------
(* Properties *)

\* sync_mutex_unlock hands the mutex to a waiter that has not run yet, and the
\* waiter learns of it only when it repeats the loop of sync_mutex_lock.  Still
\* nobody else's lock returns 0 before the holder unlocks: at any time at most
\* one process has been granted a mutex, and it is the recorded owner.
MutualExclusion ==
  \A m \in Mutexes : /\ holding[m] \subseteq {owner[m]}
                     /\ holding[m] # {} => locked[m]

\* The processes on one waiter list: blocked inside call c, each of them once.
WaitersIn(list, c) ==
  \A i \in 1 .. Len(list) :
     /\ status[list[i]] = "waiting"
     /\ call[list[i]] = c
     /\ \A j \in 1 .. Len(list) : list[i] = list[j] => i = j

\* A waiter list holds processes blocked in that very call, so a pid taken from it
\* is never running, dead, or waiting for something else, and the unlock or post
\* that takes it is not wasted on it.  Nobody queues for what is available: a
\* mutex with waiters is locked, by someone else, and a semaphore with waiters
\* has count 0.
WaitersAreBlocked ==
  /\ \A m \in Mutexes :
       /\ WaitersIn(m_waiters[m], <<"lock", m>>)
       /\ m_waiters[m] # <<>> => locked[m]
       /\ \A i \in 1 .. Len(m_waiters[m]) : m_waiters[m][i] # owner[m]
  /\ \A s \in Semaphores :
       /\ WaitersIn(s_waiters[s], <<"wait", s>>)
       /\ s_waiters[s] # <<>> => count[s] = 0

Registered(p) ==
  \/ \E m \in Mutexes : WaiterExists(m_waiters[m], p)
  \/ \E s \in Semaphores : WaiterExists(s_waiters[s], p)

\* Whoever blocks is on a waiter list, where the next unlock or post will find it,
\* unless the list was full and enqueue_waiter's failure was ignored.
BlockedIsRegistered ==
  \A p \in Procs : status[p] = "waiting" => (p \in dropped <=> ~Registered(p))

\* A process enqueue_waiter had no room for never runs again: no list names it.
DroppedForever == [][\A p \in dropped : status[p] = "waiting" /\ status'[p] = "waiting"]_syncVars

\* Where the posts of a semaphore go.  A post with a waiter queued wakes it and
\* leaves the count alone, and the woken waiter finds the count 0 and blocks
\* again: such a post lets no wait return, ever.  All others, and the initial
\* count, are granted or still in the count; none is granted twice.
PostsAccounted ==
  \A s \in Semaphores : grants[s] + count[s] + spent[s] = supply[s]

\* Fairness: the timer preempts whoever stays on the CPU, a READY process is
\* eventually picked, a call goes on once it has the CPU, and programs unlock.
SyncFairness ==
  \A p \in Procs :
     /\ WF_syncVars(Preempt(p))
     /\ SF_syncVars(Dispatch(p))
     /\ \A m \in Mutexes : /\ WF_syncVars(call[p] = <<"lock", m>> /\ MutexLock(p, m))
                           /\ SF_syncVars(MutexUnlock(p, m))
     /\ \A s \in Semaphores : WF_syncVars(call[p] = <<"wait", s>> /\ SemaphoreWait(p, s))

FairSyncSpec == SyncSpec /\ SyncFairness

\* The holder of m cannot unlock it: it exited, or it is blocked in another call.
Stuck(m) ==
  /\ owner[m] # NoProc
  /\ \/ status[owner[m]] = "dead"
     \/ status[owner[m]] = "waiting" /\ call[owner[m]] # <<"lock", m>>

\* Every sync_mutex_lock returns as long as there was room for the waiter and no
\* holder gets stuck: hand-over skips no waiter and loses no wake-up.
LockReturns ==
  \A p \in Procs, m \in Mutexes :
     call[p] = <<"lock", m>> ~> call[p] = NoCall \/ p \in dropped \/ Stuck(m)

=============================================================================
