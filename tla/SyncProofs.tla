------------------------------ MODULE SyncProofs ------------------------------
(***************************************************************************)
(* The safety of mutexes and semaphores for any number of processes,       *)
(* mutexes, semaphores and places for waiters: the operations on           *)
(* semaphores keep the invariant too, and what follows from it.            *)
(***************************************************************************)
EXTENDS SyncMutexes

\* sync_semaphore_create
LEMMA SemaphoreCreateStep ==
  ASSUME SyncInv, NEW p \in Procs, NEW c \in InitialCounts, SemaphoreCreate(p, c)
  PROVE  SyncInv'
<1>1. PICK s \in Semaphores :
        /\ ~s_used[s]
        /\ s_used' = [s_used EXCEPT ![s] = TRUE]
        /\ count' = [count EXCEPT ![s] = c]
        /\ s_waiters' = [s_waiters EXCEPT ![s] = <<>>]
        /\ supply' = [supply EXCEPT ![s] = c]
  BY DEF SemaphoreCreate
<1>2. status[p] = "running" /\ UNCHANGED <<status, call, grants, spent, mutexVars, dropped>>
  BY DEF SemaphoreCreate, Executes
<1>3. s_waiters' = s_waiters /\ s_waiters[s] = <<>> /\ grants[s] = 0 /\ spent[s] = 0 /\ c \in Nat
  BY <1>1, SyncAssumption DEF SyncInv, SyncTypeOK, UnusedIsEmpty
<1>4. SyncTypeOK'
  BY <1>1, <1>2, <1>3 DEF SyncInv, SyncTypeOK, mutexVars
<1>5. UnusedIsEmpty' /\ MutualExclusion'
  BY <1>1, <1>2, <1>3 DEF SyncInv, SyncTypeOK, UnusedIsEmpty, MutualExclusion, mutexVars
<1>6. PostsAccounted'
  BY <1>1, <1>2, <1>3 DEF SyncInv, SyncTypeOK, PostsAccounted
<1>7. /\ \A n \in Mutexes : WaitersIn(m_waiters[n], <<"lock", n>>)'
      /\ \A r \in Semaphores : WaitersIn(s_waiters[r], <<"wait", r>>)'
      /\ BlockedIsRegistered' /\ DroppedWait'
  BY <1>2, <1>3, ReturningCalls DEF mutexVars
<1>8. WaitersAreBlocked'
  BY <1>1, <1>2, <1>3, <1>7 DEF SyncInv, SyncTypeOK, WaitersAreBlocked, mutexVars
<1>. QED  BY <1>4, <1>5, <1>6, <1>7, <1>8 DEF SyncInv

\* sync_semaphore_wait that returns: no such semaphore, or its count was positive.
LEMMA WaitReturnSteps ==
  ASSUME SyncInv, NEW p \in Procs, NEW s \in Semaphores, WaitRejected(p, s) \/ WaitGranted(p, s)
  PROVE  SyncInv'
<1>1. /\ status[p] = "running" /\ call' = [call EXCEPT ![p] = NoCall]
      /\ UNCHANGED <<status, mutexVars, s_used, s_waiters, supply, spent, dropped>>
  BY DEF WaitRejected, WaitGranted, Executes, Return, semVars
<1>2. /\ call' \in [Procs -> Calls]
      /\ \A n \in Mutexes : WaitersIn(m_waiters[n], <<"lock", n>>)'
      /\ \A r \in Semaphores : WaitersIn(s_waiters[r], <<"wait", r>>)'
      /\ BlockedIsRegistered' /\ DroppedWait'
  BY <1>1, ReturningCalls DEF mutexVars
<1>3. MutualExclusion'
  BY <1>1 DEF SyncInv, MutualExclusion, mutexVars
<1>4. CASE UNCHANGED <<count, grants>>
  <2>1. SyncTypeOK' /\ UnusedIsEmpty' /\ PostsAccounted'
    BY <1>1, <1>2, <1>4 DEF SyncInv, SyncTypeOK, UnusedIsEmpty, PostsAccounted, mutexVars
  <2>2. WaitersAreBlocked'
    BY <1>1, <1>2, <1>4 DEF SyncInv, WaitersAreBlocked, mutexVars
  <2>. QED  BY <1>2, <1>3, <2>1, <2>2 DEF SyncInv
<1>5. CASE /\ s_used[s] /\ count[s] > 0
           /\ count' = [count EXCEPT ![s] = @ - 1]
           /\ grants' = [grants EXCEPT ![s] = @ + 1]
  <2>1. SyncTypeOK' /\ UnusedIsEmpty'
    BY <1>1, <1>2, <1>5 DEF SyncInv, SyncTypeOK, UnusedIsEmpty, mutexVars
  <2>2. PostsAccounted'
    BY <1>1, <1>5 DEF SyncInv, SyncTypeOK, PostsAccounted
  <2>3. s_waiters[s] = <<>>
    <3>1. count[s] # 0
      BY <1>5
    <3>. QED  BY <3>1 DEF SyncInv, WaitersAreBlocked
  <2>4. WaitersAreBlocked'
    BY <1>1, <1>2, <1>5, <2>3, SMTT(30) DEF SyncInv, SyncTypeOK, WaitersAreBlocked, mutexVars
  <2>. QED  BY <1>2, <1>3, <2>1, <2>2, <2>4 DEF SyncInv
<1>. QED  BY <1>4, <1>5 DEF WaitRejected, WaitGranted, semVars

\* sync_semaphore_wait that blocks.
LEMMA WaitBlockStep ==
  ASSUME SyncInv, NEW p \in Procs, NEW s \in Semaphores, WaitBlocked(p, s)
  PROVE  SyncInv'
<1>1. /\ status[p] = "running" /\ status' = [status EXCEPT ![p] = "waiting"]
      /\ call' = [call EXCEPT ![p] = <<"wait", s>>]
      /\ s_used[s] /\ count[s] <= 0
      /\ s_waiters' = [s_waiters EXCEPT ![s] = WithWaiter(s_waiters[s], p)]
      /\ dropped' = IF WaiterExists(WithWaiter(s_waiters[s], p), p) THEN dropped ELSE dropped \cup {p}
      /\ UNCHANGED <<s_used, count, supply, grants, spent, mutexVars>>
  BY DEF WaitBlocked, Executes, Block, Blocked, Becomes, SyncInv, SyncTypeOK
<1>2. /\ m_waiters \in [Mutexes -> Seq(Procs)] /\ s_waiters \in [Semaphores -> Seq(Procs)]
      /\ WithWaiter(s_waiters[s], p) \in Seq(Procs)
  BY WithWaiterFacts DEF SyncInv, SyncTypeOK
<1>3. /\ status'[p] = "waiting" /\ call'[p] = <<"wait", s>>
      /\ \A x \in Procs \ {p} : status'[x] = status[x] /\ call'[x] = call[x]
  BY <1>1 DEF SyncInv, SyncTypeOK
<1>4. /\ \A n \in Mutexes : Sound(m_waiters[n], <<"lock", n>>, status, call)
      /\ \A r \in Semaphores : Sound(s_waiters[r], <<"wait", r>>, status, call)
  BY DEF SyncInv, WaitersAreBlocked, WaitersIn, Sound
<1>5. /\ \A n \in Mutexes : \A i \in 1 .. Len(m_waiters[n]) : m_waiters[n][i] # p
      /\ \A r \in Semaphores : \A i \in 1 .. Len(s_waiters[r]) : s_waiters[r][i] # p
  BY <1>1, RunnersNotListed DEF SyncInv
<1>6. /\ Sound(s_waiters'[s], <<"wait", s>>, status', call')
      /\ \A x \in Procs \ {p} : WaiterExists(s_waiters'[s], x) <=> WaiterExists(s_waiters[s], x)
  <2>1. s_waiters'[s] = WithWaiter(s_waiters[s], p) /\ s_waiters[s] \in Seq(Procs)
    BY <1>1, <1>2
  <2>2. status[p] # "waiting"
    BY <1>1
  <2>. QED  BY <1>3, <1>4, <2>1, <2>2, EntersList
<1>7. \A r \in Semaphores \ {s} : s_waiters'[r] = s_waiters[r]
  BY <1>1, <1>2
<1>8. \A r \in Semaphores : Sound(s_waiters'[r], <<"wait", r>>, status', call')
  BY <1>2, <1>3, <1>4, <1>5, <1>6, <1>7, OtherListKept
<1>9. \A n \in Mutexes : Sound(m_waiters'[n], <<"lock", n>>, status', call')
  <2>1. m_waiters' = m_waiters
    BY <1>1 DEF mutexVars
  <2>. QED  BY <1>2, <1>3, <1>4, <1>5, <2>1, OtherListKept
<1>10. SyncTypeOK'
  <2>1. status' \in [Procs -> Statuses] /\ call' \in [Procs -> Calls] /\ dropped' \subseteq Procs
    BY <1>1 DEF SyncInv, SyncTypeOK, Statuses, Calls
  <2>2. s_waiters' \in [Semaphores -> Seq(Procs)]
    BY <1>1, <1>2
  <2>. QED  BY <1>1, <2>1, <2>2 DEF SyncInv, SyncTypeOK, mutexVars
<1>11. UnusedIsEmpty' /\ MutualExclusion' /\ PostsAccounted'
  BY <1>1, <1>7 DEF SyncInv, SyncTypeOK, UnusedIsEmpty, MutualExclusion, PostsAccounted, mutexVars
<1>12. WaitersAreBlocked'
  <2>1. \A n \in Mutexes : WaitersIn(m_waiters[n], <<"lock", n>>)'
    BY <1>9 DEF WaitersIn, Sound
  <2>2. \A r \in Semaphores : WaitersIn(s_waiters[r], <<"wait", r>>)'
    BY <1>8, SMTT(30) DEF WaitersIn, Sound
  <2>3. \A r \in Semaphores : s_waiters'[r] # <<>> => count'[r] = 0
    <3>1. count[s] \in Nat /\ count' = count
      BY <1>1 DEF SyncInv, SyncTypeOK
    <3>2. count'[s] = 0
      BY <1>1, <3>1
    <3>3. ASSUME NEW r \in Semaphores \ {s} PROVE s_waiters'[r] # <<>> => count'[r] = 0
      BY <1>7, <3>1 DEF SyncInv, WaitersAreBlocked
    <3>. QED  BY <3>2, <3>3
  <2>. QED  BY <1>1, <2>1, <2>2, <2>3 DEF SyncInv, WaitersAreBlocked, mutexVars
<1>13. DroppedWait'
  BY <1>1, <1>3 DEF SyncInv, SyncTypeOK, DroppedWait
<1>14. BlockedIsRegistered'
  <2>1. \A x \in Procs \ {p} : Registered(x)' <=> Registered(x)
    BY <1>1, <1>6, <1>7 DEF Registered, mutexVars
  <2>2. \A x \in Procs \ {p} : x \in dropped' <=> x \in dropped
    BY <1>1
  <2>3. Registered(p)' <=> WaiterExists(s_waiters'[s], p)
    <3>1. \A n \in Mutexes : ~WaiterExists(m_waiters'[n], p)
      BY <1>1, <1>5 DEF WaiterExists, mutexVars
    <3>2. \A r \in Semaphores \ {s} : ~WaiterExists(s_waiters'[r], p)
      BY <1>5, <1>7 DEF WaiterExists
    <3>. QED  BY <3>1, <3>2 DEF Registered
  <2>4. s_waiters'[s] = WithWaiter(s_waiters[s], p)
    BY <1>1, <1>2
  <2>5. p \notin dropped
    BY <1>1 DEF SyncInv, DroppedWait
  <2>6. p \in dropped' <=> ~Registered(p)'
    BY <1>1, <2>3, <2>4, <2>5
  <2>. QED  BY <1>3, <2>1, <2>2, <2>6 DEF SyncInv, BlockedIsRegistered
<1>. QED  BY <1>10, <1>11, <1>12, <1>13, <1>14 DEF SyncInv

\* sync_semaphore_post: it wakes the first waiter, or it counts.
LEMMA PostStep ==
  ASSUME SyncInv, NEW p \in Procs, NEW s \in Semaphores, SemaphorePost(p, s)
  PROVE  SyncInv'
<1>1. /\ status[p] = "running" /\ s_used[s]
      /\ supply' = [supply EXCEPT ![s] = @ + 1]
      /\ UNCHANGED <<call, s_used, grants, mutexVars, dropped>>
  BY DEF SemaphorePost, Executes
<1>2. MutualExclusion'
  BY <1>1 DEF SyncInv, MutualExclusion, mutexVars
<1>3. CASE s_waiters[s] = <<>>
  <2>1. count' = [count EXCEPT ![s] = @ + 1] /\ UNCHANGED <<s_waiters, spent, status>>
    BY <1>3 DEF SemaphorePost
  <2>2. SyncTypeOK' /\ UnusedIsEmpty'
    BY <1>1, <2>1 DEF SyncInv, SyncTypeOK, UnusedIsEmpty, mutexVars
  <2>3. PostsAccounted'
    BY <1>1, <2>1 DEF SyncInv, SyncTypeOK, PostsAccounted
  <2>4. /\ \A n \in Mutexes : WaitersIn(m_waiters[n], <<"lock", n>>)'
        /\ \A r \in Semaphores : WaitersIn(s_waiters[r], <<"wait", r>>)'
        /\ BlockedIsRegistered' /\ DroppedWait'
    BY <1>1, <2>1, ReturningCalls DEF mutexVars
  <2>5. WaitersAreBlocked'
    BY <1>1, <1>3, <2>1, <2>4 DEF SyncInv, SyncTypeOK, WaitersAreBlocked, mutexVars
  <2>. QED  BY <1>2, <2>2, <2>3, <2>4, <2>5 DEF SyncInv
<1>4. CASE s_waiters[s] # <<>>
  <2>. DEFINE w == Head(s_waiters[s])
  <2>1. /\ s_waiters' = [s_waiters EXCEPT ![s] = Tail(s_waiters[s])]
        /\ spent' = [spent EXCEPT ![s] = @ + 1] /\ count' = count /\ WakeWaiter(w)
    BY <1>4 DEF SemaphorePost
  <2>2. /\ m_waiters \in [Mutexes -> Seq(Procs)] /\ s_waiters \in [Semaphores -> Seq(Procs)]
        /\ s_waiters[s] \in Seq(Procs)
    BY DEF SyncInv, SyncTypeOK
  <2>3. /\ \A n \in Mutexes : Sound(m_waiters[n], <<"lock", n>>, status, call)
        /\ \A r \in Semaphores : Sound(s_waiters[r], <<"wait", r>>, status, call)
    BY DEF SyncInv, WaitersAreBlocked, WaitersIn, Sound
  <2>4. w \in Procs /\ status[w] = "waiting" /\ call[w] = <<"wait", s>> /\ WaiterExists(s_waiters[s], w)
    <3>1. w \in Procs /\ w = s_waiters[s][1] /\ 1 \in 1 .. Len(s_waiters[s])
      BY <1>4, <2>2, TailFacts
    <3>. QED  BY <2>3, <3>1 DEF Sound, WaiterExists
  <2>5. status' = [status EXCEPT ![w] = "ready"]
    BY <2>1, <2>4 DEF WakeWaiter
  <2>. HIDE DEF w
  <2>6. status'[w] = "ready" /\ \A x \in Procs \ {w} : status'[x] = status[x] /\ call'[x] = call[x]
    BY <1>1, <2>4, <2>5 DEF SyncInv, SyncTypeOK
  <2>7. /\ Sound(s_waiters'[s], <<"wait", s>>, status', call')
        /\ \A x \in Procs \ {w} : WaiterExists(s_waiters'[s], x) <=> WaiterExists(s_waiters[s], x)
    <3>1. s_waiters'[s] = Tail(s_waiters[s]) /\ call' = call
      BY <1>1, <2>1, <2>2
    <3>. QED  BY <1>4, <2>2, <2>3, <2>6, <3>1, LeavesList DEF w
  <2>8. \A r \in Semaphores \ {s} : s_waiters'[r] = s_waiters[r]
    BY <2>1, <2>2
  <2>9. \A r \in Semaphores \ {s} : \A i \in 1 .. Len(s_waiters[r]) : s_waiters[r][i] # w
    BY <2>3, <2>4 DEF Sound
  <2>10. \A n \in Mutexes : \A i \in 1 .. Len(m_waiters[n]) : m_waiters[n][i] # w
    BY <2>3, <2>4 DEF Sound
  <2>11. \A r \in Semaphores : Sound(s_waiters'[r], <<"wait", r>>, status', call')
    <3>1. ASSUME NEW r \in Semaphores \ {s}
          PROVE  Sound(s_waiters'[r], <<"wait", r>>, status', call')
      <4>1. s_waiters[r] \in Seq(Procs) /\ s_waiters'[r] = s_waiters[r]
        BY <2>2, <2>8
      <4>. QED  BY <2>3, <2>4, <2>6, <2>9, <4>1, OtherListKept
    <3>. QED  BY <2>7, <3>1
  <2>12. \A n \in Mutexes : Sound(m_waiters'[n], <<"lock", n>>, status', call')
    <3>1. m_waiters' = m_waiters
      BY <1>1 DEF mutexVars
    <3>. QED  BY <2>2, <2>3, <2>4, <2>6, <2>10, <3>1, OtherListKept
  <2>13. SyncTypeOK'
    <3>1. status' \in [Procs -> Statuses]
      BY <2>4, <2>5 DEF SyncInv, SyncTypeOK, Statuses
    <3>2. s_waiters' \in [Semaphores -> Seq(Procs)]
      BY <1>4, <2>1, <2>2, TailFacts
    <3>. QED  BY <1>1, <2>1, <3>1, <3>2, SMTT(30) DEF SyncInv, SyncTypeOK, mutexVars
  <2>14. UnusedIsEmpty'
    BY <1>1, <2>1, <2>8 DEF SyncInv, SyncTypeOK, UnusedIsEmpty, mutexVars
  <2>15. PostsAccounted'
    <3>1. /\ supply' = [supply EXCEPT ![s] = @ + 1] /\ spent' = [spent EXCEPT ![s] = @ + 1]
          /\ grants' = grants /\ count' = count
          /\ count \in [Semaphores -> Nat] /\ supply \in [Semaphores -> Nat]
          /\ grants \in [Semaphores -> Nat] /\ spent \in [Semaphores -> Nat]
      BY <1>1, <2>1 DEF SyncInv, SyncTypeOK
    <3>2. \A r \in Semaphores : grants[r] + count[r] + spent[r] = supply[r]
      BY DEF SyncInv, PostsAccounted
    <3>3. ASSUME NEW r \in Semaphores PROVE grants'[r] + count'[r] + spent'[r] = supply'[r]
      BY <3>1, <3>2
    <3>. QED  BY <3>3 DEF PostsAccounted
  <2>16. WaitersAreBlocked'
    <3>1. \A n \in Mutexes : WaitersIn(m_waiters[n], <<"lock", n>>)'
      BY <2>12 DEF WaitersIn, Sound
    <3>2. \A r \in Semaphores : WaitersIn(s_waiters[r], <<"wait", r>>)'
      BY <2>11 DEF WaitersIn, Sound
    <3>3. \A r \in Semaphores : s_waiters'[r] # <<>> => count'[r] = 0
      BY <1>4, <2>1, <2>8 DEF SyncInv, WaitersAreBlocked
    <3>. QED  BY <1>1, <3>1, <3>2, <3>3 DEF SyncInv, WaitersAreBlocked, mutexVars
  <2>17. w \notin dropped
    BY <2>4 DEF SyncInv, BlockedIsRegistered, Registered
  <2>18. DroppedWait'
    BY <1>1, <2>6, <2>17 DEF SyncInv, SyncTypeOK, DroppedWait
  <2>19. BlockedIsRegistered'
    <3>1. \A x \in Procs \ {w} : Registered(x)' <=> Registered(x)
      BY <1>1, <2>7, <2>8 DEF Registered, mutexVars
    <3>. QED  BY <1>1, <2>6, <3>1 DEF SyncInv, BlockedIsRegistered
  <2>. QED  BY <1>2, <2>13, <2>14, <2>15, <2>16, <2>18, <2>19 DEF SyncInv
<1>. QED  BY <1>3, <1>4

-----------------------------------------------------------------------------
(* The inductive invariant, and what it implies *)

LEMMA SyncInvInit == SyncInit => SyncInv
<1>. SUFFICES ASSUME SyncInit PROVE SyncInv
  OBVIOUS
<1>. USE SyncAssumption
<1>1. SyncTypeOK
  BY DEF SyncInit, LInit, SyncTypeOK, Statuses, Calls
<1>2. UnusedIsEmpty /\ MutualExclusion /\ DroppedWait /\ PostsAccounted
  BY DEF SyncInit, UnusedIsEmpty, MutualExclusion, DroppedWait, PostsAccounted
<1>3. WaitersAreBlocked
  BY DEF SyncInit, WaitersAreBlocked, WaitersIn
<1>4. BlockedIsRegistered
  BY DEF SyncInit, LInit, BlockedIsRegistered
<1>. QED  BY <1>1, <1>2, <1>3, <1>4 DEF SyncInv

LEMMA SyncInvStep == SyncInv /\ [SyncNext]_syncVars => SyncInv'
<1>. SUFFICES ASSUME SyncInv, [SyncNext]_syncVars PROVE SyncInv'
  OBVIOUS
<1>1. CASE UNCHANGED syncVars
  <2>1. UNCHANGED <<status, call, m_used, locked, owner, m_waiters, holding, dropped,
                    s_used, count, s_waiters, supply, grants, spent>>
    BY <1>1 DEF syncVars, mutexVars, semVars
  <2>2. SyncTypeOK'
    BY <2>1, SMTT(30) DEF SyncInv, SyncTypeOK
  <2>3. UnusedIsEmpty' /\ MutualExclusion' /\ DroppedWait' /\ PostsAccounted'
    BY <2>1 DEF SyncInv, UnusedIsEmpty, MutualExclusion, DroppedWait, PostsAccounted
  <2>4. WaitersAreBlocked'
    <3>1. /\ \A m \in Mutexes : WaitersIn(m_waiters[m], <<"lock", m>>)'
          /\ \A s \in Semaphores : WaitersIn(s_waiters[s], <<"wait", s>>)'
      BY <2>1, ZenonT(30) DEF SyncInv, WaitersAreBlocked, WaitersIn
    <3>. QED  BY <2>1, <3>1, ZenonT(30) DEF SyncInv, WaitersAreBlocked
  <2>5. BlockedIsRegistered'
    BY <2>1 DEF SyncInv, BlockedIsRegistered, Registered
  <2>. QED  BY <2>2, <2>3, <2>4, <2>5 DEF SyncInv
<1>2. CASE OnlyIdle
  BY <1>1, <1>2 DEF OnlyIdle
<1>3. ASSUME NEW p \in Procs, Create(p) \/ Dispatch(p) \/ Preempt(p) \/ Exit(p)
      PROVE  SyncInv'
  BY <1>3, SchedulingSteps
<1>4. ASSUME NEW p \in Procs, MutexCreate(p)
      PROVE  SyncInv'
  BY <1>4, MutexCreateStep
<1>5. ASSUME NEW p \in Procs, NEW m \in Mutexes, MutexLock(p, m) \/ MutexUnlock(p, m)
      PROVE  SyncInv'
  BY <1>5, LockReturnSteps, LockBlockStep, UnlockStep DEF MutexLock
<1>6. ASSUME NEW p \in Procs, NEW c \in InitialCounts, SemaphoreCreate(p, c)
      PROVE  SyncInv'
  BY <1>6, SemaphoreCreateStep
<1>7. ASSUME NEW p \in Procs, NEW s \in Semaphores, SemaphoreWait(p, s) \/ SemaphorePost(p, s)
      PROVE  SyncInv'
  BY <1>7, WaitReturnSteps, WaitBlockStep, PostStep DEF SemaphoreWait
<1>. QED  BY <1>1, <1>2, <1>3, <1>4, <1>5, <1>6, <1>7 DEF SyncNext

\* At most one process has been granted a mutex, and it is the recorded owner, however
\* the hand-over of sync_mutex_unlock interleaves with other locks.
THEOREM MutexExcludes == SyncSpec => []MutualExclusion
<1>1. SyncInv => MutualExclusion
  BY DEF SyncInv
<1>. QED  BY <1>1, SyncInvInit, SyncInvStep, PTL DEF SyncSpec

\* The waiter lists of sync.c hold processes blocked in that very call, each once, and
\* only while there is something to wait for.
THEOREM ListsHoldWaiters == SyncSpec => []WaitersAreBlocked
<1>1. SyncInv => WaitersAreBlocked
  BY DEF SyncInv
<1>. QED  BY <1>1, SyncInvInit, SyncInvStep, PTL DEF SyncSpec

\* Whoever blocks in sync.c is on a waiter list, unless enqueue_waiter had no room.
THEOREM WaitersAreListed == SyncSpec => []BlockedIsRegistered
<1>1. SyncInv => BlockedIsRegistered
  BY DEF SyncInv
<1>. QED  BY <1>1, SyncInvInit, SyncInvStep, PTL DEF SyncSpec

\* Every post of sync_semaphore_post, and the initial count, is granted to one wait, still
\* in the count, or spent on waking a waiter that blocks again.
THEOREM EveryPostAccounted == SyncSpec => []PostsAccounted
<1>1. SyncInv => PostsAccounted
  BY DEF SyncInv
<1>. QED  BY <1>1, SyncInvInit, SyncInvStep, PTL DEF SyncSpec
\* No step takes a process out of dropped.
LEMMA DroppedStays ==
  ASSUME [SyncNext]_syncVars
  PROVE  dropped \subseteq dropped'
<1>1. ASSUME NEW p \in Procs, NEW c, NEW list, Block(p, c, list)
      PROVE  dropped \subseteq dropped'
  BY <1>1 DEF Block
<1>2. ASSUME NEW p \in Procs, NEW m \in Mutexes, MutexLock(p, m)
      PROVE  dropped \subseteq dropped'
  <2>1. ASSUME LockRejected(p, m) PROVE dropped' = dropped
    BY <2>1 DEF LockRejected
  <2>2. ASSUME LockFree(p, m) PROVE dropped' = dropped
    BY <2>2 DEF LockFree
  <2>3. ASSUME LockOwned(p, m) PROVE dropped' = dropped
    BY <2>3 DEF LockOwned
  <2>4. ASSUME LockContended(p, m) PROVE dropped \subseteq dropped'
    BY <1>1, <2>4 DEF LockContended
  <2>. QED  BY <1>2, <2>1, <2>2, <2>3, <2>4 DEF MutexLock
<1>3. ASSUME NEW p \in Procs, NEW s \in Semaphores, SemaphoreWait(p, s)
      PROVE  dropped \subseteq dropped'
  <2>1. ASSUME WaitRejected(p, s) PROVE dropped' = dropped
    BY <2>1 DEF WaitRejected
  <2>2. ASSUME WaitGranted(p, s) PROVE dropped' = dropped
    BY <2>2 DEF WaitGranted
  <2>3. ASSUME WaitBlocked(p, s) PROVE dropped \subseteq dropped'
    BY <1>1, <2>3 DEF WaitBlocked
  <2>. QED  BY <1>3, <2>1, <2>2, <2>3 DEF SemaphoreWait
<1>4. \A p \in Procs : \A s \in Semaphores : SemaphorePost(p, s) => dropped' = dropped
  BY DEF SemaphorePost
<1>5. \A p \in Procs : \A m \in Mutexes : MutexUnlock(p, m) => dropped' = dropped
  BY DEF MutexUnlock
<1>6. \A p \in Procs : Create(p) \/ Dispatch(p) \/ Preempt(p) \/ Exit(p) \/ MutexCreate(p)
                         => dropped' = dropped
  BY DEF Create, Dispatch, Preempt, Exit, MutexCreate
<1>7. \A p \in Procs : \A c \in InitialCounts : SemaphoreCreate(p, c) => dropped' = dropped
  BY DEF SemaphoreCreate
<1>8. OnlyIdle \/ UNCHANGED syncVars => dropped' = dropped
  BY DEF OnlyIdle, syncVars
<1>. QED  BY <1>2, <1>3, <1>4, <1>5, <1>6, <1>7, <1>8 DEF SyncNext

\* A process enqueue_waiter had no room for is never woken again: with BlockedIsRegistered
\* no list names it, so that no unlock and no post can reach it.
THEOREM DroppedNeverWoken == SyncSpec => DroppedForever
<1>1. SyncInv /\ SyncInv' /\ [SyncNext]_syncVars
        => [\A p \in dropped : status[p] = "waiting" /\ status'[p] = "waiting"]_syncVars
  BY DroppedStays DEF SyncInv, DroppedWait
<1>. QED  BY <1>1, SyncInvInit, SyncInvStep, PTL DEF SyncSpec, DroppedForever

=============================================================================
