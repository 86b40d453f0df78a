------------------------------ MODULE SyncMutexes -----------------------------
(***************************************************************************)
(* The inductive invariant of module Sync, facts about its waiter lists,   *)
(* and that scheduling and the operations on mutexes keep the invariant.   *)
(***************************************************************************)
EXTENDS Sync, TLAPS

SyncTypeOK ==
  /\ status \in [Procs -> Statuses]
  /\ call \in [Procs -> Calls]
  /\ m_used \in [Mutexes -> BOOLEAN] /\ locked \in [Mutexes -> BOOLEAN]
  /\ owner \in [Mutexes -> Procs \cup {NoProc}]
  /\ m_waiters \in [Mutexes -> Seq(Procs)]
  /\ holding \in [Mutexes -> SUBSET Procs]
  /\ s_used \in [Semaphores -> BOOLEAN]
  /\ count \in [Semaphores -> Nat]
  /\ s_waiters \in [Semaphores -> Seq(Procs)]
  /\ supply \in [Semaphores -> Nat] /\ grants \in [Semaphores -> Nat] /\ spent \in [Semaphores -> Nat]
  /\ dropped \subseteq Procs

\* What create finds in the slot it takes.
UnusedIsEmpty ==
  /\ \A m \in Mutexes : ~m_used[m] => ~locked[m] /\ m_waiters[m] = <<>>
  /\ \A s \in Semaphores : ~s_used[s] => s_waiters[s] = <<>> /\ grants[s] = 0 /\ spent[s] = 0

DroppedWait == \A p \in dropped : status[p] = "waiting"

SyncInv ==
  /\ SyncTypeOK /\ UnusedIsEmpty /\ MutualExclusion
  /\ WaitersAreBlocked /\ BlockedIsRegistered /\ DroppedWait /\ PostsAccounted

-----------------------------------------------------------------------------
(* Waiter lists *)

\* Taking the first waiter off.
LEMMA TailFacts ==
  ASSUME NEW q \in Seq(Procs), q # <<>>
  PROVE  /\ Len(q) \in Nat \ {0} /\ Head(q) = q[1] /\ Head(q) \in Procs
         /\ Tail(q) \in Seq(Procs) /\ Len(Tail(q)) = Len(q) - 1
         /\ \A i \in 1 .. Len(q) - 1 : Tail(q)[i] = q[i + 1]
  OBVIOUS

\* enqueue_waiter of a process that is not on the list: it is last, or there is no room.
LEMMA WithWaiterFacts ==
  ASSUME NEW q \in Seq(Procs), NEW p \in Procs
  PROVE  /\ WithWaiter(q, p) \in Seq(Procs)
         /\ \/ WithWaiter(q, p) = q
            \/ /\ ~WaiterExists(q, p)
               /\ Len(WithWaiter(q, p)) = Len(q) + 1
               /\ WithWaiter(q, p)[Len(q) + 1] = p
               /\ \A i \in 1 .. Len(q) : WithWaiter(q, p)[i] = q[i]
  BY DEF WithWaiter

\* A process that is not blocked is on no list.
LEMMA RunnersNotListed ==
  ASSUME WaitersAreBlocked, NEW p \in Procs, status[p] # "waiting"
  PROVE  /\ \A m \in Mutexes : \A i \in 1 .. Len(m_waiters[m]) : m_waiters[m][i] # p
         /\ \A s \in Semaphores : \A i \in 1 .. Len(s_waiters[s]) : s_waiters[s][i] # p
  BY DEF WaitersAreBlocked, WaitersIn

\* A list and what it says of the processes on it, with their states st and calls cl.
Sound(list, c, st, cl) ==
  \A i \in 1 .. Len(list) :
     /\ st[list[i]] = "waiting"
     /\ cl[list[i]] = c
     /\ \A j \in 1 .. Len(list) : list[i] = list[j] => i = j

\* When a process that was running blocks in call c, the list it is entered on stays sound.
LEMMA EntersList ==
  ASSUME NEW q \in Seq(Procs), NEW p \in Procs, NEW c,
         Sound(q, c, status, call), status[p] # "waiting", status'[p] = "waiting", call'[p] = c,
         \A x \in Procs \ {p} : status'[x] = status[x] /\ call'[x] = call[x]
  PROVE  /\ Sound(WithWaiter(q, p), c, status', call')
         /\ \A x \in Procs \ {p} : WaiterExists(WithWaiter(q, p), x) <=> WaiterExists(q, x)
<1>. DEFINE r == WithWaiter(q, p)
<1>1. \A i \in 1 .. Len(q) : q[i] \in Procs \ {p}
  BY DEF Sound
<1>2. CASE r = q
  BY <1>1, <1>2 DEF Sound
<1>3. CASE /\ Len(r) = Len(q) + 1 /\ r[Len(q) + 1] = p
           /\ \A i \in 1 .. Len(q) : r[i] = q[i]
  <2>. HIDE DEF r
  <2>0. Len(q) \in Nat
    OBVIOUS
  <2>1. \A i \in 1 .. Len(r) : status'[r[i]] = "waiting" /\ call'[r[i]] = c
    BY <1>1, <1>3, <2>0 DEF Sound
  <2>2. \A i, j \in 1 .. Len(r) : r[i] = r[j] => i = j
    BY <1>1, <1>3, <2>0 DEF Sound
  <2>3. ASSUME NEW x \in Procs \ {p}
        PROVE  WaiterExists(r, x) <=> WaiterExists(q, x)
    <3>1. ASSUME NEW i \in 1 .. Len(r), r[i] = x
          PROVE  i \in 1 .. Len(q) /\ q[i] = x
      BY <1>3, <2>0, <3>1
    <3>2. ASSUME NEW i \in 1 .. Len(q), q[i] = x
          PROVE  i \in 1 .. Len(r) /\ r[i] = x
      BY <1>3, <2>0, <3>2
    <3>. QED  BY <3>1, <3>2 DEF WaiterExists
  <2>4. Sound(r, c, status', call')
    BY <2>1, <2>2 DEF Sound
  <2>. QED  BY <2>3, <2>4 DEF r
<1>. QED  BY <1>2, <1>3, WithWaiterFacts

\* The other lists do not hold that process, and stay sound as well.
LEMMA OtherListKept ==
  ASSUME NEW q \in Seq(Procs), NEW p \in Procs, NEW c,
         Sound(q, c, status, call), \A i \in 1 .. Len(q) : q[i] # p,
         \A x \in Procs \ {p} : status'[x] = status[x] /\ call'[x] = call[x]
  PROVE  Sound(q, c, status', call')
<1>1. \A i \in 1 .. Len(q) : q[i] \in Procs \ {p}
  OBVIOUS
<1>. QED  BY <1>1 DEF Sound

\* When the first waiter of a list is taken off and woken, the rest of it stays sound.
LEMMA LeavesList ==
  ASSUME NEW q \in Seq(Procs), q # <<>>, NEW c,
         Sound(q, c, status, call), \A x \in Procs \ {Head(q)} : status'[x] = status[x], call' = call
  PROVE  /\ Sound(Tail(q), c, status', call')
         /\ Head(q) \in Procs /\ status[Head(q)] = "waiting" /\ call[Head(q)] = c
         /\ \A i \in 1 .. Len(Tail(q)) : Tail(q)[i] # Head(q)
         /\ \A x \in Procs \ {Head(q)} : WaiterExists(Tail(q), x) <=> WaiterExists(q, x)
<1>. DEFINE r == Tail(q)  w == Head(q)
<1>1. /\ Len(q) \in Nat \ {0} /\ w = q[1] /\ w \in Procs /\ r \in Seq(Procs)
      /\ Len(r) = Len(q) - 1 /\ \A i \in 1 .. Len(q) - 1 : r[i] = q[i + 1]
  BY TailFacts
<1>. HIDE DEF r, w
<1>2. \A i \in 1 .. Len(r) : r[i] # w /\ r[i] \in Procs
  BY <1>1 DEF Sound
<1>3. \A i \in 1 .. Len(r) : status'[r[i]] = "waiting" /\ call'[r[i]] = c
  BY <1>1, <1>2 DEF Sound, w
<1>4. \A i, j \in 1 .. Len(r) : r[i] = r[j] => i = j
  BY <1>1 DEF Sound
<1>5. ASSUME NEW x \in Procs \ {w}
      PROVE  WaiterExists(r, x) <=> WaiterExists(q, x)
  <2>1. ASSUME NEW i \in 1 .. Len(q), q[i] = x
        PROVE  i - 1 \in 1 .. Len(r) /\ r[i - 1] = x
    BY <1>1, <2>1
  <2>2. ASSUME NEW i \in 1 .. Len(r), r[i] = x
        PROVE  i + 1 \in 1 .. Len(q) /\ q[i + 1] = x
    BY <1>1, <2>2
  <2>. QED  BY <2>1, <2>2 DEF WaiterExists
<1>6. status[w] = "waiting" /\ call[w] = c
  BY <1>1 DEF Sound
<1>. QED  BY <1>1, <1>2, <1>3, <1>4, <1>5, <1>6 DEF Sound, r, w

-----------------------------------------------------------------------------
(* Steps that leave the lists alone *)

\* A step that changes the state of one process, blocked neither before nor after, or
\* ends its call, keeps everything said about lists.
LEMMA ListsKept ==
  ASSUME SyncInv, NEW p \in Procs, status[p] # "waiting",
         status' \in [Procs -> Statuses], call' \in [Procs -> Calls],
         status'[p] # "waiting",
         \A q \in Procs \ {p} : status'[q] = status[q] /\ call'[q] = call[q],
         UNCHANGED <<m_waiters, s_waiters, dropped>>
  PROVE  /\ \A m \in Mutexes : WaitersIn(m_waiters[m], <<"lock", m>>)'
         /\ \A s \in Semaphores : WaitersIn(s_waiters[s], <<"wait", s>>)'
         /\ BlockedIsRegistered' /\ DroppedWait'
<1>1. m_waiters \in [Mutexes -> Seq(Procs)] /\ s_waiters \in [Semaphores -> Seq(Procs)]
  BY DEF SyncInv, SyncTypeOK
<1>2. \A m \in Mutexes : \A i \in 1 .. Len(m_waiters[m]) : m_waiters[m][i] \in Procs \ {p}
  BY <1>1, RunnersNotListed DEF SyncInv
<1>3. \A s \in Semaphores : \A i \in 1 .. Len(s_waiters[s]) : s_waiters[s][i] \in Procs \ {p}
  BY <1>1, RunnersNotListed DEF SyncInv
<1>4. ASSUME NEW m \in Mutexes
      PROVE  WaitersIn(m_waiters[m], <<"lock", m>>)'
  <2>1. WaitersIn(m_waiters[m], <<"lock", m>>) /\ m_waiters'[m] = m_waiters[m]
    BY DEF SyncInv, WaitersAreBlocked
  <2>. QED  BY <1>2, <2>1 DEF WaitersIn
<1>5. ASSUME NEW s \in Semaphores
      PROVE  WaitersIn(s_waiters[s], <<"wait", s>>)'
  <2>1. WaitersIn(s_waiters[s], <<"wait", s>>) /\ s_waiters'[s] = s_waiters[s]
    BY DEF SyncInv, WaitersAreBlocked
  <2>. QED  BY <1>3, <2>1 DEF WaitersIn
<1>6. BlockedIsRegistered'
  BY DEF SyncInv, BlockedIsRegistered, Registered, WaiterExists
<1>7. DroppedWait'
  BY DEF SyncInv, DroppedWait, SyncTypeOK
<1>. QED  BY <1>4, <1>5, <1>6, <1>7

\* Create, dispatch, preemption and exit.
LEMMA SchedulingSteps ==
  ASSUME SyncInv, NEW p \in Procs, Create(p) \/ Dispatch(p) \/ Preempt(p) \/ Exit(p)
  PROVE  SyncInv'
<1>1. /\ status[p] # "waiting" /\ status'[p] # "waiting"
      /\ status' \in [Procs -> Statuses]
      /\ \A q \in Procs \ {p} : status'[q] = status[q]
  BY DEF SyncInv, SyncTypeOK, Create, Dispatch, Preempt, Exit, Created, Dispatched, Descheduled,
         Exited, Becomes, Statuses
<1>2. UNCHANGED <<call, mutexVars, semVars, dropped>>
  BY DEF Create, Dispatch, Preempt, Exit
<1>3. SyncTypeOK' /\ UnusedIsEmpty' /\ MutualExclusion' /\ PostsAccounted'
  BY <1>1, <1>2 DEF SyncInv, SyncTypeOK, UnusedIsEmpty, MutualExclusion, PostsAccounted, mutexVars, semVars
<1>4. /\ \A m \in Mutexes : WaitersIn(m_waiters[m], <<"lock", m>>)'
      /\ \A s \in Semaphores : WaitersIn(s_waiters[s], <<"wait", s>>)'
      /\ BlockedIsRegistered' /\ DroppedWait'
  <2>1. call \in [Procs -> Calls]
    BY DEF SyncInv, SyncTypeOK
  <2>. QED  BY <1>1, <1>2, <2>1, ListsKept DEF mutexVars, semVars
<1>5. WaitersAreBlocked'
  BY <1>2, <1>4 DEF SyncInv, WaitersAreBlocked, mutexVars, semVars
<1>. QED  BY <1>3, <1>4, <1>5 DEF SyncInv

\* The calls that return at once change no list and nobody's state.
LEMMA ReturningCalls ==
  ASSUME SyncInv, NEW p \in Procs, status[p] = "running",
         call' = call \/ call' = [call EXCEPT ![p] = NoCall],
         UNCHANGED <<status, m_waiters, s_waiters, dropped>>
  PROVE  /\ call' \in [Procs -> Calls]
         /\ \A n \in Mutexes : WaitersIn(m_waiters[n], <<"lock", n>>)'
         /\ \A r \in Semaphores : WaitersIn(s_waiters[r], <<"wait", r>>)'
         /\ BlockedIsRegistered' /\ DroppedWait'
<1>1. call' \in [Procs -> Calls] /\ status' \in [Procs -> Statuses]
  BY DEF SyncInv, SyncTypeOK, Calls
<1>2. \A q \in Procs \ {p} : status'[q] = status[q] /\ call'[q] = call[q]
  BY DEF SyncInv, SyncTypeOK
<1>. QED  BY <1>1, <1>2, ListsKept

-----------------------------------------------------------------------------
(* Mutexes *)

\* sync_mutex_create
LEMMA MutexCreateStep ==
  ASSUME SyncInv, NEW p \in Procs, MutexCreate(p)
  PROVE  SyncInv'
<1>1. PICK m \in Mutexes :
        /\ ~m_used[m]
        /\ m_used' = [m_used EXCEPT ![m] = TRUE]
        /\ locked' = [locked EXCEPT ![m] = FALSE]
        /\ owner' = [owner EXCEPT ![m] = NoProc]
        /\ m_waiters' = [m_waiters EXCEPT ![m] = <<>>]
  BY DEF MutexCreate
<1>2. status[p] = "running" /\ UNCHANGED <<status, call, holding, semVars, dropped>>
  BY DEF MutexCreate, Executes
<1>3. m_waiters' = m_waiters /\ locked' = locked
  BY <1>1 DEF SyncInv, SyncTypeOK, UnusedIsEmpty
<1>4. SyncTypeOK'
  BY <1>1, <1>2, <1>3 DEF SyncInv, SyncTypeOK, semVars
<1>5. UnusedIsEmpty' /\ PostsAccounted'
  BY <1>1, <1>2, <1>3 DEF SyncInv, SyncTypeOK, UnusedIsEmpty, PostsAccounted, semVars
<1>6. MutualExclusion'
  BY <1>1, <1>2, <1>3 DEF SyncInv, SyncTypeOK, UnusedIsEmpty, MutualExclusion
<1>7. /\ \A n \in Mutexes : WaitersIn(m_waiters[n], <<"lock", n>>)'
      /\ \A r \in Semaphores : WaitersIn(s_waiters[r], <<"wait", r>>)'
      /\ BlockedIsRegistered' /\ DroppedWait'
  BY <1>2, <1>3, ReturningCalls DEF semVars
<1>8. WaitersAreBlocked'
  <2>1. m_waiters[m] = <<>>
    BY <1>1 DEF SyncInv, UnusedIsEmpty
  <2>. QED  BY <1>1, <1>2, <1>3, <1>7, <2>1 DEF SyncInv, SyncTypeOK, WaitersAreBlocked, semVars
<1>. QED  BY <1>4, <1>5, <1>6, <1>7, <1>8 DEF SyncInv

\* sync_mutex_lock that returns: no such mutex, a free one, or one that p owns.
LEMMA LockReturnSteps ==
  ASSUME SyncInv, NEW p \in Procs, NEW m \in Mutexes,
         LockRejected(p, m) \/ LockFree(p, m) \/ LockOwned(p, m)
  PROVE  SyncInv'
<1>1. /\ status[p] = "running" /\ call' = [call EXCEPT ![p] = NoCall]
      /\ UNCHANGED <<status, m_used, m_waiters, semVars, dropped>>
  BY DEF LockRejected, LockFree, LockOwned, Executes, Return, mutexVars
<1>2. /\ call' \in [Procs -> Calls]
      /\ \A n \in Mutexes : WaitersIn(m_waiters[n], <<"lock", n>>)'
      /\ \A r \in Semaphores : WaitersIn(s_waiters[r], <<"wait", r>>)'
      /\ BlockedIsRegistered' /\ DroppedWait'
  BY <1>1, ReturningCalls DEF semVars
<1>3. PostsAccounted'
  BY <1>1 DEF SyncInv, PostsAccounted, semVars
<1>4. CASE LockRejected(p, m)
  <2>1. UNCHANGED mutexVars
    BY <1>4 DEF LockRejected
  <2>2. SyncTypeOK' /\ UnusedIsEmpty' /\ MutualExclusion'
    BY <1>1, <1>2, <2>1 DEF SyncInv, SyncTypeOK, UnusedIsEmpty, MutualExclusion, mutexVars, semVars
  <2>3. WaitersAreBlocked'
    BY <1>1, <1>2, <2>1 DEF SyncInv, WaitersAreBlocked, mutexVars, semVars
  <2>. QED  BY <1>2, <1>3, <2>2, <2>3 DEF SyncInv
<1>5. CASE LockFree(p, m)
  <2>1. /\ m_used[m] /\ ~locked[m]
        /\ locked' = [locked EXCEPT ![m] = TRUE]
        /\ owner' = [owner EXCEPT ![m] = p]
        /\ holding' = [holding EXCEPT ![m] = @ \cup {p}]
    BY <1>5 DEF LockFree
  <2>2. SyncTypeOK' /\ UnusedIsEmpty'
    BY <1>1, <1>2, <2>1 DEF SyncInv, SyncTypeOK, UnusedIsEmpty, semVars
  <2>3. MutualExclusion'
    BY <1>1, <2>1 DEF SyncInv, SyncTypeOK, MutualExclusion
  <2>4. m_waiters[m] = <<>>
    BY <2>1 DEF SyncInv, WaitersAreBlocked
  <2>5. WaitersAreBlocked'
    BY <1>1, <1>2, <2>1, <2>4 DEF SyncInv, SyncTypeOK, WaitersAreBlocked, semVars
  <2>. QED  BY <1>2, <1>3, <2>2, <2>3, <2>5 DEF SyncInv
<1>6. CASE LockOwned(p, m)
  <2>1. /\ locked[m] /\ owner[m] = p /\ UNCHANGED <<locked, owner>>
        /\ holding' = [holding EXCEPT ![m] = @ \cup {p}]
    BY <1>6 DEF LockOwned
  <2>2. SyncTypeOK' /\ UnusedIsEmpty'
    BY <1>1, <1>2, <2>1 DEF SyncInv, SyncTypeOK, UnusedIsEmpty, semVars
  <2>3. MutualExclusion'
    BY <1>1, <2>1 DEF SyncInv, SyncTypeOK, MutualExclusion
  <2>4. WaitersAreBlocked'
    BY <1>1, <1>2, <2>1 DEF SyncInv, WaitersAreBlocked, semVars
  <2>. QED  BY <1>2, <1>3, <2>2, <2>3, <2>4 DEF SyncInv
<1>. QED  BY <1>4, <1>5, <1>6

\* sync_mutex_lock that blocks.
LEMMA LockBlockStep ==
  ASSUME SyncInv, NEW p \in Procs, NEW m \in Mutexes, LockContended(p, m)
  PROVE  SyncInv'
<1>1. /\ status[p] = "running" /\ status' = [status EXCEPT ![p] = "waiting"]
      /\ call' = [call EXCEPT ![p] = <<"lock", m>>]
      /\ m_used[m] /\ locked[m] /\ owner[m] # p
      /\ m_waiters' = [m_waiters EXCEPT ![m] = WithWaiter(m_waiters[m], p)]
      /\ dropped' = IF WaiterExists(WithWaiter(m_waiters[m], p), p) THEN dropped ELSE dropped \cup {p}
      /\ UNCHANGED <<m_used, locked, owner, holding, semVars>>
  BY DEF LockContended, Executes, Block, Blocked, Becomes, SyncInv, SyncTypeOK
<1>2. /\ m_waiters \in [Mutexes -> Seq(Procs)] /\ s_waiters \in [Semaphores -> Seq(Procs)]
      /\ WithWaiter(m_waiters[m], p) \in Seq(Procs)
  BY WithWaiterFacts DEF SyncInv, SyncTypeOK
<1>3. /\ status'[p] = "waiting" /\ call'[p] = <<"lock", m>>
      /\ \A x \in Procs \ {p} : status'[x] = status[x] /\ call'[x] = call[x]
  BY <1>1 DEF SyncInv, SyncTypeOK
<1>4. /\ \A n \in Mutexes : Sound(m_waiters[n], <<"lock", n>>, status, call)
      /\ \A s \in Semaphores : Sound(s_waiters[s], <<"wait", s>>, status, call)
  BY DEF SyncInv, WaitersAreBlocked, WaitersIn, Sound
<1>5. /\ \A n \in Mutexes : \A i \in 1 .. Len(m_waiters[n]) : m_waiters[n][i] # p
      /\ \A s \in Semaphores : \A i \in 1 .. Len(s_waiters[s]) : s_waiters[s][i] # p
  BY <1>1, RunnersNotListed DEF SyncInv
<1>6. /\ Sound(m_waiters'[m], <<"lock", m>>, status', call')
      /\ \A x \in Procs \ {p} : WaiterExists(m_waiters'[m], x) <=> WaiterExists(m_waiters[m], x)
  <2>1. m_waiters'[m] = WithWaiter(m_waiters[m], p) /\ m_waiters[m] \in Seq(Procs)
    BY <1>1, <1>2
  <2>2. status[p] # "waiting"
    BY <1>1
  <2>. QED  BY <1>3, <1>4, <2>1, <2>2, EntersList
<1>7. \A n \in Mutexes \ {m} : m_waiters'[n] = m_waiters[n]
  BY <1>1, <1>2
<1>8. \A n \in Mutexes : Sound(m_waiters'[n], <<"lock", n>>, status', call')
  BY <1>2, <1>3, <1>4, <1>5, <1>6, <1>7, OtherListKept
<1>9. \A s \in Semaphores : Sound(s_waiters'[s], <<"wait", s>>, status', call')
  <2>1. s_waiters' = s_waiters
    BY <1>1 DEF semVars
  <2>. QED  BY <1>2, <1>3, <1>4, <1>5, <2>1, OtherListKept
<1>10. SyncTypeOK'
  <2>1. status' \in [Procs -> Statuses] /\ call' \in [Procs -> Calls] /\ dropped' \subseteq Procs
    BY <1>1 DEF SyncInv, SyncTypeOK, Statuses, Calls
  <2>2. m_waiters' \in [Mutexes -> Seq(Procs)]
    BY <1>1, <1>2
  <2>. QED  BY <1>1, <2>1, <2>2 DEF SyncInv, SyncTypeOK, semVars
<1>11. UnusedIsEmpty' /\ MutualExclusion' /\ PostsAccounted'
  BY <1>1, <1>7 DEF SyncInv, SyncTypeOK, UnusedIsEmpty, MutualExclusion, PostsAccounted, semVars
<1>12. WaitersAreBlocked'
  <2>1. \A n \in Mutexes : WaitersIn(m_waiters[n], <<"lock", n>>)'
    BY <1>8 DEF WaitersIn, Sound
  <2>2. \A s \in Semaphores : WaitersIn(s_waiters[s], <<"wait", s>>)'
    BY <1>9 DEF WaitersIn, Sound
  <2>3. \A n \in Mutexes : m_waiters'[n] # <<>> => locked'[n]
    BY <1>1, <1>7 DEF SyncInv, WaitersAreBlocked
  <2>4. \A n \in Mutexes : \A i \in 1 .. Len(m_waiters'[n]) : m_waiters'[n][i] # owner'[n]
    <3>1. owner' = owner /\ owner[m] # p
      BY <1>1
    <3>2. \A n \in Mutexes : \A i \in 1 .. Len(m_waiters[n]) : m_waiters[n][i] # owner[n]
      BY DEF SyncInv, WaitersAreBlocked
    <3>3. ASSUME NEW i \in 1 .. Len(m_waiters'[m]), m_waiters'[m][i] = owner[m]
          PROVE  FALSE
      <4>1. m_waiters'[m] \in Seq(Procs)
        BY <1>1, <1>2
      <4>2. owner[m] \in Procs \ {p} /\ WaiterExists(m_waiters'[m], owner[m])
        BY <3>1, <3>3, <4>1 DEF WaiterExists
      <4>. QED  BY <1>6, <3>2, <4>2 DEF WaiterExists
    <3>. QED  BY <1>7, <3>1, <3>2, <3>3
  <2>5. \A s \in Semaphores : s_waiters'[s] # <<>> => count'[s] = 0
    BY <1>1 DEF SyncInv, WaitersAreBlocked, semVars
  <2>. QED  BY <2>1, <2>2, <2>3, <2>4, <2>5 DEF WaitersAreBlocked
<1>13. DroppedWait'
  BY <1>1, <1>3 DEF SyncInv, SyncTypeOK, DroppedWait
<1>14. BlockedIsRegistered'
  <2>1. \A x \in Procs \ {p} : Registered(x)' <=> Registered(x)
    BY <1>1, <1>6, <1>7 DEF Registered, semVars
  <2>2. \A x \in Procs \ {p} : x \in dropped' <=> x \in dropped
    BY <1>1
  <2>3. Registered(p)' <=> WaiterExists(m_waiters'[m], p)
    BY <1>1, <1>5, <1>7 DEF Registered, WaiterExists, semVars
  <2>4. m_waiters'[m] = WithWaiter(m_waiters[m], p)
    BY <1>1, <1>2
  <2>5. p \notin dropped
    BY <1>1 DEF SyncInv, DroppedWait
  <2>6. p \in dropped' <=> ~Registered(p)'
    BY <1>1, <2>3, <2>4, <2>5
  <2>. QED  BY <1>3, <2>1, <2>2, <2>6 DEF SyncInv, BlockedIsRegistered
<1>. QED  BY <1>10, <1>11, <1>12, <1>13, <1>14 DEF SyncInv

\* sync_mutex_unlock: the first waiter becomes the owner, or the mutex is free.
LEMMA UnlockStep ==
  ASSUME SyncInv, NEW p \in Procs, NEW m \in Mutexes, MutexUnlock(p, m)
  PROVE  SyncInv'
<1>1. /\ status[p] = "running" /\ m_used[m] /\ locked[m] /\ owner[m] = p
      /\ holding' = [holding EXCEPT ![m] = @ \ {p}]
      /\ UNCHANGED <<call, m_used, semVars, dropped>>
  BY DEF MutexUnlock, Executes
<1>2. holding'[m] = {} /\ \A n \in Mutexes \ {m} : holding'[n] = holding[n]
  BY <1>1 DEF SyncInv, SyncTypeOK, MutualExclusion
<1>3. PostsAccounted'
  BY <1>1 DEF SyncInv, PostsAccounted, semVars
<1>4. CASE m_waiters[m] = <<>>
  <2>1. /\ locked' = [locked EXCEPT ![m] = FALSE] /\ owner' = [owner EXCEPT ![m] = NoProc]
        /\ UNCHANGED <<m_waiters, status>>
    BY <1>4 DEF MutexUnlock
  <2>2. SyncTypeOK' /\ UnusedIsEmpty'
    BY <1>1, <2>1, SMTT(30) DEF SyncInv, SyncTypeOK, UnusedIsEmpty, semVars
  <2>3. MutualExclusion'
    BY <1>2, <2>1 DEF SyncInv, SyncTypeOK, MutualExclusion
  <2>4. /\ \A n \in Mutexes : WaitersIn(m_waiters[n], <<"lock", n>>)'
        /\ \A r \in Semaphores : WaitersIn(s_waiters[r], <<"wait", r>>)'
        /\ BlockedIsRegistered' /\ DroppedWait'
    BY <1>1, <2>1, ReturningCalls DEF semVars
  <2>5. WaitersAreBlocked'
    BY <1>1, <1>4, <2>1, <2>4 DEF SyncInv, SyncTypeOK, WaitersAreBlocked, semVars
  <2>. QED  BY <1>3, <2>2, <2>3, <2>4, <2>5 DEF SyncInv
<1>5. CASE m_waiters[m] # <<>>
  <2>. DEFINE w == Head(m_waiters[m])
  <2>1. /\ m_waiters' = [m_waiters EXCEPT ![m] = Tail(m_waiters[m])]
        /\ owner' = [owner EXCEPT ![m] = w] /\ locked' = locked /\ WakeWaiter(w)
    BY <1>5 DEF MutexUnlock
  <2>2. /\ m_waiters \in [Mutexes -> Seq(Procs)] /\ s_waiters \in [Semaphores -> Seq(Procs)]
        /\ m_waiters[m] \in Seq(Procs)
    BY DEF SyncInv, SyncTypeOK
  <2>3. /\ \A n \in Mutexes : Sound(m_waiters[n], <<"lock", n>>, status, call)
        /\ \A s \in Semaphores : Sound(s_waiters[s], <<"wait", s>>, status, call)
    BY DEF SyncInv, WaitersAreBlocked, WaitersIn, Sound
  <2>4. w \in Procs /\ status[w] = "waiting" /\ call[w] = <<"lock", m>> /\ WaiterExists(m_waiters[m], w)
    <3>1. w \in Procs /\ w = m_waiters[m][1] /\ 1 \in 1 .. Len(m_waiters[m])
      BY <1>5, <2>2, TailFacts
    <3>. QED  BY <2>3, <3>1 DEF Sound, WaiterExists
  <2>5. status' = [status EXCEPT ![w] = "ready"]
    BY <2>1, <2>4 DEF WakeWaiter
  <2>. HIDE DEF w
  <2>6. status'[w] = "ready" /\ \A x \in Procs \ {w} : status'[x] = status[x] /\ call'[x] = call[x]
    BY <1>1, <2>4, <2>5, SMTT(30) DEF SyncInv, SyncTypeOK
  <2>7. /\ Sound(m_waiters'[m], <<"lock", m>>, status', call')
        /\ \A i \in 1 .. Len(m_waiters'[m]) : m_waiters'[m][i] # w
        /\ \A x \in Procs \ {w} : WaiterExists(m_waiters'[m], x) <=> WaiterExists(m_waiters[m], x)
    <3>1. m_waiters'[m] = Tail(m_waiters[m]) /\ call' = call
      BY <1>1, <2>1, <2>2
    <3>. QED  BY <1>5, <2>2, <2>3, <2>6, <3>1, LeavesList, SMTT(30) DEF w
  <2>8. \A n \in Mutexes \ {m} : m_waiters'[n] = m_waiters[n]
    BY <2>1, <2>2, SMTT(30)
  <2>9. \A n \in Mutexes \ {m} : \A i \in 1 .. Len(m_waiters[n]) : m_waiters[n][i] # w
    BY <2>3, <2>4 DEF Sound
  <2>10. \A s \in Semaphores : \A i \in 1 .. Len(s_waiters[s]) : s_waiters[s][i] # w
    BY <2>3, <2>4 DEF Sound
  <2>11. \A n \in Mutexes : Sound(m_waiters'[n], <<"lock", n>>, status', call')
    <3>1. ASSUME NEW n \in Mutexes \ {m}
          PROVE  Sound(m_waiters'[n], <<"lock", n>>, status', call')
      <4>1. m_waiters[n] \in Seq(Procs) /\ m_waiters'[n] = m_waiters[n]
        BY <2>2, <2>8
      <4>. QED  BY <2>3, <2>4, <2>6, <2>9, <4>1, OtherListKept
    <3>. QED  BY <2>7, <3>1
  <2>12. \A s \in Semaphores : Sound(s_waiters'[s], <<"wait", s>>, status', call')
    <3>1. s_waiters' = s_waiters
      BY <1>1 DEF semVars
    <3>. QED  BY <2>2, <2>3, <2>4, <2>6, <2>10, <3>1, OtherListKept
  <2>13. SyncTypeOK'
    <3>1. status' \in [Procs -> Statuses] /\ owner' \in [Mutexes -> Procs \cup {NoProc}]
      BY <2>1, <2>4, <2>5 DEF SyncInv, SyncTypeOK, Statuses
    <3>2. m_waiters' \in [Mutexes -> Seq(Procs)]
      BY <1>5, <2>1, <2>2, TailFacts
    <3>. QED  BY <1>1, <2>1, <3>1, <3>2 DEF SyncInv, SyncTypeOK, semVars
  <2>14. UnusedIsEmpty' /\ MutualExclusion'
    BY <1>1, <1>2, <2>1, <2>8, SMTT(30) DEF SyncInv, SyncTypeOK, UnusedIsEmpty, MutualExclusion, semVars
  <2>15. WaitersAreBlocked'
    <3>1. \A n \in Mutexes : WaitersIn(m_waiters[n], <<"lock", n>>)'
      BY <2>11 DEF WaitersIn, Sound
    <3>2. \A s \in Semaphores : WaitersIn(s_waiters[s], <<"wait", s>>)'
      BY <2>12 DEF WaitersIn, Sound
    <3>3. \A n \in Mutexes : m_waiters'[n] # <<>> => locked'[n]
      BY <1>1, <2>1, <2>8 DEF SyncInv, WaitersAreBlocked
    <3>4. ASSUME NEW n \in Mutexes
          PROVE  \A i \in 1 .. Len(m_waiters'[n]) : m_waiters'[n][i] # owner'[n]
      <4>1. owner'[m] = w /\ (n # m => owner'[n] = owner[n])
        BY <2>1 DEF SyncInv, SyncTypeOK
      <4>2. \A i \in 1 .. Len(m_waiters[n]) : m_waiters[n][i] # owner[n]
        BY DEF SyncInv, WaitersAreBlocked
      <4>. QED  BY <2>7, <2>8, <4>1, <4>2
    <3>5. \A s \in Semaphores : s_waiters'[s] # <<>> => count'[s] = 0
      BY <1>1 DEF SyncInv, WaitersAreBlocked, semVars
    <3>. QED  BY <3>1, <3>2, <3>3, <3>4, <3>5, SMTT(30) DEF WaitersAreBlocked
  <2>16. w \notin dropped
    BY <2>4 DEF SyncInv, BlockedIsRegistered, Registered
  <2>17. DroppedWait'
    BY <1>1, <2>6, <2>16 DEF SyncInv, SyncTypeOK, DroppedWait
  <2>18. BlockedIsRegistered'
    <3>1. \A x \in Procs \ {w} : Registered(x)' <=> Registered(x)
      BY <1>1, <2>7, <2>8 DEF Registered, semVars
    <3>. QED  BY <1>1, <2>6, <3>1 DEF SyncInv, BlockedIsRegistered
  <2>. QED  BY <1>3, <2>13, <2>14, <2>15, <2>17, <2>18 DEF SyncInv
<1>. QED  BY <1>4, <1>5

=============================================================================
