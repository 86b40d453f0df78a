------------------------ MODULE SchedulerRefinement ------------------------
(***************************************************************************)
(* From the inductive invariant of Scheduler: its dispatching obeys the    *)
(* policies, and it implements ProcessLifecycle.                           *)
(***************************************************************************)
EXTENDS SchedulerProofs

USE DEF prioVars, sliceVars, policyVars, queueVars, sleepVars, irqVars

\* A step from a state of the invariant dispatches by the policies.
LEMMA PolicyHolds ==
  ASSUME IInv, [Next]_vars
  PROVE  PolicyStep
<1> SUFFICES ASSUME NEW p \in Slots, current_process = NULL, current_process' = p
             PROVE  \A q \in Procs : state[q] = "READY" =>
                      /\ p # Idle
                      /\ HasDeadline(q) => HasDeadline(p) /\ sched_deadline[p] <= sched_deadline[q]
                      /\ IsFair(q) /\ ~HasDeadline(p) => IsFair(p) /\ vruntime[p] <= vruntime[q]
  BY DEF PolicyStep
<1>1. current_process' # current_process /\ current_process' # NULL
  BY SlotFacts
<1>2. SelectReady \/ SelectIdle
  BY <1>1, Zenon DEF Next, vars, StartScheduler, ProcessCreate, ProcessCreateKernel, Create, ProcessYield,
     ProcessBlockCurrent, ProcessExit, ProcessSleep, ProcessWake, MakeRunnable,
     ProcessSetScheduler, WakeSleeper, ArmTimeslice, SwitchIn, AccountAndReclaim, LoopTail,
     ReclaimWake, PitIrq, TickReturn, TickPreempt, TickOnSchedulerStack, BoundReached
<1>3. cpu = "loop_wake" /\ TypeOK /\ QueuesOK
  BY <1>2, LoopFacts DEF SelectReady, SelectIdle
<1> SUFFICES ASSUME NEW q \in Procs, state[q] = "READY"
             PROVE  /\ p # Idle
                    /\ HasDeadline(q) => HasDeadline(p) /\ sched_deadline[p] <= sched_deadline[q]
                    /\ IsFair(q) /\ ~HasDeadline(p) => IsFair(p) /\ vruntime[p] <= vruntime[q]
  OBVIOUS
<1>4. PICK m \in Levels : \E j \in 1 .. Len(ready_queues[m]) : ready_queues[m][j] = q
  <2>1. on_run_queue[q] /\ q \in Slots
    BY <1>3, SlotFacts DEF IInv, PlacedByState
  <2>2. dynamic_priority[q] \in Levels
    BY <1>3, <2>1 DEF TypeOK
  <2>3. QED BY <1>3, <2>1, <2>2 DEF QueuesOK, FlagMeansQueued
<1>5. PICK j \in 1 .. Len(ready_queues[m]) : ready_queues[m][j] = q
  BY <1>4
<1>6. SelectReady
  BY <1>2, <1>5 DEF SelectIdle, SomeQueued, Anyone
<1>70. PICK l \in Levels : \E i \in 1 .. Len(ready_queues[l]) :
          SelectNext(l, i) /\ ready_queues[l][i] = p
  BY <1>6 DEF SelectReady, Dispatch
<1>7. PICK i \in 1 .. Len(ready_queues[l]) : SelectNext(l, i) /\ ready_queues[l][i] = p
  BY <1>70
<1>8. p \in Procs /\ p # Idle
  <2>1. ready_queues[l] \in Seq(Procs)
    BY <1>3 DEF TypeOK
  <2>2. QED BY <1>7, <2>1, ElementOfSeq, SlotFacts
<1>9. sched_deadline[p] \in Nat /\ sched_deadline[q] \in Nat /\ vruntime[p] \in Nat /\ vruntime[q] \in Nat
  BY <1>3, <1>8, SlotFacts DEF TypeOK
<1>10. CASE SomeQueued(HasDeadline)
  <2>1. PickDeadline(l, i)
    BY <1>7, <1>10 DEF SelectNext
  <2>2. HasDeadline(p) /\ (HasDeadline(q) => \/ sched_deadline[p] < sched_deadline[q]
                                             \/ sched_deadline[p] = sched_deadline[q])
    BY <2>1, <1>5, <1>7 DEF PickDeadline, FirstMin
  <2>3. QED BY <1>8, <1>9, <2>2
<1>11. CASE ~SomeQueued(HasDeadline)
  <2>1. ~HasDeadline(q)
    BY <1>5, <1>11 DEF SomeQueued
  <2>2. CASE IsFair(q)
    <3>1. SomeQueued(IsFair)
      BY <1>5, <2>2 DEF SomeQueued
    <3>2. PickFair(l, i)
      BY <1>7, <1>11, <3>1 DEF SelectNext
    <3>3. IsFair(p) /\ (vruntime[p] < vruntime[q] \/ vruntime[p] = vruntime[q])
      BY <3>2, <2>2, <1>5, <1>7 DEF PickFair, FirstMin
    <3>4. QED BY <1>8, <1>9, <2>1, <3>3
  <2>3. QED BY <1>8, <2>1, <2>2
<1>12. QED BY <1>10, <1>11, Zenon

\* Every dispatch obeys the policies, over all READY processes: the three picking
\* functions and their fallbacks never overlook one.
THEOREM PolicyCorrect == Spec => DispatchByPolicy
<1>1. IInv /\ [Next]_vars => [PolicyStep]_vars
  BY PolicyHolds
<1>2. QED BY <1>1, Invariance, PTL DEF Spec, DispatchByPolicy

\* No process keeps the CPU for free, so no FAIR process is overtaken for ever by
\* another one: what the other modules assume of the scheduler's fairness.
THEOREM ChargeCorrect == Spec => RuntimeCharged
<1>1. ASSUME IInv, [Next]_vars PROVE ChargeStep
  <2> SUFFICES ASSUME cpu = "loop_return", cpu' = "loop_tail", current_process \in Procs,
                      IsFair(current_process), state[current_process] # "ZOMBIE"
               PROVE  vruntime'[current_process] > vruntime[current_process]
    BY DEF ChargeStep
  <2>1. AccountAndReclaim
    BY <1>1, Zenon DEF Next, vars, StartScheduler, ProcessCreate, ProcessCreateKernel, Create, ProcessYield,
       ProcessBlockCurrent, ProcessExit, ProcessSleep, ProcessWake, MakeRunnable, OnCpu,
       ProcessSetScheduler, WakeSleeper, SelectReady, SelectIdle, Dispatch, ArmTimeslice, SwitchIn,
       LoopTail, ReclaimWake, PitIrq, TickReturn, TickPreempt, TickOnSchedulerStack, BoundReached
  <2>2. /\ TypeOK /\ current_process \in Slots /\ current_process # Idle
        /\ time_slice_remaining[current_process] < time_slice_ticks[current_process]
    BY <1>1, SlotFacts DEF IInv, SliceAccounting
  <2>3. vruntime' = [vruntime EXCEPT ![current_process] = AccountRuntime(current_process)]
    BY <2>1 DEF AccountAndReclaim
  <2>4. QED BY <2>2, <2>3, AccountFacts, Zenon DEF TypeOK
<1>2. QED BY <1>1, Invariance, PTL DEF Spec, RuntimeCharged

-----------------------------------------------------------------------------
(* Refinement of ProcessLifecycle *)

Status == [p \in Procs |-> LifecycleStatus(p)]

\* The status ProcessLifecycle sees, state by state.
LEMMA StatusFacts ==
  ASSUME TypeOK, NEW p \in Procs
  PROVE  /\ Status[p] = "absent" <=> state[p] = "UNUSED"
         /\ Status[p] = "ready" <=> state[p] = "READY"
         /\ Status[p] = "running" <=> state[p] = "RUNNING"
         /\ Status[p] = "waiting" <=> state[p] = "WAITING"
         /\ Status[p] = "dead" <=> state[p] = "ZOMBIE"
         /\ Status[p] = LifecycleStatus(p)
<1>1. state[p] \in States
  BY SlotFacts DEF TypeOK
<1>2. QED BY <1>1 DEF Status, LifecycleStatus, States

\* A step that moves only p maps to a step that moves only p.
LEMMA StatusStep ==
  ASSUME TypeOK, TypeOK', NEW p \in Procs, \A q \in Slots : q # p => state'[q] = state[q]
  PROVE  Status' = [Status EXCEPT ![p] = Status'[p]]
<1>1. \A q \in Procs : q # p => LifecycleStatus(q)' = LifecycleStatus(q)
  BY SlotFacts, Zenon DEF LifecycleStatus
<1>2. QED BY <1>1, Zenon DEF Status

\* A step that changes no state is a stutter of ProcessLifecycle.
LEMMA SameStatus ==
  ASSUME \A q \in Procs : state'[q] = state[q]
  PROVE  Status' = Status
<1>1. \A q \in Procs : LifecycleStatus(q)' = LifecycleStatus(q)
  BY Zenon DEF LifecycleStatus
<1>2. QED BY <1>1 DEF Status

\* Every step is a step of ProcessLifecycle or a stutter.
LEMMA LifecycleStep ==
  ASSUME IInv, [Next]_vars
  PROVE  [Lifecycle!LNext]_Status
<1>0. IInv' /\ TypeOK /\ TypeOK'
  <2>1. IInv'
    BY NextStep
  <2>2. QED BY <2>1 DEF IInv
<1>1. CASE \A q \in Procs : state'[q] = state[q]
  BY <1>1, SameStatus
<1>2. ASSUME NEW p \in Procs, \A q \in Slots : q # p => state'[q] = state[q],
             \/ state[p] = "UNUSED" /\ state'[p] = "READY"
             \/ state[p] = "RUNNING" /\ state'[p] \in {"READY", "WAITING", "ZOMBIE"}
             \/ state[p] = "WAITING" /\ state'[p] = "READY"
             \/ state[p] = "ZOMBIE" /\ state'[p] = "UNUSED"
             \/ /\ state[p] = "READY" /\ state'[p] = "RUNNING"
                /\ \A q \in Procs : state[q] # "RUNNING"
      PROVE  Lifecycle!LNext
  <2>1. Status' = [Status EXCEPT ![p] = Status'[p]]
    BY <1>0, <1>2, StatusStep
  <2>2. /\ Status[p] = "absent" <=> state[p] = "UNUSED"
        /\ Status[p] = "ready" <=> state[p] = "READY"
        /\ Status[p] = "running" <=> state[p] = "RUNNING"
        /\ Status[p] = "waiting" <=> state[p] = "WAITING"
        /\ Status[p] = "dead" <=> state[p] = "ZOMBIE"
    BY <1>0, StatusFacts
  <2>3. /\ Status'[p] = "absent" <=> state'[p] = "UNUSED"
        /\ Status'[p] = "ready" <=> state'[p] = "READY"
        /\ Status'[p] = "running" <=> state'[p] = "RUNNING"
        /\ Status'[p] = "waiting" <=> state'[p] = "WAITING"
        /\ Status'[p] = "dead" <=> state'[p] = "ZOMBIE"
    <3>1. state'[p] \in States
      BY <1>0, SlotFacts DEF TypeOK
    <3>2. QED BY <3>1 DEF Status, LifecycleStatus, States
  <2>4. (\A q \in Procs : state[q] # "RUNNING") => \A q \in Procs : Status[q] # "running"
    BY <1>0, StatusFacts
  <2>5. \/ Lifecycle!Created(p) \/ Lifecycle!Dispatched(p) \/ Lifecycle!Descheduled(p)
        \/ Lifecycle!Blocked(p) \/ Lifecycle!Woken(p) \/ Lifecycle!Exited(p)
        \/ Lifecycle!Reclaimed(p)
    BY <1>2, <2>1, <2>2, <2>3, <2>4, Zenon
       DEF Lifecycle!Created, Lifecycle!Dispatched, Lifecycle!Descheduled, Lifecycle!Blocked,
           Lifecycle!Woken, Lifecycle!Exited, Lifecycle!Reclaimed, Lifecycle!Becomes,
           Lifecycle!CpuFree, Status
  <2>6. QED BY <2>5 DEF Lifecycle!LNext
<1>3. CASE ProcessCreate \/ ProcessCreateKernel
  <2>1. cpu \in {"boot", "thread"}
    BY <1>3 DEF ProcessCreate, ProcessCreateKernel, Create, OnCpu
  <2>2. PICK p \in Slots : FreeSlot(p) /\ state' = [state EXCEPT ![p] = "READY"]
    BY <1>3 DEF ProcessCreate, ProcessCreateKernel, Create
  <2>3. p \in Procs /\ state[p] = "UNUSED"
    BY <2>1, <2>2, SlotFacts DEF FreeSlot, IInv, CpuConsistent, PlacedByState
  <2>4. QED BY <1>0, <1>2, <2>2, <2>3 DEF TypeOK
<1>4. CASE ProcessYield \/ ProcessBlockCurrent \/ ProcessExit \/ \E t \in SleepArgs : ProcessSleep(t)
  <2>1. OnCpu
    BY <1>4 DEF ProcessYield, ProcessBlockCurrent, ProcessExit, ProcessSleep
  <2>2. current_process \in Procs /\ current_process \in Slots /\ state[current_process] = "RUNNING"
    BY <2>1, CallerFacts
  <2>3. PICK s \in {"READY", "WAITING", "ZOMBIE"} : state' = [state EXCEPT ![current_process] = s]
    BY <1>4 DEF ProcessYield, ProcessBlockCurrent, ProcessExit, ProcessSleep
  <2>4. QED BY <1>0, <1>2, <2>2, <2>3 DEF TypeOK
<1>5. CASE \E q \in Procs : ProcessWake(q) \/ ReclaimWake(q)
  <2>1. PICK q \in Procs : MakeRunnable(q)
    BY <1>5 DEF ProcessWake, ReclaimWake
  <2>2. QED BY <1>0, <1>2, <2>1, SlotFacts DEF MakeRunnable, TypeOK
<1>6. CASE WakeSleeper
  <2> DEFINE p == Head(sleep_list)
  <2>1. sleep_list \in Seq(Procs) /\ sleep_list # <<>> /\ cpu # "wild"
    BY <1>0, <1>6 DEF WakeSleeper, SleeperDue, TypeOK, IInv
  <2>2. p \in Procs /\ p = sleep_list[1] /\ 1 \in 1 .. Len(sleep_list)
    BY <2>1, HeadTailProperties, EmptySeq, LenProperties
  <2>3. state[p] = "WAITING" /\ p \in Slots
    BY <2>1, <2>2, SlotFacts DEF IInv, PlacedByState, Asleep
  <2>4. state' = [state EXCEPT ![p] = "READY"]
    BY <1>6 DEF WakeSleeper
  <2> HIDE DEF p
  <2>5. QED BY <1>0, <1>2, <2>2, <2>3, <2>4, Zenon DEF TypeOK
<1>7. CASE ArmTimeslice
  <2>1. /\ current_process \in Slots /\ state' = [state EXCEPT ![current_process] = "RUNNING"]
        /\ cpu = "loop_selected"
    BY <1>7, LoopFacts DEF ArmTimeslice
  <2>2. \A q \in Procs : state[q] # "RUNNING"
    BY <2>1 DEF IInv, PlacedByState
  <2>3. CASE current_process \in Procs
    <3>1. state[current_process] = "READY"
      BY <2>1, <2>3 DEF IInv, CpuConsistent
    <3>2. QED BY <1>0, <1>2, <2>1, <2>2, <2>3, <3>1 DEF TypeOK
  <2>4. CASE current_process = Idle
    BY <1>0, <1>1, <2>1, <2>4, SlotFacts DEF TypeOK
  <2>5. QED BY <2>1, <2>3, <2>4, SlotFacts
<1>8. CASE AccountAndReclaim
  <2>1. current_process \in Slots /\ cpu = "loop_return" /\ state[Idle] \in {"READY", "RUNNING"}
    BY <1>8, LoopFacts DEF AccountAndReclaim
  <2>2. CASE state[current_process] = "ZOMBIE"
    <3>1. current_process \in Procs /\ state' = [state EXCEPT ![current_process] = "UNUSED"]
      BY <1>8, <2>1, <2>2, SlotFacts DEF AccountAndReclaim
    <3>2. QED BY <1>0, <1>2, <2>1, <2>2, <3>1 DEF TypeOK
  <2>3. CASE state[current_process] # "ZOMBIE"
    BY <1>1, <1>8, <2>3 DEF AccountAndReclaim
  <2>4. QED BY <2>2, <2>3
<1>9. CASE TickPreempt
  <2>1. /\ cpu = "thread" /\ current_process \in Slots /\ state[current_process] = "RUNNING"
    BY <1>0, <1>9 DEF TickPreempt, IInv, CpuConsistent, TypeOK
  <2>2. CASE current_process = Idle
    BY <1>1, <1>9, <2>2 DEF TickPreempt
  <2>3. CASE current_process # Idle
    <3>1. current_process \in Procs /\ state' = [state EXCEPT ![current_process] = "READY"]
      BY <1>9, <2>1, <2>3, SlotFacts DEF TickPreempt
    <3>2. QED BY <1>0, <1>2, <2>1, <3>1 DEF TypeOK
  <2>4. QED BY <2>2, <2>3
<1>10. CASE SwitchIn
  <2>1. current_process \in Slots /\ state[current_process] = "RUNNING"
    BY <1>10, LoopFacts DEF SwitchIn, IInv, CpuConsistent
  <2>2. state' = state
    <3>1. state' = [state EXCEPT ![current_process] = "RUNNING"]
      BY <1>10, Zenon DEF SwitchIn
    <3>2. state \in [Slots -> States]
      BY <1>0, Zenon DEF TypeOK
    <3>3. QED BY <2>1, <3>1, <3>2
  <2>3. QED BY <1>1, <2>2
<1>11. CASE \/ StartScheduler \/ SelectReady \/ SelectIdle \/ LoopTail \/ PitIrq \/ TickReturn
            \/ TickOnSchedulerStack \/ BoundReached \/ UNCHANGED vars
            \/ \E q \in Procs, w \in Weights, d \in DeadlineArgs, policy \in {"FAIR", "DEADLINE"} :
                  ProcessSetScheduler(q, policy, w, d)
  <2>1. state' = state
    BY <1>11, Zenon DEF StartScheduler, SelectReady, SelectIdle, LoopTail, PitIrq, TickReturn,
       TickOnSchedulerStack, BoundReached, vars, ProcessSetScheduler
  <2>2. QED BY <1>1, <2>1
<1>12. QED
  BY <1>3, <1>4, <1>5, <1>6, <1>7, <1>8, <1>9, <1>10, <1>11 DEF Next

\* The scheduler implements the life cycle that the rest of the kernel relies on.
THEOREM Refinement == Spec => ImplementsLifecycle
<1>1. Init => Lifecycle!LInit
  BY SlotFacts DEF Init, Lifecycle!LInit, LifecycleStatus
<1>2. IInv /\ [Next]_vars => [Lifecycle!LNext]_Status
  BY LifecycleStep
<1>3. QED BY <1>1, <1>2, Invariance, PTL DEF Spec, ImplementsLifecycle, Lifecycle!LSpec, Status

=============================================================================
