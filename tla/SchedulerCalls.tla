-------------------------- MODULE SchedulerCalls ---------------------------
(***************************************************************************)
(* The inductive invariant of Scheduler, for any number of slots, levels   *)
(* and ticks, and its preservation by the calls a process makes and by the *)
(* scheduler loop up to the switch: one lemma per action, one step per     *)
(* conjunct it can disturb.                                                *)
(***************************************************************************)
EXTENDS SchedulerLists

-----------------------------------------------------------------------------
(* The inductive invariant *)

IInv ==
  /\ TypeOK /\ RunQueueOK /\ PlacedByState /\ SleepListOK /\ EoiOwed /\ CpuConsistent
  /\ SliceAccounting
  /\ cpu = "wild" => ~in_tick

USE DEF prioVars, sliceVars, policyVars, queueVars, sleepVars, irqVars

\* A step that leaves the queues and the priorities alone keeps the queues well formed.
LEMMA SameQueues ==
  ASSUME TypeOK, QueuesOK, UNCHANGED <<queueVars, dynamic_priority>>
  PROVE  QueueType' /\ QueuesOK'
BY DEF TypeOK, QueueType, QueuesOK, QueuedAtOwnLevel, QueuedOnce, FlagMeansQueued, BitmapExact

\* A step that leaves the sleep list and the clock alone keeps the list in order.
LEMMA SameSleep ==
  ASSUME SleepSorted, UNCHANGED <<sleepVars, ticks>>
  PROVE  /\ SleepSorted'
         /\ NoneOverdue => NoneOverdue'
         /\ \A q \in Procs : Asleep(q)' => Asleep(q)
BY DEF SleepSorted, NoneOverdue, Asleep

\* A step that neither creates nor pays a debt.
LEMMA SameDebts ==
  ASSUME EoiOwed, cpu # "wild", UNCHANGED <<in_service, in_tick>>,
         \A q \in Slots : resume'[q] = "irq" <=> resume[q] = "irq",
         \A q \in Procs : resume[q] = "irq" => state'[q] \in {"READY", "RUNNING"}
  PROVE  EoiOwed'
<1>1. \A q \in Procs : q \in Slots
  BY DEF Procs
<1>2. QED BY <1>1 DEF EoiOwed

\* What a thread finds when it calls the kernel.
LEMMA CallerFacts ==
  ASSUME IInv, OnCpu
  PROVE  /\ current_process \in Procs
         /\ current_process \in Slots
         /\ state[current_process] = "RUNNING"
         /\ ~on_run_queue[current_process]
         /\ QueuesOK /\ SleepSorted /\ NoneOverdue
BY DEF IInv, OnCpu, RunQueueOK, SleepListOK, CpuConsistent, TypeOK, Procs

\* process_yield keeps the invariant.
LEMMA YieldStep ==
  ASSUME IInv, ProcessYield
  PROVE  IInv'
<1> DEFINE p == current_process
<1>0. /\ p \in Procs /\ p \in Slots /\ state[p] = "RUNNING" /\ ~on_run_queue[p]
      /\ QueuesOK /\ SleepSorted /\ NoneOverdue /\ TypeOK
      /\ cpu = "thread" /\ cpu' = "loop_return" /\ ~in_tick /\ p # Idle
  BY CallerFacts DEF ProcessYield, OnCpu, SwitchToLoop, IInv
<1>1. QueueType' /\ QueuesOK'
  <2>1. base_priority[p] \in Levels
    BY <1>0 DEF TypeOK
  <2>2. QED BY <1>0, <2>1, EnqueueKeepsQueues, Zenon DEF ProcessYield, Enqueue
<1>2. /\ SleepSorted' /\ NoneOverdue'
      /\ \A q \in Procs : Asleep(q)' => Asleep(q)
  BY <1>0, SameSleep DEF ProcessYield
<1>3. TypeOK'
  BY <1>0, <1>1, SMTT(30) DEF TypeOK, QueueType, ProcessYield, SwitchToLoop, CpuModes, States
<1>4. PlacedByState'
  BY <1>0, <1>2, Zenon DEF IInv, PlacedByState, ProcessYield, Enqueue, TypeOK, Procs
<1>5. EoiOwed'
  <2>1. \A q \in Slots : resume'[q] = "irq" <=> resume[q] = "irq"
    BY <1>0 DEF IInv, CpuConsistent, ProcessYield, SwitchToLoop, TypeOK
  <2>2. \A q \in Procs : resume[q] = "irq" => state'[q] \in {"READY", "RUNNING"}
    BY <1>0 DEF IInv, EoiOwed, ProcessYield, TypeOK, Procs
  <2>3. QED BY <1>0, <2>1, <2>2, SameDebts DEF IInv, ProcessYield
<1>6. CpuConsistent' /\ SliceAccounting'
  BY <1>0 DEF IInv, CpuConsistent, SliceAccounting, ProcessYield, SwitchToLoop, TypeOK, Procs, Idle
<1>7. QED
  BY <1>0, <1>1, <1>2, <1>3, <1>4, <1>5, <1>6 DEF IInv, RunQueueOK, SleepListOK

\* process_sleep keeps the invariant.
LEMMA SleepStep ==
  ASSUME IInv, NEW t \in SleepArgs, ProcessSleep(t)
  PROVE  IInv'
<1> DEFINE p == current_process
           deadline == ticks + (IF t = 0 THEN 1 ELSE t)
<1>0. /\ p \in Procs /\ p \in Slots /\ state[p] = "RUNNING" /\ ~on_run_queue[p]
      /\ QueuesOK /\ SleepSorted /\ NoneOverdue /\ TypeOK
      /\ cpu = "thread" /\ cpu' = "loop_return" /\ ~in_tick
  BY CallerFacts DEF ProcessSleep, OnCpu, SwitchToLoop, IInv
<1>1. QueueType' /\ QueuesOK'
  BY <1>0, SameQueues DEF ProcessSleep
<1>2. deadline \in Nat /\ ticks < deadline
  BY <1>0, ConstantsAssumption DEF TypeOK
<1>3. /\ sleep_list' \in Seq(Procs) /\ SleepSorted' /\ NoneOverdue'
      /\ \A q \in Procs : Asleep(q)' => Asleep(q) \/ q = p
  <2>1. /\ wake_deadline' = [wake_deadline EXCEPT ![p] = deadline]
        /\ InsertSleep(p, deadline) /\ ticks' = ticks
    BY DEF ProcessSleep
  <2> HIDE DEF p, deadline
  <2>2. QED BY <1>0, <1>2, <2>1, InsertKeepsSleep, Zenon
<1>4. TypeOK'
  BY <1>0, <1>1, <1>2, <1>3, Zenon DEF TypeOK, QueueType, ProcessSleep, SwitchToLoop, CpuModes, States
<1>5. PlacedByState'
  BY <1>0, <1>3, Zenon DEF IInv, PlacedByState, ProcessSleep, TypeOK, Procs
<1>6. EoiOwed'
  <2>1. \A q \in Slots : resume'[q] = "irq" <=> resume[q] = "irq"
    BY <1>0 DEF IInv, CpuConsistent, ProcessSleep, SwitchToLoop, TypeOK
  <2>2. \A q \in Procs : resume[q] = "irq" => state'[q] \in {"READY", "RUNNING"}
    BY <1>0, Zenon DEF IInv, EoiOwed, CpuConsistent, ProcessSleep, TypeOK, Procs
  <2>3. QED BY <1>0, <2>1, <2>2, SameDebts DEF IInv, ProcessSleep
<1>7. CpuConsistent' /\ SliceAccounting'
  BY <1>0 DEF IInv, CpuConsistent, SliceAccounting, ProcessSleep, SwitchToLoop, TypeOK, Procs, Idle
<1>8. QED
  BY <1>0, <1>1, <1>3, <1>4, <1>5, <1>6, <1>7 DEF IInv, RunQueueOK, SleepListOK

\* process_block_current keeps the invariant.
LEMMA BlockStep ==
  ASSUME IInv, ProcessBlockCurrent
  PROVE  IInv'
<1> DEFINE p == current_process
<1>0. /\ p \in Procs /\ p \in Slots /\ state[p] = "RUNNING" /\ ~on_run_queue[p]
      /\ QueuesOK /\ SleepSorted /\ NoneOverdue /\ TypeOK
      /\ cpu = "thread" /\ cpu' = "loop_return" /\ ~in_tick
  BY CallerFacts DEF ProcessBlockCurrent, OnCpu, SwitchToLoop, IInv
<1>1. QueueType' /\ QueuesOK'
  BY <1>0, SameQueues DEF ProcessBlockCurrent
<1>2. SleepSorted' /\ NoneOverdue' /\ \A q \in Procs : Asleep(q)' => Asleep(q)
  BY <1>0, SameSleep DEF ProcessBlockCurrent
<1>3. TypeOK'
  BY <1>0, <1>1, Zenon DEF TypeOK, QueueType, ProcessBlockCurrent, SwitchToLoop, CpuModes, States
<1>4. PlacedByState'
  BY <1>0, <1>2, Zenon DEF IInv, PlacedByState, ProcessBlockCurrent, TypeOK, Procs
<1>5. EoiOwed'
  <2>1. \A q \in Slots : resume'[q] = "irq" <=> resume[q] = "irq"
    BY <1>0 DEF IInv, CpuConsistent, ProcessBlockCurrent, SwitchToLoop, TypeOK
  <2>2. \A q \in Procs : resume[q] = "irq" => state'[q] \in {"READY", "RUNNING"}
    BY <1>0, Zenon DEF IInv, EoiOwed, CpuConsistent, ProcessBlockCurrent, TypeOK, Procs
  <2>3. QED BY <1>0, <2>1, <2>2, SameDebts DEF IInv, ProcessBlockCurrent
<1>6. CpuConsistent' /\ SliceAccounting'
  BY <1>0 DEF IInv, CpuConsistent, SliceAccounting, ProcessBlockCurrent, SwitchToLoop, TypeOK,
              Procs, Idle
<1>7. QED
  BY <1>0, <1>1, <1>2, <1>3, <1>4, <1>5, <1>6 DEF IInv, RunQueueOK, SleepListOK

\* process_exit keeps the invariant.
LEMMA ExitStep ==
  ASSUME IInv, ProcessExit
  PROVE  IInv'
<1> DEFINE p == current_process
<1>0. /\ p \in Procs /\ p \in Slots /\ state[p] = "RUNNING" /\ ~on_run_queue[p]
      /\ QueuesOK /\ SleepSorted /\ NoneOverdue /\ TypeOK
      /\ cpu = "thread" /\ cpu' = "loop_return" /\ ~in_tick
  BY CallerFacts DEF ProcessExit, OnCpu, SwitchToLoop, IInv
<1>1. QueueType' /\ QueuesOK' /\ UNCHANGED on_run_queue
  <2>1. on_run_queue' = on_run_queue
    BY <1>0 DEF ProcessExit, TypeOK
  <2>2. QED BY <1>0, <2>1, SameQueues DEF ProcessExit
<1>2. /\ sleep_list' \in Seq(Procs) /\ SleepSorted' /\ NoneOverdue'
      /\ \A q \in Procs : Asleep(q)' => Asleep(q) /\ q # p
  BY <1>0, UnlinkKeepsSleep DEF ProcessExit
<1>3. TypeOK'
  BY <1>0, <1>1, <1>2, SMTT(30) DEF TypeOK, QueueType, ProcessExit, SwitchToLoop, CpuModes, States
<1>4. PlacedByState'
  BY <1>0, <1>1, <1>2, Zenon DEF IInv, PlacedByState, ProcessExit, TypeOK, Procs
<1>5. EoiOwed'
  <2>1. \A q \in Slots : resume'[q] = "irq" <=> resume[q] = "irq"
    BY <1>0 DEF IInv, CpuConsistent, ProcessExit, SwitchToLoop, TypeOK
  <2>2. \A q \in Procs : resume[q] = "irq" => state'[q] \in {"READY", "RUNNING"}
    BY <1>0, Zenon DEF IInv, EoiOwed, CpuConsistent, ProcessExit, TypeOK, Procs
  <2>3. QED BY <1>0, <2>1, <2>2, SameDebts DEF IInv, ProcessExit
<1>6. CpuConsistent' /\ SliceAccounting'
  BY <1>0, <1>1 DEF IInv, CpuConsistent, SliceAccounting, ProcessExit, SwitchToLoop, TypeOK,
                    Procs, Idle
<1>7. QED
  BY <1>0, <1>1, <1>2, <1>3, <1>4, <1>5, <1>6 DEF IInv, RunQueueOK, SleepListOK

\* process_wake, from a thread or from the loop.
LEMMA MakeRunnableStep ==
  ASSUME IInv, cpu # "wild", NEW q \in Procs, MakeRunnable(q)
  PROVE  IInv'
<1>0. /\ q \in Slots /\ q # Idle /\ state[q] = "WAITING" /\ ~on_run_queue[q]
      /\ QueuesOK /\ SleepSorted /\ TypeOK /\ cpu' = cpu /\ (~in_tick => NoneOverdue)
      /\ Boosted(base_priority[q]) \in Levels
  BY PriorityFacts, Zenon DEF MakeRunnable, IInv, RunQueueOK, SleepListOK, PlacedByState, TypeOK, Procs
<1>1. QueueType' /\ QueuesOK'
  BY <1>0, EnqueueKeepsQueues, Zenon DEF MakeRunnable, Enqueue
<1>2. /\ sleep_list' \in Seq(Procs) /\ SleepSorted' /\ (NoneOverdue => NoneOverdue')
      /\ \A r \in Procs : Asleep(r)' => Asleep(r) /\ r # q
  BY <1>0, UnlinkKeepsSleep DEF MakeRunnable
<1>3. TypeOK'
  BY <1>0, <1>1, <1>2, Zenon DEF TypeOK, QueueType, MakeRunnable, CpuModes, States
<1>4. PlacedByState'
  BY <1>0, <1>2, Zenon DEF IInv, PlacedByState, MakeRunnable, Enqueue, TypeOK, Procs
<1>5. EoiOwed'
  <2>1. \A r \in Procs : resume[r] = "irq" => state'[r] \in {"READY", "RUNNING"}
    BY <1>0 DEF IInv, EoiOwed, MakeRunnable, TypeOK, Procs
  <2>2. QED BY <1>0, <2>1, SameDebts DEF IInv, MakeRunnable
<1>6. CpuConsistent' /\ SliceAccounting'
  <2>1. cpu \in {"loop_selected", "loop_armed", "thread"} => q # current_process
    BY <1>0 DEF IInv, CpuConsistent
  <2>2. \A r \in Slots : r # q => state'[r] = state[r] /\ on_run_queue'[r] = on_run_queue[r]
    BY <1>0 DEF MakeRunnable, Enqueue, TypeOK
  <2>3. state'[q] = "READY"
    BY <1>0 DEF MakeRunnable, TypeOK
  <2>4. UNCHANGED <<current_process, cpu, resume, irqVars, sliceVars>>
    BY DEF MakeRunnable
  <2>5. CpuConsistent'
    BY <1>0, <2>1, <2>2, <2>3, <2>4, SlotFacts, Zenon DEF IInv, CpuConsistent, TypeOK
  <2>6. \A r \in Procs : state'[r] # "ZOMBIE" => state[r] # "ZOMBIE"
    BY <1>0, <2>2 DEF Procs
  <2>7. SliceAccounting'
    BY <2>4, <2>6 DEF IInv, SliceAccounting, sliceVars
  <2>8. QED BY <2>5, <2>7
<1>7. QED
  BY <1>0, <1>1, <1>2, <1>3, <1>4, <1>5, <1>6 DEF IInv, RunQueueOK, SleepListOK, MakeRunnable

\* process_create and process_create_kernel, at any level, keep the invariant.
LEMMA CreateStep ==
  ASSUME IInv, NEW prio \in Levels, Create(prio)
  PROVE  IInv'
<1>0. /\ TypeOK /\ QueuesOK /\ SleepSorted /\ ~in_tick /\ NoneOverdue
      /\ cpu \in {"boot", "thread"} /\ cpu' = cpu /\ current_process' = current_process
      /\ UNCHANGED <<sleep_list, irqVars>>
  BY DEF Create, OnCpu, IInv, RunQueueOK, SleepListOK, CpuConsistent
<1>1. PICK p \in Slots :
        /\ FreeSlot(p)
        /\ state' = [state EXCEPT ![p] = "READY"]
        /\ base_priority' = [base_priority EXCEPT ![p] = prio]
        /\ dynamic_priority' = [dynamic_priority EXCEPT ![p] = prio]
        /\ wake_deadline' = [wake_deadline EXCEPT ![p] = 0]
        /\ time_slice_ticks' = [time_slice_ticks EXCEPT ![p] = TimesliceFor(prio)]
        /\ time_slice_remaining' = [time_slice_remaining EXCEPT ![p] = TimesliceFor(prio)]
        /\ sched_policy' = [sched_policy EXCEPT ![p] = "FAIR"]
        /\ sched_weight' = [sched_weight EXCEPT ![p] = BASE_WEIGHT]
        /\ sched_deadline' = [sched_deadline EXCEPT ![p] = 0]
        /\ vruntime' = [vruntime EXCEPT ![p] = 0]
        /\ ready_queues' = [ready_queues EXCEPT ![prio] = Append(@, p)]
        /\ ready_bitmap' = ready_bitmap \cup {prio}
        /\ on_run_queue' = [on_run_queue EXCEPT ![p] = TRUE]
        /\ resume' = [resume EXCEPT ![p] = "start"]
  BY Zenon DEF Create
<1>2. /\ p \in Procs /\ p # Idle /\ state[p] = "UNUSED" /\ ~on_run_queue[p] /\ ~Asleep(p)
      /\ p # current_process /\ resume[p] \notin {"irq", "live"}
  <2>1. p # Idle
    BY <1>0, <1>1 DEF FreeSlot, IInv, CpuConsistent
  <2>2. p \in Procs /\ state[p] \in {"UNUSED", "ZOMBIE"}
    BY <1>1, <2>1 DEF Procs, FreeSlot
  <2>3. p # current_process
    BY <1>0, <2>2, SlotFacts DEF IInv, CpuConsistent
  <2>4. QED BY <1>0, <2>1, <2>2, <2>3, SlotFacts DEF IInv, PlacedByState, EoiOwed, CpuConsistent
<1>3. QueueType' /\ QueuesOK'
  BY <1>0, <1>1, <1>2, EnqueueKeepsQueues, Zenon
<1>4. SleepSorted' /\ NoneOverdue' /\ \A q \in Procs : Asleep(q)' => Asleep(q)
  <2>1. sleep_list' = WithoutSleeper(p)
    BY <1>0, <1>2 DEF WithoutSleeper
  <2>2. \A q \in Slots : q # p => wake_deadline'[q] = wake_deadline[q]
    BY <1>0, <1>1 DEF TypeOK
  <2>3. QED BY <1>0, <1>2, <2>1, <2>2, UnlinkKeepsSleep
<1>5. TypeOK'
  <2>1. TimesliceFor(prio) \in Nat
    BY SliceFacts
  <2>2. QED BY <1>0, <1>1, <1>3, <2>1, ConstantsAssumption, Zenon DEF TypeOK, QueueType, States
<1>6. /\ \A q \in Slots : q # p => /\ state'[q] = state[q] /\ on_run_queue'[q] = on_run_queue[q]
                                   /\ resume'[q] = resume[q]
                                   /\ time_slice_ticks'[q] = time_slice_ticks[q]
                                   /\ time_slice_remaining'[q] = time_slice_remaining[q]
      /\ state'[p] = "READY" /\ on_run_queue'[p] /\ resume'[p] = "start"
  BY <1>0, <1>1 DEF TypeOK
<1>7. PlacedByState'
  BY <1>0, <1>2, <1>4, <1>6, SlotFacts DEF IInv, PlacedByState
<1>8. EoiOwed'
  <2>1. \A q \in Slots : resume'[q] = "irq" <=> resume[q] = "irq"
    BY <1>2, <1>6
  <2>2. \A q \in Procs : resume[q] = "irq" => state'[q] \in {"READY", "RUNNING"}
    BY <1>0, <1>2, <1>6, SlotFacts DEF IInv, EoiOwed
  <2>3. QED BY <1>0, <2>1, <2>2, SameDebts DEF IInv
<1>9. CpuConsistent' /\ SliceAccounting'
  <2>1. CpuConsistent'
    <3>1. \A q \in Slots : resume'[q] = "live" <=> q = current_process /\ cpu = "thread"
      BY <1>0, <1>2, <1>6 DEF IInv, CpuConsistent
    <3>2. /\ current_process = NULL <=> cpu = "boot"
          /\ state'[Idle] \in {"READY", "RUNNING"}
      BY <1>0, <1>2, <1>6, SlotFacts DEF IInv, CpuConsistent
    <3>3. CASE cpu = "boot"
      BY <1>0, <3>1, <3>2, <3>3, SlotFacts DEF CpuConsistent
    <3>4. CASE cpu = "thread"
      <4>1. /\ current_process \in Slots /\ state[current_process] = "RUNNING"
            /\ current_process \in Procs => ~on_run_queue[current_process]
            /\ current_process = Idle => \A q \in Procs : resume[q] # "irq"
        BY <1>0, <3>2, <3>4 DEF IInv, CpuConsistent, TypeOK
      <4>2. QED BY <1>0, <1>2, <1>6, <3>1, <3>2, <3>4, <4>1, SlotFacts DEF CpuConsistent
    <3>5. QED BY <1>0, <3>3, <3>4
  <2>2. SliceAccounting'
    BY <1>0, <1>2, <1>6, SlotFacts DEF IInv, SliceAccounting
  <2>3. QED BY <2>1, <2>2
<1>10. QED
  BY <1>0, <1>3, <1>4, <1>5, <1>7, <1>8, <1>9 DEF IInv, RunQueueOK, SleepListOK

\* Steps that leave every queue, the sleep list and the states of processes alone.
LEMMA QuietStep ==
  ASSUME IInv, TypeOK', SliceAccounting', cpu \in {"boot", "thread"}, cpu' = cpu,
         UNCHANGED <<state, dynamic_priority, queueVars, sleepVars, irqVars, current_process,
                     resume>>
  PROVE  IInv'
<1>0. TypeOK /\ QueuesOK /\ SleepSorted /\ cpu # "wild" /\ cpu' # "wild"
  BY DEF IInv, RunQueueOK, SleepListOK
<1>1. QueuesOK'
  BY <1>0, SameQueues
<1>2. /\ SleepSorted' /\ (NoneOverdue => NoneOverdue') /\ \A q \in Procs : Asleep(q)' => Asleep(q)
  BY <1>0, SameSleep
<1>3. PlacedByState'
  BY <1>0, <1>2 DEF IInv, PlacedByState
<1>4. EoiOwed'
  BY DEF IInv, EoiOwed
<1>5. CpuConsistent'
  BY DEF IInv, CpuConsistent
<1>6. QED BY <1>0, <1>1, <1>2, <1>3, <1>4, <1>5 DEF IInv, RunQueueOK, SleepListOK

\* process_set_scheduler keeps the invariant.
LEMMA SetSchedulerStep ==
  ASSUME IInv, NEW q \in Procs, NEW w \in Weights, NEW d \in DeadlineArgs,
         NEW policy \in {"FAIR", "DEADLINE"}, ProcessSetScheduler(q, policy, w, d)
  PROVE  IInv'
<1>1. TypeOK'
  <2>1. w \in Nat /\ EffectiveDeadline(d) \in Nat /\ q \in Slots
    BY ConstantsAssumption, SlotFacts DEF EffectiveDeadline, IInv, TypeOK
  <2>2. QED BY <2>1, ConstantsAssumption, Zenon DEF IInv, TypeOK, ProcessSetScheduler
<1>2. SliceAccounting'
  BY DEF IInv, SliceAccounting, ProcessSetScheduler
<1>3. QED BY <1>1, <1>2, QuietStep DEF ProcessSetScheduler, OnCpu

\* One iteration of wake_sleepers: the head of the sleep list becomes READY.
LEMMA WakeSleeperStep ==
  ASSUME IInv, WakeSleeper
  PROVE  IInv'
<1> DEFINE p == Head(sleep_list)
<1>0. /\ TypeOK /\ QueuesOK /\ SleepSorted /\ cpu # "wild" /\ cpu' = cpu
      /\ ~in_tick => NoneOverdue
  BY DEF WakeSleeper, IInv, RunQueueOK, SleepListOK
<1>1. /\ sleep_list \in Seq(Procs) /\ sleep_list # <<>> /\ Len(sleep_list) \in Nat \ {0}
      /\ p = sleep_list[1] /\ p \in Procs
      /\ Tail(sleep_list) \in Seq(Procs)
      /\ Len(Tail(sleep_list)) = Len(sleep_list) - 1
      /\ \A i \in 1 .. Len(Tail(sleep_list)) : Tail(sleep_list)[i] = sleep_list[i + 1]
  <2>1. sleep_list \in Seq(Procs) /\ sleep_list # <<>>
    BY <1>0 DEF TypeOK, WakeSleeper, SleeperDue
  <2>2. QED BY <2>1, HeadTailProperties, EmptySeq, LenProperties
<1>2. /\ p \in Slots /\ p # Idle /\ state[p] = "WAITING" /\ ~on_run_queue[p]
      /\ Boosted(base_priority[p]) \in Levels
  <2>1. Asleep(p)
    BY <1>1 DEF Asleep
  <2>2. state[p] = "WAITING"
    BY <1>0, <1>1, <2>1 DEF IInv, PlacedByState
  <2>3. QED BY <1>0, <1>1, <2>2, SlotFacts, PriorityFacts, ZenonT(30) DEF IInv, PlacedByState, TypeOK
<1>3. QueueType' /\ QueuesOK'
  BY <1>0, <1>1, <1>2, EnqueueKeepsQueues, Zenon DEF WakeSleeper, Enqueue
<1>4. /\ sleep_list' \in Seq(Procs)
      /\ SleepSorted'
      /\ NoneOverdue => NoneOverdue'
      /\ \A q \in Procs : Asleep(q)' => Asleep(q) /\ q # p
  <2>1. sleep_list' = Tail(sleep_list) /\ ticks' = ticks
    BY DEF WakeSleeper
  <2>2. \A i \in 1 .. Len(sleep_list') :
           /\ i + 1 \in 1 .. Len(sleep_list) /\ sleep_list'[i] = sleep_list[i + 1]
           /\ sleep_list'[i] # p
    BY <1>0, <1>1, <2>1 DEF SleepSorted
  <2>3. \A i \in 1 .. Len(sleep_list') : sleep_list'[i] \in Slots
    BY <1>1, <2>1, ElementOfSeq, SlotFacts
  <2>4. \A i \in 1 .. Len(sleep_list') :
           wake_deadline'[sleep_list'[i]] = wake_deadline[sleep_list'[i]]
    BY <1>0, <2>2, <2>3 DEF WakeSleeper, TypeOK
  <2>5. SleepSorted'
    <3>1. SUFFICES ASSUME NEW i \in 1 .. Len(sleep_list'), NEW j \in 1 .. Len(sleep_list'), i < j
                   PROVE  /\ sleep_list'[i] # sleep_list'[j]
                          /\ wake_deadline'[sleep_list'[i]] <= wake_deadline'[sleep_list'[j]]
      BY DEF SleepSorted
    <3>2. /\ sleep_list[i + 1] # sleep_list[j + 1]
          /\ wake_deadline[sleep_list[i + 1]] <= wake_deadline[sleep_list[j + 1]]
      BY <1>0, <2>2, <3>1 DEF SleepSorted
    <3>3. QED BY <2>2, <2>4, <3>2, Zenon
  <2>6. NoneOverdue => NoneOverdue'
    BY <2>1, <2>2, <2>4 DEF NoneOverdue
  <2>7. \A q \in Procs : Asleep(q)' => Asleep(q) /\ q # p
    BY <2>2 DEF Asleep
  <2>8. QED BY <1>1, <2>1, <2>5, <2>6, <2>7
<1>5. TypeOK'
  BY <1>0, <1>1, <1>2, <1>3, <1>4, Zenon DEF TypeOK, QueueType, WakeSleeper, States
<1> HIDE DEF p
<1>6. /\ \A q \in Slots : q # p => state'[q] = state[q] /\ on_run_queue'[q] = on_run_queue[q]
      /\ state'[p] = "READY" /\ on_run_queue'[p]
      /\ UNCHANGED <<current_process, resume, irqVars, sliceVars>>
  BY <1>0, <1>2 DEF WakeSleeper, Enqueue, TypeOK, p
<1>7. PlacedByState'
  BY <1>0, <1>4, <1>6, SlotFacts DEF IInv, PlacedByState
<1>8. EoiOwed'
  <2>1. \A q \in Procs : resume[q] = "irq" => state'[q] \in {"READY", "RUNNING"}
    BY <1>0, <1>6, SlotFacts DEF IInv, EoiOwed
  <2>2. QED BY <1>0, <1>6, <2>1, SameDebts DEF IInv
<1>9. CpuConsistent' /\ SliceAccounting'
  <2>1. cpu \in {"loop_selected", "loop_armed", "thread"} => p # current_process
    BY <1>0, <1>1, <1>2 DEF IInv, CpuConsistent
  <2>2. QED BY <1>0, <1>1, <1>2, <1>6, <2>1, SlotFacts, Zenon DEF IInv, CpuConsistent, SliceAccounting, TypeOK
<1>10. QED
  BY <1>0, <1>3, <1>4, <1>5, <1>6, <1>7, <1>8, <1>9 DEF IInv, RunQueueOK, SleepListOK

-----------------------------------------------------------------------------
(* The steps of the loop *)

\* What the loop finds between two steps.
LEMMA LoopFacts ==
  ASSUME IInv, cpu \in {"loop_wake", "loop_selected", "loop_armed", "loop_return", "loop_tail"},
         ~in_tick
  PROVE  /\ TypeOK /\ QueuesOK /\ SleepSorted /\ NoneOverdue
         /\ cpu # "loop_wake" => current_process \in Slots
         /\ cpu = "loop_wake" => current_process = NULL
         /\ \A q \in Slots : resume[q] # "live"
         /\ state[Idle] \in {"READY", "RUNNING"}
BY Zenon DEF IInv, RunQueueOK, SleepListOK, CpuConsistent, TypeOK

\* Picking a process from a run queue keeps the invariant.
LEMMA SelectReadyStep ==
  ASSUME IInv, SelectReady
  PROVE  IInv'
<1>0. /\ TypeOK /\ QueuesOK /\ SleepSorted /\ NoneOverdue /\ cpu = "loop_wake" /\ ~in_tick
      /\ current_process = NULL /\ \A q \in Slots : resume[q] # "live"
      /\ UNCHANGED <<state, prioVars, sliceVars, policyVars, sleepVars, irqVars, resume>>
  BY LoopFacts DEF SelectReady
<1>1. PICK l \in Levels : \E i \in 1 .. Len(ready_queues[l]) :
        RemoveFromReady(l, i) /\ Dispatch(ready_queues[l][i])
  BY DEF SelectReady
<1>2. PICK i \in 1 .. Len(ready_queues[l]) :
        RemoveFromReady(l, i) /\ Dispatch(ready_queues[l][i])
  BY <1>1
<1> DEFINE p == ready_queues[l][i]
<1>3. p \in Procs /\ p \in Slots /\ on_run_queue[p]
  BY <1>0, <1>2, ElementOfSeq, SlotFacts, Zenon DEF TypeOK, QueuesOK, QueuedAtOwnLevel
<1>4. QueueType' /\ QueuesOK'
  BY <1>0, <1>2, RemoveKeepsQueues
<1>5. SleepSorted' /\ NoneOverdue' /\ \A q \in Procs : Asleep(q)' => Asleep(q)
  BY <1>0, SameSleep
<1>6. /\ \A q \in Slots : q # p => on_run_queue'[q] = on_run_queue[q]
      /\ ~on_run_queue'[p] /\ current_process' = p /\ cpu' = "loop_selected"
  BY <1>0, <1>2, <1>3 DEF RemoveFromReady, Dispatch, TypeOK
<1> HIDE DEF p
<1>7. TypeOK'
  BY <1>0, <1>3, <1>4, <1>6, Zenon DEF TypeOK, QueueType, CpuModes
<1>8. state[p] = "READY"
  BY <1>0, <1>3 DEF IInv, PlacedByState
<1>9. PlacedByState'
  BY <1>0, <1>3, <1>5, <1>6, <1>8, SlotFacts DEF IInv, PlacedByState
<1>10. EoiOwed'
  BY <1>0, SameDebts DEF IInv, EoiOwed
<1>11. CpuConsistent' /\ SliceAccounting'
  BY <1>0, <1>3, <1>6, <1>8, SlotFacts DEF IInv, CpuConsistent, SliceAccounting
<1>12. QED
  BY <1>0, <1>4, <1>5, <1>6, <1>7, <1>9, <1>10, <1>11 DEF IInv, RunQueueOK, SleepListOK

\* Picking idle keeps the invariant: nobody else owes the EOI then.
LEMMA SelectIdleStep ==
  ASSUME IInv, SelectIdle
  PROVE  IInv'
<1>0. /\ TypeOK /\ QueuesOK /\ SleepSorted /\ NoneOverdue /\ cpu = "loop_wake" /\ ~in_tick
      /\ current_process = NULL /\ \A q \in Slots : resume[q] # "live"
      /\ UNCHANGED <<state, prioVars, sliceVars, policyVars, queueVars, sleepVars, irqVars, resume>>
      /\ current_process' = Idle /\ cpu' = "loop_selected"
  BY LoopFacts DEF SelectIdle, Dispatch
<1>1. \A q \in Slots : ~on_run_queue[q]
  <2> SUFFICES ASSUME NEW q \in Slots, on_run_queue[q] PROVE FALSE
    OBVIOUS
  <2>1. dynamic_priority[q] \in Levels
    BY <1>0 DEF TypeOK
  <2>2. \E i \in 1 .. Len(ready_queues[dynamic_priority[q]]) : TRUE
    BY <1>0 DEF QueuesOK, FlagMeansQueued
  <2>3. QED BY <2>1, <2>2 DEF SelectIdle, SomeQueued, Anyone
<1>2. \A q \in Procs : resume[q] # "irq"
  BY <1>0, <1>1, SlotFacts DEF IInv, PlacedByState, EoiOwed
<1>3. QueueType' /\ QueuesOK'
  BY <1>0, SameQueues
<1>4. SleepSorted' /\ NoneOverdue' /\ \A q \in Procs : Asleep(q)' => Asleep(q)
  BY <1>0, SameSleep
<1>5. TypeOK'
  BY <1>0, <1>3, SlotFacts, SMTT(30) DEF TypeOK, QueueType, CpuModes
<1>6. PlacedByState'
  BY <1>0, <1>1, <1>4, SlotFacts DEF IInv, PlacedByState
<1>7. EoiOwed'
  BY <1>0, SameDebts DEF IInv, EoiOwed
<1>8. CpuConsistent' /\ SliceAccounting'
  BY <1>0, <1>2, SlotFacts DEF IInv, CpuConsistent, SliceAccounting
<1>9. QED
  BY <1>0, <1>3, <1>4, <1>5, <1>6, <1>7, <1>8 DEF IInv, RunQueueOK, SleepListOK

\* Arming the time slice keeps the invariant.
LEMMA ArmStep ==
  ASSUME IInv, ArmTimeslice
  PROVE  IInv'
<1> DEFINE p == current_process
           slice == TimesliceFor(dynamic_priority[p])
<1>0. /\ TypeOK /\ QueuesOK /\ SleepSorted /\ NoneOverdue /\ cpu = "loop_selected" /\ ~in_tick
      /\ p \in Slots /\ \A q \in Slots : resume[q] # "live"
      /\ UNCHANGED <<prioVars, policyVars, queueVars, sleepVars, irqVars, current_process, resume>>
      /\ cpu' = "loop_armed"
  BY LoopFacts DEF ArmTimeslice
<1>1. slice \in Nat \ {0}
  BY <1>0, SliceFacts DEF TypeOK
<1>2. /\ state' = [state EXCEPT ![p] = "RUNNING"]
      /\ time_slice_ticks' = [time_slice_ticks EXCEPT ![p] = slice]
      /\ time_slice_remaining' = [time_slice_remaining EXCEPT ![p] = slice]
  BY DEF ArmTimeslice
<1> HIDE DEF slice
<1>3. QueueType' /\ QueuesOK'
  BY <1>0, SameQueues
<1>4. SleepSorted' /\ NoneOverdue' /\ \A q \in Procs : Asleep(q)' => Asleep(q)
  BY <1>0, SameSleep
<1>5. TypeOK'
  BY <1>0, <1>1, <1>2, <1>3, Zenon DEF TypeOK, QueueType, CpuModes, States
<1>6. /\ \A q \in Slots : q # p => state'[q] = state[q]
      /\ state'[p] = "RUNNING"
  BY <1>0, <1>2 DEF TypeOK
<1>7. p \in Procs => state[p] = "READY" /\ ~on_run_queue[p]
  BY <1>0 DEF IInv, CpuConsistent
<1>8. PlacedByState'
  BY <1>0, <1>4, <1>6, <1>7, SlotFacts DEF IInv, PlacedByState
<1>9. EoiOwed'
  <2>1. \A q \in Procs : resume[q] = "irq" => state'[q] \in {"READY", "RUNNING"}
    BY <1>0, <1>6, SlotFacts DEF IInv, EoiOwed
  <2>2. QED BY <1>0, <2>1, SameDebts DEF IInv
<1>10. CpuConsistent'
  BY <1>0, <1>6, <1>7, SlotFacts DEF IInv, CpuConsistent
<1>11. SliceAccounting'
  BY <1>0, <1>1, <1>2 DEF TypeOK, SliceAccounting
<1>12. QED
  BY <1>0, <1>3, <1>4, <1>5, <1>8, <1>9, <1>10, <1>11 DEF IInv, RunQueueOK, SleepListOK

\* Entering a thread keeps the invariant; a preempted one pays the EOI it owes.
LEMMA SwitchInStep ==
  ASSUME IInv, SwitchIn
  PROVE  IInv'
<1> DEFINE p == current_process
<1>0. /\ TypeOK /\ QueuesOK /\ SleepSorted /\ NoneOverdue /\ cpu = "loop_armed" /\ ~in_tick
      /\ p \in Slots /\ state[p] = "RUNNING" /\ \A q \in Slots : resume[q] # "live"
      /\ UNCHANGED <<prioVars, sliceVars, policyVars, queueVars, sleepVars, ticks, in_tick,
                     current_process>>
      /\ cpu' = "thread" /\ in_service' \in BOOLEAN
      /\ (in_service' <=> in_service /\ resume[p] # "irq")
  BY LoopFacts, Zenon DEF SwitchIn, IInv, CpuConsistent
<1>1. QueueType' /\ QueuesOK'
  BY <1>0, SameQueues
<1>2. SleepSorted' /\ NoneOverdue' /\ \A q \in Procs : Asleep(q)' => Asleep(q)
  BY <1>0, SameSleep
<1>3. state' = state
  BY <1>0 DEF SwitchIn, TypeOK
<1>4. TypeOK'
  BY <1>0, <1>1, <1>3, Zenon DEF TypeOK, QueueType, CpuModes, SwitchIn
<1>5. /\ \A q \in Slots : q # p => resume'[q] = resume[q]
      /\ resume'[p] = "live"
  BY <1>0 DEF SwitchIn, TypeOK
<1>6. PlacedByState'
  BY <1>0, <1>2, <1>3 DEF IInv, PlacedByState
<1>7. EoiOwed'
  <2>0. /\ \A q, r \in Slots : resume[q] = "irq" /\ resume[r] = "irq" => q = r
        /\ in_service <=> \E q \in Slots : resume[q] = "irq"
        /\ \A q \in Procs : resume[q] = "irq" => state[q] \in {"READY", "RUNNING"}
    BY <1>0 DEF IInv, EoiOwed
  <2>1. in_service' <=> \E q \in Slots : resume'[q] = "irq"
    <3>1. CASE resume[p] = "irq"
      BY <1>0, <1>5, <2>0, <3>1
    <3>2. CASE resume[p] # "irq"
      BY <1>0, <1>5, <2>0, <3>2
    <3>3. QED BY <3>1, <3>2
  <2>2. \A q, r \in Slots : resume'[q] = "irq" /\ resume'[r] = "irq" => q = r
    BY <1>5, <2>0
  <2>3. \A q \in Procs : resume'[q] = "irq" => state'[q] \in {"READY", "RUNNING"}
    BY <1>3, <1>5, <2>0, SlotFacts
  <2>4. QED BY <1>0, <2>1, <2>2, <2>3 DEF EoiOwed
<1>8. CpuConsistent' /\ SliceAccounting'
  BY <1>0, <1>3, <1>5, SlotFacts DEF IInv, CpuConsistent, SliceAccounting
<1>9. QED
  BY <1>0, <1>1, <1>2, <1>4, <1>6, <1>7, <1>8 DEF IInv, RunQueueOK, SleepListOK

=============================================================================
