-------------------------- MODULE SchedulerProofs --------------------------
(***************************************************************************)
(* The second half of the invariance proof of Scheduler, after the calls   *)
(* of SchedulerCalls: the loop after the switch, the timer interrupt, the  *)
(* start of the scheduler, and the theorems that follow.                   *)
(***************************************************************************)
EXTENDS SchedulerCalls

USE DEF prioVars, sliceVars, policyVars, queueVars, sleepVars, irqVars

\* scheduler_reclaim_zombie rewrites the priority of a process that is in no queue.
LEMMA RetireKeepsQueues ==
  ASSUME TypeOK, QueuesOK, NEW p \in Slots, ~on_run_queue[p],
         UNCHANGED queueVars,
         \A q \in Slots : q # p => dynamic_priority'[q] = dynamic_priority[q]
  PROVE  QueueType' /\ QueuesOK'
<1>1. \A l \in Levels : \A i \in 1 .. Len(ready_queues[l]) :
         ready_queues[l][i] \in Slots /\ ready_queues[l][i] # p
  <2>1. \A l \in Levels : \A i \in 1 .. Len(ready_queues[l]) : ready_queues[l][i] \in Procs
    BY ElementOfSeq DEF TypeOK
  <2>2. QED BY <2>1, SlotFacts DEF QueuesOK, QueuedAtOwnLevel
<1>2. QueuedAtOwnLevel' /\ QueuedOnce'
  BY <1>1, SMTT(30) DEF QueuesOK, QueuedAtOwnLevel, QueuedOnce
<1>3. FlagMeansQueued' /\ BitmapExact'
  BY <1>1, SMTT(30) DEF QueuesOK, FlagMeansQueued, BitmapExact
<1>4. QED BY <1>2, <1>3, Zenon DEF TypeOK, QueueType, QueuesOK

\* Charging the slice and reclaiming a zombie keep the invariant.
LEMMA AccountStep ==
  ASSUME IInv, AccountAndReclaim
  PROVE  IInv'
<1> DEFINE p == current_process
<1>0. /\ TypeOK /\ QueuesOK /\ SleepSorted /\ NoneOverdue /\ cpu = "loop_return" /\ ~in_tick
      /\ p \in Slots /\ \A q \in Slots : resume[q] # "live"
      /\ state[Idle] \in {"READY", "RUNNING"}
      /\ UNCHANGED <<ready_queues, ready_bitmap, irqVars, current_process, resume>>
      /\ cpu' = "loop_tail"
  BY LoopFacts DEF AccountAndReclaim
<1>1. CASE state[p] = "ZOMBIE"
  <2>0. p \in Procs /\ ~on_run_queue[p] /\ resume[p] # "irq"
    BY <1>0, <1>1, SlotFacts DEF IInv, PlacedByState, EoiOwed
  <2>1. on_run_queue' = on_run_queue
    <3>1. on_run_queue' = [on_run_queue EXCEPT ![p] = FALSE]
      BY <1>1 DEF AccountAndReclaim
    <3>2. QED BY <1>0, <2>0, <3>1 DEF TypeOK
  <2>2. QueueType' /\ QueuesOK'
    <3>1. \A q \in Slots : q # p => dynamic_priority'[q] = dynamic_priority[q]
      BY <1>0, <1>1 DEF AccountAndReclaim, TypeOK
    <3>2. QED BY <1>0, <2>0, <2>1, <3>1, RetireKeepsQueues, SMTT(30)
  <2>3. /\ sleep_list' \in Seq(Procs) /\ SleepSorted' /\ NoneOverdue'
        /\ \A q \in Procs : Asleep(q)' => Asleep(q) /\ q # p
    <3>1. \A q \in Slots : q # p => wake_deadline'[q] = wake_deadline[q]
      BY <1>0, <1>1 DEF AccountAndReclaim, TypeOK
    <3>2. sleep_list' = WithoutSleeper(p) /\ ticks' = ticks
      BY <1>0, <1>1 DEF AccountAndReclaim
    <3>3. QED BY <1>0, <2>0, <3>1, <3>2, UnlinkKeepsSleep
  <2>4. TypeOK'
    <3>1. /\ state' = [state EXCEPT ![p] = "UNUSED"]
          /\ time_slice_ticks' = [time_slice_ticks EXCEPT ![p] = 0]
          /\ time_slice_remaining' = [time_slice_remaining EXCEPT ![p] = 0]
          /\ wake_deadline' = [wake_deadline EXCEPT ![p] = 0]
          /\ base_priority' = [base_priority EXCEPT ![p] = PRIORITY_MAX]
          /\ dynamic_priority' = [dynamic_priority EXCEPT ![p] = PRIORITY_MAX]
          /\ sched_policy' = [sched_policy EXCEPT ![p] = "FAIR"]
          /\ sched_weight' = [sched_weight EXCEPT ![p] = BASE_WEIGHT]
          /\ sched_deadline' = [sched_deadline EXCEPT ![p] = 0]
          /\ vruntime' = [vruntime EXCEPT ![p] = 0]
      BY <1>1 DEF AccountAndReclaim
    <3>2. PRIORITY_MAX \in Levels /\ BASE_WEIGHT \in Nat \ {0}
      BY PriorityFacts, ConstantsAssumption
    <3>3. QED BY <1>0, <2>2, <2>3, <3>1, <3>2, Zenon DEF TypeOK, QueueType, CpuModes, States
  <2>5. /\ \A q \in Slots : q # p => state'[q] = state[q]
        /\ state'[p] = "UNUSED"
    BY <1>0, <1>1, SMTT(30) DEF AccountAndReclaim, TypeOK
  <2>6. PlacedByState'
    BY <1>0, <2>0, <2>1, <2>3, <2>5, SlotFacts, SMTT(30) DEF IInv, PlacedByState
  <2>7. EoiOwed'
    <3>1. \A q \in Procs : resume[q] = "irq" => state'[q] \in {"READY", "RUNNING"}
      BY <1>0, <2>0, <2>5, SlotFacts DEF IInv, EoiOwed
    <3>2. QED BY <1>0, <3>1, SameDebts DEF IInv
  <2>8. CpuConsistent' /\ SliceAccounting'
    BY <1>0, <2>0, <2>5, SlotFacts DEF IInv, CpuConsistent, SliceAccounting
  <2>9. QED
    BY <1>0, <2>2, <2>3, <2>4, <2>6, <2>7, <2>8 DEF IInv, RunQueueOK, SleepListOK
<1>2. CASE state[p] # "ZOMBIE"
  <2>0. /\ vruntime' = [vruntime EXCEPT ![p] = AccountRuntime(p)]
        /\ UNCHANGED <<state, prioVars, sliceVars, sched_policy, sched_weight,
                       sched_deadline, sleepVars, on_run_queue>>
    BY <1>2 DEF AccountAndReclaim
  <2>1. QueueType' /\ QueuesOK'
    BY <1>0, <2>0, SameQueues
  <2>2. SleepSorted' /\ NoneOverdue' /\ \A q \in Procs : Asleep(q)' => Asleep(q)
    BY <1>0, <2>0, SameSleep
  <2>3. TypeOK'
    <3>1. AccountRuntime(p) \in Nat
      BY <1>0, AccountFacts
    <3>2. QED BY <1>0, <2>0, <2>1, <3>1, Zenon DEF TypeOK, QueueType, CpuModes
  <2>4. PlacedByState'
    BY <1>0, <1>2, <2>0, <2>2 DEF IInv, PlacedByState
  <2>5. EoiOwed'
    BY <1>0, <2>0, SameDebts DEF IInv, EoiOwed
  <2>6. CpuConsistent' /\ SliceAccounting'
    BY <1>0, <1>2, <2>0, SlotFacts DEF IInv, CpuConsistent, SliceAccounting
  <2>7. QED
    BY <1>0, <2>1, <2>2, <2>3, <2>4, <2>5, <2>6 DEF IInv, RunQueueOK, SleepListOK
<1>3. QED BY <1>1, <1>2

\* The end of the loop keeps the invariant.
LEMMA LoopTailStep ==
  ASSUME IInv, LoopTail
  PROVE  IInv'
<1> DEFINE p == current_process
<1>0. /\ TypeOK /\ QueuesOK /\ SleepSorted /\ NoneOverdue /\ cpu = "loop_tail" /\ ~in_tick
      /\ p \in Slots /\ \A q \in Slots : resume[q] # "live"
      /\ UNCHANGED <<state, prioVars, sliceVars, policyVars, sleepVars, irqVars, resume>>
      /\ cpu' = "loop_wake" /\ current_process' = NULL
  BY LoopFacts DEF LoopTail
<1>1. UNCHANGED queueVars
  BY <1>0, SlotFacts DEF LoopTail, IInv, PlacedByState
<1>2. QueueType' /\ QueuesOK'
  BY <1>0, <1>1, SameQueues
<1>3. SleepSorted' /\ NoneOverdue' /\ \A q \in Procs : Asleep(q)' => Asleep(q)
  BY <1>0, SameSleep
<1>4. TypeOK'
  BY <1>0, <1>2, Zenon DEF TypeOK, QueueType, CpuModes
<1>5. PlacedByState'
  BY <1>0, <1>1, <1>3, SlotFacts DEF IInv, PlacedByState
<1>6. EoiOwed'
  BY <1>0, SameDebts DEF IInv, EoiOwed
<1>7. CpuConsistent' /\ SliceAccounting'
  BY <1>0, SlotFacts DEF IInv, CpuConsistent, SliceAccounting, Idle, NULL
<1>8. QED
  BY <1>0, <1>2, <1>3, <1>4, <1>5, <1>6, <1>7 DEF IInv, RunQueueOK, SleepListOK

-----------------------------------------------------------------------------
(* The steps of the timer handler *)

\* The start of the timer handler keeps the invariant.
LEMMA PitIrqStep ==
  ASSUME IInv, PitIrq
  PROVE  IInv'
<1>0. /\ TypeOK /\ QueuesOK /\ SleepSorted /\ cpu \notin {"boot", "wild"}
      /\ ~in_tick /\ ~in_service /\ in_tick' /\ in_service' /\ ticks' = ticks + 1
      /\ UNCHANGED <<state, prioVars, sliceVars, policyVars, queueVars, sleepVars,
                     current_process, cpu, resume>>
  BY DEF PitIrq, IInv, RunQueueOK, SleepListOK
<1>1. QueueType' /\ QueuesOK'
  BY <1>0, SameQueues
<1>2. SleepSorted' /\ \A q \in Procs : Asleep(q)' => Asleep(q)
  BY <1>0 DEF SleepSorted, Asleep
<1>3. TypeOK'
  <2>1. ticks' \in Nat /\ in_tick' \in BOOLEAN /\ in_service' \in BOOLEAN
    BY <1>0, SMT DEF TypeOK
  <2>2. QED BY <1>0, <1>1, <2>1, Zenon DEF TypeOK, QueueType
<1>4. PlacedByState'
  BY <1>0, <1>2 DEF IInv, PlacedByState
<1>5. EoiOwed'
  BY <1>0 DEF IInv, EoiOwed
<1>6. CpuConsistent' /\ SliceAccounting'
  BY <1>0 DEF IInv, CpuConsistent, SliceAccounting
<1>7. QED
  BY <1>0, <1>1, <1>2, <1>3, <1>4, <1>5, <1>6 DEF IInv, RunQueueOK, SleepListOK

\* Once the head of the sorted list is not due, nobody is overdue.
LEMMA TickBodyFacts ==
  ASSUME IInv, TickBody
  PROVE  /\ TypeOK /\ QueuesOK /\ SleepSorted /\ NoneOverdue /\ cpu # "wild"
         /\ in_service /\ \A q \in Slots : resume[q] # "irq"
<1>1. TypeOK /\ QueuesOK /\ SleepSorted /\ cpu # "wild" /\ in_service
  BY DEF IInv, TickBody, RunQueueOK, SleepListOK, CpuConsistent
<1>2. \A q \in Slots : resume[q] # "irq"
  BY <1>1 DEF IInv, TickBody, EoiOwed
<1>3. NoneOverdue
  <2> SUFFICES ASSUME NEW i \in 1 .. Len(sleep_list) PROVE ticks < wake_deadline[sleep_list[i]]
    BY DEF NoneOverdue
  <2>1. /\ sleep_list \in Seq(Procs) /\ Len(sleep_list) \in Nat
        /\ \A j \in 1 .. Len(sleep_list) : sleep_list[j] \in Slots
    BY <1>1, ElementOfSeq, LenProperties, SlotFacts DEF TypeOK
  <2>2. sleep_list # <<>> /\ 1 \in 1 .. Len(sleep_list) /\ Head(sleep_list) = sleep_list[1]
    BY <2>1
  <2>3. ticks \in Nat /\ \A j \in 1 .. Len(sleep_list) : wake_deadline[sleep_list[j]] \in Nat
    BY <1>1, <2>1 DEF TypeOK
  <2>4. ticks < wake_deadline[sleep_list[1]]
    BY <2>2, <2>3 DEF TickBody, SleeperDue
  <2>5. wake_deadline[sleep_list[1]] <= wake_deadline[sleep_list[i]]
    BY <1>1, <2>2, <2>3 DEF SleepSorted
  <2>6. QED BY <2>2, <2>3, <2>4, <2>5
<1>4. QED BY <1>1, <1>2, <1>3

\* The charged time slices are natural numbers again.
LEMMA ChargedFacts ==
  ASSUME TypeOK
  PROVE  Charged \in [Slots -> Nat]
<1>1. CASE current_process \in Procs /\ time_slice_remaining[current_process] > 0
  <2>0. current_process \in Slots /\ time_slice_remaining[current_process] \in Nat
    BY <1>1, SlotFacts DEF TypeOK
  <2>1. time_slice_remaining[current_process] - 1 \in Nat
    BY <1>1, <2>0
  <2>2. Charged = [time_slice_remaining EXCEPT
                     ![current_process] = time_slice_remaining[current_process] - 1]
    BY <1>1 DEF Charged
  <2>3. QED BY <2>0, <2>1, <2>2 DEF TypeOK
<1>2. CASE ~(current_process \in Procs /\ time_slice_remaining[current_process] > 0)
  BY <1>2 DEF Charged, TypeOK
<1>3. QED BY <1>1, <1>2

\* A tick that preempts nobody keeps the invariant.
LEMMA TickReturnStep ==
  ASSUME IInv, TickReturn
  PROVE  IInv'
<1>0. /\ TypeOK /\ QueuesOK /\ SleepSorted /\ NoneOverdue /\ cpu # "wild"
      /\ in_tick /\ in_service /\ ~in_tick' /\ ~in_service'
      /\ \A q \in Slots : resume[q] # "irq"
      /\ UNCHANGED <<state, prioVars, time_slice_ticks, policyVars, queueVars, sleepVars, ticks,
                     current_process, cpu, resume>>
  BY TickBodyFacts DEF TickReturn, TickBody
<1>1. QueueType' /\ QueuesOK'
  BY <1>0, SameQueues
<1>2. SleepSorted' /\ NoneOverdue' /\ \A q \in Procs : Asleep(q)' => Asleep(q)
  BY <1>0, SameSleep
<1>3. TypeOK'
  BY <1>0, <1>1, ChargedFacts, Zenon DEF TypeOK, QueueType, TickReturn
<1>4. PlacedByState'
  BY <1>0, <1>2 DEF IInv, PlacedByState
<1>5. EoiOwed'
  BY <1>0, SlotFacts DEF EoiOwed
<1>6. CpuConsistent'
  BY <1>0 DEF IInv, CpuConsistent
<1>7. SliceAccounting'
  <2> SUFFICES ASSUME current_process \in Procs
               PROVE  SliceAccounting'
    BY <1>0 DEF SliceAccounting
  <2>1. /\ current_process \in Slots
        /\ time_slice_remaining[current_process] \in Nat
        /\ time_slice_ticks[current_process] \in Nat
        /\ time_slice_remaining \in [Slots -> Nat]
    BY <1>0, SlotFacts DEF TypeOK
  <2>2. time_slice_remaining[current_process] > 1
    BY <2>1 DEF TickReturn, TickPreempts
  <2>3. time_slice_remaining'[current_process] = time_slice_remaining[current_process] - 1
    BY <2>1, <2>2 DEF TickReturn, Charged
  <2>4. ~(cpu = "loop_return" /\ state[current_process] # "ZOMBIE")
    BY <2>1, <2>2 DEF IInv, SliceAccounting
  <2>5. cpu \in {"loop_armed", "thread"} =>
          time_slice_remaining'[current_process] \in 1 .. time_slice_ticks[current_process]
    BY <2>1, <2>2, <2>3, SMTT(30) DEF IInv, SliceAccounting
  <2>6. QED BY <1>0, <2>4, <2>5, SMTT(30) DEF SliceAccounting
<1>8. QED
  BY <1>0, <1>1, <1>2, <1>3, <1>4, <1>5, <1>6, <1>7 DEF IInv, RunQueueOK, SleepListOK

\* A tick that preempts the running thread keeps the invariant.
LEMMA TickPreemptStep ==
  ASSUME IInv, TickPreempt
  PROVE  IInv'
<1> DEFINE p == current_process
<1>0. /\ TypeOK /\ QueuesOK /\ SleepSorted /\ NoneOverdue /\ cpu = "thread" /\ cpu' = "loop_return"
      /\ in_tick /\ in_service /\ ~in_tick' /\ in_service' = in_service
      /\ \A q \in Slots : resume[q] # "irq"
      /\ resume' = [resume EXCEPT ![p] = "irq"]
      /\ UNCHANGED <<base_priority, time_slice_ticks, policyVars, sleepVars, ticks,
                     current_process>>
  BY TickBodyFacts DEF TickPreempt, TickBody, SwitchToLoop
<1>1. /\ p \in Slots /\ state[p] = "RUNNING"
      /\ \A q \in Slots : resume[q] = "live" <=> q = p
      /\ p \in Procs => ~on_run_queue[p]
      /\ state[Idle] \in {"READY", "RUNNING"}
  BY <1>0 DEF IInv, CpuConsistent, TypeOK
<1>2. /\ QueueType' /\ QueuesOK'
      /\ dynamic_priority' \in [Slots -> Levels]
      /\ state' \in [Slots -> States]
      /\ \A q \in Slots : q # p => state'[q] = state[q] /\ on_run_queue'[q] = on_run_queue[q]
      /\ p \in Procs => state'[p] = "READY" /\ on_run_queue'[p]
      /\ p = Idle => state'[p] = "RUNNING"
  <2>1. CASE p = Idle
    <3>1. UNCHANGED <<state, dynamic_priority, queueVars>>
      BY <2>1 DEF TickPreempt
    <3>2. QueueType' /\ QueuesOK'
      BY <1>0, <3>1, SameQueues
    <3>3. QED BY <1>0, <1>1, <2>1, <3>1, <3>2, SlotFacts DEF TypeOK
  <2>2. CASE p # Idle
    <3>1. /\ dynamic_priority' = [dynamic_priority EXCEPT ![p] = Demoted(dynamic_priority[p])]
          /\ state' = [state EXCEPT ![p] = "READY"]
          /\ Enqueue(p, Demoted(dynamic_priority[p]))
      BY <2>2 DEF TickPreempt
    <3>2. p \in Procs /\ ~on_run_queue[p] /\ Demoted(dynamic_priority[p]) \in Levels
      BY <1>0, <1>1, <2>2, SlotFacts, PriorityFacts DEF TypeOK
    <3>3. QueueType' /\ QueuesOK'
      BY <1>0, <2>2, <3>1, <3>2, EnqueueKeepsQueues, Zenon DEF Enqueue
    <3>4. /\ \A q \in Slots : q # p => on_run_queue'[q] = on_run_queue[q]
          /\ on_run_queue'[p]
      BY <1>0, <1>1, <2>2, <3>1, <3>2 DEF TypeOK, Enqueue
    <3>5. QED BY <1>0, <1>1, <2>2, <3>1, <3>2, <3>3, <3>4, Zenon DEF TypeOK, States
  <2>3. QED BY <2>1, <2>2
<1>3. SleepSorted' /\ NoneOverdue' /\ \A q \in Procs : Asleep(q)' => Asleep(q)
  BY <1>0, SameSleep
<1>4. TypeOK'
  BY <1>0, <1>1, <1>2, ChargedFacts, Zenon DEF TypeOK, QueueType, TickPreempt, CpuModes
<1>5. /\ \A q \in Slots : q # p => resume'[q] = resume[q]
      /\ resume'[p] = "irq"
  BY <1>0, <1>1 DEF TypeOK
<1>6. PlacedByState'
  <2> SUFFICES ASSUME NEW q \in Procs
               PROVE  /\ state'[q] = "READY" <=> on_run_queue'[q]
                      /\ state'[q] \notin {"RUNNING", "ZOMBIE"}
                      /\ Asleep(q)' => state'[q] = "WAITING"
    BY <1>0 DEF PlacedByState
  <2>1. CASE q = p
    <3>1. ~Asleep(q)
      BY <1>0, <1>1, <2>1 DEF IInv, PlacedByState
    <3>2. QED BY <1>2, <1>3, <2>1, <3>1
  <2>2. CASE q # p
    <3>1. /\ state[q] = "READY" <=> on_run_queue[q]
          /\ state[q] \notin {"RUNNING", "ZOMBIE"}
          /\ Asleep(q) => state[q] = "WAITING"
      BY <1>0, <2>2 DEF IInv, PlacedByState
    <3>2. state'[q] = state[q] /\ on_run_queue'[q] = on_run_queue[q]
      BY <1>2, <2>2, SlotFacts, Zenon
    <3>3. QED BY <1>3, <3>1, <3>2
  <2>3. QED BY <2>1, <2>2
<1>7. EoiOwed'
  <2>1. \A q \in Slots : resume'[q] = "irq" <=> q = p
    BY <1>0, <1>1, <1>5, Zenon
  <2>2. in_service' /\ ~in_tick'
    BY <1>0, Zenon
  <2>3. \A q \in Procs : resume'[q] = "irq" => state'[q] \in {"READY", "RUNNING"}
    BY <1>2, <2>1, SlotFacts
  <2>4. QED BY <1>1, <2>1, <2>2, <2>3, Zenon DEF EoiOwed
<1>8. CpuConsistent' /\ SliceAccounting'
  <2>1. p # NULL /\ p = current_process'
    BY <1>0, <1>1, SlotFacts
  <2>2. state'[Idle] \in {"READY", "RUNNING"}
    BY <1>1, <1>2, SlotFacts
  <2>3. \A q \in Slots : resume'[q] # "live"
    BY <1>1, <1>5
  <2>4. CpuConsistent'
    BY <1>0, <1>2, <2>1, <2>2, <2>3 DEF CpuConsistent
  <2>5. ASSUME p \in Procs
        PROVE  time_slice_remaining'[p] = 0 /\ time_slice_ticks'[p] > 0
    <3>1. /\ time_slice_remaining[p] \in 1 .. time_slice_ticks[p]
          /\ time_slice_ticks[p] \in Nat /\ p \in Slots
          /\ time_slice_remaining \in [Slots -> Nat]
      BY <1>0, <2>5, SlotFacts, SMTT(30) DEF IInv, SliceAccounting, TypeOK
    <3>2. time_slice_remaining[p] = 1 /\ time_slice_ticks[p] > 0
      <4>1. p # Idle
        BY <2>5, SlotFacts
      <4>2. time_slice_remaining[p] <= 1
        BY <4>1, Zenon DEF TickPreempt, TickPreempts
      <4>3. QED BY <3>1, <4>2
    <3>3. time_slice_remaining' = [time_slice_remaining EXCEPT ![p] = time_slice_remaining[p] - 1]
      BY <2>5, <3>2, SMTT(30) DEF TickPreempt, Charged
    <3>4. QED BY <3>1, <3>2, <3>3 DEF TickPreempt
  <2>6. SliceAccounting'
    BY <1>0, <2>1, <2>5, SMTT(30) DEF SliceAccounting
  <2>7. QED BY <2>4, <2>6
<1>9. QED
  BY <1>0, <1>2, <1>3, <1>4, <1>6, <1>7, <1>8 DEF IInv, RunQueueOK, SleepListOK

\* Once the machine is wild nothing more is claimed than the types.
LEMMA WildStep ==
  ASSUME IInv, TickOnSchedulerStack
  PROVE  IInv'
<1>1. /\ cpu' = "wild" /\ ~in_tick'
      /\ UNCHANGED <<state, prioVars, sliceVars, policyVars, queueVars, sleepVars, ticks,
                     in_service, current_process, resume>>
  BY DEF TickOnSchedulerStack
<1>2. TypeOK'
  BY <1>1, Zenon DEF IInv, TypeOK, CpuModes, TickOnSchedulerStack
<1>3. QED
  BY <1>1, <1>2 DEF IInv, RunQueueOK, PlacedByState, SleepListOK, EoiOwed, CpuConsistent,
                    SliceAccounting

\* The first pass of process_schedule keeps the invariant.
LEMMA StartStep ==
  ASSUME IInv, StartScheduler
  PROVE  IInv'
<1>0. /\ TypeOK /\ QueuesOK /\ SleepSorted /\ cpu = "boot" /\ cpu' = "loop_wake"
      /\ UNCHANGED <<state, prioVars, sliceVars, policyVars, queueVars, sleepVars,
                     irqVars, current_process, resume>>
  BY DEF StartScheduler, IInv, RunQueueOK, SleepListOK
<1>1. QueueType' /\ QueuesOK'
  BY <1>0, SameQueues
<1>2. SleepSorted' /\ (NoneOverdue => NoneOverdue') /\ \A q \in Procs : Asleep(q)' => Asleep(q)
  BY <1>0, SameSleep
<1>3. TypeOK'
  BY <1>0, <1>1, Zenon DEF TypeOK, QueueType, CpuModes
<1>4. PlacedByState'
  BY <1>0, <1>2 DEF IInv, PlacedByState
<1>5. EoiOwed'
  BY <1>0 DEF IInv, EoiOwed
<1>6. CpuConsistent' /\ SliceAccounting'
  BY <1>0, SlotFacts DEF IInv, CpuConsistent, SliceAccounting
<1>7. QED
  BY <1>0, <1>1, <1>2, <1>3, <1>4, <1>5, <1>6 DEF IInv, RunQueueOK, SleepListOK

\* Nothing happens.
LEMMA StutterStep ==
  ASSUME IInv, UNCHANGED vars
  PROVE  IInv'
<1>1. TypeOK'
  BY Zenon DEF IInv, vars, TypeOK
<1>2. QueuesOK' <=> QueuesOK
  BY SMTT(30) DEF vars, QueuesOK, QueuedAtOwnLevel, QueuedOnce, FlagMeansQueued, BitmapExact
<1>3. (SleepSorted' <=> SleepSorted) /\ (NoneOverdue' <=> NoneOverdue)
  BY DEF vars, SleepSorted, NoneOverdue
<1>4. PlacedByState'
  BY SMTT(30) DEF IInv, vars, PlacedByState, Asleep
<1>5. EoiOwed' /\ CpuConsistent' /\ SliceAccounting'
  BY SMTT(30) DEF IInv, vars, EoiOwed, CpuConsistent, SliceAccounting
<1>6. QED
  BY <1>1, <1>2, <1>3, <1>4, <1>5 DEF IInv, vars, RunQueueOK, SleepListOK

\* The state after process_system_init satisfies the invariant.
LEMMA InitStep ==
  ASSUME Init
  PROVE  IInv
<1>1. TypeOK
  <2>1. TimesliceFor(PRIORITY_MAX) \in Nat /\ PRIORITY_MAX \in Levels /\ 0 \in Levels
    BY SliceFacts, PriorityFacts, ConstantsAssumption DEF Levels
  <2>2. /\ state \in [Slots -> States]
        /\ base_priority \in [Slots -> Levels] /\ dynamic_priority \in [Slots -> Levels]
        /\ wake_deadline \in [Slots -> Nat] /\ time_slice_ticks \in [Slots -> Nat]
        /\ time_slice_remaining \in [Slots -> Nat]
    BY <2>1 DEF Init, States
  <2>3. /\ sched_policy \in [Slots -> {"FAIR", "DEADLINE"}] /\ sched_deadline \in [Slots -> Nat]
        /\ sched_weight \in [Slots -> Nat \ {0}] /\ vruntime \in [Slots -> Nat]
        /\ resume \in [Slots -> {"start", "call", "irq", "live"}]
    BY ConstantsAssumption, SMTT(30) DEF Init
  <2>4. /\ ready_queues \in [Levels -> Seq(Procs)] /\ ready_bitmap \in SUBSET Levels
        /\ on_run_queue \in [Slots -> BOOLEAN] /\ sleep_list \in Seq(Procs)
    BY SMTT(30) DEF Init
  <2>5. /\ current_process \in Slots \cup {NULL} /\ ticks \in Nat /\ cpu \in CpuModes
        /\ in_tick \in BOOLEAN /\ in_service \in BOOLEAN
    BY Zenon DEF Init, CpuModes
  <2>6. QED BY <2>2, <2>3, <2>4, <2>5 DEF TypeOK
<1>2. QueuesOK /\ SleepSorted /\ NoneOverdue
  BY DEF Init, QueuesOK, QueuedAtOwnLevel, QueuedOnce, FlagMeansQueued, BitmapExact,
         SleepSorted, NoneOverdue
<1>3. PlacedByState
  BY SlotFacts, SMTT(30) DEF Init, PlacedByState, Asleep
<1>4. EoiOwed /\ CpuConsistent /\ SliceAccounting
  BY SlotFacts, SMTT(30) DEF Init, EoiOwed, CpuConsistent, SliceAccounting, NULL, Idle
<1>5. QED BY <1>1, <1>2, <1>3, <1>4 DEF IInv, RunQueueOK, SleepListOK, Init

-----------------------------------------------------------------------------
(* Theorems *)

\* Every step keeps the invariant.
LEMMA NextStep ==
  ASSUME IInv, [Next]_vars
  PROVE  IInv'
<1>1. CASE StartScheduler
  BY <1>1, StartStep
<1>2. CASE ProcessCreate \/ ProcessCreateKernel
  BY <1>2, CreateStep, PriorityFacts DEF ProcessCreate, ProcessCreateKernel
<1>3. CASE ProcessYield
  BY <1>3, YieldStep
<1>4. CASE ProcessBlockCurrent
  BY <1>4, BlockStep
<1>5. CASE ProcessExit
  BY <1>5, ExitStep
<1>6. CASE \E t \in SleepArgs : ProcessSleep(t)
  BY <1>6, SleepStep
<1>7. CASE \E q \in Procs : ProcessWake(q) \/ ReclaimWake(q)
  <2>1. PICK q \in Procs : ProcessWake(q) \/ ReclaimWake(q)
    BY <1>7
  <2>2. cpu # "wild" /\ MakeRunnable(q)
    BY <2>1 DEF ProcessWake, ReclaimWake, OnCpu
  <2>3. QED BY <2>2, MakeRunnableStep
<1>8. CASE \E q \in Procs, w \in Weights, d \in DeadlineArgs, policy \in {"FAIR", "DEADLINE"} :
             ProcessSetScheduler(q, policy, w, d)
  BY <1>8, SetSchedulerStep
<1>9. CASE WakeSleeper
  BY <1>9, WakeSleeperStep
<1>10. CASE SelectReady
  BY <1>10, SelectReadyStep
<1>11. CASE SelectIdle
  BY <1>11, SelectIdleStep
<1>12. CASE ArmTimeslice
  BY <1>12, ArmStep
<1>13. CASE SwitchIn
  BY <1>13, SwitchInStep
<1>14. CASE AccountAndReclaim
  BY <1>14, AccountStep
<1>15. CASE LoopTail
  BY <1>15, LoopTailStep
<1>16. CASE PitIrq
  BY <1>16, PitIrqStep
<1>17. CASE TickReturn
  BY <1>17, TickReturnStep
<1>18. CASE TickPreempt
  BY <1>18, TickPreemptStep
<1>19. CASE TickOnSchedulerStack
  BY <1>19, WildStep
<1>20. CASE BoundReached \/ UNCHANGED vars
  BY <1>20, StutterStep DEF BoundReached
<1>21. QED
  BY <1>1, <1>2, <1>3, <1>4, <1>5, <1>6, <1>7, <1>8, <1>9, <1>10, <1>11, <1>12, <1>13, <1>14,
     <1>15, <1>16, <1>17, <1>18, <1>19, <1>20 DEF Next

\* The inductive invariant holds in every reachable state, whatever the number of
\* slots, levels and ticks.
THEOREM Invariance == Spec => []IInv
<1>1. Init => IInv
  BY InitStep
<1>2. IInv /\ [Next]_vars => IInv'
  BY NextStep
<1>3. QED BY <1>1, <1>2, PTL DEF Spec

\* Every field keeps the type of the C field it stands for.
THEOREM TypeCorrect == Spec => []TypeOK
<1>1. IInv => TypeOK
  BY DEF IInv
<1>2. QED BY <1>1, Invariance, PTL

\* The run queues, the flags and the bitmap agree after every step of process.c.
THEOREM RunQueuesCorrect == Spec => []RunQueueOK
<1>1. IInv => RunQueueOK
  BY DEF IInv
<1>2. QED BY <1>1, Invariance, PTL

\* No process is ever in a state that its place in the scheduler does not match.
THEOREM PlacementCorrect == Spec => []PlacedByState
<1>1. IInv => PlacedByState
  BY DEF IInv
<1>2. QED BY <1>1, Invariance, PTL

\* The sleep list stays sorted and nobody sleeps past the tick that is due.
THEOREM SleepListCorrect == Spec => []SleepListOK
<1>1. IInv => SleepListOK
  BY DEF IInv
<1>2. QED BY <1>1, Invariance, PTL

\* The end of interrupt is owed by exactly one context, which will run again.
THEOREM EoiCorrect == Spec => []EoiOwed
<1>1. IInv => EoiOwed
  BY DEF IInv
<1>2. QED BY <1>1, Invariance, PTL

\* The idle thread never halts the CPU with the timer held back.
THEOREM IdleWakeable == Spec => []IdleCanBeWoken
<1>1. IInv => IdleCanBeWoken
  <2> SUFFICES ASSUME IInv, cpu = "thread", current_process = Idle, ~in_tick
               PROVE  ~in_service /\ resume[Idle] = "live"
    BY DEF IdleCanBeWoken
  <2>1. resume[Idle] = "live" /\ \A q \in Procs : resume[q] # "irq"
    BY SlotFacts DEF IInv, CpuConsistent
  <2>2. \A q \in Slots : resume[q] # "irq"
    BY <2>1, SlotFacts
  <2>3. ~in_service
    BY <2>2 DEF IInv, EoiOwed
  <2>4. QED BY <2>1, <2>3
<1>2. QED BY <1>1, Invariance, PTL

\* current_process, its state and its saved context are those of the step of
\* process_schedule or of the thread that the CPU is about to take.
THEOREM CpuCorrect == Spec => []CpuConsistent
<1>1. IInv => CpuConsistent
  BY DEF IInv
<1>2. QED BY <1>1, Invariance, PTL

\* A thread on the CPU always has some of its slice left to be charged.
THEOREM SliceCorrect == Spec => []SliceAccounting
<1>1. IInv => SliceAccounting
  BY DEF IInv
<1>2. QED BY <1>1, Invariance, PTL

=============================================================================
