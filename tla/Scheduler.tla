----------------------------- MODULE Scheduler -----------------------------
(***************************************************************************)
(* The process scheduler of kernel/process.c together with the timer       *)
(* interrupt that drives it (kernel/pit.c, irq_handler in kernel/idt.c).   *)
(*                                                                         *)
(* One CPU.  What it executes is the value of `cpu`:                       *)
(*   boot            kmain before process_schedule, interrupts disabled    *)
(*   loop_wake       process_schedule, current_process = NULL              *)
(*   loop_selected   ... current_process = next, slice not yet armed       *)
(*   loop_armed      ... slice armed, about to call context_switch         *)
(*   thread          current_process executes                              *)
(*   loop_return     context_switch came back to the loop                  *)
(*   loop_tail       runtime accounted, zombie reclaimed                   *)
(*   wild            a context switch loaded a dead scheduler_ctx          *)
(* The timer handler runs nested in any of these while `in_tick` holds.    *)
(*                                                                         *)
(* Threads here enter the kernel through the int 0x80 gate.  It is an      *)
(* interrupt gate, so a call runs without a tick up to its context_switch  *)
(* and is one action.  Callers that leave interrupts enabled are the       *)
(* subject of KernelThread.  The loop itself runs with interrupts enabled. *)
(***************************************************************************)
EXTENDS Integers, Sequences, ListOps

CONSTANTS
  MAX_PROCS,              \* size of processes[]; slot 0 is the idle thread
  LEVELS,                 \* CONFIG_SCHED_PRIORITY_LEVELS
  TIMESLICE,              \* CONFIG_SCHED_DEFAULT_TIMESLICE
  MAX_BOOST,              \* CONFIG_SCHED_MAX_DYNAMIC_BOOST
  BASE_WEIGHT,            \* CONFIG_SCHED_BASE_WEIGHT, also the default weight
  Weights,                \* weight arguments of process_set_scheduler
  DeadlineArgs,           \* deadline_ticks arguments of process_set_scheduler
  SleepArgs,              \* arguments of process_sleep
  MaxTicks,               \* bound on the tick counter
  MaxVruntime             \* a thread with this vruntime makes no more calls

ASSUME ConstantsAssumption ==
  /\ MAX_PROCS \in Nat \ {0}
  /\ LEVELS \in Nat \ {0}
  /\ TIMESLICE \in Nat \ {0}
  /\ MAX_BOOST \in Nat
  /\ BASE_WEIGHT \in Nat \ {0}
  /\ Weights \subseteq Nat
  /\ DeadlineArgs \subseteq Nat
  /\ SleepArgs \subseteq Nat
  /\ MaxTicks \in Nat
  /\ MaxVruntime \in Nat

Slots == 0 .. MAX_PROCS - 1
Idle == 0
Procs == Slots \ {Idle}
NULL == -1
Levels == 0 .. LEVELS - 1
PRIORITY_MAX == LEVELS - 1

States == {"UNUSED", "READY", "RUNNING", "WAITING", "ZOMBIE"}
CpuModes == {"boot", "loop_wake", "loop_selected", "loop_armed", "thread",
             "loop_return", "loop_tail", "wild"}

VARIABLES
  state, base_priority, dynamic_priority, on_run_queue, wake_deadline,
  time_slice_ticks, time_slice_remaining,
  sched_policy, sched_weight, sched_deadline, vruntime,
  ready_queues, ready_bitmap, sleep_list, current_process,
  ticks, cpu, in_tick,
  in_service,             \* IRQ0 in service at the PIC: no EOI sent yet
  resume                  \* where a suspended context continues

prioVars == <<base_priority, dynamic_priority>>
sliceVars == <<time_slice_ticks, time_slice_remaining>>
policyVars == <<sched_policy, sched_weight, sched_deadline, vruntime>>
queueVars == <<ready_queues, ready_bitmap, on_run_queue>>
sleepVars == <<sleep_list, wake_deadline>>
irqVars == <<ticks, in_tick, in_service>>
vars == <<state, prioVars, sliceVars, policyVars, queueVars, sleepVars,
          irqVars, current_process, cpu, resume>>

-----------------------------------------------------------------------------
(* Helpers of process.c *)

\* `base << offset`, the offset being the priority capped at 4.
Pow2 == [n \in 0 .. 4 |-> IF n = 0 THEN 1 ELSE IF n = 1 THEN 2 ELSE
                          IF n = 2 THEN 4 ELSE IF n = 3 THEN 8 ELSE 16]
TimesliceFor(prio) == TIMESLICE * Pow2[IF prio > 4 THEN 4 ELSE prio]

Demoted(prio) == IF prio < PRIORITY_MAX THEN prio + 1 ELSE prio

BoostedPastFirst(base) == base - MAX_BOOST      \* mutant: no highest level
Boosted(base) == IF MAX_BOOST > base THEN 0 ELSE base - MAX_BOOST

DefaultUserPriority == IF 1 > PRIORITY_MAX THEN PRIORITY_MAX ELSE 1
DefaultKernelPriority == 0

EnqueueTwice(p, prio) ==                \* mutant: on_run_queue is not looked at
  /\ ready_queues' = [ready_queues EXCEPT ![prio] = Append(@, p)]
  /\ ready_bitmap' = ready_bitmap \cup {prio}
  /\ on_run_queue' = [on_run_queue EXCEPT ![p] = TRUE]

Enqueue(p, prio) ==
  IF p = Idle \/ on_run_queue[p]
  THEN UNCHANGED queueVars
  ELSE /\ ready_queues' = [ready_queues EXCEPT ![prio] = Append(@, p)]
       /\ ready_bitmap' = ready_bitmap \cup {prio}
       /\ on_run_queue' = [on_run_queue EXCEPT ![p] = TRUE]

RemoveKeepsBit(prio, i) ==              \* mutant: an emptied queue keeps its bit
  /\ ready_queues' = [ready_queues EXCEPT ![prio] = RemoveAt(@, i)]
  /\ on_run_queue' = [on_run_queue EXCEPT ![ready_queues[prio][i]] = FALSE]
  /\ UNCHANGED ready_bitmap

\* Unlink the process at position i of queue prio.
RemoveFromReady(prio, i) ==
  /\ ready_queues' = [ready_queues EXCEPT ![prio] = RemoveAt(@, i)]
  /\ ready_bitmap' = IF Len(ready_queues[prio]) = 1 THEN ready_bitmap \ {prio}
                                                    ELSE ready_bitmap
  /\ on_run_queue' = [on_run_queue EXCEPT ![ready_queues[prio][i]] = FALSE]

\* The queues are scanned level by level, each from its head.
Before(l, i, m, j) == l < m \/ (l = m /\ i < j)

\* Position (l,i) is the first one, in scanning order, that minimises Key among
\* the positions satisfying Eligible.
FirstMin(l, i, Eligible(_), Key(_)) ==
  /\ Eligible(ready_queues[l][i])
  /\ \A m \in Levels : \A j \in 1 .. Len(ready_queues[m]) :
        LET p == ready_queues[l][i]
            q == ready_queues[m][j]
        IN  Eligible(q) => \/ Key(p) < Key(q)
                           \/ Key(p) = Key(q) /\ ~Before(m, j, l, i)

HasDeadline(p) == sched_policy[p] = "DEADLINE" /\ sched_deadline[p] # 0
IsFair(p) == sched_policy[p] = "FAIR"
Anyone(p) == TRUE
SomeQueued(Eligible(_)) ==
  \E l \in Levels : \E i \in 1 .. Len(ready_queues[l]) : Eligible(ready_queues[l][i])

PickDeadline(l, i) == LET Key(p) == sched_deadline[p] IN FirstMin(l, i, HasDeadline, Key)
PickFair(l, i) == LET Key(p) == vruntime[p] IN FirstMin(l, i, IsFair, Key)
DequeueNext(l, i) == LET Key(p) == 0 IN FirstMin(l, i, Anyone, Key)

SelectFairFirst(l, i) ==                \* mutant: the policies in the wrong order
  IF SomeQueued(IsFair) THEN PickFair(l, i)
  ELSE IF SomeQueued(HasDeadline) THEN PickDeadline(l, i)
  ELSE DequeueNext(l, i)

SelectNext(l, i) ==
  IF SomeQueued(HasDeadline) THEN PickDeadline(l, i)
  ELSE IF SomeQueued(IsFair) THEN PickFair(l, i)
  ELSE DequeueNext(l, i)

\* vruntime after the slice just used is charged.
AccountRuntime(p) ==
  LET used == IF time_slice_remaining[p] <= time_slice_ticks[p]
              THEN time_slice_ticks[p] - time_slice_remaining[p]
              ELSE time_slice_ticks[p]
      weight == IF sched_weight[p] = 0 THEN BASE_WEIGHT ELSE sched_weight[p]
      scaled == (used * BASE_WEIGHT) \div weight
  IN  IF p = Idle \/ ~IsFair(p) \/ used = 0 THEN vruntime[p]
      ELSE vruntime[p] + (IF scaled = 0 THEN 1 ELSE scaled)

Asleep(p) == \E i \in 1 .. Len(sleep_list) : sleep_list[i] = p

\* sleep_list once scheduler_remove_from_sleep has unlinked p, if it was there.
WithoutSleeper(p) ==
  IF Asleep(p)
  THEN RemoveAt(sleep_list, CHOOSE i \in 1 .. Len(sleep_list) : sleep_list[i] = p)
  ELSE sleep_list

InsertAtHead(p, deadline) ==            \* mutant: the list is not kept sorted
  sleep_list' = <<p>> \o WithoutSleeper(p)

\* p goes in front of the first sleeper with a later deadline.
InsertSleep(p, deadline) ==
  LET list == WithoutSleeper(p) IN
  \E k \in 1 .. Len(list) + 1 :
     /\ \A j \in 1 .. k - 1 : wake_deadline[list[j]] <= deadline
     /\ k <= Len(list) => deadline < wake_deadline[list[k]]
     /\ sleep_list' = InsertAt(list, k, p)

-----------------------------------------------------------------------------
(* Boot *)

Init ==
  /\ state = [p \in Slots |-> IF p = Idle THEN "READY" ELSE "UNUSED"]
  /\ base_priority = [p \in Slots |-> IF p = Idle THEN PRIORITY_MAX ELSE 0]
  /\ dynamic_priority = [p \in Slots |-> IF p = Idle THEN PRIORITY_MAX ELSE 0]
  /\ on_run_queue = [p \in Slots |-> FALSE]
  /\ wake_deadline = [p \in Slots |-> 0]
  /\ time_slice_ticks = [p \in Slots |-> IF p = Idle THEN TimesliceFor(PRIORITY_MAX) ELSE 0]
  /\ time_slice_remaining = time_slice_ticks
  /\ sched_policy = [p \in Slots |-> "FAIR"]
  /\ sched_weight = [p \in Slots |-> BASE_WEIGHT]
  /\ sched_deadline = [p \in Slots |-> 0]
  /\ vruntime = [p \in Slots |-> 0]
  /\ ready_queues = [l \in Levels |-> <<>>]
  /\ ready_bitmap = {}
  /\ sleep_list = <<>>
  /\ current_process = NULL
  /\ ticks = 0
  /\ cpu = "boot"
  /\ in_tick = FALSE
  /\ in_service = FALSE
  /\ resume = [p \in Slots |-> "start"]

\* process_schedule: scheduler_active = 1 and the first pass of the loop.
StartScheduler ==
  /\ cpu = "boot"
  /\ cpu' = "loop_wake"
  /\ UNCHANGED <<state, prioVars, sliceVars, policyVars, queueVars, sleepVars,
                 irqVars, current_process, resume>>

\* A thread other than idle is executing, with room under the bound.
OnCpu ==
  /\ cpu = "thread"
  /\ ~in_tick
  /\ current_process # Idle
  /\ vruntime[current_process] < MaxVruntime

FreeSlot(p) == state[p] \in {"UNUSED", "ZOMBIE"}

\* process_create and process_create_kernel, called by kmain or by a thread.
\* With no free slot they return -1 and change nothing.
Create(prio) ==
  /\ cpu = "boot" \/ OnCpu
  /\ \E p \in Slots :
        /\ FreeSlot(p)
        /\ \A q \in 0 .. p - 1 : ~FreeSlot(q)
        /\ state' = [state EXCEPT ![p] = "READY"]
        /\ base_priority' = [base_priority EXCEPT ![p] = prio]
        /\ dynamic_priority' = [dynamic_priority EXCEPT ![p] = prio]
        /\ wake_deadline' = [wake_deadline EXCEPT ![p] = 0]
        /\ time_slice_ticks' = [time_slice_ticks EXCEPT ![p] = TimesliceFor(prio)]
        /\ time_slice_remaining' = [time_slice_remaining EXCEPT ![p] = TimesliceFor(prio)]
        /\ sched_policy' = [sched_policy EXCEPT ![p] = "FAIR"]
        /\ sched_weight' = [sched_weight EXCEPT ![p] = BASE_WEIGHT]
        /\ sched_deadline' = [sched_deadline EXCEPT ![p] = 0]
        /\ vruntime' = [vruntime EXCEPT ![p] = 0]
        /\ ready_queues' = [ready_queues EXCEPT ![prio] = Append(@, p)]
        /\ ready_bitmap' = ready_bitmap \cup {prio}
        /\ on_run_queue' = [on_run_queue EXCEPT ![p] = TRUE]
        /\ resume' = [resume EXCEPT ![p] = "start"]
  /\ UNCHANGED <<sleep_list, irqVars, current_process, cpu>>

ProcessCreate == Create(DefaultUserPriority)
ProcessCreateKernel == Create(DefaultKernelPriority)

-----------------------------------------------------------------------------
(* Calls made by the running thread through the syscall gate *)

\* The calling context is saved and the loop resumes after its context_switch.
SwitchToLoop(p, how) ==
  /\ resume' = [resume EXCEPT ![p] = how]
  /\ cpu' = "loop_return"

ProcessYield ==
  /\ OnCpu
  /\ LET p == current_process IN
       /\ dynamic_priority' = [dynamic_priority EXCEPT ![p] = base_priority[p]]
       /\ state' = [state EXCEPT ![p] = "READY"]
       /\ time_slice_remaining' = [time_slice_remaining EXCEPT ![p] = 0]
       /\ Enqueue(p, base_priority[p])
       /\ SwitchToLoop(p, "call")
  /\ UNCHANGED <<base_priority, time_slice_ticks, policyVars, sleepVars, irqVars,
                 current_process>>

ProcessSleep(t) ==
  /\ OnCpu
  /\ LET p == current_process
         deadline == ticks + (IF t = 0 THEN 1 ELSE t)
     IN  /\ wake_deadline' = [wake_deadline EXCEPT ![p] = deadline]
         /\ state' = [state EXCEPT ![p] = "WAITING"]
         /\ time_slice_remaining' = [time_slice_remaining EXCEPT ![p] = 0]
         /\ InsertSleep(p, deadline)
         /\ SwitchToLoop(p, "call")
  /\ UNCHANGED <<prioVars, time_slice_ticks, policyVars, queueVars, irqVars,
                 current_process>>

BlockKeepsSlice ==                      \* mutant: time_slice_remaining is not cleared
  /\ OnCpu
  /\ state' = [state EXCEPT ![current_process] = "WAITING"]
  /\ SwitchToLoop(current_process, "call")
  /\ UNCHANGED <<prioVars, sliceVars, policyVars, queueVars, sleepVars, irqVars,
                 current_process>>

\* Called by the IPC and synchronisation layers once the caller is on a waiter list.
ProcessBlockCurrent ==
  /\ OnCpu
  /\ LET p == current_process IN
       /\ state' = [state EXCEPT ![p] = "WAITING"]
       /\ time_slice_remaining' = [time_slice_remaining EXCEPT ![p] = 0]
       /\ SwitchToLoop(p, "call")
  /\ UNCHANGED <<prioVars, time_slice_ticks, policyVars, queueVars, sleepVars, irqVars,
                 current_process>>

RunnableStillAsleep(q) ==               \* mutant: no scheduler_remove_from_sleep
  /\ state[q] = "WAITING"
  /\ dynamic_priority' = [dynamic_priority EXCEPT ![q] = Boosted(base_priority[q])]
  /\ state' = [state EXCEPT ![q] = "READY"]
  /\ Enqueue(q, Boosted(base_priority[q]))
  /\ UNCHANGED <<base_priority, sleepVars, sliceVars, policyVars, irqVars,
                 current_process, cpu, resume>>

RunnableInAnyState(q) ==                \* mutant: no check for PROC_WAITING
  /\ state[q] # "UNUSED"
  /\ sleep_list' = WithoutSleeper(q)
  /\ dynamic_priority' = [dynamic_priority EXCEPT ![q] = Boosted(base_priority[q])]
  /\ state' = [state EXCEPT ![q] = "READY"]
  /\ Enqueue(q, Boosted(base_priority[q]))
  /\ UNCHANGED <<base_priority, wake_deadline, sliceVars, policyVars, irqVars,
                 current_process, cpu, resume>>

\* process_wake(q), whoever calls it.
MakeRunnable(q) ==
  /\ state[q] = "WAITING"
  /\ sleep_list' = WithoutSleeper(q)
  /\ dynamic_priority' = [dynamic_priority EXCEPT ![q] = Boosted(base_priority[q])]
  /\ state' = [state EXCEPT ![q] = "READY"]
  /\ Enqueue(q, Boosted(base_priority[q]))
  /\ UNCHANGED <<base_priority, wake_deadline, sliceVars, policyVars, irqVars,
                 current_process, cpu, resume>>

\* A send, post, unlock or event by the running thread wakes a waiter.
ProcessWake(q) == OnCpu /\ MakeRunnable(q)

\* ipc_process_cleanup and service_handle_exit touch no scheduler state; the
\* waiters woken by the exit event are ProcessWake steps taken just before.
ProcessExit ==
  /\ OnCpu
  /\ LET p == current_process IN
       /\ sleep_list' = WithoutSleeper(p)
       /\ on_run_queue' = [on_run_queue EXCEPT ![p] = FALSE]
       /\ state' = [state EXCEPT ![p] = "ZOMBIE"]
       /\ SwitchToLoop(p, "call")
  /\ UNCHANGED <<prioVars, sliceVars, policyVars, ready_queues, ready_bitmap,
                 wake_deadline, irqVars, current_process>>

\* sched_deadline stored by process_set_scheduler.
EffectiveDeadline(d) == IF d # 0 /\ d < ticks THEN ticks + d ELSE d

ProcessSetScheduler(q, policy, w, d) ==
  /\ OnCpu
  /\ state[q] # "UNUSED"
  /\ sched_policy' = [sched_policy EXCEPT ![q] = policy]
  /\ sched_weight' = [sched_weight EXCEPT ![q] = IF w = 0 THEN BASE_WEIGHT ELSE w]
  /\ sched_deadline' = [sched_deadline EXCEPT
                          ![q] = IF policy = "FAIR" THEN 0 ELSE EffectiveDeadline(d)]
  /\ UNCHANGED <<state, prioVars, sliceVars, vruntime, queueVars, sleepVars, irqVars,
                 current_process, cpu, resume>>

-----------------------------------------------------------------------------
(* The loop of process_schedule *)

SleeperDue == sleep_list # <<>> /\ wake_deadline[Head(sleep_list)] <= ticks

\* One iteration of wake_sleepers, in the timer handler or at the top of the loop.
WakeSleeper ==
  /\ in_tick \/ cpu = "loop_wake"
  /\ SleeperDue
  /\ LET p == Head(sleep_list) IN
       /\ sleep_list' = Tail(sleep_list)
       /\ wake_deadline' = [wake_deadline EXCEPT ![p] = 0]
       /\ dynamic_priority' = [dynamic_priority EXCEPT ![p] = Boosted(base_priority[p])]
       /\ state' = [state EXCEPT ![p] = "READY"]
       /\ Enqueue(p, Boosted(base_priority[p]))
  /\ UNCHANGED <<base_priority, sliceVars, policyVars, irqVars, current_process, cpu, resume>>

Dispatch(p) == current_process' = p /\ cpu' = "loop_selected"

SelectReady ==
  /\ cpu = "loop_wake" /\ ~in_tick /\ ~SleeperDue
  /\ \E l \in Levels : \E i \in 1 .. Len(ready_queues[l]) :
        /\ SelectNext(l, i)
        /\ RemoveFromReady(l, i)
        /\ Dispatch(ready_queues[l][i])
  /\ UNCHANGED <<state, prioVars, sliceVars, policyVars, sleepVars, irqVars, resume>>

SelectIdleAnyway ==                     \* mutant: idle although someone is queued
  /\ cpu = "loop_wake" /\ ~in_tick /\ ~SleeperDue
  /\ Dispatch(Idle)
  /\ UNCHANGED <<state, prioVars, sliceVars, policyVars, queueVars, sleepVars, irqVars, resume>>

SelectIdle ==
  /\ cpu = "loop_wake" /\ ~in_tick /\ ~SleeperDue
  /\ ~SomeQueued(Anyone)
  /\ Dispatch(Idle)
  /\ UNCHANGED <<state, prioVars, sliceVars, policyVars, queueVars, sleepVars, irqVars, resume>>

ArmTimeslice ==
  /\ cpu = "loop_selected" /\ ~in_tick
  /\ LET p == current_process
         slice == TimesliceFor(dynamic_priority[p])
     IN  /\ state' = [state EXCEPT ![p] = "RUNNING"]
         /\ time_slice_ticks' = [time_slice_ticks EXCEPT ![p] = slice]
         /\ time_slice_remaining' = [time_slice_remaining EXCEPT ![p] = slice]
  /\ cpu' = "loop_armed"
  /\ UNCHANGED <<prioVars, policyVars, queueVars, sleepVars, irqVars, current_process, resume>>

SwitchInWithoutEoi ==                   \* mutant: no EOI after the handler's switch
  /\ cpu = "loop_armed" /\ ~in_tick
  /\ cpu' = "thread"
  /\ state' = [state EXCEPT ![current_process] = "RUNNING"]
  /\ resume' = [resume EXCEPT ![current_process] = "live"]
  /\ UNCHANGED <<prioVars, sliceVars, policyVars, queueVars, sleepVars, irqVars,
                 current_process>>

\* context_switch into the thread.  One that was preempted continues inside the
\* timer handler, which sends the EOI before returning to the thread's own code.
SwitchIn ==
  /\ cpu = "loop_armed" /\ ~in_tick
  /\ cpu' = "thread"
  /\ in_service' = (in_service /\ resume[current_process] # "irq")
  /\ state' = [state EXCEPT ![current_process] = "RUNNING"]
  /\ resume' = [resume EXCEPT ![current_process] = "live"]
  /\ UNCHANGED <<prioVars, sliceVars, policyVars, queueVars, sleepVars, ticks, in_tick,
                 current_process>>

\* Charge the slice; a zombie is reclaimed: its slot becomes UNUSED.
AccountAndReclaim ==
  /\ cpu = "loop_return" /\ ~in_tick
  /\ LET p == current_process IN
       IF state[p] = "ZOMBIE"
       THEN /\ sleep_list' = WithoutSleeper(p)
            /\ on_run_queue' = [on_run_queue EXCEPT ![p] = FALSE]
            /\ state' = [state EXCEPT ![p] = "UNUSED"]
            /\ time_slice_ticks' = [time_slice_ticks EXCEPT ![p] = 0]
            /\ time_slice_remaining' = [time_slice_remaining EXCEPT ![p] = 0]
            /\ wake_deadline' = [wake_deadline EXCEPT ![p] = 0]
            /\ base_priority' = [base_priority EXCEPT ![p] = PRIORITY_MAX]
            /\ dynamic_priority' = [dynamic_priority EXCEPT ![p] = PRIORITY_MAX]
            /\ sched_policy' = [sched_policy EXCEPT ![p] = "FAIR"]
            /\ sched_weight' = [sched_weight EXCEPT ![p] = BASE_WEIGHT]
            /\ sched_deadline' = [sched_deadline EXCEPT ![p] = 0]
            /\ vruntime' = [vruntime EXCEPT ![p] = 0]
       ELSE /\ vruntime' = [vruntime EXCEPT ![p] = AccountRuntime(p)]
            /\ UNCHANGED <<state, prioVars, sliceVars, sched_policy, sched_weight,
                           sched_deadline, sleepVars, on_run_queue>>
  /\ cpu' = "loop_tail"
  /\ UNCHANGED <<ready_queues, ready_bitmap, irqVars, current_process, resume>>

\* The reclaim event and its log lines may wake receivers blocked on a channel.
ReclaimWake(q) ==
  /\ cpu = "loop_tail" /\ ~in_tick
  /\ state[current_process] = "UNUSED"
  /\ MakeRunnable(q)

TailKeepsCurrent ==                     \* mutant: current_process is not reset
  /\ cpu = "loop_tail" /\ ~in_tick
  /\ cpu' = "loop_wake"
  /\ UNCHANGED <<state, prioVars, sliceVars, policyVars, queueVars, sleepVars, irqVars,
                 current_process, resume>>

LoopTail ==
  /\ cpu = "loop_tail" /\ ~in_tick
  /\ LET p == current_process IN
       IF state[p] = "READY" /\ p # Idle /\ ~on_run_queue[p]
       THEN Enqueue(p, dynamic_priority[p])
       ELSE UNCHANGED queueVars
  /\ current_process' = NULL
  /\ cpu' = "loop_wake"
  /\ UNCHANGED <<state, prioVars, sliceVars, policyVars, sleepVars, irqVars, resume>>

-----------------------------------------------------------------------------
(* IRQ0: pit_irq_handler, process_scheduler_tick, EOI *)

\* The handler starts; further IRQs are held back until an EOI is sent.
PitIrq ==
  /\ cpu \notin {"boot", "wild"}
  /\ ~in_tick /\ ~in_service
  /\ ticks < MaxTicks
  /\ ticks' = ticks + 1
  /\ in_tick' = TRUE
  /\ in_service' = TRUE
  /\ UNCHANGED <<state, prioVars, sliceVars, policyVars, queueVars, sleepVars,
                 current_process, cpu, resume>>

\* wake_sleepers is done and the rest of process_scheduler_tick runs.
TickBody == in_tick /\ ~SleeperDue

\* The handler decides to take the CPU from the current process.
TickPreempts ==
  \/ current_process = Idle /\ ready_bitmap # {}
  \/ current_process \in Procs /\ time_slice_remaining[current_process] <= 1

\* current_process->time_slice_remaining after the tick is charged.
Charged ==
  IF current_process \in Procs /\ time_slice_remaining[current_process] > 0
  THEN [time_slice_remaining EXCEPT ![current_process] = @ - 1]
  ELSE time_slice_remaining

\* Nothing to preempt: the handler returns, pic_send_eoi(0).
TickReturn ==
  /\ TickBody
  /\ ~TickPreempts
  /\ time_slice_remaining' = Charged
  /\ in_tick' = FALSE
  /\ in_service' = FALSE
  /\ UNCHANGED <<state, prioVars, time_slice_ticks, policyVars, queueVars, sleepVars, ticks,
                 current_process, cpu, resume>>

\* scheduler_preempt_running of a thread: no EOI before its context resumes.
TickPreempt ==
  /\ TickBody
  /\ TickPreempts
  /\ cpu = "thread"
  /\ LET p == current_process IN
       /\ IF p = Idle
          THEN UNCHANGED <<state, dynamic_priority, queueVars>>
          ELSE /\ dynamic_priority' = [dynamic_priority EXCEPT ![p] = Demoted(@)]
               /\ state' = [state EXCEPT ![p] = "READY"]
               /\ Enqueue(p, Demoted(dynamic_priority[p]))
       /\ SwitchToLoop(p, "irq")
  /\ time_slice_remaining' = Charged
  /\ in_tick' = FALSE
  /\ UNCHANGED <<base_priority, time_slice_ticks, policyVars, sleepVars, ticks, in_service,
                 current_process>>

\* scheduler_preempt_running on the scheduler's own stack: the loop's registers
\* go to current_process->ctx and scheduler_ctx, whose frame the loop has since
\* overwritten, is loaded.  Nothing is known of the machine after that.
TickOnSchedulerStack ==
  /\ TickBody
  /\ TickPreempts
  /\ cpu # "thread"
  /\ cpu' = "wild"
  /\ in_tick' = FALSE
  /\ UNCHANGED <<state, prioVars, sliceVars, policyVars, queueVars, sleepVars, ticks,
                 in_service, current_process, resume>>

-----------------------------------------------------------------------------

\* The bounds, or the crash, stop the model; the machine itself never stops.
BoundReached ==
  /\ \/ cpu = "wild"
     \/ cpu = "thread" /\ (\/ ticks = MaxTicks
                           \/ /\ current_process # Idle
                              /\ vruntime[current_process] >= MaxVruntime)
  /\ UNCHANGED vars

Next ==
  \/ StartScheduler \/ ProcessCreate \/ ProcessCreateKernel
  \/ ProcessYield \/ ProcessBlockCurrent \/ ProcessExit
  \/ \E t \in SleepArgs : ProcessSleep(t)
  \/ \E q \in Procs : ProcessWake(q)
  \/ \E q \in Procs, w \in Weights, d \in DeadlineArgs, policy \in {"FAIR", "DEADLINE"} :
        ProcessSetScheduler(q, policy, w, d)
  \/ WakeSleeper \/ SelectReady \/ SelectIdle \/ ArmTimeslice \/ SwitchIn
  \/ AccountAndReclaim \/ LoopTail
  \/ \E q \in Procs : ReclaimWake(q)
  \/ PitIrq \/ TickReturn \/ TickPreempt \/ TickOnSchedulerStack
  \/ BoundReached

Spec == Init /\ [][Next]_vars

-----------------------------------------------------------------------------
(* Properties.  All but TypeOK are about the machine before it goes wild. *)

\* Every variable has the type of the C field it stands for.
TypeOK ==
  /\ state \in [Slots -> States]
  /\ base_priority \in [Slots -> Levels]
  /\ dynamic_priority \in [Slots -> Levels]
  /\ on_run_queue \in [Slots -> BOOLEAN]
  /\ wake_deadline \in [Slots -> Nat]
  /\ time_slice_ticks \in [Slots -> Nat]
  /\ time_slice_remaining \in [Slots -> Nat]
  /\ sched_policy \in [Slots -> {"FAIR", "DEADLINE"}]
  /\ sched_weight \in [Slots -> Nat \ {0}]
  /\ sched_deadline \in [Slots -> Nat]
  /\ vruntime \in [Slots -> Nat]
  /\ ready_queues \in [Levels -> Seq(Procs)]
  /\ ready_bitmap \in SUBSET Levels
  /\ sleep_list \in Seq(Procs)
  /\ current_process \in Slots \cup {NULL}
  /\ ticks \in Nat
  /\ cpu \in CpuModes
  /\ in_tick \in BOOLEAN
  /\ in_service \in BOOLEAN
  /\ resume \in [Slots -> {"start", "call", "irq", "live"}]

\* A process is linked in the queue of its own dynamic priority ...
QueuedAtOwnLevel ==
  \A l \in Levels : \A i \in 1 .. Len(ready_queues[l]) :
     on_run_queue[ready_queues[l][i]] /\ dynamic_priority[ready_queues[l][i]] = l

\* ... at most once ...
QueuedOnce ==
  \A l \in Levels : \A i, j \in 1 .. Len(ready_queues[l]) :
     ready_queues[l][i] = ready_queues[l][j] => i = j

\* ... and only if it is flagged so.
FlagMeansQueued ==
  \A p \in Slots : on_run_queue[p] =>
     \E i \in 1 .. Len(ready_queues[dynamic_priority[p]]) :
        ready_queues[dynamic_priority[p]][i] = p

BitmapExact == ready_bitmap = {l \in Levels : ready_queues[l] # <<>>}

QueuesOK == QueuedAtOwnLevel /\ QueuedOnce /\ FlagMeansQueued /\ BitmapExact

\* The intrusive run queues, the on_run_queue flags and ready_bitmap agree: the
\* flag guards scheduler_enqueue_ready against linking a process twice (which
\* would close the list into a cycle) and the tick preempts idle on the bitmap
\* alone, so a stale bit or flag loses a process or hangs the machine.
RunQueueOK == cpu # "wild" => QueuesOK

\* Each process is where its state says: READY in a run queue (or just picked
\* from it), RUNNING or ZOMBIE only as current_process, asleep only if WAITING.
\* A process in no such place is never dispatched again and never reclaimed.
PlacedByState ==
  cpu # "wild" =>
  \A p \in Procs :
    /\ state[p] = "READY" <=> on_run_queue[p] \/ (p = current_process /\ cpu = "loop_selected")
    /\ state[p] = "RUNNING" => p = current_process /\ cpu \in {"loop_armed", "thread"}
    /\ state[p] = "ZOMBIE" => p = current_process /\ cpu = "loop_return"
    /\ Asleep(p) => state[p] = "WAITING"

SleepSorted ==
  \A i, j \in 1 .. Len(sleep_list) :
     i < j => /\ sleep_list[i] # sleep_list[j]
              /\ wake_deadline[sleep_list[i]] <= wake_deadline[sleep_list[j]]

NoneOverdue == \A i \in 1 .. Len(sleep_list) : ticks < wake_deadline[sleep_list[i]]

\* sleep_list is sorted by wake_deadline without repetition, which is why
\* wake_sleepers may stop at the first sleeper that is not due, and outside the
\* timer handler nobody on it is overdue: a sleeper is released by the very tick
\* its deadline names.
SleepListOK == cpu # "wild" => SleepSorted /\ (~in_tick => NoneOverdue)

\* pic_send_eoi runs after the handler, and the handler may switch context.
\* Whenever IRQ0 is in service outside the handler exactly one suspended context
\* owes the EOI, and that context is idle, or queued, or being dispatched: it
\* will be resumed by the scheduler alone.  Without it the timer is dead for good.
EoiOwed ==
  cpu # "wild" =>
  /\ \A p, q \in Slots : resume[p] = "irq" /\ resume[q] = "irq" => p = q
  /\ in_service /\ ~in_tick <=> \E p \in Slots : resume[p] = "irq"
  /\ \A p \in Procs : resume[p] = "irq" => state[p] \in {"READY", "RUNNING"}

\* Where the CPU is determines what current_process is: NULL only in the loop,
\* its state and its saved context always those of the step the CPU is about to
\* take.  While idle is being dispatched or runs, no process owes the EOI.
CpuConsistent ==
  LET p == current_process IN
  cpu # "wild" =>
  /\ p = NULL <=> cpu \in {"boot", "loop_wake"}
  /\ \A q \in Slots : resume[q] = "live" <=> q = p /\ cpu = "thread"
  /\ state[Idle] \in {"READY", "RUNNING"}
  /\ in_tick => in_service /\ cpu # "boot"
  /\ cpu \in {"loop_armed", "thread"} => state[p] = "RUNNING"
  /\ p \in Procs =>
       /\ cpu \in {"loop_selected", "loop_armed", "thread"} => ~on_run_queue[p]
       /\ cpu = "loop_selected" => state[p] = "READY"
       /\ cpu = "loop_return" => state[p] \in {"READY", "WAITING", "ZOMBIE"}
       /\ cpu = "loop_tail" => state[p] \in {"READY", "WAITING", "UNUSED"}
  /\ p = Idle /\ cpu \in {"loop_selected", "loop_armed", "thread"} =>
       \A q \in Procs : resume[q] # "irq"

\* The idle thread executes hlt: it must never do so with the timer held back, or
\* no event is left that could wake the machine.
IdleCanBeWoken ==
  cpu = "thread" /\ current_process = Idle /\ ~in_tick => ~in_service /\ resume[Idle] = "live"

\* From the moment its slice is armed a thread on the CPU has some of it left, so
\* each tick finds a slice to charge and none runs for more than TimesliceFor
\* ticks; when it gives up the CPU, in whatever way, all of the slice is spent.
SliceAccounting ==
  current_process \in Procs =>
  /\ cpu \in {"loop_armed", "thread"} =>
       time_slice_remaining[current_process] \in 1 .. time_slice_ticks[current_process]
  /\ cpu = "loop_return" /\ state[current_process] # "ZOMBIE" =>
       time_slice_remaining[current_process] = 0 /\ time_slice_ticks[current_process] > 0

\* The loop charges current_process for its stay on the CPU.
ChargeStep ==
  cpu = "loop_return" /\ cpu' = "loop_tail" /\ current_process \in Procs
     /\ IsFair(current_process) /\ state[current_process] # "ZOMBIE" =>
        vruntime'[current_process] > vruntime[current_process]

\* Every stay of a FAIR process on the CPU costs it vruntime, also one it cut short
\* by a yield, a sleep or a wait before any tick.  A process that calls the kernel
\* in a loop can therefore not stay first in scheduler_pick_fair for ever.
RuntimeCharged == [][ChargeStep]_vars

\* What a step that picks a process from current_process = NULL may pick.
PolicyStep ==
  \A p \in Slots : current_process = NULL /\ current_process' = p =>
     \A q \in Procs : state[q] = "READY" =>
        /\ p # Idle
        /\ HasDeadline(q) => HasDeadline(p) /\ sched_deadline[p] <= sched_deadline[q]
        /\ IsFair(q) /\ ~HasDeadline(p) => IsFair(p) /\ vruntime[p] <= vruntime[q]

\* The loop never idles while a process is READY, and otherwise dispatches by the
\* policies: earliest nonzero deadline first, else least vruntime.  Stated over
\* all READY processes, in whatever queue and order they are linked.
DispatchByPolicy == [][PolicyStep]_vars

-----------------------------------------------------------------------------
(* Refinement: proc_state_t seen through ProcessLifecycle *)

LifecycleStatus(p) ==
  CASE state[p] = "UNUSED" -> "absent"
    [] state[p] = "READY" -> "ready"
    [] state[p] = "RUNNING" -> "running"
    [] state[p] = "WAITING" -> "waiting"
    [] state[p] = "ZOMBIE" -> "dead"

Lifecycle == INSTANCE ProcessLifecycle WITH status <- [p \in Procs |-> LifecycleStatus(p)]

\* Every behaviour of the scheduler is a behaviour of ProcessLifecycle: states
\* change only along create, dispatch, deschedule, block, wake, exit, reclaim,
\* and no process starts to run while another is RUNNING.
ImplementsLifecycle == Lifecycle!LSpec

=============================================================================
