---------------------------- MODULE KernelThread ----------------------------
(***************************************************************************)
(* The shell calls the scheduler directly and with interrupts enabled:     *)
(* shell_yield and shell_sleep_ticks execute sti before process_yield and  *)
(* process_sleep.  This module is Scheduler with those two calls split at  *)
(* the places where a tick finds them half done.  Interrupts inside        *)
(* scheduler_enqueue_ready and scheduler_insert_sleep, between two of      *)
(* their pointer updates, are left out.                                    *)
(***************************************************************************)
EXTENDS Scheduler

VARIABLE midway           \* what is left of a thread's call: insert, switch, or none of it

kernelVars == <<vars, midway>>

KInit == Init /\ midway = [p \in Slots |-> "none"]

Between(here, there) ==
  /\ cpu = "thread" /\ ~in_tick /\ current_process # Idle
  /\ midway[current_process] = here
  /\ midway' = [midway EXCEPT ![current_process] = there]

\* process_yield up to and including scheduler_enqueue_ready.
YieldEnqueue ==
  /\ OnCpu
  /\ Between("none", "switch")
  /\ LET p == current_process IN
       /\ dynamic_priority' = [dynamic_priority EXCEPT ![p] = base_priority[p]]
       /\ state' = [state EXCEPT ![p] = "READY"]
       /\ time_slice_remaining' = [time_slice_remaining EXCEPT ![p] = 0]
       /\ Enqueue(p, base_priority[p])
  /\ UNCHANGED <<base_priority, time_slice_ticks, policyVars, sleepVars, irqVars,
                 current_process, cpu, resume>>

\* process_sleep up to the assignment of PROC_WAITING ...
SleepMark(t) ==
  /\ OnCpu
  /\ Between("none", "insert")
  /\ LET p == current_process IN
       /\ wake_deadline' = [wake_deadline EXCEPT ![p] = ticks + (IF t = 0 THEN 1 ELSE t)]
       /\ state' = [state EXCEPT ![p] = "WAITING"]
       /\ time_slice_remaining' = [time_slice_remaining EXCEPT ![p] = 0]
  /\ UNCHANGED <<prioVars, time_slice_ticks, policyVars, queueVars, sleep_list, irqVars,
                 current_process, cpu, resume>>

\* ... and scheduler_insert_sleep.
SleepInsert ==
  /\ Between("insert", "switch")
  /\ InsertSleep(current_process, wake_deadline[current_process])
  /\ UNCHANGED <<state, prioVars, sliceVars, policyVars, queueVars, wake_deadline, irqVars,
                 current_process, cpu, resume>>

\* The context_switch that ends either call.
CallSwitch ==
  /\ Between("switch", "none")
  /\ SwitchToLoop(current_process, "call")
  /\ UNCHANGED <<state, prioVars, sliceVars, policyVars, queueVars, sleepVars, irqVars,
                 current_process>>

\* Everything else: the boot, the loop and the timer, as in Scheduler.
Surroundings ==
  /\ \/ StartScheduler \/ (cpu = "boot" /\ ProcessCreateKernel)
     \/ WakeSleeper \/ SelectReady \/ SelectIdle \/ ArmTimeslice \/ SwitchIn
     \/ AccountAndReclaim \/ LoopTail
     \/ PitIrq \/ TickReturn \/ TickPreempt \/ TickOnSchedulerStack \/ BoundReached
  /\ UNCHANGED midway

KNext ==
  \/ YieldEnqueue \/ SleepInsert \/ CallSwitch
  \/ \E t \in SleepArgs : SleepMark(t)
  \/ Surroundings

KernelSpec == KInit /\ [][KNext]_kernelVars

\* README.md has the shell waiting for keyboard input, and shell.c says of its
\* stress workers that they spin and yield: a thread that yields or sleeps would
\* always be current, in a run queue or in the sleep list, where the scheduler
\* finds it again.
ShellReachable ==
  cpu # "wild" => \A p \in Procs :
     state[p] = "UNUSED" \/ p = current_process \/ on_run_queue[p] \/ Asleep(p)

\* The lists survive calls cut in half by ticks, although a thread may then be
\* queued below its level, asleep and queued at once, or RUNNING and in no list:
\* no thread is linked twice, flags and ready_bitmap tell what is linked, and
\* sleepers are sorted, so no list becomes a cycle and no thread runs twice.
ListsSurvive ==
  cpu # "wild" =>
  /\ \A l, m \in Levels : \A i \in 1 .. Len(ready_queues[l]), j \in 1 .. Len(ready_queues[m]) :
       ready_queues[l][i] = ready_queues[m][j] => l = m /\ i = j
  /\ \A p \in Slots : on_run_queue[p] <=>
       \E l \in Levels : \E i \in 1 .. Len(ready_queues[l]) : ready_queues[l][i] = p
  /\ BitmapExact
  /\ SleepSorted

=============================================================================
