-------------------------- MODULE ProcessLifecycle --------------------------
(***************************************************************************)
(* What the rest of the kernel may assume of the scheduler: the life of a  *)
(* process as proc_state_t names it, one process at a time on the CPU.     *)
(* Run queues, time slices, policies, the timer and the scheduler loop are *)
(* hidden.  Scheduler implements this specification; the synchronisation   *)
(* and IPC modules are written on top of it.                               *)
(***************************************************************************)
CONSTANT Procs                  \* the processes, the idle thread excluded

VARIABLE status                 \* proc_state_t of each process

Statuses == {"absent", "ready", "running", "waiting", "dead"}

Becomes(p, from, to) ==
  /\ status[p] = from
  /\ status' = [status EXCEPT ![p] = to]

CpuFree == \A p \in Procs : status[p] # "running"

LInit == status = [p \in Procs |-> "absent"]

Created(p) == Becomes(p, "absent", "ready")
Dispatched(p) == CpuFree /\ Becomes(p, "ready", "running")
Descheduled(p) == Becomes(p, "running", "ready")       \* yield or preemption
Blocked(p) == Becomes(p, "running", "waiting")         \* block or sleep
Woken(p) == Becomes(p, "waiting", "ready")             \* wake, or the sleep is over
Exited(p) == Becomes(p, "running", "dead")
Reclaimed(p) == Becomes(p, "dead", "absent")

LNext ==
  \E p \in Procs : \/ Created(p) \/ Dispatched(p) \/ Descheduled(p) \/ Blocked(p)
                   \/ Woken(p) \/ Exited(p) \/ Reclaimed(p)

LSpec == LInit /\ [][LNext]_status

\* Two processes never execute at once: every kernel table is protected on a
\* single CPU by this and by interrupts being disabled inside a system call.
OneRunning ==
  \A p, q \in Procs : status[p] = "running" /\ status[q] = "running" => p = q

=============================================================================
