------------------------------ MODULE Services -------------------------------
(***************************************************************************)
(* The service table (kernel/service.c), the life of the processes that    *)
(* use it, and klog_publish_channel (kernel/klog.c), which sends every     *)
(* kernel message to the log service logd by ipc_send.  The message is     *)
(* sent by whoever runs: a user process in a system call, in one step, or  *)
(* the shell's kernel thread, which is preempted between the steps.  logd  *)
(* runs user/logger.c, which never exits; the others run any program.      *)
(***************************************************************************)
EXTENDS Mailbox

CONSTANTS
  ServiceIds,             \* enum system_service
  Logd,                   \* SYSTEM_SERVICE_LOGD
  MaxMail                 \* bound: a user process sends while fewer messages wait

ASSUME ServicesAssumption ==
  /\ Logd \in ServiceIds
  /\ Cardinality(ServiceIds) < MAX_PROCS /\ MAX_PROCS <= MaxPid

VARIABLES
  service_pid,            \* service_table[..].pid, 0 for -1
  shell                   \* where the shell's klog_emit is, and the slot or pid it holds

vars == <<mbVars, service_pid, shell>>

Idle == [at |-> "idle", who |-> 0]
DefaultRights == {"SEND", "RECV"}

\* logd is started at boot and runs for ever: where it is and who it is.
LogdPid == service_pid[Logd]
LogdSlot == CHOOSE s \in Slots : pid[s] = LogdPid

-----------------------------------------------------------------------------
(* Boot: service_bootstrap starts every service, then init is created.  The *)
(* boot code has by then logged more than logd's mailbox holds.             *)

BootOrder == CHOOSE f \in [ServiceIds -> 1 .. Cardinality(ServiceIds)] : IsInjective(f)

Init ==
  /\ LET n == Cardinality(ServiceIds) + 1
     IN  /\ pid = [s \in Slots |-> IF s <= n THEN s ELSE 0]
         /\ next_pid = n + 1
  /\ service_pid = BootOrder
  /\ mailbox = [s \in Slots |-> IF s = BootOrder[Logd]
                                THEN [i \in 1 .. MSG_QUEUE_LEN |-> 0]
                                ELSE <<>>]
  /\ blocked = [s \in Slots |-> FALSE] /\ waiter = blocked
  /\ source = [s \in Slots |-> IF s = BootOrder[Logd] THEN AnyProcess ELSE NoCall]
  /\ caps = [s \in Slots |-> <<>>]
  /\ share_table = [r \in Regions |-> Free]
  /\ shares = [s \in Slots |-> [r \in Regions |-> 0]]
  /\ shell = Idle

-----------------------------------------------------------------------------
(* Calls of user processes *)

\* klog_publish_channel run n times by the user process in s, over the boxes b.
\* What logd does not take goes to the logger channel.
Published(b, s, n) ==
  LET t == LogdSlot
      room == MSG_QUEUE_LEN - Len(b[t])
  IN  IF Capable(s, LogdPid, "SEND")
      THEN [b EXCEPT ![t] = @ \o [i \in 1 .. Min({n, room}) |-> pid[s]]]
      ELSE b

\* The loop of ipc_recv until it returns or blocks: messages that match and may
\* not be received are dropped, each with a klog_warn, up to the first that may.
Dequeued(s, src) ==
  LET box == mailbox[s]
      Match(q) == src \in {AnyProcess, q}
      Other(q) == ~Match(q)
      good == {i \in DOMAIN box : Match(box[i]) /\ Capable(s, box[i], "RECV")}
      first == IF good = {} THEN Len(box) + 1 ELSE Min(good)
      passed == SelectSeq(SubSeq(box, 1, first - 1), Other)
  IN  [box |-> passed \o SubSeq(box, first + 1, Len(box)),
       drops |-> first - 1 - Len(passed), taken |-> good # {}]

\* One pass of ipc_recv, at its call or after a wake-up.  A warning that logd itself
\* causes is a message to logd, which it may receive and takes if it asked for it.
IpcRecv(s, src) ==
  /\ pid[s] > 0 /\ ~blocked[s]
  /\ source[s] \in {NoCall, src}
  /\ LET d == Dequeued(s, src)
         own == s = LogdSlot /\ d.drops > 0 /\ ~d.taken /\ src \in {AnyProcess, pid[s]}
         done == d.taken \/ own
     IN  /\ mailbox' = Published([mailbox EXCEPT ![s] = d.box], s,
                                 IF own THEN d.drops - 1 ELSE d.drops)
         /\ blocked' = [Woken(mailbox', blocked) EXCEPT ![s] = ~done]
         /\ waiter' = [Popped(mailbox') EXCEPT ![s] = ~done]
         /\ source' = [source EXCEPT ![s] = IF done /\ s # LogdSlot THEN NoCall ELSE src]
  /\ UNCHANGED <<pid, next_pid, caps, share_table, shares, service_pid, shell>>

\* ipc_attach_process: what else it clears, the exit of the slot's last process cleared.
Attach(s) ==
  /\ pid' = [pid EXCEPT ![s] = next_pid]
  /\ next_pid' = next_pid + 1
  /\ source' = [source EXCEPT ![s] = NoCall]

FreeSlot == {s \in Slots : pid[s] = 0}

\* process_create, called by any process (sys_spawn) or by the shell.
Spawn ==
  /\ FreeSlot # {} /\ next_pid <= MaxPid
  /\ Attach(Min(FreeSlot))
  /\ UNCHANGED <<blocked, mailbox, waiter, caps, share_table, shares, service_pid, shell>>

OneWay(s, p, t, rights) ==              \* mutant: only the requester is granted
  IF HasRoom(caps, s, p) THEN Grant(caps, s, p, rights) ELSE caps
\* The two grants of service_grant_capabilities between s and the service, pid p in
\* slot t: the second is not tried when the first fails, and does not undo it.
Granting(s, p, t, rights) ==
  IF ~HasRoom(caps, s, p) THEN caps
  ELSE LET c == Grant(caps, s, p, rights)
       IN  IF HasRoom(c, t, pid[s]) THEN Grant(c, t, pid[s], rights) ELSE c

\* sys_service_connect of a service that runs.
Connect(s, svc, rights) ==
  /\ InUserCode(s)
  /\ service_pid[svc] > 0
  /\ \E t \in Lookup(service_pid[svc]) :
       caps' = Granting(s, service_pid[svc], t, DefaultRights \cup rights)
  /\ UNCHANGED <<pid, next_pid, mailVars, share_table, shares, service_pid, shell>>

\* The same for a service that has exited: service_start first, which logs.
ConnectStarts(s, svc, rights) ==
  /\ InUserCode(s)
  /\ service_pid[svc] = 0
  /\ next_pid <= MaxPid
  /\ mailbox' = Published(mailbox, s, 1)
  /\ blocked' = Woken(mailbox', blocked)
  /\ waiter' = Popped(mailbox')
  /\ IF FreeSlot = {}
     THEN UNCHANGED <<pid, next_pid, source, caps, service_pid>>
     ELSE /\ Attach(Min(FreeSlot))
          /\ service_pid' = [service_pid EXCEPT ![svc] = next_pid]
          /\ caps' = Granting(s, next_pid, Min(FreeSlot), DefaultRights \cup rights)
  /\ UNCHANGED <<share_table, shares, shell>>

\* process_exit and the reclaim: ipc_detach_process and service_handle_exit.
Exit(s) ==
  /\ InUserCode(s) /\ s # LogdSlot
  /\ pid' = [pid EXCEPT ![s] = 0]
  /\ mailbox' = [mailbox EXCEPT ![s] = <<>>]
  /\ waiter' = [waiter EXCEPT ![s] = FALSE]
  /\ caps' = [caps EXCEPT ![s] = <<>>]
  /\ share_table' = [r \in Regions |-> IF r \in SharedBy(pid[s]) THEN Free ELSE share_table[r]]
  /\ shares' = [Detached(pid[s]) EXCEPT ![s] = [r \in Regions |-> 0]]
  /\ service_pid' = [v \in ServiceIds |-> IF service_pid[v] = pid[s] THEN 0 ELSE service_pid[v]]
  /\ UNCHANGED <<next_pid, blocked, source, shell>>

-----------------------------------------------------------------------------
(* The shell's kernel thread logs: service_pid and process_lookup, then the *)
(* locked part of mailbox_enqueue, then process_lookup and process_wake.    *)

ShellLooksUp ==
  /\ shell = Idle
  /\ shell' = [at |-> "enqueue", who |-> LogdSlot]
  /\ UNCHANGED <<mbVars, service_pid>>

ShellEnqueues ==
  LET t == shell.who
  IN  /\ shell.at = "enqueue"
      /\ mailbox' = Post(mailbox, t, Shell)
      /\ waiter' = Popped(mailbox')
      /\ shell' = IF Fits(mailbox, t) /\ waiter[t] THEN [at |-> "wake", who |-> pid[t]] ELSE Idle
      /\ UNCHANGED <<pid, next_pid, blocked, source, caps, share_table, shares, service_pid>>

WakesNobody ==                          \* mutant: the wake-up is forgotten
  /\ shell.at = "wake"
  /\ shell' = Idle
  /\ UNCHANGED <<mbVars, service_pid>>
ShellWakes ==
  /\ shell.at = "wake"
  /\ blocked' = [t \in Slots |-> blocked[t] /\ t \notin Lookup(shell.who)]
  /\ shell' = Idle
  /\ UNCHANGED <<pid, next_pid, source, mailbox, waiter, caps, share_table, shares, service_pid>>

-----------------------------------------------------------------------------

Running == {pid[t] : t \in Slots} \ {0}

LogdRecv == IpcRecv(LogdSlot, AnyProcess)

UserRecv == \E s \in Slots \ {LogdSlot} : \E src \in {AnyProcess} \cup Running : IpcRecv(s, src)
UserSend == \E s \in Slots \ {LogdSlot}, t \in Slots :
               MapThenSumSet(LAMBDA u : Len(mailbox[u]), Slots) < MaxMail /\
               IpcSend(s, t) /\ UNCHANGED <<service_pid, shell>>
UserShare == \E s \in Slots \ {LogdSlot}, t \in Slots :
               IpcShare(s, t) /\ UNCHANGED <<service_pid, shell>>
UserConnect == \E s \in Slots \ {LogdSlot}, v \in ServiceIds, r \in {{"SHARE"}} :
                 Connect(s, v, r) \/ ConnectStarts(s, v, r)
UserExit == \E s \in Slots : Exit(s)

Next ==
  \/ LogdRecv \/ UserRecv \/ UserSend \/ UserShare \/ UserConnect \/ UserExit \/ Spawn
  \/ ShellLooksUp \/ ShellEnqueues \/ ShellWakes

Spec == Init /\ [][Next]_vars

-----------------------------------------------------------------------------
(* Properties *)

\* A used share record and the links in the two processes it joins agree, both
\* are alive, and a link no record accounts for does not exist: also after either
\* end exits, its slot is used again, or an attach half succeeds (ipc_share,
\* share_drop_for_pid).
ShareLinksAgree ==
  /\ \A s \in Slots, r \in Regions : shares[s][r] = IF pid[s] = 0 THEN 0 ELSE Ends(r, pid[s])
  /\ \A r \in Regions : share_table[r] # Free =>
        Lookup(share_table[r].owner) # {} /\ Lookup(share_table[r].target) # {}

\* A process asleep in ipc_recv is on its mailbox's waiter list with nothing it
\* asked for in the box, or the shell has taken it off the list and is about to
\* wake it: the wake-up between the enqueue and the block is never lost.
AsleepOnEmptyBox ==
  \A s \in Slots : blocked[s] =>
    \/ /\ waiter[s]
       /\ \A i \in DOMAIN mailbox[s] : source[s] # AnyProcess /\ mailbox[s][i] # source[s]
    \/ shell = [at |-> "wake", who |-> pid[s]]

\* A right to send granted by service_grant_capabilities is matched by the right
\* to receive at the other end, unless that end's table is full: the half grant
\* that makes ipc_recv drop what ipc_send took happens for no other reason.
HalfGrantOnlyWhenFull ==
  \A s, t \in Slots :
    (pid[s] > 0 /\ pid[t] > 0 /\ s # t /\ "SEND" \in Granted(s, pid[t]))
      => \/ "RECV" \in Granted(t, pid[s])
         \/ Cardinality(DOMAIN caps[t]) = CAPACITY_PER_PROC

=============================================================================
