------------------------------- MODULE Channel -------------------------------
(***************************************************************************)
(* Message channels, the second half of kernel/ipc.c, on top of            *)
(* ProcessLifecycle.  Procs are slots of the process table: a slot is      *)
(* used again after reclaim_zombie, and the lists of a channel hold        *)
(* pointers to slots.                                                      *)
(*                                                                         *)
(* User processes enter through the syscall gate with interrupts off: one  *)
(* call, or one pass of the loop in ipc_channel_receive up to              *)
(* process_block_current, is one action.  Kernel threads (the shell, when  *)
(* it logs, loads modules or registers devices) send with interrupts on,   *)
(* so a tick may take the CPU between the critical section of              *)
(* ipc_channel_send and its process_wake.                                  *)
(***************************************************************************)
EXTENDS Integers, Sequences, SequencesExt, FiniteSets, ProcessLifecycle

CONSTANTS
  KernelThreads,          \* the slots that hold kernel threads
  MAX_CHANNELS,           \* CONFIG_IPC_MAX_CHANNELS
  SERVICES,               \* IPC_SERVICE_COUNT, channels 1 .. SERVICES
  QUEUE_LEN,              \* CONFIG_IPC_CHANNEL_QUEUE_LEN
  MAX_SUBSCRIBERS,        \* CONFIG_IPC_CHANNEL_SUBSCRIBERS
  MAX_WAITERS,            \* CONFIG_IPC_CHANNEL_WAITERS
  CHANNEL_SLOTS,          \* CONFIG_PROCESS_CHANNEL_SLOTS
  Messages,               \* what user processes and kernel threads send
  Event,                  \* a struct scheduler_event
  NoProc, NoMessage

ASSUME ChannelAssumption ==
  /\ KernelThreads \subseteq Procs
  /\ SERVICES \in Nat \ {0} /\ MAX_CHANNELS \in Nat /\ SERVICES <= MAX_CHANNELS
  /\ QUEUE_LEN \in 1 .. 255             \* head, tail and count are uint8_t
  /\ {MAX_SUBSCRIBERS, MAX_WAITERS, CHANNEL_SLOTS} \subseteq Nat \ {0}
  /\ NoProc \notin Procs
  /\ NoMessage \notin Messages \cup {Event}

Channels == 1 .. MAX_CHANNELS
SchedulerChannel == SERVICES            \* IPC_SERVICE_SCHEDULER is the last one
Payloads == Messages \cup {Event}
Indices == 0 .. QUEUE_LEN - 1
Users == Procs \ KernelThreads

VARIABLES
  booting,                \* kmain has not reached the scheduler loop
  call,                   \* the channel a process is inside ipc_channel_receive of, or 0
  next_channel_id,
  kernel_flag,            \* IPC_CHANNEL_FLAG_KERNEL of each channel
  ring, head, tail, count,
  waiters, subscribers,
  channel_slots,          \* the channels a process has joined
  wait_channel,           \* the field of struct process, 0 for -1
  waking,                 \* a kernel thread's wakeup_proc, not passed to process_wake yet
  received                \* history: what the latest receive returned

queueVars == <<ring, head, tail, count>>
memberVars == <<next_channel_id, kernel_flag, subscribers, channel_slots>>
chanVars == <<status, booting, call, memberVars, queueVars, waiters, wait_channel,
              waking, received>>

-----------------------------------------------------------------------------
(* Helpers *)

Used(c) == c < next_channel_id

MayUseAny(p, c) == Used(c)              \* mutant: membership is not checked
\* find_channel succeeds, and the caller has joined or the channel is the kernel's.
MayUse(p, c) == Used(c) /\ (c \in channel_slots[p] \/ kernel_flag[c])

FullTooLate(c) == count[c] > QUEUE_LEN  \* mutant: off by one
Full(c) == count[c] >= QUEUE_LEN

NotTaken(c, ws) == ws                   \* mutant: the waiter stays on the list
WithoutFirst(c, ws) == IF ws[c] = <<>> THEN ws ELSE [ws EXCEPT ![c] = Tail(@)]

\* The critical section of ipc_channel_send, begun with waiter lists ws and
\* wait_channel fields wc: store the message and take the first waiter.
Deposit(c, m, ws, wc) ==
  IF Full(c)
  THEN /\ waiters' = ws
       /\ wait_channel' = wc
       /\ UNCHANGED queueVars
  ELSE /\ ring' = [ring EXCEPT ![c][tail[c]] = m]
       /\ tail' = [tail EXCEPT ![c] = (@ + 1) % QUEUE_LEN]
       /\ count' = [count EXCEPT ![c] = @ + 1]
       /\ UNCHANGED head
       /\ waiters' = WithoutFirst(c, ws)
       /\ wait_channel' = IF ws[c] = <<>> THEN wc ELSE [wc EXCEPT ![Head(ws[c])] = 0]

\* The wakeup_proc that section finds.
WakeupProc(c, ws) == IF Full(c) \/ ws[c] = <<>> THEN NoProc ELSE Head(ws[c])

NotWoken(st, w) == st                   \* mutant: process_wake is not called

\* process_wake(w) in the life cycle st.
AfterWake(st, w) ==
  IF w # NoProc /\ st[w] = "waiting" THEN [st EXCEPT ![w] = "ready"] ELSE st

\* scheduler_send_event, once the process it is about has reached st and ws.
SendEvent(p, st, ws) ==
  /\ Deposit(SchedulerChannel, Event, ws, [wait_channel EXCEPT ![p] = 0])
  /\ status' = AfterWake([status EXCEPT ![p] = st], WakeupProc(SchedulerChannel, ws))

InUserCode(p) == p \in Users /\ status[p] = "running" /\ call[p] = 0

WithoutWaiter(list, p) == SelectSeq(list, LAMBDA q : q # p)

-----------------------------------------------------------------------------
(* ipc_system_init has run; the life of the processes *)

ChannelInit ==
  /\ LInit
  /\ booting = TRUE
  /\ call = [p \in Procs |-> 0]
  /\ next_channel_id = SERVICES + 1
  /\ kernel_flag = [c \in Channels |-> c <= SERVICES]
  /\ ring = [c \in Channels |-> [i \in Indices |-> NoMessage]]
  /\ head = [c \in Channels |-> 0]
  /\ tail = [c \in Channels |-> 0]
  /\ count = [c \in Channels |-> 0]
  /\ waiters = [c \in Channels |-> <<>>]
  /\ subscribers = [c \in Channels |-> {}]
  /\ channel_slots = [p \in Procs |-> {}]
  /\ wait_channel = [p \in Procs |-> 0]
  /\ waking = [k \in KernelThreads |-> NoProc]
  /\ received = NoMessage

\* kmain creates processes before the scheduler runs, a process by SYS_SPAWN.
Create(p) ==
  /\ booting \/ (p \in Users /\ \E q \in Procs : InUserCode(q))
  /\ status[p] = "absent"
  /\ channel_slots' = [channel_slots EXCEPT ![p] = {}]
  /\ SendEvent(p, "ready", waiters)
  /\ UNCHANGED <<booting, call, next_channel_id, kernel_flag, subscribers, waking, received>>

\* process_schedule reclaims a zombie before it selects anyone.
Dispatch(p) ==
  /\ Dispatched(p)
  /\ \A q \in Procs : status[q] # "dead"
  /\ booting' = FALSE
  /\ UNCHANGED <<call, memberVars, queueVars, waiters, wait_channel, waking, received>>

Preempt(p) ==
  /\ call[p] = 0
  /\ Descheduled(p)
  /\ UNCHANGED <<booting, call, memberVars, queueVars, waiters, wait_channel, waking, received>>

\* process_exit: ipc_process_cleanup leaves the joined channels, then the event is sent.
Exit(p) ==
  /\ InUserCode(p)
  /\ subscribers' = [c \in Channels |-> IF c \in channel_slots[p] THEN subscribers[c] \ {p}
                                                                  ELSE subscribers[c]]
  /\ channel_slots' = [channel_slots EXCEPT ![p] = {}]
  /\ SendEvent(p, "dead",
               [c \in Channels |-> IF c \in channel_slots[p] THEN WithoutWaiter(waiters[c], p)
                                                             ELSE waiters[c]])
  /\ UNCHANGED <<booting, call, next_channel_id, kernel_flag, waking, received>>

\* reclaim_zombie, in the scheduler loop.
Reclaim(p) ==
  /\ status[p] = "dead"
  /\ channel_slots' = [channel_slots EXCEPT ![p] = {}]
  /\ SendEvent(p, "absent", waiters)
  /\ UNCHANGED <<booting, call, next_channel_id, kernel_flag, subscribers, waking, received>>

-----------------------------------------------------------------------------
(* The channel calls.  A call that only returns an error changes nothing. *)

\* The flags are the caller's.
ChannelCreate(p, flag) ==
  /\ InUserCode(p)
  /\ next_channel_id <= MAX_CHANNELS
  /\ next_channel_id' = next_channel_id + 1
  /\ kernel_flag' = [kernel_flag EXCEPT ![next_channel_id] = flag]
  /\ UNCHANGED <<status, booting, call, subscribers, channel_slots, queueVars, waiters,
                 wait_channel, waking, received>>

JoinHalfway(p, c) ==                    \* mutant: a full subscriber list undoes nothing
  /\ InUserCode(p) /\ Used(c)
  /\ c \in channel_slots[p] \/ Cardinality(channel_slots[p]) < CHANNEL_SLOTS
  /\ channel_slots' = [channel_slots EXCEPT ![p] = @ \cup {c}]
  /\ subscribers' = IF p \notin subscribers[c] /\ Cardinality(subscribers[c]) >= MAX_SUBSCRIBERS
                    THEN subscribers
                    ELSE [subscribers EXCEPT ![c] = @ \cup {p}]
  /\ UNCHANGED <<status, booting, call, next_channel_id, kernel_flag, queueVars, waiters,
                 wait_channel, waking, received>>

\* process_add_channel, then the subscriber list; no room there undoes the first.
Join(p, c) ==
  /\ InUserCode(p) /\ Used(c)
  /\ c \in channel_slots[p] \/ Cardinality(channel_slots[p]) < CHANNEL_SLOTS
  /\ IF p \notin subscribers[c] /\ Cardinality(subscribers[c]) >= MAX_SUBSCRIBERS
     THEN /\ channel_slots' = [channel_slots EXCEPT ![p] = @ \ {c}]
          /\ UNCHANGED subscribers
     ELSE /\ channel_slots' = [channel_slots EXCEPT ![p] = @ \cup {c}]
          /\ subscribers' = [subscribers EXCEPT ![c] = @ \cup {p}]
  /\ UNCHANGED <<status, booting, call, next_channel_id, kernel_flag, queueVars, waiters,
                 wait_channel, waking, received>>

Leave(p, c) ==
  /\ InUserCode(p) /\ Used(c)
  /\ channel_slots' = [channel_slots EXCEPT ![p] = @ \ {c}]
  /\ subscribers' = [subscribers EXCEPT ![c] = @ \ {p}]
  /\ waiters' = [waiters EXCEPT ![c] = WithoutWaiter(@, p)]
  /\ UNCHANGED <<status, booting, call, next_channel_id, kernel_flag, queueVars,
                 wait_channel, waking, received>>

Send(p, c, m) ==
  /\ InUserCode(p) /\ MayUse(p, c)
  /\ ~Full(c)
  /\ Deposit(c, m, waiters, wait_channel)
  /\ status' = AfterWake(status, WakeupProc(c, waiters))
  /\ UNCHANGED <<booting, call, memberVars, waking, received>>

\* ipc_channel_send by a kernel thread (sender_pid 0), up to process_wake ...
KernelSend(k, c, m) ==
  /\ status[k] = "running" /\ waking[k] = NoProc
  /\ c <= SERVICES /\ ~Full(c)
  /\ Deposit(c, m, waiters, wait_channel)
  /\ waking' = [waking EXCEPT ![k] = WakeupProc(c, waiters)]
  /\ UNCHANGED <<status, booting, call, memberVars, received>>

\* ... and process_wake.
KernelWake(k) ==
  /\ status[k] = "running" /\ waking[k] # NoProc
  /\ status' = AfterWake(status, waking[k])
  /\ waking' = [waking EXCEPT ![k] = NoProc]
  /\ UNCHANGED <<booting, call, memberVars, queueVars, waiters, wait_channel, received>>

\* p begins ipc_channel_receive, or is back from process_block_current.
Receiving(p, c) ==
  /\ p \in Users /\ status[p] = "running"
  /\ call[p] = c \/ (call[p] = 0 /\ MayUse(p, c))

ReceiveMessage(p, c) ==
  /\ Receiving(p, c) /\ count[c] > 0
  /\ received' = ring[c][head[c]]
  /\ head' = [head EXCEPT ![c] = (@ + 1) % QUEUE_LEN]
  /\ count' = [count EXCEPT ![c] = @ - 1]
  /\ wait_channel' = [wait_channel EXCEPT ![p] = 0]
  /\ call' = [call EXCEPT ![p] = 0]
  /\ UNCHANGED <<status, booting, memberVars, ring, tail, waiters, waking>>

\* The waiter list is full: -1, also to a receiver that had been woken in vain.
ReceiveNoRoom(p, c) ==
  /\ Receiving(p, c) /\ count[c] = 0
  /\ p \notin ToSet(waiters[c]) /\ Len(waiters[c]) >= MAX_WAITERS
  /\ call' = [call EXCEPT ![p] = 0]
  /\ UNCHANGED <<status, booting, memberVars, queueVars, waiters, wait_channel, waking, received>>

ReceiveBlock(p, c) ==
  /\ Receiving(p, c) /\ count[c] = 0
  /\ IF p \in ToSet(waiters[c])
     THEN UNCHANGED <<waiters, wait_channel>>
     ELSE /\ Len(waiters[c]) < MAX_WAITERS
          /\ waiters' = [waiters EXCEPT ![c] = Append(@, p)]
          /\ wait_channel' = [wait_channel EXCEPT ![p] = c]
  /\ call' = [call EXCEPT ![p] = c]
  /\ Blocked(p)
  /\ UNCHANGED <<booting, memberVars, queueVars, waking, received>>

Receive(p, c) == ReceiveMessage(p, c) \/ ReceiveNoRoom(p, c) \/ ReceiveBlock(p, c)

\* Every process is blocked: the idle thread has the CPU for good.
OnlyIdle ==
  /\ ~booting
  /\ \A p \in Procs : status[p] \in {"absent", "waiting"}
  /\ UNCHANGED chanVars

ChannelNext ==
  \/ OnlyIdle
  \/ \E p \in Procs : Create(p) \/ Dispatch(p) \/ Preempt(p) \/ Exit(p) \/ Reclaim(p)
  \/ \E p \in Users :
       \/ \E flag \in BOOLEAN : ChannelCreate(p, flag)
       \/ \E c \in Channels : \/ Join(p, c) \/ Leave(p, c) \/ Receive(p, c)
                              \/ \E m \in Messages : Send(p, c, m)
  \/ \E k \in KernelThreads :
       \/ KernelWake(k)
       \/ \E c \in Channels, m \in Messages : KernelSend(k, c, m)

ChannelSpec == ChannelInit /\ [][ChannelNext]_chanVars

-----------------------------------------------------------------------------
(* Properties *)

\* Receivers of c that are not on its waiter list: woken, or about to be.
Pending(c) == {p \in Procs : call[p] = c /\ p \notin ToSet(waiters[c])}

\* No lost wake-up.  A send takes one waiter off the list and a receiver that
\* was never blocked may take the message first; still, while anyone is left
\* on the list of a channel, each of its queued messages has a receiver of its
\* own that has been woken or that a kernel thread is about to wake.
NoLostWakeup ==
  \A c \in Channels : waiters[c] # <<>> => count[c] <= Cardinality(Pending(c))

\* Waiter lists and blocked processes agree.  A list holds a blocked receiver of
\* that channel, once; whoever is blocked is on a list or in the hands of a
\* kernel thread that took it off and was preempted before process_wake; and
\* such a thread holds a process nobody else will have woken meanwhile.
ReceiversAreBlocked ==
  /\ \A c \in Channels : \A i \in 1 .. Len(waiters[c]) :
       LET p == waiters[c][i] IN
       /\ status[p] = "waiting" /\ call[p] = c /\ wait_channel[p] = c
       /\ \A j \in 1 .. Len(waiters[c]) : waiters[c][j] = p => i = j
  /\ \A k \in KernelThreads : waking[k] # NoProc =>
       /\ status[waking[k]] = "waiting" /\ call[waking[k]] > 0
       /\ waking[k] \notin ToSet(waiters[call[waking[k]]])
       /\ \A j \in KernelThreads : waking[j] = waking[k] => j = k
  /\ \A p \in Procs : status[p] = "waiting" =>
       call[p] > 0 /\ (p \in ToSet(waiters[call[p]]) \/ \E k \in KernelThreads : waking[k] = p)

\* Both sides of membership agree across joins that were undone, leaves and
\* exits; neither outgrows its array; and a slot is empty of channels when a
\* new process gets it, so nobody inherits the membership of a dead process.
MembershipAgrees ==
  /\ \A p \in Procs, c \in Channels : p \in subscribers[c] <=> c \in channel_slots[p]
  /\ \A c \in Channels : Cardinality(subscribers[c]) <= MAX_SUBSCRIBERS
  /\ \A p \in Procs : /\ Cardinality(channel_slots[p]) <= CHANNEL_SLOTS
                      /\ status[p] \in {"absent", "dead"} => channel_slots[p] = {}

\* ipc_channel_receive checks its caller once and may then block for long: it
\* still only ever takes messages for a process that has joined the channel, or
\* from a channel of the kernel's.
CheckedOnce ==
  \A p \in Procs : call[p] > 0 => call[p] \in channel_slots[p] \/ kernel_flag[call[p]]

\* The messages in the ring of c, oldest first.
Queued(c) == [i \in 1 .. count[c] |-> ring[c][(head[c] + i - 1) % QUEUE_LEN]]

Fifo == INSTANCE MessageQueues WITH
  Queues <- Channels, Capacity <- QUEUE_LEN, Nothing <- NoMessage,
  queue <- [c \in Channels |-> Queued(c)], last <- received

\* The ring is a bounded FIFO queue: messages are received in the order they
\* were accepted, each once, whatever wraps around and whoever receives.
ImplementsFifo == Fifo!QSpec

\* Fairness: the timer preempts, a READY process is eventually picked, a receive
\* goes on once it has the CPU, and a preempted kernel thread continues.
ChannelFairness ==
  /\ \A p \in Procs : /\ WF_chanVars(Preempt(p))
                      /\ SF_chanVars(Dispatch(p))
                      /\ WF_chanVars(Reclaim(p))
  /\ \A p \in Users, c \in Channels : WF_chanVars(call[p] = c /\ Receive(p, c))
  /\ \A k \in KernelThreads : SF_chanVars(KernelWake(k))

FairChannelSpec == ChannelSpec /\ ChannelFairness

\* A message does not lie in a channel while someone is blocked in receive: as
\* long as a receiver is inside, the head of a non-empty queue moves on.
MessagesMove ==
  \A c \in Channels, h \in Indices :
     (count[c] > 0 /\ head[c] = h /\ \E p \in Procs : call[p] = c) ~> head[c] # h

=============================================================================
