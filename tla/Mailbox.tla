------------------------------- MODULE Mailbox -------------------------------
(***************************************************************************)
(* Mailboxes, capabilities and shared regions: the first half of           *)
(* kernel/ipc.c.  A process is a slot of the process table; pids are given *)
(* out once, slots again and again.                                        *)
(*                                                                         *)
(* User processes call the kernel through the syscall gate with interrupts *)
(* off, so a call, or one pass of the loop in ipc_recv up to               *)
(* process_block_current, is one action of any process that is not         *)
(* blocked: which of them has the CPU makes no difference to these tables. *)
(* PROC_ZOMBIE is seen by nobody, and exit frees the slot at once.         *)
(***************************************************************************)
EXTENDS Integers, Sequences, FiniteSets, FiniteSetsExt, Functions

CONSTANTS
  MAX_PROCS,              \* slots for user processes
  MSG_QUEUE_LEN,          \* CONFIG_MSG_QUEUE_LEN
  CAPACITY_PER_PROC,      \* CONFIG_IPC_CAPACITY_PER_PROC
  SHARED_REGIONS,         \* CONFIG_IPC_MAX_SHARED_REGIONS
  SHARED_PER_PROC,        \* CONFIG_IPC_MAX_SHARED_PER_PROC
  ADDRESS_PAGES,          \* 2^32 / CONFIG_IPC_PAGE_SIZE
  LIMIT_PAGES,            \* CONFIG_USER_SPACE_LIMIT / CONFIG_IPC_PAGE_SIZE
  MaxPid                  \* bound: pids 1 .. MaxPid are given out

ASSUME MailboxAssumption ==
  /\ {MAX_PROCS, MSG_QUEUE_LEN, CAPACITY_PER_PROC, SHARED_REGIONS, SHARED_PER_PROC,
      MaxPid} \subseteq Nat \ {0}
  /\ LIMIT_PAGES \in 1 .. ADDRESS_PAGES - 1

Slots == 1 .. MAX_PROCS
Pids == 1 .. MaxPid
Shell == MaxPid + 1       \* the pid of the kernel thread that logs; 0 is the boot code
AnyProcess == 0           \* IPC_ANY_PROCESS
Rights == {"SEND", "RECV", "SHARE"}
Regions == 1 .. SHARED_REGIONS
Free == [owner |-> 0, target |-> 0]
NoCall == MaxPid + 2

VARIABLES
  pid,                    \* of the process in a slot, 0 when PROC_UNUSED
  next_pid,
  blocked,                \* PROC_WAITING inside ipc_recv
  source,                 \* what ipc_recv was called for, or NoCall
  mailbox,                \* the senders of the messages in the used slots
  waiter,                 \* the mailbox lists its owner, the only one who ever waits
  caps,                   \* peer -> rights, for the used entries of ipc_caps
  share_table,
  shares                  \* how many used ipc_shares links name a region

mailVars == <<blocked, source, mailbox, waiter>>
mbVars == <<pid, next_pid, mailVars, caps, share_table, shares>>

-----------------------------------------------------------------------------
(* Lookup and capabilities *)

Lookup(p) == {s \in Slots : p > 0 /\ pid[s] = p}        \* process_lookup

Granted(s, peer) == IF peer \in DOMAIN caps[s] THEN caps[s][peer] ELSE {}

\* capability_check of the user process in s: the kernel and itself need none.
Capable(s, peer, right) == peer \in {0, pid[s]} \/ right \in Granted(s, peer)

\* ipc_cap_grant in the tables c: an entry is found or taken, or there is none.
HasRoom(c, s, peer) == peer \in DOMAIN c[s] \/ Cardinality(DOMAIN c[s]) < CAPACITY_PER_PROC

Grant(c, s, peer, rights) ==
  [c EXCEPT ![s] = [q \in DOMAIN c[s] \cup {peer} |->
      (IF q \in DOMAIN c[s] THEN c[s][q] ELSE {}) \cup (IF q = peer THEN rights ELSE {})]]

-----------------------------------------------------------------------------
(* Mailboxes.  Post is mailbox_enqueue into slot t of the boxes b: at most  *)
(* MSG_QUEUE_LEN messages are kept, and a message that is kept takes the    *)
(* waiter off and wakes it.                                                 *)

Fits(b, t) == Len(b[t]) < MSG_QUEUE_LEN
Post(b, t, m) == IF Fits(b, t) THEN [b EXCEPT ![t] = Append(@, m)] ELSE b

\* Of the boxes b, those that grew have woken their owner.
Grown(b) == {t \in Slots : Len(b[t]) > Len(mailbox[t])}
Woken(b, blk) == [t \in Slots |-> blk[t] /\ ~(t \in Grown(b) /\ waiter[t])]
Popped(b) == [t \in Slots |-> waiter[t] /\ t \notin Grown(b)]

InUserCode(s) == pid[s] > 0 /\ ~blocked[s] /\ source[s] = NoCall

\* sys_ipc_send_handler and ipc_send; a refused message changes nothing.
IpcSend(s, t) ==
  /\ InUserCode(s) /\ pid[t] > 0
  /\ Capable(s, pid[t], "SEND")
  /\ mailbox' = Post(mailbox, t, pid[s])
  /\ blocked' = Woken(mailbox', blocked)
  /\ waiter' = Popped(mailbox')
  /\ UNCHANGED <<pid, next_pid, source, caps, share_table, shares>>

-----------------------------------------------------------------------------
(* Shared regions *)

\* The two range checks, of sys_ipc_share_handler and ipc_share: the product
\* and the sum are computed in 32 bits, and addresses are whole pages.
RangeAccepted(r) ==
  LET base == r[1]
      limit == (base + (r[2] % ADDRESS_PAGES)) % ADDRESS_PAGES
  IN  base > 0 /\ base < LIMIT_PAGES /\ r[2] > 0 /\ limit >= base /\ limit < LIMIT_PAGES

Links(sh, s) == Cardinality({l \in Regions \X {1, 2} : l[2] <= sh[s][l[1]]})

NeverUndone(sh, s, t, r) ==             \* mutant: the target has no room, and nobody undoes
  IF Links(sh, s) >= SHARED_PER_PROC THEN sh
  ELSE LET one == [sh EXCEPT ![s][r] = @ + 1]
       IN  IF Links(one, t) >= SHARED_PER_PROC THEN one ELSE [one EXCEPT ![t][r] = @ + 1]
\* share_attach_to_process for the owner and the target, undone unless both fit.
Attached(sh, s, t, r) ==
  IF Links(sh, s) >= SHARED_PER_PROC THEN sh
  ELSE LET one == [sh EXCEPT ![s][r] = @ + 1]
       IN  IF Links(one, t) >= SHARED_PER_PROC THEN sh ELSE [one EXCEPT ![t][r] = @ + 1]

\* Of the range only its owner and target are ever used again.
IpcShare(s, t) ==
  /\ InUserCode(s) /\ pid[t] > 0
  /\ Capable(s, pid[t], "SHARE")
  /\ \E range \in (0 .. ADDRESS_PAGES - 1) \X (1 .. ADDRESS_PAGES) : RangeAccepted(range)
  /\ \E r \in Regions : share_table[r] = Free
  /\ LET r == Min({q \in Regions : share_table[q] = Free})
     IN  /\ shares' = Attached(shares, s, t, r)
         /\ share_table' = IF shares' = shares THEN share_table
                           ELSE [share_table EXCEPT ![r] = [owner |-> pid[s], target |-> pid[t]]]
  /\ UNCHANGED <<pid, next_pid, mailVars, caps>>

\* share_drop_for_pid(p): the regions it frees, and the links both ends lose.
SharedBy(p) == {r \in Regions : p \in {share_table[r].owner, share_table[r].target}}
Ends(r, q) == (IF share_table[r].owner = q THEN 1 ELSE 0)
              + (IF share_table[r].target = q THEN 1 ELSE 0)
Detached(p) ==
  [s \in Slots |-> [r \in Regions |->
      IF r \in SharedBy(p) /\ pid[s] > 0
      THEN LET left == shares[s][r] - Ends(r, pid[s]) IN IF left > 0 THEN left ELSE 0
      ELSE shares[s][r]]]

=============================================================================
