---------------------------- MODULE MessageQueues ----------------------------
(***************************************************************************)
(* What a channel promises its users: a bounded first-in first-out queue   *)
(* of messages per channel, each message handed out once.  The ring, the   *)
(* waiters, membership and scheduling are hidden.                          *)
(***************************************************************************)
EXTENDS Naturals, Sequences

CONSTANTS Queues, Payloads, Capacity, Nothing

VARIABLES
  queue,                  \* per channel, the messages in the order they were accepted
  last                    \* the message the latest receive returned

QInit ==
  /\ queue = [c \in Queues |-> <<>>]
  /\ last = Nothing

Put(c, m) ==
  /\ Len(queue[c]) < Capacity
  /\ queue' = [queue EXCEPT ![c] = Append(@, m)]
  /\ UNCHANGED last

Take(c) ==
  /\ queue[c] # <<>>
  /\ last' = Head(queue[c])
  /\ queue' = [queue EXCEPT ![c] = Tail(@)]

QNext == \E c \in Queues : Take(c) \/ \E m \in Payloads : Put(c, m)

QSpec == QInit /\ [][QNext]_<<queue, last>>

=============================================================================
