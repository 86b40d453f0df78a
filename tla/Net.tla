---------------------------------- MODULE Net ----------------------------------
(***************************************************************************)
(* The network: the descriptor rings of kernel/e1000.c, the receive and    *)
(* send paths of net.c, ethernet.c, arp.c, ipv4.c and icmp.c, and the      *)
(* commands of the shell that drive them (net poll, net arp, net ping).    *)
(* The controller raises no interrupt (IMC is all ones) and only the       *)
(* shell's thread calls the stack, so that what runs beside it is the      *)
(* controller, which reads and fills descriptors at any time.              *)
(*                                                                         *)
(* The network loses, repeats, delays and reorders what it is given.  A    *)
(* frame is what the stack looks at: kind, the peer's IPv4 address and MAC *)
(* or sequence number; id tells apart requests with one sequence number.   *)
(***************************************************************************)
EXTENDS Integers, Sequences, FiniteSets, SequencesExt

CONSTANTS
  E1000_NUM_RX_DESC, E1000_NUM_TX_DESC,
  ARP_CACHE_CAPACITY, ICMP_REPLY_CAPACITY,
  SEQUENCES,              \* 2^16, the values of shell_ping_sequence
  Hosts, Macs,            \* IPv4 addresses and MACs of the network
  Counts,                 \* the counts the user gives to net ping
  MaxRequests,            \* bound on the requests numbered, so that no number comes back
  MaxFrames               \* bound on the frames the controller receives

ASSUME NetAssumption ==
  /\ E1000_NUM_RX_DESC > 1 /\ E1000_NUM_TX_DESC > 1
  /\ {ARP_CACHE_CAPACITY, ICMP_REPLY_CAPACITY} \cup Counts \subseteq Nat \ {0}
  /\ MaxRequests < SEQUENCES

Frame(k, ip, mac, seq, id) == [kind |-> k, ip |-> ip, mac |-> mac, seq |-> seq, id |-> id]
NoHost == "0.0.0.0"
NoFrame == Frame("none", NoHost, NoHost, 0, 0)
RxIndex == 0 .. E1000_NUM_RX_DESC - 1
TxIndex == 0 .. E1000_NUM_TX_DESC - 1

VARIABLES
  rx_descs, rx_head, rx_tail, rdh,    \* NoFrame: no DD; rx_tail is RDT, rdh the controller's RDH
  tx_descs, tx_head, tx_tail, tdh,    \* NoFrame: DD; tx_tail is TDT, tdh the controller's TDH
  arrived, accepted,      \* frames received and not handled yet, accepted and not sent yet
  air,                    \* echo replies under way
  frames,                 \* how many frames have been received
  g_cache,                \* ARP: slot -> [ip, mac, updated], NoHost where the slot is free
  g_replies,
  shell_ping_sequence,
  requests,               \* how many echo requests have been sent
  sh                      \* the shell: pc, whether it is in net_poll_devices, target, count left

rxVars == <<rx_descs, rx_head, rx_tail, rdh, arrived>>
txVars == <<tx_descs, tx_head, tx_tail, tdh, accepted>>
stackVars == <<g_cache, g_replies>>
pingVars == <<shell_ping_sequence, requests, sh>>
netVars == <<rxVars, txVars, air, frames, stackVars, pingVars>>

-----------------------------------------------------------------------------
(* The controller and the network *)

\* The controller owns the descriptors from RDH up to RDT.
NicReceive(f) ==
  /\ frames < MaxFrames /\ rdh # rx_tail
  /\ rx_descs' = [rx_descs EXCEPT ![rdh] = f]
  /\ rdh' = (rdh + 1) % E1000_NUM_RX_DESC
  /\ arrived' = Append(arrived, f)
  /\ frames' = frames + 1
  /\ UNCHANGED <<rx_head, rx_tail, txVars, air, stackVars, pingVars>>

\* Anything may arrive: ARP frames and echo requests of the hosts, replies to what was
\* sent, as often as the network likes, and frames the driver or the stack rejects.
Incoming ==
  air \cup {Frame(k, ip, mac, 0, 0) : k \in {"arp_request", "arp_reply"}, ip \in Hosts, mac \in Macs}
      \cup {Frame("echo_request", ip, NoHost, 0, 0) : ip \in Hosts}
      \cup {Frame("rejected", NoHost, NoHost, 0, 0)}

\* The controller sends from TDH up to TDT, and takes the ring for empty when they meet.
NicSend ==
  /\ tdh # tx_tail
  /\ LET f == tx_descs[tdh]
     IN  air' = IF f.kind = "echo_request"
                THEN air \cup {Frame("echo_reply", f.ip, NoHost, f.seq, f.id)} ELSE air
  /\ tx_descs' = [tx_descs EXCEPT ![tdh] = NoFrame]
  /\ tdh' = (tdh + 1) % E1000_NUM_TX_DESC
  /\ accepted' = Tail(accepted)
  /\ UNCHANGED <<rxVars, tx_head, tx_tail, frames, stackVars, pingVars>>

-----------------------------------------------------------------------------
(* Sending *)

NoDoneCheck == TRUE                     \* mutant: the descriptor is not looked at
TxRoom == tx_descs[tx_tail] = NoFrame   \* E1000_TXD_STAT_DD of the descriptor at the tail

\* e1000_net_transmit, behind ethernet_send_frame
Transmit(f) ==
  /\ TxRoom
  /\ tx_descs' = [tx_descs EXCEPT ![tx_tail] = f]
  /\ tx_tail' = (tx_tail + 1) % E1000_NUM_TX_DESC
  /\ accepted' = Append(accepted, f)

Cached(ip) == {i \in 1 .. ARP_CACHE_CAPACITY : g_cache[i].ip = ip}      \* arp_cache_lookup
MacOf(ip) == g_cache[CHOOSE i \in Cached(ip) : \A j \in Cached(ip) : i <= j].mac

\* ipv4_send: a destination that is not in the cache costs an ARP request, and the
\* packet itself is dropped.
OnTheWire(f) ==
  IF Cached(f.ip) = {} THEN Frame("arp_request", f.ip, "broadcast", 0, 0)
  ELSE [f EXCEPT !.mac = MacOf(f.ip)]

\* arp_cache_store: the entry of ip, or a free one, or the one updated longest ago.  The
\* ticks are taken as distinct.
CacheStored(ip, mac) ==
  LET free == Cached(NoHost)
      oldest == {i \in DOMAIN g_cache : \A j \in DOMAIN g_cache : g_cache[i].updated >= g_cache[j].updated}
      from == IF Cached(ip) # {} THEN Cached(ip) ELSE IF free # {} THEN free ELSE oldest
      slot == CHOOSE i \in from : \A j \in from : i <= j
  IN  [i \in DOMAIN g_cache |->
         IF i = slot THEN [ip |-> ip, mac |-> mac, updated |-> 0]
         ELSE [g_cache[i] EXCEPT !.updated = IF @ < ARP_CACHE_CAPACITY THEN @ + 1 ELSE @]]

\* record_reply: a full table loses its oldest reply.
Recorded(f) ==
  Append(IF Len(g_replies) >= ICMP_REPLY_CAPACITY THEN Tail(g_replies) ELSE g_replies, f)

-----------------------------------------------------------------------------
(* net_poll_devices *)

\* e1000_poll_tx: the driver's own head follows the descriptors that are done.
Reclaimed ==
  LET done == {n \in 0 .. E1000_NUM_TX_DESC - 1 :
                 /\ n <= (tx_tail - tx_head) % E1000_NUM_TX_DESC
                 /\ \A m \in 0 .. n - 1 : tx_descs[(tx_head + m) % E1000_NUM_TX_DESC] = NoFrame}
  IN  (tx_head + (CHOOSE n \in done : \A m \in done : m <= n)) % E1000_NUM_TX_DESC

PollStarts(pc) ==
  /\ sh.pc = pc /\ ~sh.polling
  /\ tx_head' = Reclaimed
  /\ sh' = [sh EXCEPT !.polling = TRUE]
  /\ UNCHANGED <<rxVars, tx_descs, tx_tail, tdh, accepted, air, frames, stackVars,
                 shell_ping_sequence, requests>>

\* net_receive_frame by way of ethernet_process_frame, for the kinds of frames.
Reply(f) ==
  CASE f.kind = "arp_request" -> Frame("arp_reply", f.ip, f.mac, 0, 0)
    [] f.kind = "echo_request" -> OnTheWire(Frame("echo_reply", f.ip, NoHost, f.seq, f.id))
    [] OTHER -> NoFrame

Handle(f) ==
  /\ g_cache' = IF f.kind \in {"arp_request", "arp_reply"} THEN CacheStored(f.ip, f.mac) ELSE g_cache
  /\ g_replies' = IF f.kind = "echo_reply" THEN Recorded(f) ELSE g_replies
  /\ IF Reply(f) # NoFrame /\ TxRoom THEN Transmit(Reply(f))
     ELSE UNCHANGED <<tx_descs, tx_tail, accepted>>

\* One descriptor of e1000_poll_rx: the frame is handled, the descriptor cleared and
\* given back to the controller, which may have filled others meanwhile.
PollFrame ==
  /\ sh.polling /\ rx_descs[rx_head] # NoFrame
  /\ Handle(rx_descs[rx_head])
  /\ rx_descs' = [rx_descs EXCEPT ![rx_head] = NoFrame]
  /\ rx_tail' = rx_head
  /\ rx_head' = (rx_head + 1) % E1000_NUM_RX_DESC
  /\ arrived' = Tail(arrived)
  /\ UNCHANGED <<rdh, tx_head, tdh, air, frames, pingVars>>

PollEnds ==
  /\ sh.polling /\ rx_descs[rx_head] = NoFrame
  /\ sh' = [sh EXCEPT !.polling = FALSE, !.pc = IF @ = "net_poll" THEN "prompt" ELSE @]
  /\ g_replies' = IF sh.pc = "net_poll" THEN <<>> ELSE g_replies   \* shell_flush_icmp_notifications
  /\ UNCHANGED <<rxVars, txVars, air, frames, g_cache, shell_ping_sequence, requests>>

-----------------------------------------------------------------------------
(* The commands *)

Prompt == [pc |-> "prompt", polling |-> FALSE, target |-> NoHost, left |-> 0]
Quiet == UNCHANGED <<rxVars, air, frames, tx_head, tdh, g_cache>>

NetPoll ==
  /\ sh = Prompt
  /\ sh' = [sh EXCEPT !.pc = "net_poll"]
  /\ UNCHANGED <<rxVars, txVars, air, frames, stackVars, shell_ping_sequence, requests>>

NetArp(ip) ==
  /\ sh = Prompt /\ Cached(ip) = {}
  /\ Transmit(Frame("arp_request", ip, "broadcast", 0, 0))
  /\ UNCHANGED <<pingVars, g_replies>> /\ Quiet

PerCommand == 1                         \* mutant: every net ping counts from 1
NextSequence == (shell_ping_sequence + 1) % SEQUENCES

\* command_net_ping: old replies are forgotten, and the first request is numbered.
NetPing(ip, count) ==
  /\ sh = Prompt /\ shell_ping_sequence + count <= MaxRequests
  /\ g_replies' = <<>>
  /\ shell_ping_sequence' = NextSequence
  /\ sh' = [sh EXCEPT !.pc = "transmit", !.target = ip, !.left = count - 1]
  /\ UNCHANGED <<rxVars, txVars, air, frames, g_cache, requests>>

\* shell_ping_transmit: the request goes out, or an ARP request does and the shell
\* waits for the answer, or the ring is full and the command gives up.
PingTransmit ==
  /\ sh.pc = "transmit"
  /\ LET f == OnTheWire(Frame("echo_request", sh.target, NoHost, shell_ping_sequence, requests + 1))
     IN  IF TxRoom
         THEN /\ Transmit(f)
              /\ sh' = [sh EXCEPT !.pc = IF f.kind = "echo_request" THEN "wait_reply" ELSE "wait_arp"]
              /\ requests' = IF f.kind = "echo_request" THEN requests + 1 ELSE requests
         ELSE sh' = Prompt /\ UNCHANGED <<tx_descs, tx_tail, accepted, requests>>
  /\ UNCHANGED <<g_replies, shell_ping_sequence>> /\ Quiet

\* shell_ping_wait_for_arp
ArpResolved ==
  /\ sh.pc = "wait_arp" /\ ~sh.polling /\ Cached(sh.target) # {}
  /\ sh' = [sh EXCEPT !.pc = "transmit"]
  /\ UNCHANGED <<rxVars, txVars, air, frames, stackVars, shell_ping_sequence, requests>>

\* The end of a request, and the interval before the next one.
NextRequest == IF sh.left = 0 THEN Prompt ELSE [sh EXCEPT !.pc = "interval"]

\* shell_ping_wait_for_reply and icmp_take_echo_reply; the identifier is always the same.
Answers(i) == g_replies[i].seq = shell_ping_sequence
ReplyTaken ==
  /\ sh.pc = "wait_reply" /\ ~sh.polling
  /\ \E i \in DOMAIN g_replies :
        /\ Answers(i) /\ \A j \in 1 .. i - 1 : ~Answers(j)
        /\ g_replies' = RemoveAt(g_replies, i)
  /\ sh' = NextRequest
  /\ UNCHANGED <<rxVars, txVars, air, frames, g_cache, shell_ping_sequence, requests>>

\* The deadline of either wait passes.
TimedOut ==
  /\ ~sh.polling
  /\ \/ sh.pc = "wait_arp" /\ Cached(sh.target) = {}
     \/ sh.pc = "wait_reply" /\ \A i \in DOMAIN g_replies : ~Answers(i)
  /\ sh' = NextRequest
  /\ UNCHANGED <<rxVars, txVars, air, frames, stackVars, shell_ping_sequence, requests>>

IntervalEnds ==
  /\ sh.pc = "interval" /\ ~sh.polling
  /\ shell_ping_sequence' = NextSequence
  /\ sh' = [sh EXCEPT !.pc = "transmit", !.left = @ - 1]
  /\ UNCHANGED <<rxVars, txVars, air, frames, stackVars, requests>>

-----------------------------------------------------------------------------
\* e1000_setup_rx and e1000_setup_tx: the controller may fill all but one descriptor.
NetInit ==
  /\ rx_descs = [i \in RxIndex |-> NoFrame] /\ rx_head = 0 /\ rdh = 0
  /\ rx_tail = E1000_NUM_RX_DESC - 1
  /\ tx_descs = [i \in TxIndex |-> NoFrame] /\ tx_head = 0 /\ tx_tail = 0 /\ tdh = 0
  /\ arrived = <<>> /\ accepted = <<>> /\ air = {} /\ frames = 0
  /\ g_cache = [i \in 1 .. ARP_CACHE_CAPACITY |-> [ip |-> NoHost, mac |-> NoHost, updated |-> 0]]
  /\ g_replies = <<>> /\ shell_ping_sequence = 0 /\ requests = 0 /\ sh = Prompt

NetNext ==
  \/ (\E f \in Incoming : NicReceive(f)) \/ NicSend
  \/ (\E pc \in {"net_poll", "wait_arp", "wait_reply", "interval"} : PollStarts(pc))
  \/ PollFrame \/ PollEnds
  \/ NetPoll \/ (\E ip \in Hosts : NetArp(ip)) \/ (\E ip \in Hosts, n \in Counts : NetPing(ip, n))
  \/ PingTransmit \/ ArpResolved \/ ReplyTaken \/ TimedOut \/ IntervalEnds

-----------------------------------------------------------------------------
(* Properties *)

\* The frames in a ring from the index h up to the index t.
RingOf(descs, h, t, size) == [i \in 1 .. (t - h) % size |-> descs[(h + i - 1) % size]]

\* Driver and controller agree on who owns which descriptor: from its head on the driver
\* finds exactly the frames that arrived, in order, and from TDH on the controller finds
\* exactly the frames e1000_net_transmit accepted, in order and not overwritten.  Only
\* with every descriptor in use do head and tail meet, and the controller sees none.
RingsAgree ==
  /\ RingOf(rx_descs, rx_head, rdh, E1000_NUM_RX_DESC) = arrived
  /\ \/ RingOf(tx_descs, tdh, tx_tail, E1000_NUM_TX_DESC) = accepted
     \/ Len(accepted) = E1000_NUM_TX_DESC /\ tdh = tx_tail

\* A reply that net ping may count while it waits answers the request it has just sent:
\* late and repeated replies to earlier requests, of this command or one before, do not
\* pass for it, although the table is emptied only when a command starts.
CountsOwnReplies ==
  sh.pc = "wait_reply" => \A i \in DOMAIN g_replies : Answers(i) => g_replies[i].id = requests
=============================================================================
