------------------------------ MODULE EchoDemo ------------------------------
(***************************************************************************)
(* The two user programs that talk over a channel at boot,                 *)
(* kernel/user/init.c and kernel/user/echo_service.c, run on Channel.      *)
(* A message is the number of "ECHO: " prefixes in front of "Hello"; 255   *)
(* bytes hold no more than MaxEchoes of them.  The error exits of the      *)
(* programs are out of reach here: the tables have room for two.           *)
(***************************************************************************)
EXTENDS Channel

CONSTANTS InitProc, EchoProc, MaxEchoes

VARIABLES
  pc,                     \* the next system call of each program
  reply,                  \* what init received, NoMessage before
  inbound                 \* what echo_service is about to echo

echoVars == <<chanVars, pc, reply, inbound>>

echo == SERVICES + 1                    \* g_echo_channel, the first user channel

EInit ==
  /\ ChannelInit
  /\ pc = [p \in Procs |-> IF p = InitProc THEN "create" ELSE "join"]
  /\ reply = NoMessage
  /\ inbound = NoMessage

Goto(p, here, there) == pc[p] = here /\ pc' = [pc EXCEPT ![p] = there]

\* What the programs do not choose: kmain creates init, and the scheduler runs them.
Machine ==
  /\ \/ booting /\ Create(InitProc)
     \/ \E p \in Procs : Dispatch(p) \/ Preempt(p) \/ Reclaim(p)
  /\ UNCHANGED <<pc, reply, inbound>>

InitStep ==
  \/ /\ Goto(InitProc, "create", "join")
     /\ ChannelCreate(InitProc, FALSE)
     /\ UNCHANGED <<reply, inbound>>
  \/ /\ Goto(InitProc, "join", "spawn")
     /\ Join(InitProc, echo)
     /\ UNCHANGED <<reply, inbound>>
  \/ /\ Goto(InitProc, "spawn", "send")
     /\ Create(EchoProc)
     /\ UNCHANGED <<reply, inbound>>
  \/ /\ Goto(InitProc, "send", "recv")
     /\ Send(InitProc, echo, 0)
     /\ UNCHANGED <<reply, inbound>>
  \/ /\ pc[InitProc] = "recv"
     /\ ReceiveBlock(InitProc, echo)
     /\ UNCHANGED <<pc, reply, inbound>>
  \/ /\ Goto(InitProc, "recv", "exit")
     /\ ReceiveMessage(InitProc, echo)
     /\ reply' = received'
     /\ UNCHANGED inbound
  \/ /\ Goto(InitProc, "exit", "gone")
     /\ Exit(InitProc)
     /\ UNCHANGED <<reply, inbound>>

EchoStep ==
  \/ /\ Goto(EchoProc, "join", "recv")
     /\ Join(EchoProc, echo)
     /\ UNCHANGED <<reply, inbound>>
  \/ /\ pc[EchoProc] = "recv"
     /\ ReceiveBlock(EchoProc, echo)
     /\ UNCHANGED <<pc, reply, inbound>>
  \/ /\ Goto(EchoProc, "recv", "send")
     /\ ReceiveMessage(EchoProc, echo)
     /\ inbound' = received'
     /\ UNCHANGED reply
  \/ /\ Goto(EchoProc, "send", "recv")
     /\ Send(EchoProc, echo, IF inbound < MaxEchoes THEN inbound + 1 ELSE inbound)
     /\ UNCHANGED <<reply, inbound>>

ENext == Machine \/ InitStep \/ EchoStep \/ (OnlyIdle /\ UNCHANGED <<pc, reply, inbound>>)

EchoSpec == EInit /\ [][ENext]_echoVars

\* README.md says the programs demonstrate IPC with "ECHO: Hello": the message
\* init ends with would be its own greeting with one prefix.  But both programs
\* send and receive on the one channel.
EchoedOnce == pc[InitProc] \in {"exit", "gone"} => reply = 1

=============================================================================
