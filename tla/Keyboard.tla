------------------------------- MODULE Keyboard -------------------------------
(***************************************************************************)
(* Keyboard input: kernel/keyboard.c, the interrupt mailboxes of           *)
(* kernel/idt.c with the plain spinlocks of kernel/spinlock.c, the FIFO of *)
(* modules/ps2kbd_module.c, and the loop of shell_read_line that reads.    *)
(*                                                                         *)
(* Interrupt handlers and system calls run with interrupts off, so each is *)
(* one action.  The shell is a kernel thread that runs with interrupts on: *)
(* every access it makes to state it shares with them is a step of its own *)
(* (th.pc), also when it handles a scancode itself (kb_poll), and also     *)
(* while it holds a lock.                                                  *)
(***************************************************************************)
EXTENDS Integers, Sequences, SequencesExt

CONSTANTS
  KB_BUFFER_SIZE,
  IRQ_MAILBOX_CAPACITY,
  KEY_FIFO_CAPACITY,
  Keys,                   \* which of "a", "enter", "up", "shift" the user presses
  MaxTyped              \* bound on the characters typed

ASSUME KeyboardAssumption ==
  /\ KB_BUFFER_SIZE > 1 /\ IRQ_MAILBOX_CAPACITY > 0 /\ KEY_FIFO_CAPACITY > 1
  /\ Keys \subseteq {"a", "enter", "up", "shift"} /\ MaxTyped \in Nat

None == "NUL"
E0 == [key |-> "E0", release |-> FALSE, n |-> 0]

VARIABLES
  held_keys, wire,        \* the keyboard: keys down, bytes it has still to send
  port, obf, irr,         \* the controller: data register, output full, IRQ1 requested
  kb,                     \* buffer, head and tail
  shift_active, extended_active,
  irq_lock,               \* the lock the shell holds: "irq_table", "mailbox" or None
  hung,                   \* who spins on that lock with interrupts off, for ever, or None
  kbd_mailbox, key_fifo,  \* how many events the mailbox and the module's FIFO hold
  th,                     \* the shell's thread: pc, the byte and character at hand, next
  want,                   \* the characters typed, or only their number once kb_poll found a byte
  got,                    \* the characters the shell has read, until kb_poll finds a byte
  met                     \* "polled": kb_poll has found a byte; "full": a character was dropped

Running == hung = None

ctlVars == <<port, obf, irr>>
decVars == <<kb, shift_active, extended_active>>
modVars == <<kbd_mailbox, key_fifo>>
userVars == <<held_keys, wire, want>>
keyboardVars == <<userVars, ctlVars, decVars, irq_lock, hung, modVars, th, got, met>>

-----------------------------------------------------------------------------
(* Decoding *)

\* translate_scancode, and the characters keyboard_handle_scancode gives itself:
\* of the codes used here, the one of "up" means nothing without the prefix.
Char(key, extended, shift) ==
  CASE extended -> IF key = "up" THEN "UP" ELSE None
    [] key = "a" -> IF shift THEN "A" ELSE "a"
    [] key = "enter" -> "NL"
    [] OTHER -> None

\* What keyboard_handle_scancode does with a byte: a character to push, an event
\* to dispatch (a key without a character is dropped), and the flags it leaves.
Pushed(b, ext, shift) == IF b.release THEN None ELSE Char(b.key, ext, shift)
Dispatched(b, ext, shift) ==
  b # E0 /\ (ext \/ b.release \/ b.key = "shift" \/ Char(b.key, FALSE, shift) # None)

StickyPrefix(b, ext) == b = E0 \/ ext                \* mutant: the prefix is never cleared
ExtendedAfter(b, ext) == b = E0
ShiftAfter(b, ext, shift) ==
  IF b.key = "shift" /\ ~ext THEN ~b.release ELSE shift

\* buffer_push, at once
NextIndex(i) == (i + 1) % KB_BUFFER_SIZE
BufferPush(k, c, n) ==
  IF c = None \/ NextIndex(k.head) = k.tail THEN k
  ELSE [k EXCEPT !.buffer[k.head] = <<c, n>>, !.head = NextIndex(@)]

\* mailbox_push: when the mailbox is full the oldest event makes room.
MailboxPush == IF kbd_mailbox >= IRQ_MAILBOX_CAPACITY THEN kbd_mailbox ELSE kbd_mailbox + 1

-----------------------------------------------------------------------------
(* The user, the controller and the interrupt *)

Scancode(key, release, n) ==
  (IF key = "up" THEN <<E0>> ELSE <<>>) \o <<[key |-> key, release |-> release, n |-> n]>>

\* What the user means by a key: an arrow, or a character in the case of the shift key.
Meant(key) == IF key = "up" THEN "UP" ELSE Char(key, FALSE, "shift" \in held_keys)

Press(key) ==
  /\ wire = <<>> /\ key \notin held_keys
  /\ Len(want) < MaxTyped
  /\ held_keys' = held_keys \cup {key}
  /\ want' = IF key = "shift" THEN want
             ELSE Append(want, <<IF "polled" \in met THEN None ELSE Meant(key), Len(want) + 1>>)
  /\ wire' = Scancode(key, FALSE, Len(want'))
  /\ UNCHANGED <<ctlVars, decVars, irq_lock, hung, modVars, th, got, met>>

Release(key) ==
  /\ wire = <<>> /\ key \in held_keys
  /\ held_keys' = held_keys \ {key}
  /\ wire' = Scancode(key, TRUE, 0)
  /\ UNCHANGED <<want, ctlVars, decVars, irq_lock, hung, modVars, th, got, met>>

\* The controller takes the next byte only when the last one has been read.
Transfer ==
  /\ wire # <<>> /\ ~obf
  /\ port' = Head(wire) /\ wire' = Tail(wire)
  /\ obf' = TRUE /\ irr' = TRUE
  /\ UNCHANGED <<held_keys, want, decVars, irq_lock, hung, modVars, th, got, met>>

\* irq_handler, keyboard_irq_handler and the EOI.  An event to dispatch takes
\* irq_table_lock and the mailbox's lock; if the thread it interrupted holds one
\* of the two, the handler spins and the thread never runs again.
Irq1 ==
  /\ irr /\ Running
  /\ irr' = FALSE /\ obf' = FALSE
  /\ kb' = BufferPush(kb, Pushed(port, extended_active, shift_active), port.n)
  /\ IF Dispatched(port, extended_active, shift_active) /\ irq_lock # None
     THEN /\ hung' = "irq1"
          /\ UNCHANGED <<shift_active, extended_active, kbd_mailbox>>
     ELSE /\ extended_active' = ExtendedAfter(port, extended_active)
          /\ shift_active' = ShiftAfter(port, extended_active, shift_active)
          /\ kbd_mailbox' = IF Dispatched(port, extended_active, shift_active)
                            THEN MailboxPush ELSE kbd_mailbox
          /\ UNCHANGED hung
  /\ met' = met \cup (IF Pushed(port, extended_active, shift_active) # None
                          /\ NextIndex(kb.head) = kb.tail /\ "polled" \notin met
                       THEN {"full"} ELSE {})
  /\ UNCHANGED <<userVars, port, irq_lock, key_fifo, th, got>>

-----------------------------------------------------------------------------
(* The shell's thread: shell_read_line *)

Reading == [pc |-> "getchar", byte |-> E0, char |-> <<None, 0>>, ext |-> FALSE, next |-> 0]
At(pc) == th.pc = pc /\ Running
Goto(pc) == th' = [th EXCEPT !.pc = pc]

\* kb_getchar: the oldest character is read, and only then its slot given back.
GetChar ==
  /\ At("getchar") /\ kb.head # kb.tail
  /\ th' = [th EXCEPT !.pc = "advance", !.char = kb.buffer[kb.tail]]
  /\ UNCHANGED <<userVars, ctlVars, decVars, irq_lock, hung, modVars, got, met>>

\* A line that is complete is executed, and `cat /Devices/Keyboard` is a command.
Advance ==
  /\ At("advance")
  /\ kb' = [kb EXCEPT !.tail = NextIndex(@)]
  /\ got' = IF "polled" \in met THEN got ELSE Append(got, th.char)
  /\ \E pc \in IF th.char[1] = "NL" THEN {"getchar", "receive"} ELSE {"getchar"} :
        th' = [Reading EXCEPT !.pc = pc]
  /\ UNCHANGED <<userVars, ctlVars, shift_active, extended_active, irq_lock, hung, modVars, met>>

\* kb_poll: the status, then the data.  An interrupt in between has taken the byte,
\* and the data register still shows it.
PollStatus ==
  /\ At("getchar") /\ kb.head = kb.tail
  /\ Goto(IF obf THEN "data" ELSE "halt")
  /\ UNCHANGED <<userVars, ctlVars, decVars, irq_lock, hung, modVars, got, met>>

\* Whether the interrupt controller forgets a request whose byte is gone is its own affair.
PollData ==
  /\ At("data")
  /\ obf' = FALSE /\ irr' \in {irr, FALSE}
  /\ met' = {"polled"} /\ got' = <<>> /\ want' = [i \in DOMAIN want |-> <<None, i>>]
  /\ th' = [th EXCEPT !.pc = "decode", !.byte = port]
  /\ UNCHANGED <<held_keys, wire, port, decVars, irq_lock, hung, modVars>>

\* hlt: the next interrupt, the timer's if no other, ends it.
Halt ==
  /\ At("halt")
  /\ Goto("getchar")
  /\ UNCHANGED <<userVars, ctlVars, decVars, irq_lock, hung, modVars, got, met>>

\* keyboard_handle_scancode in the thread, up to the first use of the buffer.
Decode ==
  /\ At("decode")
  /\ LET c == Pushed(th.byte, extended_active, shift_active)
         d == Dispatched(th.byte, extended_active, shift_active)
     IN  th' = IF c = None /\ ~d THEN Reading
               ELSE [th EXCEPT !.char = <<c, th.byte.n>>, !.ext = extended_active,
                               !.pc = IF c # None THEN "push" ELSE "lock"]
  /\ extended_active' = (extended_active \/ th.byte = E0)
  /\ shift_active' = (shift_active \/ (~th.byte.release /\ ShiftAfter(th.byte, extended_active, FALSE)))
  /\ UNCHANGED <<userVars, ctlVars, kb, irq_lock, hung, modVars, got, met>>

\* buffer_push: next is computed, the character stored at head as it is then, head set.
PushCheck ==
  /\ At("push")
  /\ th' = [th EXCEPT !.next = NextIndex(kb.head),
                      !.pc = IF NextIndex(kb.head) = kb.tail THEN "lock" ELSE "store"]
  /\ UNCHANGED <<userVars, ctlVars, decVars, irq_lock, hung, modVars, got, met>>
PushStore ==
  /\ At("store")
  /\ kb' = [kb EXCEPT !.buffer[kb.head] = th.char]
  /\ Goto("bump")
  /\ UNCHANGED <<userVars, ctlVars, shift_active, extended_active, irq_lock, hung, modVars, got, met>>
PushBump ==
  /\ At("bump")
  /\ kb' = [kb EXCEPT !.head = th.next]
  /\ th' = [th EXCEPT !.pc = "lock", !.char = <<None, 0>>, !.next = 0]
  /\ UNCHANGED <<userVars, ctlVars, shift_active, extended_active, irq_lock, hung, modVars, got, met>>

\* irq_dispatch_event: the subscribers are copied under irq_table_lock, then the event
\* goes into the mailbox under the mailbox's lock, and the flags follow.
LockTable ==
  /\ At("lock")
  /\ irq_lock' = "irq_table" /\ Goto("targets")
  /\ UNCHANGED <<userVars, ctlVars, decVars, hung, modVars, got, met>>
UnlockTable ==
  /\ At("targets")
  /\ irq_lock' = None /\ Goto("deliver")
  /\ UNCHANGED <<userVars, ctlVars, decVars, hung, modVars, got, met>>
LockBox ==
  /\ At("deliver")
  /\ irq_lock' = "mailbox" /\ Goto("enqueue")
  /\ UNCHANGED <<userVars, ctlVars, decVars, hung, modVars, got, met>>
Enqueue ==
  /\ At("enqueue")
  /\ kbd_mailbox' = MailboxPush
  /\ irq_lock' = None /\ Goto("flags")
  /\ UNCHANGED <<userVars, ctlVars, decVars, hung, key_fifo, got, met>>
Flags ==
  /\ At("flags")
  /\ extended_active' = (extended_active /\ ~th.ext)
  /\ shift_active' = (shift_active /\ ~(th.byte.release /\ th.byte.key = "shift" /\ ~th.ext))
  /\ th' = Reading
  /\ UNCHANGED <<userVars, ctlVars, kb, irq_lock, hung, modVars, got, met>>

-----------------------------------------------------------------------------
(* The module's own queue *)

\* process_pending_events on an event: every event that is dispatched has an entry
\* in the FIFO, unless the FIFO is full.
FifoPush(f, events) ==
  IF f + events < KEY_FIFO_CAPACITY THEN f + events ELSE KEY_FIFO_CAPACITY - 1

\* keyboard_read for `cat`: an event at a time, each under the mailbox's lock.
LockReceive ==
  /\ At("receive")
  /\ irq_lock' = "mailbox" /\ Goto("received")
  /\ UNCHANGED <<userVars, ctlVars, decVars, hung, modVars, got, met>>
Receive ==
  /\ At("received")
  /\ irq_lock' = None
  /\ IF kbd_mailbox = 0
     THEN /\ th' = Reading /\ key_fifo' = 0             \* fifo_pop until it is empty
          /\ UNCHANGED kbd_mailbox
     ELSE /\ Goto("receive")
          /\ kbd_mailbox' = kbd_mailbox - 1
          /\ key_fifo' = FifoPush(key_fifo, 1)
  /\ UNCHANGED <<userVars, ctlVars, decVars, hung, got, met>>

\* sys_kbd_poll of a user process: it drains the mailbox and takes one entry.  The
\* shell may have been preempted with the mailbox's lock in hand.
SysKbdPoll ==
  /\ Running /\ kbd_mailbox + key_fifo > 0
  /\ IF irq_lock = "mailbox" THEN hung' = "sys_kbd_poll" /\ UNCHANGED modVars
     ELSE /\ kbd_mailbox' = 0
          /\ key_fifo' = FifoPush(key_fifo, kbd_mailbox) - 1
          /\ UNCHANGED hung
  /\ UNCHANGED <<userVars, ctlVars, decVars, irq_lock, th, got, met>>

-----------------------------------------------------------------------------
KeyboardInit ==
  /\ held_keys = {} /\ wire = <<>> /\ want = <<>> /\ got = <<>>
  /\ port = E0 /\ obf = FALSE /\ irr = FALSE /\ met = {}
  /\ kb = [buffer |-> [i \in 0 .. KB_BUFFER_SIZE - 1 |-> <<None, 0>>], head |-> 0, tail |-> 0]
  /\ shift_active = FALSE /\ extended_active = FALSE
  /\ irq_lock = None /\ hung = None
  /\ kbd_mailbox = 0 /\ key_fifo = 0
  /\ th = Reading

Poll == PollStatus \/ PollData \/ Halt \/ Decode \/ PushCheck \/ PushStore \/ PushBump
Dispatch == LockTable \/ UnlockTable \/ LockBox \/ Enqueue \/ Flags

KeyboardNext ==
  \/ Running /\ (\E key \in Keys : Press(key) \/ Release(key))
  \/ Running /\ Transfer
  \/ Irq1
  \/ GetChar \/ Advance \/ Poll \/ Dispatch
  \/ LockReceive \/ Receive \/ SysKbdPoll

-----------------------------------------------------------------------------
(* Properties *)

\* The characters read and those waiting in the buffer, in order; the one kb_getchar
\* has in hand is still in the buffer.
Buffered == [i \in 1 .. (kb.head - kb.tail) % KB_BUFFER_SIZE |->
                kb.buffer[(kb.tail + i - 1) % KB_BUFFER_SIZE]]
Read == got \o Buffered

\* What the user types reaches the shell: as long as kb_poll has not decoded a byte
\* beside the interrupt handler, every character read or waiting is one that was
\* typed, in the case the shift key gave it and in the order typed, and once the last
\* byte has been handled none is missing that did not meet a full buffer.
TypedIsRead ==
  "polled" \notin met =>
    /\ \A i \in DOMAIN Read : Read[i] = want[Read[i][2]]
    /\ \A i, j \in DOMAIN Read : i < j => Read[i][2] < Read[j][2]
    /\ wire = <<>> /\ ~irr /\ "full" \notin met => Len(Read) = Len(want)

\* The keyboard's interrupt, which the shell waits for, always returns: it never meets
\* a lock held by the thread it interrupted.
InterruptsReturn == hung # "irq1"
=============================================================================
