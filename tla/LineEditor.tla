------------------------------ MODULE LineEditor ------------------------------
(***************************************************************************)
(* The shell's line editor and history (kernel/shell.c): one action is one *)
(* pass of the loop in shell_read_line with a character to handle.  The    *)
(* history is a ring of SHELL_HISTORY_CAPACITY lines.  The line a newline  *)
(* ends is executed (shell_execute), which touches none of this.           *)
(***************************************************************************)
EXTENDS Integers, Sequences, SequencesExt

CONSTANTS
  INPUT_MAX,
  SHELL_HISTORY_CAPACITY,
  Letters                 \* the characters typed, besides the ones with a meaning

ASSUME EditorAssumption == INPUT_MAX > 1 /\ SHELL_HISTORY_CAPACITY > 0

VARIABLES
  line,                   \* buffer, up to len
  shell_history,          \* by index, <<>> where nothing was stored yet
  shell_history_count, shell_history_next,
  history_pos,
  entered                 \* the last lines entered, repetitions dropped, oldest first

editorVars == <<line, shell_history, shell_history_count, shell_history_next, history_pos, entered>>
historyVars == <<shell_history, shell_history_count, shell_history_next, entered>>

HistoryIndex(offset) ==
  (shell_history_next + SHELL_HISTORY_CAPACITY - 1 - offset) % SHELL_HISTORY_CAPACITY

\* history_get_latest, for an offset below the count
HistoryGetLatest(offset) == shell_history[HistoryIndex(offset)]

\* history_store: an empty line, or one like the last, is not stored.
Stored(l) == l # <<>> /\ ~(shell_history_count > 0 /\ HistoryGetLatest(0) = l)

StoreAtCount(l) ==                      \* mutant: a full ring is overwritten at its end
  IF Stored(l)
  THEN /\ shell_history' = [shell_history EXCEPT ![shell_history_next] = l]
       /\ shell_history_count' = IF shell_history_count < SHELL_HISTORY_CAPACITY
                                 THEN shell_history_count + 1 ELSE shell_history_count
       /\ shell_history_next' = IF shell_history_next + 1 < SHELL_HISTORY_CAPACITY
                                THEN shell_history_next + 1 ELSE shell_history_next
  ELSE UNCHANGED <<shell_history, shell_history_count, shell_history_next>>
HistoryStore(l) ==
  IF Stored(l)
  THEN /\ shell_history' = [shell_history EXCEPT ![shell_history_next] = l]
       /\ shell_history_next' = (shell_history_next + 1) % SHELL_HISTORY_CAPACITY
       /\ shell_history_count' = IF shell_history_count < SHELL_HISTORY_CAPACITY
                                 THEN shell_history_count + 1 ELSE shell_history_count
  ELSE UNCHANGED <<shell_history, shell_history_count, shell_history_next>>

-----------------------------------------------------------------------------
ArrowUp ==
  /\ shell_history_count > 0
  /\ history_pos' = IF history_pos + 1 < shell_history_count THEN history_pos + 1 ELSE history_pos
  /\ line' = HistoryGetLatest(history_pos')              \* shell_replace_input
  /\ UNCHANGED historyVars

ArrowDown ==
  /\ shell_history_count > 0 /\ history_pos >= 0
  /\ history_pos' = history_pos - 1
  /\ line' = IF history_pos > 0 THEN HistoryGetLatest(history_pos') ELSE <<>>
  /\ UNCHANGED historyVars

Backspace ==
  /\ line' = IF line = <<>> THEN line ELSE Front(line)
  /\ history_pos' = -1
  /\ UNCHANGED historyVars

\* A character that finds the line full is dropped, and nothing changes.
Typed(c) ==
  /\ Len(line) + 1 < INPUT_MAX
  /\ line' = Append(line, c)
  /\ history_pos' = -1
  /\ UNCHANGED historyVars

\* The newline ends shell_read_line; shell_run stores the line and reads the next.
NewLine ==
  /\ HistoryStore(line)
  /\ entered' = IF line = <<>> \/ (entered # <<>> /\ Last(entered) = line) THEN entered
                ELSE LET all == Append(entered, line)
                     IN  IF Len(all) > SHELL_HISTORY_CAPACITY THEN Tail(all) ELSE all
  /\ line' = <<>> /\ history_pos' = -1

EditorInit ==
  /\ line = <<>> /\ entered = <<>> /\ history_pos = -1
  /\ shell_history = [i \in 0 .. SHELL_HISTORY_CAPACITY - 1 |-> <<>>]
  /\ shell_history_count = 0 /\ shell_history_next = 0

EditorNext ==
  ArrowUp \/ ArrowDown \/ Backspace \/ NewLine \/ \E c \in Letters : Typed(c)

-----------------------------------------------------------------------------
(* Properties *)

\* The arrow keys walk through the lines as they were entered: while history_pos is
\* not -1 the line on the screen is the one entered history_pos lines before the last,
\* however often the ring has wrapped and whatever was typed in between.
RecallsEntered ==
  history_pos >= 0 => /\ history_pos < Len(entered)
                      /\ line = entered[Len(entered) - history_pos]
=============================================================================
