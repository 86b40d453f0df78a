--------------------------------- MODULE Files ---------------------------------
(***************************************************************************)
(* The name space (kernel/vfs.c), the RAM volume mounted at /System        *)
(* (kernel/ramfs.c) and the two kinds of file the kernel keeps in it: the  *)
(* logs (kernel/klog.c) and the task list (kernel/debug.c).                *)
(*                                                                         *)
(* Nothing locks a volume.  User processes reach it from system calls,     *)
(* with interrupts off: they log and they republish the task list, each in *)
(* one action.  The shell thread runs with interrupts on, and its walks    *)
(* over the table are steps that those actions come between.  A name is a  *)
(* sequence of components below the mount point.  Of the data of a file    *)
(* only the log lines in the log files are kept, by sequence number.       *)
(***************************************************************************)
EXTENDS Integers, Sequences, FiniteSets, FiniteSetsExt, SequencesExt

CONSTANTS
  VFS_MAX_MOUNTS,
  RAMFS_MAX_FILES,
  FILE_LINES,             \* RAMFS_MAX_FILE_SIZE, in log lines
  KLOG_CAPACITY,
  Sinks,                  \* the files in /System/Logs
  MaxLines                \* bound: lines logged

ASSUME FilesAssumption ==
  {VFS_MAX_MOUNTS, RAMFS_MAX_FILES, FILE_LINES, KLOG_CAPACITY, MaxLines} \subseteq Nat \ {0}

FileSlots == 1 .. RAMFS_MAX_FILES
Unused == [used |-> FALSE, name |-> <<>>, dir |-> FALSE, lines |-> <<>>]
Logs == <<"Logs">>
Tasks == <<"tasks">>
SinkFiles == {<<"Logs", s>> : s \in Sinks}

VARIABLES
  files,                  \* the table of the volume at /System
  klog_buffer, klog_head, klog_count, klog_sequence,
  proc_sink_guard,
  shell                   \* the step the shell thread is at, and its locals

klogVars == <<klog_buffer, klog_head, klog_count, klog_sequence, proc_sink_guard>>
filesVars == <<files, klogVars, shell>>

-----------------------------------------------------------------------------
(* vfs.c: what a path names *)

\* normalize_path and shell_normalize_absolute on the components of an absolute path.
Normalized(path) ==
  LET Step(done, s) == CASE s = "." -> done
                         [] s = ".." -> (IF done = <<>> THEN done ELSE Front(done))
                         [] OTHER -> Append(done, s)
  IN  FoldLeft(Step, <<>>, path)

\* The table after the one call of vfs_register_alias, by fat16_mount_volume.
Aliases == {[alias |-> <<"Users">>, target |-> <<"Volumes", "Disk0", "Users">>]}

\* apply_alias
Aliased(path) ==
  LET hits == {a \in Aliases : IsPrefix(a.alias, path)}
  IN  IF hits = {} THEN path
      ELSE LET a == CHOOSE h \in hits : TRUE
           IN  a.target \o SubSeq(path, Len(a.alias) + 1, Len(path))

\* The calls of vfs_mount, in the order of vfs_init and kmain; a full table refuses.
MountOrder ==
  << <<>>, <<"System">>, <<"Volumes">>, <<"Users">>, <<"Apps">>, <<"Temp">>, <<"Devices">>,
     <<"Volumes", "Disk0">>, <<"Volumes", "Disk1">>, <<"Volumes", "Disk2">> >>
Mounts == {MountOrder[i] : i \in 1 .. Min({VFS_MAX_MOUNTS, Len(MountOrder)})}

\* resolve_mount: the longest mount point that is a prefix, and the name below it.
Resolved(path) ==
  LET p == Normalized(Aliased(path))
      point == CHOOSE m \in Mounts : /\ IsPrefix(m, p)
                                     /\ \A n \in Mounts : IsPrefix(n, p) => Len(n) <= Len(m)
  IN  [mount |-> point, name |-> SubSeq(p, Len(point) + 1, Len(p))]

\* The names on the volume at /System that the shell reaches by a typed path.
InSystem(path) ==
  LET r == Resolved(Normalized(path))
  IN  IF r.mount = <<"System">> /\ r.name # <<>> THEN {r.name} ELSE {}

-----------------------------------------------------------------------------
(* ramfs.c *)

FindEntry(f, n) == {i \in FileSlots : f[i].used /\ f[i].name = n}
Entry(f, n) == Min(FindEntry(f, n))

ParentUnchecked(f, n) == TRUE           \* mutant: the parent is taken for granted
\* ensure_parent_directory
ParentExists(f, n) ==
  \/ Len(n) = 1
  \/ FindEntry(f, Front(n)) # {} /\ f[Entry(f, Front(n))].dir

FreeSlots(f) == {i \in FileSlots : ~f[i].used}

\* ramfs_volume_write and _append of a file by a system call: create_entry, then the data.
Creatable(f, n) ==
  IF FindEntry(f, n) # {} THEN ~f[Entry(f, n)].dir ELSE ParentExists(f, n) /\ FreeSlots(f) # {}
Stored(f, n, lines) ==
  IF ~Creatable(f, n) THEN f
  ELSE LET i == IF FindEntry(f, n) # {} THEN Entry(f, n) ELSE Min(FreeSlots(f))
       IN  [f EXCEPT ![i] = [used |-> TRUE, name |-> n, dir |-> FALSE, lines |-> lines]]

-----------------------------------------------------------------------------
(* klog.c.  A line is its sequence number and the sink classify_log_sink    *)
(* chooses for it.                                                          *)

\* klog_store_entry
StoreEntry(sink) ==
  /\ klog_sequence < MaxLines
  /\ klog_sequence' = klog_sequence + 1
  /\ klog_buffer' = [klog_buffer EXCEPT ![klog_head] = [seq |-> klog_sequence + 1, sink |-> sink]]
  /\ klog_head' = (klog_head + 1) % KLOG_CAPACITY
  /\ klog_count' = Min({klog_count + 1, KLOG_CAPACITY})

\* klog_copy: the lines in the buffer, oldest first.
Copied(buffer, head, count) ==
  [i \in 1 .. count |-> buffer[(head + KLOG_CAPACITY - count + i - 1) % KLOG_CAPACITY]]

\* What vfs_append makes of a log file: a line that does not fit is left out.
Appended(lines, s) == IF Len(lines) < FILE_LINES THEN Append(lines, s) ELSE lines
LinesOf(entries, n) ==
  LET mine == SelectSeq(entries, LAMBDA e : <<"Logs", e.sink>> = n)
  IN  [i \in 1 .. Min({Len(mine), FILE_LINES}) |-> mine[i].seq]

\* klog_refresh_proc_sink all at once, as a system call runs it.
Refreshed(f, entries) ==
  LET order == SetToSeq(SinkFiles)
      after[k \in 0 .. Len(order)] ==
        IF k = 0 THEN f ELSE Stored(after[k - 1], order[k], LinesOf(entries, order[k]))
  IN  after[Len(order)]

Unguarded == FALSE                      \* mutant: proc_sink_guard is not looked at
Guarded == proc_sink_guard

-----------------------------------------------------------------------------
(* System calls of user processes, between any two steps of the shell *)

\* A call that logs, as service_start and ipc_recv do: klog_emit_tagged.
SyscallLogs ==
  \E sink \in Sinks :
    /\ StoreEntry(sink)
    /\ files' = IF Guarded THEN files ELSE Refreshed(files, Copied(klog_buffer', klog_head', klog_count'))
    /\ UNCHANGED <<proc_sink_guard, shell>>

\* process_create and process_exit: debug_publish_task_list.
SyscallPublishes ==
  /\ files' = Stored(files, Tasks, <<>>)
  /\ UNCHANGED <<klogVars, shell>>

-----------------------------------------------------------------------------
(* The shell thread *)

Idle == [at |-> "idle"]
AtStep(s) == shell.at = s
Go(next) == shell' = next
\* create_entry after its lookups, on the way to the step `then`.
Picking(n, dir, then) == [at |-> "pick", name |-> n, dir |-> dir, then |-> then]

\* klog_emit_tagged by a command: the store has interrupts off, the rest has not.
ShellLogs ==
  /\ AtStep("idle")
  /\ \E sink \in Sinks : StoreEntry(sink)
  /\ Go([at |-> "refresh"])
  /\ UNCHANGED <<files, proc_sink_guard>>

Guard ==
  /\ AtStep("refresh")
  /\ Go(IF proc_sink_guard THEN Idle ELSE [at |-> "copy"])
  /\ proc_sink_guard' = TRUE
  /\ UNCHANGED <<files, klog_buffer, klog_head, klog_count, klog_sequence>>

CopyLines ==
  /\ AtStep("copy")
  /\ Go([at |-> "truncate", left |-> SinkFiles, entries |-> Copied(klog_buffer, klog_head, klog_count)])
  /\ UNCHANGED <<files, klogVars>>

\* The calls of vfs_write_file with no data; the order of the sinks does not matter.
Truncate ==
  /\ AtStep("truncate")
  /\ \E n \in shell.left :
       LET then == [shell EXCEPT !.left = @ \ {n}, !.at = IF shell.left = {n} THEN "append" ELSE @]
       IN  IF FindEntry(files, n) = {} /\ ParentExists(files, n)
           THEN files' = files /\ Go(Picking(n, FALSE, then))
           ELSE files' = Stored(files, n, <<>>) /\ Go(then)
  /\ UNCHANGED klogVars

AppendLine ==
  /\ AtStep("append") /\ shell.entries # <<>>
  /\ LET e == Head(shell.entries)
         n == <<"Logs", e.sink>>
     IN  files' = Stored(files, n, Appended(IF FindEntry(files, n) = {} THEN <<>>
                                            ELSE files[Entry(files, n)].lines, e.seq))
  /\ Go([shell EXCEPT !.entries = Tail(@)])
  /\ UNCHANGED klogVars

Unguard ==
  /\ AtStep("append") /\ shell.entries = <<>>
  /\ proc_sink_guard' = FALSE /\ Go(Idle)
  /\ UNCHANGED <<files, klog_buffer, klog_head, klog_count, klog_sequence>>

\* Making an entry by a path in /System, up to the search for a slot.
Create(path, dir) ==
  /\ AtStep("idle")
  /\ \E n \in InSystem(path) :
       /\ FindEntry(files, n) = {} /\ ParentExists(files, n)
       /\ Go(Picking(n, dir, Idle))
  /\ UNCHANGED <<files, klogVars>>

\* echo into a file, which is not a log file, and mkdir.
Echo(path) == InSystem(path) \cap SinkFiles = {} /\ Create(path, FALSE)
MakeDirectory(path) == Create(path, TRUE)

\* The loop of create_entry up to the test of the slot that it takes.
Pick ==
  /\ AtStep("pick")
  /\ Go(IF FreeSlots(files) = {} THEN shell.then
        ELSE [at |-> "claim", name |-> shell.name, dir |-> shell.dir, then |-> shell.then,
              slot |-> Min(FreeSlots(files))])
  /\ UNCHANGED <<files, klogVars>>

Claim ==
  /\ AtStep("claim")
  /\ files' = [files EXCEPT ![shell.slot].used = TRUE, ![shell.slot].lines = <<>>]
  /\ Go([shell EXCEPT !.at = "name"])
  /\ UNCHANGED klogVars

\* str_copy and is_directory; what is written into the file is not kept.
NameIt ==
  /\ AtStep("name")
  /\ files' = [files EXCEPT ![shell.slot] =
                 [used |-> TRUE, name |-> shell.name, dir |-> shell.dir, lines |-> <<>>]]
  /\ Go(shell.then)
  /\ UNCHANGED klogVars

\* rm on a path in /System: ramfs_volume_remove up to the assignment of used.
Unlink(path) ==
  /\ AtStep("idle")
  /\ \E n \in InSystem(path) :
       /\ FindEntry(files, n) # {}
       /\ LET i == Entry(files, n)
          IN  /\ files' = [files EXCEPT ![i].used = FALSE]
              /\ Go([at |-> "wipe", name |-> n, slot |-> i, next |-> IF files[i].dir THEN 1 ELSE 0])
  /\ UNCHANGED klogVars

\* The other fields of the entry.
Wipe ==
  /\ AtStep("wipe")
  /\ files' = [files EXCEPT ![shell.slot] = [Unused EXCEPT !.used = files[shell.slot].used]]
  /\ Go(IF shell.next \in FileSlots THEN [shell EXCEPT !.at = "children", !.slot = 0] ELSE Idle)
  /\ UNCHANGED klogVars

\* The loop over the table after a directory, one slot at a time.
Cascade ==
  /\ AtStep("children")
  /\ LET i == shell.next
         below == files[i].used /\ IsStrictPrefix(shell.name, files[i].name)
     IN  IF below
         THEN /\ files' = [files EXCEPT ![i].used = FALSE]
              /\ Go([shell EXCEPT !.at = "wipe", !.slot = i, !.next = i + 1])
         ELSE /\ files' = files
              /\ Go(IF i + 1 \in FileSlots THEN [shell EXCEPT !.next = i + 1] ELSE Idle)
  /\ UNCHANGED klogVars

-----------------------------------------------------------------------------
\* klog_enable_proc_sink and debug_publish_all have run.
FilesInit ==
  /\ LET boot == <<Logs>> \o SetToSeq(SinkFiles) \o <<Tasks>>
     IN  files = [i \in FileSlots |->
           IF i <= Len(boot) THEN [used |-> TRUE, name |-> boot[i], dir |-> i = 1, lines |-> <<>>]
           ELSE Unused]
  /\ klog_buffer = [i \in 0 .. KLOG_CAPACITY - 1 |-> [seq |-> 0, sink |-> ""]]
  /\ klog_head = 0 /\ klog_count = 0 /\ klog_sequence = 0
  /\ proc_sink_guard = FALSE
  /\ shell = Idle

\* What the user types: among them a path through "..", a mount point and an alias.
CreatedPaths == {<<"System", "notes">>, <<"Temp", "..", "System", "Logs", "notes">>, <<"Users", "notes">>}
RemovedPaths == {<<"System", "Logs">>, <<"System", "tasks">>, <<"System">>, <<"System", "notes">>}
                \cup {<<"System">> \o n : n \in SinkFiles}

Touches ==
  \/ \E path \in CreatedPaths : Echo(path)
  \/ \E path \in {<<"System", "Logs">>, <<"System", "tasks">>} : MakeDirectory(path)
  \/ \E path \in RemovedPaths : Unlink(path)

ShellStep ==
  \/ ShellLogs \/ Guard \/ CopyLines \/ Truncate \/ AppendLine \/ Unguard
  \/ Touches \/ Pick \/ Claim \/ NameIt \/ Wipe \/ Cascade

FilesNext == ShellStep \/ SyscallLogs \/ SyscallPublishes

-----------------------------------------------------------------------------
(* Properties *)

\* A file is only ever in a directory that exists, once rm is through with its cascade:
\* though system calls log and publish, and so create files, while the shell is half-way
\* through removing the directory they belong in.
NoOrphans ==
  shell.at \notin {"wipe", "children"} =>
    \A i \in FileSlots : files[i].used /\ Len(files[i].name) > 1 =>
      \E j \in FindEntry(files, Front(files[i].name)) : files[j].dir

\* No log file holds a line twice or out of order: a system call that logs while the shell
\* is rewriting the files keeps out of them (proc_sink_guard in klog_refresh_proc_sink).
LogsInOrder ==
  \A i \in FileSlots : LET lines == files[i].lines
                       IN  \A k \in 1 .. Len(lines) - 1 : lines[k] < lines[k + 1]

=============================================================================
