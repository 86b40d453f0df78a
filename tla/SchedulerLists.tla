--------------------------- MODULE SchedulerLists ---------------------------
(***************************************************************************)
(* Facts about the helpers of Scheduler: slices and priorities, what       *)
(* scheduler_enqueue_ready and scheduler_remove_from_ready do to the run   *)
(* queues, what the sleep list operations do to sleep_list.                *)
(***************************************************************************)
EXTENDS Scheduler, SeqLemmas

\* Idle is a slot, NULL is none, and the processes are the other slots.
LEMMA SlotFacts ==
  /\ Procs \subseteq Slots /\ Idle \in Slots /\ Idle \notin Procs /\ NULL \notin Slots
  /\ \A p \in Slots : p = Idle \/ p \in Procs
BY ConstantsAssumption DEF Procs, Slots, Idle, NULL

\* scheduler_timeslice_for_priority gives every level at least one tick.
LEMMA SliceFacts ==
  ASSUME NEW prio \in Levels
  PROVE  TimesliceFor(prio) \in Nat \ {0}
<1>1. Pow2[IF prio > 4 THEN 4 ELSE prio] \in Nat \ {0}
  BY ConstantsAssumption DEF Pow2, Levels
<1>2. \A a, b \in Nat \ {0} : a * b \in Nat \ {0}
  OBVIOUS
<1>3. QED BY <1>1, <1>2, ConstantsAssumption DEF TimesliceFor

\* Demotion, boost and the defaults stay among the levels.
LEMMA PriorityFacts ==
  /\ PRIORITY_MAX \in Levels
  /\ DefaultUserPriority \in Levels
  /\ DefaultKernelPriority \in Levels
  /\ \A b \in Levels : Boosted(b) \in Levels /\ Demoted(b) \in Levels
BY ConstantsAssumption
   DEF PRIORITY_MAX, Levels, DefaultUserPriority, DefaultKernelPriority, Boosted, Demoted

\* Charging a slice of which some was used raises vruntime.
LEMMA AccountFacts ==
  ASSUME TypeOK, NEW p \in Slots
  PROVE  /\ AccountRuntime(p) \in Nat
         /\ p # Idle /\ IsFair(p) /\ time_slice_remaining[p] < time_slice_ticks[p] =>
              AccountRuntime(p) > vruntime[p]
<1> DEFINE used == IF time_slice_remaining[p] <= time_slice_ticks[p]
                   THEN time_slice_ticks[p] - time_slice_remaining[p]
                   ELSE time_slice_ticks[p]
           weight == IF sched_weight[p] = 0 THEN BASE_WEIGHT ELSE sched_weight[p]
           scaled == (used * BASE_WEIGHT) \div weight
<1>1. used \in Nat /\ weight \in Nat \ {0} /\ vruntime[p] \in Nat
  BY ConstantsAssumption, SMTT(30) DEF TypeOK
<1>2. \A a, b \in Nat, c \in Nat \ {0} : (a * b) \div c \in Nat
  OBVIOUS
<1>3. scaled \in Nat
  <2> HIDE DEF used, weight
  <2>1. QED BY <1>1, <1>2, ConstantsAssumption
<1>4. AccountRuntime(p) = IF p = Idle \/ ~IsFair(p) \/ used = 0 THEN vruntime[p]
                          ELSE vruntime[p] + (IF scaled = 0 THEN 1 ELSE scaled)
  BY DEF AccountRuntime
<1>5. time_slice_remaining[p] < time_slice_ticks[p] => used # 0
  BY DEF TypeOK
<1> HIDE DEF used, weight, scaled
<1>6. QED BY <1>1, <1>3, <1>4, <1>5

-----------------------------------------------------------------------------
(* The run queues *)

QueueType ==
  /\ ready_queues \in [Levels -> Seq(Procs)]
  /\ ready_bitmap \in SUBSET Levels
  /\ on_run_queue \in [Slots -> BOOLEAN]

\* scheduler_enqueue_ready of a process that is in no queue.
LEMMA EnqueueKeepsQueues ==
  ASSUME TypeOK, QueuesOK,
         NEW p \in Procs, NEW prio \in Levels, ~on_run_queue[p],
         ready_queues' = [ready_queues EXCEPT ![prio] = Append(@, p)],
         ready_bitmap' = ready_bitmap \cup {prio},
         on_run_queue' = [on_run_queue EXCEPT ![p] = TRUE],
         dynamic_priority' = [dynamic_priority EXCEPT ![p] = prio]
  PROVE  QueueType' /\ QueuesOK'
<1> DEFINE old == ready_queues[prio]
           new == ready_queues'[prio]
<1>0. /\ p \in Slots /\ old \in Seq(Procs) /\ Len(old) \in Nat
      /\ \A l \in Levels : ready_queues[l] \in Seq(Procs)
      /\ \A l \in Levels : \A i \in 1 .. Len(ready_queues[l]) : ready_queues[l][i] \in Procs
  BY ElementOfSeq, LenProperties, Zenon DEF TypeOK, Procs
<1>1. /\ new \in Seq(Procs)
      /\ Len(new) = Len(old) + 1
      /\ \A i \in 1 .. Len(old) : new[i] = old[i]
      /\ new[Len(old) + 1] = p
  <2>1. new = Append(old, p)
    BY DEF TypeOK
  <2>2. QED BY <2>1, <1>0, AppendProperties
<1>2. \A l \in Levels : l # prio => ready_queues'[l] = ready_queues[l]
  BY DEF TypeOK
<1>3. /\ \A q \in Slots : q # p => /\ dynamic_priority'[q] = dynamic_priority[q]
                                   /\ on_run_queue'[q] = on_run_queue[q]
      /\ dynamic_priority'[p] = prio
      /\ on_run_queue'[p]
  BY <1>0 DEF TypeOK
<1>4. \A l \in Levels : \A i \in 1 .. Len(ready_queues[l]) : ready_queues[l][i] # p
  BY DEF QueuesOK, QueuedAtOwnLevel
<1>5. QueueType'
  <2>1. ready_queues' \in [Levels -> Seq(Procs)]
    BY <1>0, AppendProperties, SMTT(15) DEF TypeOK
  <2>2. QED BY <2>1, <1>0 DEF TypeOK, QueueType
<1> HIDE DEF old, new
<1>6. QueuedAtOwnLevel'
  <2> SUFFICES ASSUME NEW l \in Levels, NEW i \in 1 .. Len(ready_queues'[l])
               PROVE  /\ on_run_queue'[ready_queues'[l][i]]
                      /\ dynamic_priority'[ready_queues'[l][i]] = l
    BY DEF QueuedAtOwnLevel
  <2>1. CASE l # prio
    <3>1. ready_queues'[l][i] = ready_queues[l][i] /\ i \in 1 .. Len(ready_queues[l])
      BY <2>1, <1>2
    <3>2. QED BY <3>1, <1>0, <1>3, <1>4 DEF QueuesOK, QueuedAtOwnLevel, Procs
  <2>2. CASE l = prio /\ i \in 1 .. Len(old)
    <3>1. ready_queues'[l][i] = ready_queues[l][i] /\ i \in 1 .. Len(ready_queues[l])
      BY <2>2, <1>1 DEF old, new
    <3>2. QED BY <3>1, <1>0, <1>3, <1>4 DEF QueuesOK, QueuedAtOwnLevel, Procs
  <2>3. CASE l = prio /\ i = Len(old) + 1
    BY <2>3, <1>1, <1>3 DEF new
  <2>4. i \in 1 .. Len(old) \/ i = Len(old) + 1 \/ l # prio
    BY <1>0, <1>1 DEF new
  <2>5. QED BY <2>1, <2>2, <2>3, <2>4
<1>7. QueuedOnce'
  <2> SUFFICES ASSUME NEW l \in Levels, NEW i \in 1 .. Len(ready_queues'[l]),
                      NEW j \in 1 .. Len(ready_queues'[l]),
                      ready_queues'[l][i] = ready_queues'[l][j]
               PROVE  i = j
    BY DEF QueuedOnce
  <2>1. CASE l # prio
    BY <2>1, <1>2 DEF QueuesOK, QueuedOnce
  <2>2. CASE l = prio
    BY <2>2, <1>0, <1>1, <1>4 DEF QueuesOK, QueuedOnce, old, new
  <2>3. QED BY <2>1, <2>2
<1>8. FlagMeansQueued'
  <2> SUFFICES ASSUME NEW q \in Slots, on_run_queue'[q]
               PROVE  \E i \in 1 .. Len(ready_queues'[dynamic_priority'[q]]) :
                         ready_queues'[dynamic_priority'[q]][i] = q
    BY DEF FlagMeansQueued
  <2>1. CASE q = p
    BY <2>1, <1>0, <1>1, <1>3 DEF new
  <2>2. CASE q # p
    <3>1. on_run_queue[q] /\ dynamic_priority'[q] = dynamic_priority[q]
      BY <2>2, <1>3
    <3>2. dynamic_priority[q] \in Levels
      BY DEF TypeOK
    <3>3. PICK i \in 1 .. Len(ready_queues[dynamic_priority[q]]) :
                 ready_queues[dynamic_priority[q]][i] = q
      BY <3>1 DEF QueuesOK, FlagMeansQueued
    <3>4. /\ i \in 1 .. Len(ready_queues'[dynamic_priority[q]])
          /\ ready_queues'[dynamic_priority[q]][i] = q
      BY <3>2, <3>3, <1>0, <1>1, <1>2 DEF old, new
    <3>5. QED BY <3>1, <3>4
  <2>3. QED BY <2>1, <2>2
<1>9. BitmapExact'
  <2>1. ready_queues'[prio] # <<>>
    BY <1>0, <1>1, SMTT(30) DEF new
  <2>2. QED BY <2>1, <1>2 DEF QueuesOK, BitmapExact
<1>10. QED BY <1>5, <1>6, <1>7, <1>8, <1>9 DEF QueuesOK

\* scheduler_remove_from_ready of the process at position i of its queue.
LEMMA RemoveKeepsQueues ==
  ASSUME TypeOK, QueuesOK, NEW l \in Levels, NEW i \in 1 .. Len(ready_queues[l]),
         RemoveFromReady(l, i), UNCHANGED dynamic_priority
  PROVE  QueueType' /\ QueuesOK'
<1> DEFINE old == ready_queues[l]
           new == ready_queues'[l]
           p == ready_queues[l][i]
<1>0. /\ old \in Seq(Procs) /\ Len(old) \in Nat /\ i \in 1 .. Len(old)
      /\ p \in Procs /\ p \in Slots
      /\ \A m \in Levels : ready_queues[m] \in Seq(Procs)
      /\ \A m \in Levels : \A j \in 1 .. Len(ready_queues[m]) : ready_queues[m][j] \in Slots
  <2>1. \A m \in Levels : ready_queues[m] \in Seq(Procs)
    BY DEF TypeOK
  <2>2. \A m \in Levels : \A j \in 1 .. Len(ready_queues[m]) : ready_queues[m][j] \in Procs
    BY <2>1, ElementOfSeq
  <2>3. \A q \in Procs : q \in Slots
    BY DEF Procs
  <2>4. QED BY <2>1, <2>2, <2>3, LenProperties
<1>1. /\ new \in Seq(Procs)
      /\ Len(new) = Len(old) - 1
      /\ \A j \in 1 .. Len(old) - 1 : new[j] = IF j < i THEN old[j] ELSE old[j + 1]
  <2>1. new = RemoveAt(old, i)
    BY DEF TypeOK, RemoveFromReady
  <2>2. QED BY <2>1, <1>0, RemoveAtFacts, ZenonT(30)
<1>2. \A m \in Levels : m # l => ready_queues'[m] = ready_queues[m]
  BY DEF TypeOK, RemoveFromReady
<1>3. /\ \A q \in Slots : q # p => on_run_queue'[q] = on_run_queue[q]
      /\ on_run_queue'[p] = FALSE
  BY <1>0 DEF TypeOK, RemoveFromReady
<1>4. dynamic_priority[p] = l
  BY DEF QueuesOK, QueuedAtOwnLevel
<1>5. QueueType'
  <2>1. ready_queues' \in [Levels -> Seq(Procs)]
    BY <1>0, <1>1 DEF TypeOK, RemoveFromReady
  <2>2. ready_bitmap' \in SUBSET Levels /\ on_run_queue' \in [Slots -> BOOLEAN]
    BY <1>0, SMTT(30) DEF TypeOK, RemoveFromReady
  <2>3. QED BY <2>1, <2>2 DEF QueueType
<1>6. \A j \in 1 .. Len(new) : /\ new[j] # p
                               /\ \E k \in 1 .. Len(old) : k # i /\ new[j] = old[k]
  <2>1. p = old[i] /\ \A a, b \in 1 .. Len(old) : old[a] = old[b] => a = b
    BY DEF QueuesOK, QueuedOnce
  <2> HIDE DEF old, new, p
  <2> SUFFICES ASSUME NEW j \in 1 .. Len(new)
               PROVE  \E k \in 1 .. Len(old) : k # i /\ new[j] = old[k]
    BY <1>0, <2>1, SMTT(30)
  <2>2. CASE j < i
    BY <2>2, <1>0, <1>1
  <2>3. CASE j >= i
    <3>1. j + 1 \in 1 .. Len(old) /\ j + 1 # i /\ new[j] = old[j + 1]
      BY <2>3, <1>0, <1>1
    <3>2. QED BY <3>1
  <2>4. QED BY <1>0, <1>1, <2>2, <2>3
<1>7. \A k \in 1 .. Len(old) : k # i => \E j \in 1 .. Len(new) : new[j] = old[k]
  <2> SUFFICES ASSUME NEW k \in 1 .. Len(old), k # i
               PROVE  \E j \in 1 .. Len(new) : new[j] = old[k]
    OBVIOUS
  <2> HIDE DEF old, new
  <2>1. CASE k < i
    BY <2>1, <1>0, <1>1, SMTT(30)
  <2>2. CASE k > i
    <3>1. k - 1 \in 1 .. Len(new) /\ new[k - 1] = old[k]
      BY <2>2, <1>0, <1>1
    <3>2. QED BY <3>1
  <2>3. QED BY <2>1, <2>2
<1> HIDE DEF old, new, p
<1>8. QueuedAtOwnLevel'
  <2> SUFFICES ASSUME NEW m \in Levels, NEW j \in 1 .. Len(ready_queues'[m])
               PROVE  /\ on_run_queue'[ready_queues'[m][j]]
                      /\ dynamic_priority[ready_queues'[m][j]] = m
    BY DEF QueuedAtOwnLevel
  <2>1. CASE m # l
    <3>1. ready_queues'[m][j] = ready_queues[m][j] /\ j \in 1 .. Len(ready_queues[m])
      BY <2>1, <1>2
    <3>2. ready_queues[m][j] # p
      BY <2>1, <3>1, <1>4 DEF QueuesOK, QueuedAtOwnLevel
    <3>3. QED BY <3>1, <3>2, <1>0, <1>3 DEF QueuesOK, QueuedAtOwnLevel
  <2>2. CASE m = l
    <3>1. PICK k \in 1 .. Len(old) : new[j] = old[k]
      BY <2>2, <1>6 DEF new
    <3>2. new[j] # p
      BY <2>2, <1>6 DEF new
    <3>3. QED BY <2>2, <3>1, <3>2, <1>0, <1>3 DEF QueuesOK, QueuedAtOwnLevel, old, new
  <2>3. QED BY <2>1, <2>2
<1>9. QueuedOnce'
  <2> SUFFICES ASSUME NEW m \in Levels, NEW j \in 1 .. Len(ready_queues'[m]),
                      NEW k \in 1 .. Len(ready_queues'[m]),
                      ready_queues'[m][j] = ready_queues'[m][k]
               PROVE  j = k
    BY DEF QueuedOnce
  <2>1. CASE m # l
    BY <2>1, <1>2 DEF QueuesOK, QueuedOnce
  <2>2. CASE m = l
    <3>1. \A a, b \in 1 .. Len(old) : old[a] = old[b] => a = b
      BY DEF QueuesOK, QueuedOnce, old
    <3>2. j \in 1 .. Len(old) - 1 /\ k \in 1 .. Len(old) - 1 /\ new[j] = new[k]
      BY <2>2, <1>1 DEF new
    <3> DEFINE a == IF j < i THEN j ELSE j + 1
               b == IF k < i THEN k ELSE k + 1
    <3>3. a \in 1 .. Len(old) /\ new[j] = old[a]
      BY <3>2, <1>0, <1>1
    <3>4. b \in 1 .. Len(old) /\ new[k] = old[b]
      BY <3>2, <1>0, <1>1, SMTT(30)
    <3>5. a = b
      <4> HIDE DEF a, b
      <4>1. QED BY <3>1, <3>2, <3>3, <3>4, Zenon
    <3>6. QED BY <3>2, <3>5, <1>0, SMTT(30)
  <2>3. QED BY <2>1, <2>2
<1>10. FlagMeansQueued'
  <2> SUFFICES ASSUME NEW q \in Slots, on_run_queue'[q]
               PROVE  \E j \in 1 .. Len(ready_queues'[dynamic_priority[q]]) :
                         ready_queues'[dynamic_priority[q]][j] = q
    BY DEF FlagMeansQueued
  <2>1. q # p /\ on_run_queue[q] /\ dynamic_priority[q] \in Levels
    BY <1>3, Zenon DEF TypeOK
  <2>2. PICK k \in 1 .. Len(ready_queues[dynamic_priority[q]]) :
               ready_queues[dynamic_priority[q]][k] = q
    BY <2>1 DEF QueuesOK, FlagMeansQueued
  <2>3. CASE dynamic_priority[q] # l
    BY <2>1, <2>2, <2>3, <1>2
  <2>4. CASE dynamic_priority[q] = l
    <3>1. k \in 1 .. Len(old) /\ old[k] = q /\ k # i
      BY <2>1, <2>2, <2>4 DEF old, p
    <3>2. \E j \in 1 .. Len(new) : new[j] = q
      BY <3>1, <1>7
    <3>3. QED BY <2>4, <3>2 DEF new
  <2>5. QED BY <2>3, <2>4
<1>11. BitmapExact'
  <2>1. new = <<>> <=> Len(old) = 1
    BY <1>0, <1>1
  <2>2. old # <<>>
    BY <1>0 DEF old
  <2>3. ready_bitmap' = IF Len(old) = 1 THEN ready_bitmap \ {l} ELSE ready_bitmap
    BY DEF RemoveFromReady, old
  <2>4. QED BY <2>1, <2>2, <2>3, <1>2 DEF QueuesOK, BitmapExact, old, new
<1>12. QED BY <1>5, <1>8, <1>9, <1>10, <1>11 DEF QueuesOK

-----------------------------------------------------------------------------
(* The sleep list *)

\* scheduler_remove_from_sleep unlinks p, if it was there, and keeps the rest in order.
LEMMA WithoutSleeperFacts ==
  ASSUME TypeOK, SleepSorted, NEW p \in Procs
  PROVE  /\ WithoutSleeper(p) \in Seq(Procs)
         /\ \A i \in 1 .. Len(WithoutSleeper(p)) :
               WithoutSleeper(p)[i] # p /\ Asleep(WithoutSleeper(p)[i])
         /\ \A i, j \in 1 .. Len(WithoutSleeper(p)) : i < j =>
               /\ WithoutSleeper(p)[i] # WithoutSleeper(p)[j]
               /\ wake_deadline[WithoutSleeper(p)[i]] <= wake_deadline[WithoutSleeper(p)[j]]
<1>0. sleep_list \in Seq(Procs) /\ Len(sleep_list) \in Nat
  BY LenProperties DEF TypeOK
<1>1. CASE ~Asleep(p)
  BY <1>0, <1>1 DEF WithoutSleeper, Asleep, SleepSorted
<1>2. CASE Asleep(p)
  <2> DEFINE c == CHOOSE i \in 1 .. Len(sleep_list) : sleep_list[i] = p
             w == RemoveAt(sleep_list, c)
  <2>1. c \in 1 .. Len(sleep_list) /\ sleep_list[c] = p
    BY <1>2 DEF Asleep
  <2>2. WithoutSleeper(p) = w
    BY <1>2 DEF WithoutSleeper
  <2>3. /\ w \in Seq(Procs)
        /\ Len(w) = Len(sleep_list) - 1
        /\ \A j \in 1 .. Len(sleep_list) - 1 :
              w[j] = IF j < c THEN sleep_list[j] ELSE sleep_list[j + 1]
    <3> HIDE DEF c
    <3>1. QED BY <1>0, <2>1, RemoveAtFacts
  <2> HIDE DEF c, w
  <2>4. \A j \in 1 .. Len(w) : w[j] # p /\ Asleep(w[j])
    <3> SUFFICES ASSUME NEW j \in 1 .. Len(w) PROVE w[j] # p /\ Asleep(w[j])
      OBVIOUS
    <3>1. CASE j < c
      BY <3>1, <1>0, <2>1, <2>3, SMTT(15) DEF SleepSorted, Asleep
    <3>2. CASE j >= c
      <4>1. j + 1 \in 1 .. Len(sleep_list) /\ w[j] = sleep_list[j + 1] /\ c < j + 1
        BY <3>2, <1>0, <2>1, <2>3, SMTT(15)
      <4>2. QED BY <4>1, <2>1 DEF SleepSorted, Asleep
    <3>3. QED BY <1>0, <2>1, <2>3, <3>1, <3>2
  <2>5. \A i, j \in 1 .. Len(w) : i < j =>
           w[i] # w[j] /\ wake_deadline[w[i]] <= wake_deadline[w[j]]
    <3> SUFFICES ASSUME NEW i \in 1 .. Len(w), NEW j \in 1 .. Len(w), i < j
                 PROVE  w[i] # w[j] /\ wake_deadline[w[i]] <= wake_deadline[w[j]]
      OBVIOUS
    <3> DEFINE a == IF i < c THEN i ELSE i + 1
               b == IF j < c THEN j ELSE j + 1
    <3>1. a \in 1 .. Len(sleep_list) /\ w[i] = sleep_list[a]
      BY <1>0, <2>1, <2>3
    <3>2. b \in 1 .. Len(sleep_list) /\ w[j] = sleep_list[b]
      BY <1>0, <2>1, <2>3
    <3>3. a < b
      BY <1>0, <2>1, <2>3
    <3> HIDE DEF a, b
    <3>4. QED BY <3>1, <3>2, <3>3 DEF SleepSorted
  <2>6. QED BY <2>2, <2>3, <2>4, <2>5
<1>3. QED BY <1>1, <1>2

\* Unlinking p keeps the list sorted, makes nobody overdue and leaves p off it,
\* even when p's own deadline is rewritten.
LEMMA UnlinkKeepsSleep ==
  ASSUME TypeOK, SleepSorted, NEW p \in Procs, sleep_list' = WithoutSleeper(p),
         \A q \in Slots : q # p => wake_deadline'[q] = wake_deadline[q],
         ticks' = ticks
  PROVE  /\ sleep_list' \in Seq(Procs)
         /\ SleepSorted'
         /\ NoneOverdue => NoneOverdue'
         /\ \A q \in Procs : Asleep(q)' => Asleep(q) /\ q # p
<1>1. /\ sleep_list' \in Seq(Procs)
      /\ \A i \in 1 .. Len(sleep_list') : sleep_list'[i] # p /\ Asleep(sleep_list'[i])
      /\ \A i, j \in 1 .. Len(sleep_list') : i < j =>
            /\ sleep_list'[i] # sleep_list'[j]
            /\ wake_deadline[sleep_list'[i]] <= wake_deadline[sleep_list'[j]]
  BY WithoutSleeperFacts
<1>2. \A i \in 1 .. Len(sleep_list') :
         /\ sleep_list'[i] \in Slots
         /\ wake_deadline'[sleep_list'[i]] = wake_deadline[sleep_list'[i]]
  BY <1>1, ElementOfSeq DEF Procs
<1>3. SleepSorted'
  BY <1>1, <1>2 DEF SleepSorted
<1>4. NoneOverdue => NoneOverdue'
  BY <1>1, <1>2, SMTT(30) DEF NoneOverdue, Asleep
<1>5. \A q \in Procs : Asleep(q)' => Asleep(q) /\ q # p
  BY <1>1 DEF Asleep
<1>6. QED BY <1>1, <1>3, <1>4, <1>5, SMTT(15)

\* scheduler_insert_sleep puts p in its place by deadline.
LEMMA InsertKeepsSleep ==
  ASSUME TypeOK, SleepSorted, NEW p \in Procs, NEW deadline \in Nat,
         wake_deadline' = [wake_deadline EXCEPT ![p] = deadline],
         InsertSleep(p, deadline), ticks' = ticks
  PROVE  /\ sleep_list' \in Seq(Procs)
         /\ SleepSorted'
         /\ NoneOverdue /\ ticks < deadline => NoneOverdue'
         /\ \A q \in Procs : Asleep(q)' => Asleep(q) \/ q = p
<1> DEFINE w == WithoutSleeper(p)
<1>0. /\ w \in Seq(Procs)
      /\ Len(w) \in Nat
      /\ \A i \in 1 .. Len(w) : w[i] # p /\ Asleep(w[i])
      /\ \A i, j \in 1 .. Len(w) : i < j =>
            w[i] # w[j] /\ wake_deadline[w[i]] <= wake_deadline[w[j]]
  BY WithoutSleeperFacts, LenProperties
<1>1. PICK k \in 1 .. Len(w) + 1 :
        /\ \A j \in 1 .. k - 1 : wake_deadline[w[j]] <= deadline
        /\ k <= Len(w) => deadline < wake_deadline[w[k]]
        /\ sleep_list' = InsertAt(w, k, p)
  BY DEF InsertSleep
<1> HIDE DEF w
<1>2. /\ sleep_list' \in Seq(Procs)
      /\ Len(sleep_list') = Len(w) + 1
      /\ \A j \in 1 .. k - 1 : sleep_list'[j] = w[j]
      /\ sleep_list'[k] = p
      /\ \A j \in k + 1 .. Len(w) + 1 : sleep_list'[j] = w[j - 1]
  <2>1. w \in Seq(Procs)
    BY <1>0
  <2>2. /\ InsertAt(w, k, p) \in Seq(Procs)
        /\ Len(InsertAt(w, k, p)) = Len(w) + 1
        /\ \A j \in 1 .. k - 1 : InsertAt(w, k, p)[j] = w[j]
        /\ InsertAt(w, k, p)[k] = p
        /\ \A j \in k + 1 .. Len(w) + 1 : InsertAt(w, k, p)[j] = w[j - 1]
    BY <2>1, InsertAtFacts
  <2>3. QED BY <2>2, <1>1
<1>3. \A i \in 1 .. Len(w) : /\ w[i] \in Slots
                             /\ wake_deadline'[w[i]] = wake_deadline[w[i]]
                             /\ wake_deadline[w[i]] \in Nat
  <2>1. \A i \in 1 .. Len(w) : w[i] \in Procs /\ w[i] # p
    BY <1>0, ElementOfSeq
  <2>2. QED BY <2>1, Zenon DEF Procs, TypeOK
<1>4. wake_deadline'[p] = deadline
  BY DEF Procs, TypeOK
<1>range. Len(w) \in Nat /\ k \in Int
  BY <1>0, <1>1
<1>before. \A i \in 1 .. Len(sleep_list') : i < k =>
         i \in 1 .. Len(w) /\ i \in 1 .. k - 1 /\ sleep_list'[i] = w[i]
  <2>1. \A i \in 1 .. Len(w) + 1 : i < k => i \in 1 .. Len(w) /\ i \in 1 .. k - 1
    BY <1>range, <1>1
  <2>2. QED BY <1>2, <2>1, Zenon
<1>after. \A i \in 1 .. Len(sleep_list') : i > k =>
         i - 1 \in 1 .. Len(w) /\ i - 1 >= k /\ sleep_list'[i] = w[i - 1]
  <2>1. \A i \in 1 .. Len(w) + 1 :
           i > k => i - 1 \in 1 .. Len(w) /\ i - 1 >= k /\ i \in k + 1 .. Len(w) + 1
    BY <1>range, <1>1
  <2>2. QED BY <1>2, <2>1, Zenon
<1>5. \A i \in 1 .. Len(w) : i >= k => deadline < wake_deadline[w[i]]
  <2> SUFFICES ASSUME NEW i \in 1 .. Len(w), i >= k PROVE deadline < wake_deadline[w[i]]
    OBVIOUS
  <2>1. k \in 1 .. Len(w) /\ deadline < wake_deadline[w[k]]
    BY <1>0, <1>1
  <2>2. wake_deadline[w[k]] <= wake_deadline[w[i]]
    BY <2>1, <1>0, <1>3
  <2>3. QED BY <2>1, <2>2, <1>3
<1>6. SleepSorted'
  <2> SUFFICES ASSUME NEW i \in 1 .. Len(sleep_list'), NEW j \in 1 .. Len(sleep_list'), i < j
               PROVE  /\ sleep_list'[i] # sleep_list'[j]
                      /\ wake_deadline'[sleep_list'[i]] <= wake_deadline'[sleep_list'[j]]
    BY DEF SleepSorted
  <2>1. CASE i < k /\ j < k
    <3>1. i \in 1 .. Len(w) /\ j \in 1 .. Len(w) /\ sleep_list'[i] = w[i] /\ sleep_list'[j] = w[j]
      BY <2>1, <1>before, Zenon
    <3>2. QED BY <3>1, <1>0, <1>3
  <2>2. CASE i < k /\ j = k
    <3>1. i \in 1 .. Len(w) /\ i \in 1 .. k - 1 /\ sleep_list'[i] = w[i] /\ sleep_list'[j] = p
      BY <2>2, <1>before, <1>2, Zenon
    <3>2. w[i] # p /\ wake_deadline[w[i]] <= deadline
      BY <3>1, <1>0, <1>1, Zenon
    <3>3. QED BY <3>1, <3>2, <1>3, <1>4, Zenon
  <2>3. CASE i < k /\ j > k
    <3>1. j - 1 \in 1 .. Len(w) /\ sleep_list'[j] = w[j - 1] /\ j - 1 >= k
      BY <2>3, <1>after, Zenon
    <3>2. i \in 1 .. Len(w) /\ sleep_list'[i] = w[i] /\ i < j - 1
      BY <2>3, <3>1, <1>before, <1>range
    <3>3. w[i] # w[j - 1] /\ wake_deadline[w[i]] <= wake_deadline[w[j - 1]]
      BY <3>1, <3>2, <1>0, Zenon
    <3>4. QED BY <3>1, <3>2, <3>3, <1>3, Zenon
  <2>4. CASE i = k
    <3>1. j - 1 \in 1 .. Len(w) /\ sleep_list'[j] = w[j - 1] /\ j - 1 >= k
      BY <2>4, <1>after, <1>range
    <3>2. w[j - 1] # p /\ deadline < wake_deadline[w[j - 1]] /\ sleep_list'[i] = p
      BY <2>4, <3>1, <1>0, <1>2, <1>5, Zenon
    <3>3. QED BY <3>1, <3>2, <1>3, <1>4
  <2>5. CASE i > k
    <3>1. /\ j - 1 \in 1 .. Len(w) /\ sleep_list'[j] = w[j - 1]
          /\ i - 1 \in 1 .. Len(w) /\ sleep_list'[i] = w[i - 1] /\ i - 1 < j - 1
      BY <2>5, <1>after, <1>range
    <3>2. w[i - 1] # w[j - 1] /\ wake_deadline[w[i - 1]] <= wake_deadline[w[j - 1]]
      BY <3>1, <1>0, Zenon
    <3>3. QED BY <3>1, <3>2, <1>3, Zenon
  <2>6. QED BY <1>0, <1>2, <2>1, <2>2, <2>3, <2>4, <2>5
<1>7. \A i \in 1 .. Len(sleep_list') :
         sleep_list'[i] = p \/ \E j \in 1 .. Len(w) : sleep_list'[i] = w[j]
  <2> SUFFICES ASSUME NEW i \in 1 .. Len(sleep_list'), i # k
               PROVE  \E j \in 1 .. Len(w) : sleep_list'[i] = w[j]
    BY <1>2
  <2>1. CASE i < k
    BY <2>1, <1>before, Zenon
  <2>2. CASE i > k
    BY <2>2, <1>after, Zenon
  <2>3. QED BY <1>0, <1>2, <2>1, <2>2
<1>8. NoneOverdue /\ ticks < deadline => NoneOverdue'
  <2> SUFFICES ASSUME NoneOverdue, ticks < deadline, NEW i \in 1 .. Len(sleep_list')
               PROVE  ticks < wake_deadline'[sleep_list'[i]]
    BY DEF NoneOverdue
  <2>1. \A j \in 1 .. Len(w) : ticks < wake_deadline[w[j]]
    BY <1>0, SMTT(30) DEF NoneOverdue, Asleep
  <2>2. QED BY <2>1, <1>3, <1>4, <1>7
<1>9. \A q \in Procs : Asleep(q)' => Asleep(q) \/ q = p
  BY <1>0, <1>7 DEF Asleep
<1>10. QED BY <1>2, <1>6, <1>8, <1>9

=============================================================================
