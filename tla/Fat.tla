--------------------------------- MODULE Fat ---------------------------------
(***************************************************************************)
(* The FAT driver (kernel/fatfs.c) on one volume.  The volume is an image  *)
(* in memory: the allocation table, the root region of a FAT16 volume, and *)
(* the clusters, which hold bytes of files or entries of directories.      *)
(* Only the shell's thread writes files on a volume, so that an operation  *)
(* is one action; its steps are nested operators.                          *)
(*                                                                         *)
(* A cluster's bytes and its directory entries are kept apart, and a freed *)
(* cluster is shown as zeros: allocation zeroes a cluster before its use,  *)
(* and ChainsSound says that none is ever used in two ways.                *)
(***************************************************************************)
EXTENDS Integers, Sequences, FiniteSets, FiniteSetsExt, SequencesExt

CONSTANTS
  NClusters,              \* total_clusters
  CLUSTER_SIZE,           \* fatfs_cluster_size_bytes
  ENTRIES,                \* fatfs_entries_per_cluster
  ROOT_ENTRIES,           \* root_entries of a FAT16 volume
  FatTypes,               \* the volume types checked: 0, 16 and 32
  Names, Lengths, Bytes,  \* what the shell asks for; bytes are positive
  MaxSize                 \* bound: no append beyond this file size

ASSUME FatAssumption ==
  /\ {NClusters, CLUSTER_SIZE, ROOT_ENTRIES} \subseteq Nat \ {0}
  /\ ENTRIES > 2 /\ FatTypes \subseteq {0, 16, 32}
  /\ Lengths \subseteq Nat /\ Bytes \subseteq Nat \ {0} /\ Bytes # {}

Clusters == 2 .. NClusters + 1
EOC == NClusters + 2
Places == ({0} \X (1 .. ROOT_ENTRIES)) \cup (Clusters \X (1 .. ENTRIES))
NoPlace == <<0, 0>>

DirEntry(n, d, f, z) == [name |-> n, dir |-> d, first |-> f, size |-> z]
End == DirEntry("END", FALSE, 0, 0)         \* name[0] = FAT_ENTRY_END
Deleted == DirEntry("FREE", FALSE, 0, 0)    \* FAT_ENTRY_FREE; its other fields are never read
Dots == DirEntry("DOTS", TRUE, 0, 0)        \* "." and ".."; the VFS never passes them down
InUse(e) == e \notin {End, Deleted, Dots}

VARIABLES
  fat_type,               \* as fatfs_init found it; 0 when it refused the image
  vol                     \* the image: fat, slot (directory entries by place), bytes

fatVars == <<fat_type, vol>>

-----------------------------------------------------------------------------
(* The allocation table *)

\* fatfs_zero_cluster
Zeroed(v, cs) ==
  [v EXCEPT !.slot = [p \in Places |-> IF p[1] \in cs THEN End ELSE @[p]],
            !.bytes = [c \in Clusters |-> IF c \in cs THEN [i \in 1 .. CLUSTER_SIZE |-> 0] ELSE @[c]]]

\* The clusters the loops over fatfs_read_fat visit from s on.  A table that is
\* not sound could send the code round for ever; the walk here ends.
Chain(v, s) ==
  LET walk[k \in 0 .. NClusters] ==
        IF k = 0 THEN <<s>>
        ELSE LET w == walk[k - 1]
             IN  IF v.fat[Last(w)] \in Clusters THEN Append(w, v.fat[Last(w)]) ELSE w
  IN  IF s \in Clusters THEN walk[NClusters] ELSE <<>>

FreeClusters(v) == SetToSortSeq({c \in Clusters : v.fat[c] = 0}, <)

HeadOnly(v, s) ==                        \* mutant: only the first cluster is given back
  IF s \in Clusters THEN [Zeroed(v, {s}) EXCEPT !.fat[s] = 0] ELSE v
Freed(v, cs) ==
  [Zeroed(v, cs) EXCEPT !.fat = [c \in Clusters |-> IF c \in cs THEN 0 ELSE @[c]]]
FreeChain(v, s) == Freed(v, Range(Chain(v, s)))

\* fatfs_allocate_cluster once for each of cs, the lowest free ones, each linked
\* to the one before, the first to prev unless that is 0, and filled from data.
Extended(v, prev, cs, data) ==
  LET Byte(k, i) == LET n == (k - 1) * CLUSTER_SIZE + i IN IF n <= Len(data) THEN data[n] ELSE 0
      At(c) == CHOOSE k \in 1 .. Len(cs) : cs[k] = c
  IN  [v EXCEPT
        !.fat = [c \in Clusters |->
                   IF c \in Range(cs) THEN (IF At(c) = Len(cs) THEN EOC ELSE cs[At(c) + 1])
                   ELSE IF c = prev /\ cs # <<>> THEN cs[1] ELSE @[c]],
        !.bytes = [c \in Clusters |-> IF c \in Range(cs)
                                      THEN [i \in 1 .. CLUSTER_SIZE |-> Byte(At(c), i)] ELSE @[c]]]

CountFor(n) == (n + CLUSTER_SIZE - 1) \div CLUSTER_SIZE

-----------------------------------------------------------------------------
(* Directories *)

RootDir == IF fat_type = 16 THEN 0 ELSE 2

PlacesIn(cs) ==
  [k \in 1 .. ENTRIES * Len(cs) |-> <<cs[((k - 1) \div ENTRIES) + 1], ((k - 1) % ENTRIES) + 1>>]
PlacesOf(v, d) ==
  IF d = 0 THEN [i \in 1 .. ROOT_ENTRIES |-> <<0, i>>] ELSE PlacesIn(Chain(v, d))

First(ps, K) == IF K = {} THEN NoPlace ELSE ps[Min(K)]
Seen(ps, ends) == {k \in 1 .. Len(ps) : \A e \in ends : k < e}
AreAt(v, ps, es) == {k \in 1 .. Len(ps) : v.slot[ps[k]] \in es}

ScanToDeleted(v, n, ps, ends) ==         \* mutant: the search for the name ends at a free entry
  [match |-> First(ps, {k \in Seen(ps, AreAt(v, ps, {End, Deleted})) : v.slot[ps[k]].name = n}),
   free |-> First(ps, Seen(ps, ends) \cap AreAt(v, ps, {Deleted})),
   zero |-> First(ps, ends)]
\* fatfs_dir_scan: the entries before the end mark, and what is found among them.
ScanPlaces(v, n, ps, ends) ==
  [match |-> First(ps, {k \in Seen(ps, ends) : v.slot[ps[k]].name = n}),
   free |-> First(ps, Seen(ps, ends) \cap AreAt(v, ps, {Deleted})),
   zero |-> First(ps, ends)]
ScanFrom(v, n, ps) == ScanPlaces(v, n, ps, AreAt(v, ps, {End}))
Scan(v, d, n) == ScanFrom(v, n, PlacesOf(v, d))

\* fatfs_dir_take_slot: a place for a new entry, in a new cluster if need be.
TakeSlotFrom(v, d, sc, fresh) ==
  IF sc.free # NoPlace THEN [v |-> v, at |-> sc.free]
  ELSE IF sc.zero # NoPlace THEN [v |-> v, at |-> sc.zero]
  ELSE IF d = 0 \/ fresh = <<>> THEN [v |-> v, at |-> NoPlace]
  ELSE [v |-> Extended(v, Last(Chain(v, d)), <<fresh[1]>>, <<>>), at |-> <<fresh[1], 1>>]
TakeSlot(v, d, sc) == TakeSlotFrom(v, d, sc, FreeClusters(v))

\* fatfs_resolve_parent of a path of one or two names: the directory, or -1.
DirectoryAt(v, at) ==
  IF at = NoPlace \/ ~v.slot[at].dir THEN -1
  ELSE IF v.slot[at].first = 0 /\ fat_type = 32 THEN -1
  ELSE v.slot[at].first
Parent(v, path) ==
  IF Len(path) = 1 THEN RootDir ELSE DirectoryAt(v, Scan(v, RootDir, path[1]).match)

-----------------------------------------------------------------------------
(* Reading and writing a file.  Both write operators give the new image and *)
(* whether they return 0.                                                   *)

\* fatfs_read, into a buffer large enough: size bytes, or what the chain has.
BytesOf(v, cs) == FlattenSeq([k \in 1 .. Len(cs) |-> v.bytes[cs[k]]])
Shortened(s, n) == SubSeq(s, 1, Min({n, Len(s)}))
Contents(v, at) == Shortened(BytesOf(v, Chain(v, v.slot[at].first)), v.slot[at].size)

\* fatfs_write_replace after it freed the old chain and emptied the entry.
StoredOn(v, at, data, cs) ==
  IF Len(cs) < CountFor(Len(data)) THEN [v |-> v, ok |-> FALSE]
  ELSE IF cs = <<>> THEN [v |-> v, ok |-> TRUE]
  ELSE [v |-> [Extended(v, 0, cs, data) EXCEPT !.slot[at].first = cs[1],
                                               !.slot[at].size = Len(data)],
        ok |-> TRUE]
StoredIn(v, at, data) == StoredOn(v, at, data, Shortened(FreeClusters(v), CountFor(Len(data))))

KeepsFirst(v, at, data) ==               \* mutant: a failed replace leaves the freed chain's head
  StoredIn(FreeChain(v, v.slot[at].first), at, data)
\* fatfs_write_replace: a failure leaves the file empty.
Replaced(v, at, data) ==
  StoredIn([FreeChain(v, v.slot[at].first) EXCEPT !.slot[at].first = 0, !.slot[at].size = 0], at, data)

\* The last cluster of the file, filled from the offset its size gives.
Filled(v, at, last, data) ==
  LET offset == v.slot[at].size % CLUSTER_SIZE
  IN  [v EXCEPT !.bytes[last] = [i \in 1 .. CLUSTER_SIZE |->
          IF i > offset /\ i - offset <= Len(data) THEN data[i - offset] ELSE @[i]]]

\* fatfs_write_append on a file with a cluster: the last one is filled, then new ones for
\* the rest are linked to it.  On failure the clusters it got stay linked.
Linked(v, at, last, n, rest, cs) ==
  [v |-> [Extended(v, last, cs, rest) EXCEPT
            !.slot[at].size = IF Len(cs) < CountFor(Len(rest)) THEN @ ELSE @ + n],
   ok |-> Len(cs) = CountFor(Len(rest))]
LinkedFrom(v, at, last, n, rest) ==
  Linked(v, at, last, n, rest, Shortened(FreeClusters(v), CountFor(Len(rest))))
Space(v, at) == CLUSTER_SIZE - (v.slot[at].size % CLUSTER_SIZE)
AppendedAt(v, at, last, data) ==
  LinkedFrom(Filled(v, at, last, data), at, last, Len(data), SubSeq(data, Space(v, at) + 1, Len(data)))
AppendedTo(v, at, data) == AppendedAt(v, at, Last(Chain(v, v.slot[at].first)), data)

\* fatfs_write_append, which gives a file without clusters its first one.
WithFirst(v, at, c) ==
  [Extended(v, 0, <<c>>, <<>>) EXCEPT !.slot[at].first = c, !.slot[at].size = 0]
LengthenedFrom(v, at, data, fresh) ==
  IF data = <<>> THEN [v |-> v, ok |-> TRUE]
  ELSE IF v.slot[at].first # 0 THEN AppendedTo(v, at, data)
  ELSE IF fresh = <<>> THEN [v |-> v, ok |-> FALSE]
  ELSE AppendedTo(WithFirst(v, at, fresh[1]), at, data)
Lengthened(v, at, data) == LengthenedFrom(v, at, data, FreeClusters(v))

-----------------------------------------------------------------------------
(* Operations.  One that succeeds writes the whole image out, which module  *)
(* Storage models; one that fails may have changed the image all the same.  *)

Ready == fat_type # 0                   \* fatfs_ready
Finish(v) == vol' = v /\ UNCHANGED fat_type

Paths == UNION {[1 .. n -> Names] : n \in {1, 2}}

\* The entry fatfs_write works on: the one there is, or a new empty one.
Named(n, t) == IF t.at = NoPlace THEN t ELSE [t EXCEPT !.v.slot[t.at] = DirEntry(n, FALSE, 0, 0)]
OpenedAt(d, n, sc) ==
  IF sc.match # NoPlace THEN [v |-> vol, at |-> sc.match] ELSE Named(n, TakeSlot(vol, d, sc))
OpenedIn(d, n) ==
  IF d = -1 THEN [v |-> vol, at |-> NoPlace] ELSE OpenedAt(d, n, Scan(vol, d, n))
Opened(path) == OpenedIn(Parent(vol, path), path[Len(path)])

Fits(f, data) == f.v.slot[f.at].size + Len(data) <= MaxSize

WriteTo(f, data, w) ==
  /\ Ready /\ f.at # NoPlace /\ ~f.v.slot[f.at].dir
  /\ Fits(f, data)
  /\ Finish(w.v)

\* fatfs_remove: a directory must have no entry but the dots.
Empty(ps) == \A k \in Seen(ps, AreAt(vol, ps, {End})) : ~InUse(vol.slot[ps[k]])
RemoveFound(at) ==
  /\ Ready /\ at # NoPlace
  /\ vol.slot[at].dir =>
       IF vol.slot[at].first = 0 THEN fat_type = 32 ELSE Empty(PlacesOf(vol, vol.slot[at].first))
  /\ Finish([FreeChain(vol, vol.slot[at].first) EXCEPT !.slot[at] = Deleted])
RemoveIn(d, n) == d # -1 /\ RemoveFound(Scan(vol, d, n).match)
RemovePath(path) == RemoveIn(Parent(vol, path), path[Len(path)])

\* The end of fatfs_mkdir: the cluster c with its dot entries, and the link to it.
DirMade(w, at, c) ==
  [Extended(w, 0, <<c>>, <<>>) EXCEPT !.slot[at].first = c,
                                      !.slot[<<c, 1>>] = Dots, !.slot[<<c, 2>>] = Dots]

DirStarted(w, at, fresh) == Finish(IF fresh = <<>> THEN w ELSE DirMade(w, at, fresh[1]))
DirNamed(w, at) == DirStarted(w, at, FreeClusters(w))
MkdirAt(n, t) ==
  /\ t.at # NoPlace
  /\ DirNamed([t.v EXCEPT !.slot[t.at] = DirEntry(n, TRUE, 0, 0)], t.at)
MkdirScanned(d, n, sc) == sc.match = NoPlace /\ MkdirAt(n, TakeSlot(vol, d, sc))
MkdirIn(d, n) == d # -1 /\ MkdirScanned(d, n, Scan(vol, d, n))
Mkdir(path) == Ready /\ MkdirIn(Parent(vol, path), path[Len(path)])

Data == {[i \in 1 .. n |-> b] : n \in Lengths, b \in Bytes}

FatInit ==
  /\ fat_type \in FatTypes
  /\ vol = [fat |-> [c \in Clusters |-> IF fat_type = 32 /\ c = 2 THEN EOC ELSE 0],
            slot |-> [p \in Places |-> End],
            bytes |-> [c \in Clusters |-> [i \in 1 .. CLUSTER_SIZE |-> 0]]]

WriteReplace(f, data) == WriteTo(f, data, Replaced(f.v, f.at, data))
WriteAppend(f, data) == WriteTo(f, data, Lengthened(f.v, f.at, data))
Writes(f) == \E data \in Data : WriteReplace(f, data) \/ WriteAppend(f, data)

FatNext ==
  \E path \in Paths :
    \/ Writes(Opened(path))
    \/ RemovePath(path)
    \/ Mkdir(path)

-----------------------------------------------------------------------------
(* Properties *)

\* The entries in use of a directory, and of the whole tree: a directory made
\* when the volume was full has no cluster of its own.
ListedAt(v, ps) ==
  {ps[k] : k \in {j \in 1 .. Len(ps) : InUse(v.slot[ps[j]]) /\ \A i \in 1 .. j : v.slot[ps[i]] # End}}
ListedIn(v, d) == ListedAt(v, PlacesOf(v, d))
Below(v, S) == UNION {ListedIn(v, v.slot[p].first) : p \in {q \in S : v.slot[q].dir /\ v.slot[q].first # 0}}
WithBelow(v, S) == S \cup Below(v, S)
Listed(v) == WithBelow(v, ListedIn(v, RootDir))

\* Of chains, by the place that starts each: every one ends and visits no cluster twice,
\* no two meet, and together they hold what the table marks as used.
Sound(chains) ==
  /\ \A p \in DOMAIN chains :
       chains[p] # <<>> => IsInjective(chains[p]) /\ vol.fat[Last(chains[p])] = EOC
  /\ \A p, q \in DOMAIN chains : p # q => Range(chains[p]) \cap Range(chains[q]) = {}
  /\ UNION {Range(chains[p]) : p \in DOMAIN chains} = {c \in Clusters : vol.fat[c] # 0}

\* Every chain ends and visits no cluster twice, no cluster is in two chains, and
\* every cluster the table marks as used is in the chain of some entry: none is
\* shared and none is lost, also after writes and mkdirs that ran out of space
\* half way (fatfs_write_append, fatfs_mkdir, fatfs_dir_take_slot).
ChainsSound ==
  Ready => Sound([p \in Listed(vol) \cup {NoPlace} |->
                    Chain(vol, IF p = NoPlace THEN RootDir ELSE vol.slot[p].first)])

\* No directory has two entries of one name (fatfs_dir_scan and fatfs_dir_take_slot
\* look for the name, for a deleted entry and for the end in one pass).
NamesUnique ==
  \A d \in {RootDir} \cup {vol.slot[r].first : r \in {s \in Listed(vol) : vol.slot[s].dir}} :
    \A p, q \in ListedIn(vol, d) : vol.slot[p].name = vol.slot[q].name => p = q

\* Room after the last byte of a file in the last cluster of its chain.  An append at a size
\* that is a multiple of the cluster size starts again at offset 0 of that cluster, without
\* growing the chain, and one that failed leaves clusters linked which the next begins to
\* fill: after either, chain and size disagree.
EndsInside(v, at) ==
  LET size == v.slot[at].size
  IN  Len(Chain(v, v.slot[at].first)) = CountFor(size) /\ (size = 0 \/ size % CLUSTER_SIZE # 0)

\* The files read old before the write to f; after its outcome w they read the same, but
\* for the file itself, which reads now.
ReadsBack(f, old, w, now) ==
  \A p \in DOMAIN old : Contents(w.v, p) = IF p = f.at THEN now ELSE old[p]
ReplaceReads(f, old, w, data) == ReadsBack(f, old, w, IF w.ok THEN data ELSE <<>>)
AppendReads(f, old, w, data) ==
  ReadsBack(f, old, w, IF ~EndsInside(f.v, f.at) THEN Contents(w.v, f.at)
                       ELSE old[f.at] \o (IF w.ok THEN data ELSE <<>>))
WriteReads(f, old, data) ==
  /\ ReplaceReads(f, old, Replaced(f.v, f.at, data), data)
  /\ AppendReads(f, old, Lengthened(f.v, f.at, data), data)
WritesRead(f) ==
  f.at # NoPlace /\ ~f.v.slot[f.at].dir =>
    \A n \in Lengths : WriteReads(f, [p \in Listed(f.v) |-> Contents(f.v, p)],
                                  [i \in 1 .. n |-> 1 + Max(Bytes)])     \* a byte of its own

\* Writing a file, from any volume the driver can come to, changes what is read from that
\* file only, and there to what was asked for: a replace to the new data or, when it fails,
\* to nothing; an append to a file that ends inside its last cluster to the old data and
\* the new or, when it fails, not at all (fatfs_write_replace, fatfs_write_append).
WritesReadBack == Ready => \A path \in Paths : WritesRead(Opened(path))

=============================================================================
