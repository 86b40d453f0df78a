-------------------------------- MODULE Storage --------------------------------
(***************************************************************************)
(* Below the file system: block devices (kernel/blockdev.c), the MBR       *)
(* partitions (kernel/partition.c) and volumes (kernel/volmgr.c) found on  *)
(* them, the ATA driver with its BIOS fallback (modules/ata_module.c,      *)
(* kernel/bios_fallback.c), and the write-out of the FAT image that the    *)
(* boot loader left in memory (fatfs_flush in kernel/fatfs.c).             *)
(*                                                                         *)
(* Boot code and the shell are the only callers, one at a time, so an      *)
(* operation is one action.  The image and the disk are cut into units of  *)
(* 64 sectors, the most the BIOS moves at once; of their contents only     *)
(* whether they agree is kept.  A transfer fails as the hardware pleases.  *)
(***************************************************************************)
EXTENDS Integers, Sequences, FiniteSets, FiniteSetsExt, SequencesExt

CONSTANTS
  BLOCKDEV_MAX_DEVICES, VOLMGR_MAX_VOLUMES,
  MBR_PARTITION_COUNT,
  IMAGE_UNITS,            \* fat_size: the image in memory
  BACKING_UNITS,          \* fat_sectors: its place on the disk, from fat_lba on
  DiskSizes               \* the units a drive may report from fat_lba on

ASSUME StorageAssumption ==
  {BLOCKDEV_MAX_DEVICES, VOLMGR_MAX_VOLUMES, MBR_PARTITION_COUNT,
   IMAGE_UNITS, BACKING_UNITS} \cup DiskSizes \subseteq Nat \ {0}

PIO_UNITS == 2            \* 128 sectors in one ATA command
Units == 1 .. IMAGE_UNITS
Entries == 1 .. MBR_PARTITION_COUNT

VARIABLES
  stage,                  \* how far kmain is
  mbr,                    \* the used entries of sector 0, or NoSignature
  sectors,                \* what the drive answered to IDENTIFY, in units; 0 when not present
  blocks,                 \* device_table of blockdev.c up to device_count
  volumes,                \* the block device of each used slot of volume_table
  stale,                  \* the units that differ between image and disk
  unmarked,               \* ghost: those of them a failed operation changed
  dirty

storageVars == <<stage, mbr, sectors, blocks, volumes, stale, unmarked, dirty>>

NoSignature == {0}

-----------------------------------------------------------------------------
(* Block devices and partitions.  The disk is called <<>>, its k-th         *)
(* partition <<k>>; entry is what a partition was made from, 0 for a disk.  *)

Block(name, entry) == [name |-> name, entry |-> entry, scanned |-> FALSE]

\* blockdev_register: a full table and a name in use are refused.
Registered(bs, name, entry) ==
  IF Len(bs) >= BLOCKDEV_MAX_DEVICES \/ \E i \in DOMAIN bs : bs[i].name = name
  THEN bs ELSE Append(bs, Block(name, entry))

\* The loop of partition_scan_device over the used entries; one for which there
\* is no memory takes no number.
Partitions(bs, got) ==
  LET order == SetToSortSeq(got, <)
      after[k \in 0 .. Len(order)] ==
        IF k = 0 THEN bs ELSE Registered(after[k - 1], <<k>>, order[k])
  IN  after[Len(order)]

NeverMarked(bs, readable, got) ==       \* mutant: the disk is not marked as scanned
  IF bs = <<>> \/ bs[1].scanned \/ ~readable THEN bs
  ELSE IF mbr = NoSignature THEN bs ELSE Partitions(bs, got)

\* partition_scan_device on the disk, which is the first device when there is one.
Scanned(bs, readable, got) ==
  IF bs = <<>> \/ bs[1].scanned \/ ~readable THEN bs
  ELSE [(IF mbr = NoSignature THEN bs ELSE Partitions(bs, got)) EXCEPT ![1].scanned = TRUE]

\* volmgr_rescan on an empty table: attach_device for every partition, in order.
Attachments(bs) ==
  LET parts == SetToSortSeq({i \in DOMAIN bs : bs[i].entry # 0}, <)
  IN  SubSeq(parts, 1, Min({Len(parts), VOLMGR_MAX_VOLUMES}))

-----------------------------------------------------------------------------
(* Writing.  A transfer of the units 1 .. n gives the set of units that     *)
(* reached the disk and whether it succeeded.                               *)

Chunks(n, size) == {k \in 0 .. n : k % size = 0 \/ k = n}      \* how far whole chunks reach

Transfers(n, size) ==
  {[to |-> n, ok |-> TRUE]}
  \cup {[to |-> k, ok |-> FALSE] : k \in Chunks(n, size)}

\* ata_pio_write: an error after the data of a chunk was sent may leave it written.
\* bios_fallback_write starts again from the first sector.
AtaWrites(n) ==
  LET pio == IF sectors > 0 THEN Transfers(n, PIO_UNITS) ELSE {[to |-> 0, ok |-> FALSE]}
  IN  {w \in pio : w.ok}
      \cup {[to |-> Max({w[1].to, w[2].to}), ok |-> w[2].ok] :
              w \in {p \in pio : ~p.ok} \X Transfers(n, 1)}

\* blockdev_write on the disk; a drive that was not identified has no known size.
BlockWrites(n) ==
  IF sectors > 0 /\ n > sectors THEN {[to |-> 0, ok |-> FALSE]} ELSE AtaWrites(n)

Backed == Min({BACKING_UNITS, IMAGE_UNITS})

ForgetsOnError(changed) ==              \* mutant: a failed write leaves the volume clean
  /\ dirty' = FALSE
  /\ IF blocks = <<>> THEN stale' = stale \cup changed
     ELSE \E w \in BlockWrites(Backed) : stale' = (stale \cup changed) \ (1 .. w.to)
\* fatfs_mark_dirty, then fatfs_flush_or_warn: the whole image is written, and the
\* volume is clean again only when all of it was.
Flush(changed) ==
  IF blocks = <<>> THEN stale' = stale \cup changed /\ dirty' = TRUE
  ELSE \E w \in BlockWrites(Backed) :
         /\ stale' = (stale \cup changed) \ (1 .. w.to)
         /\ dirty' = ~w.ok

-----------------------------------------------------------------------------
(* Boot and run *)

StorageInit ==
  /\ stage = "mount" /\ mbr \in SUBSET Entries \cup {NoSignature}
  /\ sectors = 0 /\ blocks = <<>> /\ volumes = <<>>
  /\ stale = {} /\ unmarked = {} /\ dirty = FALSE

\* A write, mkdir or rm on the volume that succeeds.
Succeeds ==
  /\ stage \in {"mount", "running"}     \* fat16_mount_volume makes the home directories
  /\ \E changed \in SUBSET Units \ {{}} : Flush(changed) /\ unmarked' = (unmarked \ changed) \cap stale'
  /\ UNCHANGED <<stage, mbr, sectors, blocks, volumes>>

\* One that runs out of space after it changed clusters: neither marked nor written.
Fails ==
  /\ stage \in {"mount", "running"}
  /\ \E changed \in SUBSET Units \ {{}} :
       stale' = stale \cup changed /\ unmarked' = unmarked \cup changed
  /\ UNCHANGED <<stage, mbr, sectors, blocks, volumes, dirty>>

\* module_init of the ATA driver; the module itself may not load.
LoadAta ==
  /\ stage = "mount" /\ stage' = "modules"
  /\ \/ /\ sectors' \in {0} \cup DiskSizes
        /\ \E readable \in BOOLEAN, got \in SUBSET (mbr \ {0}) :
             blocks' = Scanned(Registered(blocks, <<>>, 0), readable, got)
     \/ UNCHANGED <<sectors, blocks>>
  /\ UNCHANGED <<mbr, volumes, stale, unmarked, dirty>>

\* volmgr_init scans the disks again before it looks for partitions.
VolmgrInit ==
  /\ stage = "modules" /\ stage' = "running"
  /\ \E readable \in BOOLEAN, got \in SUBSET (mbr \ {0}) : blocks' = Scanned(blocks, readable, got)
  /\ volumes' = Attachments(blocks')
  /\ UNCHANGED <<mbr, sectors, stale, unmarked, dirty>>

StorageNext == Succeeds \/ Fails \/ LoadAta \/ VolmgrInit

StorageSpec == StorageInit /\ [][StorageNext]_storageVars

-----------------------------------------------------------------------------
(* Properties *)

\* After fatfs_flush has cleared dirty the disk holds the image of the volume, up to
\* what operations that failed half-way changed: whatever transfers broke off, in the
\* ATA driver or in the fallback that repeats it, and however often.
DiskHoldsImage == ~dirty => stale \cap (1 .. Backed) \subseteq unmarked

\* Each used MBR entry becomes one partition at most, under a name of its own, and each
\* partition one volume: though the disk is scanned when the driver registers it and
\* again by volmgr_init, after a read that failed or entries that found no memory.
VolumesArePartitions ==
  /\ \A i, j \in DOMAIN blocks : blocks[i].name = blocks[j].name \/ blocks[i].entry = blocks[j].entry => i = j
  /\ \A v, w \in DOMAIN volumes : volumes[v] = volumes[w] => v = w
  /\ stage = "running" /\ Len(volumes) < VOLMGR_MAX_VOLUMES =>
       {volumes[v] : v \in DOMAIN volumes} = {i \in DOMAIN blocks : blocks[i].entry \in mbr \ {0}}

=============================================================================
