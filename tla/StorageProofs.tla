---------------------------- MODULE StorageProofs ----------------------------
(***************************************************************************)
(* That a clean volume is on disk, for images, disks and tables of any     *)
(* size.                                                                   *)
(***************************************************************************)
EXTENDS Storage, TLAPS

\* The larger of two numbers, as Max chooses it.
LEMMA MaxOfTwo ==
  ASSUME NEW a \in Int, NEW b \in Int, a <= b
  PROVE  Max({a, b}) = b
<1>1. \E x \in {a, b} : \A y \in {a, b} : x >= y
  OBVIOUS
<1>2. \A x \in {a, b} : (\A y \in {a, b} : x >= y) => x = b
  OBVIOUS
<1>. QED  BY <1>1, <1>2 DEF Max

\* fatfs_flush writes a whole number of units.
LEMMA BackedIsNat == Backed \in Nat
<1>1. BACKING_UNITS \in Nat /\ IMAGE_UNITS \in Nat
  BY StorageAssumption
<1>2. \E x \in {BACKING_UNITS, IMAGE_UNITS} : \A y \in {BACKING_UNITS, IMAGE_UNITS} : x <= y
  BY <1>1
<1>. QED  BY <1>1, <1>2 DEF Backed, Min

\* A write that succeeds has put every unit on the disk: ata_pio_write at once, or the
\* fallback, which starts again from the first sector after the driver broke off.
LEMMA WholeWrite ==
  ASSUME NEW n \in Nat, NEW w \in BlockWrites(n), w.ok
  PROVE  w.to = n
<1>1. \A size : \A x \in Transfers(n, size) : x.to \in 0 .. n /\ (x.ok => x.to = n)
  BY DEF Transfers, Chunks
<1>2. w \in AtaWrites(n)
  BY DEF BlockWrites
<1>. DEFINE pio == IF sectors > 0 THEN Transfers(n, PIO_UNITS) ELSE {[to |-> 0, ok |-> FALSE]}
<1>3. \A x \in pio : x.to \in 0 .. n /\ (x.ok => x.to = n)
  BY <1>1
<1>4. CASE w \in {x \in pio : x.ok}
  BY <1>3, <1>4
<1>5. CASE w \in {[to |-> Max({x[1].to, x[2].to}), ok |-> x[2].ok] :
                    x \in {p \in pio : ~p.ok} \X Transfers(n, 1)}
  <2>1. PICK x \in {p \in pio : ~p.ok} \X Transfers(n, 1) :
               w = [to |-> Max({x[1].to, x[2].to}), ok |-> x[2].ok]
    BY <1>5
  <2>2. x[1] \in pio /\ x[2] \in Transfers(n, 1)
    OBVIOUS
  <2>3. x[2].to = n /\ x[1].to \in Int /\ x[1].to <= n
    BY <1>1, <1>3, <2>1, <2>2
  <2>. QED  BY <2>1, <2>3, MaxOfTwo
<1>. QED  BY <1>2, <1>4, <1>5 DEF AtaWrites

\* Whatever transfers fail, in the ATA driver or in the BIOS fallback that repeats them, a
\* volume that fatfs_flush has marked clean is on disk, up to what failed operations changed.
THEOREM CleanIsWritten == StorageSpec => []DiskHoldsImage
<1>1. StorageInit => DiskHoldsImage
  BY DEF StorageInit, DiskHoldsImage
<1>2. DiskHoldsImage /\ [StorageNext]_storageVars => DiskHoldsImage'
  <2>. SUFFICES ASSUME DiskHoldsImage, [StorageNext]_storageVars
                PROVE  DiskHoldsImage'
    OBVIOUS
  <2>1. CASE Succeeds
    <3>1. PICK changed \in SUBSET Units \ {{}} : Flush(changed)
      BY <2>1 DEF Succeeds
    <3>2. CASE blocks = <<>>
      BY <3>1, <3>2 DEF Flush, DiskHoldsImage
    <3>3. CASE blocks # <<>>
      <4>1. PICK w \in BlockWrites(Backed) : /\ stale' = (stale \cup changed) \ (1 .. w.to)
                                             /\ dirty' = ~w.ok
        BY <3>1, <3>3 DEF Flush
      <4>2. w.ok => stale' \cap (1 .. Backed) = {}
        BY <4>1, WholeWrite, BackedIsNat
      <4>3. Backed' = Backed
        BY DEF Backed
      <4>. QED  BY <4>1, <4>2, <4>3 DEF DiskHoldsImage
    <3>. QED  BY <3>2, <3>3
  <2>2. CASE Fails
    BY <2>2 DEF Fails, DiskHoldsImage, Backed
  <2>3. CASE LoadAta
    BY <2>3 DEF LoadAta, DiskHoldsImage, Backed
  <2>4. CASE VolmgrInit
    BY <2>4 DEF VolmgrInit, DiskHoldsImage, Backed
  <2>5. CASE UNCHANGED storageVars
    BY <2>5 DEF storageVars, DiskHoldsImage, Backed
  <2>. QED  BY <2>1, <2>2, <2>3, <2>4, <2>5 DEF StorageNext
<1>. QED  BY <1>1, <1>2, PTL DEF StorageSpec

=============================================================================
