------------------------------- MODULE MCStorage -------------------------------
(***************************************************************************)
(* The instance of the storage components and of the device manager for    *)
(* TLC.  They exchange return values but share no variables, so a          *)
(* behaviour is followed in one of them, the focus, while the others rest  *)
(* in an initial state: their product would add states and no outcome.     *)
(***************************************************************************)
EXTENDS Fat, Storage, Files, Devices

VARIABLE focus

Init ==
  /\ focus \in {"Fat", "Storage", "Files", "Devices"}
  /\ FatInit /\ StorageInit /\ FilesInit /\ DevicesInit
  /\ focus # "Fat" => fat_type = 0
  /\ focus # "Storage" => mbr = {}

Next ==
  /\ UNCHANGED focus
  /\ \/ focus = "Fat" /\ FatNext /\ UNCHANGED <<storageVars, filesVars, deviceVars>>
     \/ focus = "Storage" /\ StorageNext /\ UNCHANGED <<fatVars, filesVars, deviceVars>>
     \/ focus = "Files" /\ FilesNext /\ UNCHANGED <<fatVars, storageVars, deviceVars>>
     \/ focus = "Devices" /\ DevicesNext /\ UNCHANGED <<fatVars, storageVars, filesVars>>

Spec == Init /\ [][Next]_<<focus, fatVars, storageVars, filesVars, deviceVars>>

=============================================================================
