-------------------------------- MODULE Devices --------------------------------
(***************************************************************************)
(* The module loader (kernel/module.c), the device manager                 *)
(* (kernel/devmgr.c) and the nodes of /Devices (kernel/devicefs.c).  The   *)
(* modules are drivers as the two PS/2 ones: each has a device below a     *)
(* controller that the first of them to be initialised creates.  The two   *)
(* are linked into the kernel, and the ones on disk do the same with a     *)
(* controller of their own.  Modules are loaded and unloaded by the boot   *)
(* code and the shell only, one at a time: a load or an unload is one      *)
(* action.                                                                 *)
(***************************************************************************)
EXTENDS Integers, Sequences, FiniteSets, FiniteSetsExt, SequencesExt

CONSTANTS
  DEVMGR_MAX_DEVICES, MODULE_MAX_COUNT, DEVICEFS_MAX_DATA,
  OnDisk,                 \* the modules `mod load` finds
  Careful                 \* the modules that undo and exit as ps2kbd does, not as ps2mouse

ASSUME DevicesAssumption ==
  DEVMGR_MAX_DEVICES >= 4 /\ MODULE_MAX_COUNT > 0 /\ DEVICEFS_MAX_DATA > 0

Builtins == <<"ps2kbd0", "ps2mouse0">>   \* of the modules linked into the kernel

DeviceSlots == 1 .. DEVMGR_MAX_DEVICES
Root == 1                 \* root_device is the first slot allocated
Device(n, p, pub) == [name |-> n, parent |-> p, publish |-> pub]
NoDevice == Device("", 0, FALSE)

VARIABLES
  device_table,           \* slot -> device; the parent is a slot, as the pointer is
  data_entries,           \* /Devices: name -> who wrote it last
  module_table,           \* [name, builtin, active] up to module_count
  created                 \* the modules whose controller_created is set

deviceVars == <<device_table, data_entries, module_table, created>>

-----------------------------------------------------------------------------
(* The device manager, on a pair of device table and nodes *)

Node(n) == <<n, "node">>            \* /Devices/n
Status(n) == <<n, "status">>        \* what the driver writes itself: /Devices/n.status, n.map

Used(dt) == {s \in DeviceSlots : dt[s] # NoDevice}
Find(dt, n) == {s \in Used(dt) : dt[s].name = n}          \* find_device_by_name
Has(d, n) == Find(d.table, n) # {}

\* devicefs_write: the entry of that name, or a free one, or none.
NodeWritten(nodes, n, by) ==
  IF n \in DOMAIN nodes \/ Cardinality(DOMAIN nodes) < DEVICEFS_MAX_DATA
  THEN [m \in DOMAIN nodes \cup {n} |-> IF m = n THEN by ELSE nodes[m]]
  ELSE nodes
NodeRemoved(nodes, n) == [m \in DOMAIN nodes \ {n} |-> nodes[m]]

\* devmgr_register_device: a name in use, a full table or a start that fails leave
\* nothing behind; an unknown parent is the root.
Register(d, n, parent, publish, starts) ==
  IF Has(d, n) \/ Used(d.table) = DeviceSlots \/ ~starts THEN d
  ELSE LET p == Find(d.table, parent)
       IN  [table |-> [d.table EXCEPT ![Min(DeviceSlots \ Used(d.table))] =
                          Device(n, IF p = {} THEN Root ELSE Min(p), publish)],
            nodes |-> IF publish THEN NodeWritten(d.nodes, Node(n), "devmgr") ELSE d.nodes]

KeepsChildren(dt, s) == dt              \* mutant: nobody detaches the children
\* detach_children: they move to the parent of the device in slot s.
Detach(dt, s) ==
  [c \in DeviceSlots |-> IF dt[c] # NoDevice /\ dt[c].parent = s
                         THEN [dt[c] EXCEPT !.parent = dt[s].parent] ELSE dt[c]]

NeverUnpublished(nodes, dev) == nodes   \* mutant: the node stays
Unpublish(nodes, dev) == IF dev.publish THEN NodeRemoved(nodes, Node(dev.name)) ELSE nodes

\* devmgr_unregister_device
Unregister(d, n) ==
  IF ~Has(d, n) THEN d
  ELSE LET s == Min(Find(d.table, n))
       IN  [table |-> [Detach(d.table, s) EXCEPT ![s] = NoDevice],
            nodes |-> Unpublish(d.nodes, d.table[s])]

-----------------------------------------------------------------------------
(* A driver: module_init and module_exit of the PS/2 drivers *)

Controller(m) == IF m \in OnDisk THEN "bus0" ELSE "ps2ctrl0"

\* The controller is found or created, the device registered below it, and (ps2kbd) a
\* system call registered.  What fails is undone by a careful driver.
Undo(m, d, made) == IF m \in Careful /\ made THEN Unregister(d, Controller(m)) ELSE d

DriverInit(m, d, starts, syscall) ==
  LET withCtrl == IF Has(d, Controller(m)) THEN d
                  ELSE Register(d, Controller(m), "platform0", FALSE, TRUE)
      made == withCtrl # d
      withDev == IF Has(withCtrl, m) THEN withCtrl
                 ELSE Register(withCtrl, m, Controller(m), TRUE, starts)
      nodes == NodeWritten(withDev.nodes, Status(m), "driver")
  IN  IF ~Has(withCtrl, Controller(m)) THEN [ok |-> FALSE, made |-> FALSE, d |-> d]
      ELSE IF withDev = withCtrl THEN [ok |-> FALSE, made |-> FALSE, d |-> Undo(m, withCtrl, made)]
      ELSE IF m \in Careful /\ ~syscall
           THEN [ok |-> FALSE, made |-> FALSE, d |-> Undo(m, Unregister(withDev, m), made)]
      ELSE [ok |-> TRUE, made |-> made /\ m \in Careful, d |-> [withDev EXCEPT !.nodes = nodes]]

DriverExit(m, d) ==
  LET gone == Unregister(d, m)
      ctrl == IF m \in created THEN Unregister(gone, Controller(m)) ELSE gone
  IN  [ctrl EXCEPT !.nodes = NodeRemoved(@, Status(m))]

-----------------------------------------------------------------------------
(* The module loader *)

Loaded(m) == \E i \in DOMAIN module_table : module_table[i].name = m
Registry == [table |-> device_table, nodes |-> data_entries]

\* load_module_internal for an image that is sound: the name is new and there is room.
\* A module whose init fails stays loaded, inactive.
Load(m, builtin) ==
  /\ Len(module_table) < MODULE_MAX_COUNT /\ ~Loaded(m)
  /\ \E starts, syscall \in BOOLEAN :
       LET r == DriverInit(m, Registry, starts, syscall)
       IN  /\ device_table' = r.d.table /\ data_entries' = r.d.nodes
           /\ module_table' = Append(module_table, [name |-> m, builtin |-> builtin, active |-> r.ok])
           /\ created' = IF r.made THEN created \cup {m} ELSE created

\* load_builtin_modules, before the shell runs.
Booting == Len(module_table) < Len(Builtins)
LoadBuiltin == Booting /\ Load(Builtins[Len(module_table) + 1], TRUE)

\* command_mod_load and command_mod_unload
ModLoad(m) == ~Booting /\ Load(m, FALSE)

\* module_unload: exit runs only if init succeeded; the handles behind it move up.
ModUnload(m) ==
  /\ ~Booting
  /\ \E i \in DOMAIN module_table :
       /\ module_table[i].name = m /\ ~module_table[i].builtin
       /\ LET d == IF module_table[i].active THEN DriverExit(m, Registry) ELSE Registry
          IN  device_table' = d.table /\ data_entries' = d.nodes
       /\ module_table' = RemoveAt(module_table, i)
  /\ created' = created \ {m}

\* The shell writes and removes nodes of /Devices as it does files.
ShellWrites(n) ==
  /\ ~Booting
  /\ data_entries' = NodeWritten(data_entries, Node(n), "shell")
  /\ UNCHANGED <<device_table, module_table, created>>
ShellRemoves(n) ==
  /\ ~Booting
  /\ data_entries' = NodeRemoved(data_entries, Node(n))
  /\ UNCHANGED <<device_table, module_table, created>>

\* devmgr_init
DevicesInit ==
  /\ device_table = [s \in DeviceSlots |->
       CASE s = 1 -> Device("root", 0, FALSE) [] s = 2 -> Device("platform0", Root, FALSE)
         [] s = 3 -> Device("storage0", Root, FALSE) [] s = 4 -> Device("null0", 2, TRUE)
         [] OTHER -> NoDevice]
  /\ data_entries = [n \in {Node("null0")} |-> "devmgr"]
  /\ module_table = <<>> /\ created = {}

DevicesNext ==
  \/ LoadBuiltin
  \/ \E m \in OnDisk : ModLoad(m) \/ ModUnload(m)
  \/ \E n \in OnDisk \cup {"null0"} : ShellWrites(n) \/ ShellRemoves(n)

-----------------------------------------------------------------------------
(* Properties *)

\* Every parent is a device in use, and device_depth, which walks up from every device
\* when the tree is printed, comes to the root: no parent pointer dangles and, as slots
\* are used again, none leads back, whatever was loaded, failed and unloaded.
DeviceTreeSound ==
  LET nodes == Used(device_table) \ {Root}
      parent(s) == device_table[s].parent
  IN  /\ \A s \in nodes : parent(s) \in Used(device_table)
      /\ \A S \in SUBSET nodes \ {{}} : \E s \in S : parent(s) \notin S

\* A node that the device manager wrote in /Devices belongs to a registered device, and
\* no two devices have one name: an init that fails halfway, an unload and a reload never
\* leave the node of a device that is gone.
NodesPublished ==
  /\ \A n \in DOMAIN data_entries : data_entries[n] = "devmgr" =>
        \E s \in Find(device_table, n[1]) : device_table[s].publish
  /\ \A n \in {device_table[s].name : s \in Used(device_table)} :
        Cardinality(Find(device_table, n)) = 1
=============================================================================
