SPECIFICATION Spec
CONSTANTS
  NClusters = 3
  CLUSTER_SIZE = 2
  ENTRIES = 3
  ROOT_ENTRIES = 2
  FatTypes = {0, 16, 32}
  Names = {a, b}
  Lengths = {0, 1, 3}
  Bytes = {1}
  MaxSize = 4
  BLOCKDEV_MAX_DEVICES = 4
  VOLMGR_MAX_VOLUMES = 2
  MBR_PARTITION_COUNT = 4
  IMAGE_UNITS = 4
  BACKING_UNITS = 3
  DiskSizes = {2, 8}
  VFS_MAX_MOUNTS = 8
  RAMFS_MAX_FILES = 4
  FILE_LINES = 3
  KLOG_CAPACITY = 2
  Sinks = {"kernel.log"}
  MaxLines = 3
  DEVMGR_MAX_DEVICES = 9
  MODULE_MAX_COUNT = 4
  DEVICEFS_MAX_DATA = 4
  OnDisk = {"drv1", "drv2"}
  Careful = {"ps2kbd0", "drv1"}
INVARIANTS
  ChainsSound
  NamesUnique
  WritesReadBack
  DiskHoldsImage
  VolumesArePartitions
  NoOrphans
  LogsInOrder
  DeviceTreeSound
  NodesPublished
CHECK_DEADLOCK FALSE
