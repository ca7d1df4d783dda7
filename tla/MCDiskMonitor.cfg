SPECIFICATION Spec
CONSTANTS
  Thread = {1, 2}
  Main = 1
  max_log_file_size = 1
  DISK = 11
  Inode = {1, 2}
  MAX_EVENTS = 3
  NONE = NONE
  Value <- MCValue
  Trimmed <- MCTrimmed
  MAX_VAR_NUM = 2
  ConfigLines <- MCConfigLines
  g_fs_space_threshold = 2
  OtherUnits = {0, 2}
INVARIANTS LogSizeBounded DiskWhole DiskAgrees
PROPERTIES MonitorGetsOn
CHECK_DEADLOCK FALSE
