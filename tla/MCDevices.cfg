SPECIFICATION Spec
CONSTANTS
  SEC = 4
  MAX_PACKET_NUM = 2
  MAX_TICKS = 12
  MAX_ROUNDS = 3
  Options <- MCOptions
  Files <- MCFiles
  Cpu = {c1, c2}
  MAX_HD_NR = 3
  MAX_SEGS = 2
  Proc = {p1, p2}
  FILE_LEN = 2
  MAX_LINE_NR = 2
  MAX_LINE_LEN = 3
  Char = {"a", "b"}
  Printable = {"a", "b", " "}
  Space = " "
  Admin <- MCAdmin
  Quit <- MCQuit
  MAX_HISTORY_CMD_NUM = 2
  SHELL_BUF_LEN = 3
  STAR_NUM = 1
  BIT = 8
  CHECK = 16
  BITS = 2
  STOP_BITS = 4
  BASE = 4
  Number <- MCNumber
  SIZE_LEN = 1
  SYNC_HI <- MCHi
  SYNC_LO <- MCLo
  SILENCE = 16
  PREAMBLE = 40
  Recordable <- MCRecordable
  Starts = {0, 1, 2, 3, 60}
  Cuts = {0, 3, 30}
  Breaks = {30, 61, 90, 125, 150, 210}
  Gaps = {0, 3}
  Losses = {0, 3, 9}
  MAX_TROUBLES = 1
INVARIANTS TapSends ModulesGoQuietly EditorShows ShellShows AudioWhole
CHECK_DEADLOCK FALSE
