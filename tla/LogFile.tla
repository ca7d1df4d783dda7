------------------------------ MODULE LogFile ------------------------------
(* The log of libs/app_utils/src/log.c on a disk that it shares: files     *)
(* named after the second they are opened in, and write_file, which no     *)
(* lock protects from the threads that call it.                            *)
EXTENDS Integers, Sequences, FiniteSets, SequencesExt, FiniteSetsExt

CONSTANTS
  Thread,              \* the threads that log
  max_log_file_size,   \* in records; a record is one unit of the disk
  DISK,                \* units of the disk
  Inode,               \* bound: log files that there can be at once
  MAX_EVENTS,          \* bound on calls, crashes, seconds and what others do
  NONE

LogAssumption ==
  /\ max_log_file_size \in Nat \ {0} /\ DISK \in Nat /\ MAX_EVENTS \in Nat
  /\ IsFiniteSet(Thread) /\ IsFiniteSet(Inode) /\ Inode \subseteq Nat /\ NONE \notin Inode
ASSUME LogAssumption

VARIABLES
  up,          \* the program that logs is running
  now,         \* the second of the day
  name, size,  \* of each log file; the name is a second, NONE if unlinked
  order,       \* the linked log files, least recently written first
  fd_log_file, \* the open one, or NONE
  leaked,      \* files that are open although fd_log_file was overwritten
  lpc,         \* lpc[t]: where thread t is in write_file
  others,      \* units of the disk that other files use
  events       \* how many of the bounded events there have been

log == <<name, size, order, fd_log_file, leaked, lpc>>
-----------------------------------------------------------------------------
(* The part of the kernel: the blocks of a file that is unlinked stay in   *)
(* use as long as it is open.                                              *)
Live == ToSet(order) \cup leaked \cup ({fd_log_file} \ {NONE})
LogUnits == MapThenSumSet(LAMBDA i : size[i], Live)

Event == events < MAX_EVENTS /\ events' = events + 1

Idle == [t \in Thread |-> "idle"]
Touched(i) == Append(RemoveFirst(order, i), i)

(* new_log_file_name and open with O_TRUNC: a name of the same second is   *)
(* the same file, which loses its contents.                                *)
OpenLog ==
  LET same == {i \in ToSet(order) : name[i] = now}
      unused == Inode \ Live
      i == IF same # {} THEN Min(same) ELSE Min(unused)
  IN /\ same # {} \/ unused # {}
     /\ name' = [name EXCEPT ![i] = now] /\ size' = [size EXCEPT ![i] = 0]
     /\ order' = Touched(i) /\ fd_log_file' = i

(* exit(1), a crash, or the end of the program.                            *)
Stop ==
  /\ up' = FALSE /\ lpc' = Idle /\ fd_log_file' = NONE /\ leaked' = {}
  /\ UNCHANGED <<name, size, order>>
-----------------------------------------------------------------------------
(* write_file, called by write_log.                                        *)

\* Fault: the file may also be full.
Full_Beyond(i) == size[i] > max_log_file_size

Full(i) == size[i] >= max_log_file_size

StatSize(t) ==
  /\ up /\ lpc[t] = "idle"
  /\ \/ fd_log_file = NONE /\ Stop
     \/ /\ fd_log_file # NONE
        /\ lpc' = [lpc EXCEPT ![t] = IF Full(fd_log_file) THEN "close" ELSE "write"]
        /\ UNCHANGED <<up, name, size, order, fd_log_file, leaked>>

CloseFile(t) ==
  /\ lpc[t] = "close" /\ lpc' = [lpc EXCEPT ![t] = "open"] /\ fd_log_file' = NONE
  /\ UNCHANGED <<up, name, size, order, leaked>>

(* Another thread may have opened a file already: its descriptor is lost.  *)
OpenNew(t) ==
  /\ lpc[t] = "open" /\ lpc' = [lpc EXCEPT ![t] = "write"] /\ OpenLog
  /\ leaked' = leaked \cup ({fd_log_file} \ {NONE})
  /\ UNCHANGED up

(* With room units left on the disk.                                       *)
Write(t, room) ==
  /\ lpc[t] = "write"
  /\ \/ (fd_log_file = NONE \/ room = 0) /\ Stop
     \/ /\ fd_log_file # NONE /\ room > 0
        /\ size' = [size EXCEPT ![fd_log_file] = @ + 1]
        /\ order' = IF fd_log_file \in ToSet(order) THEN Touched(fd_log_file) ELSE order
        /\ lpc' = [lpc EXCEPT ![t] = "idle"]
        /\ UNCHANGED <<up, name, fd_log_file, leaked>>

write_file(t, room) == StatSize(t) \/ CloseFile(t) \/ OpenNew(t) \/ Write(t, room)

init_log == lpc' = Idle /\ leaked' = {} /\ OpenLog
-----------------------------------------------------------------------------
(* No log file grows beyond its limit by more than one record of each      *)
(* thread, however the calls of write_file overlap.                        *)
LogSizeBounded ==
  \A i \in Live : size[i] <= max_log_file_size - 1 + Cardinality(Thread)
=============================================================================
