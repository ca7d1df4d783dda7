---------------------------- MODULE FilesProofs ----------------------------
(* The log and the configuration file, for any number of threads, files,   *)
(* variables and lines, on a disk of any size and next to any monitor: the *)
(* log files stay within their limit by one record of each thread, and the *)
(* configuration on the disk is whole and agrees with that in memory.      *)
EXTENDS DiskMonitor, SequenceTheorems, FiniteSetTheorems, WellFoundedInduction, TLAPS

\* A set of natural numbers that is not empty has a least element.
LEMMA Least ==
  ASSUME NEW T, T \subseteq Nat, T # {}
  PROVE  \E x \in T : \A y \in T : x <= y
<1>1. PICK x \in T : \A y \in T : ~(<<y, x>> \in OpToRel(<, Nat))
  BY NatLessThanWellFounded, WFMin, Zenon
<1>2. \A y \in T : y < x => <<y, x>> \in OpToRel(<, Nat)
  <2> SUFFICES ASSUME NEW y \in T, y < x PROVE <<y, x>> \in OpToRel(<, Nat) OBVIOUS
  <2>1. <<y, x>> \in Nat \X Nat OBVIOUS
  <2>2. <<y, x>>[1] < <<y, x>>[2] OBVIOUS
  <2> QED BY <2>1, <2>2, Zenon DEF OpToRel
<1>3. \A y \in T : ~(y < x) BY <1>1, <1>2, Zenon
<1> QED BY <1>3

\* What a list of members of S holds.
LEMMA Members ==
  ASSUME NEW S, NEW s \in Seq(S)
  PROVE  /\ ToSet(s) \subseteq S /\ Len(s) \in Nat /\ DOMAIN s = 1 .. Len(s)
         /\ \A i \in 1 .. Len(s) : s[i] \in S /\ s[i] \in ToSet(s)
         /\ \A x \in ToSet(s) : \E i \in 1 .. Len(s) : s[i] = x
BY DEF ToSet

-----------------------------------------------------------------------------
(* The log.  A thread that has passed the test of the size may still write *)
(* when the file is full: each such thread is counted as a record.         *)

Writers == {t \in Thread : lpc[t] = "write"}
SizeLimit == max_log_file_size - 1 + Cardinality(Thread)

LogTypes ==
  /\ size \in [Inode -> Nat] /\ lpc \in [Thread -> {"idle", "close", "open", "write"}]
  /\ order \in Seq(Inode) /\ leaked \subseteq Inode /\ fd_log_file \in Inode \cup {NONE}
LogSizes ==
  /\ \A i \in Inode : size[i] <= SizeLimit
  /\ fd_log_file # NONE => size[fd_log_file] + Cardinality(Writers) <= SizeLimit
LogInv == LogTypes /\ LogSizes

\* The numbers of threads and of threads that write.
LEMMA Threads ==
  /\ max_log_file_size \in Nat /\ max_log_file_size > 0 /\ Cardinality(Thread) \in Nat /\ SizeLimit \in Nat
  /\ IsFiniteSet(Writers) /\ Cardinality(Writers) \in Nat /\ Cardinality(Writers) <= Cardinality(Thread)
<1>1. IsFiniteSet(Thread) /\ max_log_file_size \in Nat \ {0} BY LogAssumption DEF LogAssumption
<1>2. Writers \subseteq Thread BY DEF Writers
<1>3. IsFiniteSet(Writers) /\ Cardinality(Writers) <= Cardinality(Thread) BY <1>1, <1>2, FS_Subset
<1>4. Cardinality(Writers) \in Nat /\ Cardinality(Thread) \in Nat BY <1>1, <1>3, FS_CardinalityType
<1> QED BY <1>1, <1>3, <1>4 DEF SizeLimit

\* The same after a step.
LEMMA WritersLater == Cardinality(Writers') \in Nat /\ Cardinality(Writers') <= Cardinality(Thread)
<1>1. Writers' \subseteq Thread BY DEF Writers
<1>2. IsFiniteSet(Thread) BY LogAssumption DEF LogAssumption
<1>3. IsFiniteSet(Writers') /\ Cardinality(Writers') <= Cardinality(Thread) BY <1>1, <1>2, FS_Subset
<1> QED BY <1>3, FS_CardinalityType

\* A file that is written becomes the last of the linked files.
LEMMA TouchedFiles == ASSUME LogTypes, NEW i \in Inode PROVE Touched(i) \in Seq(Inode)
<1>1. order \in Seq(Inode) BY DEF LogTypes
<1>2. RemoveFirst(order, i) \in Seq(Inode)
  <2>1. CASE ~\E k \in 1 .. Len(order) : order[k] = i BY <1>1, <2>1 DEF RemoveFirst
  <2>2. CASE \E k \in 1 .. Len(order) : order[k] = i
    <3>1. PICK at : at = {k \in 1 .. Len(order) : order[k] = i} OBVIOUS
    <3>2. PICK n : n = Min(at) OBVIOUS
    <3>3. at \subseteq Nat /\ at # {} BY <2>2, <3>1
    <3>4. \E x \in at : \A y \in at : x <= y BY <3>3, Least
    <3>5. n \in at BY <3>2, <3>4 DEF Min
    <3>6. n \in 1 .. Len(order) /\ Len(order) \in Nat BY <1>1, <3>1, <3>5
    <3>7. RemoveFirst(order, i) = RemoveAt(order, n) BY <2>2, <3>1, <3>2, <3>3 DEF RemoveFirst, SelectInSeq
    <3>8. SubSeq(order, 1, n - 1) \in Seq(Inode)
      <4>1. \A k \in 1 .. n - 1 : order[k] \in Inode BY <1>1, <3>6
      <4>2. 1 \in Int /\ n - 1 \in Int BY <3>6
      <4> QED BY <4>1, <4>2, SubSeqProperties
    <3>9. SubSeq(order, n + 1, Len(order)) \in Seq(Inode)
      <4>1. \A k \in n + 1 .. Len(order) : order[k] \in Inode BY <1>1, <3>6
      <4>2. n + 1 \in Int /\ Len(order) \in Int BY <3>6
      <4> QED BY <4>1, <4>2, SubSeqProperties
    <3>10. SubSeq(order, 1, n - 1) \o SubSeq(order, n + 1, Len(order)) \in Seq(Inode)
      BY <3>8, <3>9, ConcatProperties
    <3> QED BY <3>7, <3>10 DEF RemoveAt
  <2> QED BY <2>1, <2>2
<1> QED BY <1>2, AppendProperties DEF Touched

\* A file that is opened is empty; one of the same second is linked already.
LEMMA Opens ==
  ASSUME LogTypes, OpenLog
  PROVE  /\ size' \in [Inode -> Nat] /\ order' \in Seq(Inode) /\ fd_log_file' \in Inode
         /\ fd_log_file' # NONE /\ size'[fd_log_file'] = 0
         /\ \A i \in Inode : size'[i] = size[i] \/ size'[i] = 0
<1>1. PICK same, unused : same = {i \in ToSet(order) : name[i] = now} /\ unused = Inode \ Live OBVIOUS
<1>2. PICK i : i = IF same # {} THEN Min(same) ELSE Min(unused) OBVIOUS
<1>3. /\ same # {} \/ unused # {}
      /\ size' = [size EXCEPT ![i] = 0] /\ order' = Touched(i) /\ fd_log_file' = i
  BY <1>1, <1>2 DEF OpenLog
<1>4. Inode \subseteq Nat /\ NONE \notin Inode BY LogAssumption DEF LogAssumption
<1>5. same \subseteq Inode /\ unused \subseteq Inode BY <1>1, Members DEF LogTypes
<1>6. ASSUME NEW T, T \subseteq Inode, T # {} PROVE Min(T) \in T
  <2>1. T \subseteq Nat BY <1>4, <1>6
  <2>2. \E x \in T : \A y \in T : x <= y BY <1>6, <2>1, Least
  <2> QED BY <2>2 DEF Min
<1>7. i \in Inode BY <1>2, <1>3, <1>5, <1>6
<1> QED BY <1>3, <1>4, <1>7, TouchedFiles DEF LogTypes

\* Nobody writes in a program that has stopped.
LEMMA StopKeeps == ASSUME LogInv, Stop PROVE LogInv'
<1>1. lpc' \in [Thread -> {"idle", "close", "open", "write"}] BY DEF Stop, Idle
<1> QED BY <1>1 DEF LogInv, LogTypes, LogSizes, Stop, SizeLimit

\* A thread that passes the test finds room for every thread.
LEMMA StatSizeKeeps == ASSUME LogInv, NEW t \in Thread, StatSize(t) PROVE LogInv'
<1>1. CASE fd_log_file = NONE /\ Stop BY <1>1, StopKeeps
<1>2. CASE /\ fd_log_file # NONE
           /\ lpc' = [lpc EXCEPT ![t] = IF Full(fd_log_file) THEN "close" ELSE "write"]
           /\ UNCHANGED <<up, name, size, order, fd_log_file, leaked>>
  <2>1. LogTypes' BY <1>2 DEF LogInv, LogTypes
  <2>2. fd_log_file \in Inode /\ size[fd_log_file] \in Nat BY <1>2 DEF LogInv, LogTypes
  <2>3. CASE Full(fd_log_file)
    <3>1. Writers' = Writers BY <1>2, <2>3 DEF Writers, LogInv, LogTypes, StatSize
    <3> QED BY <1>2, <2>1, <3>1 DEF LogInv, LogSizes, SizeLimit
  <2>4. CASE ~Full(fd_log_file)
    <3>1. size[fd_log_file] <= max_log_file_size - 1 BY <2>2, <2>4, Threads DEF Full
    <3>2. size[fd_log_file] + Cardinality(Writers') <= SizeLimit BY <2>2, <3>1, WritersLater, Threads DEF SizeLimit
    <3> QED BY <1>2, <2>1, <3>2 DEF LogInv, LogSizes, SizeLimit
  <2> QED BY <2>3, <2>4
<1> QED BY <1>1, <1>2 DEF StatSize

\* The file that is closed keeps its size.
LEMMA CloseFileKeeps == ASSUME LogInv, NEW t \in Thread, CloseFile(t) PROVE LogInv'
BY DEF LogInv, LogTypes, LogSizes, SizeLimit, CloseFile

\* The file that is opened has room for a record of every thread.
LEMMA OpenKeeps ==
  ASSUME LogInv, OpenLog, leaked' \subseteq Inode, lpc' \in [Thread -> {"idle", "close", "open", "write"}]
  PROVE  LogInv'
<1>1. LogTypes BY DEF LogInv
<1>2. /\ size' \in [Inode -> Nat] /\ order' \in Seq(Inode) /\ fd_log_file' \in Inode
      /\ size'[fd_log_file'] = 0 /\ \A i \in Inode : size'[i] = size[i] \/ size'[i] = 0
  BY <1>1, Opens
<1>3. \A i \in Inode : size'[i] <= SizeLimit BY <1>2, Threads DEF LogInv, LogSizes
<1>4. size'[fd_log_file'] + Cardinality(Writers') <= SizeLimit
  BY <1>2, WritersLater, Threads DEF SizeLimit
<1> QED BY <1>2, <1>3, <1>4 DEF LogInv, LogTypes, LogSizes, SizeLimit

\* The same in write_file; a descriptor may be lost.
LEMMA OpenNewKeeps == ASSUME LogInv, NEW t \in Thread, OpenNew(t) PROVE LogInv'
<1>1. leaked' \subseteq Inode /\ lpc' \in [Thread -> {"idle", "close", "open", "write"}]
  BY DEF OpenNew, LogInv, LogTypes
<1> QED BY <1>1, OpenKeeps DEF OpenNew

\* The record of a thread takes the place of the thread.
LEMMA WriteKeeps == ASSUME LogInv, NEW t \in Thread, NEW room, Write(t, room) PROVE LogInv'
<1>1. CASE Stop BY <1>1, StopKeeps
<1>2. CASE /\ fd_log_file # NONE /\ size' = [size EXCEPT ![fd_log_file] = @ + 1]
           /\ order' = IF fd_log_file \in ToSet(order) THEN Touched(fd_log_file) ELSE order
           /\ lpc' = [lpc EXCEPT ![t] = "idle"] /\ UNCHANGED <<up, name, fd_log_file, leaked>>
  <2>1. LogTypes /\ fd_log_file \in Inode BY <1>2 DEF LogInv, LogTypes
  <2>2. LogTypes' BY <1>2, <2>1, TouchedFiles DEF LogTypes
  <2>3. t \in Writers /\ Writers' = Writers \ {t}
    BY <1>2, <2>1 DEF Write, Writers, LogTypes
  <2>4. Cardinality(Writers') = Cardinality(Writers) - 1 BY <2>3, Threads, FS_RemoveElement
  <2>5. size'[fd_log_file] = size[fd_log_file] + 1 /\ size[fd_log_file] \in Nat BY <1>2, <2>1 DEF LogTypes
  <2>6. size[fd_log_file] + Cardinality(Writers) <= SizeLimit BY <1>2 DEF LogInv, LogSizes
  <2>7. size'[fd_log_file] + Cardinality(Writers') <= SizeLimit BY <2>4, <2>5, <2>6, Threads
  <2>8. size'[fd_log_file] <= SizeLimit BY <2>4, <2>5, <2>7, Threads, WritersLater
  <2>9. \A i \in Inode : size'[i] <= SizeLimit BY <1>2, <2>1, <2>8 DEF LogInv, LogSizes, LogTypes
  <2> QED BY <1>2, <2>2, <2>7, <2>9 DEF LogInv, LogSizes, SizeLimit
<1> QED BY <1>1, <1>2 DEF Write

\* What the monitor does to the log files.
LEMMA DeleteKeeps == ASSUME LogInv, delete_the_oldest_file PROVE LogInv'
<1>1. CASE UNCHANGED log
  BY <1>1 DEF log, LogInv, LogTypes, LogSizes, Writers, SizeLimit
<1>2. CASE order # <<>> /\ order' = Tail(order) /\ UNCHANGED <<size, fd_log_file, leaked, lpc>>
  <2>1. order' \in Seq(Inode) BY <1>2, HeadTailProperties DEF LogInv, LogTypes
  <2> QED BY <1>2, <2>1 DEF LogInv, LogTypes, LogSizes, Writers, SizeLimit
<1> QED BY <1>1, <1>2 DEF delete_the_oldest_file

\* The files that are linked or open are among all files.
LEMMA LogBounded == LogInv => LogSizeBounded
<1> SUFFICES ASSUME LogInv PROVE LogSizeBounded OBVIOUS
<1>1. Live \subseteq Inode BY Members DEF LogInv, LogTypes, Live
<1> QED BY <1>1 DEF LogInv, LogSizes, LogSizeBounded, SizeLimit

-----------------------------------------------------------------------------
(* Parsing.                                                                *)

UpTo(H, i) == {j \in H : j <= i}

\* The k-th of a set of numbers.
LEMMA NthHit ==
  ASSUME NEW n \in Nat, NEW H, H \subseteq 1 .. n, NEW k \in Nat, k > 0, k <= Cardinality(H)
  PROVE  \E i \in H : Cardinality(UpTo(H, i)) = k
<1>1. IsFiniteSet(1 .. n) BY FS_Interval
<1>2. \A i : IsFiniteSet(UpTo(H, i)) /\ Cardinality(UpTo(H, i)) \in Nat
  <2> SUFFICES ASSUME NEW i PROVE IsFiniteSet(UpTo(H, i)) /\ Cardinality(UpTo(H, i)) \in Nat OBVIOUS
  <2>1. UpTo(H, i) \subseteq 1 .. n BY DEF UpTo
  <2>2. IsFiniteSet(UpTo(H, i)) BY <1>1, <2>1, FS_Subset
  <2> QED BY <2>2, FS_CardinalityType
<1>3. PICK E : E = {i \in 0 .. n : Cardinality(UpTo(H, i)) >= k} OBVIOUS
<1>4. UpTo(H, n) = H
  <2>1. \A j \in H : j <= n OBVIOUS
  <2> QED BY <2>1, Zenon DEF UpTo
<1>5. n \in E BY <1>3, <1>4
<1>6. PICK i \in E : \A j \in E : i <= j
  <2>1. E \subseteq Nat /\ E # {} BY <1>3, <1>5
  <2> QED BY <2>1, Least
<1>7. i \in 0 .. n /\ Cardinality(UpTo(H, i)) >= k BY <1>3
<1>8. i # 0
  <2>1. UpTo(H, 0) = {}
    <3>1. \A j \in H : ~(j <= 0) OBVIOUS
    <3> QED BY <3>1, Zenon DEF UpTo
  <2>2. Cardinality(UpTo(H, 0)) = 0 BY <2>1, FS_EmptySet
  <2> QED BY <1>7, <2>2
<1>9. i - 1 \in 0 .. n /\ i - 1 \notin E BY <1>6, <1>7, <1>8
<1>10. Cardinality(UpTo(H, i - 1)) < k BY <1>2, <1>3, <1>9
<1>11. UpTo(H, i) = IF i \in H THEN UpTo(H, i - 1) \cup {i} ELSE UpTo(H, i - 1)
  <2>1. \A j \in H : j \in Nat /\ (j <= i <=> j <= i - 1 \/ j = i) BY <1>7, <1>8
  <2>2. ~(i <= i - 1) BY <1>7
  <2> QED BY <2>1, <2>2, Zenon DEF UpTo
<1>12. i \notin UpTo(H, i - 1) BY <1>7 DEF UpTo
<1>13. i \in H BY <1>2, <1>7, <1>10, <1>11
<1>14. Cardinality(UpTo(H, i)) = Cardinality(UpTo(H, i - 1)) + 1
  BY <1>2, <1>11, <1>12, <1>13, FS_AddElement
<1>15. Cardinality(UpTo(H, i)) = k BY <1>2, <1>7, <1>10, <1>14
<1> QED BY <1>13, <1>15

\* parse_config_file leaves at most MAX_VAR_NUM variables, with values that have been trimmed.
LEMMA Parses ==
  ASSUME NEW lines, Text(lines)
  PROVE  \E n \in 0 .. MAX_VAR_NUM :
           /\ DOMAIN Parse(lines) = 1 .. n
           /\ \A k \in 1 .. n : /\ Parse(lines)[k].value \in DOMAIN Trimmed
                                /\ Trimmed[Parse(lines)[k].value] = Parse(lines)[k].value
<1>1. PICK hits : hits = Hits(lines) OBVIOUS
<1>2. PICK L : L = Len(lines) OBVIOUS
<1>3. L \in Nat /\ DOMAIN lines = 1 .. L BY <1>2 DEF Text
<1>4. hits \subseteq 1 .. L BY <1>1, <1>3 DEF Hits
<1>5. IsFiniteSet(hits) /\ Cardinality(hits) \in Nat
  <2>1. IsFiniteSet(1 .. L) BY <1>3, FS_Interval
  <2>2. IsFiniteSet(hits) BY <1>4, <2>1, FS_Subset
  <2> QED BY <2>2, FS_CardinalityType
<1>6. MAX_VAR_NUM \in Nat BY ConfigAssumption DEF ConfigAssumption
<1>7. PICK n : n = IF Cardinality(hits) > MAX_VAR_NUM THEN MAX_VAR_NUM ELSE Cardinality(hits) OBVIOUS
<1>8. n \in 0 .. MAX_VAR_NUM /\ n <= Cardinality(hits) BY <1>5, <1>6, <1>7
<1>9. PICK nth : nth = [k \in 1 .. n |-> Piece(lines[Nth(hits, k)])] OBVIOUS
<1>10. Parse(lines) = [k \in 1 .. n |-> [kind |-> "var", var |-> nth[k].var, value |-> Trimmed[nth[k].value]]]
  BY <1>1, <1>7, <1>9 DEF Parse
<1>11. ASSUME NEW k \in 1 .. n PROVE nth[k].value \in DOMAIN Trimmed
  <2>1. k \in Nat /\ k > 0 /\ k <= Cardinality(hits) BY <1>5, <1>8
  <2>2. \E i \in hits : Cardinality(UpTo(hits, i)) = k BY <1>3, <1>4, <2>1, NthHit
  <2>3. PICK i : i = Nth(hits, k) OBVIOUS
  <2>4. i \in hits /\ nth[k] = Piece(lines[i]) BY <1>9, <2>2, <2>3 DEF Nth, UpTo
  <2> QED BY <1>1, <2>4 DEF Hits, Text
<1>12. \A k \in 1 .. n : /\ Parse(lines)[k].value \in DOMAIN Trimmed
                         /\ Trimmed[Parse(lines)[k].value] = Parse(lines)[k].value
  BY <1>10, <1>11, ConfigAssumption DEF ConfigAssumption
<1> QED BY <1>8, <1>10, <1>12

\* The variables in memory.
Variables(n) ==
  /\ ga_variables = [i \in 1 .. n |-> ga_variables[i]]
  /\ ga_values \in [1 .. n -> DOMAIN Trimmed] /\ ga_values_backup \in [1 .. n -> DOMAIN Trimmed]

\* What write_to_config_file writes is parsed as it was meant.
LEMMA ParsesImage ==
  ASSUME NEW n \in 0 .. MAX_VAR_NUM, Variables(n)
  PROVE  /\ Len(Image) = n /\ SubSeq(Image, 1, n) = Image /\ Text(Image)
         /\ Parse(Image) = [k \in 1 .. n |-> [kind |-> "var", var |-> ga_variables[k],
                                              value |-> Trimmed[ga_values_backup[k]]]]
<1>1. n \in Nat /\ n <= MAX_VAR_NUM /\ MAX_VAR_NUM \in Nat BY ConfigAssumption DEF ConfigAssumption
<1>2. PICK S : S = {Image[i] : i \in 1 .. n} OBVIOUS
<1>3. PICK f : f = Image OBVIOUS
<1>4. DOMAIN ga_variables = 1 .. n
  <2>1. DOMAIN [i \in 1 .. n |-> ga_variables[i]] = 1 .. n OBVIOUS
  <2> QED BY <2>1 DEF Variables
<1>5. f = [i \in 1 .. n |-> [kind |-> "var", var |-> ga_variables[i], value |-> ga_values_backup[i]]]
  BY <1>3, <1>4 DEF Image
<1>6. f \in [1 .. n -> S] BY <1>2, <1>3, <1>5
<1>7. f \in Seq(S) /\ Len(f) = n BY <1>1, <1>6
<1>8. SubSeq(f, 1, n) = f
  <2>1. \A i \in 1 .. n : f[i] \in S BY <1>6
  <2>2. 1 \in Int /\ n \in Int BY <1>1
  <2>3. /\ SubSeq(f, 1, n) \in Seq(S) /\ Len(SubSeq(f, 1, n)) = IF 1 <= n THEN n - 1 + 1 ELSE 0
        /\ \A i \in 1 .. n - 1 + 1 : SubSeq(f, 1, n)[i] = f[1 + i - 1]
    BY <2>1, <2>2, SubSeqProperties
  <2>4. PICK g : g = SubSeq(f, 1, n) OBVIOUS
  <2>5. g \in Seq(S) /\ Len(g) = n /\ \A i \in 1 .. n : g[i] = f[i] BY <1>1, <2>3, <2>4
  <2>6. g = f BY <1>1, <1>6, <2>5
  <2> QED BY <2>4, <2>6
<1>9. \A i \in 1 .. n : Piece(f[i]) = f[i] /\ IsVariable(f[i]) /\ f[i].value \in DOMAIN Trimmed
  BY <1>5 DEF Piece, IsVariable, Variables
<1>10. Text(f) BY <1>1, <1>6, <1>7, <1>9 DEF Text
<1>11. Hits(f) = 1 .. n BY <1>6, <1>9 DEF Hits
<1>12. \A i \in 1 .. n : Cardinality({j \in 1 .. n : j <= i}) = i
  <2> SUFFICES ASSUME NEW i \in 1 .. n PROVE Cardinality({j \in 1 .. n : j <= i}) = i OBVIOUS
  <2>1. {j \in 1 .. n : j <= i} = 1 .. i BY <1>1
  <2>2. Cardinality(1 .. i) = i BY <1>1, FS_Interval
  <2> QED BY <2>1, <2>2
<1>13. \A k \in 1 .. n : Nth(1 .. n, k) = k BY <1>12 DEF Nth
<1>14. Cardinality(1 .. n) = n BY <1>1, FS_Interval
<1>15. Parse(f) = [k \in 1 .. n |-> [kind |-> "var", var |-> f[k].var, value |-> Trimmed[f[k].value]]]
  BY <1>1, <1>9, <1>11, <1>13, <1>14 DEF Parse
<1>16. Parse(f) = [k \in 1 .. n |-> [kind |-> "var", var |-> ga_variables[k], value |-> Trimmed[ga_values_backup[k]]]]
  BY <1>5, <1>15
<1> QED BY <1>3, <1>7, <1>8, <1>10, <1>16

-----------------------------------------------------------------------------
(* Setting variables, as long as fclose has not missed the end of a file.  *)

\* The file is as the program knows it.
Parsed ==
  /\ Text(file) /\ Column(Parse(file), "var") = ga_variables
  /\ \A i \in DOMAIN ga_variables \ staged : Parse(file)[i].value = Trimmed[ga_values[i]]

\* Only the variable that a call is setting, and those of set_config_var2, have another value
\* in the backup; what is renamed is a whole copy.
Setting ==
  /\ cpc \in {"idle", "open", "write", "rename", "log", "restore"}
  /\ cpc # "idle" => arg[1] \in DOMAIN ga_variables /\ arg[2] \in DOMAIN Trimmed
  /\ cpc \in {"open", "write", "rename"} => ga_values_backup[arg[1]] = arg[2]
  /\ cpc = "rename" => file_tmp = Image
  /\ \A i \in DOMAIN ga_variables \ staged :
       cpc = "idle" \/ i # arg[1] => ga_values_backup[i] = ga_values[i]

Agrees == Parsed /\ Setting /\ \E n \in 0 .. MAX_VAR_NUM : Variables(n)
ConfigInv == torn \in BOOLEAN /\ (~torn => Agrees)

\* The variables are numbered.
LEMMA Numbered == ASSUME NEW n, Variables(n) PROVE DOMAIN ga_variables = 1 .. n
<1>1. DOMAIN [i \in 1 .. n |-> ga_variables[i]] = 1 .. n OBVIOUS
<1> QED BY <1>1 DEF Variables

\* strcasecmp finds each variable.
LEMMA Indexes == ASSUME NEW n \in 0 .. MAX_VAR_NUM, Variables(n), NEW v \in ToSet(ga_variables) PROVE Index(v) \in 1 .. n
<1>1. DOMAIN ga_variables = 1 .. n BY Numbered
<1>2. PICK hits : hits = {i \in DOMAIN ga_variables : ga_variables[i] = v} OBVIOUS
<1>3. hits \subseteq Nat /\ hits # {} BY <1>1, <1>2 DEF ToSet
<1>4. \E x \in hits : \A y \in hits : x <= y BY <1>3, Least
<1>5. Min(hits) \in hits BY <1>4 DEF Min
<1>6. Index(v) = Min(hits) BY <1>2, <1>3 DEF Index
<1> QED BY <1>1, <1>2, <1>5, <1>6

\* set_config_var changes the backup of one variable, and is in a call with it.
LEMMA SetCallKeeps == ASSUME Agrees, SetCall PROVE Agrees'
<1>1. PICK n \in 0 .. MAX_VAR_NUM : Variables(n) BY DEF Agrees
<1>2. DOMAIN ga_variables = 1 .. n BY <1>1, Numbered
<1>3. PICK i \in {Index(v) : v \in ToSet(ga_variables)}, value \in Value :
        /\ cpc = "idle" /\ arg' = <<i, value>> /\ cpc' = "open"
        /\ ga_values_backup' = [ga_values_backup EXCEPT ![i] = value]
        /\ UNCHANGED <<file, file_tmp, ga_variables, ga_values, staged, torn>>
  BY DEF SetCall
<1>4. i \in 1 .. n /\ value \in DOMAIN Trimmed BY <1>1, <1>3, Indexes, ConfigAssumption DEF ConfigAssumption
<1>5. Parsed' BY <1>3 DEF Agrees, Parsed
<1>6. Variables(n)' BY <1>1, <1>3, <1>4 DEF Variables
<1>7. arg'[1] = i /\ arg'[2] = value BY <1>3
<1>8. ga_values_backup'[i] = value /\ \A j \in 1 .. n : j # i => ga_values_backup'[j] = ga_values_backup[j]
  BY <1>1, <1>3, <1>4 DEF Variables
<1>9. Setting' BY <1>2, <1>3, <1>4, <1>7, <1>8 DEF Agrees, Setting
<1> QED BY <1>5, <1>6, <1>9 DEF Agrees

\* set_config_var2 changes the backup of a variable that is staged from then on.
LEMMA SetVar2Keeps == ASSUME Agrees, set_config_var2 PROVE Agrees'
<1>1. PICK n \in 0 .. MAX_VAR_NUM : Variables(n) BY DEF Agrees
<1>2. DOMAIN ga_variables = 1 .. n BY <1>1, Numbered
<1>3. PICK i \in {Index(v) : v \in ToSet(ga_variables)}, value \in Value :
        /\ cpc = "idle" /\ staged' = staged \cup {i}
        /\ ga_values_backup' = [ga_values_backup EXCEPT ![i] = value]
        /\ UNCHANGED <<file, file_tmp, ga_variables, ga_values, cpc, arg, torn>>
  BY DEF set_config_var2
<1>4. i \in 1 .. n /\ value \in DOMAIN Trimmed BY <1>1, <1>3, Indexes, ConfigAssumption DEF ConfigAssumption
<1>5. Parsed' BY <1>3 DEF Agrees, Parsed
<1>6. Variables(n)' BY <1>1, <1>3, <1>4 DEF Variables
<1>7. \A j \in 1 .. n : j # i => ga_values_backup'[j] = ga_values_backup[j] BY <1>1, <1>3, <1>4 DEF Variables
<1>8. Setting' BY <1>2, <1>3, <1>7 DEF Agrees, Setting
<1> QED BY <1>5, <1>6, <1>8 DEF Agrees

\* Opening the copy leaves the file alone.
LEMMA OpenTmpKeeps == ASSUME Agrees, OpenTmp PROVE Agrees'
<1>1. PICK n \in 0 .. MAX_VAR_NUM : Variables(n) BY DEF Agrees
<1>2. UNCHANGED <<file, ga_variables, ga_values, ga_values_backup, arg, staged>> /\ cpc = "open" /\ cpc' \in {"write", "log"}
  BY DEF OpenTmp, ram
<1>3. Parsed' /\ Variables(n)' BY <1>1, <1>2 DEF Agrees, Parsed, Variables
<1>4. Setting' BY <1>2 DEF Agrees, Setting
<1> QED BY <1>3, <1>4 DEF Agrees

\* A copy for which there was room is whole.
LEMMA WriteTmpKeeps == ASSUME Agrees, WriteTmp, ~torn' PROVE Agrees'
<1>1. PICK n \in 0 .. MAX_VAR_NUM : Variables(n) BY DEF Agrees
<1>2. PICK k : k = IF Room < Len(Image) THEN Room ELSE Len(Image) OBVIOUS
<1>3. /\ UNCHANGED <<file, ga_variables, ga_values, ga_values_backup, arg, staged>>
      /\ cpc = "write" /\ cpc' \in {"rename", "log"} /\ file_tmp' = SubSeq(Image, 1, k)
      /\ cpc' = "rename" => ~(k < Len(Image))
  BY <1>2 DEF WriteTmp, ram
<1>4. Parsed' /\ Variables(n)' BY <1>1, <1>3 DEF Agrees, Parsed, Variables
<1>5. cpc' = "rename" => file_tmp' = Image'
  <2>1. Image' = Image BY <1>3 DEF Image
  <2>2. Len(Image) = n /\ SubSeq(Image, 1, n) = Image BY <1>1, ParsesImage
  <2>3. cpc' = "rename" => k = n BY <1>2, <1>3, <2>2
  <2> QED BY <1>3, <2>1, <2>2, <2>3
<1>6. Setting' BY <1>3, <1>5 DEF Agrees, Setting
<1> QED BY <1>4, <1>6 DEF Agrees

\* The copy takes the place of the file in the step in which the value is taken over.
LEMMA RenameTmpKeeps == ASSUME Agrees, RenameTmp PROVE Agrees'
<1>1. PICK n \in 0 .. MAX_VAR_NUM : Variables(n) BY DEF Agrees
<1>2. DOMAIN ga_variables = 1 .. n BY <1>1, Numbered
<1>3. cpc = "rename" /\ UNCHANGED <<ga_variables, ga_values_backup, staged>> BY DEF RenameTmp
<1>4. arg[1] \in 1 .. n /\ arg[2] \in DOMAIN Trimmed /\ ga_values_backup[arg[1]] = arg[2] /\ file_tmp = Image
  BY <1>2, <1>3 DEF Agrees, Setting
<1>5. CASE cpc' = "restore" /\ UNCHANGED <<file, file_tmp, ga_values, arg>>
  <2>1. Parsed' /\ Variables(n)' BY <1>1, <1>3, <1>5 DEF Agrees, Parsed, Variables
  <2>2. Setting' BY <1>3, <1>5 DEF Agrees, Setting
  <2> QED BY <2>1, <2>2 DEF Agrees
<1>6. CASE /\ file' = file_tmp /\ cpc' = "idle"
           /\ ga_values' = [ga_values EXCEPT ![arg[1]] = arg[2]]
  <2>1. Variables(n)' BY <1>1, <1>3, <1>4, <1>6 DEF Variables
  <2>2. /\ Text(file')
        /\ Parse(file') = [k \in 1 .. n |-> [kind |-> "var", var |-> ga_variables[k],
                                             value |-> Trimmed[ga_values_backup[k]]]]
    BY <1>1, <1>4, <1>6, ParsesImage
  <2>3. \A i \in 1 .. n \ staged : ga_values_backup[i] = ga_values'[i]
    <3> SUFFICES ASSUME NEW i \in 1 .. n \ staged PROVE ga_values_backup[i] = ga_values'[i] OBVIOUS
    <3>1. CASE i = arg[1] BY <1>1, <1>4, <1>6, <3>1 DEF Variables
    <3>2. CASE i # arg[1]
      <4>1. ga_values_backup[i] = ga_values[i] BY <1>2, <1>3, <3>2 DEF Agrees, Setting
      <4> QED BY <1>1, <1>6, <3>2, <4>1 DEF Variables
    <3> QED BY <3>1, <3>2
  <2>4. Parsed'
    <3>1. Column(Parse(file'), "var") = [k \in 1 .. n |-> ga_variables[k]] BY <2>2 DEF Column
    <3>2. Column(Parse(file'), "var") = ga_variables' BY <1>1, <1>3, <3>1 DEF Variables
    <3>3. \A i \in 1 .. n \ staged : Parse(file')[i].value = Trimmed[ga_values'[i]] BY <2>2, <2>3
    <3> QED BY <1>2, <1>3, <2>2, <3>2, <3>3 DEF Parsed
  <2>5. Setting' BY <1>2, <1>3, <1>6, <2>3 DEF Setting
  <2> QED BY <2>1, <2>4, <2>5 DEF Agrees
<1> QED BY <1>5, <1>6 DEF RenameTmp

\* A failure is logged before anything is restored.
LEMMA LogFailureKeeps == ASSUME Agrees, LogFailure PROVE Agrees'
<1>1. PICK n \in 0 .. MAX_VAR_NUM : Variables(n) BY DEF Agrees
<1>2. /\ UNCHANGED <<file, ga_variables, ga_values, ga_values_backup, arg, staged>>
      /\ cpc = "log" /\ cpc' = "restore"
  BY DEF LogFailure, ram
<1>3. Parsed' /\ Variables(n)' BY <1>1, <1>2 DEF Agrees, Parsed, Variables
<1>4. Setting' BY <1>2 DEF Agrees, Setting
<1> QED BY <1>3, <1>4 DEF Agrees

\* The value that could not be written is taken back.
LEMMA RestoreKeeps == ASSUME Agrees, Restore PROVE Agrees'
<1>1. PICK n \in 0 .. MAX_VAR_NUM : Variables(n) BY DEF Agrees
<1>2. DOMAIN ga_variables = 1 .. n BY <1>1, Numbered
<1>3. /\ UNCHANGED <<file, ga_variables, ga_values, staged>> /\ cpc = "restore" /\ cpc' = "idle"
      /\ ga_values_backup' = [ga_values_backup EXCEPT ![arg[1]] = ga_values[arg[1]]]
  BY DEF Restore
<1>4. arg[1] \in 1 .. n BY <1>2, <1>3 DEF Agrees, Setting
<1>5. Variables(n)' BY <1>1, <1>3, <1>4 DEF Variables
<1>6. Parsed' BY <1>3 DEF Agrees, Parsed
<1>7. \A i \in 1 .. n : ga_values_backup'[i] = IF i = arg[1] THEN ga_values[i] ELSE ga_values_backup[i]
  BY <1>1, <1>3, <1>4 DEF Variables
<1>8. Setting' BY <1>2, <1>3, <1>7 DEF Agrees, Setting
<1> QED BY <1>5, <1>6, <1>8 DEF Agrees

\* A program that starts knows what the file says.
LEMMA ParseKeeps == ASSUME Text(file), parse_config_file PROVE Agrees'
<1>1. PICK lines : lines = Parse(file) OBVIOUS
<1>2. PICK n \in 0 .. MAX_VAR_NUM :
        /\ DOMAIN lines = 1 .. n
        /\ \A k \in 1 .. n : lines[k].value \in DOMAIN Trimmed /\ Trimmed[lines[k].value] = lines[k].value
  BY <1>1, Parses
<1>3. /\ ga_variables' = [k \in 1 .. n |-> lines[k].var] /\ ga_values' = [k \in 1 .. n |-> lines[k].value]
      /\ ga_values_backup' = [k \in 1 .. n |-> lines[k].value]
      /\ cpc' = "idle" /\ staged' = {} /\ file' = file
  BY <1>1, <1>2 DEF parse_config_file, Column
<1>4. Variables(n)' BY <1>2, <1>3 DEF Variables
<1>5. Parsed'
  <2>1. Column(Parse(file'), "var") = ga_variables' BY <1>1, <1>2, <1>3 DEF Column
  <2>2. \A k \in 1 .. n : Parse(file')[k].value = Trimmed[ga_values'[k]] BY <1>1, <1>2, <1>3
  <2>3. DOMAIN ga_variables' = 1 .. n BY <1>3
  <2> QED BY <1>3, <2>1, <2>2, <2>3 DEF Parsed
<1>6. Setting' BY <1>3 DEF Setting
<1> QED BY <1>4, <1>5, <1>6 DEF Agrees

-----------------------------------------------------------------------------
(* The program, its log, its configuration and the monitor.                *)

FilesInv == LogInv /\ ConfigInv

\* A step that leaves the log alone.
LEMMA LogStays == ASSUME LogInv, UNCHANGED log PROVE LogInv'
BY DEF log, LogInv, LogTypes, LogSizes, Writers, SizeLimit

\* A step that leaves the configuration alone.
LEMMA ConfigStays == ASSUME ConfigInv, UNCHANGED config PROVE ConfigInv'
<1>1. UNCHANGED <<file, file_tmp, ga_variables, ga_values, ga_values_backup, cpc, arg, staged, torn>>
  BY DEF config, ram
<1> QED BY <1>1 DEF ConfigInv, Agrees, Parsed, Setting, Variables, Image

\* fclose does not take back that it has missed the end of a file.
LEMMA TornStays ==
  ASSUME torn \in BOOLEAN, SetCall \/ set_config_var2 \/ OpenTmp \/ WriteTmp \/ RenameTmp \/ Restore \/ LogFailure
  PROVE  torn' \in BOOLEAN /\ (~torn' => ~torn)
<1>1. CASE UNCHANGED torn BY <1>1
<1>2. CASE WriteTmp /\ ~UNCHANGED torn
  <2>1. PICK k : torn' = (torn \/ k < Len(Image)) BY <1>2 DEF WriteTmp
  <2> QED BY <2>1
<1> QED BY <1>1, <1>2 DEF SetCall, set_config_var2, OpenTmp, RenameTmp, Restore, LogFailure

\* A step of a call of the configuration.
LEMMA ConfigKeeps == ASSUME FilesInv, ConfigStep PROVE FilesInv'
<1>1. LogInv /\ ConfigInv /\ Main \in Thread BY ConfigAssumption DEF FilesInv, ConfigAssumption
<1>2. SetCall \/ set_config_var2 \/ OpenTmp \/ WriteTmp \/ RenameTmp \/ Restore \/ LogFailure BY DEF ConfigStep
<1>3. torn' \in BOOLEAN /\ (~torn' => ~torn) BY <1>1, <1>2, TornStays DEF ConfigInv
<1>4. ASSUME ~torn' PROVE Agrees'
  <2>1. Agrees BY <1>1, <1>3, <1>4 DEF ConfigInv
  <2> QED BY <1>2, <1>4, <2>1, SetCallKeeps, SetVar2Keeps, OpenTmpKeeps, WriteTmpKeeps, RenameTmpKeeps,
             RestoreKeeps, LogFailureKeeps
<1>5. LogInv'
  <2>1. CASE UNCHANGED <<up, log>> BY <1>1, <2>1, LogStays
  <2>2. CASE LogFailure BY <1>1, <2>2, StatSizeKeeps DEF LogFailure
  <2> QED BY <2>1, <2>2 DEF ConfigStep
<1> QED BY <1>3, <1>4, <1>5 DEF FilesInv, ConfigInv

\* A step of write_file.
LEMMA LogStepKeeps == ASSUME FilesInv, NEW t \in Thread, LogStep(t) PROVE FilesInv'
<1>1. UNCHANGED config /\ write_file(t, Room) BY DEF LogStep
<1>2. LogInv'
  BY <1>1, StatSizeKeeps, CloseFileKeeps, OpenNewKeeps, WriteKeeps DEF write_file, FilesInv
<1>3. ConfigInv' BY <1>1, ConfigStays DEF FilesInv
<1> QED BY <1>2, <1>3 DEF FilesInv

\* A program that starts opens a log and parses the file.
LEMMA StartKeeps == ASSUME FilesInv, Start PROVE FilesInv'
<1>1. /\ lpc' = Idle /\ leaked' = {} /\ OpenLog /\ parse_config_file /\ UNCHANGED torn
  BY DEF Start, init_log, parse_config_file
<1>2. LogInv /\ ConfigInv BY DEF FilesInv
<1>3. leaked' \subseteq Inode /\ lpc' \in [Thread -> {"idle", "close", "open", "write"}] BY <1>1 DEF Idle
<1>4. LogInv' BY <1>1, <1>2, <1>3, OpenKeeps
<1>5. ASSUME ~torn PROVE Agrees'
  <2>1. Text(file) BY <1>2, <1>5 DEF ConfigInv, Agrees, Parsed
  <2> QED BY <1>1, <2>1, ParseKeeps
<1> QED BY <1>1, <1>2, <1>4, <1>5 DEF FilesInv, ConfigInv

\* The invariant holds at first.
LEMMA InitFiles == Init => FilesInv
<1> SUFFICES ASSUME Init PROVE FilesInv OBVIOUS
<1>1. LogTypes BY DEF Init, LogTypes, Idle
<1>2. LogSizes BY Threads DEF Init, LogSizes
<1>3. Text(file) BY ConfigAssumption DEF Init, ConfigAssumption
<1>4. PICK lines : lines = Parse(file) OBVIOUS
<1>5. PICK n \in 0 .. MAX_VAR_NUM :
        /\ DOMAIN lines = 1 .. n
        /\ \A k \in 1 .. n : lines[k].value \in DOMAIN Trimmed /\ Trimmed[lines[k].value] = lines[k].value
  BY <1>3, <1>4, Parses
<1>6. /\ ga_variables = [k \in 1 .. n |-> lines[k].var] /\ ga_values = [k \in 1 .. n |-> lines[k].value]
      /\ ga_values_backup = [k \in 1 .. n |-> lines[k].value] /\ cpc = "idle" /\ torn = FALSE
  BY <1>4, <1>5 DEF Init, Column
<1>7. Variables(n) BY <1>5, <1>6 DEF Variables
<1>8. Column(Parse(file), "var") = ga_variables BY <1>4, <1>5, <1>6 DEF Column
<1>9. \A k \in 1 .. n : Parse(file)[k].value = Trimmed[ga_values[k]] BY <1>4, <1>5, <1>6
<1>10. Parsed BY <1>3, <1>6, <1>8, <1>9 DEF Parsed
<1>11. Setting BY <1>6 DEF Setting
<1> QED BY <1>1, <1>2, <1>6, <1>7, <1>10, <1>11 DEF FilesInv, LogInv, ConfigInv, Agrees

\* Every step keeps the invariant.
LEMMA StepFiles == FilesInv /\ [Next]_vars => FilesInv'
<1> SUFFICES ASSUME FilesInv, [Next]_vars PROVE FilesInv' OBVIOUS
<1>1. CASE UNCHANGED <<log, config>>
  BY <1>1, LogStays, ConfigStays DEF FilesInv
<1>2. CASE main
  <2>1. CASE TenSeconds \/ LoopEnds BY <1>1, <2>1 DEF TenSeconds, LoopEnds
  <2>2. CASE DeleteFile BY <2>2, DeleteKeeps, ConfigStays DEF DeleteFile, FilesInv
  <2> QED BY <1>2, <2>1, <2>2 DEF main
<1>3. CASE SigInt \/ Tick \/ OthersWrite \/ DeletingChanges
  BY <1>1, <1>3 DEF SigInt, Tick, OthersWrite, DeletingChanges
<1>4. CASE \E t \in Thread : LogStep(t) BY <1>4, LogStepKeeps
<1>5. CASE ConfigStep BY <1>5, ConfigKeeps
<1>6. CASE Crash BY <1>6, StopKeeps, ConfigStays DEF Crash, FilesInv
<1>7. CASE Start BY <1>7, StartKeeps
<1>8. CASE UNCHANGED vars BY <1>1, <1>8 DEF vars
<1> QED BY <1>2, <1>3, <1>4, <1>5, <1>6, <1>7, <1>8 DEF Next

(* The invariant of the log and of the configuration.                      *)
THEOREM Invariant == Spec => []FilesInv
BY InitFiles, StepFiles, PTL DEF Spec

(* write_file keeps each log file within its limit by one record of each   *)
(* thread, however many threads are in it at once.                         *)
THEOREM LogsBounded == Spec => []LogSizeBounded
<1>1. FilesInv => LogSizeBounded BY LogBounded DEF FilesInv
<1> QED BY <1>1, Invariant, PTL

(* write_to_config_file leaves all variables on the disk, wherever the     *)
(* program stops, unless fclose missed the end of the copy.                *)
THEOREM ConfigWhole == Spec => []DiskWhole
<1>1. FilesInv => DiskWhole BY DEF FilesInv, ConfigInv, Agrees, Parsed, DiskWhole
<1> QED BY <1>1, Invariant, PTL

(* set_config_var leaves the program and the disk with the same values,    *)
(* also when a write or a rename has failed.                               *)
THEOREM ConfigAgrees == Spec => []DiskAgrees
<1>1. FilesInv => DiskAgrees BY DEF FilesInv, ConfigInv, Agrees, Parsed, DiskAgrees
<1> QED BY <1>1, Invariant, PTL
=============================================================================
