----------------------------- MODULE ConfigFile -----------------------------
(* The configuration of libs/app_utils/src/config_file_ops.c, opened with  *)
(* need_update, by a program that also logs: parsing, setting and writing  *)
(* back, on a disk that may be full, by a program that may stop anywhere.  *)
(* A line is [kind, var, value]; a long one also has a tail, which fgets   *)
(* returns as a line of its own.                                           *)
EXTENDS LogFile

CONSTANTS
  Main,           \* the thread that uses the configuration
  Value,          \* what a variable may be set to
  Trimmed,        \* Trimmed[v]: v up to a quote, without slashes at its end
  MAX_VAR_NUM,    \* variables there is room for
  ConfigLines     \* what the file may hold at first

(* The piece of a line that is looked at: fgets returns a long line in two *)
(* pieces, and the first is skipped.                                       *)
Piece(line) == IF line.kind = "long" THEN line.tail ELSE line

(* get_key, and the checks of the name and the value.                      *)
IsVariable(piece) == piece.kind = "var"

Text(lines) ==
  /\ Len(lines) \in Nat /\ DOMAIN lines = 1..Len(lines)
  /\ \A i \in DOMAIN lines : IsVariable(Piece(lines[i])) => Piece(lines[i]).value \in DOMAIN Trimmed

\* What has been trimmed has no quote and no slash at its end.
ConfigAssumption ==
  /\ Main \in Thread /\ MAX_VAR_NUM \in Nat /\ Value \subseteq DOMAIN Trimmed
  /\ \A v \in DOMAIN Trimmed : Trimmed[v] \in DOMAIN Trimmed /\ Trimmed[Trimmed[v]] = Trimmed[v]
  /\ \A lines \in ConfigLines : Text(lines)
ASSUME ConfigAssumption

VARIABLES
  file,                \* the lines of the configuration file
  file_tmp,            \* those of "<file>.tmp", or NONE
  ga_variables, ga_values, ga_values_backup,
  cpc, arg,            \* where the call of set_config_var is; its variable and value
  staged,              \* history: variables that set_config_var2 has changed since the start
  torn                 \* history: fclose has failed to write the end of a file

ram == <<ga_variables, ga_values, ga_values_backup>>
config == <<file, file_tmp, ram, cpc, arg, staged, torn>>

ConfigUnits == Len(file) + IF file_tmp = NONE THEN 0 ELSE Len(file_tmp)
Room == DISK - LogUnits - ConfigUnits - others
-----------------------------------------------------------------------------
(* The lines that set a variable, and the k-th of them.                    *)
Hits(lines) == {i \in DOMAIN lines : IsVariable(Piece(lines[i]))}
Nth(hits, k) == CHOOSE i \in hits : Cardinality({j \in hits : j <= i}) = k

(* parse_config_file: the first MAX_VAR_NUM variables.                     *)
Parse(lines) ==
  LET hits == Hits(lines)
      n == IF Cardinality(hits) > MAX_VAR_NUM THEN MAX_VAR_NUM ELSE Cardinality(hits)
  IN [k \in 1..n |-> LET piece == Piece(lines[Nth(hits, k)])
                     IN [kind |-> "var", var |-> piece.var, value |-> Trimmed[piece.value]]]

Column(lines, field) == [i \in DOMAIN lines |-> lines[i][field]]

(* strcasecmp finds the first of two variables with one name.              *)
Index(v) ==
  LET hits == {i \in DOMAIN ga_variables : ga_variables[i] = v}
  IN IF hits = {} THEN 0 ELSE Min(hits)

Image ==
  [i \in DOMAIN ga_variables |->
     [kind |-> "var", var |-> ga_variables[i], value |-> ga_values_backup[i]]]
-----------------------------------------------------------------------------
parse_config_file ==
  LET lines == Parse(file)
  IN /\ ga_variables' = Column(lines, "var")
     /\ ga_values' = Column(lines, "value") /\ ga_values_backup' = Column(lines, "value")
     /\ cpc' = "idle" /\ staged' = {}
     /\ arg' = <<>> /\ UNCHANGED <<file, file_tmp, torn>>

SetCall ==
  \E i \in {Index(v) : v \in ToSet(ga_variables)}, value \in Value :
    /\ Event /\ up /\ cpc = "idle" /\ lpc[Main] = "idle"
    /\ arg' = <<i, value>> /\ cpc' = "open"
    /\ ga_values_backup' = [ga_values_backup EXCEPT ![i] = value]
    /\ UNCHANGED <<file, file_tmp, ga_variables, ga_values, staged, torn>>

set_config_var2 ==
  \E i \in {Index(v) : v \in ToSet(ga_variables)}, value \in Value :
    /\ Event /\ up /\ cpc = "idle" /\ lpc[Main] = "idle" /\ staged' = staged \cup {i}
    /\ ga_values_backup' = [ga_values_backup EXCEPT ![i] = value]
    /\ UNCHANGED <<file, file_tmp, ga_variables, ga_values, cpc, arg, torn>>

\* Fault: the file itself is opened for writing.
OpenTmp_InPlace ==
  /\ cpc = "open" /\ cpc' = "write" /\ file_tmp' = <<>> /\ file' = <<>>
  /\ UNCHANGED <<ram, arg, staged, torn, events>>

OpenTmp ==
  /\ cpc = "open"
  /\ \/ cpc' = "write" /\ file_tmp' = <<>>
     \/ cpc' = "log" /\ UNCHANGED file_tmp
  /\ UNCHANGED <<file, ram, arg, staged, torn, events>>

(* The lines go to the disk as far as there is room.  When the rest of     *)
(* them is only missed by fclose, nobody notices.                          *)
WriteTmp ==
  LET n == IF Room < Len(Image) THEN Room ELSE Len(Image)
  IN /\ cpc = "write" /\ file_tmp' = SubSeq(Image, 1, n)
     /\ \/ cpc' = "rename" /\ torn' = (torn \/ n < Len(Image))
        \/ cpc' = "log" /\ n < Len(Image) /\ UNCHANGED torn
     /\ UNCHANGED <<file, ram, arg, staged, events>>

RenameTmp ==
  /\ cpc = "rename"
  /\ \/ /\ file' = file_tmp /\ file_tmp' = NONE /\ cpc' = "idle" /\ arg' = <<>>
        /\ ga_values' = [ga_values EXCEPT ![arg[1]] = arg[2]]
     \/ cpc' = "restore" /\ UNCHANGED <<file, file_tmp, ga_values, arg>>
  /\ UNCHANGED <<ga_variables, ga_values_backup, staged, torn, events>>

(* ErrSysLog: the failure is logged before anything is restored.           *)
LogFailure ==
  /\ cpc = "log" /\ cpc' = "restore" /\ StatSize(Main)
  /\ UNCHANGED <<file, file_tmp, ram, arg, staged, torn, events>>

\* Fault: the value that could not be written stays.
Restore_Nothing ==
  /\ cpc = "restore" /\ lpc[Main] = "idle" /\ cpc' = "idle" /\ arg' = <<>>
  /\ UNCHANGED <<file, file_tmp, ram, staged, torn, events>>

Restore ==
  /\ cpc = "restore" /\ lpc[Main] = "idle" /\ cpc' = "idle" /\ arg' = <<>>
  /\ ga_values_backup' = [ga_values_backup EXCEPT ![arg[1]] = ga_values[arg[1]]]
  /\ UNCHANGED <<file, file_tmp, ga_variables, ga_values, staged, torn, events>>

-----------------------------------------------------------------------------
(* Wherever the program stops, the file on the disk has every variable of  *)
(* the program, in order, unless the end of it was missed by fclose: what  *)
(* write_to_config_file writes a copy and renames it for.                  *)
DiskWhole == torn \/ Column(Parse(file), "var") = ga_variables

(* Between two calls the program and the disk agree on each variable that  *)
(* set_config_var2 has not changed, as far as the parser can tell: a value *)
(* that could not be written is not written by a later call either.        *)
DiskAgrees ==
  (up /\ cpc = "idle" /\ ~torn) =>
    \A i \in DOMAIN ga_variables \ staged :
      Parse(file)[i].value = Trimmed[ga_values[i]]
=============================================================================
