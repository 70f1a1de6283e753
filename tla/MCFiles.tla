------------------------------ MODULE MCFiles ------------------------------
(***************************************************************************)
(* What a file tool passes, one part at a time: "pool" is the admission of  *)
(* four callers to two slots and two places in the queue; "files" are two   *)
(* calls over a file that exists and one that does not: a single write, a   *)
(* single edit, a batch over both files and a batch that names one twice.   *)
(***************************************************************************)
EXTENDS AdmissionPool, FileBounds

CONSTANTS present, absent

OneOld == [p \in Paths |-> IF p = present THEN Outside ELSE None]
Asked == {[batch |-> FALSE, op |-> "write", items |-> <<absent>>],
          [batch |-> FALSE, op |-> "edit", items |-> <<present>>],
          [batch |-> TRUE, op |-> "write", items |-> <<present, absent>>],
          [batch |-> TRUE, op |-> "write", items |-> <<absent, absent>>]}

VARIABLES
  part, file, access, holder, call, evidence, rows, detail, turn, changes,
  late, lost, faults                                                          \* FileWrites

fileVars == <<file, access, holder, call, evidence, rows, detail, turn, changes,
              late, lost, faults>>
partVars == <<part, vars, fileVars>>

F == INSTANCE FileWrites

PartInit == part \in {"pool", "files"} /\ Init /\ F!Init

PartNext ==
  /\ \/ part = "pool" /\ Next /\ UNCHANGED fileVars
     \/ part = "files" /\ F!Next /\ UNCHANGED vars
  /\ UNCHANGED part

PartSpec == PartInit /\ [][PartNext]_partVars

-----------------------------------------------------------------------------
\* What a turn that was cut off is told of a path is what happened to it
\* (interruption.py).
ReportIsTrue == F!ReportIsTrue

\* No write replaces what it was not based on (files.py).
NoLostUpdate == F!NoLostUpdate
=============================================================================
