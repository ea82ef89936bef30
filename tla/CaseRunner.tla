----------------------------- MODULE CaseRunner -----------------------------
(* The case runner of the first H1 pilot: one process drives the patched    *)
(* model through the native engine, a case at a time, and within a case one *)
(* group of jobs per Source. Each case opens with the dense reference of    *)
(* its prompt and the rows of its prefix, suffix and Sources, and the rows  *)
(* of a group's results are appended in one write. The model keeps, from    *)
(* one forward to the next, its flags and a list of old rows, one slot per  *)
(* layer. Warmups and timed repetitions are a number of repairs per group.  *)
EXTENDS Naturals, Sequences, SequencesExt

CONSTANTS
  CaseCount,      \* cases of the manifest, in the order of their ids
  SourceCount,    \* Sources of a case
  Repairs,        \* bound: executions of a group
  MaxProcesses    \* bound: the first process and its resumptions

VARIABLES
  oldSlots,       \* the old rows: one empty slot per layer, no slot, a staged Source
  nativeOn,       \* flags of the model that are set
  native,         \* the last forward through the engine
  caseTodo,       \* cases this process has not opened yet
  caseRun,        \* the case that is open
  atDeadline,     \* the hours of this process are over
  process,        \* number of this process, 0 once it has ended
  processes,
  caseRows        \* rows of the result file

caseVars == <<oldSlots, nativeOn, native, caseTodo, caseRun, atDeadline, process, processes, caseRows>>

-----------------------------------------------------------------------------
PilotCases == 1..CaseCount
GroupsOf(c) == {[case |-> c, source |-> s] : s \in 1..SourceCount}
Completed(rows) == {[case |-> r.case, source |-> r.source] : r \in {x \in rows : x.status = "completed"}}
PendingOf(c, rows) == GroupsOf(c) \ Completed(rows)

EmptySlots == [rows |-> "empty"]
NoSlots == [rows |-> "missing"]
Staged(g) == [rows |-> "staged", case |-> g.case, source |-> g.source]

NoCase == [step |-> "none"]
Steps == <<"full", "prefix", "suffix">> \o [i \in 1..SourceCount |-> "source"]
Opened(c) ==
  [case |-> c, step |-> "initialize", done |-> 0, pending |-> PendingOf(c, caseRows),
   processed |-> {}, group |-> 0, left |-> 0]

Row(g, status) == [case |-> g.case, source |-> g.source, process |-> process, status |-> status]

CasesInit ==
  /\ oldSlots = EmptySlots /\ nativeOn = {} /\ native = [by |-> "none"]
  /\ caseTodo = [c \in PilotCases |-> c] /\ caseRun = NoCase
  /\ atDeadline = FALSE /\ process = 1 /\ processes = 1 /\ caseRows = {}

-----------------------------------------------------------------------------
Deadline ==
  /\ process > 0 /\ ~atDeadline /\ atDeadline' = TRUE
  /\ UNCHANGED <<oldSlots, nativeOn, native, caseTodo, caseRun, process, processes, caseRows>>

OpenCase ==
  /\ process > 0 /\ caseRun = NoCase /\ caseTodo # <<>> /\ ~atDeadline
  /\ caseRun' = Opened(Head(caseTodo)) /\ caseTodo' = Tail(caseTodo)
  /\ UNCHANGED <<oldSlots, nativeOn, native, atDeadline, process, processes, caseRows>>

(* close() leaves the model without flags and without a slot.               *)
Close ==
  oldSlots' = NoSlots /\ nativeOn' = {} /\ caseRun' = NoCase

(* Every job of the case that has no row of this process gets a failed one. *)
CaseFails ==
  /\ Close
  /\ caseRows' = caseRows \cup {Row(g, "failed") : g \in caseRun.pending \ caseRun.processed}

(* A forward reads the slot of each layer, so that one without slots raises.*)
Forward(by, on, slots) == native' = [by |-> by, on |-> on, slots |-> slots]
Raises(slots) == slots = NoSlots

(* The dense reference, and the collections of the prefix, of the suffix    *)
(* and of every Source of the case.                                         *)
FlagsOf(step) == (nativeOn \ {"check", "collect"}) \cup IF step = "full" THEN {} ELSE {"collect"}
InitializeCase ==
  /\ process > 0 /\ caseRun.step = "initialize" /\ caseRun.done < Len(Steps)
  /\ LET step == Steps[caseRun.done + 1] IN
       /\ Forward(step, FlagsOf(step), oldSlots)
       /\ \/ /\ ~Raises(oldSlots)
             /\ caseRun' = [caseRun EXCEPT !.done = @ + 1]
             /\ nativeOn' = FlagsOf(step) \ {"collect"} /\ UNCHANGED <<oldSlots, caseRows>>
          \/ CaseFails
  /\ UNCHANGED <<caseTodo, atDeadline, process, processes>>

Initialized == caseRun.step = "initialize" /\ caseRun.done = Len(Steps)
NextGroup ==
  CHOOSE g \in caseRun.pending \ caseRun.processed :
    \A h \in caseRun.pending \ caseRun.processed : g.source <= h.source

TakeGroup ==
  /\ process > 0 /\ (Initialized \/ caseRun.step = "groups")
  /\ IF caseRun.pending = caseRun.processed \/ atDeadline
       THEN Close
       ELSE /\ caseRun' = [caseRun EXCEPT !.step = "repair", !.group = NextGroup, !.left = Repairs]
            /\ UNCHANGED <<oldSlots, nativeOn>>
  /\ UNCHANGED <<native, caseTodo, atDeadline, process, processes, caseRows>>

(* Staging rebuilds every slot from the Source of the group.                *)
Repair ==
  /\ process > 0 /\ caseRun.step = "repair" /\ caseRun.left > 0
  /\ oldSlots' = Staged(caseRun.group) /\ nativeOn' = {"check"}
  /\ Forward("repair", nativeOn', oldSlots')
  /\ caseRun' = [caseRun EXCEPT !.left = @ - 1]
  /\ UNCHANGED <<caseTodo, atDeadline, process, processes, caseRows>>

Processed(g) == caseRun' = [caseRun EXCEPT !.step = "groups", !.processed = @ \cup {g}]

(* A group whose executions all ran, and whose Source is unchanged, appends *)
(* its rows; one that raised anywhere appends a failure of each job.        *)
GroupEnds ==
  /\ process > 0 /\ caseRun.step = "repair"
  /\ \E status \in {"failed"} \cup (IF caseRun.left = 0 THEN {"completed"} ELSE {}) :
       caseRows' = caseRows \cup {Row(caseRun.group, status)}
  /\ Processed(caseRun.group) /\ oldSlots' = NoSlots
  /\ UNCHANGED <<nativeOn, native, caseTodo, atDeadline, process, processes>>

(* A process ends when it has no case left or its hours are over, or is     *)
(* killed between two steps; what it appended stays.                        *)
ProcessEnds ==
  /\ process > 0 /\ process' = 0
  /\ oldSlots' = EmptySlots /\ nativeOn' = {} /\ native' = [by |-> "none"] /\ caseRun' = NoCase
  /\ UNCHANGED <<caseTodo, atDeadline, processes, caseRows>>

Resume ==
  /\ process = 0 /\ processes < MaxProcesses
  /\ process' = processes + 1 /\ processes' = processes + 1 /\ atDeadline' = FALSE
  /\ caseTodo' = SelectSeq([c \in PilotCases |-> c], LAMBDA c : PendingOf(c, caseRows) # {})
  /\ UNCHANGED <<oldSlots, nativeOn, native, caseRun, caseRows>>

CasesNext ==
  \/ Deadline \/ OpenCase \/ InitializeCase \/ TakeGroup \/ Repair \/ GroupEnds
  \/ ProcessEnds \/ Resume

CasesSpec == CasesInit /\ [][CasesNext]_caseVars

-----------------------------------------------------------------------------
(* The patched forward indexes one old-row slot at every layer, also where  *)
(* it ignores old rows: no forward starts on an empty list.                 *)
SlotPerLayer == native.by # "none" => native.slots # NoSlots

(* A repair reads the rows of its group's Source and of no earlier one, and *)
(* dense prefills run without the flag that would make them read old rows.  *)
RepairsOwnSource ==
  /\ native.by = "repair" => "check" \in native.on
  /\ native.by = "repair" /\ caseRun.step = "repair" /\ caseRun.left < Repairs =>
       native.slots = Staged(caseRun.group)
  /\ native.by \in {"full", "prefix", "suffix", "source"} => "check" \notin native.on

(* Each group gets one outcome per process, none once it is completed; and  *)
(* a case the process opened and left before its deadline has an outcome    *)
(* for every group that was pending, whichever of its steps raised.         *)
OutcomesAccounted ==
  /\ \A a \in caseRows, b \in caseRows :
       a.case = b.case /\ a.source = b.source /\ a # b =>
         a.process # b.process /\ (a.status = "completed" => b.process < a.process)
  /\ process > 0 /\ caseRun = NoCase /\ ~atDeadline =>
       \A c \in PilotCases \ ToSet(caseTodo) : \A g \in GroupsOf(c) :
         \E r \in caseRows :
           /\ r.case = c /\ r.source = g.source
           /\ r.status = "completed" \/ r.process = process
=============================================================================
