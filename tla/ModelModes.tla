----------------------------- MODULE ModelModes -----------------------------
(* One patched model serves every forward of a process: the qualification  *)
(* fixtures and the cases of H1 collect the rows of dense prefills from it, *)
(* dense references, resumable prefills and their decodes run on it, and    *)
(* so do plain requests to the serving engine. What a forward does depends  *)
(* on flags that live on the model and on the old rows hung on it, which    *)
(* each run leaves to the next one. A run is a turn; the program of an      *)
(* operation is the sequence of its turns. Every driver stops its process   *)
(* at the first exception, so a failed turn is the end of the behaviour.    *)
EXTENDS Naturals, Sequences, FiniteSets

CONSTANTS
  ModelLayers,      \* layers of the model
  FixtureShapes,    \* fixtures asked for: [segments, variants, prefixed]
  Boundaries,       \* for a number of segments, the boundary of each
  MaxOperations     \* bound: operations of a process after its sentinel

VARIABLES
  on,               \* the flags of the model that are set
  oldRows,          \* the old rows hung on it: none, of this turn, of another
  cachedPrompts,    \* first blocks the engine's native prefix cache holds
  fixtures,         \* fixtures built, and whether their rows are complete
  operation,        \* the operation in progress
  todo,             \* its turns still to come
  turn,             \* the turn in progress
  forward,          \* the last forward of the model
  operations

modelVars == <<on, oldRows, cachedPrompts, fixtures, operation, todo, turn, forward, operations>>

-----------------------------------------------------------------------------
NoTurn == [kind |-> "none"]
NoForward == [by |-> "none"]

Fixing(f) == [kind |-> "fixture", fixture |-> f, variant |-> 1, complete |-> TRUE]
Plain(kind) == [kind |-> kind, stage |-> "set"]
(* One pass through the layers: which rows are exact prefix, whether every  *)
(* row of every segment is repaired, and the boundary of each segment.      *)
Resuming(prefixed, full, bounds) ==
  [kind |-> "resumed", prefixed |-> prefixed, full |-> full, bounds |-> bounds,
   layer |-> 0, loaded |-> FALSE, dropped |-> {}, stage |-> "begin"]
DenseControl(prefixed) == Resuming(prefixed, TRUE, <<>>)
Check == [kind |-> "check"]

BoundsOf(f) == {b \in Boundaries : Len(b) = f.segments}
Smallest == CHOOSE f \in FixtureShapes : f.segments = 1 /\ f.variants = 1 /\ ~f.prefixed
Prefixed == CHOOSE f \in FixtureShapes : f.segments = 1 /\ f.prefixed

(* The sentinel of the executor's construction, and what it runs for        *)
(* evidence once it has failed.                                             *)
Sentinel ==
  <<Fixing(Smallest), Plain("dense"), Resuming(FALSE, TRUE, <<2>>), Check>>
Controls == <<DenseControl(FALSE), Resuming(FALSE, TRUE, <<2>>), Resuming(FALSE, TRUE, <<ModelLayers>>)>>

NativePrefix ==
  <<Fixing(Prefixed), Plain("bare"), Plain("dense"), DenseControl(TRUE), Resuming(TRUE, TRUE, <<2>>)>>

(* A comparison or load only needs the rows of a fixture. A repair job      *)
(* compares a full repair with its dense reference first; the joint         *)
(* measurements only repeat the reuse, the anchors at the first boundary.   *)
RowsJob(f) == <<Fixing(f)>>
RepairJob(f, full, b) ==
  IF full THEN <<Fixing(f), Plain("dense"), Resuming(FALSE, TRUE, b), Check, Resuming(FALSE, TRUE, b)>>
  ELSE <<Fixing(f), Resuming(FALSE, FALSE, b), Resuming(FALSE, FALSE, b)>>
JointOperation(f, full, b) ==
  <<Fixing(f), Resuming(FALSE, full, b), Resuming(FALSE, full, b)>>
JointAnchor(f, full) == JointOperation(f, full, [i \in 1..f.segments |-> 2])

(* A case of H1: the rows of its prompt and of its Sources, the dense       *)
(* reference, and the group of one Source, in which the r=1 gate, greedy    *)
(* and teacher forced, comes before every ratio below one.                  *)
CaseRows == <<Plain("collect"), Plain("collect")>>
CaseGroup(b) ==
  <<Resuming(FALSE, TRUE, b), Check, Resuming(FALSE, TRUE, b), Check,
    Resuming(FALSE, FALSE, b), Resuming(FALSE, FALSE, b)>>
CaseRun(b) == CaseRows \o <<Plain("dense")>> \o CaseGroup(b)

JobShapes == {f \in FixtureShapes : ~f.prefixed}
RepairPrograms(f) ==
  {RowsJob(f)} \cup {JointAnchor(f, full) : full \in BOOLEAN}
  \cup UNION {{RepairJob(f, full, b), JointOperation(f, full, b)} :
                full \in BOOLEAN, b \in BoundsOf(f)}
Programs ==
  {NativePrefix, <<Plain("cfo")>>}
  \cup UNION {RepairPrograms(f) : f \in JobShapes}
  \cup {CaseRun(b) : b \in {c \in Boundaries : Len(c) = 1}}

ModelInit ==
  /\ on = {} /\ oldRows = "none" /\ cachedPrompts = {} /\ fixtures = {}
  /\ operation = "sentinel" /\ todo = Sentinel
  /\ turn = NoTurn /\ forward = NoForward /\ operations = 0

-----------------------------------------------------------------------------
StartOperation ==
  /\ operation = "idle" /\ operations < MaxOperations
  /\ operation' = "running" /\ operations' = operations + 1
  /\ todo' \in Programs
  /\ UNCHANGED <<on, oldRows, cachedPrompts, fixtures, turn, forward>>

EndOperation ==
  /\ operation \in {"sentinel", "running", "controls"} /\ turn = NoTurn /\ todo = <<>>
  /\ operation' = IF operation = "controls" THEN "stopped" ELSE "idle"
  /\ UNCHANGED <<on, oldRows, cachedPrompts, fixtures, todo, turn, forward, operations>>

(* Equality with the dense reference. A sentinel that fails runs controls   *)
(* before it raises; every other check raises at once.                      *)
CheckDense ==
  /\ turn = NoTurn /\ todo # <<>> /\ Head(todo).kind = "check"
  /\ \/ todo' = Tail(todo) /\ operation' = operation
     \/ operation = "sentinel" /\ todo' = Controls /\ operation' = "controls"
     \/ operation = "running" /\ todo' = <<>> /\ operation' = "stopped"
  /\ UNCHANGED <<on, oldRows, cachedPrompts, fixtures, turn, forward, operations>>

TakeTurn ==
  /\ turn = NoTurn /\ todo # <<>> /\ Head(todo).kind # "check"
  /\ turn' = Head(todo) /\ todo' = Tail(todo)
  /\ UNCHANGED <<on, oldRows, cachedPrompts, fixtures, operation, forward, operations>>

Leave == turn' = NoTurn /\ oldRows' = IF oldRows = "own" THEN "other" ELSE oldRows

Forward(by, flags) == forward' = [by |-> by, on |-> flags]

-----------------------------------------------------------------------------
(* A fixture is built once per key. Each historical prompt starts with a    *)
(* nonce of its own, which need not differ from another within the first    *)
(* block of the cache: rows that do not reach the end of the segment are    *)
(* refused. The rows of the current prompt are taken as they come.          *)
Collecting == (on \ {"check", "resumable"}) \cup {"collect"}
BuiltAs(f) == {x \in fixtures : x.fixture = f}
FirstBlock(f) == IF f.prefixed THEN "prefix" ELSE "current"

FixtureKept ==
  /\ turn.kind = "fixture" /\ BuiltAs(turn.fixture) # {}
  /\ Leave /\ UNCHANGED <<on, cachedPrompts, fixtures, operation, todo, forward, operations>>

Accepts(complete) == complete
FixtureSource ==
  /\ turn.kind = "fixture" /\ BuiltAs(turn.fixture) = {} /\ turn.variant <= turn.fixture.variants
  /\ on' = Collecting /\ Forward("fixture", on')
  /\ cachedPrompts' = cachedPrompts \cup {"canonical"}
  /\ \E complete \in {TRUE} \cup {"canonical" \notin cachedPrompts} :
       IF Accepts(complete)
         THEN /\ turn' = [turn EXCEPT !.variant = @ + 1, !.complete = @ /\ complete]
              /\ UNCHANGED <<operation, todo>>
         ELSE turn' = NoTurn /\ operation' = "stopped" /\ todo' = <<>>
  /\ UNCHANGED <<oldRows, fixtures, operations>>

FixtureCurrent ==
  /\ turn.kind = "fixture" /\ BuiltAs(turn.fixture) = {} /\ turn.variant = turn.fixture.variants + 1
  /\ Forward("fixture", Collecting) /\ on' = Collecting \ {"collect"}
  /\ cachedPrompts' = cachedPrompts \cup {FirstBlock(turn.fixture)}
  /\ fixtures' = fixtures \cup
       {[fixture |-> turn.fixture, sources |-> turn.complete,
         current |-> FirstBlock(turn.fixture) \notin cachedPrompts]}
  /\ Leave /\ UNCHANGED <<operation, todo, operations>>

(* The collection of H1 goes past the scheduler and its cache.              *)
CollectLayers ==
  /\ turn.kind = "collect"
  /\ Forward("collect", Collecting) /\ on' = Collecting \ {"collect"}
  /\ oldRows' = "none" /\ turn' = NoTurn
  /\ UNCHANGED <<cachedPrompts, fixtures, operation, todo, operations>>

(* A decode, unless one token was asked for, follows with the flags that    *)
(* the prefill left.                                                        *)
Decode == forward' \in {NoForward, [by |-> "decode", on |-> on]}

DenseGenerate ==
  /\ turn.kind = "dense"
  /\ CASE turn.stage = "set" ->
            /\ on' = on \ {"check", "collect", "resumable"} /\ oldRows' = "none"
            /\ Forward("dense", on') /\ turn' = [turn EXCEPT !.stage = "decode"]
       [] turn.stage = "decode" ->
            Decode /\ Leave /\ UNCHANGED on
  /\ UNCHANGED <<cachedPrompts, fixtures, operation, todo, operations>>

CfoSentinel ==
  /\ turn.kind = "cfo"
  /\ Forward("cfo", (on \ {"check", "collect", "resumable"}) \cup {"cfo"})
  /\ Leave /\ UNCHANGED <<on, cachedPrompts, fixtures, operation, todo, operations>>

(* The second request of the native prefix sentinel sets no flag.           *)
BareGenerate ==
  /\ turn.kind = "bare"
  /\ Forward("bare", on)
  /\ Leave /\ UNCHANGED <<on, cachedPrompts, fixtures, operation, todo, operations>>

-----------------------------------------------------------------------------
(* begin_prefill hangs the rows of an exact prefix on the model, or clears  *)
(* the prefix and leaves the old rows to the first winner.                  *)
PrefixFlag(prefixed) == IF prefixed THEN {"prefix", "reuse"} ELSE {}
BeginPrefill ==
  /\ turn.kind = "resumed" /\ turn.stage = "begin"
  /\ on' = (on \ {"prefix", "reuse", "dense"}) \cup {"resumable", "check"} \cup PrefixFlag(turn.prefixed)
  /\ oldRows' = IF turn.prefixed THEN "own" ELSE oldRows
  /\ turn' = [turn EXCEPT !.stage = "layers"]
  /\ UNCHANGED <<cachedPrompts, fixtures, operation, todo, forward, operations>>

Probe == CHOOSE d \in 0..ModelLayers :
           /\ \E i \in DOMAIN turn.bounds : turn.bounds[i] = d + 1
           /\ \A i \in DOMAIN turn.bounds : turn.bounds[i] > d
NeedsWinners == turn.bounds # <<>> /\ ~turn.loaded

Prefetch ==
  /\ turn.kind = "resumed" /\ turn.stage = "layers" /\ NeedsWinners /\ turn.layer = Probe
  /\ oldRows' = "own" /\ turn' = [turn EXCEPT !.loaded = TRUE]
  /\ UNCHANGED <<on, cachedPrompts, fixtures, operation, todo, forward, operations>>

(* The status of a layer: 0 for a dense layer, 1 for the one that installs  *)
(* Sources, 2 for one that keeps them. A commit that repairs every row of a *)
(* prompt without exact prefix stays dense.                                 *)
Committed == {i \in DOMAIN turn.bounds : turn.bounds[i] = turn.layer + 1}
DenseRepair ==
  /\ Committed # {} /\ on \cap {"prefix", "reuse"} = {}
  /\ turn.full /\ turn.dropped = {}
Status ==
  IF DenseRepair THEN 0
  ELSE IF Committed # {} THEN 1
  ELSE IF on \cap {"prefix", "reuse"} # {} THEN 2 ELSE 0

AdvanceLayer ==
  /\ turn.kind = "resumed" /\ turn.stage = "layers" /\ turn.layer < ModelLayers
  /\ ~(NeedsWinners /\ turn.layer = Probe)
  /\ forward' = [by |-> "layer", on |-> on, status |-> Status, rows |-> oldRows]
  /\ on' = (on \ {"dense"}) \cup (IF DenseRepair THEN {"dense"}
                                  ELSE IF Committed # {} THEN {"reuse"} ELSE {})
  /\ turn' = [turn EXCEPT !.layer = @ + 1,
                !.dropped = IF turn.full THEN @ ELSE @ \cup Committed]
  /\ UNCHANGED <<oldRows, cachedPrompts, fixtures, operation, todo, operations>>

EndingFlags == {"resumable", "check", "reuse", "dense", "prefix"}
FinishPrefill ==
  /\ turn.kind = "resumed" /\ turn.stage = "layers" /\ turn.layer = ModelLayers
  /\ on' = on \ EndingFlags /\ turn' = [turn EXCEPT !.stage = "decode"]
  /\ UNCHANGED <<oldRows, cachedPrompts, fixtures, operation, todo, forward, operations>>

DecodeReuse ==
  /\ turn.kind = "resumed" /\ turn.stage = "decode"
  /\ Decode
  /\ Leave /\ UNCHANGED <<on, cachedPrompts, fixtures, operation, todo, operations>>

ModelNext ==
  \/ StartOperation \/ EndOperation \/ CheckDense \/ TakeTurn
  \/ FixtureKept \/ FixtureSource \/ FixtureCurrent \/ CollectLayers
  \/ DenseGenerate \/ CfoSentinel \/ BareGenerate
  \/ BeginPrefill \/ Prefetch \/ AdvanceLayer \/ FinishPrefill \/ DecodeReuse

ModelSpec == ModelInit /\ [][ModelNext]_modelVars

-----------------------------------------------------------------------------
(* Every forward runs in the mode its caller means, whatever ran before it: *)
(* rows are collected from dense prefills only, references, decodes and     *)
(* plain requests run with no flag of a prefill in progress, and the layers *)
(* of a resumable prefill know their own prefix and no other's.             *)
Meant ==
  [fixture |-> {"collect"}, collect |-> {"collect"}, dense |-> {}, decode |-> {},
   bare |-> {}, cfo |-> {"cfo"}, layer |-> {"check", "resumable"}]
ModesOfTheCaller ==
  forward.by # "none" =>
    /\ forward.on \cap {"check", "resumable", "collect", "cfo"} = Meant[forward.by]
    /\ forward.by = "layer" /\ turn.kind = "resumed" =>
         ("prefix" \in forward.on <=> turn.prefixed)

(* A Source of a fixture is never the rest of a prompt whose first block    *)
(* the engine had cached, although its prompts may share that block.        *)
SourcesComplete == \A x \in fixtures : x.sources

(* A layer reads old rows only when they are of its own request; once rows  *)
(* were dropped, or behind an exact prefix, no layer is taken for dense;    *)
(* and a full repair without prefix is dense in every layer, which is what  *)
(* the equality of the r=1 gate with the dense reference rests on.          *)
LayersReadTheirOwn ==
  forward.by = "layer" /\ turn.kind = "resumed" =>
    /\ forward.status # 0 => forward.rows = "own"
    /\ turn.dropped # {} \/ turn.prefixed => forward.status # 0
    /\ turn.full /\ ~turn.prefixed => forward.status = 0
=============================================================================
