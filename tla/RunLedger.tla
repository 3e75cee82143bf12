----------------------------- MODULE RunLedger ------------------------------
(***************************************************************************)
(* What the validation run life cycle promises its readers, with the       *)
(* telemetry, the goroutines, the weaver process and the clock left out.   *)
(* Runs are numbered, each run is opened at most once, only the run that   *)
(* is open publishes, it publishes at most once, and a wipe leaves nothing *)
(* open and nothing shown.                                                 *)
(***************************************************************************)
EXTENDS Naturals

CONSTANT MaxRuns

None == 0

VARIABLES
  issued,   \* the number of runs numbered so far
  waiting,  \* runs numbered, neither opened nor refused yet
  open,     \* the run that may publish
  shown     \* the run whose result is shown

lvars == <<issued, waiting, open, shown>>

LInit == issued = 0 /\ waiting = {} /\ open = None /\ shown = None

Issue ==
  /\ issued < MaxRuns
  /\ issued' = issued + 1
  /\ waiting' = waiting \cup {issued + 1}
  /\ UNCHANGED <<open, shown>>

\* A run may be opened over another one, which then never publishes.
Open(r) ==
  /\ r \in waiting
  /\ waiting' = waiting \ {r}
  /\ open' = r
  /\ UNCHANGED <<issued, shown>>

Refuse(r) ==
  /\ r \in waiting
  /\ open # None
  /\ waiting' = waiting \ {r}
  /\ UNCHANGED <<issued, open, shown>>

\* The validator was disabled since the run was numbered.
RefuseDisabled(r) ==
  /\ r \in waiting
  /\ open = None /\ shown = None
  /\ waiting' = waiting \ {r}
  /\ UNCHANGED <<issued, open, shown>>

Publish ==
  /\ open # None
  /\ shown' = open
  /\ open' = None
  /\ UNCHANGED <<issued, waiting>>

Fail ==
  /\ open # None
  /\ open' = None
  /\ UNCHANGED <<issued, waiting, shown>>

Wipe == open' = None /\ shown' = None /\ UNCHANGED <<issued, waiting>>

LNext ==
  \/ Issue \/ Publish \/ Fail \/ Wipe
  \/ \E r \in 1..MaxRuns : Open(r) \/ Refuse(r) \/ RefuseDisabled(r)

LSpec == LInit /\ [][LNext]_lvars
=============================================================================
