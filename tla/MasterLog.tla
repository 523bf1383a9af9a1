------------------------------ MODULE MasterLog ------------------------------
(***************************************************************************)
(* The permanent data log and its CSV exporter (store/masterlog.go, the    *)
(* exporter loop of cmd/gexctl/serve.go).  Data_Points only grows and its  *)
(* AUTOINCREMENT ids are consecutive, so the table is the number of its    *)
(* committed rows.  One export reads the cursor, reads the rows after it,  *)
(* appends them to the file and advances the cursor, each store access in  *)
(* a transaction of its own; the process may die between any two steps and *)
(* every step may fail.                                                    *)
(*                                                                         *)
(* The file is kept as the rows that can be read back from it.  The CSV    *)
(* writer hands its lines to the file in blocks of 4096 bytes, so an       *)
(* append that is cut may end inside a line and leave a fragment without a *)
(* newline; the next append continues that very line, and its first row is *)
(* unreadable as well.                                                     *)
(***************************************************************************)
EXTENDS Naturals, FiniteSets

CONSTANTS
  MaxRows,    \* bound: rows inserted
  MaxFaults,  \* bound: failing transactions and file writes
  MaxCrashes  \* bound: process restarts

ASSUME MasterAssumption ==
  MaxRows \in Nat /\ MaxFaults \in Nat /\ MaxCrashes \in Nat

VARIABLES
  points,      \* Data_Points: rows 1..points are committed
  cursor,      \* Export_Cursors.Last_Id, 0 while the row does not exist
  file,        \* the CSV: "empty", "clean" (ends with a newline) or "torn"
  headers,     \* header lines in it
  readable,    \* Data_Points rows that can be read back from it
  export, lastId, top, \* ExportMasterCSV: where it is, the rows lastId+1..top it read
  touches,     \* a touchCursor task is queued (Submit, not awaited)
  glued,       \* history: rows written right behind a fragment, on its line
  tears,       \* history: appends cut inside a line
  headCut,     \* history: such a cut hit the header line itself
  faults, crashes

dbVars == <<points, cursor>>
csvVars == <<file, headers, readable, glued, tears, headCut>>
exportVars == <<export, lastId, top>>
logVars == <<dbVars, csvVars, exportVars, touches, faults, crashes>>

LogTypeOK ==
  /\ points \in 0..MaxRows /\ cursor \in 0..MaxRows
  /\ file \in {"empty", "clean", "torn"} /\ headers \in Nat
  /\ readable \subseteq 1..MaxRows /\ glued \subseteq 1..MaxRows
  /\ tears \in Nat /\ headCut \in BOOLEAN
  /\ export \in {"idle", "cursor", "rows", "append", "advance"}
  /\ lastId \in 0..MaxRows /\ top \in 0..MaxRows
  /\ touches \in BOOLEAN /\ faults \in 0..MaxFaults /\ crashes \in 0..MaxCrashes

LogInit ==
  /\ points = 0 /\ cursor = 0
  /\ file = "empty" /\ headers = 0 /\ readable = {}
  /\ export = "idle" /\ lastId = 0 /\ top = 0
  /\ touches = FALSE /\ faults = 0 /\ crashes = 0
  /\ glued = {} /\ tears = 0 /\ headCut = FALSE

-----------------------------------------------------------------------------

\* SubmitDataPoints: a batch of k rows commits.
InsertPoints(k) ==
  /\ points + k <= MaxRows
  /\ points' = points + k
  /\ UNCHANGED <<cursor, csvVars, exportVars, touches, faults, crashes>>

\* Mutant: the exporter goroutine ends with the first error.
StartExportUnlessFailed ==
  /\ export = "idle" /\ faults = 0
  /\ export' = "cursor"
  /\ UNCHANGED <<dbVars, csvVars, lastId, top, touches, faults, crashes>>

\* The five-minute tick, or the final pass.
StartExport ==
  /\ export = "idle"
  /\ export' = "cursor"
  /\ UNCHANGED <<dbVars, csvVars, lastId, top, touches, faults, crashes>>

ReadCursor ==
  /\ export = "cursor"
  /\ lastId' = cursor
  /\ export' = "rows"
  /\ UNCHANGED <<dbVars, csvVars, top, touches, faults, crashes>>

ReadRows ==
  /\ export = "rows" /\ points > lastId
  /\ top' = points
  /\ export' = "append"
  /\ UNCHANGED <<dbVars, csvVars, lastId, touches, faults, crashes>>

NothingToExport ==
  /\ export = "rows" /\ points <= lastId
  /\ touches' = TRUE
  /\ export' = "idle"
  /\ UNCHANGED <<dbVars, csvVars, lastId, top, faults, crashes>>

\* Mutant: the no-op flush rewrites Last_Id.
TouchRewinds ==
  /\ touches
  /\ cursor' = 0
  /\ touches' = FALSE
  /\ UNCHANGED <<points, csvVars, exportVars, faults, crashes>>

\* touchCursor's task: the row is created with Last_Id 0 or keeps its value.
TouchCursor ==
  /\ touches
  /\ touches' = FALSE
  /\ UNCHANGED <<dbVars, csvVars, exportVars, faults, crashes>>

-----------------------------------------------------------------------------
(* writeRows.                                                              *)

\* Mutant: the header is written whenever the export starts from zero.
FreshByCursor == IF lastId = 0 THEN 1 ELSE 0

\* Lines that precede the rows: the header, when the file is new or empty.
HeaderLines == IF file = "empty" THEN 1 ELSE 0

\* The first lines of the append, header included, reach the file whole; the
\* first of them continues a fragment that an earlier append left.
WriteLines(lines) ==
  LET got == {i \in (lastId + 1)..top : i - lastId + HeaderLines <= lines}
      spoilt == IF file = "torn" THEN got \cap {lastId + 1} ELSE {}
  IN
  /\ headers' = headers + (IF lines > 0 THEN HeaderLines ELSE 0)
  /\ readable' = readable \cup (got \ spoilt)
  /\ glued' = glued \cup spoilt

AppendRows ==
  /\ export = "append"
  /\ WriteLines(HeaderLines + top - lastId)
  /\ file' = "clean"
  /\ export' = "advance"
  /\ UNCHANGED <<dbVars, lastId, top, touches, tears, headCut, faults, crashes>>

\* How the file ends after a cut: between two lines, or inside the next one.
Tear(lines, inside) ==
  /\ file' = IF inside THEN "torn" ELSE IF lines > 0 THEN "clean" ELSE file
  /\ tears' = tears + (IF inside THEN 1 ELSE 0)
  /\ headCut' = (headCut \/ (inside /\ lines = 0 /\ file = "empty"))

\* Mutant: writeRows' error does not keep the cursor back.
CutAppendIgnored(lines, inside) ==
  /\ export = "append" /\ faults < MaxFaults
  /\ lines < HeaderLines + top - lastId
  /\ WriteLines(lines)
  /\ Tear(lines, inside)
  /\ faults' = faults + 1
  /\ export' = "advance"
  /\ UNCHANGED <<dbVars, lastId, top, touches, crashes>>

\* The disk is full, or the process dies between two writes of the CSV
\* writer's 4096-byte buffer: only some lines got out, the last one maybe in part.
CutAppend(lines, inside) ==
  /\ export = "append" /\ faults < MaxFaults
  /\ lines < HeaderLines + top - lastId
  /\ WriteLines(lines)
  /\ Tear(lines, inside)
  /\ faults' = faults + 1
  /\ export' = "idle"
  /\ UNCHANGED <<dbVars, lastId, top, touches, crashes>>

AdvanceCursor ==
  /\ export = "advance"
  /\ cursor' = top
  /\ export' = "idle"
  /\ UNCHANGED <<points, csvVars, lastId, top, touches, faults, crashes>>

\* One of the three queries fails: the export is abandoned and logged.
QueryFails ==
  /\ export \in {"cursor", "rows", "advance"} /\ faults < MaxFaults
  /\ faults' = faults + 1
  /\ export' = "idle"
  /\ UNCHANGED <<dbVars, csvVars, lastId, top, touches, crashes>>

\* The process dies and restarts; what was committed or written stays.
Crash ==
  /\ crashes < MaxCrashes
  /\ crashes' = crashes + 1
  /\ export' = "idle" /\ lastId' = 0 /\ top' = 0 /\ touches' = FALSE
  /\ UNCHANGED <<dbVars, csvVars, faults>>

ExportStep ==
  \/ StartExport \/ ReadCursor \/ ReadRows \/ NothingToExport \/ AppendRows \/ AdvanceCursor

LogNext ==
  \/ \E k \in 1..MaxRows : InsertPoints(k)
  \/ ExportStep \/ TouchCursor \/ QueryFails \/ Crash
  \/ \E lines \in 0..MaxRows, inside \in BOOLEAN : CutAppend(lines, inside)

LogSpec == LogInit /\ [][LogNext]_logVars

\* The exporter's timer fires and its transactions end; faults and crashes are
\* bounded, so some export meets none.
LogFairSpec == LogSpec /\ WF_logVars(ExportStep)

-----------------------------------------------------------------------------
(* Properties.                                                             *)

\* "never skip" (masterlog.go:114-117), as far as it goes: a row the committed
\* cursor has passed can be read back from the CSV, or was written on the line
\* of a fragment, and each append cut inside a line spoils one row at most
\* (masterlog.go:200-213).  Nothing else that fails or restarts loses a row.
SkipsAreTorn ==
  /\ 1..cursor \subseteq readable \cup glued
  /\ Cardinality(glued) <= tears

\* The export cursor never moves back, although a no-op flush queued earlier
\* may run after an advance (masterlog.go:222-229); moving it back would append
\* the whole log again.
CursorNeverRewinds == [][cursor' >= cursor]_logVars

\* "header written once, ALL sessions accumulate in one file"
\* (masterlog.go:113-114): whatever fails and restarts, a file with content has
\* exactly one header, or none if the cut hit the header line itself.
HeaderOnce == file # "empty" => headers = IF headCut THEN 0 ELSE 1

\* Every committed row is eventually written to the CSV, and readable there
\* unless its line was a fragment's.
EventuallyExported == \A i \in 1..MaxRows : i <= points ~> i \in readable \cup glued

\* "the contract is never skip" (masterlog.go:116-117), taken literally.
NeverSkip == 1..cursor \subseteq readable
=============================================================================
