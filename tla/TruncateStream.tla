--------------------------- MODULE TruncateStream ---------------------------
(***************************************************************************)
(* truncate_stream of pravega-tools: search the index, truncate the index, *)
(* truncate the data.  Several runs of the tool may overlap and each may   *)
(* die between any two steps, while pravegasink appends.  A searcher of    *)
(* IndexSearch is here a run of the tool.                                  *)
(***************************************************************************)
EXTENDS IndexSearch

VARIABLES
  dataHead,  \* data before this offset is truncated
  tool       \* what each run of the tool does next

allVars == <<index, head, search, dataHead, tool>>

\* "dead": the process died, or an unwrap panicked.
ToolStates == {"idle", "search", "index", "data", "done", "dead"}

InitTruncate ==
  /\ Init
  /\ dataHead = 0
  /\ tool = [p \in Searchers |-> "idle"]

-----------------------------------------------------------------------------
(* The tool *)

\* Mutant: the data is truncated before the index.
DataFirst == [idle |-> "search", search |-> "data", data |-> "index", index |-> "done"]

\* The index goes before the data, so that no record is left without its data.
NextStep == [idle |-> "search", search |-> "index", index |-> "data", data |-> "done"]

ToolSteps(p, s) == tool[p] = s /\ tool' = [tool EXCEPT ![p] = NextStep[s]]

\* Mutant: the record after the given time.
CutAfter == "After"

CutMethod == "Before"

TruncateStart(p, t) ==
  /\ ToolSteps(p, "idle")
  /\ Begin(p, t, CutMethod)
  /\ UNCHANGED dataHead

CutFound(p) ==
  /\ ToolSteps(p, "search")
  /\ Found(p)
  /\ UNCHANGED <<index, head, search, dataHead>>

TruncateIndex(p) ==
  /\ ToolSteps(p, "index")
  /\ Truncate(search[p].pos)
  /\ UNCHANGED dataHead

\* Truncating what is truncated does nothing.
TruncateData(p) ==
  LET o == index[search[p].pos].offset IN
  /\ ToolSteps(p, "data")
  /\ dataHead' = IF dataHead < o THEN o ELSE dataHead
  /\ UNCHANGED <<index, head, search>>

\* The process dies, or a search or a call to Pravega fails and its unwrap panics.
ToolDies(p) ==
  /\ tool[p] \in {"search", "index", "data"}
  /\ tool' = [tool EXCEPT ![p] = "dead"]
  /\ UNCHANGED <<index, head, search, dataHead>>

-----------------------------------------------------------------------------
SearchNext ==
  \/ \E r \in IndexRecord : AppendRecord(r)
  \/ \E p \in Searchers : SearchStep(p) \/ ReadFails(p)

NextTruncate ==
  \/ SearchNext /\ UNCHANGED <<dataHead, tool>>
  \/ \E p \in Searchers :
       \/ \E t \in Wanted : TruncateStart(p, t)
       \/ CutFound(p) \/ TruncateIndex(p) \/ TruncateData(p) \/ ToolDies(p)

TruncateSpec == InitTruncate /\ [][NextTruncate]_allVars

-----------------------------------------------------------------------------
(* Properties *)

TruncateTypeOK ==
  /\ TypeOK
  /\ dataHead \in Nat
  /\ tool \in [Searchers -> ToolStates]

\* Constraint 1 of index.rs, at the head: the data at the offset of every record that a
\* reader can find is there, between the tool's steps, after its death, and with runs
\* that overtake each other.
RecordsPointToData == \A i \in head + 1 .. Len(index) : dataHead <= index[i].offset

\* The times passed to the tool so far.
cutoffs == {search[p].ts : p \in {q \in Searchers : tool[q] # "idle"}}

\* With timestamps in order, the tool deletes only what is older than a time it
\* was given: what lies between two records is earlier than the second of them.
OnlyOldIsDeleted ==
  IsSorted =>
    \A i \in 1 .. Len(index) - 1 :
      (i <= head \/ index[i].offset < dataHead) => \E c \in cutoffs : index[i+1].ts <= c
=============================================================================
