----------------------------- MODULE SpillFiles -----------------------------
(***************************************************************************)
(* SpillManager, SpillWriter and SpillReader: each statement has a manager *)
(* of its own, all managers one directory.  A file is named by the label   *)
(* of the operator that spills, a constant of the code, and a number that  *)
(* begins at zero in every manager.  Statements overlap: several processes *)
(* share the directory, and in one process a paged SELECT keeps its        *)
(* readers open while other statements run.  So two statements may use one *)
(* path, and nothing in the code tells them.                               *)
(*                                                                         *)
(* Opening a path for writing truncates the file that has it, as POSIX     *)
(* does: readers and writers that hold the file see that.  A batch is the  *)
(* triple of its statement, its artifact and its place.                    *)
(***************************************************************************)
EXTENDS Integers, Sequences

CONSTANTS
  Statements,    \* statements, each with its SpillManager
  Labels,        \* query_id of the operators that spill
  MaxArtifacts,  \* bound: artifacts of each statement
  MaxRows,       \* bound: batches in an artifact
  MaxSpillFaults \* bound: failing file operations

VARIABLES
  dir,         \* path -> file
  body,        \* file -> its batches
  artifact,    \* statement -> its artifacts, in order: [label, at, file, pos, total]
  outstanding, \* statement -> outstanding_paths
  ended,       \* statements that have ended
  spillFaults, \* failures so far
  misread      \* history: artifacts whose reader got anything but what was written

spillVars == <<dir, body, artifact, outstanding, ended, spillFaults, misread>>

SpillInit ==
  /\ dir = <<>> /\ body = <<>>
  /\ artifact = [q \in Statements |-> <<>>]
  /\ outstanding = [q \in Statements |-> {}]
  /\ ended = {} /\ spillFaults = 0 /\ misread = {}

Path(q, n) == <<artifact[q][n].label, n>>
Artifact(l, at, file) == [label |-> l, at |-> at, file |-> file, pos |-> 0, total |-> 0]
Fault == spillFaults < MaxSpillFaults /\ spillFaults' = spillFaults + 1
Removed(d, paths) == [p \in DOMAIN d \ paths |-> d[p]]
Live(q, n, point) == q \notin ended /\ n \in DOMAIN artifact[q] /\ artifact[q][n].at = point

\* removePath(): a path without a file stays outstanding.
RemovePath(q, p) ==
  IF p \in DOMAIN dir
  THEN /\ dir' = Removed(dir, {p})
       /\ outstanding' = [outstanding EXCEPT ![q] = @ \ {p}]
  ELSE UNCHANGED <<dir, outstanding>>

\* Defect: next_sequence is never incremented.
RepeatedPath(q, l) == <<l, 1>>

\* A new artifact of q, its path opened for writing: what it leaves in dir.
NewPath(q, l) == <<l, Len(artifact[q]) + 1>>
NewFile(q, l) == IF NewPath(q, l) \in DOMAIN dir THEN dir[NewPath(q, l)] ELSE Len(body) + 1
MayOpen(q) == q \notin ended /\ Len(artifact[q]) < MaxArtifacts[q]
Opened(q, l, batches) ==
  /\ dir' = [p \in DOMAIN dir \cup {NewPath(q, l)} |->
               IF p = NewPath(q, l) THEN NewFile(q, l) ELSE dir[p]]
  /\ body' = IF NewFile(q, l) \in DOMAIN body THEN [body EXCEPT ![NewFile(q, l)] = batches]
                                               ELSE Append(body, batches)

OpenWriter(q, l) ==
  /\ MayOpen(q) /\ Opened(q, l, <<>>)
  /\ artifact' = [artifact EXCEPT ![q] = Append(@, Artifact(l, "writing", NewFile(q, l)))]
  /\ outstanding' = [outstanding EXCEPT ![q] = @ \cup {NewPath(q, l)}]
  /\ UNCHANGED <<ended, spillFaults, misread>>

\* spill(): all batches at once; the path is recorded only when they are written.
Spill(q, l) ==
  /\ MayOpen(q)
  /\ \E k \in 1 .. MaxRows :
       /\ Opened(q, l, [i \in 1 .. k |-> <<q, Len(artifact[q]) + 1, i>>])
       /\ artifact' = [artifact EXCEPT ![q] =
                         Append(@, [Artifact(l, "finished", NewFile(q, l)) EXCEPT !.total = k])]
  /\ outstanding' = [outstanding EXCEPT ![q] = @ \cup {NewPath(q, l)}]
  /\ UNCHANGED <<ended, spillFaults, misread>>

SpillFails(q, l) ==
  /\ MayOpen(q) /\ Fault /\ Opened(q, l, <<>>)
  /\ artifact' = [artifact EXCEPT ![q] = Append(@, Artifact(l, "gone", NewFile(q, l)))]
  /\ UNCHANGED <<outstanding, ended, misread>>

AppendBatch(q, n) ==
  /\ Live(q, n, "writing") /\ artifact[q][n].total < MaxRows
  /\ artifact' = [artifact EXCEPT ![q][n].total = @ + 1]
  /\ body' = [body EXCEPT ![artifact[q][n].file] = Append(@, <<q, n, artifact'[q][n].total>>)]
  /\ UNCHANGED <<dir, outstanding, ended, spillFaults, misread>>

Finish(q, n) ==
  /\ Live(q, n, "writing") /\ artifact[q][n].total > 0
  /\ artifact' = [artifact EXCEPT ![q][n].at = "finished"]
  /\ UNCHANGED <<dir, body, outstanding, ended, spillFaults, misread>>

\* The writer is destroyed before it has finished (a failing write, finish()
\* without a batch, a statement cancelled): its destructor removes the file.
Abort(q, n) ==
  /\ Live(q, n, "writing")
  /\ artifact' = [artifact EXCEPT ![q][n] = Artifact(@.label, "gone", @.file)]
  /\ RemovePath(q, Path(q, n))
  /\ UNCHANGED <<body, ended, spillFaults, misread>>

\* read() opens the path anew and takes the number of batches from the file; a
\* file that another statement has truncated may be no Arrow file at all.
Read(q, n) ==
  LET p == Path(q, n)
      a == artifact[q][n]
      found == p \in outstanding[q] /\ p \in DOMAIN dir
      whole == found /\ Len(body[dir[p]]) = a.total
  IN /\ Live(q, n, "finished")
     /\ misread' = IF whole THEN misread ELSE misread \cup {<<q, n>>}
     /\ \/ /\ found /\ body[dir[p]] # <<>>
           /\ artifact' = [artifact EXCEPT ![q][n] =
                [label |-> a.label, at |-> "reading", file |-> dir[p], pos |-> a.pos,
                 total |-> Len(body[dir[p]])]]
        \/ /\ ~whole
           /\ artifact' = [artifact EXCEPT ![q][n] = Artifact(@.label, "gone", @.file)]
     /\ UNCHANGED <<dir, body, outstanding, ended, spillFaults>>

\* SpillReader::next(): the file is removed with its last batch; when that
\* fails the batch is lost with it and the statement fails.
NextBatch(q, n) ==
  LET a == artifact[q][n]
      pos == a.pos + 1
      b == body[a.file]
      p == Path(q, n)
  IN /\ Live(q, n, "reading")
     /\ artifact' = [artifact EXCEPT ![q][n] =
          IF pos < a.total THEN [a EXCEPT !.pos = pos] ELSE Artifact(a.label, "gone", a.file)]
     /\ misread' = IF pos \in DOMAIN b /\ b[pos] = <<q, n, pos>> /\ (pos = a.total => p \in DOMAIN dir)
                   THEN misread ELSE misread \cup {<<q, n>>}
     /\ IF pos < a.total THEN UNCHANGED <<dir, outstanding>> ELSE RemovePath(q, p)
     /\ UNCHANGED <<body, ended, spillFaults>>

RemoveFails(q, n) ==
  /\ Live(q, n, "reading") /\ artifact[q][n].pos + 1 = artifact[q][n].total
  /\ Fault
  /\ artifact' = [artifact EXCEPT ![q][n] = Artifact(@.label, "gone", @.file)]
  /\ UNCHANGED <<dir, body, outstanding, ended, misread>>

\* A reader destroyed before its last batch.
Release(q, n) ==
  /\ Live(q, n, "reading")
  /\ artifact' = [artifact EXCEPT ![q][n] = Artifact(@.label, "gone", @.file)]
  /\ RemovePath(q, Path(q, n))
  /\ UNCHANGED <<body, ended, spillFaults, misread>>

\* The statement ends: its writers are gone, cleanup() removes what is
\* outstanding, in no order, and stops at the first file it cannot remove: one
\* that another statement has removed before it, or one the disk fails on.
Cleanup(q) ==
  LET missing == outstanding[q] \ DOMAIN dir
  IN /\ q \notin ended /\ \A n \in DOMAIN artifact[q] : artifact[q][n].at \notin {"writing", "reading"}
     /\ ended' = ended \cup {q}
     /\ \E left \in SUBSET outstanding[q] :
          /\ missing \subseteq left
          /\ IF left = {} \/ missing # {} THEN UNCHANGED spillFaults ELSE Fault
          /\ outstanding' = [outstanding EXCEPT ![q] = left]
          /\ dir' = Removed(dir, outstanding[q] \ left)
     /\ UNCHANGED <<body, artifact, misread>>

SpillNext ==
  \E q \in Statements :
    \/ \E l \in Labels : OpenWriter(q, l) \/ Spill(q, l) \/ SpillFails(q, l)
    \/ Cleanup(q)
    \/ \E n \in DOMAIN artifact[q] :
         AppendBatch(q, n) \/ Finish(q, n) \/ Abort(q, n) \/ Read(q, n) \/ NextBatch(q, n)
           \/ RemoveFails(q, n) \/ Release(q, n)

SpillSpec == SpillInit /\ [][SpillNext]_spillVars

-----------------------------------------------------------------------------
\* Another statement has used the path of the artifact: it had the same label
\* and came as far in its own numbers.
Shared(q, n) == \E r \in Statements \ {q} : n \in DOMAIN artifact[r] /\ Path(r, n) = Path(q, n)
Alone(q) == \A n \in DOMAIN artifact[q] : ~Shared(q, n)

\* A reader that does not get, in order, the batches its writer appended shares
\* the path with another statement: what its own statement spills in the
\* meantime, and what others do on other paths, never disturbs it.
SpillsOwned == \A w \in misread : Shared(w[1], w[2])

\* Without a failing file operation a statement that shares no path leaves no
\* file behind when it ends, and until then its manager knows of every file of
\* its artifacts, whatever others do.
SpillsRemoved ==
  spillFaults = 0 =>
    \A q \in Statements : Alone(q) =>
      \A n \in DOMAIN artifact[q] :
        Path(q, n) \in DOMAIN dir => q \notin ended /\ Path(q, n) \in outstanding[q]

\* Spilled batches come back as they were written and leave no file behind,
\* but for statements that meet on one path (SpillWriter, SpillReader,
\* SpillManager::cleanup).
SpillsSound == SpillsOwned /\ SpillsRemoved
=============================================================================
