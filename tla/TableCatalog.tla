---------------------------- MODULE TableCatalog ----------------------------
(***************************************************************************)
(* QueryTableCatalog: CREATE TABLE and DROP TABLE over a directory that    *)
(* outlives the processes using it, step by step, with failing file        *)
(* operations and crashes between any two steps.  One table name stands    *)
(* for all: names have paths of their own.                                 *)
(*                                                                         *)
(* Clients run statements one at a time (Serial): operations of two        *)
(* processes on one name at once share the .partial paths, and the code    *)
(* promises nothing then.  Their sessions do overlap.  A file is the       *)
(* number of the create() that wrote it, or Torn while it is being written *)
(* (Arrow refuses a file without its footer).                              *)
(***************************************************************************)
EXTENDS Integers, Sequences

CONSTANTS
  Clients,     \* processes sharing the root directory
  MaxCreates,  \* bound: calls of create()
  MaxIoFaults, \* bound: failing file operations
  MaxCrashes   \* bound: crashes and exits of processes

VARIABLES
  files,     \* path -> contents, on disk
  op,        \* per client: the statement it runs and the step it is at
  session,   \* per client: the number of its session table in session_tables_
  creates,   \* calls of create() so far
  ioFaults,  \* failures so far
  crashes,   \* crashes and exits so far
  outcome    \* history: what became of each create()

catalogVars == <<files, op, session, creates, ioFaults, crashes, outcome>>

None == 0
Torn == -1
Idle == [at |-> "idle", id |-> None]
Has(p) == p \in DOMAIN files
Without(p) == [q \in DOMAIN files \ {p} |-> files[q]]
With(p, content) == [q \in DOMAIN files \cup {p} |-> IF q = p THEN content ELSE files[q]]
Moved(from, to) == [q \in (DOMAIN files \ {from}) \cup {to} |-> IF q = to THEN files[from] ELSE files[q]]

CatalogInit ==
  /\ files = <<>> /\ op = [c \in Clients |-> Idle] /\ session = [c \in Clients |-> None]
  /\ creates = 0 /\ ioFaults = 0 /\ crashes = 0
  /\ outcome = <<>>

\* find(): the session table, else metadata and data that Arrow can read.
FoundPersistent == Has("meta") /\ Has("data") /\ files["data"] # Torn
Found(c) == session[c] # None \/ FoundPersistent

Serial == \A c \in Clients : op[c] = Idle
At(c, point) == op[c].at = point
Go(c, point) == op' = [op EXCEPT ![c].at = point]
Return(c, how) ==
  /\ op' = [op EXCEPT ![c] = Idle]
  /\ outcome' = [outcome EXCEPT ![op[c].id] = how]

-----------------------------------------------------------------------------
(* create(): data and metadata are written beside their final paths and     *)
(* moved there, the data first.                                             *)

BeginCreate(c, first) ==
  /\ Serial /\ creates < MaxCreates /\ ~Found(c)
  /\ creates' = creates + 1
  /\ op' = [op EXCEPT ![c] = [at |-> first, id |-> creates']]
  /\ outcome' = Append(outcome, "running")
  /\ UNCHANGED <<files, session, ioFaults, crashes>>

Step(c, from, to, change) ==
  /\ At(c, from) /\ Go(c, to)
  /\ files' = change
  /\ UNCHANGED <<session, creates, ioFaults, crashes, outcome>>

OpenData(c) == Step(c, "open_table", "write_table", With("data.partial", Torn))
WriteData(c) == Step(c, "write_table", "write_meta", With("data.partial", op[c].id))
WriteMeta(c) == Step(c, "write_meta", "move_data", With("meta.partial", op[c].id))
MoveData(c) == Step(c, "move_data", "move_meta", Moved("data.partial", "data"))
MoveMeta(c) == Step(c, "move_meta", "stat", Moved("meta.partial", "meta"))
OpenSession(c) == Step(c, "open_session", "write_session", With("session.partial", Torn))
WriteSession(c) == Step(c, "write_session", "move_session", With("session.partial", op[c].id))

Created(c) ==
  /\ At(c, "stat") /\ Return(c, "ok")
  /\ UNCHANGED <<files, session, creates, ioFaults, crashes>>

\* The session directory is numbered by a counter of the process, so that all
\* clients have the same one: the move replaces a table of the same name.
MoveSession(c) ==
  /\ At(c, "move_session") /\ Return(c, "session")
  /\ files' = Moved("session.partial", "session")
  /\ session' = [session EXCEPT ![c] = op[c].id]
  /\ UNCHANGED <<creates, ioFaults, crashes>>

\* Defect: a data file whose metadata could not be moved stays.
LeftWhole(c) == files

\* What a create() that fails leaves: all it has written, except that a data
\* file without metadata is removed.
LeftBy(c) == IF At(c, "move_meta") THEN Without("data") ELSE files

\* A file operation of create() fails and the error is returned.
CreateFails(c) ==
  /\ ioFaults < MaxIoFaults /\ ioFaults' = ioFaults + 1
  /\ op[c].at \in {"open_table", "write_table", "write_meta", "move_data", "move_meta", "stat",
                   "open_session", "write_session", "move_session"}
  /\ Return(c, IF At(c, "stat") THEN "unreported" ELSE "error")
  /\ files' = LeftBy(c)
  /\ UNCHANGED <<session, creates, crashes>>

-----------------------------------------------------------------------------
(* drop() and the end of a process.                                         *)

BeginDrop(c) ==
  /\ Serial /\ Found(c)
  /\ op' = [op EXCEPT ![c] = IF session[c] # None THEN [at |-> "drop_session", id |-> session[c]]
                             ELSE [at |-> "drop_data", id |-> files["data"]]]
  /\ UNCHANGED <<files, session, creates, ioFaults, crashes, outcome>>

DropData(c) ==
  /\ At(c, "drop_data") /\ Go(c, "drop_meta")
  /\ files' = Without("data")
  /\ outcome' = [outcome EXCEPT ![op[c].id] = "dropped"]
  /\ UNCHANGED <<session, creates, ioFaults, crashes>>

DropMeta(c) ==
  /\ At(c, "drop_meta") /\ Return(c, "dropped")
  /\ files' = Without("meta")
  /\ UNCHANGED <<session, creates, ioFaults, crashes>>

DropFails(c) ==
  /\ ioFaults < MaxIoFaults /\ ioFaults' = ioFaults + 1
  /\ op[c].at \in {"drop_data", "drop_meta", "drop_session"}
  /\ op' = [op EXCEPT ![c] = Idle]
  /\ UNCHANGED <<files, session, creates, crashes, outcome>>

Forget(c) == session' = [session EXCEPT ![c] = None]

\* Deleting a file that another client has deleted fails: the table stays in
\* session_tables_.
DropSession(c) ==
  /\ At(c, "drop_session")
  /\ op' = [op EXCEPT ![c] = Idle]
  /\ IF Has("session")
     THEN Forget(c) /\ files' = Without("session")
     ELSE UNCHANGED <<session, files>>
  /\ UNCHANGED <<creates, ioFaults, crashes, outcome>>

\* The destructor removes the session's files, a crash does not; the next
\* process begins with an empty list.
Exit(c) ==
  /\ op[c] = Idle /\ session[c] # None /\ crashes < MaxCrashes
  /\ crashes' = crashes + 1
  /\ files' = Without("session") /\ Forget(c)
  /\ UNCHANGED <<op, creates, ioFaults, outcome>>

Crash(c) ==
  /\ op[c] # Idle \/ session[c] # None
  /\ crashes < MaxCrashes /\ crashes' = crashes + 1
  /\ op' = [op EXCEPT ![c] = Idle] /\ Forget(c)
  /\ outcome' = IF op[c].id \in DOMAIN outcome /\ outcome[op[c].id] = "running"
                THEN [outcome EXCEPT ![op[c].id] = "crashed"] ELSE outcome
  /\ UNCHANGED <<files, creates, ioFaults>>

CatalogNext ==
  \E c \in Clients :
    \/ \E first \in {"open_table", "open_session"} : BeginCreate(c, first)
    \/ OpenData(c) \/ WriteData(c) \/ WriteMeta(c) \/ MoveData(c) \/ MoveMeta(c) \/ Created(c)
    \/ OpenSession(c) \/ WriteSession(c) \/ MoveSession(c) \/ CreateFails(c)
    \/ BeginDrop(c) \/ DropData(c) \/ DropMeta(c) \/ DropFails(c) \/ DropSession(c)
    \/ Exit(c) \/ Crash(c)

CatalogSpec == CatalogInit /\ [][CatalogNext]_catalogVars

-----------------------------------------------------------------------------
\* Whatever fails and whenever a process dies: a persistent table that was
\* acknowledged is found, with the contents of its own create(), by every client
\* until a drop() of it begins; and a table that is found is the complete result
\* of one create() that has not reported an error, unless only its last look at
\* the finished file failed.  Metadata left behind by a drop() that died never
\* brings a refused table to life.
PersistentTablesSound ==
  /\ \A i \in DOMAIN outcome : outcome[i] = "ok" => FoundPersistent /\ files["data"] = i
  /\ FoundPersistent => outcome[files["data"]] \in {"ok", "running", "crashed", "unreported"}
=============================================================================
