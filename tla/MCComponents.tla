--------------------------- MODULE MCComponents ----------------------------
(***************************************************************************)
(* One TLC run over the components that share no state with each other: a *)
(* behaviour picks one of them and runs it alone, while the others rest in *)
(* an initial state.                                                       *)
(***************************************************************************)
EXTENDS MCChannelProcessor, TableCatalog, SpillFiles, QueryScan, AnnotationWriters,
        DSMetadataReader, ArchiverReader, HDF5Writer, CalendarReader

VARIABLE part

-----------------------------------------------------------------------------
(* Instances                                                               *)

\* The archiver reader's exact configurations: one tail thread, or any number
\* of threads over a fixed range.
ExactConfigs ==
  [mode : {"tail"}, threads : {1}, lookback : {1, 2}, perBatch : {0, 1, 2}]
    \cup [mode : {"historical"}, threads : {1, 2}, lookback : {2}, perBatch : {0, 2}]

\* Two posts of one calendar and one of another, some across window borders,
\* touching, nested, of no length, cross-posted or without times.
Slots == {<<0, 1>>, <<0, 3>>, <<1, 2>>, <<2, 2>>, <<2, 4>>, <<3, 5>>, <<4, 5>>}
Post(c, s) == [program |-> "p", calendar |-> c, from |-> s[1], to |-> s[2]]
PostedEvents ==
  {{}} \cup
  {{Post("c", s), Post("c", t), Post("d", u)} : s, t \in Slots \cup {<<-1, -1>>}, u \in Slots}

\* Windows that touch, overlap, contain each other or lie apart.
Windows == {{<<0, 4>>}, {<<1, 5>>}, {<<0, 2>>, <<3, 5>>}, {<<0, 1>>, <<4, 6>>},
            {<<0, 3>>, <<2, 5>>, <<6, 6>>}}
ScanRequests ==
  [kind : {"window", "wide"}, raw : Windows, slice : {2, 4}, size : {1, 3}, conns : {2},
   parallel : {0}]
    \cup [kind : {"window", "wide"}, raw : {{<<1, 5>>}}, slice : {2}, size : {1, 3}, conns : {1},
          parallel : {0}]
    \cup [kind : {"series"}, raw : {{<<0, 4>>}}, slice : {7}, size : {1, 3}, conns : {1, 2, 3},
          parallel : {0, 2}]

\* Writers that keep one record on one worker.
PinnedWriters == {[kind |-> "configuration", workers |-> 2], [kind |-> "metadata", workers |-> 1]}

\* One statement spills twice while the other spills once.
FewArtifacts == [q \in Statements |-> IF q = "a" THEN 2 ELSE 1]

\* Two PVs.
ArchivedPVs == <<"p", "q">>

-----------------------------------------------------------------------------
(* The family                                                              *)

\* The initial state in which each component rests: its choices, then its Init.
RestingProcessor  == config = (CHOOSE c \in Configs : TRUE) /\ Init
RestingScan       == ScanInit /\ scan.raw = {<<0, 4>>} /\ scan.kind = "series" /\ scan.size = 1
                       /\ scan.conns = 1 /\ scan.parallel = 0
RestingAnnotation == AnnotationInit /\ writer.kind = "metadata"
RestingArchiver   == conf = (CHOOSE c \in ArchiverConfigs : TRUE) /\ ArchiverInit
RestingDirectory  == threadCount = 1 /\ dsOneShot = TRUE /\ DirectoryInit
RestingHDF5       == mode = "merge" /\ HDF5Init
RestingCalendar   == calendar = {} /\ oneShot = TRUE /\ CalendarInit

FamilyInit ==
  /\ part \in {"processor", "hdf5", "directory", "archiver", "calendar", "scan", "annotation",
               "catalog", "spill"}
  /\ IF part = "processor" THEN Init ELSE RestingProcessor
  /\ IF part = "scan" THEN ScanInit ELSE RestingScan
  /\ IF part = "annotation" THEN AnnotationInit ELSE RestingAnnotation
  /\ IF part = "directory" THEN DirectoryInit ELSE RestingDirectory
  /\ IF part = "archiver" THEN ArchiverInit ELSE RestingArchiver
  /\ CatalogInit /\ SpillInit
  /\ IF part = "hdf5" THEN HDF5Init ELSE RestingHDF5
  /\ IF part = "calendar" THEN CalendarInit ELSE RestingCalendar

\* Where a component may rest for good: stopped, destroyed, out of statements
\* or items.  The processor's own Terminated says it for the processor.
Finished ==
  \/ part = "hdf5" /\ (phase = "stopped" \/ flush = "nullDereference")
  \/ part = "directory" /\ owner = "gone"
  \/ part = "archiver" /\ stopper = "returned"
  \/ part = "calendar" /\ reader \in {"completed", "stopped"}
  \/ part = "scan" /\ caller = "gone"
  \/ part = "annotation" /\ tried = DOMAIN items
  \/ part = "catalog" /\ Serial
  \/ part = "spill" /\ ended = Statements

named == <<vars, scanVars, annotationVars, dsVars, catalogVars, spillVars, archiverVars,
           hdf5Vars, calendarVars>>

FamilyNext ==
  /\ UNCHANGED part
  /\ \/ /\ part = "processor" /\ Next
        /\ UNCHANGED <<scanVars, annotationVars, dsVars, catalogVars, spillVars, archiverVars,
                       hdf5Vars, calendarVars>>
     \/ /\ part = "scan" /\ ScanNext
        /\ UNCHANGED <<vars, annotationVars, dsVars, catalogVars, spillVars, archiverVars,
                       hdf5Vars, calendarVars>>
     \/ /\ part = "annotation" /\ AnnotationNext
        /\ UNCHANGED <<vars, scanVars, dsVars, catalogVars, spillVars, archiverVars, hdf5Vars,
                       calendarVars>>
     \/ /\ part = "directory" /\ DirectoryNext
        /\ UNCHANGED <<vars, scanVars, annotationVars, catalogVars, spillVars, archiverVars,
                       hdf5Vars, calendarVars>>
     \/ /\ part = "catalog" /\ CatalogNext
        /\ UNCHANGED <<vars, scanVars, annotationVars, dsVars, spillVars, archiverVars, hdf5Vars,
                       calendarVars>>
     \/ /\ part = "spill" /\ SpillNext
        /\ UNCHANGED <<vars, scanVars, annotationVars, dsVars, catalogVars, archiverVars, hdf5Vars,
                       calendarVars>>
     \/ /\ part = "archiver" /\ ArchiverNext
        /\ UNCHANGED <<vars, scanVars, annotationVars, dsVars, catalogVars, spillVars, hdf5Vars,
                       calendarVars>>
     \/ /\ part = "hdf5" /\ HDF5Next
        /\ UNCHANGED <<vars, scanVars, annotationVars, dsVars, catalogVars, spillVars, archiverVars,
                       calendarVars>>
     \/ /\ part = "calendar" /\ CalendarNext
        /\ UNCHANGED <<vars, scanVars, annotationVars, dsVars, catalogVars, spillVars, archiverVars,
                       hdf5Vars>>
     \/ Finished /\ UNCHANGED named

FamilySpec == FamilyInit /\ [][FamilyNext]_<<part, named>>
=============================================================================
