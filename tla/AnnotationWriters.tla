------------------------- MODULE AnnotationWriters --------------------------
(***************************************************************************)
(* The two writers that keep records of the annotation service up to date: *)
(* the PV metadata writer and the configuration writer.  Both take one     *)
(* item at a time from a queue of BaseQueuedWriter, read the record that   *)
(* the service holds, merge the item into it and save the result.  The     *)
(* configuration writer pins a record to a worker with itemRoutingKey();   *)
(* the metadata writer deals its items out in turn.                        *)
(*                                                                         *)
(* A record is a set of fields: the attributes, and the optional parts     *)
(* (aliases, tags, description, modified_by, parent), whose rule is the    *)
(* same: the item's value if it has one, else the value on record.  The    *)
(* value of a field is the number of the item that set it.  An attribute   *)
(* may be given empty, which removes it from the metadata record (the      *)
(* EPICS DS reader does that for a column it could not read).              *)
(***************************************************************************)
EXTENDS Naturals, Sequences, FiniteSets, FiniteSetsExt

CONSTANTS
  Records,        \* PV or configuration names, each given as its hash
  Fields,         \* field names of a record
  WriterConfigs,  \* [kind, workers]: the writer and its thread-pool
  MaxItems,       \* bound: items pushed
  MaxRpcFaults    \* bound: calls of the service that fail

VARIABLES
  writer,         \* the configuration in use
  items,          \* every item pushed, in order: [record, type, sets, blanks]
  backlog,        \* worker -> its queue of item numbers
  inHand,         \* worker -> [item, existing, blind], item 0: idle
  service,        \* record -> field -> item number, 0: no such field
  tried,          \* history: the items a worker is done with
  saved,          \* history: the items the service has applied
  blindAt,        \* history: record -> last item saved without the old record
  rpcFaults       \* calls that failed so far

annotationVars == <<writer, items, backlog, inHand, service, tried, saved, blindAt, rpcFaults>>

NoValue    == 0
NoField == [f \in Fields |-> NoValue]
EmptyHand    == [item |-> 0, existing |-> NoField, blind |-> FALSE]
Workers == 1 .. writer.workers

AnnotationInit ==
  /\ writer \in WriterConfigs
  /\ items = <<>>
  /\ backlog = [w \in Workers |-> <<>>]
  /\ inHand = [w \in Workers |-> EmptyHand]
  /\ service = [r \in Records |-> NoField]
  /\ tried = {} /\ saved = {} /\ blindAt = [r \in Records |-> 0]
  /\ rpcFaults = 0

\* Defect: configurations have no routing key.
RouteInTurn(r) == (Len(items) % writer.workers) + 1

\* itemRoutingKey(): std::hash of the name, or none and the next worker in turn.
Route(r) ==
  LET ticket == IF writer.kind = "configuration" THEN r ELSE Len(items)
  IN  (ticket % writer.workers) + 1

\* toItems(): each source of the payload, or the one configuration, is an item.
PushItem(r, type, sets, blanks) ==
  /\ Len(items) < MaxItems
  /\ writer.kind = "configuration" => blanks = {}
  /\ type = "activation" => writer.kind = "configuration" /\ sets = {}
  /\ sets \cap blanks = {}
  /\ items' = Append(items, [record |-> r, type |-> type, sets |-> sets, blanks |-> blanks])
  /\ backlog' = [backlog EXCEPT ![Route(r)] = Append(@, Len(items) + 1)]
  /\ UNCHANGED <<writer, inHand, service, tried, saved, blindAt, rpcFaults>>

\* fetchExistingPvMetadata() and fetchExistingConfiguration(): a record that
\* is not there and a call that failed look the same to the caller.
FetchExisting(w) ==
  /\ inHand[w].item = 0 /\ backlog[w] # <<>>
  /\ items[Head(backlog[w])].type = "record"
  /\ LET n == Head(backlog[w])
     IN  \/ /\ inHand' = [inHand EXCEPT ![w] =
                 [item |-> n, existing |-> service[items[n].record], blind |-> FALSE]]
            /\ UNCHANGED rpcFaults
         \/ /\ rpcFaults < MaxRpcFaults /\ rpcFaults' = rpcFaults + 1
            /\ inHand' = [inHand EXCEPT ![w] = [item |-> n, existing |-> NoField, blind |-> TRUE]]
  /\ backlog' = [backlog EXCEPT ![w] = Tail(@)]
  /\ UNCHANGED <<writer, items, service, tried, saved, blindAt>>

\* The request: the old record as base, the item's fields over it, and no
\* field that ends up empty.
Merged(existing, n) ==
  [f \in Fields |-> IF f \in items[n].sets THEN n
                    ELSE IF f \in items[n].blanks THEN NoValue ELSE existing[f]]

\* A call of the service: it is applied, or it fails and is counted and
\* dropped, and the service may have applied it all the same.
Called(Apply, Ignore) ==
  \/ Apply /\ UNCHANGED rpcFaults
  \/ rpcFaults < MaxRpcFaults /\ rpcFaults' = rpcFaults + 1 /\ (Apply \/ Ignore)

\* savePvMetadata() and saveConfiguration() replace the record.
Save(w) ==
  /\ inHand[w].item # 0
  /\ LET n == inHand[w].item
         r == items[n].record
     IN  Called(/\ service' = [service EXCEPT ![r] = Merged(inHand[w].existing, n)]
                /\ saved' = saved \cup {n}
                /\ blindAt' = [blindAt EXCEPT ![r] = IF inHand[w].blind THEN n ELSE @],
                UNCHANGED <<service, saved, blindAt>>)
  /\ tried' = tried \cup {inHand[w].item}
  /\ inHand' = [inHand EXCEPT ![w] = EmptyHand]
  /\ UNCHANGED <<writer, items, backlog>>

\* doSaveConfigurationActivation(): nothing is read first, and the record of
\* the configuration is left alone.
SaveActivation(w) ==
  /\ inHand[w].item = 0 /\ backlog[w] # <<>>
  /\ items[Head(backlog[w])].type = "activation"
  /\ Called(saved' = saved \cup {Head(backlog[w])}, UNCHANGED saved)
  /\ tried' = tried \cup {Head(backlog[w])}
  /\ backlog' = [backlog EXCEPT ![w] = Tail(@)]
  /\ UNCHANGED <<writer, items, inHand, service, blindAt>>

AnnotationNext ==
  \/ \E r \in Records, type \in {"record", "activation"}, sets, blanks \in SUBSET Fields :
       PushItem(r, type, sets, blanks)
  \/ \E w \in Workers : FetchExisting(w) \/ Save(w) \/ SaveActivation(w)

AnnotationSpec == AnnotationInit /\ [][AnnotationNext]_annotationVars

-----------------------------------------------------------------------------

\* The items the service applied to record r that say something about field
\* f, as far back as the last save made without seeing the old record.
Speaks(r, f) == {n \in saved : /\ items[n].record = r /\ n >= blindAt[r]
                               /\ f \in items[n].sets \cup items[n].blanks}

\* Every field of a record is what the newest saved item says of it: a save
\* never undoes a field that another item set, whatever the workers do in
\* between (the fetch, merge and save of saveSourceMetadata and
\* doSaveConfiguration).  Only a failed fetch, which passes for an absent
\* record, cuts the history short.
FieldsKept ==
  \A r \in Records, f \in Fields :
    LET speaks == Speaks(r, f)
    IN  service[r][f] = IF speaks = {} \/ f \in items[Max(speaks)].blanks
                        THEN NoValue ELSE Max(speaks)

\* The fields are kept, and items of one record are tried in the order of
\* their push, so that an activation never overtakes its configuration
\* (itemRoutingKey of the configuration writer).
RecordsMerged ==
  /\ FieldsKept
  /\ \A n \in tried : \A m \in 1 .. n - 1 :
       items[m].record = items[n].record => m \in tried
=============================================================================
