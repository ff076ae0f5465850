---------------------------- MODULE WriterProofs -----------------------------
(***************************************************************************)
(* Theorems about the writers behind the event bus that have a module of   *)
(* their own: the annotation writers and the HDF5 writers.                 *)
(*                                                                         *)
(* The annotation writers.  A writer that keeps each record on one worker  *)
(* merges its items: no save undoes a field another item set, and the      *)
(* items of a record are tried in the order of their push, for any records,*)
(* fields, workers and items and any number of failing calls.  Every item  *)
(* has one worker that may ever touch it, its Home.  Homes take their      *)
(* items in the order of their push, so the record that a worker fetched   *)
(* is still the record on the service when it saves.                       *)
(*                                                                         *)
(* The HDF5 writers.  Their files are sound, for any limits, batches and   *)
(* failures.  The invariant, FileIInv, says where a half-written batch can *)
(* be (the open file of its source, never a file about to be closed whole),*)
(* that the tabular buffer holds one row of one round, and when the merge  *)
(* writer can be without a file.                                           *)
(*                                                                         *)
(* No value the HDF5 writers took disappears or is counted twice: the      *)
(* batch in hand, the buffer, a cell of a file or a named loss holds it.   *)
(* AccountInv says so of each value, and where the front of the buffer may *)
(* be on disk too: in the groups a failing flush tore.                     *)
(***************************************************************************)
EXTENDS AnnotationWriters, HDF5Writer, FiniteSetTheorems, SequenceTheorems, TLAPS

\* A routing key, or one worker: the configuration writer, and the metadata
\* writer with a thread-pool of one.
Pinned ==
  /\ Records \subseteq Nat
  /\ \A c \in WriterConfigs :
       c.workers \in Nat \ {0} /\ (c.kind = "configuration" \/ c.workers = 1)

Entries == [record : Records, type : {"record", "activation"},
            sets : SUBSET Fields, blanks : SUBSET Fields]
Values  == [Fields -> Nat]
Hands   == [item : Nat, existing : Values, blind : BOOLEAN]

\* The worker of a record, and of an item.
HomeOf(r) == IF writer.kind = "configuration" THEN (r % writer.workers) + 1 ELSE 1
Home(n)   == HomeOf(items[n].record)

\* Types, and what is known of an item that has been pushed.
Types ==
  /\ writer \in WriterConfigs
  /\ items \in Seq(Entries)
  /\ backlog \in [Workers -> Seq(Nat)]
  /\ inHand \in [Workers -> Hands]
  /\ service \in [Records -> Values]
  /\ tried \subseteq DOMAIN items /\ saved \subseteq tried
  /\ blindAt \in [Records -> Nat]

\* An item sets a field or blanks it, and an activation does neither.
ItemInv ==
  \A n \in DOMAIN items :
    /\ items[n].sets \cap items[n].blanks = {}
    /\ items[n].type = "activation" => items[n].sets = {} /\ items[n].blanks = {}

\* A worker's queue holds untried items of its own, oldest first and after the
\* one in its hand.
BacklogInv ==
  \A w \in Workers :
    /\ \A i \in DOMAIN backlog[w] :
         /\ backlog[w][i] \in DOMAIN items
         /\ Home(backlog[w][i]) = w
         /\ backlog[w][i] \notin tried
         /\ inHand[w].item < backlog[w][i]
    /\ \A i, j \in DOMAIN backlog[w] : i < j => backlog[w][i] < backlog[w][j]

\* What a worker has in its hand is its own and untried, and the record it
\* fetched is the one the service has.
HandInv ==
  \A w \in Workers : inHand[w].item # 0 =>
    /\ inHand[w].item \in DOMAIN items
    /\ Home(inHand[w].item) = w
    /\ inHand[w].item \notin tried
    /\ ~inHand[w].blind => inHand[w].existing = service[items[inHand[w].item].record]
    /\ inHand[w].blind => inHand[w].existing = NoField

\* No item is lost: it has been tried, or its worker has it.
WhereInv ==
  \A n \in DOMAIN items :
    \/ n \in tried
    \/ n = inHand[Home(n)].item
    \/ \E i \in DOMAIN backlog[Home(n)] : backlog[Home(n)][i] = n

\* A worker tries its items in the order of their push.
OrderInv ==
  \A n \in tried : \A m \in DOMAIN items : m < n /\ Home(m) = Home(n) => m \in tried

\* A save without the old record is one of the saves of that record.
BlindInv ==
  \A r \in Records : blindAt[r] # 0 => blindAt[r] \in saved /\ items[blindAt[r]].record = r

\* A field is what the newest saved item that speaks of it says, and there is a
\* newest one.
FieldInv ==
  \A r \in Records, f \in Fields :
    \/ Speaks(r, f) = {} /\ service[r][f] = NoValue
    \/ \E n \in Speaks(r, f) :
         /\ \A m \in Speaks(r, f) : m <= n
         /\ service[r][f] = IF f \in items[n].blanks THEN NoValue ELSE n

IInv == /\ Types /\ ItemInv /\ BacklogInv /\ HandInv /\ WhereInv /\ OrderInv
        /\ BlindInv /\ FieldInv

-----------------------------------------------------------------------------
(* Facts about the operators. *)

\* The newest of a set of items, when one is known to be newer than the rest.
LEMMA MaxIs == ASSUME NEW S \in SUBSET Nat, NEW n \in S, \A m \in S : m <= n
               PROVE  Max(S) = n
<1>1. \A x \in S : (\A y \in S : x >= y) => x = n
  OBVIOUS
<1>2. n \in S /\ \A y \in S : n >= y
  OBVIOUS
<1> QED
  BY <1>1, <1>2 DEF Max

\* Append to a queue.
LEMMA AppendIs ==
  ASSUME NEW s \in Seq(Nat), NEW k \in Nat
  PROVE  /\ Len(s) \in Nat /\ DOMAIN s = 1 .. Len(s)
         /\ DOMAIN Append(s, k) = DOMAIN s \cup {Len(s) + 1}
         /\ Append(s, k)[Len(s) + 1] = k
         /\ \A i \in DOMAIN s : Append(s, k)[i] = s[i]
OBVIOUS

\* Taking the head of a queue.
LEMMA TailIs ==
  ASSUME NEW s \in Seq(Nat), s # <<>>
  PROVE  /\ 1 \in DOMAIN s /\ Head(s) = s[1] /\ Tail(s) \in Seq(Nat)
         /\ \A i \in DOMAIN Tail(s) : i \in Nat \ {0} /\ i + 1 \in DOMAIN s /\ Tail(s)[i] = s[i + 1]
         /\ \A j \in DOMAIN s : /\ j \in Nat \ {0}
                                /\ j # 1 => j - 1 \in DOMAIN Tail(s) /\ Tail(s)[j - 1] = s[j]
<1>1. Len(s) \in Nat \ {0} /\ DOMAIN s = 1 .. Len(s)
  OBVIOUS
<1>2. /\ Tail(s) \in Seq(Nat) /\ Len(Tail(s)) = Len(s) - 1
      /\ \A i \in 1 .. Len(s) - 1 : Tail(s)[i] = s[i + 1]
  OBVIOUS
<1>3. DOMAIN Tail(s) = 1 .. Len(s) - 1
  BY <1>1, <1>2
<1> QED
  BY <1>1, <1>2, <1>3

\* A pinned writer routes an item to the worker of its record, and there is one.
LEMMA RouteIsHome ==
  ASSUME Pinned, Types, NEW r \in Records
  PROVE  Route(r) = HomeOf(r) /\ HomeOf(r) \in Workers /\ Workers \subseteq Nat \ {0}
<1>1. writer.workers \in Nat \ {0} /\ (writer.kind = "configuration" \/ writer.workers = 1)
  BY DEF Pinned, Types
<1>2. r \in Nat /\ Len(items) \in Nat
  BY DEF Pinned, Types
<1>3. \A a, b \in Nat : b # 0 => (a % b) + 1 \in 1 .. b
  OBVIOUS
<1>4. \A a \in Nat : a % 1 = 0
  OBVIOUS
<1>5. CASE writer.kind = "configuration"
  BY <1>1, <1>2, <1>3, <1>5 DEF Route, HomeOf, Workers
<1>6. CASE writer.kind # "configuration"
  BY <1>1, <1>2, <1>4, <1>6 DEF Route, HomeOf, Workers
<1> QED
  BY <1>5, <1>6

\* The home of an item is a worker.
LEMMA HomeIsWorker ==
  ASSUME Pinned, Types, NEW n \in DOMAIN items
  PROVE  Home(n) \in Workers /\ items[n] \in Entries /\ items[n].record \in Records /\ n \in Nat \ {0}
<1>1. items[n] \in Entries /\ n \in Nat \ {0}
  BY DEF Types
<1>2. items[n].record \in Records
  BY <1>1 DEF Entries
<1> QED
  BY <1>1, <1>2, RouteIsHome DEF Home

\* What a worker has in its hand is newer than every item of its that was tried.
LEMMA HandIsNewest ==
  ASSUME Types, OrderInv, NEW n \in DOMAIN items, n \notin tried,
         NEW m \in tried, Home(m) = Home(n)
  PROVE  m < n
<1>1. m \in DOMAIN items /\ m \in Nat /\ n \in Nat
  BY DEF Types
<1>2. m # n /\ ~(n < m)
  BY <1>1 DEF OrderInv
<1> QED
  BY <1>1, <1>2

-----------------------------------------------------------------------------
\* Nothing has been pushed.
LEMMA InitHolds == ASSUME Pinned, AnnotationInit PROVE IInv
<1>1. DOMAIN items = {} /\ items = <<>> /\ items \in Seq(Entries)
  BY DEF AnnotationInit
<1>2. NoField \in Values /\ EmptyHand \in Hands /\ EmptyHand.item = 0
  BY DEF NoField, Values, EmptyHand, Hands, NoValue
<1>3. Types
  BY <1>1, <1>2 DEF AnnotationInit, Types
<1>4. ItemInv /\ WhereInv /\ OrderInv /\ BlindInv
  BY <1>1 DEF AnnotationInit, ItemInv, WhereInv, OrderInv, BlindInv
<1>5. BacklogInv
  <2>1. \A w \in Workers : backlog[w] = <<>> /\ DOMAIN backlog[w] = {}
    BY DEF AnnotationInit
  <2> QED
    BY <2>1 DEF BacklogInv
<1>6. HandInv
  BY <1>2 DEF AnnotationInit, HandInv
<1>7. FieldInv
  <2>1. \A r \in Records, f \in Fields : Speaks(r, f) = {}
    BY DEF AnnotationInit, Speaks
  <2>2. \A r \in Records, f \in Fields : service[r][f] = NoValue
    BY DEF AnnotationInit, NoField
  <2> QED
    BY <2>1, <2>2 DEF FieldInv
<1> QED
  BY <1>3, <1>4, <1>5, <1>6, <1>7 DEF IInv

-----------------------------------------------------------------------------
(* The steps. *)

\* push() gives an item to the worker of its record.
LEMMA PushStep ==
  ASSUME Pinned, IInv, NEW r \in Records, NEW type \in {"record", "activation"},
         NEW sets \in SUBSET Fields, NEW blanks \in SUBSET Fields,
         PushItem(r, type, sets, blanks)
  PROVE  IInv'
<1> DEFINE e == [record |-> r, type |-> type, sets |-> sets, blanks |-> blanks]
<1> PICK k : k = Len(items) + 1
  OBVIOUS
<1> PICK h : h = HomeOf(r)
  OBVIOUS
<1>t. Types /\ ItemInv /\ BacklogInv /\ HandInv /\ WhereInv /\ OrderInv /\ BlindInv /\ FieldInv
  BY DEF IInv
<1>1. /\ items' = Append(items, e)
      /\ backlog' = [backlog EXCEPT ![h] = Append(@, k)]
      /\ writer' = writer /\ inHand' = inHand /\ service' = service /\ tried' = tried
      /\ saved' = saved /\ blindAt' = blindAt
      /\ sets \cap blanks = {}
      /\ type = "activation" => sets = {} /\ blanks = {}
  BY <1>t, RouteIsHome DEF PushItem
<1>2. e \in Entries /\ e.record = r /\ e.type = type /\ e.sets = sets /\ e.blanks = blanks
  BY DEF Entries
<1> HIDE DEF e
<1>3. items \in Seq(Entries) /\ Len(items) \in Nat /\ DOMAIN items = 1 .. Len(items)
  BY <1>t DEF Types
<1>4. /\ items' \in Seq(Entries) /\ k \in Nat \ {0} /\ k \notin DOMAIN items
      /\ DOMAIN items' = DOMAIN items \cup {k}
      /\ items'[k] = e
      /\ \A n \in DOMAIN items : items'[n] = items[n] /\ n < k /\ n \in Nat \ {0}
  BY <1>1, <1>2, <1>3
<1>5. Workers' = Workers /\ h \in Workers /\ \A q : HomeOf(q)' = HomeOf(q)
  BY <1>1, <1>t, RouteIsHome DEF Workers, HomeOf
<1>6. Home(k)' = h /\ \A n \in DOMAIN items : Home(n)' = Home(n)
  BY <1>1, <1>2, <1>4 DEF Home, HomeOf
<1>7. backlog \in [Workers -> Seq(Nat)] /\ inHand \in [Workers -> Hands]
  BY <1>t DEF Types
<1>8. /\ backlog' \in [Workers -> Seq(Nat)]
      /\ backlog'[h] = Append(backlog[h], k)
      /\ \A w \in Workers : w # h => backlog'[w] = backlog[w]
  BY <1>1, <1>4, <1>5, <1>7
<1>9. /\ DOMAIN backlog'[h] = DOMAIN backlog[h] \cup {Len(backlog[h]) + 1}
      /\ Len(backlog[h]) \in Nat /\ DOMAIN backlog[h] = 1 .. Len(backlog[h])
      /\ backlog'[h][Len(backlog[h]) + 1] = k
      /\ \A i \in DOMAIN backlog[h] : backlog'[h][i] = backlog[h][i]
  <2>1. backlog[h] \in Seq(Nat)
    BY <1>5, <1>7
  <2> QED
    BY <1>4, <1>8, <2>1, AppendIs, SMTT(30)
<1>10. Types'
  BY <1>t, <1>1, <1>4, <1>5, <1>8 DEF Types
<1>11. ItemInv'
  BY <1>t, <1>1, <1>2, <1>4 DEF ItemInv
<1>12. HandInv'
  <2> SUFFICES ASSUME NEW w \in Workers, inHand[w].item # 0
               PROVE  HandInv!(w)!2'
    BY <1>1, <1>5 DEF HandInv, NoField
  <2>1. inHand[w].item \in DOMAIN items
    BY <1>t DEF HandInv
  <2> QED
    BY <1>t, <1>1, <1>4, <1>6, <2>1 DEF HandInv, NoField
<1>13. \A w \in Workers : inHand[w].item < k
  <2>1. \A w \in Workers : inHand[w].item = 0 \/ inHand[w].item \in DOMAIN items
    BY <1>t DEF HandInv
  <2> QED
    BY <2>1, <1>4
<1>14. BacklogInv'
  <2>1. ASSUME NEW w \in Workers, NEW i \in DOMAIN backlog'[w]
        PROVE  /\ backlog'[w][i] \in DOMAIN items'
               /\ (Home(backlog[w][i]) = w)'
               /\ backlog'[w][i] \notin tried
               /\ inHand[w].item < backlog'[w][i]
    <3>1. CASE w = h /\ i = Len(backlog[h]) + 1
      BY <1>t, <1>4, <1>6, <1>9, <1>13, <3>1 DEF Types
    <3>2. CASE ~(w = h /\ i = Len(backlog[h]) + 1)
      <4>1. i \in DOMAIN backlog[w] /\ backlog'[w][i] = backlog[w][i]
        BY <1>8, <1>9, <2>1, <3>2
      <4>2. /\ backlog[w][i] \in DOMAIN items /\ Home(backlog[w][i]) = w
            /\ backlog[w][i] \notin tried /\ inHand[w].item < backlog[w][i]
        BY <1>t, <2>1, <4>1 DEF BacklogInv
      <4> QED
        BY <1>4, <1>6, <4>1, <4>2
    <3> QED
      BY <3>1, <3>2
  <2>2. ASSUME NEW w \in Workers, NEW i \in DOMAIN backlog'[w], NEW j \in DOMAIN backlog'[w], i < j
        PROVE  backlog'[w][i] < backlog'[w][j]
    <3>1. CASE w # h
      BY <1>t, <1>8, <2>2, <3>1 DEF BacklogInv
    <3>2. CASE w = h
      <4>1. i \in DOMAIN backlog[w] /\ backlog'[w][i] = backlog[w][i]
        BY <1>9, <2>2, <3>2
      <4>2. backlog[w][i] \in DOMAIN items
        BY <1>t, <2>2, <4>1 DEF BacklogInv
      <4>3. CASE j \in DOMAIN backlog[w]
        BY <1>t, <1>9, <2>2, <3>2, <4>1, <4>3 DEF BacklogInv
      <4>4. CASE j \notin DOMAIN backlog[w]
        BY <1>4, <1>9, <2>2, <3>2, <4>1, <4>2, <4>4
      <4> QED
        BY <4>3, <4>4
    <3> QED
      BY <3>1, <3>2
  <2> QED
    BY <1>1, <1>5, <2>1, <2>2 DEF BacklogInv
<1>15. WhereInv'
  <2> SUFFICES ASSUME NEW n \in DOMAIN items'
               PROVE  \/ n \in tried
                      \/ n = inHand[Home(n)'].item
                      \/ \E i \in DOMAIN backlog'[Home(n)'] : backlog'[Home(n)'][i] = n
    BY <1>1 DEF WhereInv
  <2>1. CASE n = k
    BY <1>6, <1>9, <2>1
  <2>2. CASE n \in DOMAIN items
    <3>1. Home(n) \in Workers
      BY <1>t, <2>2, HomeIsWorker
    <3>2. \A i \in DOMAIN backlog[Home(n)] : i \in DOMAIN backlog'[Home(n)] /\ backlog'[Home(n)][i] = backlog[Home(n)][i]
      BY <1>8, <1>9, <3>1
    <3> QED
      BY <1>t, <1>6, <2>2, <3>2 DEF WhereInv
  <2> QED
    BY <1>4, <2>1, <2>2
<1>16. OrderInv'
  <2>1. tried \subseteq DOMAIN items
    BY <1>t DEF Types
  <2>2. ASSUME NEW n \in tried, NEW m \in DOMAIN items', m < n, Home(m)' = Home(n)'
        PROVE  m \in tried
    <3>1. n \in DOMAIN items /\ n < k /\ n \in Nat
      BY <1>4, <2>1
    <3>2. m \in DOMAIN items
      BY <1>4, <2>2, <3>1
    <3> QED
      BY <1>t, <1>6, <2>2, <3>1, <3>2 DEF OrderInv
  <2> QED
    BY <1>1, <2>2 DEF OrderInv
<1>17. saved \subseteq DOMAIN items
  BY <1>t DEF Types
<1>18. BlindInv'
  BY <1>t, <1>1, <1>4, <1>17 DEF BlindInv
<1>19. FieldInv'
  <2>1. \A q, f : Speaks(q, f)' = Speaks(q, f)
    BY <1>1, <1>4, <1>17 DEF Speaks
  <2>2. \A q, f : Speaks(q, f) \subseteq DOMAIN items
    BY <1>17 DEF Speaks
  <2> QED
    BY <1>t, <1>1, <1>4, <2>1, <2>2 DEF FieldInv, NoValue
<1> QED
  BY <1>10, <1>11, <1>12, <1>14, <1>15, <1>16, <1>18, <1>19 DEF IInv

\* The oldest item of a queue is the oldest untried one of its worker.
LEMMA HeadIsOldest ==
  ASSUME Pinned, IInv, NEW w \in Workers, inHand[w].item = 0, backlog[w] # <<>>
  PROVE  /\ Head(backlog[w]) \in DOMAIN items /\ Head(backlog[w]) \notin tried
         /\ Home(Head(backlog[w])) = w
         /\ \A m \in DOMAIN items : m < Head(backlog[w]) /\ Home(m) = w => m \in tried
<1>t. Types /\ BacklogInv /\ WhereInv
  BY DEF IInv
<1>1. backlog[w] \in Seq(Nat)
  BY <1>t DEF Types
<1>2. 1 \in DOMAIN backlog[w] /\ Head(backlog[w]) = backlog[w][1]
  BY <1>1, TailIs
<1>3. Head(backlog[w]) \in DOMAIN items /\ Head(backlog[w]) \notin tried /\ Home(Head(backlog[w])) = w
  BY <1>t, <1>2 DEF BacklogInv
<1>4. ASSUME NEW m \in DOMAIN items, m < Head(backlog[w]), Home(m) = w, m \notin tried
      PROVE  FALSE
  <2>1. m \in Nat \ {0} /\ Head(backlog[w]) \in Nat
    BY <1>t, <1>3 DEF Types
  <2>2. PICK i \in DOMAIN backlog[w] : backlog[w][i] = m
    BY <1>t, <1>4, <2>1 DEF WhereInv
  <2>3. i = 1 \/ 1 < i
    BY <1>1, TailIs
  <2>4. 1 < i => backlog[w][1] < backlog[w][i]
    BY <1>t, <1>2 DEF BacklogInv
  <2> QED
    BY <1>2, <1>4, <2>1, <2>2, <2>3, <2>4
<1> QED
  BY <1>3, <1>4

\* What a worker holds is the oldest untried one of its items.
LEMMA HandIsOldest ==
  ASSUME Pinned, IInv, NEW w \in Workers, inHand[w].item # 0
  PROVE  \A m \in DOMAIN items : m < inHand[w].item /\ Home(m) = w => m \in tried
<1>t. Types /\ BacklogInv /\ WhereInv /\ HandInv
  BY DEF IInv
<1> SUFFICES ASSUME NEW m \in DOMAIN items, m < inHand[w].item, Home(m) = w, m \notin tried
             PROVE  FALSE
  OBVIOUS
<1>1. m \in Nat /\ inHand[w].item \in Nat
  BY <1>t DEF Types, HandInv
<1>2. PICK i \in DOMAIN backlog[w] : backlog[w][i] = m
  BY <1>t, <1>1 DEF WhereInv
<1>3. inHand[w].item < m
  BY <1>t, <1>2 DEF BacklogInv
<1> QED
  BY <1>1, <1>3

\* Trying the oldest untried item of a worker keeps the order.
LEMMA TriedInOrder ==
  ASSUME Types, OrderInv, NEW n \in DOMAIN items,
         \A m \in DOMAIN items : m < n /\ Home(m) = Home(n) => m \in tried,
         tried' = tried \cup {n}, items' = items, writer' = writer
  PROVE  OrderInv'
<1>1. \A m : Home(m)' = Home(m)
  BY DEF Home, HomeOf
<1>2. ASSUME NEW k \in tried', NEW m \in DOMAIN items, m < k, Home(m) = Home(k)
      PROVE  m \in tried'
  <2>1. CASE k = n
    BY <1>2, <2>1
  <2>2. CASE k \in tried
    BY <1>2, <2>2 DEF OrderInv
  <2> QED
    BY <2>1, <2>2
<1> QED
  BY <1>1, <1>2 DEF OrderInv

\* The fetch: the item is taken and the record read, or the call fails.
LEMMA FetchStep ==
  ASSUME Pinned, IInv, NEW w \in Workers, FetchExisting(w)
  PROVE  IInv'
<1> PICK n : n = Head(backlog[w])
  OBVIOUS
<1>t. Types /\ ItemInv /\ BacklogInv /\ HandInv /\ WhereInv /\ OrderInv /\ BlindInv /\ FieldInv
  BY DEF IInv
<1>1. /\ inHand[w].item = 0 /\ backlog[w] # <<>>
      /\ backlog' = [backlog EXCEPT ![w] = Tail(@)]
      /\ writer' = writer /\ items' = items /\ service' = service /\ tried' = tried
      /\ saved' = saved /\ blindAt' = blindAt
  BY DEF FetchExisting
<1>2. PICK g : /\ inHand' = [inHand EXCEPT ![w] = g]
               /\ \/ g = [item |-> n, existing |-> service[items[n].record], blind |-> FALSE]
                  \/ g = [item |-> n, existing |-> NoField, blind |-> TRUE]
  BY DEF FetchExisting
<1>3. n \in DOMAIN items /\ n \notin tried /\ Home(n) = w /\ n \in Nat \ {0} /\ items[n].record \in Records
  BY <1>t, <1>1, HeadIsOldest, HomeIsWorker
<1>4. /\ g \in Hands /\ g.item = n
      /\ ~g.blind => g.existing = service[items[n].record]
      /\ g.blind => g.existing = NoField
  <2>1. service[items[n].record] \in Values /\ NoField \in Values
    BY <1>t, <1>3 DEF Types, NoField, NoValue, Values
  <2>2. PICK x \in Values, b \in BOOLEAN :
          /\ g = [item |-> n, existing |-> x, blind |-> b]
          /\ x = IF b THEN NoField ELSE service[items[n].record]
    BY <1>2, <2>1
  <2> QED
    BY <1>3, <2>2 DEF Hands
<1>5. Workers' = Workers /\ \A m : Home(m)' = Home(m)
  BY <1>1 DEF Workers, Home, HomeOf
<1>6. backlog \in [Workers -> Seq(Nat)] /\ inHand \in [Workers -> Hands] /\ backlog[w] \in Seq(Nat)
  BY <1>t DEF Types
<1>7. /\ 1 \in DOMAIN backlog[w] /\ n = backlog[w][1]
      /\ backlog' \in [Workers -> Seq(Nat)] /\ inHand' \in [Workers -> Hands]
      /\ inHand'[w] = g
      /\ \A v \in Workers : v # w => backlog'[v] = backlog[v] /\ inHand'[v] = inHand[v]
      /\ \A i \in DOMAIN backlog'[w] :
           i \in Nat \ {0} /\ i + 1 \in DOMAIN backlog[w] /\ backlog'[w][i] = backlog[w][i + 1]
      /\ \A j \in DOMAIN backlog[w] :
           j # 1 => j - 1 \in DOMAIN backlog'[w] /\ backlog'[w][j - 1] = backlog[w][j]
  <2>1. backlog'[w] = Tail(backlog[w])
    BY <1>1, <1>6
  <2>2. /\ 1 \in DOMAIN backlog[w] /\ n = backlog[w][1] /\ Tail(backlog[w]) \in Seq(Nat)
        /\ \A i \in DOMAIN backlog'[w] :
             i \in Nat \ {0} /\ i + 1 \in DOMAIN backlog[w] /\ backlog'[w][i] = backlog[w][i + 1]
        /\ \A j \in DOMAIN backlog[w] :
             j # 1 => j - 1 \in DOMAIN backlog'[w] /\ backlog'[w][j - 1] = backlog[w][j]
    BY <1>1, <1>6, <2>1, TailIs
  <2>3. /\ backlog' \in [Workers -> Seq(Nat)] /\ inHand' \in [Workers -> Hands]
        /\ inHand'[w] = g
        /\ \A v \in Workers : v # w => backlog'[v] = backlog[v] /\ inHand'[v] = inHand[v]
    BY <1>1, <1>2, <1>4, <1>6, <2>2
  <2> QED
    BY <2>2, <2>3
<1>10. Types'
  BY <1>t, <1>1, <1>5, <1>7 DEF Types
<1>11. ItemInv' /\ OrderInv' /\ BlindInv'
  BY <1>t, <1>1, <1>5 DEF ItemInv, OrderInv, BlindInv
<1>12. FieldInv'
  BY <1>t, <1>1 DEF FieldInv, Speaks, NoValue
<1>13. HandInv'
  <2> SUFFICES ASSUME NEW v \in Workers, inHand'[v].item # 0
               PROVE  HandInv!(v)!2'
    BY <1>5 DEF HandInv, NoField
  <2>1. CASE v = w
    BY <1>1, <1>3, <1>4, <1>5, <1>7, <2>1 DEF NoField
  <2>2. CASE v # w
    BY <1>t, <1>1, <1>5, <1>7, <2>2 DEF HandInv, NoField
  <2> QED
    BY <2>1, <2>2
<1>14. BacklogInv'
  <2>1. ASSUME NEW v \in Workers
        PROVE  BacklogInv!(v)'
    <3>1. CASE v = w
      <4>1. \A i \in DOMAIN backlog'[w] :
              LET m == backlog[w][i + 1]
              IN  m \in DOMAIN items /\ Home(m) = w /\ m \notin tried /\ n < m
        BY <1>t, <1>7 DEF BacklogInv
      <4>2. \A i, j \in DOMAIN backlog'[w] : i < j => backlog[w][i + 1] < backlog[w][j + 1]
        BY <1>t, <1>7 DEF BacklogInv
      <4> QED
        BY <1>1, <1>4, <1>5, <1>7, <3>1, <4>1, <4>2
    <3>2. CASE v # w
      <4>1. backlog'[v] = backlog[v] /\ inHand'[v].item = inHand[v].item
        BY <1>7, <3>2
      <4>2. BacklogInv!(v)
        BY <1>t DEF BacklogInv
      <4>3. items' = items /\ tried' = tried
        BY <1>1
      <4> QED
        BY <1>5, <4>1, <4>2, <4>3
    <3> QED
      BY <3>1, <3>2
  <2> QED
    BY <1>5, <2>1 DEF BacklogInv
<1>15. WhereInv'
  <2> SUFFICES ASSUME NEW m \in DOMAIN items, m \notin tried
               PROVE  \/ m = inHand'[Home(m)].item
                      \/ \E i \in DOMAIN backlog'[Home(m)] : backlog'[Home(m)][i] = m
    BY <1>1, <1>5 DEF WhereInv
  <2>1. m \in Nat \ {0} /\ Home(m) \in Workers
    BY <1>t, HomeIsWorker
  <2>2. CASE Home(m) # w
    BY <1>t, <1>7, <2>1, <2>2, SMTT(30) DEF WhereInv
  <2>3. CASE Home(m) = w
    <3>1. PICK j \in DOMAIN backlog[w] : backlog[w][j] = m
      BY <1>t, <1>1, <2>1, <2>3 DEF WhereInv
    <3>2. CASE j = 1
      BY <1>4, <1>7, <2>3, <3>1, <3>2
    <3>3. CASE j # 1
      BY <1>7, <2>3, <3>1, <3>3
    <3> QED
      BY <3>2, <3>3
  <2> QED
    BY <2>2, <2>3
<1> QED
  BY <1>10, <1>11, <1>12, <1>13, <1>14, <1>15 DEF IInv

\* The save, applied or not: the item leaves its worker's hand.
LEMMA SaveStep ==
  ASSUME Pinned, IInv, NEW w \in Workers, Save(w)
  PROVE  IInv'
<1> PICK n : n = inHand[w].item
  OBVIOUS
<1> PICK r : r = items[n].record
  OBVIOUS
<1>t. Types /\ ItemInv /\ BacklogInv /\ HandInv /\ WhereInv /\ OrderInv /\ BlindInv /\ FieldInv
  BY DEF IInv
<1>1. /\ n # 0
      /\ tried' = tried \cup {n}
      /\ inHand' = [inHand EXCEPT ![w] = EmptyHand]
      /\ writer' = writer /\ items' = items /\ backlog' = backlog
  BY DEF Save
<1>2. \/ /\ service' = [service EXCEPT ![r] = Merged(inHand[w].existing, n)]
         /\ saved' = saved \cup {n}
         /\ blindAt' = [blindAt EXCEPT ![r] = IF inHand[w].blind THEN n ELSE @]
      \/ service' = service /\ saved' = saved /\ blindAt' = blindAt
  BY DEF Save, Called
<1>3. n \in DOMAIN items /\ n \notin tried /\ Home(n) = w /\ n \in Nat \ {0} /\ r \in Records
  BY <1>t, <1>1, HomeIsWorker DEF HandInv
<1>4. Workers' = Workers /\ \A m : Home(m)' = Home(m)
  BY <1>1 DEF Workers, Home, HomeOf
<1>5. EmptyHand \in Hands /\ EmptyHand.item = 0
  BY DEF EmptyHand, Hands, Values, NoField, NoValue
<1>6. inHand \in [Workers -> Hands] /\ service \in [Records -> Values] /\ blindAt \in [Records -> Nat]
  BY <1>t DEF Types
<1>7. /\ inHand' \in [Workers -> Hands] /\ inHand'[w].item = 0
      /\ \A v \in Workers : v # w => inHand'[v] = inHand[v]
  BY <1>1, <1>5, <1>6
<1>8. /\ service' \in [Records -> Values] /\ blindAt' \in [Records -> Nat]
      /\ \A q \in Records : q # r => service'[q] = service[q] /\ blindAt'[q] = blindAt[q]
  <2>1. inHand[w] \in Hands /\ inHand[w].existing \in Values
    BY <1>6 DEF Hands
  <2>2. Merged(inHand[w].existing, n) \in Values
    BY <1>3, <2>1 DEF Merged, Values, NoValue
  <2>3. (IF inHand[w].blind THEN n ELSE blindAt[r]) \in Nat
    BY <1>3, <1>6
  <2> QED
    BY <1>2, <1>3, <1>6, <2>2, <2>3
<1>9. \A m \in tried : Home(m) = w => m < n
  BY <1>t, <1>3, HandIsNewest
<1>10. Types'
  BY <1>t, <1>1, <1>2, <1>3, <1>4, <1>7, <1>8 DEF Types
<1>11. ItemInv'
  BY <1>t, <1>1 DEF ItemInv
<1>12. OrderInv'
  <2>1. \A m \in DOMAIN items : m < n /\ Home(m) = Home(n) => m \in tried
    BY <1>1, <1>3, HandIsOldest
  <2> QED
    BY <1>t, <1>1, <1>3, <2>1, TriedInOrder
<1>13. HandInv'
  <2> SUFFICES ASSUME NEW v \in Workers, v # w, inHand[v].item # 0
               PROVE  HandInv!(v)!2'
    BY <1>4, <1>7 DEF HandInv, NoField
  <2>1. inHand[v].item \in DOMAIN items /\ Home(inHand[v].item) = v /\ inHand[v].item \notin tried
    BY <1>t DEF HandInv
  <2>2. items[inHand[v].item].record # r /\ items[inHand[v].item].record \in Records /\ inHand[v].item # n
    BY <1>t, <1>3, <2>1, HomeIsWorker DEF Home
  <2>3. service'[items[inHand[v].item].record] = service[items[inHand[v].item].record]
    BY <1>8, <2>2
  <2> QED
    BY <1>t, <1>1, <1>4, <1>7, <2>1, <2>2, <2>3 DEF HandInv, NoField
<1>14. BacklogInv'
  <2> SUFFICES ASSUME NEW v \in Workers
               PROVE  BacklogInv!(v)'
    BY <1>4 DEF BacklogInv
  <2>1. \A i \in DOMAIN backlog[v] :
          /\ backlog[v][i] \in DOMAIN items /\ Home(backlog[v][i]) = v
          /\ backlog[v][i] \notin tried /\ inHand[v].item < backlog[v][i]
    BY <1>t DEF BacklogInv
  <2>2. \A i \in DOMAIN backlog[v] : backlog[v][i] # n /\ inHand'[v].item < backlog[v][i]
    <3>1. CASE v = w
      <4>1. \A i \in DOMAIN backlog[v] : backlog[v][i] \in Nat \ {0}
        BY <1>t, <2>1 DEF Types
      <4> QED
        BY <1>3, <1>7, <2>1, <3>1, <4>1
    <3>2. CASE v # w
      BY <1>3, <1>7, <2>1, <3>2
    <3> QED
      BY <3>1, <3>2
  <2>3. \A i, j \in DOMAIN backlog[v] : i < j => backlog[v][i] < backlog[v][j]
    BY <1>t DEF BacklogInv
  <2> QED
    BY <1>1, <1>4, <2>1, <2>2, <2>3
<1>15. WhereInv'
  <2> SUFFICES ASSUME NEW m \in DOMAIN items, m \notin tried, m # n
               PROVE  \/ m = inHand'[Home(m)].item
                      \/ \E i \in DOMAIN backlog[Home(m)] : backlog[Home(m)][i] = m
    BY <1>1, <1>4 DEF WhereInv
  <2>1. Home(m) \in Workers
    BY <1>t, HomeIsWorker
  <2> QED
    BY <1>t, <1>7, <2>1 DEF WhereInv
<1>16. saved \subseteq tried /\ n \notin saved
  BY <1>t, <1>3 DEF Types
<1>17. BlindInv'
  BY <1>t, <1>1, <1>2, <1>3, <1>6, <1>16 DEF BlindInv
<1>18. \A m \in saved : items[m].record = r => m < n /\ m \in Nat
  <2>1. \A m \in saved : m \in tried /\ m \in DOMAIN items /\ m \in Nat
    BY <1>16, <1>t DEF Types
  <2>2. \A m \in saved : items[m].record = r => Home(m) = Home(n)
    BY DEF Home
  <2> QED
    BY <1>3, <1>9, <2>1, <2>2
<1>19. blindAt[r] < n /\ blindAt[r] \in Nat
  BY <1>t, <1>3, <1>6, <1>18 DEF BlindInv
<1>20. FieldInv'
  <2> SUFFICES ASSUME NEW q \in Records, NEW f \in Fields
               PROVE  FieldInv!(q, f)'
    BY DEF FieldInv
  <2>0. FieldInv!(q, f)
    BY <1>t DEF FieldInv
  <2>1. CASE service' = service /\ saved' = saved /\ blindAt' = blindAt
    <3>1. Speaks(q, f)' = Speaks(q, f)
      BY <1>1, <2>1 DEF Speaks
    <3> QED
      BY <1>1, <2>0, <2>1, <3>1 DEF NoValue
  <2>2. CASE /\ service' = [service EXCEPT ![r] = Merged(inHand[w].existing, n)]
             /\ saved' = saved \cup {n}
             /\ blindAt' = [blindAt EXCEPT ![r] = IF inHand[w].blind THEN n ELSE @]
    <3>1. CASE q # r
      <4>1. Speaks(q, f)' = Speaks(q, f)
        BY <1>1, <1>8, <2>2, <3>1 DEF Speaks
      <4> QED
        BY <1>1, <1>8, <2>0, <3>1, <4>1 DEF NoValue
    <3>2. CASE q = r
      <4>1. service'[r][f] = Merged(inHand[w].existing, n)[f]
        BY <1>3, <1>6, <2>2
      <4>2. service'[r][f] = IF f \in items[n].sets THEN n
                             ELSE IF f \in items[n].blanks THEN NoValue ELSE inHand[w].existing[f]
        BY <4>1 DEF Merged
      <4>3. blindAt'[r] = IF inHand[w].blind THEN n ELSE blindAt[r]
        BY <1>3, <1>6, <2>2
      <4>4. \A m : m \in Speaks(r, f)' <=>
              /\ m \in saved \/ m = n
              /\ items[m].record = r /\ m >= blindAt'[r] /\ f \in items[m].sets \cup items[m].blanks
        BY <1>1, <2>2 DEF Speaks
      <4>5. \A m : m \in Speaks(r, f) <=>
              /\ m \in saved
              /\ items[m].record = r /\ m >= blindAt[r] /\ f \in items[m].sets \cup items[m].blanks
        BY DEF Speaks
      <4>6. CASE f \in items[n].sets \cup items[n].blanks
        <5>1. n \in Speaks(r, f)'
          BY <1>3, <1>19, <4>3, <4>4, <4>6
        <5>2. \A m \in Speaks(r, f)' : m <= n
          BY <1>3, <1>18, <4>4
        <5>3. service'[r][f] = IF f \in items'[n].blanks THEN NoValue ELSE n
          BY <1>t, <1>1, <1>3, <4>2, <4>6 DEF ItemInv
        <5> QED
          BY <3>2, <5>1, <5>2, <5>3 DEF NoValue
      <4>7. CASE f \notin items[n].sets \cup items[n].blanks /\ inHand[w].blind
        <5>1. Speaks(r, f)' = {}
          BY <1>3, <1>18, <4>3, <4>4, <4>7
        <5>2. service'[r][f] = NoValue
          BY <1>t, <1>1, <4>2, <4>7 DEF HandInv, NoField
        <5> QED
          BY <3>2, <5>1, <5>2 DEF NoValue
      <4>8. CASE f \notin items[n].sets \cup items[n].blanks /\ ~inHand[w].blind
        <5>1. Speaks(r, f)' = Speaks(r, f)
          BY <4>3, <4>4, <4>5, <4>8
        <5>2. service'[r][f] = service[r][f]
          BY <1>t, <1>1, <4>2, <4>8 DEF HandInv
        <5> QED
          BY <1>1, <2>0, <3>2, <5>1, <5>2, ZenonT(30) DEF NoValue
      <4> QED
        BY <4>6, <4>7, <4>8
    <3> QED
      BY <3>1, <3>2
  <2> QED
    BY <1>2, <2>1, <2>2
<1> QED
  BY <1>10, <1>11, <1>12, <1>13, <1>14, <1>15, <1>17, <1>20 DEF IInv

\* The save of an activation changes no record.
LEMMA ActivationStep ==
  ASSUME Pinned, IInv, NEW w \in Workers, SaveActivation(w)
  PROVE  IInv'
<1> PICK n : n = Head(backlog[w])
  OBVIOUS
<1>t. Types /\ ItemInv /\ BacklogInv /\ HandInv /\ WhereInv /\ OrderInv /\ BlindInv /\ FieldInv
  BY DEF IInv
<1>1. /\ inHand[w].item = 0 /\ backlog[w] # <<>> /\ items[n].type = "activation"
      /\ backlog' = [backlog EXCEPT ![w] = Tail(@)]
      /\ writer' = writer /\ items' = items /\ inHand' = inHand /\ service' = service
      /\ blindAt' = blindAt /\ tried' = tried \cup {n}
      /\ saved' = saved \cup {n} \/ saved' = saved
  BY DEF SaveActivation, Called
<1>2. n \in DOMAIN items /\ n \notin tried /\ Home(n) = w /\ n \in Nat \ {0}
  BY <1>t, <1>1, HeadIsOldest, HomeIsWorker
<1>3. Workers' = Workers /\ \A m : Home(m)' = Home(m)
  BY <1>1 DEF Workers, Home, HomeOf
<1>4. backlog \in [Workers -> Seq(Nat)] /\ backlog[w] \in Seq(Nat)
  BY <1>t DEF Types
<1>5. backlog'[w] = Tail(backlog[w]) /\ \A v \in Workers : v # w => backlog'[v] = backlog[v]
  BY <1>1, <1>4
<1>6. /\ 1 \in DOMAIN backlog[w] /\ n = backlog[w][1] /\ Tail(backlog[w]) \in Seq(Nat)
      /\ \A i \in DOMAIN backlog'[w] :
           i \in Nat \ {0} /\ i + 1 \in DOMAIN backlog[w] /\ backlog'[w][i] = backlog[w][i + 1]
      /\ \A j \in DOMAIN backlog[w] :
           j # 1 => j - 1 \in DOMAIN backlog'[w] /\ backlog'[w][j - 1] = backlog[w][j]
  BY <1>1, <1>4, <1>5, TailIs
<1>7. backlog' \in [Workers -> Seq(Nat)]
  BY <1>1, <1>4, <1>6
<1>10. Types'
  BY <1>t, <1>1, <1>2, <1>3, <1>7 DEF Types
<1>11. ItemInv'
  BY <1>t, <1>1 DEF ItemInv
<1>12. OrderInv'
  <2>1. \A m \in DOMAIN items : m < n /\ Home(m) = Home(n) => m \in tried
    BY <1>1, <1>2, HeadIsOldest
  <2> QED
    BY <1>t, <1>1, <1>2, <2>1, TriedInOrder
<1>13. HandInv'
  <2> SUFFICES ASSUME NEW v \in Workers, inHand[v].item # 0
               PROVE  HandInv!(v)!2'
    BY <1>1, <1>3 DEF HandInv, NoField
  <2>1. inHand[v].item # n
    BY <1>t, <1>1, <1>2 DEF HandInv
  <2> QED
    BY <1>t, <1>1, <1>3, <2>1 DEF HandInv, NoField
<1>14. BacklogInv'
  <2> SUFFICES ASSUME NEW v \in Workers
               PROVE  BacklogInv!(v)'
    BY <1>3 DEF BacklogInv
  <2>1. CASE v = w
    <3>1. ASSUME NEW i \in DOMAIN backlog'[w]
          PROVE  /\ backlog'[w][i] \in DOMAIN items /\ Home(backlog'[w][i]) = w
                 /\ backlog'[w][i] \notin tried' /\ inHand[w].item < backlog'[w][i]
      <4>1. /\ i \in Nat \ {0} /\ i + 1 \in DOMAIN backlog[w] /\ 1 \in DOMAIN backlog[w]
            /\ backlog'[w][i] = backlog[w][i + 1] /\ n = backlog[w][1] /\ 1 < i + 1
        BY <1>6
      <4>2. /\ backlog[w][i + 1] \in DOMAIN items /\ Home(backlog[w][i + 1]) = w
            /\ backlog[w][i + 1] \notin tried /\ inHand[w].item < backlog[w][i + 1]
        BY <1>t, <4>1 DEF BacklogInv
      <4>3. n < backlog[w][i + 1]
        BY <1>t, <4>1 DEF BacklogInv
      <4>4. backlog[w][i + 1] # n
        BY <1>2, <4>3
      <4> QED
        BY <1>1, <4>1, <4>2, <4>4
    <3>2. ASSUME NEW i \in DOMAIN backlog'[w], NEW j \in DOMAIN backlog'[w], i < j
          PROVE  backlog'[w][i] < backlog'[w][j]
      <4>1. /\ i \in Nat /\ j \in Nat
            /\ i + 1 \in DOMAIN backlog[w] /\ j + 1 \in DOMAIN backlog[w]
            /\ backlog'[w][i] = backlog[w][i + 1] /\ backlog'[w][j] = backlog[w][j + 1]
        BY <1>6
      <4>2. i + 1 < j + 1
        BY <3>2, <4>1
      <4> QED
        BY <1>t, <4>1, <4>2 DEF BacklogInv
    <3>3. inHand' = inHand /\ items' = items /\ writer' = writer
      BY <1>1
    <3>4. \A i \in DOMAIN backlog'[w] : (Home(backlog[w][i]) = w)'
      BY <3>1, <3>3 DEF Home, HomeOf
    <3> QED
      BY <2>1, <3>1, <3>2, <3>3, <3>4
  <2>2. CASE v # w
    <3>1. \A i \in DOMAIN backlog[v] : backlog[v][i] # n
      BY <1>t, <1>2, <2>2 DEF BacklogInv
    <3> QED
      BY <1>t, <1>1, <1>3, <1>5, <2>2, <3>1 DEF BacklogInv
  <2> QED
    BY <2>1, <2>2
<1>15. WhereInv'
  <2> SUFFICES ASSUME NEW m \in DOMAIN items, m \notin tried, m # n
               PROVE  \/ m = inHand[Home(m)].item
                      \/ \E i \in DOMAIN backlog'[Home(m)] : backlog'[Home(m)][i] = m
    BY <1>1, <1>3 DEF WhereInv
  <2>1. Home(m) \in Workers
    BY <1>t, HomeIsWorker
  <2>2. CASE Home(m) # w
    BY <1>t, <1>5, <2>1, <2>2 DEF WhereInv
  <2>3. CASE Home(m) = w
    <3>1. CASE m = inHand[w].item
      BY <2>3, <3>1
    <3>2. CASE m # inHand[w].item
      <4>1. PICK j \in DOMAIN backlog[w] : backlog[w][j] = m
        BY <1>t, <2>3, <3>2 DEF WhereInv
      <4>2. j - 1 \in DOMAIN backlog'[w] /\ backlog'[w][j - 1] = m
        BY <1>6, <4>1
      <4> QED
        BY <2>3, <4>2
    <3> QED
      BY <3>1, <3>2
  <2> QED
    BY <2>2, <2>3
<1>16. BlindInv'
  BY <1>t, <1>1 DEF BlindInv
<1>17. FieldInv'
  <2>1. items[n].sets = {} /\ items[n].blanks = {}
    BY <1>t, <1>1, <1>2 DEF ItemInv
  <2>2. \A q, f : Speaks(q, f)' = Speaks(q, f)
    BY <1>1, <2>1 DEF Speaks
  <2> QED
    BY <1>t, <1>1, <2>2 DEF FieldInv, NoValue
<1> QED
  BY <1>10, <1>11, <1>12, <1>13, <1>14, <1>15, <1>16, <1>17 DEF IInv

-----------------------------------------------------------------------------
\* The invariant gives the property: the newest saved item is the maximum, and
\* items of one record have one home.
LEMMA InvImpliesMerged == ASSUME Pinned, IInv PROVE RecordsMerged
<1>t. Types /\ OrderInv /\ FieldInv
  BY DEF IInv
<1>1. FieldsKept
  <2> SUFFICES ASSUME NEW r \in Records, NEW f \in Fields
               PROVE  service[r][f] = IF Speaks(r, f) = {} \/ f \in items[Max(Speaks(r, f))].blanks
                                      THEN NoValue ELSE Max(Speaks(r, f))
    BY DEF FieldsKept
  <2>1. CASE Speaks(r, f) = {}
    BY <1>t, <2>1 DEF FieldInv
  <2>2. CASE Speaks(r, f) # {}
    <3>1. Speaks(r, f) \in SUBSET Nat
      BY <1>t DEF Types, Speaks
    <3>2. PICK n \in Speaks(r, f) :
            /\ \A m \in Speaks(r, f) : m <= n
            /\ service[r][f] = IF f \in items[n].blanks THEN NoValue ELSE n
      BY <1>t, <2>2 DEF FieldInv
    <3>3. Max(Speaks(r, f)) = n
      BY <3>1, <3>2, MaxIs
    <3> QED
      BY <2>2, <3>2, <3>3
  <2> QED
    BY <2>1, <2>2
<1>2. ASSUME NEW n \in tried, NEW m \in 1 .. n - 1, items[m].record = items[n].record
      PROVE  m \in tried
  <2>1. m \in DOMAIN items /\ m < n /\ n \in Nat
    BY <1>t DEF Types
  <2> QED
    BY <1>t, <1>2, <2>1 DEF OrderInv, Home
<1> QED
  BY <1>1, <1>2 DEF RecordsMerged

\* Every step keeps the invariant.
LEMMA StepHolds == ASSUME Pinned, IInv, [AnnotationNext]_annotationVars PROVE IInv'
<1>1. CASE AnnotationNext
  BY <1>1, PushStep, FetchStep, SaveStep, ActivationStep DEF AnnotationNext
<1>2. CASE UNCHANGED annotationVars
  BY <1>2 DEF annotationVars, IInv, Types, ItemInv, BacklogInv, HandInv, WhereInv, OrderInv,
              BlindInv, FieldInv, Workers, Home, HomeOf, Speaks
<1> QED
  BY <1>1, <1>2

\* saveSourceMetadata() and doSaveConfiguration() undo no field that another
\* item set, whatever their workers do between fetch and save, and an activation
\* never overtakes its configuration, for every set of records and fields and
\* every number of items and failing calls, when itemRoutingKey() or a single
\* worker keeps a record in one place.
THEOREM RecordsAreMerged == ASSUME Pinned PROVE AnnotationSpec => []RecordsMerged
<1>1. AnnotationInit => IInv
  BY InitHolds
<1>2. IInv /\ [AnnotationNext]_annotationVars => IInv'
  BY StepHolds
<1>3. IInv => RecordsMerged
  BY InvImpliesMerged
<1> QED
  BY <1>1, <1>2, <1>3, PTL DEF AnnotationSpec
-----------------------------------------------------------------------------
(* The HDF5 writers.                                                        *)

\* The types of the writer's state.
Groups    == [ts : Seq(Nat), torn : BOOLEAN, col : [Columns -> Seq(Nat \X Nat)]]
Contents  == [SourceNames -> Groups]
Paths     == {"temp", "final"} \X Keys \X Nat
OpenFiles == [open : {TRUE}, key : Keys, stamp : Nat, opened : Nat, bytes : Nat]
Frames    == [row : Nat, cols : SUBSET Columns]
Works     == [source : SourceNames, seq : Nat, frames : Seq(Frames), end : BOOLEAN,
              at : {"frame", "rotating", "noFile", "ready", "flushed"}]
Buffers   == [fixed : BOOLEAN, known : SUBSET Columns, rows : {0, 1}, ts : Seq(Nat),
              round : Nat, col : [Columns -> Seq(Nat \X Nat)]]

HDF5Types ==
  /\ mode \in {"per_source", "merge"}
  /\ phase \in {"new", "running", "joining", "stopped"}
  /\ flush \in {"off", "loop", "use", "last", "lastUse", "done", "nullDereference"}
  /\ clock \in Nat /\ batchSeq \in Nat /\ lastTs \in Nat /\ fseq \in Nat /\ faults \in Nat
  /\ work \in Works \cup {NoWork}
  /\ file \in [Keys -> OpenFiles \cup {Closed}]
  /\ DOMAIN disk \subseteq Paths /\ disk \in [DOMAIN disk -> Contents]
  /\ buf \in Buffers

\* mergeFile_ is null for good.
Dead == mode = "merge" /\ phase # "new" /\ ~file["merged"].open /\ ~Working("rotating")

\* The timestamp of a split batch is in the file and its second frame still to come.
Half ==
  /\ work # NoWork /\ work.source = "pv" /\ work.frames = <<Frame(work.seq, {"y"})>>
  /\ lastTs = work.seq

\* An open entry is the file of its key, and is on disk.
FileInv ==
  \A k \in Keys : file[k].open => file[k].key = k /\ PathOf(file[k]) \in DOMAIN disk

\* Without a failure only open files have temporary names.
Sealed ==
  faults = 0 => \A p \in DOMAIN disk :
    p[1] = "final" \/ \E k \in Keys : file[k].open /\ p = PathOf(file[k])

\* start(), stop() and the flush thread; a merge writer that has not stopped
\* has its file, is rotating it, or met a failure.
StopInv ==
  /\ phase = "new" <=> flush = "off"
  /\ phase = "new" => \A k \in Keys : ~file[k].open
  /\ flush = "done" => phase \in {"joining", "stopped"}
  /\ flush \in {"last", "lastUse"} => phase = "joining"
  /\ phase = "stopped" => flush = "done" /\ \A k \in Keys : ~file[k].open
  /\ phase # "running" => work = NoWork
  /\ mode = "merge" /\ phase # "new" /\ flush # "done" =>
       file["merged"].open \/ Working("rotating") \/ faults > 0
  /\ flush = "nullDereference" => mode = "merge" /\ (Working("rotating") \/ faults > 0)

\* What is left of an ordinary batch.
PvFrames ==
  \/ work.frames = <<>> /\ work.at = "frame"
  \/ work.frames = <<Frame(work.seq, Columns)>> /\ lastTs # work.seq
  \/ work.frames = <<Frame(work.seq, {"x"}), Frame(work.seq, {"y"})>> /\ lastTs # work.seq
  \/ work.frames = <<Frame(work.seq, {"y"})>> /\ (lastTs = work.seq \/ Dead)
  \/ /\ work.frames = <<Frame(work.seq, Columns), Frame(work.seq + 1, Columns)>>
     /\ lastTs # work.seq
  \/ work.frames = <<Frame(work.seq + 1, Columns)>> /\ (lastTs = work.seq \/ Dead)

\* The batch in hand.
WorkInv ==
  /\ lastTs <= batchSeq
  /\ work # NoWork =>
       /\ work.seq = batchSeq
       /\ work.source = "pv" => ~work.end /\ work.at # "flushed" /\ PvFrames
       /\ work.source = "table" => Len(work.frames) <= 1 /\ (work.end => work.frames = <<>>)
       /\ work.at = "ready" => Current.open
       /\ work.at = "noFile" => Dead
       /\ work.at = "rotating" => mode = "merge" /\ ~Current.open
       /\ work.at \in {"ready", "noFile", "rotating"} /\ work.source = "table" => MustFlush
       /\ work.at = "flushed" => buf.rows = 0 \/ Dead
  /\ Half => work.at = "rotating" \/ Current.open

\* The tabular buffer: one row, of one round, in columns its schema knows.
BufInv ==
  /\ buf.rows = 0 => \A c \in Columns : buf.col[c] = <<>>
  /\ \A c \in Columns \ buf.known : buf.col[c] = <<>>
  /\ \/ buf.fixed /\ buf.known = {}
     \/ Dead
     \/ /\ buf.ts = IF buf.rows = 0 THEN <<>> ELSE <<buf.round>>
        /\ \A c \in Columns : \A i \in DOMAIN buf.col[c] : buf.col[c][i][2] = buf.round

\* The first n rows of a column belong to the first n timestamps.
Matching(g, s, c, n) ==
  \A i \in 1 .. n : (g.col[c][i] = Fill /\ s = "table") \/ g.col[c][i][2] = g.ts[i]
Aligned(g, s, c) == Len(g.col[c]) = Len(g.ts) /\ Matching(g, s, c, Len(g.ts))

\* What a group of the tabular source keeps, and one of the ordinary source
\* between batches.
TableGood(g, b) ==
  /\ ~g.torn => \A c \in b.known : Aligned(g, "table", c)
  /\ ~b.fixed => g.ts = <<>> /\ \A c \in Columns : g.col[c] = <<>>
PvGood(g) == g.torn \/ \A c \in Columns : Aligned(g, "pv", c)

\* The groups of the tabular source on disk.
TableInv == \A p \in DOMAIN disk : TableGood(disk[p]["table"], buf)

\* A group whose batch is half written: the second column lacks the last row,
\* which is that of timestamp n.
HalfAligned(g, n) ==
  /\ Aligned(g, "pv", "x")
  /\ Len(g.col["y"]) + 1 = Len(g.ts) /\ Matching(g, "pv", "y", Len(g.col["y"]))
  /\ g.ts[Len(g.ts)] = n

\* The file that waits for the rest of the batch.
Pending(p) == Half /\ Current.open /\ p = PathOf(Current)

\* The groups of the ordinary source on disk.
PvInv ==
  \A p \in DOMAIN disk :
    LET g == disk[p]["pv"]
    IN  IF Pending(p) THEN g.torn \/ HalfAligned(g, work.seq) ELSE PvGood(g)

\* What is known of the files, and all that is known.
FilesInv == FileInv /\ Sealed /\ PvInv /\ TableInv
FileIInv == HDF5Types /\ FilesInv /\ StopInv /\ WorkInv /\ BufInv

-----------------------------------------------------------------------------
(* Operators on the disk.                                                   *)

\* A batch in hand is not the idle worker.
LEMMA NotIdle == ASSUME NEW w \in Works PROVE w # NoWork
BY DEF Works, NoWork

\* What H5F_ACC_TRUNC leaves is a typed, whole file.
LEMMA EmptyTyped == /\ EmptyGroup \in Groups /\ ~EmptyGroup.torn
                    /\ EmptyGroup.ts = <<>> /\ \A c \in Columns : EmptyGroup.col[c] = <<>>
                    /\ EmptyFile \in Contents
                    /\ \A s \in SourceNames : EmptyFile[s] = EmptyGroup
BY DEF EmptyGroup, Groups, EmptyFile, Contents

\* An empty group is sound for every buffer.
LEMMA EmptyGood == /\ PvGood(EmptyGroup)
                   /\ \A b \in Buffers : TableGood(EmptyGroup, b)
BY EmptyTyped DEF PvGood, TableGood, Aligned, Matching, Buffers

\* Tearing a group changes only its mark, and a torn group is excused.
LEMMA Torn ==
  ASSUME NEW g \in Groups
  PROVE  /\ Tear(g) \in Groups /\ Tear(g).torn /\ Tear(g).ts = g.ts /\ Tear(g).col = g.col
         /\ PvGood(Tear(g))
BY DEF Tear, Groups, PvGood

\* Setting one group of one file leaves all others alone.
LEMMA GroupSet ==
  ASSUME NEW d, d \in [DOMAIN d -> Contents], NEW path \in DOMAIN d, NEW s \in SourceNames,
         NEW g \in Groups, NEW e, e = WithGroup(d, path, s, g)
  PROVE  /\ DOMAIN e = DOMAIN d /\ e \in [DOMAIN e -> Contents]
         /\ \A p \in DOMAIN d, t \in SourceNames :
              e[p][t] = IF p = path /\ t = s THEN g ELSE d[p][t]
<1> DEFINE c == [t \in SourceNames |-> IF t = s THEN g ELSE d[path][t]]
<1>1. d[path] \in Contents  OBVIOUS
<1>2. c \in Contents  BY <1>1 DEF Contents
<1>3. e = [d EXCEPT ![path] = c]  BY DEF WithGroup
<1>4. DOMAIN e = DOMAIN d /\ \A p \in DOMAIN d : e[p] = IF p = path THEN c ELSE d[p]
  BY <1>3
<1>5. e \in [DOMAIN e -> Contents]  BY <1>2, <1>3, <1>4
<1>6. \A t \in SourceNames : c[t] = IF t = s THEN g ELSE d[path][t]  OBVIOUS
<1> HIDE DEF c
<1> QED  BY <1>4, <1>5, <1>6

\* Every group of e is empty or a group of d.
Origin(d, e) ==
  \A p \in DOMAIN e, s \in SourceNames :
    e[p][s] = EmptyGroup \/ \E q \in DOMAIN d : e[p][s] = d[q][s]

\* Files that were moved or emptied are as sound as they were.
LEMMA OriginGood ==
  ASSUME NEW d, NEW e, Origin(d, e), NEW b \in Buffers
  PROVE  /\ (\A p \in DOMAIN d : PvGood(d[p]["pv"])) => \A p \in DOMAIN e : PvGood(e[p]["pv"])
         /\ (\A p \in DOMAIN d : TableGood(d[p]["table"], b))
              => \A p \in DOMAIN e : TableGood(e[p]["table"], b)
BY EmptyGood DEF Origin, SourceNames

\* The names of a file.
LEMMA PathTyped ==
  ASSUME NEW f \in OpenFiles
  PROVE  PathOf(f) \in Paths /\ <<"final", f.key, f.stamp>> \in Paths /\ PathOf(f)[1] = "temp"
         /\ PathOf(f)[2] = f.key
BY DEF PathOf, TempPath, Paths, OpenFiles

\* rename() takes a file to its final name and moves no other.
LEMMA RenamedDisk ==
  ASSUME NEW d, d \in [DOMAIN d -> Contents], DOMAIN d \subseteq Paths, NEW f \in OpenFiles,
         PathOf(f) \in DOMAIN d, NEW e, e = Renamed(d, f)
  PROVE  /\ DOMAIN e = (DOMAIN d \ {PathOf(f)}) \cup {<<"final", f.key, f.stamp>>}
         /\ DOMAIN e \subseteq Paths /\ e \in [DOMAIN e -> Contents]
         /\ Origin(d, e)
<1> DEFINE final == <<"final", f.key, f.stamp>>
           D == (DOMAIN d \ {PathOf(f)}) \cup {final}
<1>1. e = [p \in D |-> d[IF p = final THEN PathOf(f) ELSE p]]  BY DEF Renamed
<1>2. \A p \in D : (IF p = final THEN PathOf(f) ELSE p) \in DOMAIN d  OBVIOUS
<1>3. DOMAIN e = D /\ \A p \in D : e[p] = d[IF p = final THEN PathOf(f) ELSE p]  BY <1>1
<1>4. D \subseteq Paths  BY PathTyped
<1>5. e \in [DOMAIN e -> Contents]  BY <1>1, <1>2, <1>3
<1>6. Origin(d, e)  BY <1>2, <1>3, Zenon DEF Origin
<1> QED  BY <1>3, <1>4, <1>5, <1>6

\* Opening a file gives it a temporary name and empty groups.
LEMMA TruncatedDisk ==
  ASSUME NEW d, d \in [DOMAIN d -> Contents], DOMAIN d \subseteq Paths, HDF5Types,
         NEW k \in Keys, NEW e, e = Truncated(d, k)
  PROVE  /\ FreshFile(k) \in OpenFiles /\ FreshFile(k).key = k
         /\ PathOf(FreshFile(k)) = TempPath(k, Stamp)
         /\ DOMAIN e = DOMAIN d \cup {TempPath(k, Stamp)}
         /\ DOMAIN e \subseteq Paths /\ e \in [DOMAIN e -> Contents]
         /\ Origin(d, e)
         /\ \A s \in SourceNames : e[TempPath(k, Stamp)][s] = EmptyGroup
<1> DEFINE path == TempPath(k, Stamp)
<1>1. FreshFile(k) \in OpenFiles /\ FreshFile(k).key = k /\ PathOf(FreshFile(k)) = path
  BY DEF FreshFile, OpenFiles, HDF5Types, Stamp, PathOf, TempPath
<1>2. path \in Paths  BY <1>1, PathTyped
<1>3. e = [p \in DOMAIN d \cup {path} |-> IF p = path THEN EmptyFile ELSE d[p]]
  BY DEF Truncated
<1> HIDE DEF path
<1>4. /\ DOMAIN e = DOMAIN d \cup {path}
      /\ \A p \in DOMAIN e : e[p] = IF p = path THEN EmptyFile ELSE d[p]
  BY <1>3
<1>5. e \in [DOMAIN e -> Contents]  BY <1>3, <1>4, EmptyTyped
<1>6. Origin(d, e)  BY <1>4, EmptyTyped, Zenon DEF Origin
<1> QED  BY <1>1, <1>2, <1>4, <1>5, <1>6, EmptyTyped DEF path

-----------------------------------------------------------------------------
(* Opening, closing and renaming keep the files sound.                      *)

DiskTyped(d) == DOMAIN d \subseteq Paths /\ d \in [DOMAIN d -> Contents]
DiskGood(d) == \A p \in DOMAIN d : PvGood(d[p]["pv"]) /\ TableGood(d[p]["table"], buf)

\* finalizeClosedFile() keeps the disk sound, whether rename() fails or not.
LEMMA FinalizedDisk ==
  ASSUME HDF5Types, NEW d, DiskTyped(d), DiskGood(d), NEW f \in OpenFiles, PathOf(f) \in DOMAIN d,
         NEW e \in Finalized(d, f)
  PROVE  /\ DiskTyped(e) /\ DiskGood(e)
         /\ \A p \in DOMAIN d : p # PathOf(f) => p \in DOMAIN e
         /\ e # d => \A p \in DOMAIN e : p[1] = "final" \/ (p \in DOMAIN d /\ p # PathOf(f))
<1>1. e = d \/ e = Renamed(d, f)  BY DEF Finalized
<1>2. CASE e = d  BY <1>2
<1>3. CASE e = Renamed(d, f)
  <2>1. /\ DOMAIN e = (DOMAIN d \ {PathOf(f)}) \cup {<<"final", f.key, f.stamp>>}
        /\ DOMAIN e \subseteq Paths /\ e \in [DOMAIN e -> Contents]
        /\ Origin(d, e)
    BY <1>3, RenamedDisk DEF DiskTyped
  <2>2. DiskGood(e)
    <3>1. buf \in Buffers  BY DEF HDF5Types
    <3> QED  BY <2>1, <3>1, OriginGood DEF DiskGood
  <2> QED  BY <2>1, <2>2 DEF DiskTyped
<1> QED  BY <1>1, <1>2, <1>3

\* Tearing the group of a half-written batch makes its file sound to close.
LEMMA TornDisk ==
  ASSUME NEW d, DiskTyped(d), NEW path \in DOMAIN d, NEW e, e = TornGroup(d, path)
  PROVE  /\ DiskTyped(e) /\ DOMAIN e = DOMAIN d
         /\ \A p \in DOMAIN d, t \in SourceNames :
              e[p][t] = IF work.source = "pv" /\ lastTs = work.seq /\ p = path /\ t = "pv"
                        THEN Tear(d[path]["pv"]) ELSE d[p][t]
         /\ (\A p \in DOMAIN d \ {path} : PvGood(d[p]["pv"]))
              /\ (PvGood(d[path]["pv"]) \/ (work.source = "pv" /\ lastTs = work.seq))
              /\ (\A p \in DOMAIN d : TableGood(d[p]["table"], buf)) => DiskGood(e)
<1>1. CASE ~(work.source = "pv" /\ lastTs = work.seq)
  <2>1. e = d  BY <1>1 DEF TornGroup
  <2> QED  BY <1>1, <2>1 DEF DiskGood
<1>2. CASE work.source = "pv" /\ lastTs = work.seq
  <2> DEFINE g == Tear(d[path]["pv"])
  <2>1. d[path]["pv"] \in Groups  BY DEF DiskTyped, Contents, SourceNames
  <2>2. g \in Groups /\ PvGood(g)  BY <2>1, Torn
  <2>3. e = WithGroup(d, path, "pv", g)  BY <1>2 DEF TornGroup
  <2> HIDE DEF g
  <2>4. /\ DOMAIN e = DOMAIN d /\ e \in [DOMAIN e -> Contents]
        /\ \A p \in DOMAIN d, t \in SourceNames :
             e[p][t] = IF p = path /\ t = "pv" THEN g ELSE d[p][t]
    BY <2>2, <2>3, GroupSet DEF DiskTyped, SourceNames
  <2>5. \A p \in DOMAIN d : e[p]["table"] = d[p]["table"]
                              /\ e[p]["pv"] = IF p = path THEN g ELSE d[p]["pv"]
    BY <2>4 DEF SourceNames
  <2>6. DiskTyped(e)  BY <2>4 DEF DiskTyped
  <2>7. \A p \in DOMAIN d, t \in SourceNames :
              e[p][t] = IF work.source = "pv" /\ lastTs = work.seq /\ p = path /\ t = "pv"
                        THEN Tear(d[path]["pv"]) ELSE d[p][t]
    BY <1>2, <2>4 DEF g
  <2>8. (\A p \in DOMAIN d \ {path} : PvGood(d[p]["pv"]))
          /\ (\A p \in DOMAIN d : TableGood(d[p]["table"], buf)) => DiskGood(e)
    BY <2>2, <2>4, <2>5 DEF DiskGood
  <2> QED  BY <2>4, <2>6, <2>7, <2>8
<1> QED  BY <1>1, <1>2

\* Opening a file keeps the disk sound, and tears the new group of a split batch.
LEMMA FreshDisk ==
  ASSUME HDF5Types, NEW d, DiskTyped(d), DiskGood(d), NEW k \in Keys,
         NEW e, e = Truncated(d, k) \/ e = TornGroup(Truncated(d, k), PathOf(FreshFile(k)))
  PROVE  /\ FreshFile(k) \in OpenFiles /\ FreshFile(k).key = k
         /\ DiskTyped(e) /\ DiskGood(e)
         /\ DOMAIN e = DOMAIN d \cup {PathOf(FreshFile(k))}
         /\ e = TornGroup(Truncated(d, k), PathOf(FreshFile(k))) /\ work.source = "pv"
              /\ lastTs = work.seq => e[PathOf(FreshFile(k))]["pv"].torn
<1> DEFINE c == Truncated(d, k)
           path == PathOf(FreshFile(k))
<1>1. /\ FreshFile(k) \in OpenFiles /\ FreshFile(k).key = k
      /\ path = TempPath(k, Stamp)
      /\ DOMAIN c = DOMAIN d \cup {TempPath(k, Stamp)}
      /\ DOMAIN c \subseteq Paths /\ c \in [DOMAIN c -> Contents]
      /\ Origin(d, c)
  BY TruncatedDisk DEF DiskTyped
<1>2. DiskGood(c)
  <2>1. buf \in Buffers  BY DEF HDF5Types
  <2> QED  BY <1>1, <2>1, OriginGood DEF DiskGood
<1>3. e = c \/ e = TornGroup(c, path)  OBVIOUS
<1> HIDE DEF c, path
<1>4. DiskTyped(c) /\ path \in DOMAIN c  BY <1>1 DEF DiskTyped
<1>5. /\ \A p \in DOMAIN c \ {path} : PvGood(c[p]["pv"])
      /\ PvGood(c[path]["pv"])
      /\ \A p \in DOMAIN c : TableGood(c[p]["table"], buf)
  BY <1>2, <1>4 DEF DiskGood
<1>6. CASE e = TornGroup(c, path)
  <2>1. DiskTyped(e) /\ DOMAIN e = DOMAIN c /\ DiskGood(e)
    BY <1>4, <1>5, <1>6, TornDisk
  <2>2. ASSUME work.source = "pv", lastTs = work.seq PROVE e[path]["pv"].torn
    <3>1. e[path]["pv"] = Tear(c[path]["pv"])
      BY <1>4, <1>6, <2>2, TornDisk DEF SourceNames
    <3>2. c[path]["pv"] \in Groups  BY <1>4 DEF DiskTyped, Contents, SourceNames
    <3> QED  BY <3>1, <3>2, Torn
  <2> QED  BY <1>1, <2>1, <2>2 DEF path, c
<1>7. CASE e = c /\ e # TornGroup(c, path)  BY <1>1, <1>2, <1>4, <1>7 DEF path, c
<1> QED  BY <1>3, <1>6, <1>7

\* Two open files have two paths.
LEMMA PathsDiffer ==
  ASSUME NEW f \in OpenFiles, NEW g \in OpenFiles, f.key # g.key
  PROVE  PathOf(f) # PathOf(g)
BY PathTyped

\* An open entry is a file, and only that.
LEMMA OpenTyped ==
  ASSUME HDF5Types, NEW k \in Keys
  PROVE  file[k].open <=> file[k] \in OpenFiles
<1>1. file[k] \in OpenFiles \/ file[k] = Closed  BY DEF HDF5Types
<1>2. ASSUME file[k] \in OpenFiles PROVE file[k].open = TRUE  BY <1>2 DEF OpenFiles
<1>3. ASSUME file[k] = Closed PROVE file[k].open = FALSE  BY <1>3 DEF Closed
<1> QED  BY <1>1, <1>2, <1>3

\* Before a file is closed for a new one, the batch's group in it is torn or whole.
LEMMA TornBeforeClosing ==
  ASSUME HDF5Types, FileInv, PvInv, TableInv, NeedsFile, Current.open,
         NEW old, old = TornGroup(disk, PathOf(Current))
  PROVE  DiskTyped(old) /\ DiskGood(old) /\ DOMAIN old = DOMAIN disk
<1>1. work # NoWork /\ work \in Works  BY DEF NeedsFile, Working, HDF5Types
<1>2. KeyOf(work.source) \in Keys  BY <1>1 DEF KeyOf, Keys, Works, SourceNames
<1>3. DiskTyped(disk) /\ PathOf(Current) \in DOMAIN disk
  BY <1>2 DEF HDF5Types, DiskTyped, FileInv, Current
<1>4. \A p \in DOMAIN disk : TableGood(disk[p]["table"], buf)  BY DEF TableInv
<1>5. \A p \in DOMAIN disk \ {PathOf(Current)} : PvGood(disk[p]["pv"])  BY DEF PvInv, Pending
<1>6. PvGood(disk[PathOf(Current)]["pv"]) \/ (work.source = "pv" /\ lastTs = work.seq)
  BY <1>3 DEF PvInv, Pending, PvGood, Half
<1> QED  BY <1>3, <1>4, <1>5, <1>6, TornDisk

\* What a step that puts file f at key k owes the files.
LEMMA FilesMoved ==
  ASSUME HDF5Types, FileInv, Sealed, NEW k \in Keys, NEW f \in OpenFiles \cup {Closed},
         file' = [file EXCEPT ![k] = f],
         f.open => f.key = k /\ PathOf(f) \in DOMAIN disk',
         \A p \in DOMAIN disk : ~(file[k].open /\ p = PathOf(file[k])) => p \in DOMAIN disk',
         faults' = 0 =>
           /\ faults = 0
           /\ \A p \in DOMAIN disk' :
                \/ p[1] = "final"
                \/ f.open /\ p = PathOf(f)
                \/ p \in DOMAIN disk /\ ~(file[k].open /\ p = PathOf(file[k]))
  PROVE  file' \in [Keys -> OpenFiles \cup {Closed}] /\ FileInv' /\ Sealed'
<1>1. file' \in [Keys -> OpenFiles \cup {Closed}]  BY DEF HDF5Types
<1>2. /\ \A j \in Keys : file'[j] = IF j = k THEN f ELSE file[j]
      /\ file \in [Keys -> OpenFiles \cup {Closed}]
  BY DEF HDF5Types
<1>3. ASSUME NEW j \in Keys, file'[j].open
      PROVE  file'[j].key = j /\ PathOf(file'[j]) \in DOMAIN disk'
  <2>1. CASE j = k  BY <1>2, <1>3, <2>1
  <2>2. CASE j # k
    <3>1. file'[j] = file[j] /\ file[j].open  BY <1>2, <1>3, <2>2
    <3>2. file[j].key = j /\ PathOf(file[j]) \in DOMAIN disk  BY <3>1 DEF FileInv
    <3>3. ASSUME file[k].open PROVE PathOf(file[j]) # PathOf(file[k])
      <4>1. file[k].key = k  BY <3>3 DEF FileInv
      <4>2. file[k] \in OpenFiles /\ file[j] \in OpenFiles  BY <3>1, <3>3, OpenTyped
      <4> QED  BY <2>2, <3>2, <4>1, <4>2, PathsDiffer
    <3> QED  BY <3>1, <3>2, <3>3
  <2> QED  BY <2>1, <2>2
<1>4. FileInv'  BY <1>3 DEF FileInv
<1>5. ASSUME faults' = 0, NEW p \in DOMAIN disk'
      PROVE  p[1] = "final" \/ \E j \in Keys : file'[j].open /\ p = PathOf(file'[j])
  <2>1. CASE f.open /\ p = PathOf(f)  BY <1>2, <2>1
  <2>2. CASE p \in DOMAIN disk /\ ~(file[k].open /\ p = PathOf(file[k]))
    <3>1. p[1] = "final" \/ \E j \in Keys : file[j].open /\ p = PathOf(file[j])
      BY <1>5, <2>2 DEF Sealed
    <3> QED  BY <1>2, <2>2, <3>1
  <2> QED  BY <1>5, <2>1, <2>2
<1> QED  BY <1>1, <1>4, <1>5 DEF Sealed

\* What opening, closing and rotating leave behind.
Moved == /\ DiskTyped(disk') /\ DiskGood(disk')
         /\ file' \in [Keys -> OpenFiles \cup {Closed}] /\ FileInv' /\ Sealed'

\* The closed entry.
LEMMA ClosedTyped == Closed.open = FALSE /\ Closed \in OpenFiles \cup {Closed}
BY DEF Closed

\* With no half-written batch in an open file the whole disk is sound.
LEMMA NoneHalf ==
  ASSUME HDF5Types, PvInv, TableInv, ~Half \/ ~Current.open
  PROVE  DiskTyped(disk) /\ DiskGood(disk)
BY DEF DiskTyped, DiskGood, HDF5Types, PvInv, Pending, TableInv

\* A step that opens a new file for a key.
LEMMA FreshMoved ==
  ASSUME HDF5Types, FilesInv, NEW k \in Keys, NEW d, DiskTyped(d), DiskGood(d),
         \A p \in DOMAIN disk : ~(file[k].open /\ p = PathOf(file[k])) => p \in DOMAIN d,
         faults' = 0 =>
           /\ faults = 0
           /\ \A p \in DOMAIN d :
                p[1] = "final" \/ (p \in DOMAIN disk /\ ~(file[k].open /\ p = PathOf(file[k]))),
         disk' = Truncated(d, k) \/ disk' = TornGroup(Truncated(d, k), PathOf(FreshFile(k))),
         file' = [file EXCEPT ![k] = FreshFile(k)]
  PROVE  Moved
<1> DEFINE f == FreshFile(k)
<1>1. /\ f \in OpenFiles /\ f.key = k /\ DiskTyped(disk') /\ DiskGood(disk')
      /\ DOMAIN disk' = DOMAIN d \cup {PathOf(f)}
  BY FreshDisk
<1>2. f.open = TRUE  BY <1>1 DEF OpenFiles
<1> HIDE DEF f
<1>3. file' = [file EXCEPT ![k] = f]  BY DEF f
<1>4. /\ \A p \in DOMAIN disk : ~(file[k].open /\ p = PathOf(file[k])) => p \in DOMAIN disk'
      /\ PathOf(f) \in DOMAIN disk' /\ f \in OpenFiles \cup {Closed}
  BY <1>1
<1>5. faults' = 0 =>
           /\ faults = 0
           /\ \A p \in DOMAIN disk' :
                \/ p[1] = "final"
                \/ f.open /\ p = PathOf(f)
                \/ p \in DOMAIN disk /\ ~(file[k].open /\ p = PathOf(file[k]))
  BY <1>1, <1>2
<1>6. file' \in [Keys -> OpenFiles \cup {Closed}] /\ FileInv' /\ Sealed'
  BY <1>1, <1>3, <1>4, <1>5, FilesMoved DEF FilesInv
<1> QED  BY <1>1, <1>6 DEF Moved

\* A step that closes the file of a key.
LEMMA ClosedMoved ==
  ASSUME HDF5Types, FilesInv, NEW k \in Keys, file[k].open,
         NEW d, DiskTyped(d), DiskGood(d), DOMAIN d = DOMAIN disk,
         disk' \in Finalized(d, file[k]), faults' = 0 => faults = 0 /\ disk' # d,
         file' = [file EXCEPT ![k] = Closed]
  PROVE  Moved
<1>1. file[k] \in OpenFiles /\ PathOf(file[k]) \in DOMAIN disk  BY OpenTyped DEF FilesInv, FileInv
<1>2. /\ DiskTyped(disk') /\ DiskGood(disk')
      /\ \A p \in DOMAIN d : p # PathOf(file[k]) => p \in DOMAIN disk'
      /\ disk' # d => \A p \in DOMAIN disk' :
                        p[1] = "final" \/ (p \in DOMAIN d /\ p # PathOf(file[k]))
  BY <1>1, FinalizedDisk
<1>3. file' \in [Keys -> OpenFiles \cup {Closed}] /\ FileInv' /\ Sealed'
  <2>1. ~Closed.open /\ Closed \in OpenFiles \cup {Closed}  BY ClosedTyped
  <2>2. \A p \in DOMAIN disk : ~(file[k].open /\ p = PathOf(file[k])) => p \in DOMAIN disk'
    BY <1>2
  <2>3. faults' = 0 =>
           /\ faults = 0
           /\ \A p \in DOMAIN disk' :
                \/ p[1] = "final"
                \/ p \in DOMAIN disk /\ ~(file[k].open /\ p = PathOf(file[k]))
    BY <1>2
  <2> QED  BY <2>1, <2>2, <2>3, FilesMoved DEF FilesInv
<1> QED  BY <1>2, <1>3 DEF Moved

\* Start, stop, acquire() and rotateMergeFile() move sound files only.
LEMMA FileMoves ==
  ASSUME HDF5Types, FilesInv, WorkInv, StopInv,
         \/ (Start /\ mode = "merge") \/ (\E k \in Keys : CloseOne(k))
         \/ PoolOpen \/ PoolRotate \/ PoolOpenFails \/ MergeClose \/ MergeOpen
  PROVE  Moved
<1> USE DEF FilesInv
<1>0. faults \in Nat /\ (work # NoWork => work \in Works)  BY DEF HDF5Types
<1>a. ASSUME NeedsFile
      PROVE  /\ work \in Works /\ work # NoWork /\ KeyOf(work.source) \in Keys
             /\ work.source \in Keys
             /\ mode = "per_source" => Current = file[work.source]
             /\ mode = "merge" => Current = file["merged"]
  BY <1>0, <1>a DEF NeedsFile, Working, Works, KeyOf, Keys, SourceNames, Current
<1>m. "merged" \in Keys  BY DEF Keys
<1>1. CASE Start /\ mode = "merge"
  <2>1. work = NoWork /\ ~file["merged"].open  BY <1>1 DEF Start, StopInv, Keys
  <2>2. DiskTyped(disk) /\ DiskGood(disk)  BY <2>1, NoneHalf DEF Half
  <2>3. /\ file' = [file EXCEPT !["merged"] = FreshFile("merged")]
        /\ disk' = Truncated(disk, "merged") /\ faults' = faults
    BY <1>1 DEF Start
  <2> QED  BY <1>m, <2>1, <2>2, <2>3, FreshMoved
<1>2. CASE \E k \in Keys : CloseOne(k)
  <2>1. PICK k \in Keys : CloseOne(k)  BY <1>2
  <2>2. work = NoWork  BY <2>1 DEF CloseOne, StopInv
  <2>3. DiskTyped(disk) /\ DiskGood(disk)  BY <2>2, NoneHalf DEF Half
  <2>4. /\ file[k].open /\ file' = [file EXCEPT ![k] = Closed]
        /\ disk' \in Finalized(disk, file[k])
        /\ faults' = IF disk' = disk THEN faults + 1 ELSE faults
    BY <2>1 DEF CloseOne
  <2>5. faults' = 0 => faults = 0 /\ disk' # disk  BY <1>0, <2>4
  <2> QED  BY <2>3, <2>4, <2>5, ClosedMoved
<1>3. CASE PoolOpen
  <2> DEFINE k == work.source
  <2>1. /\ NeedsFile /\ mode = "per_source" /\ ~Current.open /\ faults' = faults
        /\ file' = [file EXCEPT ![k] = FreshFile(k)]
        /\ disk' = TornGroup(Truncated(disk, k), PathOf(FreshFile(k)))
    BY <1>3 DEF PoolOpen, PoolOpened
  <2>2. k \in Keys /\ ~file[k].open  BY <1>a, <2>1
  <2>3. DiskTyped(disk) /\ DiskGood(disk)  BY <2>1, NoneHalf
  <2> HIDE DEF k
  <2> QED  BY <2>1, <2>2, <2>3, FreshMoved
<1>4. CASE PoolRotate
  <2> DEFINE k == work.source
             old == TornGroup(disk, PathOf(Current))
  <2>1. /\ NeedsFile /\ mode = "per_source" /\ Current.open
        /\ \E d \in Finalized(old, Current) :
             /\ faults' = IF d = old THEN faults + 1 ELSE faults
             /\ PoolOpened(d)
    BY <1>4 DEF PoolRotate
  <2>2. DiskTyped(old) /\ DiskGood(old) /\ DOMAIN old = DOMAIN disk
    BY <2>1, TornBeforeClosing
  <2>3. k \in Keys /\ Current = file[k]  BY <1>a, <2>1
  <2> HIDE DEF old
  <2>4. PICK d \in Finalized(old, Current) :
             /\ faults' = IF d = old THEN faults + 1 ELSE faults
             /\ PoolOpened(d)
    BY <2>1
  <2>5. /\ file' = [file EXCEPT ![k] = FreshFile(k)]
        /\ disk' = TornGroup(Truncated(d, k), PathOf(FreshFile(k)))
    BY <2>4 DEF PoolOpened
  <2> HIDE DEF k
  <2>6. file[k] \in OpenFiles /\ PathOf(file[k]) \in DOMAIN disk
    BY <2>1, <2>3, OpenTyped DEF FileInv
  <2>7. /\ DiskTyped(d) /\ DiskGood(d)
        /\ \A p \in DOMAIN old : p # PathOf(file[k]) => p \in DOMAIN d
        /\ d # old => \A p \in DOMAIN d : p[1] = "final" \/ (p \in DOMAIN old /\ p # PathOf(file[k]))
    BY <2>2, <2>3, <2>4, <2>6, FinalizedDisk
  <2>8. faults' = 0 => faults = 0 /\ d # old  BY <1>0, <2>4
  <2>9. \A p \in DOMAIN disk : ~(file[k].open /\ p = PathOf(file[k])) => p \in DOMAIN d
    BY <2>1, <2>2, <2>3, <2>7
  <2>10. faults' = 0 =>
           /\ faults = 0
           /\ \A p \in DOMAIN d :
                p[1] = "final" \/ (p \in DOMAIN disk /\ ~(file[k].open /\ p = PathOf(file[k])))
    BY <2>2, <2>7, <2>8
  <2> QED  BY <2>3, <2>5, <2>7, <2>9, <2>10, FreshMoved
<1>5. CASE PoolOpenFails
  <2> DEFINE k == work.source
             old == TornGroup(disk, PathOf(Current))
  <2>1. /\ NeedsFile /\ mode = "per_source" /\ faults' = faults + 1
        /\ file' = [file EXCEPT ![k] = Closed]
        /\ disk' = IF Current.open THEN Renamed(old, Current) ELSE disk
    BY <1>5 DEF PoolOpenFails, Fail
  <2>2. k \in Keys /\ Current = file[k] /\ faults' # 0  BY <1>0, <1>a, <2>1
  <2>3. CASE Current.open
    <3>1. DiskTyped(old) /\ DiskGood(old) /\ DOMAIN old = DOMAIN disk
      BY <2>1, <2>3, TornBeforeClosing
    <3> HIDE DEF old, k
    <3>2. disk' \in Finalized(old, file[k])  BY <2>1, <2>2, <2>3 DEF Finalized
    <3> QED  BY <2>1, <2>2, <2>3, <3>1, <3>2, ClosedMoved
  <2>4. CASE ~Current.open
    <3>1. DiskTyped(disk) /\ DiskGood(disk) /\ disk' = disk  BY <2>1, <2>4, NoneHalf
    <3> HIDE DEF k
    <3>2. ~Closed.open /\ Closed \in OpenFiles \cup {Closed}  BY ClosedTyped
    <3>3. \A p \in DOMAIN disk : p \in DOMAIN disk'  BY <3>1
    <3>4. file' \in [Keys -> OpenFiles \cup {Closed}] /\ FileInv' /\ Sealed'
      BY <2>1, <2>2, <3>2, <3>3, FilesMoved
    <3>5. DiskTyped(disk') /\ DiskGood(disk')  BY <3>1
    <3> QED  BY <3>4, <3>5 DEF Moved
  <2> QED  BY <2>3, <2>4
<1>6. CASE MergeClose
  <2> DEFINE old == TornGroup(disk, PathOf(Current))
  <2>1. /\ NeedsFile /\ mode = "merge" /\ Current.open
        /\ disk' \in Finalized(old, Current)
        /\ faults' = IF disk' = old THEN faults + 1 ELSE faults
        /\ file' = [file EXCEPT !["merged"] = Closed]
    BY <1>6 DEF MergeClose
  <2>2. DiskTyped(old) /\ DiskGood(old) /\ DOMAIN old = DOMAIN disk
    BY <2>1, TornBeforeClosing
  <2>3. Current = file["merged"]  BY <1>a, <2>1
  <2> HIDE DEF old
  <2>4. faults' = 0 => faults = 0 /\ disk' # old  BY <1>0, <2>1
  <2> QED  BY <1>m, <2>1, <2>2, <2>3, <2>4, ClosedMoved
<1>7. CASE MergeOpen
  <2> DEFINE k == "merged"
  <2>1. /\ Working("rotating") /\ faults' = faults
        /\ file' = [file EXCEPT ![k] = FreshFile(k)]
        /\ disk' = TornGroup(Truncated(disk, k), PathOf(file'[k]))
    BY <1>7 DEF MergeOpen
  <2>2. mode = "merge" /\ ~Current.open  BY <2>1 DEF WorkInv, Working
  <2>3. Current = file[k]  BY <2>2 DEF Current, KeyOf
  <2>4. DiskTyped(disk) /\ DiskGood(disk)  BY <2>2, NoneHalf
  <2>5. file'[k] = FreshFile(k)  BY <1>m, <2>1 DEF HDF5Types
  <2> QED  BY <1>m, <2>1, <2>2, <2>3, <2>4, <2>5, FreshMoved
<1> QED  BY <1>1, <1>2, <1>3, <1>4, <1>5, <1>6, <1>7

-----------------------------------------------------------------------------
(* Appending.                                                               *)

\* The columns of a frame can be counted.
LEMMA ColumnCount == ASSUME NEW cols \in SUBSET Columns
                     PROVE IsFiniteSet(cols) /\ Cardinality(cols) \in Nat
<1>1. IsFiniteSet({"x"})  BY FS_Singleton
<1>2. IsFiniteSet(Columns)
  <2>1. IsFiniteSet({"x"} \cup {"y"})  BY <1>1, FS_AddElement
  <2>2. Columns = {"x"} \cup {"y"}  BY DEF Columns
  <2> QED  BY <2>1, <2>2
<1>3. IsFiniteSet(cols)  BY <1>2, FS_Subset
<1> QED  BY <1>3, FS_CardinalityType

\* Group h is g with timestamps and values appended.
Extends(h, g, ts, cols, values) ==
  /\ h \in Groups /\ Tear(h) \in Groups /\ Tear(h).torn
  /\ h.ts = g.ts \o ts /\ h.torn = g.torn
  /\ \A c \in Columns :
       h.col[c] = IF c \in cols THEN Append(g.col[c], values[c]) ELSE g.col[c]

\* Appending to a group.
LEMMA AppendedTyped ==
  ASSUME NEW g \in Groups, NEW ts \in Seq(Nat), NEW cols \in SUBSET Columns,
         NEW values \in [Columns -> Nat \X Nat], NEW h, h = Appended(g, ts, cols, values)
  PROVE  Extends(h, g, ts, cols, values)
<1> DEFINE col == [c \in Columns |-> IF c \in cols THEN Append(g.col[c], values[c]) ELSE g.col[c]]
<1>1. g.ts \in Seq(Nat) /\ g.torn \in BOOLEAN /\ g.col \in [Columns -> Seq(Nat \X Nat)]
  BY DEF Groups
<1>2. \A c \in Columns : col[c] \in Seq(Nat \X Nat)
  <2>1. SUFFICES ASSUME NEW c \in Columns PROVE col[c] \in Seq(Nat \X Nat)  OBVIOUS
  <2>2. g.col[c] \in Seq(Nat \X Nat) /\ values[c] \in Nat \X Nat  BY <1>1
  <2>3. Append(g.col[c], values[c]) \in Seq(Nat \X Nat)  BY <2>2
  <2> QED  BY <2>2, <2>3
<1>3. col \in [Columns -> Seq(Nat \X Nat)]  BY <1>2
<1>4. g.ts \o ts \in Seq(Nat)  BY <1>1
<1>5. h = [ts |-> g.ts \o ts, torn |-> g.torn, col |-> col]  BY DEF Appended
<1>6. \A c \in Columns : col[c] = IF c \in cols THEN Append(g.col[c], values[c]) ELSE g.col[c]
  OBVIOUS
<1> HIDE DEF col
<1>7. h \in Groups /\ h.ts = g.ts \o ts /\ h.torn = g.torn /\ h.col = col
  BY <1>1, <1>3, <1>4, <1>5 DEF Groups
<1> QED  BY <1>6, <1>7, Torn DEF Extends

\* Counting bytes changes neither the name nor the key of a file.
LEMMA GrownFile ==
  ASSUME NEW f \in OpenFiles, NEW n \in Nat
  PROVE  /\ Grown(f, n) \in OpenFiles /\ Grown(f, n).key = f.key
         /\ Grown(f, n).stamp = f.stamp /\ Grown(f, n).open = TRUE
BY DEF Grown, OpenFiles

\* A step that writes one group of an open file.
Written(k, s, g) ==
  /\ disk' = WithGroup(disk, PathOf(file[k]), s, g)
  /\ file' = file \/ \E n \in Nat : file' = [file EXCEPT ![k] = Grown(file[k], n)]
  /\ faults' = faults \/ faults' = faults + 1

\* Writing one group changes no name, no other group, and no other file.
LEMMA WrittenDisk ==
  ASSUME HDF5Types, FileInv, Sealed, NEW k \in Keys, file[k].open, NEW s \in SourceNames,
         NEW g \in Groups, Written(k, s, g)
  PROVE  /\ DiskTyped(disk') /\ DOMAIN disk' = DOMAIN disk /\ PathOf(file[k]) \in DOMAIN disk
         /\ file' \in [Keys -> OpenFiles \cup {Closed}] /\ FileInv' /\ Sealed'
         /\ \A j \in Keys : /\ file'[j].open <=> file[j].open
                            /\ file[j].open => PathOf(file'[j]) = PathOf(file[j])
         /\ \A p \in DOMAIN disk, t \in SourceNames :
              disk'[p][t] = IF p = PathOf(file[k]) /\ t = s THEN g ELSE disk[p][t]
<1>1. file[k] \in OpenFiles /\ PathOf(file[k]) \in DOMAIN disk /\ file[k].key = k
  BY OpenTyped DEF FileInv
<1>2. /\ DiskTyped(disk') /\ DOMAIN disk' = DOMAIN disk
      /\ \A p \in DOMAIN disk, t \in SourceNames :
              disk'[p][t] = IF p = PathOf(file[k]) /\ t = s THEN g ELSE disk[p][t]
  BY <1>1, GroupSet DEF Written, DiskTyped, HDF5Types
<1>3. /\ file' \in [Keys -> OpenFiles \cup {Closed}]
      /\ \A j \in Keys : /\ file'[j].open <=> file[j].open
                         /\ file[j].open => /\ PathOf(file'[j]) = PathOf(file[j])
                                            /\ file'[j].key = file[j].key
  <2>1. CASE file' = file  BY <2>1 DEF HDF5Types
  <2>2. CASE \E n \in Nat : file' = [file EXCEPT ![k] = Grown(file[k], n)]
    <3>1. PICK n \in Nat : file' = [file EXCEPT ![k] = Grown(file[k], n)]  BY <2>2
    <3> DEFINE f == Grown(file[k], n)
    <3>2. /\ f \in OpenFiles /\ f.key = file[k].key /\ f.stamp = file[k].stamp
          /\ f.open = TRUE
      BY <1>1, GrownFile
    <3>a. PathOf(f) = PathOf(file[k])  BY <3>2 DEF PathOf
    <3> HIDE DEF f
    <3>3. file' = [file EXCEPT ![k] = f]  BY <3>1 DEF f
    <3>4. \A j \in Keys : file'[j] = IF j = k THEN f ELSE file[j]  BY <3>3 DEF HDF5Types
    <3>5. file' \in [Keys -> OpenFiles \cup {Closed}]  BY <3>2, <3>3 DEF HDF5Types
    <3> QED  BY <3>2, <3>a, <3>4, <3>5
  <2> QED  BY <2>1, <2>2 DEF Written
<1>4. FileInv'  BY <1>2, <1>3 DEF FileInv
<1>5. Sealed'
  <2>1. faults' = 0 => faults = 0  BY DEF Written, HDF5Types
  <2> QED  BY <1>2, <1>3, <2>1 DEF Sealed
<1> QED  BY <1>1, <1>2, <1>3, <1>4, <1>5

\* Appending one element.
LEMMA OneMore ==
  ASSUME NEW S, NEW q \in Seq(S), NEW e \in S, NEW r, r = Append(q, e) \/ r = q \o <<e>>
  PROVE  /\ Len(r) = Len(q) + 1 /\ r[Len(q) + 1] = e
         /\ \A i \in 1 .. Len(q) : r[i] = q[i]
<1>1. q \o <<e>> = Append(q, e)  OBVIOUS
<1>2. r = Append(q, e)  BY <1>1
<1> QED  BY <1>2, AppendProperties

\* A column that takes a row with the timestamp stays aligned.
LEMMA AppendAligned ==
  ASSUME NEW g \in Groups, NEW h \in Groups, NEW s, NEW c \in Columns, NEW row \in Nat,
         NEW v \in Nat \X Nat, Aligned(g, s, c), h.ts = g.ts \o <<row>>,
         h.col[c] = Append(g.col[c], v), (v = Fill /\ s = "table") \/ v[2] = row
  PROVE  Aligned(h, s, c)
<1>1. g.ts \in Seq(Nat) /\ g.col[c] \in Seq(Nat \X Nat) /\ Len(g.col[c]) = Len(g.ts)
  BY DEF Groups, Aligned
<1>a. /\ Len(h.ts) = Len(g.ts) + 1 /\ h.ts[Len(g.ts) + 1] = row
      /\ \A i \in 1 .. Len(g.ts) : h.ts[i] = g.ts[i]
  BY ONLY <1>1, row \in Nat, h.ts = g.ts \o <<row>>, OneMore
<1>b. /\ Len(h.col[c]) = Len(g.col[c]) + 1 /\ h.col[c][Len(g.col[c]) + 1] = v
      /\ \A i \in 1 .. Len(g.col[c]) : h.col[c][i] = g.col[c][i]
  BY ONLY <1>1, v \in Nat \X Nat, h.col[c] = Append(g.col[c], v), OneMore
<1>2. Len(h.ts) = Len(g.ts) + 1 /\ Len(h.col[c]) = Len(g.ts) + 1 /\ Len(g.ts) \in Nat
  BY <1>1, <1>a, <1>b
<1>3. ASSUME NEW i \in 1 .. Len(h.ts)
      PROVE  (h.col[c][i] = Fill /\ s = "table") \/ h.col[c][i][2] = h.ts[i]
  <2>1. CASE i = Len(g.ts) + 1
    <3>1. h.ts[i] = row  BY <1>a, <2>1
    <3>2. i = Len(g.col[c]) + 1  BY <1>1, <2>1
    <3>3. h.col[c][i] = v  BY <1>b, <3>2
    <3> QED  BY <3>1, <3>3
  <2>2. CASE i # Len(g.ts) + 1
    <3>1. i \in 1 .. Len(g.ts)  BY ONLY i \in 1 .. Len(h.ts), <1>2, <2>2
    <3>2. h.ts[i] = g.ts[i] /\ h.col[c][i] = g.col[c][i]  BY <1>1, <1>a, <1>b, <3>1
    <3> QED  BY <3>1, <3>2 DEF Aligned, Matching
  <2> QED  BY <2>1, <2>2
<1> QED  BY <1>2, <1>3 DEF Aligned, Matching

\* The first frame of a split batch leaves its group half written, the second completes it.
LEMMA FirstHalf ==
  ASSUME NEW g \in Groups, NEW h \in Groups, NEW row \in Nat, NEW v \in Nat \X Nat,
         \A c \in Columns : Aligned(g, "pv", c), v[2] = row,
         h.ts = g.ts \o <<row>>, h.col["x"] = Append(g.col["x"], v), h.col["y"] = g.col["y"]
  PROVE  HalfAligned(h, row)
<1>1. "x" \in Columns /\ "y" \in Columns  BY DEF Columns
<1>2. Aligned(h, "pv", "x")  BY <1>1, AppendAligned
<1>3. g.ts \in Seq(Nat) /\ g.col["y"] \in Seq(Nat \X Nat) /\ Len(g.col["y"]) = Len(g.ts)
  BY <1>1 DEF Groups, Aligned
<1>4. Len(h.ts) = Len(g.ts) + 1 /\ h.ts[Len(h.ts)] = row  BY <1>3
<1>5. \A i \in 1 .. Len(g.ts) : h.ts[i] = g.ts[i]  BY <1>3
<1>6. Matching(h, "pv", "y", Len(g.ts))  BY <1>1, <1>5 DEF Aligned, Matching
<1> QED  BY <1>2, <1>3, <1>4, <1>6 DEF HalfAligned

\* The second frame of a split batch completes its row.
LEMMA SecondHalf ==
  ASSUME NEW g \in Groups, NEW h \in Groups, NEW row \in Nat, NEW v \in Nat \X Nat,
         HalfAligned(g, row), v[2] = row,
         h.ts = g.ts, h.col["x"] = g.col["x"], h.col["y"] = Append(g.col["y"], v)
  PROVE  PvGood(h)
<1>1. Aligned(h, "pv", "x")  BY DEF HalfAligned, Aligned, Matching
<1>2. /\ g.ts \in Seq(Nat) /\ g.col["y"] \in Seq(Nat \X Nat) /\ Len(g.col["y"]) + 1 = Len(g.ts)
      /\ g.ts[Len(g.ts)] = row
  BY DEF Groups, HalfAligned, Columns
<1>3. Len(h.col["y"]) = Len(h.ts)  BY <1>2
<1>4. ASSUME NEW i \in 1 .. Len(h.ts) PROVE h.col["y"][i][2] = h.ts[i]
  <2>1. CASE i = Len(g.ts)  BY <1>2, <2>1
  <2>2. CASE i # Len(g.ts)
    <3>1. i \in 1 .. Len(g.col["y"])  BY <1>2, <2>2
    <3>2. h.col["y"][i] = g.col["y"][i]  BY <1>2, <3>1
    <3> QED  BY <3>1, <3>2 DEF HalfAligned, Matching
  <2> QED  BY <2>1, <2>2
<1>5. Aligned(h, "pv", "y")  BY <1>3, <1>4 DEF Aligned, Matching
<1> QED  BY <1>1, <1>5 DEF PvGood, Columns

\* The worker before it appends a frame.
LEMMA ReadyToAppend ==
  ASSUME HDF5Types, FileInv, WorkInv, Working("ready")
  PROVE  /\ work \in Works /\ KeyOf(work.source) \in Keys /\ Current.open
         /\ Current = file[KeyOf(work.source)] /\ work.source \in SourceNames
         /\ PathOf(Current) \in DOMAIN disk
         /\ \A s \in SourceNames : disk[PathOf(Current)][s] \in Groups
         /\ ~Dead /\ work.seq \in Nat
<1>1. work \in Works /\ work.source \in SourceNames /\ work.seq \in Nat
  BY DEF HDF5Types, Working, Works
<1>2. KeyOf(work.source) \in Keys  BY <1>1 DEF KeyOf, Keys
<1>3. Current.open  BY DEF WorkInv, Working
<1>4. PathOf(Current) \in DOMAIN disk  BY <1>2, <1>3 DEF FileInv, Current
<1>5. ~Dead  BY <1>3 DEF Dead, Current, KeyOf
<1> QED  BY <1>1, <1>2, <1>3, <1>4, <1>5 DEF Current, HDF5Types, Contents

\* The frames of a batch, before each append.
Whole  == work.frames = <<Frame(work.seq, Columns)>> /\ lastTs # work.seq
Split  == work.frames = <<Frame(work.seq, {"x"}), Frame(work.seq, {"y"})>> /\ lastTs # work.seq
Rest   == work.frames = <<Frame(work.seq, {"y"})>> /\ lastTs = work.seq
Pair   == work.frames = <<Frame(work.seq, Columns), Frame(work.seq + 1, Columns)>> /\ lastTs # work.seq
Second == work.frames = <<Frame(work.seq + 1, Columns)>> /\ lastTs = work.seq

\* A batch that lost its first frame.
LEMMA TailFrames ==
  ASSUME NEW a, NEW b
  PROVE  Tail(<<a>>) = <<>> /\ Tail(<<a, b>>) = <<b>> /\ <<a>> # <<>> /\ <<a, b>> # <<>>
OBVIOUS

\* What a worker with a file in hand is about to append.
LEMMA PvReady ==
  ASSUME HDF5Types, FileInv, WorkInv, Working("ready"), work.source = "pv"
  PROVE  /\ BatchTs \in Seq(Nat) /\ BatchValues \in [Columns -> Nat \X Nat]
         /\ \A c \in Columns : BatchValues[c] = <<work.seq, work.frames[1].row>>
         /\ BatchTs = IF lastTs = work.seq THEN <<>> ELSE <<work.seq>>
         /\ work.frames # <<>> /\ work.frames[1].row \in Nat
         /\ Whole \/ Split \/ Rest \/ Pair \/ Second
         /\ Second => Untimed
         /\ ~Second => ~Untimed /\ work.frames[1].row = work.seq
         /\ work.frames[1].cols \in SUBSET Columns
<1>1. work.seq \in Nat /\ ~Dead  BY ReadyToAppend
<1>2. Whole \/ Split \/ Rest \/ Pair \/ Second
  BY <1>1 DEF WorkInv, PvFrames, Working, Whole, Split, Rest, Pair, Second
<1>3. /\ work.frames # <<>> /\ work.frames[1].cols \in SUBSET Columns
      /\ work.frames[1].row = IF Second THEN work.seq + 1 ELSE work.seq
  <2>1. CASE Second  BY <2>1 DEF Second, Frame, Columns
  <2>2. CASE Rest
    <3>1. work.frames # <<>> /\ work.frames[1] = Frame(work.seq, {"y"})  BY <2>2 DEF Rest
    <3>2. work.frames[1].row = work.seq /\ work.frames[1].cols = {"y"}  BY <3>1 DEF Frame
    <3>3. ~Second
      <4>1. ASSUME Second PROVE FALSE
        <5>1. work.frames[1] = Frame(work.seq + 1, Columns)  BY <4>1 DEF Second
        <5>2. work.frames[1].row = work.seq + 1  BY <5>1 DEF Frame
        <5> QED  BY <1>1, <3>2, <5>2
      <4> QED  BY <4>1
    <3> QED  BY <3>1, <3>2, <3>3 DEF Columns
  <2>3. CASE Whole \/ Split \/ Pair
    <3>1. lastTs # work.seq /\ work.frames # <<>>
      <4>1. CASE Whole  BY <4>1 DEF Whole
      <4>2. CASE Split  BY <4>2, TailFrames DEF Split
      <4>3. CASE Pair  BY <4>3, TailFrames DEF Pair
      <4> QED  BY <2>3, <4>1, <4>2, <4>3
    <3>2. work.frames[1] = Frame(work.seq, Columns) \/ work.frames[1] = Frame(work.seq, {"x"})
      BY <2>3 DEF Whole, Split, Pair
    <3>3. work.frames[1].row = work.seq /\ work.frames[1].cols \in SUBSET Columns
      BY <3>2 DEF Frame, Columns
    <3> QED  BY <3>1, <3>3 DEF Second
  <2> QED  BY <1>2, <2>1, <2>2, <2>3
<1>4. work.frames[1].row \in Nat  BY <1>1, <1>3
<1>5. Second => lastTs = work.seq  BY DEF Second
<1>6. lastTs # work.seq => work.frames[1].row = work.seq  BY <1>3, <1>5
<1>7. (Second => Untimed) /\ (~Second => ~Untimed)  BY <1>1, <1>3, <1>5 DEF Untimed
<1>8. /\ BatchTs = IF lastTs = work.seq THEN <<>> ELSE <<work.seq>>
      /\ BatchTs \in Seq(Nat)
  BY <1>1, <1>6 DEF BatchTs
<1>9. /\ BatchValues \in [Columns -> Nat \X Nat]
      /\ \A c \in Columns : BatchValues[c] = <<work.seq, work.frames[1].row>>
  BY <1>1, <1>4 DEF BatchValues
<1> QED  BY <1>2, <1>3, <1>4, <1>7, <1>8, <1>9

\* What a step that appends leaves behind.
Stored == DiskTyped(disk') /\ file' \in [Keys -> OpenFiles \cup {Closed}] /\ FilesInv'

\* appendFrame() keeps the rows aligned: a whole row, or a half that is completed.
LEMMA AppendFrameStep ==
  ASSUME HDF5Types, FilesInv, WorkInv, AppendFrame
  PROVE  Stored
<1> USE DEF FilesInv
<1> DEFINE k == KeyOf("pv")
           cols == work.frames[1].cols
           path == PathOf(file[k])
           g == disk[path]["pv"]
           h == Appended(g, BatchTs, cols, BatchValues)
           q == IF Untimed THEN Tear(h) ELSE h
<1>1. /\ Working("ready") /\ work.source = "pv"
      /\ disk' = IF Untimed THEN AppendTorn(Current, "pv", BatchTs, cols, BatchValues)
                 ELSE AppendTo(Current, "pv", BatchTs, cols, BatchValues)
      /\ file' = [file EXCEPT ![k] = Grown(file[k], Cardinality(cols))]
      /\ lastTs' = work.seq /\ NextFrame /\ mode' = mode /\ buf' = buf /\ faults' = faults
  BY DEF AppendFrame
<1>2. /\ work \in Works /\ k \in Keys /\ file[k].open /\ Current = file[k]
      /\ path \in DOMAIN disk /\ g \in Groups /\ work.seq \in Nat
  BY <1>1, ReadyToAppend DEF SourceNames
<1>3. /\ BatchTs \in Seq(Nat) /\ BatchValues \in [Columns -> Nat \X Nat]
      /\ ~Second => \A c \in Columns : BatchValues[c] = <<work.seq, work.seq>>
      /\ BatchTs = IF lastTs = work.seq THEN <<>> ELSE <<work.seq>>
      /\ Whole \/ Split \/ Rest \/ Pair \/ Second
      /\ Untimed <=> Second
      /\ work.frames # <<>>
      /\ cols \in SUBSET Columns
  BY <1>1, PvReady
<1>5. Cardinality(cols) \in Nat  BY <1>3, ColumnCount
<1>6. disk' = WithGroup(disk, path, "pv", q)  BY <1>1, <1>2 DEF AppendTo, AppendTorn
<1>a. /\ g \in Groups /\ BatchTs \in Seq(Nat) /\ cols \in SUBSET Columns
      /\ BatchValues \in [Columns -> Nat \X Nat] /\ h = Appended(g, BatchTs, cols, BatchValues)
  BY <1>2, <1>3
<1>b. q = IF Second THEN Tear(h) ELSE h  BY <1>3
<1> HIDE DEF q, h, g, cols
<1>4. /\ h \in Groups /\ h.ts = g.ts \o BatchTs /\ h.torn = g.torn
      /\ \A c \in Columns : h.col[c] = IF c \in cols THEN Append(g.col[c], BatchValues[c]) ELSE g.col[c]
  <2>1. Extends(h, g, BatchTs, cols, BatchValues)  BY <1>a, AppendedTyped
  <2> QED  BY <2>1 DEF Extends
<1>c. q \in Groups /\ (Second => q.torn) /\ (~Second => q = h)
  <2>1. Extends(h, g, BatchTs, cols, BatchValues)  BY <1>a, AppendedTyped
  <2> QED  BY <1>b, <2>1 DEF Extends
<1>7. Written(k, "pv", q)  BY <1>1, <1>5, <1>6 DEF Written, cols
<1>8. /\ DiskTyped(disk') /\ DOMAIN disk' = DOMAIN disk
      /\ file' \in [Keys -> OpenFiles \cup {Closed}] /\ FileInv' /\ Sealed'
      /\ file'[k].open /\ PathOf(file'[k]) = path
      /\ \A p \in DOMAIN disk, t \in SourceNames :
           disk'[p][t] = IF p = path /\ t = "pv" THEN q ELSE disk[p][t]
  BY <1>2, <1>c, <1>7, WrittenDisk DEF SourceNames
<1>9. TableInv'
  <2>1. \A p \in DOMAIN disk : disk'[p]["table"] = disk[p]["table"]  BY <1>8 DEF SourceNames
  <2> QED  BY <1>1, <1>8, <2>1 DEF TableInv
<1>10. /\ work' # NoWork /\ work'.source = "pv" /\ work'.seq = work.seq
       /\ work'.frames = Tail(work.frames) /\ Current' = file'[k]
  <2>1. work' \in Works /\ work'.source = "pv" /\ work'.seq = work.seq /\ work'.frames = Tail(work.frames)
    <3>1. Tail(work.frames) \in Seq(Frames)
      <4>1. work.frames \in Seq(Frames)  BY <1>2 DEF Works
      <4>2. work.frames # <<>>  BY <1>3
      <4> QED  BY <4>1, <4>2
    <3> QED  BY <1>1, <1>2, <3>1 DEF NextFrame, Works
  <2>2. Current' = file'[k]  BY <1>1, <2>1 DEF Current, KeyOf
  <2> QED  BY <2>1, <2>2, NotIdle
<1>11. Half' <=> Tail(work.frames) = <<Frame(work.seq, {"y"})>>
  BY <1>1, <1>10 DEF Half, Frame
<1>12. ASSUME NEW p \in DOMAIN disk'
       PROVE  IF Half' /\ Current'.open /\ p = PathOf(Current')
              THEN disk'[p]["pv"].torn \/ HalfAligned(disk'[p]["pv"], work'.seq)
              ELSE PvGood(disk'[p]["pv"])
  <2>1. CASE p # path
    <3>1. disk'[p]["pv"] = disk[p]["pv"] /\ p \in DOMAIN disk  BY <1>8, <2>1 DEF SourceNames
    <3>2. PvGood(disk[p]["pv"])  BY <1>2, <2>1, <3>1 DEF PvInv, Pending
    <3> QED  BY <1>8, <1>10, <2>1, <3>1, <3>2
  <2>2. CASE p = path
    <3>1. disk'[p]["pv"] = q  BY <1>2, <1>8, <2>2 DEF SourceNames
    <3>2. CASE g.torn \/ Second
      <4>1. q.torn /\ PvGood(q)  BY <1>4, <1>c, <3>2 DEF PvGood
      <4> QED  BY <3>1, <4>1
    <3>3. CASE ~g.torn /\ ~Second /\ (Whole \/ Pair)
      <4>0. q = h /\ lastTs # work.seq  BY <1>c, <3>3 DEF Whole, Pair
      <4>1. ~Half' /\ cols = Columns
        <5>1. CASE Whole
          <6>1. Tail(work.frames) = <<>> /\ cols = Columns  BY <5>1 DEF Whole, Frame, cols
          <6> QED  BY <1>11, <6>1
        <5>2. CASE Pair
          <6>1. Tail(work.frames) = <<Frame(work.seq + 1, Columns)>> /\ cols = Columns
            BY <5>2 DEF Pair, Frame, cols
          <6>2. Frame(work.seq + 1, Columns) # Frame(work.seq, {"y"})  BY <1>2 DEF Frame
          <6> QED  BY <1>11, <6>1, <6>2
        <5> QED  BY <3>3, <5>1, <5>2
      <4>2. \A c \in Columns : Aligned(g, "pv", c)
        BY <1>2, <3>3, <4>0 DEF PvInv, Pending, Half, PvGood, g
      <4>3. \A c \in Columns : Aligned(h, "pv", c)
        <5>1. SUFFICES ASSUME NEW c \in Columns PROVE Aligned(h, "pv", c)  OBVIOUS
        <5>2. /\ h.col[c] = Append(g.col[c], <<work.seq, work.seq>>)
              /\ h.ts = g.ts \o <<work.seq>>
              /\ <<work.seq, work.seq>> \in Nat \X Nat
              /\ <<work.seq, work.seq>>[2] = work.seq
          BY <1>2, <1>3, <1>4, <3>3, <4>0, <4>1
        <5> QED  BY <1>2, <1>4, <4>2, <5>2, AppendAligned
      <4> QED  BY <3>1, <4>0, <4>1, <4>3 DEF PvGood
    <3>4. CASE ~g.torn /\ ~Second /\ Split
      <4>0. q = h /\ lastTs # work.seq  BY <1>c, <3>4 DEF Split
      <4>1. Half' /\ cols = {"x"}
        <5>1. Tail(work.frames) = <<Frame(work.seq, {"y"})>> /\ cols = {"x"}
          BY <3>4 DEF Split, Frame, cols
        <5> QED  BY <1>11, <5>1
      <4>2. \A c \in Columns : Aligned(g, "pv", c)
        BY <1>2, <3>4, <4>0 DEF PvInv, Pending, Half, PvGood, g
      <4>3. /\ h.col["x"] = Append(g.col["x"], <<work.seq, work.seq>>)
            /\ h.col["y"] = g.col["y"] /\ h.ts = g.ts \o <<work.seq>>
            /\ <<work.seq, work.seq>> \in Nat \X Nat
            /\ <<work.seq, work.seq>>[2] = work.seq
        BY <1>2, <1>3, <1>4, <3>4, <4>0, <4>1 DEF Columns
      <4>4. HalfAligned(h, work.seq)  BY <1>2, <1>4, <4>2, <4>3, FirstHalf
      <4> QED  BY <1>8, <1>10, <2>2, <3>1, <4>0, <4>1, <4>4
    <3>5. CASE ~g.torn /\ ~Second /\ Rest
      <4>0. q = h /\ lastTs = work.seq  BY <1>c, <3>5 DEF Rest
      <4>1. ~Half' /\ cols = {"y"}
        <5>1. Tail(work.frames) = <<>> /\ cols = {"y"}  BY <3>5 DEF Rest, Frame, cols
        <5> QED  BY <1>11, <5>1
      <4>2. Half  BY <1>1, <1>2, <3>5, NotIdle DEF Half, Rest
      <4>3. HalfAligned(g, work.seq)  BY <1>2, <3>5, <4>2 DEF PvInv, Pending, g
      <4>4. /\ h.col["y"] = Append(g.col["y"], <<work.seq, work.seq>>)
            /\ h.col["x"] = g.col["x"] /\ h.ts = g.ts
            /\ <<work.seq, work.seq>> \in Nat \X Nat
            /\ <<work.seq, work.seq>>[2] = work.seq
        <5>1. h.ts = g.ts \o <<>> /\ g.ts \in Seq(Nat)  BY <1>2, <1>3, <1>4, <4>0 DEF Groups
        <5>2. h.ts = g.ts  BY <5>1
        <5> QED  BY <1>2, <1>3, <1>4, <3>5, <4>1, <5>2 DEF Columns
      <4>5. PvGood(h)  BY <1>2, <1>4, <4>3, <4>4, SecondHalf
      <4> QED  BY <3>1, <4>0, <4>1, <4>5
    <3> QED  BY <1>3, <3>2, <3>3, <3>4, <3>5
  <2> QED  BY <2>1, <2>2
<1>13. PvInv'  BY <1>12 DEF PvInv, Pending
<1> QED  BY <1>8, <1>9, <1>13 DEF Stored

\* An HDF5 error inside appendFrame() tears the group.
LEMMA AppendFailsStep ==
  ASSUME HDF5Types, FilesInv, WorkInv, AppendFails
  PROVE  Stored
<1> USE DEF FilesInv
<1> DEFINE k == KeyOf("pv")
           path == PathOf(file[k])
           g == disk[path]["pv"]
<1>1. Working("ready") /\ work.source = "pv" /\ work' = NoWork /\ faults' = faults + 1
      /\ mode' = mode /\ buf' = buf
  BY DEF AppendFails, Fail
<1>2. PICK cols \in (SUBSET work.frames[1].cols) \ {work.frames[1].cols} :
         /\ disk' = AppendTorn(Current, "pv", BatchTs, cols, BatchValues)
         /\ file' = [file EXCEPT ![KeyOf("pv")] =
                       Grown(@, IF mode = "merge" THEN Cardinality(cols) ELSE 0)]
  BY DEF AppendFails
<1>3. /\ k \in Keys /\ file[k].open /\ Current = file[k]
      /\ path \in DOMAIN disk /\ g \in Groups
  BY <1>1, ReadyToAppend DEF SourceNames
<1>4. BatchTs \in Seq(Nat) /\ BatchValues \in [Columns -> Nat \X Nat] /\ cols \in SUBSET Columns
  <2>1. work.frames[1].cols \in SUBSET Columns  BY <1>1, PvReady
  <2> QED  BY <1>1, <1>2, <2>1, PvReady
<1> DEFINE h == Appended(g, BatchTs, cols, BatchValues)
           n == IF mode = "merge" THEN Cardinality(cols) ELSE 0
<1>5. disk' = WithGroup(disk, path, "pv", Tear(h))  BY <1>2, <1>3 DEF AppendTorn
<1>6. h = Appended(g, BatchTs, cols, BatchValues)  OBVIOUS
<1> HIDE DEF g, h
<1>7. Tear(h) \in Groups /\ Tear(h).torn
  <2>1. Extends(h, g, BatchTs, cols, BatchValues)  BY <1>3, <1>4, <1>6, AppendedTyped
  <2> QED  BY <2>1 DEF Extends
<1>8. Written(k, "pv", Tear(h))
  <2>1. Cardinality(cols) \in Nat  BY <1>4, ColumnCount
  <2>2. n \in Nat /\ file' = [file EXCEPT ![k] = Grown(file[k], n)]  BY <1>2, <2>1
  <2> HIDE DEF n
  <2> QED  BY <1>1, <1>5, <2>2 DEF Written
<1>9. /\ DiskTyped(disk') /\ DOMAIN disk' = DOMAIN disk
      /\ file' \in [Keys -> OpenFiles \cup {Closed}] /\ FileInv' /\ Sealed'
      /\ \A p \in DOMAIN disk, t \in SourceNames :
           disk'[p][t] = IF p = path /\ t = "pv" THEN Tear(h) ELSE disk[p][t]
  BY <1>3, <1>7, <1>8, WrittenDisk DEF SourceNames
<1>10. TableInv'
  <2>1. \A p \in DOMAIN disk : disk'[p]["table"] = disk[p]["table"]  BY <1>9 DEF SourceNames
  <2> QED  BY <1>1, <1>9, <2>1 DEF TableInv
<1>11. PvInv'
  <2>1. ~Half'  BY <1>1 DEF Half
  <2>2. \A p \in DOMAIN disk : disk'[p]["pv"] = IF p = path THEN Tear(h) ELSE disk[p]["pv"]
    BY <1>9 DEF SourceNames
  <2>3. \A p \in DOMAIN disk : p # path => PvGood(disk[p]["pv"])  BY <1>3 DEF PvInv, Pending
  <2>4. PvGood(Tear(h))  BY <1>7 DEF PvGood
  <2> QED  BY <1>9, <2>1, <2>2, <2>3, <2>4 DEF PvInv, Pending
<1> QED  BY <1>9, <1>10, <1>11 DEF Stored

\* The worker before it flushes the buffer.
LEMMA TableReady ==
  ASSUME HDF5Types, FileInv, WorkInv, BufInv, Working("ready"), work.source = "table",
         buf.known # {}
  PROVE  /\ buf.rows = 1 /\ buf.round \in Nat /\ Head(buf.ts) = buf.round
         /\ buf.known \in SUBSET Columns
         /\ BufferValues \in [Columns -> Nat \X Nat]
         /\ \A c \in Columns : BufferValues[c] = Fill \/ BufferValues[c][2] = buf.round
<1>1. ~Dead  BY ReadyToAppend
<1>2. /\ buf.rows \in {0, 1} /\ buf.round \in Nat /\ buf.known \in SUBSET Columns
      /\ buf.col \in [Columns -> Seq(Nat \X Nat)]
  BY DEF HDF5Types, Buffers
<1>3. buf.rows = 1  BY <1>2 DEF WorkInv, MustFlush, Working
<1>4. /\ buf.ts = <<buf.round>>
      /\ \A c \in Columns : \A i \in DOMAIN buf.col[c] : buf.col[c][i][2] = buf.round
  BY <1>1, <1>3 DEF BufInv
<1>5. Head(buf.ts) = buf.round  BY <1>4
<1>6. ASSUME NEW c \in Columns
      PROVE  /\ BufferValues[c] \in Nat \X Nat
             /\ BufferValues[c] = Fill \/ BufferValues[c][2] = buf.round
  <2>1. BufferValues[c] = IF buf.col[c] = <<>> THEN Fill ELSE Head(buf.col[c])  BY DEF BufferValues
  <2>2. Fill \in Nat \X Nat  BY DEF Fill
  <2>3. CASE buf.col[c] = <<>>  BY <2>1, <2>2, <2>3
  <2>4. CASE buf.col[c] # <<>>
    <3>1. buf.col[c] \in Seq(Nat \X Nat)  BY <1>2
    <3>2. 1 \in DOMAIN buf.col[c] /\ Head(buf.col[c]) = buf.col[c][1] /\ buf.col[c][1] \in Nat \X Nat
      BY <2>4, <3>1
    <3>3. buf.col[c][1][2] = buf.round  BY <1>4, <3>2
    <3> QED  BY <2>1, <2>4, <3>2, <3>3
  <2> QED  BY <2>3, <2>4
<1>7. BufferValues \in [Columns -> Nat \X Nat]
  <2>1. BufferValues = [c \in Columns |-> BufferValues[c]]  BY DEF BufferValues
  <2> QED  BY <1>6, <2>1
<1> QED  BY <1>2, <1>3, <1>5, <1>6, <1>7

\* While the worker has a tabular batch, PvInv is about whole groups.
LEMMA TablePv ==
  ASSUME PvInv, ~Half, ~Half', DOMAIN disk' = DOMAIN disk,
         \A p \in DOMAIN disk : disk'[p]["pv"] = disk[p]["pv"]
  PROVE  PvInv'
BY DEF PvInv, Pending

\* flushTabularBuffer() adds one row to every column of the locked schema.
LEMMA FlushStep ==
  ASSUME HDF5Types, FilesInv, WorkInv, BufInv, FlushTabular \/ FlushTabularFails
  PROVE  Stored
<1> USE DEF FilesInv
<1>1. Working("ready") /\ work.source = "table" /\ mode' = mode
  BY DEF FlushTabular, FlushTabularFails
<1>2. ~Half /\ ~Half'
  <2>1. work' = NoWork \/ work'.source = "table"
    <3>1. work \in Works  BY <1>1, ReadyToAppend
    <3> QED  BY <1>1, <3>1 DEF FlushTabular, FlushTabularFails, Fail, WorkAt, Works
  <2> QED  BY <1>1, <2>1 DEF Half
<1>3. CASE buf.known = {}
  <2>1. /\ disk' = disk /\ file' = file /\ faults' = faults
        /\ buf' = [fixed |-> TRUE, known |-> {}, ts |-> buf.ts, rows |-> 0, round |-> buf.round,
                   col |-> buf.col]
    <3>1. ~FlushTabularFails  BY <1>3 DEF FlushTabularFails
    <3> QED  BY <1>3, <3>1 DEF FlushTabular
  <2>2. TableInv'
    <3>1. buf'.known = {} /\ buf'.fixed = TRUE  BY <2>1
    <3> QED  BY <3>1 DEF TableInv, TableGood
  <2>3. PvInv'  BY <1>2, <2>1, TablePv
  <2>4. FileInv' /\ Sealed'  BY <2>1 DEF FileInv, Sealed
  <2> QED  BY <2>1, <2>2, <2>3, <2>4 DEF Stored, DiskTyped, HDF5Types
<1>4. CASE buf.known # {}
  <2> DEFINE k == KeyOf("table")
             path == PathOf(file[k])
             g == disk[path]["table"]
  <2>1. /\ k \in Keys /\ file[k].open /\ Current = file[k]
        /\ path \in DOMAIN disk /\ g \in Groups
    BY <1>1, ReadyToAppend DEF SourceNames
  <2>2. /\ buf.round \in Nat /\ Head(buf.ts) = buf.round /\ buf.known \in SUBSET Columns
        /\ BufferValues \in [Columns -> Nat \X Nat]
        /\ \A c \in Columns : BufferValues[c] = Fill \/ BufferValues[c][2] = buf.round
    BY <1>1, <1>4, TableReady
  <2>3. <<Head(buf.ts)>> \in Seq(Nat)  BY <2>2
  <2>4. ASSUME NEW h \in Groups, Written(k, "table", h), TableGood(h, buf')
        PROVE  Stored
    <3>1. /\ DiskTyped(disk') /\ DOMAIN disk' = DOMAIN disk
          /\ file' \in [Keys -> OpenFiles \cup {Closed}] /\ FileInv' /\ Sealed'
          /\ \A p \in DOMAIN disk, t \in SourceNames :
               disk'[p][t] = IF p = path /\ t = "table" THEN h ELSE disk[p][t]
      BY <2>1, <2>4, WrittenDisk DEF SourceNames
    <3>2. \A p \in DOMAIN disk : /\ disk'[p]["pv"] = disk[p]["pv"]
                                 /\ disk'[p]["table"] = IF p = path THEN h ELSE disk[p]["table"]
      BY <3>1 DEF SourceNames
    <3>3. PvInv'  BY <1>2, <3>1, <3>2, TablePv
    <3>4. buf'.known = buf.known /\ buf'.fixed = TRUE
      <4>1. buf \in Buffers  BY DEF HDF5Types
      <4>2. CASE FlushTabular  BY <1>4, <4>2 DEF FlushTabular, Flushed
      <4>3. CASE FlushTabularFails  BY <4>1, <4>3 DEF FlushTabularFails, Buffers
      <4> QED  BY <4>2, <4>3
    <3>5. \A p \in DOMAIN disk : TableGood(disk[p]["table"], buf')
      BY <3>4 DEF TableInv, TableGood
    <3>6. TableInv'  BY <2>4, <3>1, <3>2, <3>5 DEF TableInv
    <3> QED  BY <3>1, <3>3, <3>6 DEF Stored
  <2>5. CASE FlushTabular
    <3> DEFINE h == Appended(g, <<Head(buf.ts)>>, buf.known, BufferValues)
               n == IF mode = "merge" THEN Cardinality(buf.known) + 2 ELSE 0
    <3>1. /\ disk' = WithGroup(disk, path, "table", h) /\ faults' = faults
          /\ file' = [file EXCEPT ![k] = Grown(file[k], n)] /\ buf' = Flushed
      BY <1>4, <2>1, <2>5 DEF FlushTabular, AppendTo
    <3>2. n \in Nat
      <4>1. Cardinality(buf.known) \in Nat  BY <2>2, ColumnCount
      <4> QED  BY <4>1
    <3>3. h = Appended(g, <<Head(buf.ts)>>, buf.known, BufferValues)  OBVIOUS
    <3> HIDE DEF h, g, n
    <3>4. Extends(h, g, <<Head(buf.ts)>>, buf.known, BufferValues)
      BY <2>1, <2>2, <2>3, <3>3, AppendedTyped
    <3>5. Written(k, "table", h)  BY <3>1, <3>2 DEF Written
    <3>6. h \in Groups /\ h.ts = g.ts \o <<buf.round>> /\ h.torn = g.torn
          /\ \A c \in buf.known : h.col[c] = Append(g.col[c], BufferValues[c])
      BY <2>2, <3>4 DEF Extends
    <3>7. ASSUME ~h.torn, NEW c \in buf.known PROVE Aligned(h, "table", c)
      <4>1. c \in Columns /\ Aligned(g, "table", c)
        BY <2>1, <2>2, <3>6, <3>7 DEF TableInv, TableGood, g
      <4>2. /\ h.col[c] = Append(g.col[c], BufferValues[c]) /\ BufferValues[c] \in Nat \X Nat
            /\ BufferValues[c] = Fill \/ BufferValues[c][2] = buf.round
        BY <2>2, <3>6, <4>1
      <4> QED  BY <2>1, <2>2, <3>6, <4>1, <4>2, AppendAligned
    <3>8. TableGood(h, buf')
      <4>1. buf'.fixed = TRUE /\ buf'.known = buf.known  BY <3>1 DEF Flushed
      <4> QED  BY <3>7, <4>1 DEF TableGood
    <3> QED  BY <2>4, <3>5, <3>6, <3>8
  <2>6. CASE FlushTabularFails
    <3>1. PICK cols \in (SUBSET buf.known) \ {buf.known} :
            disk' = AppendTorn(Current, "table", <<Head(buf.ts)>>, cols, BufferValues)
      BY <2>6 DEF FlushTabularFails
    <3> DEFINE h == Appended(g, <<Head(buf.ts)>>, cols, BufferValues)
    <3>2. /\ disk' = WithGroup(disk, path, "table", Tear(h)) /\ faults' = faults + 1
          /\ file' = file /\ buf' = [buf EXCEPT !.fixed = TRUE]
      BY <2>1, <2>6, <3>1 DEF FlushTabularFails, AppendTorn, Fail
    <3>3. h = Appended(g, <<Head(buf.ts)>>, cols, BufferValues) /\ cols \in SUBSET Columns
      BY <2>2
    <3> HIDE DEF h, g
    <3>4. Extends(h, g, <<Head(buf.ts)>>, cols, BufferValues)
      BY <2>1, <2>2, <2>3, <3>3, AppendedTyped
    <3>5. Tear(h) \in Groups /\ Tear(h).torn  BY <3>4 DEF Extends
    <3>6. Written(k, "table", Tear(h))  BY <3>2 DEF Written
    <3>7. TableGood(Tear(h), buf')
      <4>1. buf'.fixed = TRUE  BY <3>2 DEF HDF5Types, Buffers
      <4> QED  BY <3>5, <4>1 DEF TableGood
    <3> QED  BY <2>4, <3>5, <3>6, <3>7
  <2> QED  BY <2>5, <2>6
<1> QED  BY <1>3, <1>4

-----------------------------------------------------------------------------
(* The files are sound after every step.                                    *)

\* After files moved, the half-written batch is in a group that is torn.
LEMMA GoodIsSound ==
  ASSUME Moved, buf' = buf,
         Half' /\ Current'.open => disk'[PathOf(Current')]["pv"].torn
  PROVE  Stored
<1>1. TableInv'  BY DEF Moved, DiskGood, TableInv
<1>2. PvInv'  BY DEF Moved, DiskGood, PvInv, Pending
<1> QED  BY <1>1, <1>2 DEF Moved, Stored, FilesInv

\* Opening, closing and rotating keep the files sound.
LEMMA MoveStep ==
  ASSUME HDF5Types, FilesInv, WorkInv, StopInv,
         \/ (Start /\ mode = "merge") \/ (\E k \in Keys : CloseOne(k))
         \/ PoolOpen \/ PoolRotate \/ PoolOpenFails \/ MergeClose \/ MergeOpen
  PROVE  Stored
<1>1. Moved  BY FileMoves
<1>2. buf' = buf /\ mode' = mode
  BY DEF Start, CloseOne, PoolOpen, PoolRotate, PoolOpenFails, MergeClose, MergeOpen
<1>3. CASE Start \/ (\E k \in Keys : CloseOne(k)) \/ PoolOpenFails
  <2>1. work' = NoWork
    BY <1>3 DEF Start, CloseOne, PoolOpenFails, Fail, StopInv
  <2>2. ~Half'  BY <2>1 DEF Half
  <2> QED  BY <1>1, <1>2, <2>2, GoodIsSound
<1>4. CASE MergeClose
  <2>1. mode = "merge" /\ file' = [file EXCEPT !["merged"] = Closed]  BY <1>4 DEF MergeClose
  <2>2. file'["merged"] = Closed  BY <2>1 DEF HDF5Types, Keys
  <2>3. ~Current'.open  BY <1>2, <2>1, <2>2, ClosedTyped DEF Current, KeyOf
  <2> QED  BY <1>1, <1>2, <2>3, GoodIsSound
<1>5. CASE PoolOpen \/ PoolRotate \/ MergeOpen
  <2>1. work \in Works /\ work' = [work EXCEPT !.at = "ready"] /\ lastTs' = lastTs
    BY <1>5 DEF PoolOpen, PoolRotate, MergeOpen, PoolOpened, WorkAt, NeedsFile, Working, HDF5Types
  <2>2. work'.source = work.source /\ work'.seq = work.seq  BY <2>1 DEF Works
  <2>3. \E k \in Keys : \E d :
          /\ DiskTyped(d) /\ DiskGood(d) /\ Current' = FreshFile(k)
          /\ disk' = TornGroup(Truncated(d, k), PathOf(FreshFile(k)))
    <3>1. CASE MergeOpen
      <4>1. /\ file' = [file EXCEPT !["merged"] = FreshFile("merged")]
            /\ disk' = TornGroup(Truncated(disk, "merged"), PathOf(file'["merged"]))
        BY <3>1 DEF MergeOpen
      <4>2. mode = "merge" /\ ~Current.open  BY <3>1 DEF MergeOpen, WorkInv, Working
      <4>3. "merged" \in Keys  BY DEF Keys
      <4>4. file'["merged"] = FreshFile("merged")  BY <4>1, <4>3 DEF HDF5Types
      <4>5. Current' = file'["merged"]  BY <1>2, <4>2 DEF Current, KeyOf
      <4>6. DiskTyped(disk) /\ DiskGood(disk)  BY <4>2, NoneHalf DEF FilesInv
      <4> QED  BY <4>1, <4>3, <4>4, <4>5, <4>6
    <3>2. CASE PoolOpen \/ PoolRotate
      <4> DEFINE k == work.source
      <4>1. mode = "per_source" /\ NeedsFile /\ k \in Keys /\ Current = file[k]
        BY <2>1, <3>2 DEF PoolOpen, PoolRotate, Works, SourceNames, Keys, Current, KeyOf
      <4>2. ASSUME NEW d, PoolOpened(d)
            PROVE  /\ Current' = FreshFile(k)
                   /\ disk' = TornGroup(Truncated(d, k), PathOf(FreshFile(k)))
        <5>1. /\ file' = [file EXCEPT ![k] = FreshFile(k)]
              /\ disk' = TornGroup(Truncated(d, k), PathOf(FreshFile(k)))
          BY <4>2 DEF PoolOpened
        <5>2. Current' = file'[k]  BY <1>2, <2>2, <4>1 DEF Current, KeyOf
        <5>3. file'[k] = FreshFile(k)  BY <4>1, <5>1 DEF HDF5Types
        <5> QED  BY <5>1, <5>2, <5>3
      <4>3. CASE PoolOpen
        <5>1. PoolOpened(disk) /\ ~Current.open  BY <4>3 DEF PoolOpen
        <5>2. DiskTyped(disk) /\ DiskGood(disk)  BY <5>1, NoneHalf DEF FilesInv
        <5> QED  BY <4>1, <4>2, <5>1, <5>2
      <4>4. CASE PoolRotate
        <5> DEFINE old == TornGroup(disk, PathOf(Current))
        <5>1. Current.open /\ \E d \in Finalized(old, Current) : PoolOpened(d)
          BY <4>4 DEF PoolRotate
        <5>2. DiskTyped(old) /\ DiskGood(old) /\ DOMAIN old = DOMAIN disk
          BY <4>1, <5>1, TornBeforeClosing DEF FilesInv
        <5> HIDE DEF old
        <5>3. PICK d \in Finalized(old, Current) : PoolOpened(d)  BY <5>1
        <5>4. Current \in OpenFiles /\ PathOf(Current) \in DOMAIN old
          BY <4>1, <5>1, <5>2, OpenTyped DEF FilesInv, FileInv
        <5>5. DiskTyped(d) /\ DiskGood(d)  BY <5>2, <5>3, <5>4, FinalizedDisk
        <5> QED  BY <4>1, <4>2, <5>3, <5>5
      <4> QED  BY <3>2, <4>3, <4>4
    <3> QED  BY <1>5, <3>1, <3>2
  <2>4. ASSUME Half' PROVE disk'[PathOf(Current')]["pv"].torn
    <3>1. work.source = "pv" /\ lastTs = work.seq  BY <2>1, <2>2, <2>4 DEF Half
    <3> QED  BY <2>3, <3>1, FreshDisk
  <2> QED  BY <1>1, <1>2, <2>4, GoodIsSound
<1> QED  BY <1>3, <1>4, <1>5

\* Buffer b is buf with columns of frame f accumulated.
Takes(b, f, cols) ==
  /\ b \in Buffers /\ b.fixed = buf.fixed /\ b.rows = 1
  /\ b.known = buf.known \cup cols
  /\ b.ts = (IF buf.rows = 0 THEN Append(buf.ts, f.row) ELSE buf.ts)
  /\ b.round = (IF buf.rows = 0 THEN f.row ELSE buf.round)
  /\ \A c \in Columns : b.col[c] = IF c \in cols THEN Append(buf.col[c], <<work.seq, f.row>>)
                                   ELSE buf.col[c]
  /\ buf.fixed => b.known = buf.known

\* accumulateTabularFrame() on a typed buffer.
LEMMA AccumulatedBuffer ==
  ASSUME HDF5Types, NEW f \in Frames, NEW cols \in SUBSET Accepted(f.cols),
         work \in Works, NEW b, b = Accumulated(f, cols)
  PROVE  Takes(b, f, cols)
<1> DEFINE ts == IF buf.rows = 0 THEN Append(buf.ts, f.row) ELSE buf.ts
           round == IF buf.rows = 0 THEN f.row ELSE buf.round
           col == [c \in Columns |-> IF c \in cols THEN Append(buf.col[c], <<work.seq, f.row>>)
                                     ELSE buf.col[c]]
<1>1. /\ buf.fixed \in BOOLEAN /\ buf.known \in SUBSET Columns /\ buf.ts \in Seq(Nat)
      /\ buf.round \in Nat /\ buf.col \in [Columns -> Seq(Nat \X Nat)]
  BY DEF HDF5Types, Buffers
<1>2. f.row \in Nat /\ f.cols \in SUBSET Columns  BY DEF Frames
<1>3. cols \in SUBSET Columns /\ (buf.fixed => cols \subseteq buf.known)  BY <1>2 DEF Accepted
<1>4. ts \in Seq(Nat) /\ round \in Nat  BY <1>1, <1>2
<1>5. \A c \in Columns : col[c] \in Seq(Nat \X Nat)
  <2>1. SUFFICES ASSUME NEW c \in Columns PROVE col[c] \in Seq(Nat \X Nat)  OBVIOUS
  <2>2. <<work.seq, f.row>> \in Nat \X Nat  BY <1>2 DEF Works
  <2>3. buf.col[c] \in Seq(Nat \X Nat)  BY <1>1
  <2>4. Append(buf.col[c], <<work.seq, f.row>>) \in Seq(Nat \X Nat)  BY <2>2, <2>3
  <2> QED  BY <2>3, <2>4
<1>6. col \in [Columns -> Seq(Nat \X Nat)]  BY <1>5
<1>7. b = [fixed |-> buf.fixed, known |-> buf.known \cup cols, rows |-> 1, ts |-> ts,
           round |-> round, col |-> col]
  BY DEF Accumulated
<1>8. \A c \in Columns : col[c] = IF c \in cols THEN Append(buf.col[c], <<work.seq, f.row>>)
                                  ELSE buf.col[c]
  OBVIOUS
<1>9. buf.known \cup cols \in SUBSET Columns  BY <1>1, <1>3
<1> HIDE DEF ts, round, col
<1>10. /\ b \in Buffers /\ b.fixed = buf.fixed /\ b.rows = 1 /\ b.known = buf.known \cup cols
       /\ b.ts = ts /\ b.round = round /\ b.col = col
  BY <1>1, <1>4, <1>6, <1>7, <1>9 DEF Buffers
<1>11. buf.fixed => b.known = buf.known  BY <1>3, <1>10
<1> QED  BY <1>8, <1>10, <1>11 DEF ts, round, Takes

\* The head and the tail of a sequence that is not empty.
LEMMA OneOf ==
  ASSUME NEW S, NEW q \in Seq(S), q # <<>>
  PROVE  q[1] \in S /\ (Len(q) <= 1 => Len(q) = 1 /\ Tail(q) = <<>>) /\ Tail(q) \in Seq(S)
<1>1. Len(q) # 0 /\ Len(q) \in Nat  OBVIOUS
<1>2. q[1] \in S  BY <1>1
<1>3. Tail(q) \in Seq(S)  BY <1>1
<1>4. ASSUME Len(q) <= 1 PROVE Len(q) = 1 /\ Tail(q) = <<>>
  <2> DEFINE n == Len(q)
  <2>0. n \in Nat /\ n # 0 /\ n <= 1  BY <1>1, <1>4
  <2> HIDE DEF n
  <2>a. n = 1  BY <2>0
  <2>1. Len(q) = 1  BY <2>a DEF n
  <2>2. Len(Tail(q)) = 0
    <3>1. Len(Tail(q)) = Len(q) - 1  BY HeadTailProperties
    <3> QED  BY <2>1, <3>1
  <2> QED  BY <1>3, <2>1, <2>2, EmptySeq
<1> QED  BY <1>2, <1>3, <1>4

\* A tabular frame being accumulated, whole or in part.
LEMMA AccumulateWhat ==
  ASSUME HDF5Types, WorkInv, Accumulate \/ AccumulateFails
  PROVE  /\ work \in Works /\ work # NoWork /\ work.source = "table" /\ AtAccumulate
         /\ work.frames[1] \in Frames /\ work.frames # <<>> /\ Len(work.frames) = 1
         /\ ~work.end
         /\ \E cols \in SUBSET Accepted(work.frames[1].cols) : Takes(buf', work.frames[1], cols)
<1>1. AtAccumulate /\ work.frames # <<>>  BY DEF Accumulate, AccumulateFails
<1>2. work \in Works /\ work # NoWork /\ work.source = "table"
  BY <1>1 DEF AtAccumulate, HDF5Types
<1>3. work.frames \in Seq(Frames) /\ Len(work.frames) <= 1 /\ (work.end => work.frames = <<>>)
  BY <1>2 DEF WorkInv, Works
<1>4. Len(work.frames) = 1 /\ work.frames[1] \in Frames
  BY <1>1, <1>3, OneOf
<1>5. \E cols \in SUBSET Accepted(work.frames[1].cols) :
              buf' = Accumulated(work.frames[1], cols)
  BY DEF Accumulate, AccumulateFails
<1>6. \E cols \in SUBSET Accepted(work.frames[1].cols) : Takes(buf', work.frames[1], cols)
  BY <1>2, <1>4, <1>5, AccumulatedBuffer
<1> QED  BY <1>1, <1>2, <1>3, <1>4, <1>6

Quiet == \/ (Start /\ mode # "merge") \/ DoStop \/ OnHDF5Stop \/ FlushTest \/ FlushUse \/ Tick
         \/ Take \/ BatchDone \/ AcquireFile \/ MergeOpenFails \/ SkipWithoutFile
         \/ Accumulate \/ AccumulateFails \/ EndOfGroup

\* The steps that touch no file keep the files sound.
LEMMA QuietStep ==
  ASSUME HDF5Types, FilesInv, WorkInv, StopInv, Quiet
  PROVE  Stored
<1> USE DEF FilesInv
<1>1. disk' = disk /\ file' = file /\ mode' = mode /\ (faults' = faults \/ faults' = faults + 1)
  BY DEF Quiet, Start, DoStop, OnHDF5Stop, FlushTest, FlushUse, Tick, Take, BatchDone, AcquireFile,
         MergeOpenFails, SkipWithoutFile, Accumulate, AccumulateFails, EndOfGroup, Fail
<1>2. FileInv' /\ Sealed'
  <2>1. faults' = 0 => faults = 0  BY <1>1 DEF HDF5Types
  <2> QED  BY <1>1, <2>1 DEF FileInv, Sealed
<1>3. TableInv'
  <2>1. CASE Accumulate \/ AccumulateFails
    <3>1. PICK cols \in SUBSET Accepted(work.frames[1].cols) : Takes(buf', work.frames[1], cols)
      BY <2>1, AccumulateWhat
    <3>2. buf' \in Buffers /\ buf'.fixed = buf.fixed /\ (buf.fixed => buf'.known = buf.known)
      BY <3>1 DEF Takes
    <3>3. ASSUME NEW g, TableGood(g, buf) PROVE TableGood(g, buf')
      <4>1. CASE buf.fixed  BY <3>2, <3>3, <4>1 DEF TableGood
      <4>2. CASE ~buf.fixed
        <5>1. g.ts = <<>> /\ \A c \in Columns : g.col[c] = <<>>  BY <3>3, <4>2 DEF TableGood
        <5>2. \A c \in Columns : Aligned(g, "table", c)  BY <5>1 DEF Aligned, Matching
        <5>3. buf'.known \subseteq Columns  BY <3>2 DEF Buffers
        <5> QED  BY <5>1, <5>2, <5>3 DEF TableGood
      <4> QED  BY <4>1, <4>2
    <3> QED  BY <1>1, <3>3 DEF TableInv
  <2>2. CASE ~(Accumulate \/ AccumulateFails)
    <3>1. buf' = buf
      BY <2>2 DEF Quiet, Start, DoStop, OnHDF5Stop, FlushTest, FlushUse, Tick, Take, BatchDone,
         AcquireFile, MergeOpenFails, SkipWithoutFile, EndOfGroup, Fail
    <3> QED  BY <1>1, <3>1 DEF TableInv
  <2> QED  BY <2>1, <2>2
<1>4. PvInv'
  <2>1. CASE work' = work /\ lastTs' = lastTs
    BY <1>1, <2>1 DEF PvInv, Pending, Half, Current, KeyOf
  <2>2. CASE (~Half \/ ~Current.open) /\ ~Half'
    BY <1>1, <2>2 DEF PvInv, Pending
  <2>3. CASE AcquireFile
    <3>1. work \in Works /\ work' = [work EXCEPT !.at = IF Current.open THEN "ready" ELSE "noFile"]
          /\ lastTs' = lastTs
      BY <2>3 DEF AcquireFile, WorkAt, NeedsFile, Working, HDF5Types
    <3>2. /\ work' \in Works /\ work'.source = work.source /\ work'.seq = work.seq
          /\ work'.frames = work.frames
      BY <3>1 DEF Works
    <3>3. (Half' <=> Half) /\ Current' = Current
      BY <1>1, <3>1, <3>2, NotIdle DEF Half, Current, KeyOf
    <3> QED  BY <1>1, <3>2, <3>3 DEF PvInv, Pending
  <2>4. CASE Start \/ DoStop \/ OnHDF5Stop \/ FlushTest \/ FlushUse \/ Tick
    BY <2>1, <2>4 DEF Start, DoStop, OnHDF5Stop, FlushTest, FlushUse, Tick
  <2>5. CASE Take
    <3>1. PICK b \in Batch(batchSeq') :
            work' = [source |-> b.source, seq |-> batchSeq', frames |-> b.frames, end |-> b.end,
                     at |-> "frame"]
      BY <2>5 DEF Take
    <3>2. work = NoWork /\ batchSeq' = batchSeq + 1 /\ lastTs' = lastTs  BY <2>5 DEF Take
    <3>3. lastTs' # work'.seq  BY <3>1, <3>2 DEF WorkInv, HDF5Types
    <3> QED  BY <2>2, <3>2, <3>3 DEF Half
  <2>6. CASE BatchDone \/ EndOfGroup \/ MergeOpenFails
    <3>1. work' = NoWork  BY <2>6 DEF BatchDone, EndOfGroup, MergeOpenFails, Fail
    <3>2. ~Half \/ ~Current.open
      <4>1. CASE BatchDone
        <5>1. work.frames = <<>>  BY <4>1 DEF BatchDone
        <5> QED  BY <5>1 DEF Half
      <4>2. CASE EndOfGroup  BY <4>2 DEF EndOfGroup, AtAccumulate, Half
      <4>3. CASE MergeOpenFails  BY <4>3 DEF MergeOpenFails, WorkInv, Working
      <4> QED  BY <2>6, <4>1, <4>2, <4>3
    <3> QED  BY <2>2, <3>1, <3>2 DEF Half
  <2>7. CASE SkipWithoutFile
    <3>1. /\ work # NoWork /\ work.at = "noFile" /\ Dead
      BY <2>7 DEF SkipWithoutFile, WorkInv, Working
    <3>2. ~Current.open  BY <3>1 DEF Dead, Current, KeyOf
    <3>3. ~Half  BY <3>1, <3>2 DEF WorkInv
    <3>4. work \in Works  BY <3>1 DEF HDF5Types
    <3>5. work'.source = work.source /\ work'.seq = work.seq /\ lastTs' = lastTs
      BY <2>7, <3>4 DEF SkipWithoutFile, NextFrame, WorkAt, Works
    <3>6. Current' = Current  BY <1>1, <3>5 DEF Current, KeyOf
    <3> QED  BY <1>1, <3>2, <3>6 DEF PvInv, Pending
  <2>8. CASE Accumulate \/ AccumulateFails
    <3>1. work.source = "table" /\ work \in Works  BY <2>8, AccumulateWhat
    <3>2. work' = NoWork \/ work'.source = "table"
      BY <2>8, <3>1 DEF Accumulate, AccumulateFails, Fail, NextFrame
    <3> QED  BY <2>2, <3>1, <3>2 DEF Half
  <2> QED  BY <2>3, <2>4, <2>5, <2>6, <2>7, <2>8 DEF Quiet
<1> QED  BY <1>1, <1>2, <1>3, <1>4 DEF Stored, DiskTyped, HDF5Types

\* Every step keeps the files sound.
LEMMA StoredStep ==
  ASSUME FileIInv, HDF5Next
  PROVE  Stored
<1> USE DEF FileIInv
<1>1. CASE (Start /\ mode = "merge") \/ (\E k \in Keys : CloseOne(k))
           \/ PoolOpen \/ PoolRotate \/ PoolOpenFails \/ MergeClose \/ MergeOpen
  BY <1>1, MoveStep
<1>2. CASE Quiet  BY <1>2, QuietStep
<1>3. CASE AppendFrame  BY <1>3, AppendFrameStep
<1>4. CASE AppendFails  BY <1>4, AppendFailsStep
<1>5. CASE FlushTabular \/ FlushTabularFails  BY <1>5, FlushStep
<1> QED  BY <1>1, <1>2, <1>3, <1>4, <1>5 DEF HDF5Next, Quiet

-----------------------------------------------------------------------------
(* The worker, the buffer and the types.                                    *)

\* Sequences of up to two elements.
LEMMA ShortSeqs ==
  ASSUME NEW S
  PROVE  /\ <<>> \in Seq(S)
         /\ \A a \in S : <<a>> \in Seq(S)
         /\ \A a, b \in S : <<a, b>> \in Seq(S)
OBVIOUS

\* The batches a worker takes.
LEMMA TakeWhat ==
  ASSUME HDF5Types, Take
  PROVE  /\ work' \in Works /\ work'.seq = batchSeq + 1 /\ work'.at = "frame"
         /\ batchSeq' = batchSeq + 1
         /\ work'.source = "pv" =>
              /\ ~work'.end
              /\ \/ work'.frames = <<Frame(work'.seq, Columns)>>
                 \/ work'.frames = <<Frame(work'.seq, {"x"}), Frame(work'.seq, {"y"})>>
                 \/ work'.frames = <<Frame(work'.seq, Columns), Frame(work'.seq + 1, Columns)>>
         /\ work'.source = "table" =>
              Len(work'.frames) <= 1 /\ (work'.end => work'.frames = <<>>)
<1> DEFINE n == batchSeq'
<1>1. n = batchSeq + 1 /\ n \in Nat  BY DEF Take, HDF5Types
<1>2. PICK b \in Batch(n) :
        work' = [source |-> b.source, seq |-> n, frames |-> b.frames, end |-> b.end, at |-> "frame"]
  BY DEF Take
<1> HIDE DEF n
<1>3. buf.round \in Nat  BY DEF HDF5Types, Buffers
<1>4. \A r \in Nat, cs \in SUBSET Columns : Frame(r, cs) \in Frames  BY DEF Frame, Frames
<1>5. {"x"} \in SUBSET Columns /\ {"y"} \in SUBSET Columns /\ Columns \in SUBSET Columns
  BY DEF Columns
<1> DEFINE ordinary == {<<Frame(n, Columns)>>, <<Frame(n, {"x"}), Frame(n, {"y"})>>,
                       <<Frame(n, Columns), Frame(n + 1, Columns)>>}
<1>6. \/ b.source = "pv" /\ b.end = FALSE /\ b.frames \in ordinary
      \/ /\ b.source = "table" /\ b.end = FALSE
         /\ \E r \in Nat, cs \in SUBSET Columns : b.frames = <<Frame(r, cs)>>
      \/ b.source = "table" /\ b.end = TRUE /\ b.frames = <<>>
  <2> DEFINE pvs == {[source |-> "pv", frames |-> f, end |-> FALSE] : f \in ordinary}
             rows == {IF buf.round = 0 THEN n ELSE buf.round, n}
             tables == {[source |-> "table", frames |-> <<Frame(r, cs)>>, end |-> FALSE] :
                          r \in rows, cs \in SUBSET Columns}
             ends == {[source |-> "table", frames |-> <<>>, end |-> TRUE]}
  <2>1. b \in pvs \/ b \in tables \/ b \in ends  BY <1>2 DEF Batch
  <2>2. CASE b \in pvs
    <3>1. PICK f \in ordinary : b = [source |-> "pv", frames |-> f, end |-> FALSE]
      BY <2>2
    <3> QED  BY <3>1
  <2>3. CASE b \in tables
    <3>1. PICK r \in rows, cs \in SUBSET Columns :
            b = [source |-> "table", frames |-> <<Frame(r, cs)>>, end |-> FALSE]
      BY <2>3
    <3>2. r \in Nat  BY <1>1, <1>3
    <3> QED  BY <3>1, <3>2
  <2>4. CASE b \in ends  BY <2>4
  <2> HIDE DEF pvs, tables, ends
  <2> QED  BY <2>1, <2>2, <2>3, <2>4
<1>7. b.frames \in Seq(Frames) /\ b.source \in SourceNames /\ b.end \in BOOLEAN
  <2>1. b.source \in SourceNames /\ b.end \in BOOLEAN  BY <1>6 DEF SourceNames
  <2>2. CASE b.frames \in ordinary
    <3>1. /\ Frame(n, Columns) \in Frames /\ Frame(n, {"x"}) \in Frames /\ Frame(n, {"y"}) \in Frames
          /\ Frame(n + 1, Columns) \in Frames
      BY <1>1, <1>4, <1>5
    <3>2. \A a \in Frames : <<a>> \in Seq(Frames)  BY ShortSeqs
    <3>3. \A a1, a2 \in Frames : <<a1, a2>> \in Seq(Frames)  BY ShortSeqs
    <3>4. b.frames \in Seq(Frames)  BY <2>2, <3>1, <3>2, <3>3
    <3> QED  BY <2>1, <3>4
  <2>3. CASE \E r \in Nat, cs \in SUBSET Columns : b.frames = <<Frame(r, cs)>>
    <3>1. PICK r \in Nat, cs \in SUBSET Columns : b.frames = <<Frame(r, cs)>>  BY <2>3
    <3>2. Frame(r, cs) \in Frames  BY <1>4
    <3> QED  BY <2>1, <3>1, <3>2, ShortSeqs
  <2>4. CASE b.frames = <<>>  BY <2>1, <2>4, ShortSeqs
  <2> QED  BY <1>6, <2>2, <2>3, <2>4
<1>8. /\ work' \in Works /\ work'.seq = n /\ work'.at = "frame" /\ work'.source = b.source
      /\ work'.end = b.end /\ work'.frames = b.frames
  BY <1>1, <1>2, <1>7 DEF Works
<1>9. b.source = "table" => Len(b.frames) <= 1 /\ (b.end => b.frames = <<>>)
  <2>1. CASE b.frames = <<>>  BY <2>1
  <2>2. CASE b.end = FALSE /\ \E r \in Nat, cs \in SUBSET Columns : b.frames = <<Frame(r, cs)>>
    <3>1. PICK r \in Nat, cs \in SUBSET Columns : b.frames = <<Frame(r, cs)>>  BY <2>2
    <3>2. Len(<<Frame(r, cs)>>) = 1  OBVIOUS
    <3> QED  BY <2>2, <3>1, <3>2
  <2> QED  BY <1>6, <2>1, <2>2
<1> QED  BY <1>1, <1>6, <1>8, <1>9 DEF n

\* Moving the worker to another control point.
LEMMA WorkTyped ==
  ASSUME HDF5Types, NEW at \in {"frame", "rotating", "noFile", "ready", "flushed"},
         work \in Works, WorkAt(at)
  PROVE  /\ work' \in Works /\ work'.at = at /\ work'.source = work.source
         /\ work'.seq = work.seq /\ work'.frames = work.frames /\ work'.end = work.end
BY DEF WorkAt, Works

\* Dropping the first frame of the batch.
LEMMA NextTyped ==
  ASSUME HDF5Types, work \in Works, work.frames # <<>>, NextFrame
  PROVE  /\ work' \in Works /\ work'.at = "frame" /\ work'.source = work.source
         /\ work'.seq = work.seq /\ work'.frames = Tail(work.frames) /\ work'.end = work.end
<1>1. work.frames \in Seq(Frames)  BY DEF Works
<1>2. Tail(work.frames) \in Seq(Frames)  BY <1>1, OneOf
<1> QED  BY <1>2 DEF NextFrame, Works

\* What each step does to the worker.
LEMMA WorkerMoves ==
  ASSUME HDF5Types, WorkInv, StopInv, HDF5Next
  PROVE  \/ work' = work
         \/ work' = NoWork
         \/ work' \in Works
<1>1. CASE Start \/ DoStop \/ OnHDF5Stop \/ (\E k \in Keys : CloseOne(k)) \/ FlushTest \/ FlushUse \/ Tick
  BY <1>1 DEF Start, DoStop, OnHDF5Stop, CloseOne, FlushTest, FlushUse, Tick
<1>2. CASE BatchDone \/ PoolOpenFails \/ MergeOpenFails \/ AppendFails \/ FlushTabularFails
           \/ AccumulateFails \/ EndOfGroup
  BY <1>2 DEF BatchDone, PoolOpenFails, MergeOpenFails, AppendFails, FlushTabularFails,
              AccumulateFails, EndOfGroup, Fail
<1>3. CASE Take  BY <1>3, TakeWhat
<1>4. CASE AcquireFile \/ PoolOpen \/ PoolRotate \/ MergeClose \/ MergeOpen \/ FlushTabular
  <2>1. work \in Works
    BY <1>4 DEF AcquireFile, PoolOpen, PoolRotate, MergeClose, MergeOpen, FlushTabular, NeedsFile,
                Working, HDF5Types
  <2>2. \E at \in {"frame", "rotating", "noFile", "ready", "flushed"} : WorkAt(at)
    BY <1>4 DEF AcquireFile, PoolOpen, PoolRotate, MergeClose, MergeOpen, FlushTabular, PoolOpened
  <2> QED  BY <2>1, <2>2, WorkTyped
<1>5. CASE AppendFrame \/ Accumulate
  <2>1. work \in Works /\ work.frames # <<>> /\ NextFrame
    <3>1. CASE Accumulate  BY <3>1, AccumulateWhat DEF Accumulate
    <3>2. CASE AppendFrame
      BY <3>2 DEF AppendFrame, Working, HDF5Types, WorkInv, PvFrames
    <3> QED  BY <1>5, <3>1, <3>2
  <2> QED  BY <2>1, NextTyped
<1>6. CASE SkipWithoutFile
  <2>1. work \in Works /\ work.at = "noFile"  BY <1>6 DEF SkipWithoutFile, Working, HDF5Types
  <2>2. CASE work.source = "pv"
    <3>1. work.frames # <<>> /\ NextFrame
      BY <1>6, <2>1, <2>2, NotIdle DEF SkipWithoutFile, WorkInv, PvFrames
    <3> QED  BY <2>1, <3>1, NextTyped
  <2>3. CASE work.source # "pv"
    <3>1. WorkAt("flushed")  BY <1>6, <2>3 DEF SkipWithoutFile
    <3> QED  BY <2>1, <3>1, WorkTyped
  <2> QED  BY <2>2, <2>3
<1> QED  BY <1>1, <1>2, <1>3, <1>4, <1>5, <1>6 DEF HDF5Next

\* What the steps do to the counters and control points.
Counters ==
  /\ mode' = mode
  /\ phase' \in {"new", "running", "joining", "stopped"} /\ (phase' = "new" => phase = "new")
  /\ flush' \in {"off", "loop", "use", "last", "lastUse", "done", "nullDereference"}
  /\ clock' \in Nat /\ batchSeq' \in Nat /\ lastTs' \in Nat /\ fseq' \in Nat
  /\ faults' \in Nat /\ faults' >= faults

\* Every step keeps the counters and control points typed.
LEMMA CountersStep ==
  ASSUME HDF5Types, HDF5Next
  PROVE  Counters
<1> USE DEF HDF5Types, Counters
<1>1. CASE Start \/ DoStop \/ OnHDF5Stop \/ Tick
  BY <1>1 DEF Start, DoStop, OnHDF5Stop, Tick
<1>2. CASE \E k \in Keys : CloseOne(k)  BY <1>2 DEF CloseOne
<1>3. CASE FlushTest \/ FlushUse  BY <1>3 DEF FlushTest, FlushUse
<1>4. CASE Take \/ BatchDone \/ AcquireFile \/ PoolOpen
  BY <1>4 DEF Take, BatchDone, AcquireFile, PoolOpen
<1>5. CASE PoolRotate \/ PoolOpenFails  BY <1>5 DEF PoolRotate, PoolOpenFails, Fail
<1>6. CASE MergeClose \/ MergeOpen \/ MergeOpenFails
  BY <1>6 DEF MergeClose, MergeOpen, MergeOpenFails, Fail
<1>7. CASE AppendFrame \/ AppendFails
  <2>1. work.seq \in Nat  BY <1>7 DEF AppendFrame, AppendFails, Working, Works
  <2> QED  BY <1>7, <2>1 DEF AppendFrame, AppendFails, Fail
<1>8. CASE SkipWithoutFile \/ FlushTabular \/ FlushTabularFails
  BY <1>8 DEF SkipWithoutFile, FlushTabular, FlushTabularFails, Fail
<1>9. CASE Accumulate \/ AccumulateFails \/ EndOfGroup
  BY <1>9 DEF Accumulate, AccumulateFails, EndOfGroup, Fail
<1> QED  BY <1>1, <1>2, <1>3, <1>4, <1>5, <1>6, <1>7, <1>8, <1>9 DEF HDF5Next

\* The steps that leave the buffer alone.
LEMMA BufferKept ==
  ASSUME HDF5Next
  PROVE  buf' = buf \/ FlushTabular \/ FlushTabularFails \/ Accumulate \/ AccumulateFails
<1>1. CASE Start \/ DoStop \/ OnHDF5Stop \/ Tick \/ (\E k \in Keys : CloseOne(k)) \/ FlushTest \/ FlushUse
  BY <1>1 DEF Start, DoStop, OnHDF5Stop, Tick, CloseOne, FlushTest, FlushUse
<1>2. CASE Take \/ BatchDone \/ AcquireFile \/ PoolOpen \/ PoolRotate \/ PoolOpenFails
  BY <1>2 DEF Take, BatchDone, AcquireFile, PoolOpen, PoolRotate, PoolOpenFails
<1>3. CASE MergeClose \/ MergeOpen \/ MergeOpenFails \/ AppendFrame \/ AppendFails
           \/ SkipWithoutFile \/ EndOfGroup
  BY <1>3 DEF MergeClose, MergeOpen, MergeOpenFails, AppendFrame, AppendFails, SkipWithoutFile,
              EndOfGroup
<1> QED  BY <1>1, <1>2, <1>3 DEF HDF5Next

\* The buffer after a flush or an attempted one.
LEMMA FlushedBuffer ==
  ASSUME HDF5Types, FlushTabular \/ FlushTabularFails
  PROVE  /\ buf' \in Buffers /\ buf'.known = buf.known /\ buf'.fixed = TRUE
         /\ \/ buf'.rows = 0 /\ buf.known = {} /\ buf'.col = buf.col
            \/ /\ buf'.rows = 0 /\ buf'.ts = <<>>
               /\ \A c \in Columns : buf'.col[c] = <<>>
            \/ /\ buf'.rows = buf.rows /\ buf'.ts = buf.ts /\ buf'.round = buf.round
               /\ buf'.col = buf.col
         /\ FlushTabular => buf'.rows = 0
<1>1. /\ buf.known \in SUBSET Columns /\ buf.rows \in {0, 1} /\ buf.ts \in Seq(Nat)
      /\ buf.round \in Nat /\ buf.col \in [Columns -> Seq(Nat \X Nat)] /\ buf.fixed \in BOOLEAN
  BY DEF HDF5Types, Buffers
<1>2. CASE FlushTabularFails
  <2>1. buf' = [buf EXCEPT !.fixed = TRUE]  BY <1>2 DEF FlushTabularFails
  <2>2. /\ buf' \in Buffers /\ buf'.known = buf.known /\ buf'.fixed = TRUE
        /\ buf'.rows = buf.rows /\ buf'.ts = buf.ts /\ buf'.round = buf.round
        /\ buf'.col = buf.col
    BY <2>1 DEF HDF5Types, Buffers
  <2>3. ~FlushTabular \/ buf'.rows = 0
    BY <1>2 DEF FlushTabularFails, FlushTabular, Fail, WorkAt, Working, NoWork, Flushed
  <2> QED  BY <2>2, <2>3
<1>3. CASE FlushTabular /\ buf.known = {}
  <2>1. buf' = [fixed |-> TRUE, known |-> {}, ts |-> buf.ts, rows |-> 0, round |-> buf.round,
                col |-> buf.col]
    BY <1>3 DEF FlushTabular
  <2>2. buf' \in Buffers /\ buf'.known = {} /\ buf'.fixed = TRUE /\ buf'.rows = 0
        /\ buf'.col = buf.col
    BY <1>1, <2>1 DEF Buffers
  <2> QED  BY <1>3, <2>2
<1>4. CASE FlushTabular /\ buf.known # {}
  <2> DEFINE none == [c \in Columns |-> <<>>]
  <2>1. buf' = [fixed |-> TRUE, known |-> buf.known, ts |-> <<>>, rows |-> 0, round |-> 0,
                col |-> none]
    BY <1>4 DEF FlushTabular, Flushed
  <2>2. \A c \in Columns : none[c] = <<>>  OBVIOUS
  <2>3. none \in [Columns -> Seq(Nat \X Nat)]  BY ShortSeqs
  <2>4. <<>> \in Seq(Nat)  BY ShortSeqs
  <2> HIDE DEF none
  <2>5. buf' \in Buffers /\ buf'.known = buf.known /\ buf'.fixed = TRUE /\ buf'.rows = 0
        /\ buf'.ts = <<>> /\ buf'.col = none
    BY <1>1, <2>1, <2>3, <2>4 DEF Buffers
  <2> QED  BY <2>2, <2>5
<1> QED  BY <1>2, <1>3, <1>4

\* Every step keeps the state typed.
LEMMA TypesStep ==
  ASSUME FileIInv, HDF5Next
  PROVE  HDF5Types'
<1>1. HDF5Types /\ WorkInv /\ StopInv  BY DEF FileIInv
<1>2. Counters  BY <1>1, CountersStep
<1>3. Stored  BY StoredStep
<1>4. work' \in Works \cup {NoWork}  BY <1>1, WorkerMoves DEF HDF5Types
<1>5. buf' \in Buffers
  <2>1. CASE buf' = buf  BY <1>1, <2>1 DEF HDF5Types
  <2>2. CASE FlushTabular \/ FlushTabularFails  BY <1>1, <2>2, FlushedBuffer
  <2>3. CASE Accumulate \/ AccumulateFails  BY <1>1, <2>3, AccumulateWhat DEF Takes
  <2> QED  BY <2>1, <2>2, <2>3, BufferKept
<1>6. mode' \in {"per_source", "merge"}  BY <1>1, <1>2 DEF HDF5Types, Counters
<1> QED  BY <1>2, <1>3, <1>4, <1>5, <1>6 DEF HDF5Types, Counters, Stored, DiskTyped

-----------------------------------------------------------------------------
(* The phases, and the file of the merge writer.                            *)

WorkerStep ==
  \/ Take \/ BatchDone \/ AcquireFile \/ PoolOpen \/ PoolRotate \/ PoolOpenFails
  \/ MergeClose \/ MergeOpen \/ MergeOpenFails
  \/ AppendFrame \/ AppendFails \/ SkipWithoutFile
  \/ FlushTabular \/ FlushTabularFails \/ Accumulate \/ AccumulateFails \/ EndOfGroup

\* The worker touches neither the phase nor the flush thread.
LEMMA WorkerFrame ==
  ASSUME WorkerStep
  PROVE  /\ phase' = phase /\ flush' = flush /\ mode' = mode
         /\ Take \/ work # NoWork
<1>1. CASE Take \/ BatchDone \/ AcquireFile \/ PoolOpen \/ PoolRotate \/ PoolOpenFails
  BY <1>1 DEF Take, BatchDone, AcquireFile, PoolOpen, PoolRotate, PoolOpenFails, NeedsFile, Working
<1>2. CASE MergeClose \/ MergeOpen \/ MergeOpenFails \/ AppendFrame \/ AppendFails \/ SkipWithoutFile
  BY <1>2 DEF MergeClose, MergeOpen, MergeOpenFails, AppendFrame, AppendFails, SkipWithoutFile,
              NeedsFile, Working
<1>3. CASE FlushTabular \/ FlushTabularFails \/ Accumulate \/ AccumulateFails \/ EndOfGroup
  BY <1>3 DEF FlushTabular, FlushTabularFails, Accumulate, AccumulateFails, EndOfGroup,
              AtAccumulate, Working
<1> QED  BY <1>1, <1>2, <1>3 DEF WorkerStep

\* Which steps a phase allows.
LEMMA PhaseSteps ==
  ASSUME HDF5Types, StopInv, HDF5Next
  PROVE  \/ phase = "new" /\ Start
         \/ phase = "joining" /\ flush = "done" /\ (OnHDF5Stop \/ \E k \in Keys : CloseOne(k))
         \/ phase \in {"running", "joining"} /\ (FlushTest \/ FlushUse)
         \/ phase = "running" /\ (DoStop \/ Tick \/ WorkerStep)
<1>1. CASE Start  BY <1>1 DEF Start
<1>2. CASE OnHDF5Stop \/ \E k \in Keys : CloseOne(k)  BY <1>2 DEF OnHDF5Stop, CloseOne
<1>3. CASE FlushTest \/ FlushUse
  <2>1. flush \in {"loop", "last", "use", "lastUse"}  BY <1>3 DEF FlushTest, FlushUse
  <2> QED  BY <1>3, <2>1 DEF StopInv, HDF5Types
<1>4. CASE DoStop \/ Tick  BY <1>4 DEF DoStop, Tick
<1>5. CASE WorkerStep
  <2>1. Take \/ work # NoWork  BY <1>5, WorkerFrame
  <2>2. phase = "running"  BY <2>1 DEF Take, StopInv
  <2> QED  BY <1>5, <2>2
<1> QED  BY <1>1, <1>2, <1>3, <1>4, <1>5 DEF HDF5Next, WorkerStep

\* A rotation begins in MergeClose and ends in MergeOpen or MergeOpenFails.
LEMMA RotationSteps ==
  ASSUME HDF5Types, WorkInv, StopInv, HDF5Next
  PROVE  /\ Working("rotating")' => MergeClose \/ work' = work
         /\ Working("rotating") => MergeOpen \/ MergeOpenFails \/ work' = work
<1>1. CASE Start \/ DoStop \/ OnHDF5Stop \/ (\E k \in Keys : CloseOne(k)) \/ FlushTest \/ FlushUse \/ Tick
  BY <1>1 DEF Start, DoStop, OnHDF5Stop, CloseOne, FlushTest, FlushUse, Tick
<1>2. CASE BatchDone \/ PoolOpenFails \/ MergeOpenFails \/ AppendFails \/ FlushTabularFails
           \/ AccumulateFails \/ EndOfGroup
  <2>1. work' = NoWork
    BY <1>2 DEF BatchDone, PoolOpenFails, MergeOpenFails, AppendFails, FlushTabularFails,
                AccumulateFails, EndOfGroup, Fail
  <2>2. MergeOpenFails \/ ~Working("rotating")
    BY <1>2 DEF BatchDone, PoolOpenFails, AppendFails, FlushTabularFails,
                AccumulateFails, EndOfGroup, NeedsFile, AtAccumulate, Working
  <2> QED  BY <2>1, <2>2 DEF Working
<1>3. CASE Take
  <2>1. work'.at = "frame" /\ work = NoWork  BY <1>3, TakeWhat DEF Take
  <2> QED  BY <2>1 DEF Working
<1>4. CASE AcquireFile \/ PoolOpen \/ PoolRotate \/ MergeOpen \/ FlushTabular
  <2>1. work \in Works
    BY <1>4 DEF AcquireFile, PoolOpen, PoolRotate, MergeOpen, FlushTabular, NeedsFile,
                Working, HDF5Types
  <2>2. \E at \in {"frame", "noFile", "ready", "flushed"} : WorkAt(at)
    BY <1>4 DEF AcquireFile, PoolOpen, PoolRotate, MergeOpen, FlushTabular, PoolOpened
  <2>3. work'.at # "rotating"  BY <2>1, <2>2, WorkTyped
  <2>4. MergeOpen \/ ~Working("rotating")
    BY <1>4 DEF AcquireFile, PoolOpen, PoolRotate, FlushTabular, NeedsFile, Working
  <2> QED  BY <2>3, <2>4 DEF Working
<1>5. CASE MergeClose  BY <1>5 DEF MergeClose, NeedsFile, Working
<1>6. CASE AppendFrame \/ Accumulate
  <2>1. work'.at = "frame"  BY <1>6 DEF AppendFrame, Accumulate, NextFrame
  <2>2. ~Working("rotating")  BY <1>6 DEF AppendFrame, Accumulate, AtAccumulate, Working
  <2> QED  BY <2>1, <2>2 DEF Working
<1>7. CASE SkipWithoutFile
  <2>1. work \in Works /\ work.at = "noFile"  BY <1>7 DEF SkipWithoutFile, Working, HDF5Types
  <2>2. NextFrame \/ WorkAt("flushed")  BY <1>7 DEF SkipWithoutFile
  <2>3. work'.at \in {"frame", "flushed"}  BY <2>1, <2>2, WorkTyped DEF NextFrame
  <2> QED  BY <2>1, <2>3 DEF Working
<1> QED  BY <1>1, <1>2, <1>3, <1>4, <1>5, <1>6, <1>7 DEF HDF5Next

\* When the merge file is opened and closed.
LEMMA MergedSteps ==
  ASSUME HDF5Types, FileInv, WorkInv, StopInv, HDF5Next, mode = "merge"
  PROVE  \/ file'["merged"].open <=> file["merged"].open
         \/ (Start \/ MergeOpen) /\ file'["merged"].open
         \/ (MergeClose \/ \E k \in Keys : CloseOne(k)) /\ ~file'["merged"].open
<1>0. file \in [Keys -> OpenFiles \cup {Closed}] /\ "merged" \in Keys  BY DEF HDF5Types, Keys
<1>a. FreshFile("merged").open = TRUE  BY DEF FreshFile
<1>1. CASE Start \/ MergeOpen
  <2>1. file'["merged"] = FreshFile("merged")  BY <1>0, <1>1 DEF Start, MergeOpen
  <2> QED  BY <1>1, <1>a, <2>1
<1>2. CASE MergeClose
  <2>1. file'["merged"] = Closed  BY <1>0, <1>2 DEF MergeClose
  <2> QED  BY <1>2, <2>1, ClosedTyped
<1>3. CASE \E k \in Keys : CloseOne(k)
  <2>1. PICK k \in Keys : CloseOne(k)  BY <1>3
  <2>2. file'["merged"] = IF k = "merged" THEN Closed ELSE file["merged"]
    BY <1>0, <2>1 DEF CloseOne
  <2> QED  BY <1>3, <2>2, ClosedTyped
<1>4. CASE AppendFrame \/ AppendFails \/ FlushTabular
  <2>1. Working("ready")  BY <1>4 DEF AppendFrame, AppendFails, FlushTabular
  <2>2. Current.open /\ work.source \in SourceNames  BY <2>1, ReadyToAppend
  <2>3. file["merged"].open  BY <2>2 DEF Current, KeyOf
  <2>4. file' = file \/ \E n : file' = [file EXCEPT !["merged"] = Grown(file["merged"], n)]
    BY <1>4 DEF AppendFrame, AppendFails, FlushTabular, KeyOf
  <2>5. \A n : Grown(file["merged"], n).open = TRUE  BY DEF Grown
  <2> QED  BY <1>0, <2>3, <2>4, <2>5
<1>5. CASE PoolOpen \/ PoolRotate \/ PoolOpenFails  BY <1>5 DEF PoolOpen, PoolRotate, PoolOpenFails
<1>6. CASE DoStop \/ OnHDF5Stop \/ FlushTest \/ FlushUse \/ Tick \/ Take \/ BatchDone \/ AcquireFile
           \/ MergeOpenFails \/ SkipWithoutFile \/ FlushTabularFails \/ Accumulate
           \/ AccumulateFails \/ EndOfGroup
  <2>1. file' = file
    BY <1>6 DEF DoStop, OnHDF5Stop, FlushTest, FlushUse, Tick, Take, BatchDone, AcquireFile,
         MergeOpenFails, SkipWithoutFile, FlushTabularFails, Accumulate, AccumulateFails, EndOfGroup
  <2> QED  BY <2>1
<1> QED  BY <1>1, <1>2, <1>3, <1>4, <1>5, <1>6 DEF HDF5Next

\* A merge writer whose file is gone for good never gets one again.
LEMMA DeadStays ==
  ASSUME FileIInv, HDF5Next, Dead
  PROVE  Dead'
<1>1. HDF5Types /\ FileInv /\ WorkInv /\ StopInv  BY DEF FileIInv, FilesInv
<1>2. Counters  BY <1>1, CountersStep
<1>3. mode = "merge" /\ phase # "new" /\ ~file["merged"].open /\ ~Working("rotating")  BY DEF Dead
<1>4. ~MergeClose
  <2>1. ASSUME MergeClose PROVE FALSE
    <3>1. Current.open  BY <2>1 DEF MergeClose
    <3> QED  BY <1>3, <3>1 DEF Current, KeyOf
  <2> QED  BY <2>1
<1>5. ~Start /\ ~MergeOpen  BY <1>3 DEF Start, MergeOpen
<1>6. ~file'["merged"].open  BY <1>1, <1>3, <1>4, <1>5, MergedSteps
<1>7. ~Working("rotating")'
  <2>1. work' = work => ~Working("rotating")'  BY <1>3 DEF Working
  <2> QED  BY <1>1, <1>4, <2>1, RotationSteps
<1> QED  BY <1>2, <1>3, <1>6, <1>7 DEF Dead, Counters

\* Every step keeps what is known of start, stop and the flush thread.
LEMMA StopStep ==
  ASSUME FileIInv, HDF5Next
  PROVE  StopInv'
<1>1. HDF5Types /\ FileInv /\ WorkInv /\ StopInv /\ flush # "nullDereference"
  BY DEF FileIInv, FilesInv, HDF5Next
<1>2. Counters  BY <1>1, CountersStep
<1>3. CASE phase = "new" /\ Start
  <2>1. phase' = "running" /\ flush' = "loop" /\ work' = work /\ mode' = mode  BY <1>3 DEF Start
  <2>2. mode = "merge" => file'["merged"].open
    <3>1. file \in [Keys -> OpenFiles \cup {Closed}] /\ "merged" \in Keys  BY <1>1 DEF HDF5Types, Keys
    <3>2. FreshFile("merged").open = TRUE  BY DEF FreshFile
    <3> QED  BY <1>3, <3>1, <3>2 DEF Start
  <2> QED  BY <2>1, <2>2 DEF StopInv
<1>4. CASE OnHDF5Stop
  <2>1. /\ phase' = "stopped" /\ flush' = "done" /\ file' = file /\ work' = work
        /\ \A k \in Keys : ~file[k].open
        /\ phase = "joining"
    BY <1>4 DEF OnHDF5Stop
  <2> QED  BY <1>1, <2>1 DEF StopInv
<1>5. CASE \E k \in Keys : CloseOne(k)
  <2>1. phase' = "joining" /\ flush' = "done" /\ work' = work /\ phase = "joining"
    BY <1>5 DEF CloseOne
  <2> QED  BY <1>1, <2>1 DEF StopInv
<1>6. CASE phase \in {"running", "joining"} /\ (FlushTest \/ FlushUse)
  <2>1. phase' = phase /\ mode' = mode /\ file' = file /\ work' = work /\ faults' = faults
    BY <1>6 DEF FlushTest, FlushUse
  <2>2. Working("rotating")' <=> Working("rotating")  BY <2>1 DEF Working
  <2>3. CASE FlushTest
    <3>1. \/ flush = "loop" /\ flush' = "use"
          \/ flush = "loop" /\ phase = "joining" /\ flush' = "last"
          \/ flush = "last" /\ flush' \in {"lastUse", "done"}
      BY <2>3 DEF FlushTest
    <3> QED  BY <1>1, <1>6, <2>1, <2>2, <3>1 DEF StopInv
  <2>4. CASE FlushUse
    <3>1. /\ flush \in {"use", "lastUse"}
          /\ flush' = IF ~Held THEN "nullDereference" ELSE IF flush = "use" THEN "loop" ELSE "done"
      BY <2>4 DEF FlushUse
    <3>2. CASE Held  BY <1>1, <1>6, <2>1, <2>2, <3>1, <3>2 DEF StopInv
    <3>3. CASE ~Held
      <4>1. mode = "merge" /\ ~file["merged"].open  BY <1>1, <1>6, <3>3 DEF Held, HDF5Types
      <4>2. Working("rotating") \/ faults > 0  BY <1>1, <1>6, <3>1, <4>1 DEF StopInv
      <4> QED  BY <1>1, <1>6, <2>1, <2>2, <3>1, <3>3, <4>1, <4>2 DEF StopInv
    <3> QED  BY <3>2, <3>3
  <2> QED  BY <1>6, <2>3, <2>4
<1>7. CASE phase = "running" /\ (DoStop \/ Tick)
  <2>1. /\ phase' \in {"running", "joining"} /\ (phase' = "joining" => work = NoWork)
        /\ flush' = flush /\ mode' = mode /\ file' = file /\ work' = work /\ faults' = faults
    BY <1>7 DEF DoStop, Tick
  <2>2. Working("rotating")' <=> Working("rotating")  BY <2>1 DEF Working
  <2> QED  BY <1>1, <1>7, <2>1, <2>2 DEF StopInv
<1>8. CASE phase = "running" /\ WorkerStep
  <2>1. phase' = "running" /\ flush' = flush /\ mode' = mode  BY <1>8, WorkerFrame
  <2>2. flush \notin {"off", "last", "lastUse", "done", "nullDereference"}
    BY <1>1, <1>8 DEF StopInv
  <2>3. mode = "merge" => file'["merged"].open \/ Working("rotating")' \/ faults' > 0
    <3>1. SUFFICES ASSUME mode = "merge"
                   PROVE  file'["merged"].open \/ Working("rotating")' \/ faults' > 0
      OBVIOUS
    <3>2. file["merged"].open \/ Working("rotating") \/ faults > 0
      BY <1>1, <1>8, <2>2, <3>1 DEF StopInv
    <3>3. CASE faults > 0  BY <1>1, <1>2, <3>3 DEF Counters, HDF5Types
    <3>4. CASE MergeOpenFails
      BY <1>1, <3>4 DEF MergeOpenFails, Fail, HDF5Types
    <3>5. CASE MergeOpen
      <4>1. file \in [Keys -> OpenFiles \cup {Closed}] /\ "merged" \in Keys  BY <1>1 DEF HDF5Types, Keys
      <4>2. FreshFile("merged").open = TRUE  BY DEF FreshFile
      <4> QED  BY <3>5, <4>1, <4>2 DEF MergeOpen
    <3>6. CASE MergeClose
      <4>1. work \in Works  BY <1>1, <3>6 DEF MergeClose, NeedsFile, Working, HDF5Types
      <4>2. work' \in Works /\ work'.at = "rotating"  BY <1>1, <3>6, <4>1, WorkTyped DEF MergeClose
      <4> QED  BY <4>2, NotIdle DEF Working
    <3>7. CASE work' = work /\ Working("rotating")  BY <3>7 DEF Working
    <3>8. CASE file["merged"].open /\ ~MergeClose
      <4>1. ~\E k \in Keys : CloseOne(k)  BY <1>8 DEF CloseOne
      <4> QED  BY <1>1, <3>1, <3>8, <4>1, MergedSteps
    <3> QED  BY <1>1, <3>2, <3>3, <3>4, <3>5, <3>6, <3>7, <3>8, RotationSteps
  <2> QED  BY <2>1, <2>2, <2>3 DEF StopInv
<1> QED  BY <1>1, <1>3, <1>4, <1>5, <1>6, <1>7, <1>8, PhaseSteps

-----------------------------------------------------------------------------
(* The worker's batch.                                                      *)

\* lastTsBatchSeq_ never passes the batch counter.
LEMMA LastTsStep ==
  ASSUME HDF5Types, WorkInv, HDF5Next
  PROVE  lastTs' <= batchSeq'
<1>0. lastTs <= batchSeq /\ lastTs \in Nat /\ batchSeq \in Nat  BY DEF WorkInv, HDF5Types
<1>1. CASE Start \/ DoStop \/ OnHDF5Stop \/ (\E k \in Keys : CloseOne(k)) \/ FlushTest \/ FlushUse \/ Tick
  BY <1>0, <1>1 DEF Start, DoStop, OnHDF5Stop, CloseOne, FlushTest, FlushUse, Tick
<1>2. CASE Take  BY <1>0, <1>2 DEF Take
<1>3. CASE BatchDone \/ AcquireFile \/ PoolOpen \/ PoolRotate \/ PoolOpenFails
  BY <1>0, <1>3 DEF BatchDone, AcquireFile, PoolOpen, PoolRotate, PoolOpenFails
<1>4. CASE MergeClose \/ MergeOpen \/ MergeOpenFails \/ SkipWithoutFile \/ FlushTabular
           \/ FlushTabularFails \/ Accumulate \/ AccumulateFails \/ EndOfGroup
  BY <1>0, <1>4 DEF MergeClose, MergeOpen, MergeOpenFails, SkipWithoutFile, FlushTabular,
              FlushTabularFails, Accumulate, AccumulateFails, EndOfGroup
<1>5. CASE AppendFrame \/ AppendFails
  <2>1. work # NoWork /\ lastTs' = work.seq /\ batchSeq' = batchSeq
    BY <1>5 DEF AppendFrame, AppendFails, Working
  <2>2. work.seq = batchSeq  BY <2>1 DEF WorkInv
  <2> QED  BY <1>0, <2>1, <2>2
<1> QED  BY <1>1, <1>2, <1>3, <1>4, <1>5 DEF HDF5Next

\* A step that leaves the batch, its file and the buffer alone.
LEMMA SameWork ==
  ASSUME WorkInv, work' = work, file' = file, buf' = buf, lastTs' = lastTs, batchSeq' = batchSeq,
         mode' = mode, Dead => Dead'
  PROVE  WorkInv'
<1>1. Current' = Current  BY DEF Current, KeyOf
<1>2. MustFlush' <=> MustFlush  BY DEF MustFlush
<1>3. PvFrames => PvFrames'  BY DEF PvFrames, Frame
<1>4. Half' <=> Half  BY DEF Half
<1> QED  BY <1>1, <1>2, <1>3, <1>4 DEF WorkInv

\* What a step that only moves the worker to another control point owes it.
MovesTo(at) ==
  /\ work \in Works /\ WorkAt(at)
  /\ lastTs' = lastTs /\ batchSeq' = batchSeq /\ mode' = mode /\ (Dead => Dead')
  /\ work.source = "pv" => work.frames # <<>> /\ at # "flushed"
  /\ at = "ready" => Current'.open
  /\ at = "noFile" => Dead'
  /\ at = "rotating" => mode = "merge" /\ ~Current'.open
  /\ at \in {"ready", "noFile", "rotating"} /\ work.source = "table" => MustFlush'
  /\ at = "flushed" => buf'.rows = 0 \/ Dead'
  /\ Half => at = "rotating" \/ Current'.open

\* Moving the worker to another control point keeps what is known of its batch.
LEMMA PointStep ==
  ASSUME HDF5Types, WorkInv, NEW at \in {"frame", "rotating", "noFile", "ready", "flushed"},
         MovesTo(at)
  PROVE  WorkInv'
<1>1. /\ work' \in Works /\ work'.at = at /\ work'.source = work.source
      /\ work'.seq = work.seq /\ work'.frames = work.frames /\ work'.end = work.end
  BY WorkTyped DEF MovesTo
<1>2. work # NoWork /\ work' # NoWork /\ work.seq = batchSeq /\ lastTs <= batchSeq
  BY <1>1, NotIdle DEF MovesTo, WorkInv
<1>3. Half' <=> Half  BY <1>1, <1>2 DEF Half, MovesTo
<1>4. work'.source = "pv" => ~work'.end /\ work'.at # "flushed" /\ PvFrames'
  <2>1. SUFFICES ASSUME work.source = "pv"
                 PROVE  ~work'.end /\ work'.at # "flushed" /\ PvFrames'
    BY <1>1
  <2>2. PvFrames /\ ~work.end  BY <1>2, <2>1 DEF WorkInv
  <2>3. work.frames # <<>> /\ at # "flushed"  BY <2>1 DEF MovesTo
  <2>4. lastTs' = lastTs /\ (Dead => Dead')  BY DEF MovesTo
  <2>5. PvFrames'  BY <1>1, <2>2, <2>3, <2>4 DEF PvFrames, Frame
  <2> QED  BY <1>1, <2>2, <2>3, <2>5
<1>5. work'.source = "table" => Len(work'.frames) <= 1 /\ (work'.end => work'.frames = <<>>)
  BY <1>1, <1>2 DEF WorkInv
<1> QED  BY <1>1, <1>2, <1>3, <1>4, <1>5 DEF WorkInv, MovesTo

\* The file of a source, after key k of the files was given f.
LEMMA CurrentAfter ==
  ASSUME HDF5Types, work \in Works, work'.source = work.source, mode' = mode,
         NEW f, file' = [file EXCEPT ![KeyOf(work.source)] = f]
  PROVE  Current' = f
<1>1. KeyOf(work.source) \in Keys  BY DEF KeyOf, Keys, Works
<1>2. Current' = file'[KeyOf(work.source)]  BY DEF Current, KeyOf
<1> QED  BY <1>1, <1>2 DEF HDF5Types

\* What the worker has in hand when it needs a file.
LEMMA Needing ==
  ASSUME HDF5Types, WorkInv, NeedsFile
  PROVE  /\ work \in Works /\ work.at = "frame" /\ work # NoWork
         /\ work.source = "pv" => work.frames # <<>>
         /\ work.source = "table" => MustFlush
         /\ Half => Current.open
<1>1. work \in Works /\ work.at = "frame" /\ work # NoWork  BY DEF NeedsFile, Working, HDF5Types
<1>2. work.source = "pv" => work.frames # <<>>  BY DEF NeedsFile
<1>3. work.source = "table" => MustFlush  BY DEF NeedsFile
<1>4. Half => Current.open  BY <1>1 DEF WorkInv
<1> QED  BY <1>1, <1>2, <1>3, <1>4

\* Whether a flush is due depends on the frame and the buffer alone.
LEMMA MustFlushKept ==
  ASSUME MustFlush, work'.source = work.source, work'.frames = work.frames, work'.end = work.end,
         buf' = buf
  PROVE  MustFlush'
BY DEF MustFlush

\* Acquiring a file keeps what is known of the batch.
LEMMA AcquireStep ==
  ASSUME FileIInv, HDF5Next, AcquireFile \/ PoolOpen \/ PoolRotate
  PROVE  WorkInv'
<1>1. HDF5Types /\ WorkInv /\ StopInv  BY DEF FileIInv
<1>2. /\ NeedsFile /\ lastTs' = lastTs /\ batchSeq' = batchSeq /\ mode' = mode /\ buf' = buf
      /\ phase' = phase
  BY DEF AcquireFile, PoolOpen, PoolRotate
<1>3. Dead => Dead'  BY DeadStays
<1>4. /\ work \in Works /\ work.at = "frame" /\ work # NoWork
      /\ work.source = "pv" => work.frames # <<>>
      /\ work.source = "table" => MustFlush
      /\ Half => Current.open
  BY <1>1, <1>2, Needing
<1>5. PICK at \in {"ready", "noFile"} : WorkAt(at) /\ (AcquireFile => (at = "ready" <=> Current.open))
        /\ (~AcquireFile => at = "ready")
  BY DEF AcquireFile, PoolOpen, PoolRotate, PoolOpened
<1>6. /\ work' \in Works /\ work'.at = at /\ work'.source = work.source
      /\ work'.frames = work.frames /\ work'.end = work.end
  BY <1>1, <1>4, <1>5, WorkTyped
<1>7. MustFlush => MustFlush'  BY <1>2, <1>6, MustFlushKept
<1>8. CASE AcquireFile
  <2>1. file' = file /\ (Current.open \/ mode = "merge")  BY <1>8 DEF AcquireFile
  <2>2. Current' = Current  BY <1>2, <1>6, <2>1 DEF Current, KeyOf
  <2>3. phase = "running"  BY <1>1, <1>4 DEF StopInv
  <2>4. at = "noFile" => Dead'
    <3>1. ASSUME at = "noFile" PROVE Dead'
      <4>1. mode = "merge" /\ ~Current.open  BY <1>5, <1>8, <2>1, <3>1
      <4>2. ~file["merged"].open  BY <4>1 DEF Current, KeyOf
      <4>3. ~Working("rotating")'  BY <1>6, <3>1 DEF Working
      <4> QED  BY <1>2, <2>1, <2>3, <4>1, <4>2, <4>3 DEF Dead
    <3> QED  BY <3>1
  <2>5. MovesTo(at)
    BY <1>2, <1>3, <1>4, <1>5, <1>7, <1>8, <2>2, <2>4 DEF MovesTo
  <2> QED  BY <1>1, <2>5, PointStep
<1>9. CASE ~AcquireFile
  <2>1. mode = "per_source" /\ file' = [file EXCEPT ![work.source] = FreshFile(work.source)]
    BY <1>9 DEF PoolOpen, PoolRotate, PoolOpened
  <2>2. KeyOf(work.source) = work.source  BY <2>1 DEF KeyOf
  <2>3. Current' = FreshFile(work.source)  BY <1>1, <1>2, <1>4, <1>6, <2>1, <2>2, CurrentAfter
  <2>4. Current'.open  BY <2>3 DEF FreshFile
  <2>5. MovesTo(at)
    BY <1>2, <1>3, <1>4, <1>5, <1>7, <1>9, <2>4 DEF MovesTo
  <2> QED  BY <1>1, <2>5, PointStep
<1> QED  BY <1>8, <1>9

\* Both halves of rotateMergeFile() keep what is known of the batch.
LEMMA RotateStep ==
  ASSUME FileIInv, HDF5Next, MergeClose \/ MergeOpen
  PROVE  WorkInv'
<1>1. HDF5Types /\ WorkInv /\ StopInv  BY DEF FileIInv
<1>2. lastTs' = lastTs /\ batchSeq' = batchSeq /\ mode' = mode /\ buf' = buf
  BY DEF MergeClose, MergeOpen
<1>3. Dead => Dead'  BY DeadStays
<1>4. CASE MergeClose
  <2>1. /\ mode = "merge" /\ NeedsFile /\ WorkAt("rotating")
        /\ file' = [file EXCEPT !["merged"] = Closed]
    BY <1>4 DEF MergeClose
  <2>2. /\ work \in Works /\ work.at = "frame" /\ work # NoWork
        /\ work.source = "pv" => work.frames # <<>>
        /\ work.source = "table" => MustFlush
    BY <1>1, <2>1, Needing
  <2>3. /\ work'.source = work.source /\ work'.frames = work.frames /\ work'.end = work.end
    BY <1>1, <2>1, <2>2, WorkTyped
  <2>4. MustFlush => MustFlush'  BY <1>2, <2>3, MustFlushKept
  <2>5. KeyOf(work.source) = "merged"  BY <2>1 DEF KeyOf
  <2>6. Current' = Closed  BY <1>1, <1>2, <2>1, <2>2, <2>3, <2>5, CurrentAfter
  <2>7. ~Current'.open  BY <2>6, ClosedTyped
  <2>8. MovesTo("rotating")  BY <1>2, <1>3, <2>1, <2>2, <2>4, <2>7 DEF MovesTo
  <2> QED  BY <1>1, <2>8, PointStep
<1>5. CASE MergeOpen
  <2>1. Working("rotating") /\ WorkAt("ready") /\ file' = [file EXCEPT !["merged"] = FreshFile("merged")]
    BY <1>5 DEF MergeOpen
  <2>2. work \in Works /\ work.at = "rotating" /\ work # NoWork  BY <1>1, <2>1 DEF Working, HDF5Types
  <2>3. /\ mode = "merge" /\ (work.source = "table" => MustFlush)
        /\ work.source = "pv" => work.frames # <<>>
    <3>1. work.source = "pv" => PvFrames  BY <1>1, <2>2 DEF WorkInv
    <3>2. work.source = "pv" => work.frames # <<>>
      BY <2>2, <3>1, TailFrames DEF PvFrames
    <3> QED  BY <1>1, <2>2, <3>2 DEF WorkInv
  <2>4. /\ work'.source = work.source /\ work'.frames = work.frames /\ work'.end = work.end
    BY <1>1, <2>1, <2>2, WorkTyped
  <2>5. MustFlush => MustFlush'  BY <1>2, <2>4, MustFlushKept
  <2>6. KeyOf(work.source) = "merged"  BY <2>3 DEF KeyOf
  <2>7. Current' = FreshFile("merged")  BY <1>1, <1>2, <2>1, <2>2, <2>4, <2>6, CurrentAfter
  <2>8. Current'.open  BY <2>7 DEF FreshFile
  <2>9. MovesTo("ready")  BY <1>2, <1>3, <2>1, <2>2, <2>3, <2>5, <2>8 DEF MovesTo
  <2> QED  BY <1>1, <2>9, PointStep
<1> QED  BY <1>4, <1>5

\* appendFrame() keeps what is known of the batch.
LEMMA AppendedStep ==
  ASSUME FileIInv, HDF5Next, AppendFrame
  PROVE  WorkInv'
<1>1. HDF5Types /\ FileInv /\ WorkInv  BY DEF FileIInv, FilesInv
<1>2. /\ Working("ready") /\ work.source = "pv" /\ lastTs' = work.seq /\ NextFrame
      /\ batchSeq' = batchSeq /\ mode' = mode
      /\ file' = [file EXCEPT ![KeyOf("pv")] = Grown(file[KeyOf("pv")], Cardinality(work.frames[1].cols))]
  BY DEF AppendFrame
<1>3. work \in Works /\ work # NoWork /\ work.seq = batchSeq /\ ~work.end
  BY <1>1, <1>2 DEF Working, HDF5Types, WorkInv
<1>4. work.frames # <<>> /\ (Whole \/ Split \/ Rest \/ Pair \/ Second)
  BY <1>1, <1>2, PvReady
<1>5. /\ work' \in Works /\ work'.at = "frame" /\ work'.source = work.source
      /\ work'.seq = work.seq /\ work'.frames = Tail(work.frames) /\ work'.end = work.end
  BY <1>1, <1>2, <1>3, <1>4, NextTyped
<1>6. \/ work'.frames = <<>>
      \/ work'.frames = <<Frame(work'.seq, {"y"})>>
      \/ work'.frames = <<Frame(work'.seq + 1, Columns)>>
  <2>1. CASE Split
    <3>1. Tail(work.frames) = <<Frame(work.seq, {"y"})>>  BY <2>1, TailFrames DEF Split
    <3> QED  BY <1>5, <3>1
  <2>2. CASE \E a : work.frames = <<a>>
    <3>1. Tail(work.frames) = <<>>  BY <2>2, TailFrames
    <3> QED  BY <1>5, <3>1
  <2>3. CASE Pair
    <3>1. Tail(work.frames) = <<Frame(work.seq + 1, Columns)>>  BY <2>3, TailFrames DEF Pair
    <3> QED  BY <1>5, <3>1
  <2>4. Whole \/ Rest \/ Second => \E a : work.frames = <<a>>  BY DEF Whole, Rest, Second
  <2> QED  BY <1>4, <2>1, <2>2, <2>3, <2>4
<1>7. Current'.open
  <2>1. Current' = Grown(file[KeyOf("pv")], Cardinality(work.frames[1].cols))
    BY <1>1, <1>2, <1>3, <1>5, CurrentAfter
  <2> QED  BY <2>1 DEF Grown
<1>8. lastTs' = work'.seq  BY <1>2, <1>5
<1>9. PvFrames'  BY <1>5, <1>6, <1>8 DEF PvFrames, Frame
<1>10. lastTs' <= batchSeq'  BY <1>1, LastTsStep
<1> QED  BY <1>2, <1>3, <1>5, <1>7, <1>9, <1>10 DEF WorkInv

\* Skipping a frame without a file keeps what is known of the batch.
LEMMA SkippedStep ==
  ASSUME FileIInv, HDF5Next, SkipWithoutFile
  PROVE  WorkInv'
<1>1. HDF5Types /\ FileInv /\ WorkInv  BY DEF FileIInv, FilesInv
<1>2. /\ work \in Works /\ work # NoWork /\ work.at = "noFile" /\ work.seq = batchSeq
      /\ lastTs' = lastTs /\ batchSeq' = batchSeq /\ mode' = mode
  BY <1>1 DEF SkipWithoutFile, Working, HDF5Types, WorkInv
<1>3. Dead /\ Dead'  BY <1>1, <1>2, DeadStays DEF WorkInv
<1>4. CASE work.source = "pv"
  <2>1. NextFrame /\ PvFrames /\ ~work.end  BY <1>1, <1>2, <1>4 DEF SkipWithoutFile, WorkInv
  <2>2. (\E a : work.frames = <<a>>) \/ Split \/ Pair
    BY <1>2, <2>1 DEF PvFrames, Split, Pair
  <2>3. work.frames # <<>>  BY <2>2, TailFrames DEF Split, Pair
  <2>4. /\ work' \in Works /\ work'.at = "frame" /\ work'.source = work.source
        /\ work'.seq = work.seq /\ work'.frames = Tail(work.frames) /\ work'.end = work.end
    BY <1>1, <1>2, <2>1, <2>3, NextTyped
  <2>5. \/ work'.frames = <<>>
        \/ work'.frames = <<Frame(work'.seq, {"y"})>> /\ lastTs # work.seq
        \/ work'.frames = <<Frame(work'.seq + 1, Columns)>> /\ lastTs # work.seq
    <3>1. CASE Split
      <4>1. Tail(work.frames) = <<Frame(work.seq, {"y"})>>  BY <3>1, TailFrames DEF Split
      <4> QED  BY <2>4, <3>1, <4>1 DEF Split
    <3>3. CASE Pair
      <4>1. Tail(work.frames) = <<Frame(work.seq + 1, Columns)>>  BY <3>3, TailFrames DEF Pair
      <4> QED  BY <2>4, <3>3, <4>1 DEF Pair
    <3>2. CASE \E a : work.frames = <<a>>
      <4>1. Tail(work.frames) = <<>>  BY <3>2, TailFrames
      <4> QED  BY <2>4, <4>1
    <3> QED  BY <2>2, <3>1, <3>2, <3>3
  <2>6. PvFrames'  BY <1>3, <2>4, <2>5 DEF PvFrames, Frame
  <2>7. ~Half'
    <3>1. <<>> # <<Frame(work'.seq, {"y"})>>  OBVIOUS
    <3>2. <<Frame(work'.seq + 1, Columns)>> # <<Frame(work'.seq, {"y"})>>
      BY DEF Frame, Columns
    <3> QED  BY <1>2, <2>4, <2>5, <3>1, <3>2 DEF Half
  <2>8. lastTs' <= batchSeq'  BY <1>1, LastTsStep
  <2> QED  BY <1>2, <1>4, <2>1, <2>4, <2>6, <2>7, <2>8 DEF WorkInv
<1>5. CASE work.source # "pv"
  <2>1. WorkAt("flushed")  BY <1>5 DEF SkipWithoutFile
  <2>2. ~Half  BY <1>5 DEF Half
  <2>3. MovesTo("flushed")  BY <1>2, <1>3, <1>5, <2>1, <2>2 DEF MovesTo
  <2> QED  BY <1>1, <2>3, PointStep
<1> QED  BY <1>4, <1>5

\* Every step keeps what is known of the batch.
LEMMA WorkStep ==
  ASSUME FileIInv, HDF5Next
  PROVE  WorkInv'
<1>1. HDF5Types /\ FileInv /\ WorkInv /\ StopInv  BY DEF FileIInv, FilesInv
<1>2. lastTs' <= batchSeq'  BY <1>1, LastTsStep
<1>3. CASE work' = NoWork  BY <1>2, <1>3 DEF WorkInv, Half
<1>4. CASE Start \/ DoStop \/ OnHDF5Stop \/ (\E k \in Keys : CloseOne(k)) \/ BatchDone \/ PoolOpenFails
           \/ MergeOpenFails \/ AppendFails \/ FlushTabularFails \/ AccumulateFails \/ EndOfGroup
  <2>1. work' = NoWork
    <3>1. CASE Start \/ DoStop \/ OnHDF5Stop \/ \E k \in Keys : CloseOne(k)
      <4>1. phase # "running" \/ work = NoWork  BY <3>1 DEF Start, DoStop, OnHDF5Stop, CloseOne
      <4>2. work = NoWork  BY <1>1, <4>1 DEF StopInv
      <4>3. work' = work  BY <3>1 DEF Start, DoStop, OnHDF5Stop, CloseOne
      <4> QED  BY <4>2, <4>3
    <3>2. CASE BatchDone \/ PoolOpenFails \/ MergeOpenFails \/ AppendFails \/ FlushTabularFails
               \/ AccumulateFails \/ EndOfGroup
      BY <3>2 DEF BatchDone, PoolOpenFails, MergeOpenFails, AppendFails, FlushTabularFails,
                  AccumulateFails, EndOfGroup, Fail
    <3> QED  BY <1>4, <3>1, <3>2
  <2> QED  BY <1>3, <2>1
<1>5. CASE FlushTest \/ FlushUse \/ Tick
  <2>1. /\ work' = work /\ file' = file /\ buf' = buf /\ lastTs' = lastTs /\ batchSeq' = batchSeq
        /\ mode' = mode
    BY <1>5 DEF FlushTest, FlushUse, Tick
  <2>2. Dead => Dead'  BY DeadStays
  <2> QED  BY <1>1, <2>1, <2>2, SameWork
<1>6. CASE Take
  <2>1. /\ work' \in Works /\ work'.seq = batchSeq + 1 /\ work'.at = "frame"
        /\ batchSeq' = batchSeq + 1
        /\ work'.source = "pv" =>
             /\ ~work'.end
             /\ \/ work'.frames = <<Frame(work'.seq, Columns)>>
                \/ work'.frames = <<Frame(work'.seq, {"x"}), Frame(work'.seq, {"y"})>>
                \/ work'.frames = <<Frame(work'.seq, Columns), Frame(work'.seq + 1, Columns)>>
        /\ work'.source = "table" =>
             Len(work'.frames) <= 1 /\ (work'.end => work'.frames = <<>>)
    BY <1>1, <1>6, TakeWhat
  <2>2. lastTs' = lastTs /\ lastTs <= batchSeq /\ lastTs \in Nat /\ batchSeq \in Nat
    BY <1>1, <1>6 DEF Take, WorkInv, HDF5Types
  <2>3. lastTs' # work'.seq  BY <2>1, <2>2
  <2>4. work'.source = "pv" => PvFrames'  BY <2>1, <2>3 DEF PvFrames, Frame
  <2>5. ~Half'  BY <2>3 DEF Half
  <2> QED  BY <1>2, <2>1, <2>4, <2>5 DEF WorkInv
<1>7. CASE AcquireFile \/ PoolOpen \/ PoolRotate  BY <1>7, AcquireStep
<1>8. CASE MergeClose \/ MergeOpen  BY <1>8, RotateStep
<1>9. CASE AppendFrame  BY <1>9, AppendedStep
<1>10. CASE SkipWithoutFile  BY <1>10, SkippedStep
<1>11. CASE FlushTabular
  <2>1. /\ work \in Works /\ work.source = "table" /\ WorkAt("flushed")
        /\ lastTs' = lastTs /\ batchSeq' = batchSeq /\ mode' = mode
    BY <1>1, <1>11 DEF FlushTabular, Working, HDF5Types
  <2>2. buf'.rows = 0  BY <1>1, <1>11, FlushedBuffer
  <2>3. Dead => Dead'  BY DeadStays
  <2>4. ~Half  BY <2>1 DEF Half
  <2>5. MovesTo("flushed")  BY <2>1, <2>2, <2>3, <2>4 DEF MovesTo
  <2> QED  BY <1>1, <2>5, PointStep
<1>12. CASE Accumulate
  <2>1. /\ work \in Works /\ work # NoWork /\ work.source = "table"
        /\ work.frames # <<>> /\ Len(work.frames) = 1 /\ ~work.end
    BY <1>1, <1>12, AccumulateWhat
  <2>2. NextFrame /\ batchSeq' = batchSeq  BY <1>12 DEF Accumulate
  <2>3. /\ work' \in Works /\ work'.at = "frame" /\ work'.source = work.source
        /\ work'.seq = work.seq /\ work'.frames = Tail(work.frames) /\ work'.end = work.end
    BY <1>1, <2>1, <2>2, NextTyped
  <2>4. Tail(work.frames) = <<>>
    <3>1. work.frames \in Seq(Frames)  BY <2>1 DEF Works
    <3>2. Len(work.frames) <= 1  BY <2>1
    <3> QED  BY <2>1, <3>1, <3>2, OneOf
  <2>5. Len(work'.frames) <= 1 /\ work'.frames = <<>>  BY <2>3, <2>4
  <2>6. work.seq = batchSeq  BY <1>1, <2>1 DEF WorkInv
  <2>7. ~Half'  BY <2>1, <2>3 DEF Half
  <2> QED  BY <1>2, <2>1, <2>2, <2>3, <2>5, <2>6, <2>7 DEF WorkInv
<1> QED  BY <1>4, <1>5, <1>6, <1>7, <1>8, <1>9, <1>10, <1>11, <1>12 DEF HDF5Next

-----------------------------------------------------------------------------
(* The tabular buffer.                                                      *)

\* Appending a value of the round to a column of the round.
LEMMA AppendRound ==
  ASSUME NEW s \in Seq(Nat \X Nat), NEW v \in Nat \X Nat, NEW r, v[2] = r,
         \A i \in DOMAIN s : s[i][2] = r
  PROVE  \A i \in DOMAIN Append(s, v) : Append(s, v)[i][2] = r
<1>1. SUFFICES ASSUME NEW i \in DOMAIN Append(s, v) PROVE Append(s, v)[i][2] = r  OBVIOUS
<1>2. i \in 1 .. Len(s) + 1 /\ Len(s) \in Nat  OBVIOUS
<1>3. CASE i = Len(s) + 1  BY <1>3
<1>4. CASE i # Len(s) + 1
  <2>1. i \in DOMAIN s /\ Append(s, v)[i] = s[i]  BY <1>2, <1>4
  <2> QED  BY <2>1
<1> QED  BY <1>3, <1>4

\* Every step keeps what is known of the tabular buffer.
LEMMA BufStep ==
  ASSUME FileIInv, HDF5Next
  PROVE  BufInv'
<1>1. HDF5Types /\ FileInv /\ WorkInv /\ StopInv /\ BufInv  BY DEF FileIInv, FilesInv
<1>2. Dead => Dead'  BY DeadStays
<1>3. /\ buf.known \in SUBSET Columns /\ buf.rows \in {0, 1} /\ buf.ts \in Seq(Nat)
      /\ buf.round \in Nat /\ buf.col \in [Columns -> Seq(Nat \X Nat)]
  BY <1>1 DEF HDF5Types, Buffers
<1>4. CASE buf' = buf  BY <1>1, <1>2, <1>4 DEF BufInv
<1>5. CASE FlushTabular \/ FlushTabularFails
  <2>1. /\ buf' \in Buffers /\ buf'.known = buf.known /\ buf'.fixed = TRUE
        /\ \/ buf'.rows = 0 /\ buf.known = {} /\ buf'.col = buf.col
           \/ /\ buf'.rows = 0 /\ buf'.ts = <<>>
              /\ \A c \in Columns : buf'.col[c] = <<>>
           \/ /\ buf'.rows = buf.rows /\ buf'.ts = buf.ts /\ buf'.round = buf.round
              /\ buf'.col = buf.col
    BY <1>1, <1>5, FlushedBuffer
  <2>2. CASE buf'.rows = 0 /\ buf.known = {} /\ buf'.col = buf.col
    BY <1>1, <2>1, <2>2 DEF BufInv
  <2>3. CASE buf'.rows = 0 /\ buf'.ts = <<>> /\ \A c \in Columns : buf'.col[c] = <<>>
    BY <2>1, <2>3 DEF BufInv
  <2>4. CASE buf'.rows = buf.rows /\ buf'.ts = buf.ts /\ buf'.round = buf.round /\ buf'.col = buf.col
    BY <1>1, <1>2, <2>1, <2>4 DEF BufInv
  <2> QED  BY <2>1, <2>2, <2>3, <2>4
<1>6. CASE Accumulate \/ AccumulateFails
  <2> DEFINE f == work.frames[1]
  <2>1. /\ work \in Works /\ work # NoWork /\ work.source = "table" /\ AtAccumulate
        /\ f \in Frames /\ work.frames # <<>> /\ ~work.end
    BY <1>1, <1>6, AccumulateWhat
  <2>2. PICK cols \in SUBSET Accepted(f.cols) : Takes(buf', f, cols)
    BY <1>1, <1>6, AccumulateWhat
  <2>3. buf.rows = 0 \/ Dead \/ f.row = buf.round
    <3>1. CASE work.at = "flushed"  BY <1>1, <2>1, <3>1 DEF WorkInv
    <3>2. CASE ~MustFlush  BY <1>3, <2>1, <3>2 DEF MustFlush
    <3> QED  BY <2>1, <3>1, <3>2 DEF AtAccumulate
  <2>4. f.row \in Nat /\ work.seq \in Nat  BY <2>1 DEF Frames, Works
  <2> HIDE DEF f
  <2>5. \A c \in Columns \ buf'.known : buf'.col[c] = <<>>
    BY <1>1, <2>2 DEF Takes, BufInv
  <2>6. buf'.rows = 1  BY <2>2 DEF Takes
  <2>7. CASE Dead  BY <1>2, <2>5, <2>6, <2>7 DEF BufInv
  <2>8. CASE buf.fixed /\ buf.known = {}  BY <2>2, <2>5, <2>6, <2>8 DEF BufInv, Takes
  <2>9. CASE /\ buf.ts = IF buf.rows = 0 THEN <<>> ELSE <<buf.round>>
             /\ \A c \in Columns : \A i \in DOMAIN buf.col[c] : buf.col[c][i][2] = buf.round
             /\ buf.rows = 0 \/ f.row = buf.round
    <3>1. buf'.ts = <<buf'.round>> /\ buf'.round = f.row
      <4>1. /\ buf'.ts = (IF buf.rows = 0 THEN Append(buf.ts, f.row) ELSE buf.ts)
            /\ buf'.round = (IF buf.rows = 0 THEN f.row ELSE buf.round)
        BY <2>2 DEF Takes
      <4>2. CASE buf.rows = 0
        <5>1. Append(<<>>, f.row) = <<f.row>>  OBVIOUS
        <5> QED  BY <2>9, <4>1, <4>2, <5>1
      <4>3. CASE buf.rows # 0  BY <2>9, <4>1, <4>3
      <4> QED  BY <4>2, <4>3
    <3>2. ASSUME NEW c \in Columns
          PROVE  \A i \in DOMAIN buf'.col[c] : buf'.col[c][i][2] = f.row
      <4>1. \A i \in DOMAIN buf.col[c] : buf.col[c][i][2] = f.row
        <5>1. CASE buf.rows = 0
          <6>1. buf.col[c] = <<>>  BY <1>1, <5>1 DEF BufInv
          <6> QED  BY <6>1
        <5>2. CASE buf.rows # 0  BY <2>9, <5>2
        <5> QED  BY <5>1, <5>2
      <4>2. buf.col[c] \in Seq(Nat \X Nat)  BY <1>3
      <4>3. <<work.seq, f.row>> \in Nat \X Nat /\ <<work.seq, f.row>>[2] = f.row  BY <2>4
      <4>4. \A i \in DOMAIN Append(buf.col[c], <<work.seq, f.row>>) :
              Append(buf.col[c], <<work.seq, f.row>>)[i][2] = f.row
        BY <4>1, <4>2, <4>3, AppendRound
      <4>5. buf'.col[c] = IF c \in cols THEN Append(buf.col[c], <<work.seq, f.row>>) ELSE buf.col[c]
        BY <2>2 DEF Takes
      <4> QED  BY <4>1, <4>4, <4>5
    <3> QED  BY <2>5, <2>6, <3>1, <3>2 DEF BufInv
  <2> QED  BY <1>1, <2>3, <2>7, <2>8, <2>9 DEF BufInv
<1> QED  BY <1>4, <1>5, <1>6, BufferKept

-----------------------------------------------------------------------------
(* The theorem.                                                             *)

\* The invariant holds at first.
LEMMA FilesInit ==
  ASSUME HDF5Init
  PROVE  FileIInv
<1>1. /\ mode \in {"per_source", "merge"} /\ phase = "new" /\ clock = 0 /\ batchSeq = 0
      /\ work = NoWork /\ file = [k \in Keys |-> Closed] /\ disk = <<>>
      /\ buf = EmptyBuffer /\ lastTs = 0 /\ flush = "off" /\ fseq = 0 /\ faults = 0
  BY DEF HDF5Init
<1>2. DOMAIN disk = {} /\ disk \in [DOMAIN disk -> Contents]
  <2>1. DOMAIN disk = 1 .. 0 /\ disk = [i \in 1 .. 0 |-> 0]  BY <1>1
  <2>2. 1 .. 0 = {}  OBVIOUS
  <2> QED  BY <2>1, <2>2
<1>3. \A k \in Keys : file[k] = Closed /\ ~file[k].open  BY <1>1, ClosedTyped
<1>4. buf \in Buffers /\ buf.rows = 0 /\ buf.ts = <<>> /\ \A c \in Columns : buf.col[c] = <<>>
  <2> DEFINE none == [c \in Columns |-> <<>>]
  <2>1. buf = [fixed |-> FALSE, known |-> {}, ts |-> <<>>, rows |-> 0, round |-> 0, col |-> none]
    BY <1>1 DEF EmptyBuffer
  <2>2. \A c \in Columns : none[c] = <<>>  OBVIOUS
  <2>3. none \in [Columns -> Seq(Nat \X Nat)]  BY ShortSeqs
  <2>4. <<>> \in Seq(Nat)  BY ShortSeqs
  <2> HIDE DEF none
  <2>5. buf \in Buffers /\ buf.rows = 0 /\ buf.ts = <<>> /\ buf.col = none
    BY <2>1, <2>3, <2>4 DEF Buffers
  <2> QED  BY <2>2, <2>5
<1>5. HDF5Types
  <2>1. file \in [Keys -> OpenFiles \cup {Closed}]  BY <1>1
  <2> QED  BY <1>1, <1>2, <1>4, <2>1 DEF HDF5Types
<1>6. FilesInv  BY <1>2, <1>3 DEF FilesInv, FileInv, Sealed, PvInv, TableInv
<1>7. StopInv  BY <1>1, <1>3 DEF StopInv
<1>8. WorkInv  BY <1>1 DEF WorkInv, Half
<1>9. BufInv  BY <1>4 DEF BufInv
<1> QED  BY <1>5, <1>6, <1>7, <1>8, <1>9 DEF FileIInv

\* The invariant is inductive.
LEMMA FilesStep ==
  ASSUME FileIInv, [HDF5Next]_hdf5Vars
  PROVE  FileIInv'
<1>1. CASE HDF5Next
  <2>1. FilesInv'  BY <1>1, StoredStep DEF Stored
  <2> QED  BY <1>1, <2>1, TypesStep, StopStep, WorkStep, BufStep DEF FileIInv
<1>2. CASE UNCHANGED hdf5Vars
  BY <1>2 DEF hdf5Vars, FileIInv, HDF5Types, FilesInv, FileInv, Sealed, PvInv, TableInv, StopInv,
     WorkInv, BufInv, Dead, Half, Working, PvFrames, Current, KeyOf, MustFlush, Pending
<1> QED  BY <1>1, <1>2

\* The invariant implies the property.
LEMMA FilesImplied ==
  ASSUME FileIInv
  PROVE  FilesSound
<1>1. HDF5Types /\ FilesInv /\ StopInv  BY DEF FileIInv
<1>2. StopSeals
  <2>1. flush = "nullDereference" => mode = "merge" /\ (Working("rotating") \/ faults > 0)
    BY <1>1 DEF StopInv
  <2>2. phase = "stopped" => flush = "done"  BY <1>1 DEF StopInv
  <2>3. phase = "stopped" /\ faults = 0 => \A p \in DOMAIN disk : p[1] = "final"
    <3>1. SUFFICES ASSUME phase = "stopped", faults = 0, NEW p \in DOMAIN disk PROVE p[1] = "final"
      OBVIOUS
    <3>2. \A k \in Keys : ~file[k].open  BY <1>1, <3>1 DEF StopInv
    <3> QED  BY <1>1, <3>1, <3>2 DEF FilesInv, Sealed
  <2> QED  BY <2>1, <2>2, <2>3 DEF StopSeals
<1>3. RowsAligned
  <2>1. SUFFICES ASSUME NEW p \in DOMAIN disk, NEW s \in SourceNames,
                        ~disk[p][s].torn, work = NoWork \/ work.source # s,
                        NEW c \in IF s = "pv" THEN Columns ELSE buf.known
                 PROVE  /\ Len(disk[p][s].col[c]) = Len(disk[p][s].ts)
                        /\ \A i \in DOMAIN disk[p][s].ts :
                             (disk[p][s].col[c][i] = Fill /\ s = "table")
                               \/ disk[p][s].col[c][i][2] = disk[p][s].ts[i]
    BY DEF RowsAligned, RowOfTs
  <2> DEFINE g == disk[p][s]
  <2>2. g \in Groups  BY <1>1 DEF HDF5Types, Contents
  <2>3. g.ts \in Seq(Nat)  BY <2>2 DEF Groups
  <2>4. Aligned(g, s, c)
    <3>1. CASE s = "pv"
      <4>1. ~Pending(p)  BY <2>1, <3>1 DEF Pending, Half
      <4>2. PvGood(disk[p]["pv"])  BY <1>1, <4>1 DEF FilesInv, PvInv
      <4> QED  BY <2>1, <3>1, <4>2 DEF PvGood
    <3>2. CASE s = "table"
      <4>1. TableGood(disk[p]["table"], buf)  BY <1>1 DEF FilesInv, TableInv
      <4>2. c \in buf.known  BY <3>2
      <4> QED  BY <2>1, <3>2, <4>1, <4>2 DEF TableGood
    <3> QED  BY <3>1, <3>2 DEF SourceNames
  <2> HIDE DEF g
  <2>5. Len(g.col[c]) = Len(g.ts) /\ DOMAIN g.ts = 1 .. Len(g.ts)  BY <2>3, <2>4 DEF Aligned
  <2>6. \A i \in DOMAIN g.ts : (g.col[c][i] = Fill /\ s = "table") \/ g.col[c][i][2] = g.ts[i]
    BY <2>4, <2>5 DEF Aligned, Matching
  <2> QED  BY <2>5, <2>6 DEF g
<1> QED  BY <1>2, <1>3 DEF FilesSound

\* The files of both HDF5 writers are sound at every moment: for any limits on
\* size and age, any number of batches, rotations and failing file operations,
\* row i of every column belongs to timestamp i unless an HDF5 error, a rotation
\* inside a batch or a batch with a timestamp for each frame (of which appendFrame
\* writes the first only) tore the group, the flush thread meets a null file
\* only in or after a rotation, and stop() leaves no temporary name behind
\* unless a rename failed (appendFrame, flushTabularBuffer, rotateMergeFile,
\* onHDF5Stop).
THEOREM FilesAreSound == HDF5Spec => []FilesSound
<1>1. HDF5Init => FileIInv  BY FilesInit
<1>2. FileIInv /\ [HDF5Next]_hdf5Vars => FileIInv'  BY FilesStep
<1>3. FileIInv => FilesSound  BY FilesImplied
<1> QED  BY <1>1, <1>2, <1>3, PTL DEF HDF5Spec

-----------------------------------------------------------------------------
(* The HDF5 writers: where the values are.                                  *)

\* The values that batches bring; a batch's number is at least one.
Stamps == (Nat \ {0}) \X Nat

\* What the files say of value x of column c of source s: whether some cell
\* holds it; that two cells do only where a tabular group is torn; that all its
\* cells are in torn groups.
Holds(q, x) == \E i \in DOMAIN q : q[i] = x
OnDisk(d, s, c, x) == \E p \in DOMAIN d : Holds(d[p][s].col[c], x)
Single(d, s, c, x) ==
  \A p, q \in DOMAIN d : \A i \in DOMAIN d[p][s].col[c], j \in DOMAIN d[q][s].col[c] :
    d[p][s].col[c][i] = x /\ d[q][s].col[c][j] = x =>
      (p = q /\ i = j) \/ (s = "table" /\ (d[p][s].torn \/ d[q][s].torn))
AllTorn(d, s, c, x) ==
  \A p \in DOMAIN d : Holds(d[p][s].col[c], x) => d[p][s].torn

\* The value that a flush writes, those it gives up, and those in hand.
Front(col, s, c, x)  == s = "table" /\ col[c] # <<>> /\ col[c][1] = x
Behind(col, s, c, x) == s = "table" /\ \E i \in DOMAIN col[c] : i # 1 /\ col[c][i] = x
Brought(w, frames, s, c, x) ==
  s = w.source /\ \E i \in DOMAIN frames : c \in frames[i].cols /\ x = <<w.seq, frames[i].row>>
Carried(w, s, c, x) == w # NoWork /\ Brought(w, w.frames, s, c, x)
Gone(l, s, c, x) == \E r \in Reasons : <<s, c, x>> \in l[r]

\* A value is in one place.  Only the front of the buffer may be in torn groups
\* as well: the flush that wrote it failed at another column.
ValueInv(s, c, x) ==
  LET D == OnDisk(disk, s, c, x)
      F == Front(buf.col, s, c, x)
      B == Behind(buf.col, s, c, x)
      H == Carried(work, s, c, x)
      G == Gone(lost, s, c, x)
  IN /\ <<s, c, x>> \in given => D \/ F \/ B \/ H \/ G
     /\ D \/ F \/ B \/ G => x[1] <= batchSeq /\ ~H
     /\ G => ~D /\ ~F /\ ~B
     /\ \A r, q \in Reasons : <<s, c, x>> \in lost[r] /\ <<s, c, x>> \in lost[q] => r = q
     /\ Single(disk, s, c, x)
     /\ F => AllTorn(disk, s, c, x) /\ ~B
     /\ B => ~D
Accounts == \A s \in SourceNames, c \in Columns, x \in Stamps : ValueInv(s, c, x)

\* A file's name is used once, but for the per-source files of the ordinary
\* source, which hold nothing of the tabular one.
Named(d, n) ==
  /\ IsFiniteSet(DOMAIN d)
  /\ \A p, q \in DOMAIN d : p[2] # "pv" /\ p[2] = q[2] /\ p[3] = q[3] => p = q
  /\ \A p \in DOMAIN d : p[2] = "pv" => \A c \in Columns : d[p]["table"].col[c] = <<>>
  /\ \A p \in DOMAIN d : IF mode = "merge" THEN p[2] = "merged" /\ p[3] < n ELSE p[2] # "merged"

\* The pool's file of the tabular source is as old as its name says, is counted
\* no bytes, and is the only one that may have the name of this second.
TableFile ==
  mode = "per_source" =>
    /\ \A p \in DOMAIN disk : p[2] = "table" =>
         /\ p[3] <= clock
         /\ p[3] = clock /\ phase \in {"new", "running"} =>
              file["table"].open /\ p = PathOf(file["table"])
    /\ file["table"].open => file["table"].bytes = 0 /\ file["table"].opened = file["table"].stamp

\* What the two histories hold.
Ledger ==
  /\ given \subseteq SourceNames \X Columns \X Stamps
  /\ lost = [r \in Reasons |-> lost[r]]
  /\ mode = "merge" => lost["overwritten"] = {}
  /\ faults = 0 => lost["failed"] = {} /\ lost["skipped"] = {}

\* What is known of the values, and all that is known.
AccountInv == Named(disk, fseq) /\ TableFile /\ Ledger /\ Accounts
AccountIInv == FileIInv /\ AccountInv

-----------------------------------------------------------------------------
(* Moving files keeps their values.                                         *)

\* Disk e holds nothing that d did not, and nothing twice that d held once.
Kept(d, e, s, c, x) ==
  /\ OnDisk(e, s, c, x) => OnDisk(d, s, c, x)
  /\ Single(d, s, c, x) => Single(e, s, c, x)
  /\ AllTorn(d, s, c, x) => AllTorn(e, s, c, x)
Moves(d, e) == \A s \in SourceNames, c \in Columns, x \in Nat \X Nat : Kept(d, e, s, c, x)

\* Disk e still has every value of source s.
Retains(d, e, s) == \A c \in Columns, x \in Nat \X Nat : OnDisk(d, s, c, x) => OnDisk(e, s, c, x)

\* What opening, closing and rotating do to the values.
Safe(d, e) ==
  /\ Moves(d, e) /\ Retains(d, e, "table")
  /\ mode = "merge" => Retains(d, e, "pv")

\* A file of e is a file of d under another name, perhaps with torn groups.
LEMMA MovedCells ==
  ASSUME NEW d, NEW e, NEW f, NEW s, NEW c, NEW x,
         \A p \in DOMAIN e :
           \/ ~Holds(e[p][s].col[c], x)
           \/ /\ f[p] \in DOMAIN d /\ e[p][s].col[c] = d[f[p]][s].col[c]
              /\ d[f[p]][s].torn => e[p][s].torn,
         \A p, q \in DOMAIN e : f[p] = f[q] => p = q
  PROVE  Kept(d, e, s, c, x)
<1>1. OnDisk(e, s, c, x) => OnDisk(d, s, c, x)  BY DEF OnDisk
<1>2. ASSUME AllTorn(d, s, c, x) PROVE AllTorn(e, s, c, x)
  <2>1. SUFFICES ASSUME NEW p \in DOMAIN e, Holds(e[p][s].col[c], x) PROVE e[p][s].torn
    BY DEF AllTorn
  <2>2. f[p] \in DOMAIN d /\ Holds(d[f[p]][s].col[c], x) /\ (d[f[p]][s].torn => e[p][s].torn)
    BY <2>1
  <2> QED  BY <1>2, <2>2 DEF AllTorn
<1>3. ASSUME Single(d, s, c, x) PROVE Single(e, s, c, x)
  <2>1. SUFFICES ASSUME NEW p \in DOMAIN e, NEW q \in DOMAIN e,
                        NEW i \in DOMAIN e[p][s].col[c], NEW j \in DOMAIN e[q][s].col[c],
                        e[p][s].col[c][i] = x, e[q][s].col[c][j] = x
                 PROVE  (p = q /\ i = j) \/ (s = "table" /\ (e[p][s].torn \/ e[q][s].torn))
    BY DEF Single
  <2>2. /\ f[p] \in DOMAIN d /\ e[p][s].col[c] = d[f[p]][s].col[c]
        /\ d[f[p]][s].torn => e[p][s].torn
    BY <2>1 DEF Holds
  <2>3. /\ f[q] \in DOMAIN d /\ e[q][s].col[c] = d[f[q]][s].col[c]
        /\ d[f[q]][s].torn => e[q][s].torn
    BY <2>1 DEF Holds
  <2>4. \/ f[p] = f[q] /\ i = j
        \/ s = "table" /\ (d[f[p]][s].torn \/ d[f[q]][s].torn)
    BY <1>3, <2>1, <2>2, <2>3 DEF Single
  <2> QED  BY <2>2, <2>3, <2>4
<1> QED  BY <1>1, <1>2, <1>3 DEF Kept

\* Every name of e is one of d, or a new name of key k for a file of d.
Traced(d, e, k) ==
  \A p \in DOMAIN e : p \in DOMAIN d \/ (p[2] = k /\ \E q \in DOMAIN d : q[2] = k /\ q[3] = p[3])

\* One move after another.
LEMMA SafeTwice ==
  ASSUME NEW d, NEW e, NEW h, Safe(d, e), Safe(e, h)
  PROVE  Safe(d, h)
<1>1. Moves(d, h)  BY DEF Safe, Moves, Kept
<1>2. Retains(d, h, "table")  BY DEF Safe, Retains
<1>3. mode = "merge" => Retains(d, h, "pv")  BY DEF Safe, Retains
<1> QED  BY <1>1, <1>2, <1>3 DEF Safe

\* No move at all.
LEMMA SafeStill == ASSUME NEW d PROVE Safe(d, d)
BY DEF Safe, Moves, Kept, Retains

\* A column of an empty file holds nothing.
LEMMA NoneHeld == ASSUME NEW x PROVE ~Holds(<<>>, x)
BY DEF Holds

\* rename() keeps all values but those of an ordinary file that has the name.
LEMMA RenamedSafe ==
  ASSUME NEW d, DiskTyped(d), NEW n, Named(d, n), NEW f \in OpenFiles, PathOf(f) \in DOMAIN d,
         NEW e, e = Renamed(d, f)
  PROVE  DiskTyped(e) /\ Named(e, n) /\ Safe(d, e) /\ Traced(d, e, f.key)
<1> DEFINE final == <<"final", f.key, f.stamp>>
           from == [p \in DOMAIN e |-> IF p = final THEN PathOf(f) ELSE p]
<1>1. /\ DOMAIN e = (DOMAIN d \ {PathOf(f)}) \cup {final}
      /\ DiskTyped(e)
  BY RenamedDisk DEF DiskTyped
<1>2. \A p \in DOMAIN e : e[p] = d[from[p]] /\ from[p] \in DOMAIN d
  BY <1>1 DEF Renamed
<1>3. PathOf(f) = <<"temp", f.key, f.stamp>>  BY DEF PathOf, TempPath
<1>4. final[2] = PathOf(f)[2] /\ final[3] = PathOf(f)[3] /\ final # PathOf(f)  BY <1>3
<1>5. \A p \in DOMAIN e : from[p][2] = p[2] /\ from[p][3] = p[3]
  BY <1>4
<1>6. \A p, q \in DOMAIN e : from[p] = from[q] => p = q
  BY <1>1, <1>4
<1> HIDE DEF from
<1>7. Named(e, n)
  <2>1. IsFiniteSet(DOMAIN e)
    <3>1. IsFiniteSet(DOMAIN d \ {PathOf(f)})  BY FS_Subset DEF Named
    <3>2. IsFiniteSet((DOMAIN d \ {PathOf(f)}) \cup {final})  BY <3>1, FS_AddElement
    <3> QED  BY <1>1, <3>2
  <2>2. \A p, q \in DOMAIN e : p[2] # "pv" /\ p[2] = q[2] /\ p[3] = q[3] => p = q
    BY <1>2, <1>5, <1>6 DEF Named
  <2>3. \A p \in DOMAIN e : p[2] = "pv" => \A c \in Columns : e[p]["table"].col[c] = <<>>
    BY <1>2, <1>5 DEF Named
  <2>4. \A p \in DOMAIN e : IF mode = "merge" THEN p[2] = "merged" /\ p[3] < n ELSE p[2] # "merged"
    BY <1>2, <1>5 DEF Named
  <2> QED  BY <2>1, <2>2, <2>3, <2>4 DEF Named
<1>8. Moves(d, e)  BY <1>2, <1>6, MovedCells DEF Moves
<1>9. ASSUME NEW s \in SourceNames, s = "table" \/ mode = "merge" PROVE Retains(d, e, s)
  <2>1. SUFFICES ASSUME NEW c \in Columns, NEW x \in Nat \X Nat, NEW p \in DOMAIN d,
                        Holds(d[p][s].col[c], x)
                 PROVE  OnDisk(e, s, c, x)
    BY DEF Retains, OnDisk
  <2>2. CASE p = final
    <3>1. p[2] = PathOf(f)[2] /\ p[3] = PathOf(f)[3] /\ p # PathOf(f)  BY <1>4, <2>2
    <3>2. p[2] = "pv"  BY <3>1 DEF Named
    <3>3. s = "table"  BY <1>9, <3>2 DEF Named
    <3>4. d[p][s].col[c] = <<>>  BY <3>2, <3>3 DEF Named
    <3> QED  BY <2>1, <3>4, NoneHeld
  <2>3. CASE p = PathOf(f)
    <3>1. final \in DOMAIN e /\ e[final] = d[p]  BY <1>1, <1>2, <2>3 DEF from
    <3> QED  BY <2>1, <3>1 DEF OnDisk
  <2>4. CASE p # PathOf(f) /\ p # final
    <3>1. p \in DOMAIN e /\ e[p] = d[p]  BY <1>1, <1>2, <2>4 DEF from
    <3> QED  BY <2>1, <3>1 DEF OnDisk
  <2> QED  BY <2>2, <2>3, <2>4
<1>10. Traced(d, e, f.key)
  <2>1. \A p \in DOMAIN e : p \in DOMAIN d \/ p = final  BY <1>1
  <2>2. PathOf(f)[2] = f.key /\ final[2] = f.key /\ final[3] = PathOf(f)[3]  BY <1>3
  <2> QED  BY <2>1, <2>2 DEF Traced
<1> QED  BY <1>1, <1>7, <1>8, <1>9, <1>10 DEF Safe, SourceNames

\* Tearing a group moves nothing.
LEMMA TornSafe ==
  ASSUME NEW d, DiskTyped(d), NEW n, Named(d, n), NEW path \in DOMAIN d,
         NEW e, e = TornGroup(d, path)
  PROVE  DiskTyped(e) /\ DOMAIN e = DOMAIN d /\ Named(e, n) /\ Safe(d, e)
         /\ \A s \in SourceNames : Retains(d, e, s)
<1>1. /\ DiskTyped(e) /\ DOMAIN e = DOMAIN d
      /\ \A p \in DOMAIN d, t \in SourceNames :
              e[p][t] = IF work.source = "pv" /\ lastTs = work.seq /\ p = path /\ t = "pv"
                        THEN Tear(d[path]["pv"]) ELSE d[p][t]
  BY TornDisk
<1>2. \A p \in DOMAIN d, t \in SourceNames : d[p][t] \in Groups
  BY DEF DiskTyped, Contents
<1>3. \A p \in DOMAIN d, t \in SourceNames :
        /\ e[p][t].col = d[p][t].col /\ (d[p][t].torn => e[p][t].torn)
        /\ t = "table" => e[p][t] = d[p][t]
  BY <1>1, <1>2, Torn DEF SourceNames
<1> DEFINE same == [p \in DOMAIN e |-> p]
<1>4. \A p \in DOMAIN e : same[p] = p  OBVIOUS
<1> HIDE DEF same
<1>5. Named(e, n)  BY <1>1, <1>3 DEF Named, SourceNames
<1>6. Moves(d, e)  BY <1>1, <1>3, <1>4, MovedCells DEF Moves
<1>7. \A s \in SourceNames : Retains(d, e, s)
  BY <1>1, <1>3 DEF Retains, OnDisk
<1> QED  BY <1>1, <1>5, <1>6, <1>7 DEF Safe, SourceNames

\* Opening a file whose name is new, or an ordinary source's, keeps all values
\* but those of an ordinary file that has the name.
LEMMA TruncatedSafe ==
  ASSUME HDF5Types, NEW d, DiskTyped(d), NEW n, Named(d, n), NEW k \in Keys, NEW m,
         mode = "merge" => k = "merged" /\ n = Stamp /\ m = Stamp + 1,
         mode # "merge" => k # "merged",
         k = "table" => \A p \in DOMAIN d : ~(p[2] = "table" /\ p[3] = Stamp),
         NEW e, e = Truncated(d, k)
  PROVE  DiskTyped(e) /\ Named(e, m) /\ Safe(d, e)
<1> DEFINE path == TempPath(k, Stamp)
           same == [p \in DOMAIN e |-> p]
<1>1. /\ DOMAIN e = DOMAIN d \cup {path} /\ DiskTyped(e)
      /\ \A s \in SourceNames : e[path][s] = EmptyGroup
  BY TruncatedDisk DEF DiskTyped
<1>2. \A p \in DOMAIN d : p # path => e[p] = d[p]  BY DEF Truncated
<1>3. path[2] = k /\ path[3] = Stamp  BY DEF TempPath
<1>4. \A s \in SourceNames, c \in Columns : e[path][s].col[c] = <<>>  BY <1>1, EmptyTyped
<1>5. \A p \in DOMAIN e : same[p] = p  OBVIOUS
<1>6. Stamp \in Nat /\ \A p \in DOMAIN d : p[3] \in Nat
  BY DEF HDF5Types, Stamp, DiskTyped, Paths
<1> HIDE DEF path, same
<1>7. ASSUME k # "pv" PROVE \A p \in DOMAIN d : ~(p[2] = k /\ p[3] = Stamp)
  <2>1. CASE mode = "merge"  BY <1>6, <2>1 DEF Named
  <2>2. CASE mode # "merge"
    <3>1. k = "table"  BY <1>7, <2>2 DEF Keys, SourceNames
    <3> QED  BY <3>1
  <2> QED  BY <2>1, <2>2
<1>8. Named(e, m)
  <2>1. IsFiniteSet(DOMAIN e)
    <3>1. IsFiniteSet(DOMAIN d)  BY DEF Named
    <3> QED  BY <1>1, <3>1, FS_AddElement
  <2>2. \A p, q \in DOMAIN e : p[2] # "pv" /\ p[2] = q[2] /\ p[3] = q[3] => p = q
    BY <1>1, <1>3, <1>7 DEF Named
  <2>3. \A p \in DOMAIN e : p[2] = "pv" => \A c \in Columns : e[p]["table"].col[c] = <<>>
    <3>1. \A c \in Columns : e[path]["table"].col[c] = <<>>  BY <1>4 DEF SourceNames
    <3> QED  BY <1>1, <1>2, <3>1 DEF Named
  <2>4. \A p \in DOMAIN e : IF mode = "merge" THEN p[2] = "merged" /\ p[3] < m ELSE p[2] # "merged"
    BY <1>1, <1>3, <1>6 DEF Named
  <2> QED  BY <2>1, <2>2, <2>3, <2>4 DEF Named
<1>9. Moves(d, e)
  <2>1. SUFFICES ASSUME NEW s \in SourceNames, NEW c \in Columns, NEW x \in Nat \X Nat
                 PROVE  Kept(d, e, s, c, x)
    BY DEF Moves
  <2>2. ASSUME NEW p \in DOMAIN e
        PROVE  \/ ~Holds(e[p][s].col[c], x)
               \/ /\ same[p] \in DOMAIN d /\ e[p][s].col[c] = d[same[p]][s].col[c]
                  /\ d[same[p]][s].torn => e[p][s].torn
    <3>1. CASE p = path  BY <1>4, <3>1, NoneHeld
    <3>2. CASE p # path  BY <1>1, <1>2, <1>5, <3>2
    <3> QED  BY <3>1, <3>2
  <2> QED  BY <1>5, <2>2, MovedCells
<1>10. ASSUME NEW s \in SourceNames, s = "table" \/ mode = "merge" PROVE Retains(d, e, s)
  <2>1. SUFFICES ASSUME NEW c \in Columns, NEW x \in Nat \X Nat, NEW p \in DOMAIN d,
                        Holds(d[p][s].col[c], x)
                 PROVE  OnDisk(e, s, c, x)
    BY DEF Retains, OnDisk
  <2>2. p # path
    <3>1. ASSUME p = path PROVE FALSE
      <4>1. k = "pv"  BY <1>3, <1>7, <3>1
      <4>2. s = "table"  BY <1>10, <4>1
      <4>3. d[p][s].col[c] = <<>>  BY <1>3, <3>1, <4>1, <4>2 DEF Named
      <4> QED  BY <2>1, <4>3, NoneHeld
    <3> QED  BY <3>1
  <2>3. p \in DOMAIN e /\ e[p] = d[p]  BY <1>1, <1>2, <2>2
  <2> QED  BY <2>1, <2>3 DEF OnDisk
<1> QED  BY <1>1, <1>8, <1>9, <1>10 DEF Safe, SourceNames

\* finalizeClosedFile() keeps all values but those of an ordinary file that has
\* the final name.
LEMMA FinalizedSafe ==
  ASSUME NEW d, DiskTyped(d), NEW n, Named(d, n), NEW f \in OpenFiles, PathOf(f) \in DOMAIN d,
         NEW e \in Finalized(d, f)
  PROVE  DiskTyped(e) /\ Named(e, n) /\ Safe(d, e) /\ Traced(d, e, f.key)
<1>1. e = d \/ e = Renamed(d, f)  BY DEF Finalized
<1>2. Traced(d, d, f.key)  BY DEF Traced
<1> QED  BY <1>1, <1>2, RenamedSafe, SafeStill

-----------------------------------------------------------------------------
(* What writing one group does to the values.                               *)

\* Value x of column c of source s is among the values written for source t.
Writes(s, c, x, t, cols, values) == s = t /\ c \in cols /\ values[c] = x

\* What a step that wrote one group, perhaps tearing it, did to a value.
Gains(s, c, x, t, cols, values, torn) ==
  LET W == Writes(s, c, x, t, cols, values)
  IN /\ OnDisk(disk', s, c, x) <=> OnDisk(disk, s, c, x) \/ W
     /\ Single(disk, s, c, x)
          /\ (W => ~OnDisk(disk, s, c, x) \/ (s = "table" /\ AllTorn(disk, s, c, x)))
          => Single(disk', s, c, x)
     /\ AllTorn(disk, s, c, x) /\ (W => torn) => AllTorn(disk', s, c, x)

\* One position more.
LEMMA OneLonger == ASSUME NEW n \in Nat PROVE 1 .. n + 1 = (1 .. n) \cup {n + 1} /\ n + 1 \notin 1 .. n
OBVIOUS

\* Group g of source t in file k became h.
Becomes(k, t, g, h) ==
  /\ g = disk[k][t] /\ (g.torn => h.torn)
  /\ DOMAIN disk' = DOMAIN disk
  /\ \A p \in DOMAIN disk, u \in SourceNames :
       disk'[p][u] = IF p = k /\ u = t THEN h ELSE disk[p][u]

\* Its columns cols were given a value each.
Grows(h, g, cols, values) ==
  \A c \in Columns : h.col[c] = IF c \in cols THEN Append(g.col[c], values[c]) ELSE g.col[c]

\* The cells of a group after values were appended to some of its columns.
LEMMA WrittenCells ==
  ASSUME NEW k \in DOMAIN disk, NEW t \in SourceNames, NEW g \in Groups, NEW h,
         NEW cols, NEW values \in [Columns -> Nat \X Nat],
         Grows(h, g, cols, values), Becomes(k, t, g, h),
         NEW s \in SourceNames, NEW c \in Columns, NEW x
  PROVE  Gains(s, c, x, t, cols, values, h.torn)
<1> USE DEF Grows, Becomes
<1> DEFINE W == Writes(s, c, x, t, cols, values)
           col(p) == disk[p][s].col[c]
           new(p) == disk'[p][s].col[c]
           next == Len(g.col[c]) + 1
<1>1. g.col[c] \in Seq(Nat \X Nat) /\ values[c] \in Nat \X Nat  BY DEF Groups
<1>2. ASSUME NEW p \in DOMAIN disk, p = k, s = t, c \in cols
      PROVE  /\ DOMAIN new(p) = DOMAIN col(p) \cup {next} /\ next \notin DOMAIN col(p)
             /\ new(p)[next] = values[c]
             /\ \A i \in DOMAIN col(p) : new(p)[i] = col(p)[i]
  <2>1. col(p) = g.col[c] /\ new(p) = Append(g.col[c], values[c])  BY <1>2
  <2>2. /\ Len(new(p)) = Len(g.col[c]) + 1 /\ new(p)[Len(g.col[c]) + 1] = values[c]
        /\ \A i \in 1 .. Len(g.col[c]) : new(p)[i] = g.col[c][i]
    BY ONLY <1>1, <2>1, OneMore
  <2>3. new(p) \in Seq(Nat \X Nat)  BY <1>1, <2>1
  <2>4. DOMAIN g.col[c] = 1 .. Len(g.col[c]) /\ Len(g.col[c]) \in Nat  BY <1>1
  <2>5. DOMAIN new(p) = 1 .. Len(g.col[c]) + 1  BY <2>2, <2>3
  <2>6. 1 .. Len(g.col[c]) + 1 = (1 .. Len(g.col[c])) \cup {next} /\ next \notin 1 .. Len(g.col[c])
    BY <2>4, OneLonger
  <2>7. DOMAIN col(p) = 1 .. Len(g.col[c])  BY ONLY <2>1, <2>4
  <2>8. DOMAIN new(p) = DOMAIN col(p) \cup {next} /\ next \notin DOMAIN col(p)
    BY ONLY <2>5, <2>6, <2>7
  <2>9. new(p)[next] = values[c]  BY ONLY <2>2
  <2>10. \A i \in DOMAIN col(p) : new(p)[i] = col(p)[i]  BY ONLY <2>1, <2>2, <2>7
  <2> QED  BY ONLY <2>8, <2>9, <2>10
<1>3. ASSUME NEW p \in DOMAIN disk, ~(p = k /\ s = t /\ c \in cols) PROVE new(p) = col(p)
  BY <1>3
<1>4. \A p \in DOMAIN disk : \A i \in DOMAIN new(p) :
        new(p)[i] = x => (i \in DOMAIN col(p) /\ col(p)[i] = x) \/ (W /\ p = k /\ i = next)
  BY <1>2, <1>3 DEF Writes
<1>5. \A p \in DOMAIN disk : \A i \in DOMAIN col(p) : i \in DOMAIN new(p) /\ new(p)[i] = col(p)[i]
  BY <1>2, <1>3
<1>6. W => next \in DOMAIN new(k) /\ new(k)[next] = x  BY <1>2 DEF Writes
<1>7. /\ \A p \in DOMAIN disk : disk[p][s].torn => disk'[p][s].torn
      /\ W => disk'[k][s].torn = h.torn
  BY DEF Writes
<1>a. /\ \A p \in DOMAIN disk : Holds(new(p), x) <=> Holds(col(p), x) \/ (W /\ p = k)
  BY <1>4, <1>5, <1>6 DEF Holds
<1> HIDE DEF W, next
<1>8. OnDisk(disk', s, c, x) <=> OnDisk(disk, s, c, x) \/ W
  BY <1>a DEF OnDisk
<1>9. ASSUME AllTorn(disk, s, c, x), W => h.torn PROVE AllTorn(disk', s, c, x)
  <2>1. SUFFICES ASSUME NEW p \in DOMAIN disk, Holds(new(p), x) PROVE disk'[p][s].torn
    BY DEF AllTorn
  <2>2. CASE Holds(col(p), x)
    <3>1. disk[p][s].torn  BY <1>9, <2>2 DEF AllTorn
    <3> QED  BY <1>7, <3>1
  <2>3. CASE W /\ p = k  BY <1>7, <1>9, <2>3
  <2> QED  BY <1>a, <2>1, <2>2, <2>3
<1>10. ASSUME Single(disk, s, c, x),
              W => ~OnDisk(disk, s, c, x) \/ (s = "table" /\ AllTorn(disk, s, c, x))
       PROVE  Single(disk', s, c, x)
  <2>1. SUFFICES ASSUME NEW p \in DOMAIN disk, NEW q \in DOMAIN disk,
                        NEW i \in DOMAIN new(p), NEW j \in DOMAIN new(q),
                        new(p)[i] = x, new(q)[j] = x
                 PROVE  (p = q /\ i = j) \/ (s = "table" /\ (disk'[p][s].torn \/ disk'[q][s].torn))
    BY DEF Single
  <2> DEFINE oldP == i \in DOMAIN col(p) /\ col(p)[i] = x
             oldQ == j \in DOMAIN col(q) /\ col(q)[j] = x
  <2>2. (oldP \/ (W /\ p = k /\ i = next)) /\ (oldQ \/ (W /\ q = k /\ j = next))
    BY <1>4, <2>1
  <2>3. CASE oldP /\ oldQ
    <3>1. (p = q /\ i = j) \/ (s = "table" /\ (disk[p][s].torn \/ disk[q][s].torn))
      BY <1>10, <2>3 DEF Single
    <3> QED  BY <1>7, <3>1
  <2>4. CASE W /\ (oldP \/ oldQ)
    <3>1. s = "table" /\ AllTorn(disk, s, c, x)
      BY <1>10, <2>4 DEF OnDisk, Holds
    <3>2. disk[p][s].torn \/ disk[q][s].torn  BY <2>4, <3>1 DEF AllTorn, Holds
    <3> QED  BY <1>7, <3>1, <3>2
  <2>5. CASE ~oldP /\ ~oldQ  BY <2>2, <2>5
  <2> HIDE DEF oldP, oldQ
  <2> QED  BY <2>2, <2>3, <2>4, <2>5
<1>11. /\ OnDisk(disk', s, c, x) <=> OnDisk(disk, s, c, x) \/ W
       /\ Single(disk, s, c, x)
          /\ (W => ~OnDisk(disk, s, c, x) \/ (s = "table" /\ AllTorn(disk, s, c, x)))
          => Single(disk', s, c, x)
       /\ AllTorn(disk, s, c, x) /\ (W => h.torn) => AllTorn(disk', s, c, x)
  BY <1>8, <1>9, <1>10
<1> QED  BY <1>11 DEF W, Gains

-----------------------------------------------------------------------------
(* What each kind of step does to the place of a value.                     *)

\* Files are moved, frames of the batch in hand are given up, or nothing is.
LEMMA ValueKept ==
  ASSUME NEW s, NEW c, NEW x, ValueInv(s, c, x), Kept(disk, disk', s, c, x),
         s = "table" /\ OnDisk(disk, s, c, x) => OnDisk(disk', s, c, x),
         buf'.col = buf.col, given' = given, batchSeq' = batchSeq,
         Carried(work', s, c, x) => Carried(work, s, c, x),
         Carried(work, s, c, x) => x[1] <= batchSeq,
         NEW reason \in Reasons \ {"overwritten"},
         \A r \in Reasons : <<s, c, x>> \in lost'[r] <=>
           \/ <<s, c, x>> \in lost[r]
           \/ r = "overwritten" /\ OnDisk(disk, s, c, x) /\ ~OnDisk(disk', s, c, x)
           \/ r = reason /\ Carried(work, s, c, x) /\ ~Carried(work', s, c, x)
  PROVE  ValueInv(s, c, x)'
<1> DEFINE D == OnDisk(disk, s, c, x)
           F == Front(buf.col, s, c, x)
           B == Behind(buf.col, s, c, x)
           H == Carried(work, s, c, x)
           G == Gone(lost, s, c, x)
<1>1. /\ <<s, c, x>> \in given => D \/ F \/ B \/ H \/ G
      /\ D \/ F \/ B \/ G => x[1] <= batchSeq /\ ~H
      /\ G => ~D /\ ~F /\ ~B
      /\ \A r, q \in Reasons : <<s, c, x>> \in lost[r] /\ <<s, c, x>> \in lost[q] => r = q
      /\ Single(disk, s, c, x)
      /\ F => AllTorn(disk, s, c, x) /\ ~B
      /\ B => ~D
  BY DEF ValueInv
<1>2. /\ OnDisk(disk', s, c, x) => D
      /\ Single(disk', s, c, x) /\ (F => AllTorn(disk', s, c, x))
  BY <1>1 DEF Kept
<1>3. F => s = "table"  BY DEF Front
<1>4. "overwritten" \in Reasons  BY DEF Reasons
<1>5. Gone(lost', s, c, x) <=> G \/ (D /\ ~OnDisk(disk', s, c, x)) \/ (H /\ ~Carried(work', s, c, x))
  BY <1>4 DEF Gone
<1>6. \A r, q \in Reasons : <<s, c, x>> \in lost'[r] /\ <<s, c, x>> \in lost'[q] => r = q
  BY <1>1 DEF Gone
<1> HIDE DEF D, F, B, H, G
<1> QED  BY <1>1, <1>2, <1>3, <1>5, <1>6 DEF ValueInv, D, F, B, H, G

\* The worker takes a batch.
LEMMA ValueTaken ==
  ASSUME NEW s, NEW c, NEW x \in Stamps, ValueInv(s, c, x), batchSeq \in Nat,
         disk' = disk, buf' = buf, lost' = lost, batchSeq' = batchSeq + 1,
         ~Carried(work, s, c, x), Carried(work', s, c, x) => x[1] = batchSeq + 1,
         <<s, c, x>> \in given' => <<s, c, x>> \in given \/ Carried(work', s, c, x)
  PROVE  ValueInv(s, c, x)'
<1> DEFINE D == OnDisk(disk, s, c, x)
           F == Front(buf.col, s, c, x)
           B == Behind(buf.col, s, c, x)
           G == Gone(lost, s, c, x)
<1>1. /\ <<s, c, x>> \in given => D \/ F \/ B \/ G
      /\ D \/ F \/ B \/ G => x[1] <= batchSeq
      /\ G => ~D /\ ~F /\ ~B
      /\ \A r, q \in Reasons : <<s, c, x>> \in lost[r] /\ <<s, c, x>> \in lost[q] => r = q
      /\ Single(disk, s, c, x)
      /\ F => AllTorn(disk, s, c, x) /\ ~B
      /\ B => ~D
  BY DEF ValueInv
<1>2. x[1] \in Nat  BY DEF Stamps
<1>3. x[1] <= batchSeq => x[1] <= batchSeq + 1 /\ x[1] # batchSeq + 1  BY <1>2
<1>4. D \/ F \/ B \/ G => x[1] <= batchSeq' /\ ~Carried(work', s, c, x)
  BY <1>1, <1>3
<1> HIDE DEF D, F, B, G
<1> QED  BY <1>1, <1>4 DEF ValueInv, D, F, B, G

\* A frame is appended, or part of it and the rest of the batch is given up.
LEMMA ValueWritten ==
  ASSUME NEW s, NEW c, NEW x, ValueInv(s, c, x), NEW cols, NEW values, NEW torn,
         Gains(s, c, x, "pv", cols, values, torn),
         buf'.col = buf.col, given' = given, batchSeq' = batchSeq,
         Carried(work', s, c, x) => Carried(work, s, c, x),
         Carried(work, s, c, x) => x[1] <= batchSeq,
         Writes(s, c, x, "pv", cols, values) => Carried(work, s, c, x) /\ ~Carried(work', s, c, x),
         \A r \in Reasons : <<s, c, x>> \in lost'[r] <=>
           \/ <<s, c, x>> \in lost[r]
           \/ /\ r = "failed" /\ Carried(work, s, c, x) /\ ~Carried(work', s, c, x)
              /\ ~Writes(s, c, x, "pv", cols, values)
  PROVE  ValueInv(s, c, x)'
<1> DEFINE D == OnDisk(disk, s, c, x)
           F == Front(buf.col, s, c, x)
           B == Behind(buf.col, s, c, x)
           H == Carried(work, s, c, x)
           G == Gone(lost, s, c, x)
           W == Writes(s, c, x, "pv", cols, values)
           E == OnDisk(disk', s, c, x)
           I == Carried(work', s, c, x)
           K == Gone(lost', s, c, x)
<1>1. /\ <<s, c, x>> \in given => D \/ F \/ B \/ H \/ G
      /\ D \/ F \/ B \/ G => x[1] <= batchSeq /\ ~H
      /\ G => ~D /\ ~F /\ ~B
      /\ \A r, q \in Reasons : <<s, c, x>> \in lost[r] /\ <<s, c, x>> \in lost[q] => r = q
      /\ Single(disk, s, c, x)
      /\ F => AllTorn(disk, s, c, x) /\ ~B
      /\ B => ~D
  BY DEF ValueInv
<1>2. /\ E <=> D \/ W
      /\ Single(disk, s, c, x) /\ (W => ~D) => Single(disk', s, c, x)
      /\ AllTorn(disk, s, c, x) /\ ~W => AllTorn(disk', s, c, x)
  BY DEF Gains
<1>3. (W => H /\ ~I) /\ (I => H) /\ (H => x[1] <= batchSeq)  OBVIOUS
<1>4. "failed" \in Reasons  BY DEF Reasons
<1>5. K <=> G \/ (H /\ ~I /\ ~W)  BY <1>4 DEF Gone
<1>6. \A r, q \in Reasons : <<s, c, x>> \in lost'[r] /\ <<s, c, x>> \in lost'[q] => r = q
  BY <1>1 DEF Gone
<1> HIDE DEF D, F, B, H, G, W, E, I, K
<1>7. /\ <<s, c, x>> \in given => E \/ F \/ B \/ I \/ K
      /\ E \/ F \/ B \/ K => x[1] <= batchSeq /\ ~I
      /\ K => ~E /\ ~F /\ ~B
      /\ Single(disk', s, c, x)
      /\ F => AllTorn(disk', s, c, x) /\ ~B
      /\ B => ~E
  BY <1>1, <1>2, <1>3, <1>5
<1> QED  BY <1>6, <1>7 DEF ValueInv, F, B, E, I, K

\* The buffer is flushed: its front is written, the values behind are given up.
LEMMA ValueFlushed ==
  ASSUME NEW s, NEW c, NEW x, ValueInv(s, c, x), NEW cols, NEW values, NEW torn,
         Gains(s, c, x, "table", cols, values, torn),
         ~Front(buf'.col, s, c, x), ~Behind(buf'.col, s, c, x),
         given' = given, batchSeq' = batchSeq,
         Carried(work', s, c, x) <=> Carried(work, s, c, x),
         Writes(s, c, x, "table", cols, values) <=> Front(buf.col, s, c, x),
         \A r \in Reasons : <<s, c, x>> \in lost'[r] <=>
           <<s, c, x>> \in lost[r] \/ (r = "repeated" /\ Behind(buf.col, s, c, x))
  PROVE  ValueInv(s, c, x)'
<1> DEFINE D == OnDisk(disk, s, c, x)
           F == Front(buf.col, s, c, x)
           B == Behind(buf.col, s, c, x)
           H == Carried(work, s, c, x)
           G == Gone(lost, s, c, x)
           E == OnDisk(disk', s, c, x)
           I == Carried(work', s, c, x)
           K == Gone(lost', s, c, x)
<1>1. /\ <<s, c, x>> \in given => D \/ F \/ B \/ H \/ G
      /\ D \/ F \/ B \/ G => x[1] <= batchSeq /\ ~H
      /\ G => ~D /\ ~F /\ ~B
      /\ \A r, q \in Reasons : <<s, c, x>> \in lost[r] /\ <<s, c, x>> \in lost[q] => r = q
      /\ Single(disk, s, c, x)
      /\ F => AllTorn(disk, s, c, x) /\ ~B
      /\ B => ~D
  BY DEF ValueInv
<1>2. F => s = "table"  BY DEF Front
<1>3. /\ E <=> D \/ F
      /\ Single(disk, s, c, x) /\ (F => s = "table" /\ AllTorn(disk, s, c, x))
         => Single(disk', s, c, x)
  BY DEF Gains
<1>4. "repeated" \in Reasons  BY DEF Reasons
<1>5. K <=> G \/ B  BY <1>4 DEF Gone
<1>6. \A r, q \in Reasons : <<s, c, x>> \in lost'[r] /\ <<s, c, x>> \in lost'[q] => r = q
  BY <1>1 DEF Gone
<1>7. I <=> H  OBVIOUS
<1> HIDE DEF D, F, B, H, G, E, I, K
<1>8. /\ <<s, c, x>> \in given => E \/ I \/ K
      /\ E \/ K => x[1] <= batchSeq /\ ~I
      /\ K => ~E
      /\ Single(disk', s, c, x)
  BY <1>1, <1>2, <1>3, <1>5, <1>7
<1> QED  BY <1>6, <1>8 DEF ValueInv, E, I, K

\* A flush that fails: some columns are written to a group that is torn now.
LEMMA ValueTried ==
  ASSUME NEW s, NEW c, NEW x, ValueInv(s, c, x), NEW cols, NEW values,
         Gains(s, c, x, "table", cols, values, TRUE),
         buf'.col = buf.col, given' = given, batchSeq' = batchSeq,
         ~Carried(work', s, c, x),
         Carried(work, s, c, x) => x[1] <= batchSeq,
         Writes(s, c, x, "table", cols, values) => Front(buf.col, s, c, x),
         \A r \in Reasons : <<s, c, x>> \in lost'[r] <=>
           <<s, c, x>> \in lost[r] \/ (r = "failed" /\ Carried(work, s, c, x))
  PROVE  ValueInv(s, c, x)'
<1> DEFINE D == OnDisk(disk, s, c, x)
           F == Front(buf.col, s, c, x)
           B == Behind(buf.col, s, c, x)
           H == Carried(work, s, c, x)
           G == Gone(lost, s, c, x)
           W == Writes(s, c, x, "table", cols, values)
           E == OnDisk(disk', s, c, x)
           K == Gone(lost', s, c, x)
<1>1. /\ <<s, c, x>> \in given => D \/ F \/ B \/ H \/ G
      /\ D \/ F \/ B \/ G => x[1] <= batchSeq /\ ~H
      /\ G => ~D /\ ~F /\ ~B
      /\ \A r, q \in Reasons : <<s, c, x>> \in lost[r] /\ <<s, c, x>> \in lost[q] => r = q
      /\ Single(disk, s, c, x)
      /\ F => AllTorn(disk, s, c, x) /\ ~B
      /\ B => ~D
  BY DEF ValueInv
<1>2. F => s = "table"  BY DEF Front
<1>3. /\ E <=> D \/ W
      /\ Single(disk, s, c, x) /\ (W => s = "table" /\ AllTorn(disk, s, c, x))
         => Single(disk', s, c, x)
      /\ AllTorn(disk, s, c, x) => AllTorn(disk', s, c, x)
  BY DEF Gains
<1>4. "failed" \in Reasons  BY DEF Reasons
<1>5. K <=> G \/ H  BY <1>4 DEF Gone
<1>6. \A r, q \in Reasons : <<s, c, x>> \in lost'[r] /\ <<s, c, x>> \in lost'[q] => r = q
  BY <1>1 DEF Gone
<1>7. (W => F) /\ (H => x[1] <= batchSeq)  OBVIOUS
<1> HIDE DEF D, F, B, H, G, W, E, K
<1>8. /\ <<s, c, x>> \in given => E \/ F \/ B \/ K
      /\ E \/ F \/ B \/ K => x[1] <= batchSeq
      /\ K => ~E /\ ~F /\ ~B
      /\ Single(disk', s, c, x)
      /\ F => AllTorn(disk', s, c, x) /\ ~B
      /\ B => ~E
  BY <1>1, <1>2, <1>3, <1>5, <1>7
<1> QED  BY <1>6, <1>8 DEF ValueInv, F, B, E, K

\* The buffer takes a frame, whole or in part, and the rest is given up.
LEMMA ValueBuffered ==
  ASSUME NEW s, NEW c, NEW x, ValueInv(s, c, x), NEW New \in BOOLEAN,
         disk' = disk, given' = given, batchSeq' = batchSeq,
         Front(buf'.col, s, c, x) \/ Behind(buf'.col, s, c, x) <=>
           Front(buf.col, s, c, x) \/ Behind(buf.col, s, c, x) \/ New,
         ~New => (Front(buf'.col, s, c, x) <=> Front(buf.col, s, c, x)),
         ~New => (Behind(buf'.col, s, c, x) <=> Behind(buf.col, s, c, x)),
         New /\ ~Front(buf.col, s, c, x) /\ ~Behind(buf.col, s, c, x) =>
           ~(Front(buf'.col, s, c, x) /\ Behind(buf'.col, s, c, x)),
         New => Carried(work, s, c, x), ~Carried(work', s, c, x),
         Carried(work, s, c, x) => x[1] <= batchSeq,
         NEW reason \in Reasons,
         \A r \in Reasons : <<s, c, x>> \in lost'[r] <=>
           <<s, c, x>> \in lost[r] \/ (r = reason /\ Carried(work, s, c, x) /\ ~New)
  PROVE  ValueInv(s, c, x)'
<1> DEFINE D == OnDisk(disk, s, c, x)
           F == Front(buf.col, s, c, x)
           B == Behind(buf.col, s, c, x)
           H == Carried(work, s, c, x)
           G == Gone(lost, s, c, x)
           F2 == Front(buf'.col, s, c, x)
           B2 == Behind(buf'.col, s, c, x)
           K == Gone(lost', s, c, x)
<1>1. /\ <<s, c, x>> \in given => D \/ F \/ B \/ H \/ G
      /\ D \/ F \/ B \/ G => x[1] <= batchSeq /\ ~H
      /\ G => ~D /\ ~F /\ ~B
      /\ \A r, q \in Reasons : <<s, c, x>> \in lost[r] /\ <<s, c, x>> \in lost[q] => r = q
      /\ Single(disk, s, c, x)
      /\ F => AllTorn(disk, s, c, x) /\ ~B
      /\ B => ~D
  BY DEF ValueInv
<1>2. ~D => AllTorn(disk, s, c, x)  BY DEF OnDisk, AllTorn
<1>3. /\ F2 \/ B2 <=> F \/ B \/ New
      /\ ~New => (F2 <=> F) /\ (B2 <=> B)
      /\ New /\ ~F /\ ~B => ~(F2 /\ B2)
      /\ New => H
      /\ H => x[1] <= batchSeq
  OBVIOUS
<1>5. K <=> G \/ (H /\ ~New)  BY DEF Gone
<1>6. \A r, q \in Reasons : <<s, c, x>> \in lost'[r] /\ <<s, c, x>> \in lost'[q] => r = q
  BY <1>1 DEF Gone
<1> HIDE DEF D, F, B, H, G, F2, B2, K
<1>8. /\ <<s, c, x>> \in given => D \/ F2 \/ B2 \/ K
      /\ D \/ F2 \/ B2 \/ K => x[1] <= batchSeq
      /\ K => ~D /\ ~F2 /\ ~B2
      /\ F2 => AllTorn(disk, s, c, x) /\ ~B2
      /\ B2 => ~D
  BY <1>1, <1>2, <1>3, <1>5
<1> QED  BY <1>1, <1>6, <1>8 DEF ValueInv, D, F2, B2, K

-----------------------------------------------------------------------------
(* What is lost.                                                            *)

\* Losing values for one reason.
LEMMA LoseWhat ==
  ASSUME lost = [r \in Reasons |-> lost[r]], NEW reason \in Reasons, NEW V, Lose(reason, V)
  PROVE  /\ lost' = [r \in Reasons |-> lost'[r]]
         /\ \A r \in Reasons : lost'[r] = IF r = reason THEN lost[r] \cup V ELSE lost[r]
BY DEF Lose

\* The values of the frames of a batch.
LEMMA FrameValuesAre ==
  ASSUME NEW w, NEW frames, NEW s, NEW c, NEW x
  PROVE  <<s, c, x>> \in FrameValues(w, frames) <=> Brought(w, frames, s, c, x)
BY DEF FrameValues, Brought

\* The values of a file.
LEMMA ValuesAre ==
  ASSUME NEW content, NEW s \in SourceNames, NEW c \in Columns, NEW x, x # Fill
  PROVE  <<s, c, x>> \in ValuesIn(content) <=> Holds(content[s].col[c], x)
<1>1. ASSUME Holds(content[s].col[c], x) PROVE <<s, c, x>> \in ValuesIn(content)
  <2>1. <<s, c, x>> \in Cells(content, s, c) \ {<<s, c, Fill>>}  BY <1>1 DEF Cells, Holds
  <2> DEFINE T == {Cells(content, t, b) \ {<<t, b, Fill>>} : t \in SourceNames, b \in Columns}
  <2>2. Cells(content, s, c) \ {<<s, c, Fill>>} \in T  OBVIOUS
  <2>3. ValuesIn(content) = UNION T  BY DEF ValuesIn
  <2> HIDE DEF T
  <2> QED  BY <2>1, <2>2, <2>3
<1>2. ASSUME <<s, c, x>> \in ValuesIn(content) PROVE Holds(content[s].col[c], x)
  <2>1. PICK t \in SourceNames, b \in Columns : <<s, c, x>> \in Cells(content, t, b)
    BY <1>2 DEF ValuesIn
  <2>2. PICK i \in DOMAIN content[t].col[b] : <<s, c, x>> = <<t, b, content[t].col[b][i]>>
    BY <2>1 DEF Cells
  <2> QED  BY <2>2 DEF Holds
<1> QED  BY <1>1, <1>2

\* The values that were on one disk and are not on the other.
LEMMA VanishedAre ==
  ASSUME NEW d, NEW e, NEW s \in SourceNames, NEW c \in Columns, NEW x, x # Fill
  PROVE  <<s, c, x>> \in Vanished(d, e) <=> OnDisk(d, s, c, x) /\ ~OnDisk(e, s, c, x)
<1>1. \A p : <<s, c, x>> \in ValuesIn(d[p]) <=> Holds(d[p][s].col[c], x)  BY ValuesAre
<1>2. \A p : <<s, c, x>> \in ValuesIn(e[p]) <=> Holds(e[p][s].col[c], x)  BY ValuesAre
<1> QED  BY <1>1, <1>2 DEF Vanished, OnDisk

\* Nothing vanishes from a disk that is retained.
LEMMA NoneVanished ==
  ASSUME NEW d, DiskTyped(d), NEW e, \A s \in SourceNames : Retains(d, e, s)
  PROVE  Vanished(d, e) = {}
<1>1. SUFFICES ASSUME NEW v \in Vanished(d, e) PROVE FALSE  OBVIOUS
<1>2. PICK p \in DOMAIN d : v \in ValuesIn(d[p])  BY <1>1 DEF Vanished
<1>3. PICK s \in SourceNames, c \in Columns : v \in Cells(d[p], s, c) \ {<<s, c, Fill>>}
  BY <1>2 DEF ValuesIn
<1>4. PICK i \in DOMAIN d[p][s].col[c] : v = <<s, c, d[p][s].col[c][i]>>  BY <1>3 DEF Cells
<1> DEFINE x == d[p][s].col[c][i]
<1>5. x # Fill /\ v = <<s, c, x>> /\ Holds(d[p][s].col[c], x)  BY <1>3, <1>4 DEF Holds
<1>6. x \in Nat \X Nat
  <2>1. d[p] \in Contents  BY DEF DiskTyped
  <2>2. d[p][s].col[c] \in Seq(Nat \X Nat)  BY <2>1 DEF Contents, Groups
  <2> QED  BY <2>2
<1> HIDE DEF x
<1>7. OnDisk(d, s, c, x)  BY <1>5 DEF OnDisk
<1>8. OnDisk(e, s, c, x)  BY <1>6, <1>7 DEF Retains
<1> QED  BY <1>1, <1>5, <1>7, <1>8, VanishedAre

\* A value in hand has the number of the batch.
LEMMA CarriedNumber ==
  ASSUME WorkInv, HDF5Types, NEW s, NEW c, NEW x, Carried(work, s, c, x)
  PROVE  x[1] = batchSeq /\ x[1] <= batchSeq
<1>1. x[1] = work.seq /\ work.seq = batchSeq  BY DEF Carried, Brought, WorkInv
<1> QED  BY <1>1 DEF HDF5Types

\* A value that a batch brought is not the fill value.
LEMMA NotFill == ASSUME NEW x \in Stamps PROVE x # Fill /\ x \in Nat \X Nat /\ x[1] \in Nat
BY DEF Stamps, Fill

-----------------------------------------------------------------------------
(* Moving files.                                                            *)

\* No tabular file has the name of this second when one is about to be opened.
LEMMA NewName ==
  ASSUME HDF5Types, FileInv, TableFile, mode = "per_source", phase \in {"new", "running"},
         file["table"].open => NeedsRotation(file["table"])
  PROVE  \A p \in DOMAIN disk : ~(p[2] = "table" /\ p[3] = clock)
<1>1. SUFFICES ASSUME NEW p \in DOMAIN disk, p[2] = "table", p[3] = clock PROVE FALSE
  OBVIOUS
<1> DEFINE f == file["table"]
<1>2. f.open /\ p = PathOf(f) /\ f.bytes = 0 /\ f.opened = f.stamp  BY <1>1 DEF TableFile
<1>3. f \in OpenFiles  BY <1>2, OpenTyped DEF Keys, SourceNames
<1>4. f.stamp = clock  BY <1>1, <1>2 DEF PathOf, TempPath
<1>5. NeedsRotation(f)  BY <1>2
<1> HIDE DEF f
<1> QED  BY <1>2, <1>4, <1>5, RotationLimits DEF NeedsRotation, HDF5Types

\* Opening or closing the file of one key keeps what is known of tabular files.
LEMMA TableFileMoved ==
  ASSUME HDF5Types, TableFile, mode' = mode, clock' = clock, phase' = phase \/ mode = "merge",
         NEW k \in Keys, NEW f \in OpenFiles \cup {Closed}, file' = [file EXCEPT ![k] = f],
         NEW d, Traced(disk, d, k),
         \A p \in DOMAIN disk' : p \in DOMAIN d \/ (f.open /\ p = PathOf(f)),
         f.open /\ mode = "per_source" =>
           f.key = k /\ f.stamp = clock /\ f.opened = clock /\ f.bytes = 0,
         k = "table" /\ phase \in {"new", "running"} /\ mode = "per_source" =>
           \A p \in DOMAIN disk : ~(p[2] = "table" /\ p[3] = clock)
  PROVE  TableFile'
<1>1. SUFFICES ASSUME mode = "per_source" PROVE TableFile'  BY DEF TableFile
<1>2. phase' = phase  BY <1>1
<1>3. "table" \in Keys /\ file'["table"] = IF k = "table" THEN f ELSE file["table"]
  BY DEF Keys, SourceNames, HDF5Types
<1>4. file'["table"].open => file'["table"].bytes = 0 /\ file'["table"].opened = file'["table"].stamp
  BY <1>1, <1>3 DEF TableFile
<1>5. ASSUME NEW p \in DOMAIN disk', p[2] = "table"
      PROVE  /\ p[3] <= clock
             /\ p[3] = clock /\ phase \in {"new", "running"} =>
                  file'["table"].open /\ p = PathOf(file'["table"])
  <2>1. CASE f.open /\ p = PathOf(f)
    <3>1. k = "table" /\ p[3] = clock  BY <1>1, <1>5, <2>1 DEF PathOf, TempPath
    <3> QED  BY <1>3, <2>1, <3>1 DEF HDF5Types
  <2>2. CASE p \in DOMAIN d
    <3>1. p \in DOMAIN disk \/ (k = "table" /\ \E q \in DOMAIN disk : q[2] = "table" /\ q[3] = p[3])
      BY <1>5, <2>2 DEF Traced
    <3>2. p[3] <= clock  BY <1>1, <1>5, <3>1 DEF TableFile
    <3>3. ASSUME p[3] = clock, phase \in {"new", "running"}
          PROVE  file'["table"].open /\ p = PathOf(file'["table"])
      <4>1. k # "table"  BY <1>1, <1>5, <3>1, <3>3
      <4> QED  BY <1>1, <1>3, <1>5, <3>1, <3>3, <4>1 DEF TableFile
    <3> QED  BY <3>2, <3>3
  <2> QED  BY <1>5, <2>1, <2>2
<1> QED  BY <1>2, <1>4, <1>5 DEF TableFile

\* What a step that moves files leaves behind, and what it books as lost: e is
\* the disk it left but for torn groups, U the values given up.
Rearranged(e, U) ==
  /\ Named(disk', fseq') /\ TableFile'
  /\ Safe(disk, e) /\ Moves(e, disk') /\ \A s \in SourceNames : Retains(e, disk', s)
  /\ lost' = [r \in Reasons |-> lost'[r]]
  /\ \A r \in Reasons :
       lost'[r] = IF r = "overwritten" THEN lost[r] \cup Vanished(disk, e)
                  ELSE IF r = "failed" THEN lost[r] \cup U ELSE lost[r]

\* Values lost under another name only.
LEMMA LoseOverwritten ==
  ASSUME Ledger, NEW e, Lose("overwritten", Vanished(disk, e))
  PROVE  /\ lost' = [r \in Reasons |-> lost'[r]]
         /\ \A r \in Reasons :
              lost'[r] = IF r = "overwritten" THEN lost[r] \cup Vanished(disk, e)
                         ELSE IF r = "failed" THEN lost[r] \cup {} ELSE lost[r]
<1>1. lost = [r \in Reasons |-> lost[r]] /\ "overwritten" \in Reasons  BY DEF Ledger, Reasons
<1>2. /\ lost' = [r \in Reasons |-> lost'[r]]
      /\ \A r \in Reasons : lost'[r] = IF r = "overwritten" THEN lost[r] \cup Vanished(disk, e)
                                       ELSE lost[r]
  BY <1>1, LoseWhat
<1>3. \A r \in Reasons : lost[r] = lost[r] \cup {}  OBVIOUS
<1> QED  BY <1>2, <1>3

\* The worker needs the file of its source.
LEMMA NeedingSource ==
  ASSUME FileIInv, NeedsFile
  PROVE  /\ work \in Works /\ work # NoWork /\ work.source \in Keys /\ work.source \in SourceNames
         /\ work.source # "merged" /\ phase = "running"
         /\ Current = file[KeyOf(work.source)] /\ KeyOf(work.source) \in Keys
         /\ Current.open => Current \in OpenFiles /\ PathOf(Current) \in DOMAIN disk
                              /\ Current.key = KeyOf(work.source)
<1>1. HDF5Types /\ WorkInv /\ StopInv /\ FileInv  BY DEF FileIInv, FilesInv
<1>2. work \in Works /\ work # NoWork  BY <1>1, Needing
<1>3. phase = "running"  BY <1>1, <1>2 DEF StopInv
<1>4. work.source \in SourceNames /\ work.source # "merged" /\ work.source \in Keys
  BY <1>2 DEF Works, SourceNames, Keys
<1>5. KeyOf(work.source) \in Keys  BY <1>4 DEF KeyOf, Keys
<1>6. Current.open => Current \in OpenFiles /\ PathOf(Current) \in DOMAIN disk
                       /\ Current.key = KeyOf(work.source)
  BY <1>1, <1>5, OpenTyped DEF Current, FileInv
<1> QED  BY <1>2, <1>3, <1>4, <1>5, <1>6 DEF Current

\* acquire() opens a file, after it closed one or not.
LEMMA PoolOpenedSafe ==
  ASSUME FileIInv, TableFile, Ledger, NeedsFile, mode = "per_source",
         mode' = mode, phase' = phase, clock' = clock, fseq' = fseq,
         Current.open => NeedsRotation(Current),
         NEW d, DiskTyped(d), Named(d, fseq), Safe(disk, d), Traced(disk, d, work.source),
         PoolOpened(d)
  PROVE  \E e : Rearranged(e, {})
<1> DEFINE k == work.source
           f == FreshFile(k)
           e == Truncated(d, k)
<1>0. HDF5Types /\ FileInv  BY DEF FileIInv, FilesInv
<1>1. k \in Keys /\ k # "merged" /\ phase = "running" /\ Current = file[k]
  BY NeedingSource DEF KeyOf
<1>2. k = "table" => \A p \in DOMAIN disk : ~(p[2] = "table" /\ p[3] = clock)
  BY <1>0, <1>1, NewName
<1>3. Stamp = clock  BY DEF Stamp
<1>4. k = "table" => \A p \in DOMAIN d : ~(p[2] = "table" /\ p[3] = Stamp)
  BY <1>2, <1>3 DEF Traced
<1>5. /\ file' = [file EXCEPT ![k] = f] /\ disk' = TornGroup(e, PathOf(f))
      /\ Lose("overwritten", Vanished(disk, e))
  BY DEF PoolOpened
<1>7. f.stamp = clock /\ f.opened = clock /\ f.bytes = 0  BY <1>3 DEF FreshFile
<1>a. e = Truncated(d, k) /\ f = FreshFile(k)  OBVIOUS
<1> HIDE DEF k, f, e
<1>6. /\ f \in OpenFiles /\ f.key = k /\ PathOf(f) = TempPath(k, Stamp)
      /\ DOMAIN e = DOMAIN d \cup {TempPath(k, Stamp)}
  <2>1. d \in [DOMAIN d -> Contents] /\ DOMAIN d \subseteq Paths  BY DEF DiskTyped
  <2> QED  BY <1>0, <1>1, <1>a, <2>1, TruncatedDisk
<1>8. DiskTyped(e) /\ Named(e, fseq) /\ Safe(d, e)
  BY <1>0, <1>1, <1>4, <1>a, TruncatedSafe
<1>9. /\ DOMAIN disk' = DOMAIN e /\ Named(disk', fseq) /\ Safe(e, disk')
      /\ \A s \in SourceNames : Retains(e, disk', s)
  BY <1>5, <1>6, <1>8, TornSafe
<1>10. TableFile'
  <2>1. \A p \in DOMAIN disk' : p \in DOMAIN d \/ (f.open /\ p = PathOf(f))
    BY <1>6, <1>9 DEF OpenFiles
  <2>2. Traced(disk, d, k) /\ f \in OpenFiles \cup {Closed}  BY <1>6 DEF k
  <2> QED  BY <1>0, <1>1, <1>2, <1>5, <1>6, <1>7, <2>1, <2>2, TableFileMoved
<1>11. Safe(disk, e)  BY <1>8, SafeTwice
<1>12. Moves(e, disk')  BY <1>9 DEF Safe
<1>13. Named(disk', fseq')  BY <1>9
<1>14. /\ lost' = [r \in Reasons |-> lost'[r]]
       /\ \A r \in Reasons :
              lost'[r] = IF r = "overwritten" THEN lost[r] \cup Vanished(disk, e)
                         ELSE IF r = "failed" THEN lost[r] \cup {} ELSE lost[r]
  BY <1>5, LoseOverwritten
<1>15. Rearranged(e, {})  BY <1>9, <1>10, <1>11, <1>12, <1>13, <1>14 DEF Rearranged
<1> QED  BY <1>15

\* Closing the file of the worker's source, with the group of a half-written
\* batch torn.
LEMMA ClosingSafe ==
  ASSUME FileIInv, Named(disk, fseq), NeedsFile, Current.open,
         NEW d \in Finalized(TornGroup(disk, PathOf(Current)), Current)
  PROVE  DiskTyped(d) /\ Named(d, fseq) /\ Safe(disk, d) /\ Traced(disk, d, KeyOf(work.source))
<1> DEFINE old == TornGroup(disk, PathOf(Current))
<1>1. DiskTyped(disk)  BY DEF FileIInv, HDF5Types, DiskTyped
<1>2. Current \in OpenFiles /\ PathOf(Current) \in DOMAIN disk /\ Current.key = KeyOf(work.source)
  BY NeedingSource
<1>3. old = TornGroup(disk, PathOf(Current))  OBVIOUS
<1> HIDE DEF old
<1>4. DiskTyped(old) /\ DOMAIN old = DOMAIN disk /\ Named(old, fseq) /\ Safe(disk, old)
  BY <1>1, <1>2, <1>3, TornSafe
<1>5. DiskTyped(d) /\ Named(d, fseq) /\ Safe(old, d) /\ Traced(old, d, KeyOf(work.source))
  BY <1>2, <1>3, <1>4, FinalizedSafe
<1>6. Safe(disk, d)  BY <1>4, <1>5, SafeTwice
<1>7. Traced(disk, d, KeyOf(work.source))  BY <1>4, <1>5 DEF Traced
<1> QED  BY <1>5, <1>6, <1>7

\* A step that only closes a file.
LEMMA ClosedSafe ==
  ASSUME FileIInv, Named(disk, fseq), TableFile, Ledger, mode' = mode, clock' = clock, fseq' = fseq,
         phase' = phase, NEW k \in Keys, file' = [file EXCEPT ![k] = Closed],
         Named(disk', fseq), Safe(disk, disk'), Traced(disk, disk', k),
         k = "table" /\ phase \in {"new", "running"} /\ mode = "per_source" =>
           \A p \in DOMAIN disk : ~(p[2] = "table" /\ p[3] = clock),
         NEW U, lost' = [r \in Reasons |-> lost'[r]],
         \A r \in Reasons :
            lost'[r] = IF r = "overwritten" THEN lost[r] \cup Vanished(disk, disk')
                       ELSE IF r = "failed" THEN lost[r] \cup U ELSE lost[r]
  PROVE  \E e : Rearranged(e, U)
<1>1. HDF5Types  BY DEF FileIInv
<1>2. Closed.open = FALSE /\ Closed \in OpenFiles \cup {Closed}  BY ClosedTyped
<1> DEFINE none == Closed
<1>3. none.open = FALSE /\ none \in OpenFiles \cup {Closed} /\ file' = [file EXCEPT ![k] = none]
  BY <1>2
<1> HIDE DEF none
<1>4. TableFile'
  <2>1. \A p \in DOMAIN disk' : p \in DOMAIN disk' \/ (none.open /\ p = PathOf(none))
    OBVIOUS
  <2> QED  BY <1>1, <1>3, <2>1, TableFileMoved
<1>5. Safe(disk', disk')  BY SafeStill
<1>6. Moves(disk', disk') /\ \A s \in SourceNames : Retains(disk', disk', s)
  BY <1>5 DEF Safe, Retains
<1>7. Named(disk', fseq')  OBVIOUS
<1>8. Rearranged(disk', U)  BY <1>4, <1>6, <1>7 DEF Rearranged
<1> QED  BY <1>8

\* acquire() keeps the values, but those of an ordinary file with the same name.
LEMMA PoolSafe ==
  ASSUME FileIInv, TableFile, Ledger, Named(disk, fseq), PoolOpen \/ PoolRotate
  PROVE  \E e : Rearranged(e, {})
<1>1. /\ NeedsFile /\ mode = "per_source" /\ mode' = mode /\ phase' = phase /\ clock' = clock
      /\ fseq' = fseq /\ (Current.open => NeedsRotation(Current))
  BY DEF PoolOpen, PoolRotate
<1>2. CASE PoolOpen
  <2>1. PoolOpened(disk)  BY <1>2 DEF PoolOpen
  <2>2. DiskTyped(disk)  BY DEF FileIInv, HDF5Types, DiskTyped
  <2>3. Traced(disk, disk, work.source)  BY DEF Traced
  <2> QED  BY <1>1, <2>1, <2>2, <2>3, SafeStill, PoolOpenedSafe
<1>3. CASE PoolRotate
  <2>1. Current.open  BY <1>3 DEF PoolRotate
  <2>2. PICK d \in Finalized(TornGroup(disk, PathOf(Current)), Current) : PoolOpened(d)
    BY <1>3 DEF PoolRotate
  <2>3. DiskTyped(d) /\ Named(d, fseq) /\ Safe(disk, d) /\ Traced(disk, d, KeyOf(work.source))
    BY <1>1, <2>1, <2>2, ClosingSafe
  <2>4. KeyOf(work.source) = work.source  BY <1>1 DEF KeyOf
  <2>5. Traced(disk, d, work.source)  BY <2>3, <2>4
  <2> QED  BY <1>1, <2>2, <2>3, <2>5, PoolOpenedSafe
<1> QED  BY <1>2, <1>3

\* A failing acquire() gives up the batch in hand.
LEMMA PoolFailsSafe ==
  ASSUME FileIInv, TableFile, Ledger, Named(disk, fseq), PoolOpenFails
  PROVE  \E e : Rearranged(e, FrameValues(work, work.frames))
<1> DEFINE U == FrameValues(work, work.frames)
           k == work.source
<1>1. /\ NeedsFile /\ mode = "per_source" /\ mode' = mode /\ phase' = phase /\ clock' = clock
      /\ fseq' = fseq /\ (Current.open => NeedsRotation(Current))
      /\ file' = [file EXCEPT ![k] = Closed]
  BY DEF PoolOpenFails
<1>2. /\ k \in Keys /\ phase = "running" /\ KeyOf(k) = k /\ Current = file[k]
  BY <1>1, NeedingSource DEF KeyOf
<1>3. Named(disk', fseq) /\ Safe(disk, disk') /\ Traced(disk, disk', k)
  <2>1. CASE Current.open
    <3>1. disk' = Renamed(TornGroup(disk, PathOf(Current)), Current)  BY <2>1 DEF PoolOpenFails
    <3>2. disk' \in Finalized(TornGroup(disk, PathOf(Current)), Current)
      BY <3>1 DEF Finalized
    <3>3. /\ Named(disk', fseq) /\ Safe(disk, disk') /\ Traced(disk, disk', KeyOf(k))
      BY <1>1, <2>1, <3>2, ClosingSafe
    <3> QED  BY <1>2, <3>3
  <2>2. CASE ~Current.open
    <3>1. disk' = disk  BY <2>2 DEF PoolOpenFails
    <3>2. Traced(disk, disk, k)  BY DEF Traced
    <3> QED  BY <3>1, <3>2, SafeStill
  <2> QED  BY <2>1, <2>2
<1>4. k = "table" => \A p \in DOMAIN disk : ~(p[2] = "table" /\ p[3] = clock)
  <2>1. HDF5Types /\ FileInv  BY DEF FileIInv, FilesInv
  <2> QED  BY <1>1, <1>2, <2>1, NewName
<1>5. /\ lost' = [r \in Reasons |-> lost'[r]]
      /\ \A r \in Reasons :
            lost'[r] = IF r = "overwritten" THEN lost[r] \cup Vanished(disk, disk')
                       ELSE IF r = "failed" THEN lost[r] \cup U ELSE lost[r]
  <2>1. lost' = [r \in Reasons |-> lost[r] \cup
                IF r = "overwritten" THEN Vanished(disk, disk')
                ELSE IF r = "failed" THEN U ELSE {}]
    BY DEF PoolOpenFails
  <2> HIDE DEF U
  <2> QED  BY <2>1
<1> HIDE DEF U, k
<1>6. \E e : Rearranged(e, U)  BY <1>1, <1>2, <1>3, <1>4, <1>5, ClosedSafe
<1> QED  BY <1>6 DEF U

\* Closing a file of the merge writer, or the files of a writer that stops.
LEMMA CloseSafe ==
  ASSUME FileIInv, TableFile, Ledger, Named(disk, fseq),
         MergeClose \/ \E k \in Keys : CloseOne(k)
  PROVE  \E e : Rearranged(e, {})
<1>1. CASE MergeClose
  <2>1. /\ NeedsFile /\ mode = "merge" /\ mode' = mode /\ phase' = phase /\ clock' = clock
        /\ fseq' = fseq /\ Current.open /\ file' = [file EXCEPT !["merged"] = Closed]
        /\ disk' \in Finalized(TornGroup(disk, PathOf(Current)), Current)
        /\ Lose("overwritten", Vanished(disk, disk'))
    BY <1>1 DEF MergeClose
  <2>2. Named(disk', fseq) /\ Safe(disk, disk') /\ Traced(disk, disk', KeyOf(work.source))
    BY <2>1, ClosingSafe
  <2>3. KeyOf(work.source) = "merged" /\ "merged" \in Keys  BY <2>1 DEF KeyOf, Keys
  <2>4. Traced(disk, disk', "merged")  BY <2>2, <2>3
  <2>5. /\ lost' = [r \in Reasons |-> lost'[r]]
        /\ \A r \in Reasons :
              lost'[r] = IF r = "overwritten" THEN lost[r] \cup Vanished(disk, disk')
                         ELSE IF r = "failed" THEN lost[r] \cup {} ELSE lost[r]
    BY <2>1, LoseOverwritten
  <2> QED  BY <2>1, <2>2, <2>3, <2>4, <2>5, ClosedSafe
<1>2. CASE \E k \in Keys : CloseOne(k)
  <2>1. PICK k \in Keys : CloseOne(k)  BY <1>2
  <2>2. /\ mode' = mode /\ phase' = phase /\ clock' = clock /\ phase = "joining"
        /\ fseq' = fseq /\ file[k].open /\ file' = [file EXCEPT ![k] = Closed]
        /\ disk' \in Finalized(disk, file[k])
        /\ Lose("overwritten", Vanished(disk, disk'))
    BY <2>1 DEF CloseOne
  <2>3. HDF5Types /\ FileInv /\ DiskTyped(disk)
    BY DEF FileIInv, FilesInv, HDF5Types, DiskTyped
  <2>4. file[k] \in OpenFiles /\ PathOf(file[k]) \in DOMAIN disk /\ file[k].key = k
    BY <2>2, <2>3, OpenTyped DEF FileInv
  <2>5. Named(disk', fseq) /\ Safe(disk, disk') /\ Traced(disk, disk', file[k].key)
    BY <2>2, <2>3, <2>4, FinalizedSafe
  <2>6. Traced(disk, disk', k)  BY <2>4, <2>5
  <2>7. /\ lost' = [r \in Reasons |-> lost'[r]]
        /\ \A r \in Reasons :
              lost'[r] = IF r = "overwritten" THEN lost[r] \cup Vanished(disk, disk')
                         ELSE IF r = "failed" THEN lost[r] \cup {} ELSE lost[r]
    BY <2>2, LoseOverwritten
  <2> QED  BY <2>2, <2>5, <2>6, <2>7, ClosedSafe
<1> QED  BY <1>1, <1>2

\* Opening a file of the merge writer.
LEMMA MergeSafe ==
  ASSUME FileIInv, TableFile, Ledger, Named(disk, fseq), mode = "merge", Start \/ MergeOpen
  PROVE  \E e : Rearranged(e, {})
<1> DEFINE e == Truncated(disk, "merged")
<1>0. HDF5Types /\ DiskTyped(disk) /\ "merged" \in Keys
  BY DEF FileIInv, HDF5Types, DiskTyped, Keys
<1>1. mode' = mode /\ fseq' = fseq + 1  BY DEF Start, MergeOpen
<1>2. e = Truncated(disk, "merged")  OBVIOUS
<1>3. TableFile'  BY <1>1 DEF TableFile
<1>4. Stamp = fseq  BY DEF Stamp
<1> HIDE DEF e
<1>5. DiskTyped(e) /\ Named(e, fseq + 1) /\ Safe(disk, e)
  BY <1>0, <1>2, <1>4, TruncatedSafe
<1>6. \A s \in SourceNames : Retains(disk, e, s)  BY <1>5 DEF Safe, SourceNames
<1>7. Named(disk', fseq + 1) /\ Safe(e, disk') /\ \A s \in SourceNames : Retains(e, disk', s)
  <2>1. CASE Start
    <3>1. disk' = e  BY <1>2, <2>1 DEF Start
    <3>2. \A s \in SourceNames : Retains(e, e, s)  BY DEF Retains
    <3> QED  BY <1>5, <3>1, <3>2, SafeStill
  <2>2. CASE MergeOpen
    <3> DEFINE path == PathOf(FreshFile("merged"))
    <3>1. path \in DOMAIN e
      <4>1. disk \in [DOMAIN disk -> Contents] /\ DOMAIN disk \subseteq Paths  BY <1>0 DEF DiskTyped
      <4>2. path = TempPath("merged", Stamp) /\ DOMAIN e = DOMAIN disk \cup {TempPath("merged", Stamp)}
        BY <1>0, <1>2, <4>1, TruncatedDisk
      <4> HIDE DEF path
      <4> QED  BY <4>2
    <3>2. disk' = TornGroup(e, path)
      <4>1. disk' = TornGroup(e, PathOf(file'["merged"]))  BY <1>2, <2>2 DEF MergeOpen
      <4>2. file' = [file EXCEPT !["merged"] = FreshFile("merged")]  BY <2>2 DEF MergeOpen
      <4>3. file'["merged"] = FreshFile("merged")  BY <1>0, <4>2 DEF HDF5Types
      <4> QED  BY <4>1, <4>3
    <3> HIDE DEF path
    <3> QED  BY <1>5, <3>1, <3>2, TornSafe
  <2> QED  BY <2>1, <2>2
<1>8. Moves(e, disk')  BY <1>7 DEF Safe
<1>9. /\ lost' = [r \in Reasons |-> lost'[r]]
      /\ \A r \in Reasons :
              lost'[r] = IF r = "overwritten" THEN lost[r] \cup Vanished(disk, e)
                         ELSE IF r = "failed" THEN lost[r] \cup {} ELSE lost[r]
  <2>1. CASE Start
    <3>1. lost' = lost  BY <2>1 DEF Start
    <3>2. Vanished(disk, e) = {}  BY <1>0, <1>6, NoneVanished
    <3>3. lost = [r \in Reasons |-> lost[r]]  BY DEF Ledger
    <3>4. \A r \in Reasons : lost[r] = lost[r] \cup {}  OBVIOUS
    <3> QED  BY <3>1, <3>2, <3>3, <3>4
  <2>2. CASE MergeOpen
    <3>1. Lose("overwritten", Vanished(disk, e))  BY <1>2, <2>2 DEF MergeOpen
    <3> QED  BY <3>1, LoseOverwritten
  <2> QED  BY <2>1, <2>2
<1>10. Rearranged(e, {})  BY <1>1, <1>3, <1>5, <1>7, <1>8, <1>9 DEF Rearranged
<1> QED  BY <1>10

\* A batch that only moved to another control point has its values in hand.
LEMMA SameCarried ==
  ASSUME work \in Works, work' \in Works, work'.source = work.source, work'.seq = work.seq,
         work'.frames = work.frames
  PROVE  \A s, c, x : Carried(work', s, c, x) <=> Carried(work, s, c, x)
<1>1. work # NoWork /\ work' # NoWork  BY NotIdle
<1>2. \A s, c, x : Brought(work', work'.frames, s, c, x) <=> Brought(work, work.frames, s, c, x)
  BY DEF Brought
<1> QED  BY <1>1, <1>2 DEF Carried

\* An idle worker has nothing in hand.
LEMMA NoneCarried == \A s, c, x : ~Carried(NoWork, s, c, x)
BY DEF Carried

\* After files moved every value is accounted for.
LEMMA RearrangedStep ==
  ASSUME AccountIInv, NEW e, NEW U, Rearranged(e, U), mode' = mode, buf' = buf, given' = given,
         batchSeq' = batchSeq, faults' \in Nat, faults' >= faults, U = {} \/ faults' > 0,
         \A s, c, x : Carried(work', s, c, x) => Carried(work, s, c, x),
         \A s, c, x : <<s, c, x>> \in U <=> Carried(work, s, c, x) /\ ~Carried(work', s, c, x)
  PROVE  AccountInv'
<1>1. /\ HDF5Types /\ WorkInv /\ DiskTyped(disk) /\ Ledger /\ Accounts
  BY DEF AccountIInv, AccountInv, FileIInv, HDF5Types, DiskTyped
<1>2. /\ Named(disk', fseq') /\ TableFile'
      /\ Safe(disk, e) /\ Moves(e, disk') /\ \A s \in SourceNames : Retains(e, disk', s)
      /\ lost' = [r \in Reasons |-> lost'[r]]
      /\ \A r \in Reasons :
           lost'[r] = IF r = "overwritten" THEN lost[r] \cup Vanished(disk, e)
                      ELSE IF r = "failed" THEN lost[r] \cup U ELSE lost[r]
  BY DEF Rearranged
<1>3. "overwritten" \in Reasons /\ "failed" \in Reasons /\ "skipped" \in Reasons  BY DEF Reasons
<1>4. Named(disk, fseq)'  BY <1>2 DEF Named
<1>5. Ledger'
  <2>1. given' \subseteq SourceNames \X Columns \X Stamps  BY <1>1 DEF Ledger
  <2>2. mode' = "merge" => lost'["overwritten"] = {}
    <3>1. SUFFICES ASSUME mode = "merge" PROVE lost'["overwritten"] = {}  OBVIOUS
    <3>2. \A s \in SourceNames : Retains(disk, e, s)  BY <1>2, <3>1 DEF Safe, SourceNames
    <3>3. Vanished(disk, e) = {}  BY <1>1, <3>2, NoneVanished
    <3>4. lost["overwritten"] = {}  BY <1>1, <3>1 DEF Ledger
    <3> QED  BY <1>2, <1>3, <3>3, <3>4
  <2>3. faults' = 0 => lost'["failed"] = {} /\ lost'["skipped"] = {}
    <3>1. SUFFICES ASSUME faults' = 0 PROVE lost'["failed"] = {} /\ lost'["skipped"] = {}  OBVIOUS
    <3>2. faults = 0 /\ U = {}  BY <1>1, <3>1 DEF HDF5Types
    <3>3. lost["failed"] = {} /\ lost["skipped"] = {}  BY <1>1, <3>2 DEF Ledger
    <3> QED  BY <1>2, <1>3, <3>2, <3>3
  <2> QED  BY <1>2, <2>1, <2>2, <2>3 DEF Ledger
<1>6. ASSUME NEW s \in SourceNames, NEW c \in Columns, NEW x \in Stamps
      PROVE  ValueInv(s, c, x)'
  <2>1. x # Fill /\ x \in Nat \X Nat /\ ValueInv(s, c, x)  BY <1>1, NotFill DEF Accounts
  <2>2. Kept(disk, e, s, c, x) /\ Kept(e, disk', s, c, x)  BY <1>2, <2>1 DEF Safe, Moves
  <2>3. OnDisk(e, s, c, x) => OnDisk(disk', s, c, x)  BY <1>2, <2>1 DEF Retains
  <2>4. Kept(disk, disk', s, c, x)  BY <2>2 DEF Kept
  <2>5. s = "table" /\ OnDisk(disk, s, c, x) => OnDisk(disk', s, c, x)
    BY <1>2, <2>1, <2>3 DEF Safe, Retains
  <2>6. <<s, c, x>> \in Vanished(disk, e) <=> OnDisk(disk, s, c, x) /\ ~OnDisk(disk', s, c, x)
    <3>1. OnDisk(e, s, c, x) <=> OnDisk(disk', s, c, x)  BY <2>2, <2>3 DEF Kept
    <3> QED  BY <2>1, <3>1, VanishedAre
  <2>7. \A r \in Reasons : <<s, c, x>> \in lost'[r] <=>
           \/ <<s, c, x>> \in lost[r]
           \/ r = "overwritten" /\ OnDisk(disk, s, c, x) /\ ~OnDisk(disk', s, c, x)
           \/ r = "failed" /\ Carried(work, s, c, x) /\ ~Carried(work', s, c, x)
    <3>1. <<s, c, x>> \in U <=> Carried(work, s, c, x) /\ ~Carried(work', s, c, x)  OBVIOUS
    <3> QED  BY ONLY <1>2, <2>6, <3>1
  <2>8. Carried(work, s, c, x) => x[1] <= batchSeq  BY <1>1, CarriedNumber
  <2>9. Carried(work', s, c, x) => Carried(work, s, c, x)  OBVIOUS
  <2>10. "failed" \in Reasons \ {"overwritten"}  BY <1>3
  <2> QED  BY <2>1, <2>4, <2>5, <2>7, <2>8, <2>9, <2>10, ValueKept
<1>7. Accounts'  BY <1>6 DEF Accounts
<1> QED  BY <1>2, <1>4, <1>5, <1>7 DEF AccountInv

\* Opening, closing and rotating account for every value.
LEMMA AccountMoves ==
  ASSUME AccountIInv, HDF5Next,
         \/ (Start /\ mode = "merge") \/ (\E k \in Keys : CloseOne(k))
         \/ PoolOpen \/ PoolRotate \/ PoolOpenFails \/ MergeClose \/ MergeOpen
  PROVE  AccountInv'
<1>1. FileIInv /\ HDF5Types /\ WorkInv /\ StopInv /\ TableFile /\ Ledger /\ Named(disk, fseq)
  BY DEF AccountIInv, AccountInv, FileIInv
<1>2. mode' = mode /\ faults' \in Nat /\ faults' >= faults  BY <1>1, CountersStep DEF Counters
<1>3. buf' = buf /\ given' = given /\ batchSeq' = batchSeq
  BY DEF Start, CloseOne, PoolOpen, PoolRotate, PoolOpenFails, MergeClose, MergeOpen
<1>4. CASE PoolOpenFails
  <2>1. work' = NoWork /\ faults' = faults + 1 /\ NeedsFile  BY <1>4 DEF PoolOpenFails, Fail
  <2>2. work # NoWork  BY <1>1, <2>1, Needing
  <2>3. PICK e : Rearranged(e, FrameValues(work, work.frames))  BY <1>1, <1>4, PoolFailsSafe
  <2>4. \A s, c, x : ~Carried(work', s, c, x)  BY <2>1, NoneCarried
  <2>5. \A s, c, x : <<s, c, x>> \in FrameValues(work, work.frames) <=>
                       Carried(work, s, c, x) /\ ~Carried(work', s, c, x)
    BY <2>2, <2>4, FrameValuesAre DEF Carried
  <2>6. faults' > 0  BY <1>1, <2>1 DEF HDF5Types
  <2> QED  BY <1>2, <1>3, <2>3, <2>4, <2>5, <2>6, RearrangedStep
<1>5. CASE ~PoolOpenFails
  <2>1. PICK e : Rearranged(e, {})
    <3>1. (Start /\ mode = "merge") \/ (\E k \in Keys : CloseOne(k))
           \/ PoolOpen \/ PoolRotate \/ MergeClose \/ MergeOpen
      BY <1>5
    <3>2. MergeOpen => mode = "merge"
      BY <1>1 DEF MergeOpen, Working, WorkInv
    <3> QED  BY <1>1, <3>1, <3>2, PoolSafe, CloseSafe, MergeSafe
  <2>2. \A s, c, x : Carried(work', s, c, x) <=> Carried(work, s, c, x)
    <3>1. CASE (Start /\ mode = "merge") \/ (\E k \in Keys : CloseOne(k))
      <4>1. work' = work  BY <3>1 DEF Start, CloseOne
      <4> QED  BY <4>1
    <3>2. CASE PoolOpen \/ PoolRotate \/ MergeClose \/ MergeOpen
      <4>1. work \in Works
        BY <1>1, <3>2 DEF PoolOpen, PoolRotate, MergeClose, MergeOpen, NeedsFile, Working, HDF5Types
      <4>2. \E at \in {"rotating", "ready"} : WorkAt(at)
        BY <3>2 DEF PoolOpen, PoolRotate, MergeClose, MergeOpen, PoolOpened
      <4>3. /\ work' \in Works /\ work'.source = work.source /\ work'.seq = work.seq
            /\ work'.frames = work.frames
        BY <1>1, <4>1, <4>2, WorkTyped
      <4> QED  BY <4>1, <4>3, SameCarried
    <3> QED  BY <1>5, <3>1, <3>2
  <2>3. \A s, c, x : <<s, c, x>> \in {} <=> Carried(work, s, c, x) /\ ~Carried(work', s, c, x)
    BY <2>2
  <2> QED  BY <1>2, <1>3, <2>1, <2>2, <2>3, RearrangedStep
<1> QED  BY <1>4, <1>5

-----------------------------------------------------------------------------
(* Steps that leave the files alone.                                        *)

\* What is left of an ordinary batch that still has frames.
PvLeft ==
  \/ work.frames = <<Frame(work.seq, Columns)>>
  \/ work.frames = <<Frame(work.seq, {"x"}), Frame(work.seq, {"y"})>>
  \/ work.frames = <<Frame(work.seq, {"y"})>>
  \/ work.frames = <<Frame(work.seq, Columns), Frame(work.seq + 1, Columns)>>
  \/ work.frames = <<Frame(work.seq + 1, Columns)>>

\* The values of a batch's first frame, and those of one frame.
LEMMA OneFrame ==
  ASSUME NEW w, NEW f, NEW s, NEW c, NEW x
  PROVE  Brought(w, <<f>>, s, c, x) <=> s = w.source /\ c \in f.cols /\ x = <<w.seq, f.row>>
BY DEF Brought

\* The values of no frame and of two.
LEMMA TwoFrames ==
  ASSUME NEW w, NEW f, NEW g, NEW s, NEW c, NEW x
  PROVE  /\ ~Brought(w, <<>>, s, c, x)
         /\ Brought(w, <<f, g>>, s, c, x) <=> Brought(w, <<f>>, s, c, x) \/ Brought(w, <<g>>, s, c, x)
<1>1. ~Brought(w, <<>>, s, c, x)  BY DEF Brought
<1> DEFINE q == <<f, g>>
<1>2. DOMAIN q = {1, 2} /\ q[1] = f /\ q[2] = g  OBVIOUS
<1> HIDE DEF q
<1>3. Brought(w, q, s, c, x) <=> \/ s = w.source /\ c \in f.cols /\ x = <<w.seq, f.row>>
                                 \/ s = w.source /\ c \in g.cols /\ x = <<w.seq, g.row>>
  BY <1>2 DEF Brought
<1>4. Brought(w, q, s, c, x) <=> Brought(w, <<f>>, s, c, x) \/ Brought(w, <<g>>, s, c, x)
  BY <1>3, OneFrame
<1> QED  BY <1>1, <1>4 DEF q

\* The worker goes on to the next frame of an ordinary batch.
LEMMA PvNext ==
  ASSUME HDF5Types, work \in Works, work.source = "pv", PvLeft, NextFrame
  PROVE  /\ work.frames # <<>> /\ work.frames[1].cols \in SUBSET Columns
         /\ \A s, c, x :
              /\ Carried(work', s, c, x) => Carried(work, s, c, x)
              /\ Brought(work, <<work.frames[1]>>, s, c, x) <=>
                   Carried(work, s, c, x) /\ ~Carried(work', s, c, x)
<1>1. work.frames # <<>> /\ work.frames[1].cols \in SUBSET Columns
  BY DEF PvLeft, Frame, Columns
<1>2. /\ work' \in Works /\ work'.source = work.source /\ work'.seq = work.seq
      /\ work'.frames = Tail(work.frames)
  BY <1>1, NextTyped
<1>3. work # NoWork /\ work' # NoWork  BY <1>2, NotIdle
<1>4. ASSUME NEW s, NEW c, NEW x
      PROVE  /\ Carried(work', s, c, x) => Carried(work, s, c, x)
             /\ Brought(work, <<work.frames[1]>>, s, c, x) <=>
                   Carried(work, s, c, x) /\ ~Carried(work', s, c, x)
  <2>1. /\ Carried(work, s, c, x) <=> Brought(work, work.frames, s, c, x)
        /\ Carried(work', s, c, x) <=> Brought(work, Tail(work.frames), s, c, x)
    BY <1>2, <1>3 DEF Carried, Brought
  <2>2. CASE \E f : work.frames = <<f>>
    <3>1. PICK f : work.frames = <<f>>  BY <2>2
    <3>2. Tail(work.frames) = <<>> /\ work.frames = <<work.frames[1]>>  BY <3>1, TailFrames
    <3>3. ~Brought(work, Tail(work.frames), s, c, x)  BY <3>2, TwoFrames
    <3> QED  BY <2>1, <3>2, <3>3
  <2>3. CASE work.frames = <<Frame(work.seq, {"x"}), Frame(work.seq, {"y"})>>
    <3> DEFINE f == Frame(work.seq, {"x"})
               g == Frame(work.seq, {"y"})
    <3>1. f.cols = {"x"} /\ g.cols = {"y"}  BY DEF Frame
    <3>2. work.frames = <<f, g>> /\ work.frames[1] = f  BY <2>3
    <3> HIDE DEF f, g
    <3>3. Tail(work.frames) = <<g>>  BY <3>2, TailFrames
    <3>4. Brought(work, work.frames, s, c, x) <=>
            Brought(work, <<f>>, s, c, x) \/ Brought(work, <<g>>, s, c, x)
      BY <3>2, TwoFrames
    <3>5. ~(Brought(work, <<f>>, s, c, x) /\ Brought(work, <<g>>, s, c, x))
      BY <3>1, OneFrame
    <3> QED  BY <2>1, <3>2, <3>3, <3>4, <3>5
  <2>4. CASE work.frames = <<Frame(work.seq, Columns), Frame(work.seq + 1, Columns)>>
    <3> DEFINE f == Frame(work.seq, Columns)
               g == Frame(work.seq + 1, Columns)
    <3>1. f.row = work.seq /\ g.row = work.seq + 1 /\ work.seq \in Nat  BY DEF Frame, Works
    <3>2. work.frames = <<f, g>> /\ work.frames[1] = f  BY <2>4
    <3> HIDE DEF f, g
    <3>3. Tail(work.frames) = <<g>>  BY <3>2, TailFrames
    <3>4. Brought(work, work.frames, s, c, x) <=>
            Brought(work, <<f>>, s, c, x) \/ Brought(work, <<g>>, s, c, x)
      BY <3>2, TwoFrames
    <3>5. ~(Brought(work, <<f>>, s, c, x) /\ Brought(work, <<g>>, s, c, x))
      <4>1. <<work.seq, f.row>> # <<work.seq, g.row>>  BY <3>1
      <4> QED  BY <4>1, OneFrame
    <3> QED  BY <2>1, <3>2, <3>3, <3>4, <3>5
  <2> QED  BY <2>2, <2>3, <2>4 DEF PvLeft
<1> QED  BY <1>1, <1>4

\* A step that leaves the files and the columns of the buffer alone, and may
\* give up values in hand.
LEMMA StillStep ==
  ASSUME AccountIInv, disk' = disk, buf'.col = buf.col, given' = given, batchSeq' = batchSeq,
         mode' = mode, TableFile', fseq' \in Nat, fseq' >= fseq, faults' \in Nat, faults' >= faults,
         NEW reason \in {"failed", "skipped"}, NEW U, U = {} \/ faults' > 0,
         lost' = [r \in Reasons |-> lost'[r]],
         \A r \in Reasons : lost'[r] = IF r = reason THEN lost[r] \cup U ELSE lost[r],
         \A s, c, x : Carried(work', s, c, x) => Carried(work, s, c, x),
         \A s, c, x : <<s, c, x>> \in U <=> Carried(work, s, c, x) /\ ~Carried(work', s, c, x)
  PROVE  AccountInv'
<1>1. /\ HDF5Types /\ WorkInv /\ DiskTyped(disk) /\ Ledger /\ Accounts /\ Named(disk, fseq)
  BY DEF AccountIInv, AccountInv, FileIInv, HDF5Types, DiskTyped
<1>2. {"overwritten", "failed", "skipped"} \subseteq Reasons  BY DEF Reasons
<1>3. Named(disk, fseq)'
  <2>1. \A p \in DOMAIN disk : p[3] \in Nat  BY <1>1 DEF DiskTyped, Paths
  <2>2. fseq \in Nat  BY <1>1 DEF HDF5Types
  <2>3. \A p \in DOMAIN disk : p[3] < fseq => p[3] < fseq'  BY <2>1, <2>2
  <2> QED  BY <1>1, <2>3 DEF Named
<1>4. Ledger'
  <2>1. given' \subseteq SourceNames \X Columns \X Stamps  BY <1>1 DEF Ledger
  <2>2. mode' = "merge" => lost'["overwritten"] = {}  BY <1>1, <1>2 DEF Ledger
  <2>3. faults' = 0 => lost'["failed"] = {} /\ lost'["skipped"] = {}
    <3>1. SUFFICES ASSUME faults' = 0 PROVE lost'["failed"] = {} /\ lost'["skipped"] = {}  OBVIOUS
    <3>2. faults = 0 /\ U = {}  BY <1>1, <3>1 DEF HDF5Types
    <3>3. lost["failed"] = {} /\ lost["skipped"] = {}  BY <1>1, <3>2 DEF Ledger
    <3> QED  BY <1>2, <3>2, <3>3
  <2> QED  BY <2>1, <2>2, <2>3 DEF Ledger
<1>5. ASSUME NEW s \in SourceNames, NEW c \in Columns, NEW x \in Stamps
      PROVE  ValueInv(s, c, x)'
  <2>1. ValueInv(s, c, x)  BY <1>1 DEF Accounts
  <2>2. Kept(disk, disk', s, c, x)  BY DEF Kept
  <2>3. \A r \in Reasons : <<s, c, x>> \in lost'[r] <=>
           \/ <<s, c, x>> \in lost[r]
           \/ r = "overwritten" /\ OnDisk(disk, s, c, x) /\ ~OnDisk(disk', s, c, x)
           \/ r = reason /\ Carried(work, s, c, x) /\ ~Carried(work', s, c, x)
    <3>1. <<s, c, x>> \in U <=> Carried(work, s, c, x) /\ ~Carried(work', s, c, x)  OBVIOUS
    <3>2. OnDisk(disk', s, c, x) <=> OnDisk(disk, s, c, x)  OBVIOUS
    <3> HIDE DEF OnDisk
    <3>3. \A r \in Reasons : <<s, c, x>> \in lost'[r] <=>
                               <<s, c, x>> \in lost[r] \/ (r = reason /\ <<s, c, x>> \in U)
      OBVIOUS
    <3> QED  BY ONLY <3>1, <3>2, <3>3
  <2>4. Carried(work, s, c, x) => x[1] <= batchSeq  BY <1>1, CarriedNumber
  <2>5. Carried(work', s, c, x) => Carried(work, s, c, x)  OBVIOUS
  <2>6. reason \in Reasons \ {"overwritten"}  BY <1>2
  <2>7. s = "table" /\ OnDisk(disk, s, c, x) => OnDisk(disk', s, c, x)  OBVIOUS
  <2> QED  BY <2>1, <2>2, <2>3, <2>4, <2>5, <2>6, <2>7, ValueKept
<1>6. Accounts'  BY <1>5 DEF Accounts
<1> QED  BY <1>3, <1>4, <1>6 DEF AccountInv

\* The names of this second's files, after a step that touches no file.
LEMMA TableFileKept ==
  ASSUME HDF5Types, TableFile, mode' = mode, disk' = disk, file' = file,
         \/ clock' = clock /\ (phase' \in {"new", "running"} => phase \in {"new", "running"})
         \/ clock' = clock + 1
  PROVE  TableFile'
<1>1. SUFFICES ASSUME mode = "per_source" PROVE TableFile'  BY DEF TableFile
<1>2. file'["table"].open => file'["table"].bytes = 0 /\ file'["table"].opened = file'["table"].stamp
  BY <1>1 DEF TableFile
<1>3. ASSUME NEW p \in DOMAIN disk', p[2] = "table"
      PROVE  /\ p[3] <= clock'
             /\ p[3] = clock' /\ phase' \in {"new", "running"} =>
                  file'["table"].open /\ p = PathOf(file'["table"])
  <2>1. p[3] \in Nat /\ clock \in Nat  BY DEF HDF5Types, Paths
  <2>2. /\ p[3] <= clock
        /\ p[3] = clock /\ phase \in {"new", "running"} =>
                  file["table"].open /\ p = PathOf(file["table"])
    BY <1>1, <1>3 DEF TableFile
  <2>3. CASE clock' = clock + 1
    <3>1. p[3] # clock' /\ p[3] <= clock'  BY <2>1, <2>2, <2>3
    <3> QED  BY <3>1
  <2>4. CASE clock' = clock /\ (phase' \in {"new", "running"} => phase \in {"new", "running"})
    BY <2>2, <2>4
  <2> QED  BY <2>3, <2>4
<1> QED  BY <1>2, <1>3 DEF TableFile

\* A step that also gives up nothing.
LEMMA NothingLost ==
  ASSUME AccountIInv, disk' = disk, buf'.col = buf.col, given' = given, batchSeq' = batchSeq,
         mode' = mode, TableFile', fseq' = fseq, faults' \in Nat, faults' >= faults, lost' = lost,
         \A s, c, x : Carried(work', s, c, x) <=> Carried(work, s, c, x)
  PROVE  AccountInv'
<1>1. fseq \in Nat /\ fseq <= fseq'  BY DEF AccountIInv, FileIInv, HDF5Types
<1>2. lost = [r \in Reasons |-> lost[r]]  BY DEF AccountIInv, AccountInv, Ledger
<1>3. \A r \in Reasons : lost[r] = IF r = "failed" THEN lost[r] \cup {} ELSE lost[r]  OBVIOUS
<1>4. \A s, c, x : <<s, c, x>> \in {} <=> Carried(work, s, c, x) /\ ~Carried(work', s, c, x)
  OBVIOUS
<1> DEFINE none == {}
           reason == "failed"
<1>5. /\ none = {} /\ reason \in {"failed", "skipped"}
      /\ \A r \in Reasons : lost'[r] = IF r = reason THEN lost[r] \cup none ELSE lost[r]
      /\ \A s, c, x : <<s, c, x>> \in none <=> Carried(work, s, c, x) /\ ~Carried(work', s, c, x)
  BY <1>3, <1>4
<1> HIDE DEF none, reason
<1>6. lost' = [r \in Reasons |-> lost'[r]]  BY <1>2
<1>7. \A s, c, x : Carried(work', s, c, x) => Carried(work, s, c, x)  OBVIOUS
<1>8. fseq' \in Nat /\ fseq' >= fseq  BY <1>1
<1> QED  BY <1>5, <1>6, <1>7, <1>8, StillStep

\* Steps of start(), stop(), the flush thread and the clock, and those that move
\* the worker on, account for every value.
LEMMA AccountStill ==
  ASSUME AccountIInv, HDF5Next,
         \/ (Start /\ mode # "merge") \/ DoStop \/ OnHDF5Stop \/ FlushTest \/ FlushUse \/ Tick
         \/ BatchDone \/ AcquireFile \/ EndOfGroup \/ (FlushTabular /\ buf.known = {})
  PROVE  AccountInv'
<1>1. FileIInv /\ HDF5Types /\ WorkInv /\ StopInv /\ TableFile /\ Ledger
  BY DEF AccountIInv, AccountInv, FileIInv
<1>2. mode' = mode /\ faults' \in Nat /\ faults' >= faults
  BY <1>1, CountersStep DEF Counters
<1>3. /\ disk' = disk /\ file' = file /\ lost' = lost /\ buf'.col = buf.col
      /\ given' = given /\ batchSeq' = batchSeq /\ fseq' = fseq
  BY DEF Start, DoStop, OnHDF5Stop, FlushTest, FlushUse, Tick, BatchDone, AcquireFile, EndOfGroup,
         FlushTabular
<1>4. \/ clock' = clock /\ (phase' \in {"new", "running"} => phase \in {"new", "running"})
      \/ clock' = clock + 1
  BY DEF Start, DoStop, OnHDF5Stop, FlushTest, FlushUse, Tick, BatchDone, AcquireFile, EndOfGroup,
         FlushTabular
<1>5. TableFile'  BY <1>1, <1>2, <1>3, <1>4, TableFileKept
<1>6. \A s, c, x : Carried(work', s, c, x) <=> Carried(work, s, c, x)
  <2>1. CASE (Start /\ mode # "merge") \/ DoStop \/ OnHDF5Stop \/ FlushTest \/ FlushUse \/ Tick
    <3>1. work' = work  BY <2>1 DEF Start, DoStop, OnHDF5Stop, FlushTest, FlushUse, Tick
    <3> QED  BY <3>1
  <2>2. CASE BatchDone \/ EndOfGroup
    <3>1. work' = NoWork  BY <2>2 DEF BatchDone, EndOfGroup
    <3>2. work.frames = <<>>
      BY <1>1, <2>2 DEF BatchDone, EndOfGroup, AtAccumulate, WorkInv
    <3>3. \A s, c, x : ~Carried(work, s, c, x)  BY <3>2, TwoFrames DEF Carried
    <3> QED  BY <3>1, <3>3, NoneCarried
  <2>3. CASE AcquireFile \/ (FlushTabular /\ buf.known = {})
    <3>1. work \in Works  BY <1>1, <2>3 DEF FlushTabular, AcquireFile, NeedsFile, Working, HDF5Types
    <3>2. \E at \in {"ready", "noFile", "flushed"} : WorkAt(at)
      BY <2>3 DEF FlushTabular, AcquireFile
    <3>3. /\ work' \in Works /\ work'.source = work.source /\ work'.seq = work.seq
          /\ work'.frames = work.frames
      BY <1>1, <3>1, <3>2, WorkTyped
    <3> QED  BY <3>1, <3>3, SameCarried
  <2> QED  BY <2>1, <2>2, <2>3
<1> QED  BY <1>2, <1>3, <1>5, <1>6, NothingLost

\* The steps after a rotation that left no file account for what is given up.
LEMMA AccountGivenUp ==
  ASSUME AccountIInv, HDF5Next, MergeOpenFails \/ SkipWithoutFile
  PROVE  AccountInv'
<1>1. FileIInv /\ HDF5Types /\ WorkInv /\ StopInv /\ TableFile /\ Ledger
  BY DEF AccountIInv, AccountInv, FileIInv
<1>2. mode' = mode /\ faults' \in Nat /\ faults' >= faults
  BY <1>1, CountersStep DEF Counters
<1>3. /\ disk' = disk /\ file' = file /\ buf' = buf /\ phase' = phase /\ clock' = clock
      /\ given' = given /\ batchSeq' = batchSeq
  BY DEF MergeOpenFails, SkipWithoutFile
<1>4. TableFile'  BY <1>1, <1>2, <1>3, TableFileKept
<1>5. lost = [r \in Reasons |-> lost[r]] /\ "failed" \in Reasons /\ "skipped" \in Reasons
  BY <1>1 DEF Ledger, Reasons
<1>6. CASE MergeOpenFails
  <2> DEFINE U == FrameValues(work, work.frames)
             reason == "failed"
  <2>1. /\ work' = NoWork /\ faults' = faults + 1 /\ fseq' = fseq + 1 /\ work # NoWork
        /\ Lose("failed", U)
    BY <1>6 DEF MergeOpenFails, Fail, Working
  <2>2. /\ lost' = [r \in Reasons |-> lost'[r]] /\ reason \in {"failed", "skipped"}
        /\ \A r \in Reasons : lost'[r] = IF r = reason THEN lost[r] \cup U ELSE lost[r]
    BY <1>5, <2>1, LoseWhat
  <2>3. \A s, c, x : ~Carried(work', s, c, x)  BY <2>1, NoneCarried
  <2>4. \A s, c, x : <<s, c, x>> \in U <=> Carried(work, s, c, x) /\ ~Carried(work', s, c, x)
    BY <2>1, <2>3, FrameValuesAre DEF Carried
  <2>5. faults' > 0 /\ fseq' \in Nat /\ fseq' >= fseq  BY <1>1, <2>1 DEF HDF5Types
  <2> HIDE DEF U, reason
  <2>6. \A s, c, x : Carried(work', s, c, x) => Carried(work, s, c, x)  BY <2>3
  <2>7. buf'.col = buf.col  BY <1>3
  <2> QED  BY <1>2, <1>3, <1>4, <2>2, <2>4, <2>5, <2>6, <2>7, StillStep
<1>7. CASE SkipWithoutFile /\ work.source # "pv"
  <2>1. lost' = lost /\ WorkAt("flushed") /\ fseq' = fseq  BY <1>7 DEF SkipWithoutFile
  <2>2. work \in Works  BY <1>1, <1>7 DEF SkipWithoutFile, Working, HDF5Types
  <2>3. /\ work' \in Works /\ work'.source = work.source /\ work'.seq = work.seq
        /\ work'.frames = work.frames
    BY <1>1, <2>1, <2>2, WorkTyped
  <2>4. \A s, c, x : Carried(work', s, c, x) <=> Carried(work, s, c, x)
    BY <2>2, <2>3, SameCarried
  <2> QED  BY <1>2, <1>3, <1>4, <2>1, <2>4, NothingLost
<1>8. CASE SkipWithoutFile /\ work.source = "pv"
  <2> DEFINE U == FrameValues(work, <<work.frames[1]>>)
             reason == "skipped"
  <2>1. Working("noFile") /\ Lose("skipped", U) /\ NextFrame /\ fseq' = fseq /\ faults' = faults
    BY <1>8 DEF SkipWithoutFile
  <2>2. work # NoWork /\ work.at = "noFile" /\ work \in Works  BY <1>1, <2>1 DEF Working, HDF5Types
  <2>3. PvLeft /\ Dead  BY <1>1, <1>8, <2>2 DEF WorkInv, PvFrames, PvLeft
  <2>4. /\ lost' = [r \in Reasons |-> lost'[r]] /\ reason \in {"failed", "skipped"}
        /\ \A r \in Reasons : lost'[r] = IF r = reason THEN lost[r] \cup U ELSE lost[r]
    BY <1>5, <2>1, LoseWhat
  <2>5. \A s, c, x :
              /\ Carried(work', s, c, x) => Carried(work, s, c, x)
              /\ Brought(work, <<work.frames[1]>>, s, c, x) <=>
                   Carried(work, s, c, x) /\ ~Carried(work', s, c, x)
    BY <1>1, <1>8, <2>1, <2>2, <2>3, PvNext
  <2>6. \A s, c, x : <<s, c, x>> \in U <=> Carried(work, s, c, x) /\ ~Carried(work', s, c, x)
    BY <2>5, FrameValuesAre
  <2>7. faults' > 0
    <3>1. phase = "running"  BY <1>1, <2>2 DEF StopInv
    <3>2. flush # "done"  BY <1>1, <3>1 DEF StopInv
    <3>3. faults > 0  BY <1>1, <2>3, <3>2 DEF StopInv, Dead
    <3> QED  BY <2>1, <3>3
  <2>8. fseq' \in Nat /\ fseq' >= fseq  BY <1>1, <2>1 DEF HDF5Types
  <2> HIDE DEF U, reason
  <2>9. \A s, c, x : Carried(work', s, c, x) => Carried(work, s, c, x)  BY <2>5
  <2>10. buf'.col = buf.col  BY <1>3
  <2> QED  BY <1>2, <1>3, <1>4, <2>4, <2>6, <2>7, <2>8, <2>9, <2>10, StillStep
<1> QED  BY <1>6, <1>7, <1>8

-----------------------------------------------------------------------------
(* Taking a batch.                                                          *)

\* The values of a batch.
LEMMA BatchTyped ==
  ASSUME NEW w \in Works, w.seq # 0
  PROVE  FrameValues(w, w.frames) \subseteq SourceNames \X Columns \X Stamps
<1>1. w.frames \in Seq(Frames) /\ w.source \in SourceNames /\ w.seq \in Nat \ {0}  BY DEF Works
<1>2. ASSUME NEW v \in FrameValues(w, w.frames)
      PROVE  v \in SourceNames \X Columns \X Stamps
  <2>1. PICK i \in DOMAIN w.frames : v \in {<<w.source, c, <<w.seq, w.frames[i].row>>>> : c \in w.frames[i].cols}
    BY <1>2 DEF FrameValues
  <2>2. w.frames[i] \in Frames  BY <1>1
  <2>3. w.frames[i].row \in Nat /\ w.frames[i].cols \subseteq Columns  BY <2>2 DEF Frames
  <2>4. PICK c \in Columns : v = <<w.source, c, <<w.seq, w.frames[i].row>>>>  BY <2>1, <2>3
  <2>5. <<w.seq, w.frames[i].row>> \in Stamps  BY <1>1, <2>3 DEF Stamps
  <2> QED  BY <1>1, <2>4, <2>5
<1> QED  BY <1>2

\* A batch that was taken is in hand.
LEMMA AccountTaken ==
  ASSUME AccountIInv, HDF5Next, Take
  PROVE  AccountInv'
<1>1. /\ FileIInv /\ HDF5Types /\ WorkInv /\ StopInv /\ TableFile /\ Ledger /\ Named(disk, fseq)
      /\ Accounts
  BY DEF AccountIInv, AccountInv, FileIInv
<1>2. mode' = mode /\ faults' = faults
  BY <1>1, CountersStep DEF Counters, Take
<1>3. /\ disk' = disk /\ file' = file /\ buf' = buf /\ phase' = phase /\ clock' = clock
      /\ fseq' = fseq /\ lost' = lost /\ work = NoWork /\ batchSeq' = batchSeq + 1
  BY DEF Take
<1>4. work' \in Works /\ work'.seq = batchSeq + 1  BY <1>1, TakeWhat
<1>5. given' = given \cup FrameValues(work', work'.frames)
  <2>1. PICK b \in Batch(batchSeq') :
          /\ work' = [source |-> b.source, seq |-> batchSeq', frames |-> b.frames, end |-> b.end,
                      at |-> "frame"]
          /\ given' = given \cup FrameValues(work', b.frames)
    BY DEF Take
  <2>2. work'.frames = b.frames  BY <2>1
  <2> QED  BY <2>1, <2>2
<1>6. TableFile'  BY <1>1, <1>2, <1>3, TableFileKept
<1>7. Named(disk, fseq)'  BY <1>1, <1>2, <1>3 DEF Named
<1>8. Ledger'
  <2>1. work'.seq # 0  BY <1>1, <1>4 DEF HDF5Types
  <2>2. given' \subseteq SourceNames \X Columns \X Stamps
    BY <1>1, <1>4, <1>5, <2>1, BatchTyped DEF Ledger
  <2> QED  BY <1>1, <1>2, <1>3, <2>2 DEF Ledger
<1>9. ASSUME NEW s \in SourceNames, NEW c \in Columns, NEW x \in Stamps
      PROVE  ValueInv(s, c, x)'
  <2>1. ValueInv(s, c, x) /\ batchSeq \in Nat  BY <1>1 DEF Accounts, HDF5Types
  <2>2. ~Carried(work, s, c, x)  BY <1>3, NoneCarried
  <2>3. Carried(work', s, c, x) => x[1] = batchSeq + 1  BY <1>4 DEF Carried, Brought
  <2>4. <<s, c, x>> \in given' => <<s, c, x>> \in given \/ Carried(work', s, c, x)
    <3>1. work' # NoWork  BY <1>4, NotIdle
    <3> QED  BY <1>5, <3>1, FrameValuesAre DEF Carried
  <2> QED  BY <1>3, <2>1, <2>2, <2>3, <2>4, ValueTaken
<1>10. Accounts'  BY <1>9 DEF Accounts
<1> QED  BY <1>6, <1>7, <1>8, <1>10 DEF AccountInv

-----------------------------------------------------------------------------
(* Steps that write to a file.                                              *)

\* What a value written to columns cols of source t changes.
Gained(t, cols, values, torn) ==
  \A s \in SourceNames, c \in Columns : \A x : Gains(s, c, x, t, cols, values, torn)

\* The writer counts n more values for the file of key k, or none.
Sized(k, n) == file' = file \/ file' = [file EXCEPT ![k] = Grown(file[k], n)]

\* A step that appended to one group, perhaps tearing it.
LEMMA WrittenGains ==
  ASSUME HDF5Types, FileInv, Sealed, NEW k \in Keys, file[k].open, NEW t \in SourceNames,
         NEW g, g = disk[PathOf(file[k])][t], g \in Groups, NEW ts, NEW cols,
         NEW values \in [Columns -> Nat \X Nat], NEW h, Extends(h, g, ts, cols, values),
         NEW q, q = h \/ q = Tear(h), Written(k, t, q)
  PROVE  Becomes(PathOf(file[k]), t, g, q) /\ Gained(t, cols, values, q.torn)
<1>1. /\ h \in Groups /\ h.torn = g.torn
      /\ \A c \in Columns :
           h.col[c] = IF c \in cols THEN Append(g.col[c], values[c]) ELSE g.col[c]
  BY DEF Extends
<1>2. /\ q \in Groups /\ (g.torn => q.torn) /\ q.col = h.col
  BY <1>1, Torn
<1>3. /\ PathOf(file[k]) \in DOMAIN disk /\ DOMAIN disk' = DOMAIN disk
      /\ \A p \in DOMAIN disk, u \in SourceNames :
           disk'[p][u] = IF p = PathOf(file[k]) /\ u = t THEN q ELSE disk[p][u]
  BY <1>2, WrittenDisk
<1> DEFINE path == PathOf(file[k])
<1>4. path \in DOMAIN disk /\ Becomes(path, t, g, q) /\ Grows(q, g, cols, values)
  BY <1>1, <1>2, <1>3 DEF Becomes, Grows
<1>6. Becomes(PathOf(file[k]), t, g, q)  BY <1>4
<1> HIDE DEF path
<1>5. ASSUME NEW s \in SourceNames, NEW c \in Columns, NEW x
      PROVE  Gains(s, c, x, t, cols, values, q.torn)
  BY <1>2, <1>3, <1>4, WrittenCells
<1> QED  BY <1>5, <1>6 DEF Gained

\* Writing changes no file's name.
LEMMA WrittenNames ==
  ASSUME HDF5Types, FileInv, Named(disk, fseq), TableFile, mode' = mode, clock' = clock,
         phase' = phase, fseq' = fseq, NEW t \in SourceNames, NEW k, k = KeyOf(t), k \in Keys,
         file[k].open, NEW n \in Nat, Sized(k, n), mode = "per_source" /\ t = "table" => n = 0,
         NEW g, NEW q, Becomes(PathOf(file[k]), t, g, q)
  PROVE  Named(disk, fseq)' /\ TableFile'
<1> USE DEF Sized, Becomes
<1>1. PathOf(file[k])[2] = k /\ PathOf(file[k]) \in DOMAIN disk
  BY DEF FileInv, PathOf, TempPath
<1>2. Named(disk, fseq)'
  <2>1. ASSUME NEW p \in DOMAIN disk, p[2] = "pv", NEW c \in Columns
        PROVE  disk'[p]["table"].col[c] = <<>>
    <3>1. disk[p]["table"].col[c] = <<>>  BY <2>1 DEF Named
    <3>2. ~(p = PathOf(file[k]) /\ t = "table")
      <4>1. ASSUME p = PathOf(file[k]), t = "table" PROVE FALSE
        <5>1. k = "pv"  BY <1>1, <2>1, <4>1
        <5> QED  BY <4>1, <5>1 DEF KeyOf
      <4> QED  BY <4>1
    <3>3. disk'[p]["table"] = disk[p]["table"]  BY <3>2 DEF SourceNames
    <3> QED  BY <3>1, <3>3
  <2> QED  BY <2>1 DEF Named
<1>3. TableFile'
  <2>1. SUFFICES ASSUME mode = "per_source" PROVE TableFile'  BY DEF TableFile
  <2> DEFINE f == file["table"]
  <2>2. /\ f.open => f \in OpenFiles /\ f.bytes = 0 /\ f.opened = f.stamp
        /\ "table" \in Keys
    BY <2>1, OpenTyped DEF TableFile, Keys, SourceNames
  <2>3. CASE file'["table"] = f
    BY <2>1, <2>3 DEF TableFile
  <2>4. CASE file'["table"] # f
    <3>1. k = "table" /\ file'["table"] = Grown(file["table"], n)  BY <2>2, <2>4 DEF HDF5Types
    <3>2. t = "table" /\ n = 0  BY <2>1, <3>1 DEF KeyOf
    <3>3. file'["table"] = Grown(f, 0) /\ f.open  BY <3>1, <3>2
    <3> DEFINE h == Grown(f, 0)
    <3>4. /\ h.open = TRUE /\ h.bytes = f.bytes + 0 /\ h.opened = f.opened /\ h.stamp = f.stamp
          /\ h.key = f.key
      BY DEF Grown
    <3>5. PathOf(h) = PathOf(f)  BY <3>4 DEF PathOf
    <3> HIDE DEF h
    <3>6. file'["table"] = h  BY <3>3 DEF h
    <3>7. h.bytes = 0  BY <2>2, <3>3, <3>4
    <3> QED  BY <2>1, <2>2, <3>3, <3>4, <3>5, <3>6, <3>7 DEF TableFile
  <2> QED  BY <2>3, <2>4
<1> QED  BY <1>2, <1>3

\* What an ordinary frame's values are.
LEMMA PvWrites ==
  ASSUME HDF5Types, FileInv, WorkInv, Working("ready"), work.source = "pv",
         NEW cols \in SUBSET work.frames[1].cols
  PROVE  /\ PvLeft /\ work \in Works /\ work.frames # <<>> /\ cols \in SUBSET Columns
         /\ \A s, c, x : Writes(s, c, x, "pv", cols, BatchValues) <=>
                           Brought(work, <<Frame(work.frames[1].row, cols)>>, s, c, x)
         /\ \A s, c, x : Writes(s, c, x, "pv", cols, BatchValues) => Carried(work, s, c, x)
<1>1. /\ work.frames # <<>> /\ work.frames[1].cols \in SUBSET Columns
      /\ \A c \in Columns : BatchValues[c] = <<work.seq, work.frames[1].row>>
      /\ Whole \/ Split \/ Rest \/ Pair \/ Second
  BY PvReady
<1>2. PvLeft  BY <1>1 DEF PvLeft, Whole, Split, Rest, Pair, Second
<1>3. work \in Works /\ work # NoWork  BY ReadyToAppend, NotIdle
<1>4. 1 \in DOMAIN work.frames
  <2>1. work.frames \in Seq(Frames)  BY <1>3 DEF Works
  <2> QED  BY <1>1, <2>1
<1> DEFINE row == work.frames[1].row
<1>5. \A s, c, x : Writes(s, c, x, "pv", cols, BatchValues) <=>
                     s = "pv" /\ c \in cols /\ x = <<work.seq, row>>
  BY <1>1 DEF Writes
<1>6. \A s, c, x : Brought(work, <<Frame(row, cols)>>, s, c, x) <=>
                     s = "pv" /\ c \in cols /\ x = <<work.seq, row>>
  BY OneFrame DEF Frame
<1>7. \A s, c, x : s = "pv" /\ c \in cols /\ x = <<work.seq, row>> => Carried(work, s, c, x)
  BY <1>3, <1>4 DEF Carried, Brought
<1> QED  BY <1>1, <1>2, <1>3, <1>5, <1>6, <1>7

\* A frame that was appended is on disk.
LEMMA AccountAppended ==
  ASSUME AccountIInv, HDF5Next, AppendFrame
  PROVE  AccountInv'
<1> DEFINE k == KeyOf("pv")
           cols == work.frames[1].cols
           g == disk[PathOf(file[k])]["pv"]
           h == Appended(g, BatchTs, cols, BatchValues)
           q == IF Untimed THEN Tear(h) ELSE h
           n == Cardinality(cols)
<1>1. /\ HDF5Types /\ FilesInv /\ FileInv /\ Sealed /\ WorkInv /\ TableFile /\ Ledger
      /\ Named(disk, fseq) /\ Accounts
  BY DEF AccountIInv, AccountInv, FileIInv, FilesInv
<1>2. /\ Working("ready") /\ work.source = "pv"
      /\ disk' = IF Untimed THEN AppendTorn(Current, "pv", BatchTs, cols, BatchValues)
                 ELSE AppendTo(Current, "pv", BatchTs, cols, BatchValues)
      /\ file' = [file EXCEPT ![k] = Grown(file[k], n)] /\ NextFrame
      /\ mode' = mode /\ phase' = phase /\ clock' = clock /\ batchSeq' = batchSeq /\ buf' = buf
      /\ fseq' = fseq /\ faults' = faults /\ given' = given /\ lost' = lost
  BY DEF AppendFrame
<1>3. /\ k \in Keys /\ file[k].open /\ Current = file[k] /\ g \in Groups
  BY <1>1, <1>2, ReadyToAppend DEF SourceNames
<1>4. BatchTs \in Seq(Nat) /\ BatchValues \in [Columns -> Nat \X Nat] /\ cols \in SUBSET Columns
  BY <1>1, <1>2, PvReady
<1>5. n \in Nat  BY <1>4, ColumnCount
<1>6. disk' = WithGroup(disk, PathOf(file[k]), "pv", q)
  BY <1>2, <1>3 DEF AppendTo, AppendTorn
<1>a. /\ g = disk[PathOf(file[k])]["pv"] /\ h = Appended(g, BatchTs, cols, BatchValues)
      /\ k = KeyOf("pv") /\ "pv" \in SourceNames /\ (q = h \/ q = Tear(h))
  BY DEF SourceNames
<1>b. cols \in SUBSET work.frames[1].cols  OBVIOUS
<1> HIDE DEF q, h, g, n, k
<1>7. Extends(h, g, BatchTs, cols, BatchValues)  BY <1>3, <1>4, <1>a, AppendedTyped
<1>8. Written(k, "pv", q)  BY <1>2, <1>5, <1>6 DEF Written
<1>9. Becomes(PathOf(file[k]), "pv", g, q) /\ Gained("pv", cols, BatchValues, q.torn)
  BY <1>1, <1>3, <1>4, <1>7, <1>8, <1>a, WrittenGains
<1>10. Named(disk, fseq)' /\ TableFile'
  <2>1. Sized(k, n)  BY <1>2 DEF Sized
  <2> QED  BY <1>1, <1>2, <1>3, <1>5, <1>9, <1>a, <2>1, WrittenNames
<1>11. Ledger'  BY <1>1, <1>2 DEF Ledger
<1>12. /\ PvLeft /\ work \in Works
       /\ \A s, c, x : Writes(s, c, x, "pv", cols, BatchValues) <=>
                         Brought(work, <<Frame(work.frames[1].row, cols)>>, s, c, x)
  BY <1>1, <1>2, <1>b, PvWrites
<1>13. \A s, c, x :
         /\ Carried(work', s, c, x) => Carried(work, s, c, x)
         /\ Brought(work, <<work.frames[1]>>, s, c, x) <=>
              Carried(work, s, c, x) /\ ~Carried(work', s, c, x)
  BY <1>1, <1>2, <1>12, PvNext
<1>14. \A s, c, x : Writes(s, c, x, "pv", cols, BatchValues) <=>
                      Carried(work, s, c, x) /\ ~Carried(work', s, c, x)
  <2>1. work.frames[1] = Frame(work.frames[1].row, cols)  BY <1>12 DEF PvLeft, Frame
  <2> QED  BY <1>12, <1>13, <2>1
<1> HIDE DEF cols
<1>15. ASSUME NEW s \in SourceNames, NEW c \in Columns, NEW x \in Stamps
       PROVE  ValueInv(s, c, x)'
  <2>1. ValueInv(s, c, x) /\ Gains(s, c, x, "pv", cols, BatchValues, q.torn)
    BY <1>1, <1>9 DEF Accounts, Gained
  <2>2. /\ Carried(work', s, c, x) => Carried(work, s, c, x)
        /\ Writes(s, c, x, "pv", cols, BatchValues) <=>
             Carried(work, s, c, x) /\ ~Carried(work', s, c, x)
    BY <1>13, <1>14
  <2>3. Carried(work, s, c, x) => x[1] <= batchSeq  BY <1>1, CarriedNumber
  <2>4. \A r \in Reasons : <<s, c, x>> \in lost'[r] <=>
           \/ <<s, c, x>> \in lost[r]
           \/ /\ r = "failed" /\ Carried(work, s, c, x) /\ ~Carried(work', s, c, x)
              /\ ~Writes(s, c, x, "pv", cols, BatchValues)
    BY <1>2, <2>2
  <2>5. buf'.col = buf.col /\ given' = given /\ batchSeq' = batchSeq  BY <1>2
  <2> QED  BY <2>1, <2>2, <2>3, <2>4, <2>5, ValueWritten
<1>16. Accounts'  BY <1>15 DEF Accounts
<1> QED  BY <1>10, <1>11, <1>16 DEF AccountInv

\* After an HDF5 error the columns before it are on disk, the others given up.
LEMMA AccountAppendFails ==
  ASSUME AccountIInv, HDF5Next, AppendFails
  PROVE  AccountInv'
<1> DEFINE k == KeyOf("pv")
           g == disk[PathOf(file[k])]["pv"]
<1>1. /\ HDF5Types /\ FilesInv /\ FileInv /\ Sealed /\ WorkInv /\ TableFile /\ Ledger
      /\ Named(disk, fseq) /\ Accounts
  BY DEF AccountIInv, AccountInv, FileIInv, FilesInv
<1>2. /\ Working("ready") /\ work.source = "pv" /\ work' = NoWork /\ work # NoWork
      /\ mode' = mode /\ phase' = phase /\ clock' = clock /\ batchSeq' = batchSeq /\ buf' = buf
      /\ fseq' = fseq /\ faults' = faults + 1 /\ given' = given
  BY DEF AppendFails, Fail, Working
<1>3. PICK cols \in SUBSET work.frames[1].cols :
         /\ disk' = AppendTorn(Current, "pv", BatchTs, cols, BatchValues)
         /\ file' = [file EXCEPT ![KeyOf("pv")] =
                       Grown(@, IF mode = "merge" THEN Cardinality(cols) ELSE 0)]
         /\ Lose("failed", FrameValues(work, work.frames)
                             \ FrameValues(work, <<Frame(work.frames[1].row, cols)>>))
  BY DEF AppendFails
<1> DEFINE h == Appended(g, BatchTs, cols, BatchValues)
           q == Tear(h)
           n == IF mode = "merge" THEN Cardinality(cols) ELSE 0
           V == FrameValues(work, work.frames) \ FrameValues(work, <<Frame(work.frames[1].row, cols)>>)
<1>4. /\ k \in Keys /\ file[k].open /\ Current = file[k] /\ g \in Groups
  BY <1>1, <1>2, ReadyToAppend DEF SourceNames
<1>5. BatchTs \in Seq(Nat) /\ BatchValues \in [Columns -> Nat \X Nat]
  BY <1>1, <1>2, PvReady
<1>6. /\ PvLeft /\ cols \in SUBSET Columns
      /\ \A s, c, x : Writes(s, c, x, "pv", cols, BatchValues) <=>
                         Brought(work, <<Frame(work.frames[1].row, cols)>>, s, c, x)
      /\ \A s, c, x : Writes(s, c, x, "pv", cols, BatchValues) => Carried(work, s, c, x)
  BY <1>1, <1>2, PvWrites
<1>7. n \in Nat
  <2>1. Cardinality(cols) \in Nat  BY <1>6, ColumnCount
  <2> QED  BY <2>1
<1>8. /\ disk' = WithGroup(disk, PathOf(file[k]), "pv", q)
      /\ file' = [file EXCEPT ![k] = Grown(file[k], n)]
  BY <1>3, <1>4 DEF AppendTorn
<1>9. \A s, c, x : <<s, c, x>> \in V <=>
          Carried(work, s, c, x) /\ ~Writes(s, c, x, "pv", cols, BatchValues)
  <2>1. \A s, c, x : <<s, c, x>> \in FrameValues(work, work.frames) <=> Carried(work, s, c, x)
    BY <1>2, FrameValuesAre DEF Carried
  <2>2. \A s, c, x : <<s, c, x>> \in FrameValues(work, <<Frame(work.frames[1].row, cols)>>) <=>
                       Writes(s, c, x, "pv", cols, BatchValues)
    BY <1>6, FrameValuesAre
  <2> QED  BY <2>1, <2>2
<1>a. /\ g = disk[PathOf(file[k])]["pv"] /\ h = Appended(g, BatchTs, cols, BatchValues)
      /\ k = KeyOf("pv") /\ "pv" \in SourceNames /\ q = Tear(h)
      /\ Lose("failed", V)
  BY <1>3 DEF SourceNames
<1> HIDE DEF h, g, n, k, q, V
<1>10. Extends(h, g, BatchTs, cols, BatchValues)  BY <1>4, <1>5, <1>6, <1>a, AppendedTyped
<1>11. Written(k, "pv", q)  BY <1>2, <1>7, <1>8 DEF Written
<1>12. Becomes(PathOf(file[k]), "pv", g, q) /\ Gained("pv", cols, BatchValues, q.torn)
  BY <1>1, <1>4, <1>5, <1>10, <1>11, <1>a, WrittenGains
<1>13. Named(disk, fseq)' /\ TableFile'
  <2>1. Sized(k, n)  BY <1>8 DEF Sized
  <2> QED  BY <1>1, <1>2, <1>4, <1>7, <1>12, <1>a, <2>1, WrittenNames
<1>14. /\ lost' = [r \in Reasons |-> lost'[r]]
       /\ \A r \in Reasons : lost'[r] = IF r = "failed" THEN lost[r] \cup V ELSE lost[r]
       /\ "overwritten" \in Reasons
  BY <1>1, <1>a, LoseWhat DEF Ledger, Reasons
<1>15. Ledger'
  <2>1. faults' # 0  BY <1>1, <1>2 DEF HDF5Types
  <2> QED  BY <1>1, <1>2, <1>14, <2>1 DEF Ledger
<1>16. ASSUME NEW s \in SourceNames, NEW c \in Columns, NEW x \in Stamps
       PROVE  ValueInv(s, c, x)'
  <2>1. ValueInv(s, c, x) /\ Gains(s, c, x, "pv", cols, BatchValues, q.torn)
    BY <1>1, <1>12 DEF Accounts, Gained
  <2>2. /\ ~Carried(work', s, c, x)
        /\ Writes(s, c, x, "pv", cols, BatchValues) => Carried(work, s, c, x)
    BY <1>2, <1>6, NoneCarried
  <2>3. Carried(work, s, c, x) => x[1] <= batchSeq  BY <1>1, CarriedNumber
  <2>4. \A r \in Reasons : <<s, c, x>> \in lost'[r] <=>
           \/ <<s, c, x>> \in lost[r]
           \/ /\ r = "failed" /\ Carried(work, s, c, x) /\ ~Carried(work', s, c, x)
              /\ ~Writes(s, c, x, "pv", cols, BatchValues)
    <3>1. <<s, c, x>> \in V <=> Carried(work, s, c, x) /\ ~Writes(s, c, x, "pv", cols, BatchValues)
      BY <1>9
    <3> QED  BY ONLY <1>14, <2>2, <3>1
  <2>5. buf'.col = buf.col /\ given' = given /\ batchSeq' = batchSeq  BY <1>2
  <2> QED  BY <2>1, <2>2, <2>3, <2>4, <2>5, ValueWritten
<1>17. Accounts'  BY <1>16 DEF Accounts
<1> QED  BY <1>13, <1>15, <1>17 DEF AccountInv

-----------------------------------------------------------------------------
(* Steps of the tabular buffer.                                             *)

\* A flush writes the front of each column; the fill value is nobody's.
LEMMA FlushWrites ==
  ASSUME HDF5Types, BufInv, NEW cols \in SUBSET buf.known, NEW s, NEW c \in Columns, NEW x,
         x # Fill
  PROVE  /\ Writes(s, c, x, "table", cols, BufferValues) => Front(buf.col, s, c, x)
         /\ cols = buf.known =>
              (Writes(s, c, x, "table", cols, BufferValues) <=> Front(buf.col, s, c, x))
<1>1. buf.col[c] \in Seq(Nat \X Nat)  BY DEF HDF5Types, Buffers
<1>2. c \notin buf.known => buf.col[c] = <<>>  BY DEF BufInv
<1>3. BufferValues[c] = IF buf.col[c] = <<>> THEN Fill ELSE Head(buf.col[c])  BY DEF BufferValues
<1>4. buf.col[c] # <<>> => Head(buf.col[c]) = buf.col[c][1]  BY <1>1
<1> QED  BY <1>2, <1>3, <1>4 DEF Writes, Front

\* The values behind the front are given up as repeated.
LEMMA RepeatedAre ==
  ASSUME HDF5Types, BufInv, NEW V,
         V = UNION {{<<"table", b, buf.col[b][i]>> : i \in 2 .. Len(buf.col[b])} : b \in buf.known},
         NEW s, NEW c \in Columns, NEW x
  PROVE  <<s, c, x>> \in V <=> Behind(buf.col, s, c, x)
<1>1. buf.col[c] \in Seq(Nat \X Nat)  BY DEF HDF5Types, Buffers
<1>2. DOMAIN buf.col[c] = 1 .. Len(buf.col[c]) /\ Len(buf.col[c]) \in Nat  BY <1>1
<1>3. \A i : i \in DOMAIN buf.col[c] /\ i # 1 <=> i \in 2 .. Len(buf.col[c])  BY <1>2
<1>4. c \notin buf.known => DOMAIN buf.col[c] = {}
  <2>1. ASSUME c \notin buf.known PROVE DOMAIN buf.col[c] = {}
    <3>1. buf.col[c] = <<>>  BY <2>1 DEF BufInv
    <3> QED  BY <3>1
  <2> QED  BY <2>1
<1>5. ASSUME <<s, c, x>> \in V PROVE Behind(buf.col, s, c, x)
  <2>1. PICK b \in buf.known :
          <<s, c, x>> \in {<<"table", b, buf.col[b][i]>> : i \in 2 .. Len(buf.col[b])}
    BY <1>5
  <2>2. PICK i \in 2 .. Len(buf.col[b]) : <<s, c, x>> = <<"table", b, buf.col[b][i]>>  BY <2>1
  <2>3. s = "table" /\ c = b /\ x = buf.col[c][i]  BY <2>2
  <2>4. i \in DOMAIN buf.col[c] /\ i # 1  BY <1>3, <2>2, <2>3
  <2> QED  BY <2>3, <2>4 DEF Behind
<1>6. ASSUME Behind(buf.col, s, c, x) PROVE <<s, c, x>> \in V
  <2>1. PICK i \in DOMAIN buf.col[c] : i # 1 /\ buf.col[c][i] = x /\ s = "table"
    BY <1>6 DEF Behind
  <2>2. c \in buf.known /\ i \in 2 .. Len(buf.col[c])  BY <1>3, <1>4, <2>1
  <2>3. <<s, c, x>> \in {<<"table", c, buf.col[c][j]>> : j \in 2 .. Len(buf.col[c])}
    BY <2>1, <2>2
  <2> DEFINE T == {{<<"table", b, buf.col[b][j]>> : j \in 2 .. Len(buf.col[b])} : b \in buf.known}
  <2>4. {<<"table", c, buf.col[c][j]>> : j \in 2 .. Len(buf.col[c])} \in T  BY <2>2
  <2>5. V = UNION T  OBVIOUS
  <2> HIDE DEF T
  <2> QED  BY <2>3, <2>4, <2>5
<1> QED  BY <1>5, <1>6

\* A flushed row is on disk.
LEMMA AccountFlushed ==
  ASSUME AccountIInv, HDF5Next, FlushTabular, buf.known # {}
  PROVE  AccountInv'
<1> DEFINE k == KeyOf("table")
           g == disk[PathOf(file[k])]["table"]
           ts == <<Head(buf.ts)>>
           h == Appended(g, ts, buf.known, BufferValues)
           n == IF mode = "merge" THEN Cardinality(buf.known) + 2 ELSE 0
           V == UNION {{<<"table", c, buf.col[c][i]>> : i \in 2 .. Len(buf.col[c])} : c \in buf.known}
<1>1. /\ HDF5Types /\ FilesInv /\ FileInv /\ Sealed /\ WorkInv /\ BufInv /\ TableFile /\ Ledger
      /\ Named(disk, fseq) /\ Accounts
  BY DEF AccountIInv, AccountInv, FileIInv, FilesInv
<1>2. /\ Working("ready") /\ work.source = "table" /\ WorkAt("flushed")
      /\ disk' = AppendTo(Current, "table", ts, buf.known, BufferValues)
      /\ file' = [file EXCEPT ![k] = Grown(file[k], n)] /\ buf' = Flushed /\ Lose("repeated", V)
      /\ mode' = mode /\ phase' = phase /\ clock' = clock /\ batchSeq' = batchSeq
      /\ fseq' = fseq /\ faults' = faults /\ given' = given
  BY DEF FlushTabular
<1>3. /\ k \in Keys /\ file[k].open /\ Current = file[k] /\ g \in Groups /\ work \in Works
  BY <1>1, <1>2, ReadyToAppend DEF SourceNames
<1>4. /\ buf.round \in Nat /\ Head(buf.ts) = buf.round /\ buf.known \in SUBSET Columns
      /\ BufferValues \in [Columns -> Nat \X Nat]
  BY <1>1, <1>2, TableReady
<1>5. ts \in Seq(Nat)  BY <1>4
<1>6. n \in Nat
  <2>1. Cardinality(buf.known) \in Nat  BY <1>4, ColumnCount
  <2> QED  BY <2>1
<1>7. disk' = WithGroup(disk, PathOf(file[k]), "table", h)  BY <1>2, <1>3 DEF AppendTo
<1>a. /\ g = disk[PathOf(file[k])]["table"] /\ h = Appended(g, ts, buf.known, BufferValues)
      /\ k = KeyOf("table") /\ "table" \in SourceNames
      /\ mode = "per_source" => n = 0
  BY DEF SourceNames
<1>b. \A s, x : \A c \in Columns : <<s, c, x>> \in V <=> Behind(buf.col, s, c, x)
  BY <1>1, RepeatedAre
<1> HIDE DEF h, g, n, k, ts, V
<1>8. Extends(h, g, ts, buf.known, BufferValues)  BY <1>3, <1>4, <1>5, <1>a, AppendedTyped
<1>9. Written(k, "table", h)  BY <1>2, <1>6, <1>7 DEF Written
<1>10. Becomes(PathOf(file[k]), "table", g, h) /\ Gained("table", buf.known, BufferValues, h.torn)
  BY <1>1, <1>3, <1>4, <1>8, <1>9, <1>a, WrittenGains
<1>11. Named(disk, fseq)' /\ TableFile'
  <2>1. Sized(k, n)  BY <1>2 DEF Sized
  <2> QED  BY <1>1, <1>2, <1>3, <1>6, <1>10, <1>a, <2>1, WrittenNames
<1>12. /\ lost' = [r \in Reasons |-> lost'[r]]
       /\ \A r \in Reasons : lost'[r] = IF r = "repeated" THEN lost[r] \cup V ELSE lost[r]
       /\ {"overwritten", "failed", "skipped", "repeated"} \subseteq Reasons
  <2>1. "repeated" \in Reasons  BY DEF Reasons
  <2> QED  BY <1>1, <1>2, <2>1, LoseWhat DEF Ledger, Reasons
<1>13. Ledger'  BY <1>1, <1>2, <1>12 DEF Ledger
<1>14. \A s, c, x : Carried(work', s, c, x) <=> Carried(work, s, c, x)
  <2>1. /\ work' \in Works /\ work'.source = work.source /\ work'.seq = work.seq
        /\ work'.frames = work.frames
    BY <1>1, <1>2, <1>3, WorkTyped
  <2> QED  BY <1>3, <2>1, SameCarried
<1>15. \A c \in Columns : buf'.col[c] = <<>>  BY <1>2 DEF Flushed
<1>16. ASSUME NEW s \in SourceNames, NEW c \in Columns, NEW x \in Stamps
       PROVE  ValueInv(s, c, x)'
  <2>1. ValueInv(s, c, x) /\ Gains(s, c, x, "table", buf.known, BufferValues, h.torn)
    BY <1>1, <1>10 DEF Accounts, Gained
  <2>2. Writes(s, c, x, "table", buf.known, BufferValues) <=> Front(buf.col, s, c, x)
    BY <1>1, NotFill, FlushWrites
  <2>3. ~Front(buf'.col, s, c, x) /\ ~Behind(buf'.col, s, c, x)
    BY <1>15 DEF Front, Behind
  <2>4. \A r \in Reasons : <<s, c, x>> \in lost'[r] <=>
           <<s, c, x>> \in lost[r] \/ (r = "repeated" /\ Behind(buf.col, s, c, x))
    <3>1. <<s, c, x>> \in V <=> Behind(buf.col, s, c, x)  BY <1>b
    <3> QED  BY ONLY <1>12, <3>1
  <2>5. given' = given /\ batchSeq' = batchSeq  BY <1>2
  <2>6. Carried(work', s, c, x) <=> Carried(work, s, c, x)  BY <1>14
  <2> QED  BY <2>1, <2>2, <2>3, <2>4, <2>5, <2>6, ValueFlushed
<1>17. Accounts'  BY <1>16 DEF Accounts
<1> QED  BY <1>11, <1>13, <1>17 DEF AccountInv

\* After a flush that failed the buffer keeps its values, some of which are in a
\* torn group as well.
LEMMA AccountFlushFails ==
  ASSUME AccountIInv, HDF5Next, FlushTabularFails
  PROVE  AccountInv'
<1> DEFINE k == KeyOf("table")
           g == disk[PathOf(file[k])]["table"]
           ts == <<Head(buf.ts)>>
           V == FrameValues(work, work.frames)
<1>1. /\ HDF5Types /\ FilesInv /\ FileInv /\ Sealed /\ WorkInv /\ BufInv /\ TableFile /\ Ledger
      /\ Named(disk, fseq) /\ Accounts
  BY DEF AccountIInv, AccountInv, FileIInv, FilesInv
<1>2. /\ Working("ready") /\ work.source = "table" /\ work' = NoWork /\ work # NoWork
      /\ file' = file /\ buf' = [buf EXCEPT !.fixed = TRUE] /\ Lose("failed", V)
      /\ mode' = mode /\ phase' = phase /\ clock' = clock /\ batchSeq' = batchSeq
      /\ fseq' = fseq /\ faults' = faults + 1 /\ given' = given
  BY DEF FlushTabularFails, Fail, Working
<1>3. PICK cols \in (SUBSET buf.known) \ {buf.known} :
        disk' = AppendTorn(Current, "table", ts, cols, BufferValues)
  BY DEF FlushTabularFails
<1> DEFINE h == Appended(g, ts, cols, BufferValues)
           q == Tear(h)
<1>4. /\ k \in Keys /\ file[k].open /\ Current = file[k] /\ g \in Groups
  BY <1>1, <1>2, ReadyToAppend DEF SourceNames
<1>5. buf.known # {} /\ cols \in SUBSET buf.known  BY <1>3
<1>6. /\ buf.round \in Nat /\ Head(buf.ts) = buf.round /\ cols \in SUBSET Columns
      /\ BufferValues \in [Columns -> Nat \X Nat]
  BY <1>1, <1>2, <1>5, TableReady
<1>7. ts \in Seq(Nat)  BY <1>6
<1>8. disk' = WithGroup(disk, PathOf(file[k]), "table", q)  BY <1>3, <1>4 DEF AppendTorn
<1>a. /\ g = disk[PathOf(file[k])]["table"] /\ h = Appended(g, ts, cols, BufferValues)
      /\ k = KeyOf("table") /\ "table" \in SourceNames /\ q = Tear(h)
  BY DEF SourceNames
<1>b. \A s, c, x : <<s, c, x>> \in V <=> Carried(work, s, c, x)
  BY <1>2, FrameValuesAre DEF Carried
<1> HIDE DEF h, g, k, q, ts, V
<1>9. Extends(h, g, ts, cols, BufferValues)  BY <1>4, <1>6, <1>7, <1>a, AppendedTyped
<1>10. Written(k, "table", q)  BY <1>2, <1>8 DEF Written
<1>11. /\ Becomes(PathOf(file[k]), "table", g, q)
       /\ Gained("table", cols, BufferValues, q.torn) /\ q.torn = TRUE
  <2>1. q.torn = TRUE  BY <1>a DEF Tear
  <2> QED  BY <1>1, <1>4, <1>6, <1>9, <1>10, <1>a, <2>1, WrittenGains
<1>12. Named(disk, fseq)' /\ TableFile'
  <2> DEFINE n == 0
  <2>1. Sized(k, n) /\ n \in Nat /\ n = 0  BY <1>2 DEF Sized
  <2> HIDE DEF n
  <2> QED  BY <1>1, <1>2, <1>4, <1>11, <1>a, <2>1, WrittenNames
<1>13. /\ lost' = [r \in Reasons |-> lost'[r]]
       /\ \A r \in Reasons : lost'[r] = IF r = "failed" THEN lost[r] \cup V ELSE lost[r]
       /\ {"overwritten", "failed", "skipped"} \subseteq Reasons
  <2>1. "failed" \in Reasons  BY DEF Reasons
  <2> QED  BY <1>1, <1>2, <2>1, LoseWhat DEF Ledger, Reasons
<1>14. Ledger'
  <2>1. faults' # 0  BY <1>1, <1>2 DEF HDF5Types
  <2> QED  BY <1>1, <1>2, <1>13, <2>1 DEF Ledger
<1>15. buf'.col = buf.col  BY <1>1, <1>2 DEF HDF5Types, Buffers
<1>16. ASSUME NEW s \in SourceNames, NEW c \in Columns, NEW x \in Stamps
       PROVE  ValueInv(s, c, x)'
  <2>1. ValueInv(s, c, x) /\ Gains(s, c, x, "table", cols, BufferValues, TRUE)
    BY <1>1, <1>11 DEF Accounts, Gained
  <2>2. Writes(s, c, x, "table", cols, BufferValues) => Front(buf.col, s, c, x)
    BY <1>1, <1>5, NotFill, FlushWrites
  <2>3. ~Carried(work', s, c, x)  BY <1>2, NoneCarried
  <2>4. \A r \in Reasons : <<s, c, x>> \in lost'[r] <=>
           <<s, c, x>> \in lost[r] \/ (r = "failed" /\ Carried(work, s, c, x))
    <3>1. <<s, c, x>> \in V <=> Carried(work, s, c, x)  BY <1>b
    <3> QED  BY ONLY <1>13, <3>1
  <2>5. given' = given /\ batchSeq' = batchSeq  BY <1>2
  <2>6. Carried(work, s, c, x) => x[1] <= batchSeq  BY <1>1, CarriedNumber
  <2> QED  BY <1>15, <2>1, <2>2, <2>3, <2>4, <2>5, <2>6, ValueTried
<1>17. Accounts'  BY <1>16 DEF Accounts
<1> QED  BY <1>12, <1>14, <1>17 DEF AccountInv

\* The first element of a column is x, and a later one is.
Leads(q, x) == q # <<>> /\ q[1] = x
Later(q, x) == \E i \in DOMAIN q : i # 1 /\ q[i] = x

\* What column r has of x when it is q with v appended.
Longer(r, q, v, x) ==
  /\ Leads(r, x) \/ Later(r, x) <=> Leads(q, x) \/ Later(q, x) \/ x = v
  /\ x # v => (Leads(r, x) <=> Leads(q, x)) /\ (Later(r, x) <=> Later(q, x))
  /\ ~Leads(q, x) /\ ~Later(q, x) => ~(Leads(r, x) /\ Later(r, x))

\* Where a column holds x after an element was appended.
LEMMA LongerColumn ==
  ASSUME NEW S, NEW q \in Seq(S), NEW v \in S, NEW r, r = Append(q, v), NEW x
  PROVE  Longer(r, q, v, x)
<1> DEFINE n == Len(q)
<1>1. n \in Nat /\ DOMAIN q = 1 .. n /\ r \in Seq(S)  OBVIOUS
<1>2. Len(r) = n + 1 /\ r[n + 1] = v /\ \A i \in 1 .. n : r[i] = q[i]
  <2>1. /\ Len(r) = Len(q) + 1 /\ r[Len(q) + 1] = v
        /\ \A i \in 1 .. Len(q) : r[i] = q[i]
    BY OneMore
  <2> QED  BY <2>1
<1>3. DOMAIN r = (1 .. n) \cup {n + 1} /\ n + 1 \notin 1 .. n
  <2>1. DOMAIN r = 1 .. n + 1  BY <1>1, <1>2
  <2>2. n \in Nat  BY <1>1
  <2> HIDE DEF n
  <2>3. 1 .. n + 1 = (1 .. n) \cup {n + 1} /\ n + 1 \notin 1 .. n  BY <2>2, OneLonger
  <2> QED  BY <2>1, <2>3
<1>4. (q = <<>> <=> n = 0) /\ r # <<>>
  <2>1. q = <<>> <=> n = 0  OBVIOUS
  <2>2. r = <<>> => Len(r) = 0  OBVIOUS
  <2>3. n + 1 # 0  BY <1>1
  <2> QED  BY <1>2, <2>1, <2>2, <2>3
<1> HIDE DEF n
<1>5. Leads(q, x) <=> n # 0 /\ q[1] = x  BY <1>4 DEF Leads
<1>6. n # 0 => 1 \in 1 .. n /\ n + 1 # 1  BY <1>1
<1>7. Leads(r, x) <=> Leads(q, x) \/ (n = 0 /\ x = v)
  <2>1. Leads(r, x) <=> r[1] = x  BY <1>4 DEF Leads
  <2>2. CASE n = 0
    <3>1. r[1] = v  BY <1>2, <2>2
    <3> QED  BY <1>5, <2>1, <2>2, <3>1
  <2>3. CASE n # 0
    <3>1. r[1] = q[1]  BY <1>2, <1>6, <2>3
    <3> QED  BY <1>5, <2>1, <2>3, <3>1
  <2> QED  BY <2>2, <2>3
<1>8. Later(r, x) <=> Later(q, x) \/ (n # 0 /\ x = v)
  <2>1. ASSUME Later(q, x) PROVE Later(r, x)
    <3>1. PICK i \in 1 .. n : i # 1 /\ q[i] = x  BY <1>1, <2>1 DEF Later
    <3> QED  BY <1>2, <1>3, <3>1 DEF Later
  <2>2. ASSUME n # 0, x = v PROVE Later(r, x)
    BY <1>2, <1>3, <1>6, <2>2 DEF Later
  <2>3. ASSUME Later(r, x) PROVE Later(q, x) \/ (n # 0 /\ x = v)
    <3>1. PICK i \in DOMAIN r : i # 1 /\ r[i] = x  BY <2>3 DEF Later
    <3>2. CASE i \in 1 .. n  BY <1>1, <1>2, <3>1, <3>2 DEF Later
    <3>3. CASE i = n + 1
      <4>1. n # 0  BY <3>1, <3>3
      <4> QED  BY <1>2, <3>1, <3>3, <4>1
    <3> QED  BY <1>3, <3>2, <3>3
  <2> QED  BY <2>1, <2>2, <2>3
<1> HIDE DEF Leads, Later
<1> QED  BY <1>7, <1>8 DEF Longer

\* A frame the buffer took, whole or in part.
LEMMA AccountBuffered ==
  ASSUME AccountIInv, HDF5Next, Accumulate \/ AccumulateFails
  PROVE  AccountInv'
<1> DEFINE f == work.frames[1]
<1>1. /\ FileIInv /\ HDF5Types /\ WorkInv /\ TableFile /\ Ledger /\ Named(disk, fseq) /\ Accounts
  BY DEF AccountIInv, AccountInv, FileIInv
<1>2. /\ disk' = disk /\ file' = file /\ mode' = mode /\ phase' = phase /\ clock' = clock
      /\ batchSeq' = batchSeq /\ fseq' = fseq /\ given' = given
  BY DEF Accumulate, AccumulateFails
<1>3. /\ work \in Works /\ work # NoWork /\ work.source = "table" /\ f \in Frames
      /\ work.frames # <<>> /\ Len(work.frames) = 1 /\ work.seq \in Nat
  BY <1>1, AccumulateWhat DEF Works
<1>4. \A s, c, x : ~Carried(work', s, c, x)
  <2>1. CASE AccumulateFails
    <3>1. work' = NoWork  BY <2>1 DEF AccumulateFails, Fail
    <3> QED  BY <3>1, NoneCarried
  <2>2. CASE Accumulate
    <3>1. NextFrame  BY <2>2 DEF Accumulate
    <3>2. work'.frames = Tail(work.frames)  BY <1>1, <1>3, <3>1, NextTyped
    <3>3. Tail(work.frames) = <<>>
      <4>1. work.frames \in Seq(Frames) /\ Len(work.frames) <= 1  BY <1>3 DEF Works
      <4> QED  BY <1>3, <4>1, OneOf
    <3> QED  BY <3>2, <3>3, TwoFrames DEF Carried
  <2> QED  BY <2>1, <2>2
<1>5. PICK cols \in SUBSET Accepted(f.cols), reason \in {"unknown", "failed"} :
        /\ buf' = Accumulated(f, cols)
        /\ Lose(reason, FrameValues(work, <<Frame(f.row, f.cols \ cols)>>))
        /\ faults' = IF reason = "failed" THEN faults + 1 ELSE faults
  <2>1. CASE Accumulate
    <3>1. /\ buf' = Accumulated(f, Accepted(f.cols)) /\ faults' = faults
          /\ Lose("unknown", FrameValues(work, <<Frame(f.row, f.cols \ Accepted(f.cols))>>))
      BY <2>1 DEF Accumulate
    <3> DEFINE cols == Accepted(f.cols)
    <3>2. /\ cols \in SUBSET Accepted(f.cols) /\ buf' = Accumulated(f, cols)
          /\ Lose("unknown", FrameValues(work, <<Frame(f.row, f.cols \ cols)>>))
      BY <3>1
    <3> HIDE DEF cols
    <3> QED  BY <3>1, <3>2
  <2>2. CASE AccumulateFails
    <3>1. PICK cols \in SUBSET Accepted(f.cols) :
            /\ buf' = Accumulated(f, cols)
            /\ Lose("failed", FrameValues(work, <<Frame(f.row, f.cols \ cols)>>))
      BY <2>2 DEF AccumulateFails
    <3>2. faults' = faults + 1  BY <2>2 DEF AccumulateFails, Fail
    <3> QED  BY <3>1, <3>2
  <2> QED  BY <2>1, <2>2
<1>6. Takes(buf', f, cols)  BY <1>1, <1>3, <1>5, AccumulatedBuffer
<1> DEFINE v == <<work.seq, f.row>>
           V == FrameValues(work, <<Frame(f.row, f.cols \ cols)>>)
<1>7. v \in Nat \X Nat /\ f.cols \in SUBSET Columns /\ cols \subseteq f.cols
  BY <1>3 DEF Frames, Accepted
<1>8. \A s, c, x : Carried(work, s, c, x) <=> s = "table" /\ c \in f.cols /\ x = v
  <2>1. work.frames = <<f>>
    <3>1. work.frames \in Seq(Frames)  BY <1>3 DEF Works
    <3> QED  BY <1>3, <3>1
  <2>2. \A s, c, x : Brought(work, <<f>>, s, c, x) <=> s = work.source /\ c \in f.cols /\ x = v
    BY OneFrame
  <2>3. \A s, c, x : Brought(work, work.frames, s, c, x) <=> Brought(work, <<f>>, s, c, x)
    BY <2>1
  <2> HIDE DEF f, v
  <2> QED  BY <1>3, <2>2, <2>3 DEF Carried
<1>9. \A s, c, x : <<s, c, x>> \in V <=> s = "table" /\ c \in f.cols \ cols /\ x = v
  <2>1. \A s, c, x : <<s, c, x>> \in V <=> Brought(work, <<Frame(f.row, f.cols \ cols)>>, s, c, x)
    BY FrameValuesAre
  <2>2. \A s, c, x : Brought(work, <<Frame(f.row, f.cols \ cols)>>, s, c, x) <=>
                       s = work.source /\ c \in f.cols \ cols /\ x = v
    BY OneFrame DEF Frame
  <2> QED  BY <1>3, <2>1, <2>2
<1>10. /\ lost' = [r \in Reasons |-> lost'[r]] /\ reason \in Reasons
       /\ \A r \in Reasons : lost'[r] = IF r = reason THEN lost[r] \cup V ELSE lost[r]
       /\ {"overwritten", "failed", "skipped"} \subseteq Reasons
  <2>1. reason \in Reasons /\ Lose(reason, V)  BY <1>5 DEF Reasons
  <2> HIDE DEF V
  <2> QED  BY <1>1, <2>1, LoseWhat DEF Ledger, Reasons
<1>11. TableFile'  BY <1>1, <1>2, TableFileKept
<1>12. Named(disk, fseq)'  BY <1>1, <1>2 DEF Named
<1> HIDE DEF V
<1>13. Ledger'
  <2>1. mode' = "merge" => lost'["overwritten"] = {}  BY <1>1, <1>2, <1>10 DEF Ledger
  <2>2. faults' = 0 => faults = 0 /\ reason # "failed"  BY <1>1, <1>5 DEF HDF5Types
  <2>3. faults' = 0 => lost'["failed"] = {} /\ lost'["skipped"] = {}
    BY <1>1, <1>10, <2>2 DEF Ledger
  <2> QED  BY <1>1, <1>2, <1>10, <2>1, <2>3 DEF Ledger
<1> HIDE DEF v, f
<1>14. ASSUME NEW s \in SourceNames, NEW c \in Columns, NEW x \in Stamps
       PROVE  ValueInv(s, c, x)'
  <2> DEFINE New == s = "table" /\ c \in cols /\ x = v
             col == buf.col[c]
             next == buf'.col[c]
  <2>1. ValueInv(s, c, x)  BY <1>1 DEF Accounts
  <2>2. col \in Seq(Nat \X Nat)  BY <1>1 DEF HDF5Types, Buffers
  <2>3. next = IF c \in cols THEN Append(col, v) ELSE col  BY <1>6 DEF Takes, v
  <2>4. /\ Front(buf.col, s, c, x) <=> s = "table" /\ Leads(col, x)
        /\ Behind(buf.col, s, c, x) <=> s = "table" /\ Later(col, x)
        /\ Front(buf'.col, s, c, x) <=> s = "table" /\ Leads(next, x)
        /\ Behind(buf'.col, s, c, x) <=> s = "table" /\ Later(next, x)
    BY DEF Front, Behind, Leads, Later
  <2> HIDE DEF col, next
  <2>5. /\ Leads(next, x) \/ Later(next, x) <=> Leads(col, x) \/ Later(col, x) \/ (c \in cols /\ x = v)
        /\ ~(c \in cols /\ x = v) => (Leads(next, x) <=> Leads(col, x)) /\ (Later(next, x) <=> Later(col, x))
        /\ c \in cols /\ ~Leads(col, x) /\ ~Later(col, x) => ~(Leads(next, x) /\ Later(next, x))
    <3>1. CASE c \in cols
      <4>1. next = Append(col, v)  BY <2>3, <3>1
      <4>2. Longer(next, col, v, x)  BY <1>7, <2>2, <4>1, LongerColumn
      <4> QED  BY <3>1, <4>2 DEF Longer
    <3>2. CASE c \notin cols
      <4>1. next = col  BY <2>3, <3>2
      <4> QED  BY <3>2, <4>1
    <3> QED  BY <3>1, <3>2
  <2>6. New \in BOOLEAN  OBVIOUS
  <2>7. /\ Front(buf'.col, s, c, x) \/ Behind(buf'.col, s, c, x) <=>
             Front(buf.col, s, c, x) \/ Behind(buf.col, s, c, x) \/ New
        /\ ~New => (Front(buf'.col, s, c, x) <=> Front(buf.col, s, c, x))
        /\ ~New => (Behind(buf'.col, s, c, x) <=> Behind(buf.col, s, c, x))
        /\ New /\ ~Front(buf.col, s, c, x) /\ ~Behind(buf.col, s, c, x) =>
             ~(Front(buf'.col, s, c, x) /\ Behind(buf'.col, s, c, x))
    BY <2>4, <2>5
  <2>8. /\ New => Carried(work, s, c, x)
        /\ <<s, c, x>> \in V <=> Carried(work, s, c, x) /\ ~New
        /\ ~Carried(work', s, c, x)
    BY <1>4, <1>7, <1>8, <1>9
  <2>9. \A r \in Reasons : <<s, c, x>> \in lost'[r] <=>
           <<s, c, x>> \in lost[r] \/ (r = reason /\ Carried(work, s, c, x) /\ ~New)
    <3> HIDE DEF New
    <3> QED  BY ONLY <1>10, <2>8
  <2>10. Carried(work, s, c, x) => x[1] <= batchSeq  BY <1>1, CarriedNumber
  <2>11. reason \in Reasons  BY <1>10
  <2> HIDE DEF New
  <2> QED  BY <1>2, <2>1, <2>6, <2>7, <2>8, <2>9, <2>10, <2>11, ValueBuffered
<1>15. Accounts'  BY <1>14 DEF Accounts
<1> QED  BY <1>11, <1>12, <1>13, <1>15 DEF AccountInv

-----------------------------------------------------------------------------
(* The account is an invariant.                                             *)

\* Nothing is given, held or lost before the first batch (HDF5Init).
LEMMA AccountInit ==
  ASSUME HDF5Init
  PROVE  AccountIInv
<1>1. FileIInv  BY FilesInit
<1>2. /\ mode \in {"per_source", "merge"} /\ clock = 0 /\ phase = "new" /\ batchSeq = 0
      /\ work = NoWork /\ file = [k \in Keys |-> Closed] /\ disk = <<>>
      /\ buf = EmptyBuffer /\ given = {} /\ lost = [r \in Reasons |-> {}] /\ faults = 0
  BY DEF HDF5Init
<1>3. DOMAIN disk = {}
  <2>1. DOMAIN disk = 1 .. 0  BY <1>2
  <2>2. 1 .. 0 = {}  OBVIOUS
  <2> QED  BY <2>1, <2>2
<1>4. \A c \in Columns : buf.col[c] = <<>>  BY <1>2 DEF EmptyBuffer
<1>5. Named(disk, fseq)
  <2>1. IsFiniteSet(DOMAIN disk)  BY <1>3, FS_EmptySet
  <2> QED  BY <1>3, <2>1 DEF Named
<1>6. TableFile
  <2>1. ~file["table"].open  BY <1>2 DEF Keys, SourceNames, Closed
  <2> QED  BY <1>3, <2>1 DEF TableFile
<1>7. Ledger
  <2>1. \A r \in Reasons : lost[r] = {}  BY <1>2
  <2>2. lost = [r \in Reasons |-> lost[r]]  BY <1>2, <2>1
  <2>3. given \subseteq SourceNames \X Columns \X Stamps  BY <1>2
  <2> QED  BY <2>1, <2>2, <2>3 DEF Ledger, Reasons
<1>8. ASSUME NEW s \in SourceNames, NEW c \in Columns, NEW x \in Stamps
      PROVE  ValueInv(s, c, x)
  <2>1. ~OnDisk(disk, s, c, x) /\ Single(disk, s, c, x)  BY <1>3 DEF OnDisk, Single
  <2>2. ~Front(buf.col, s, c, x) /\ ~Behind(buf.col, s, c, x)
    BY <1>4, <1>8 DEF Front, Behind
  <2>3. ~Carried(work, s, c, x)  BY <1>2 DEF Carried
  <2>4. \A r \in Reasons : <<s, c, x>> \notin lost[r]  BY <1>2
  <2>5. ~Gone(lost, s, c, x)  BY <2>4 DEF Gone
  <2> QED  BY <1>2, <2>1, <2>2, <2>3, <2>4, <2>5 DEF ValueInv
<1> QED  BY <1>1, <1>5, <1>6, <1>7, <1>8 DEF AccountIInv, AccountInv, Accounts

\* Every step of the writer keeps the account.
LEMMA AccountStep ==
  ASSUME AccountIInv, [HDF5Next]_hdf5Vars
  PROVE  AccountIInv'
<1>1. FileIInv'  BY FilesStep DEF AccountIInv
<1>2. CASE HDF5Next
  <2>1. CASE (Start /\ mode = "merge") \/ (\E k \in Keys : CloseOne(k)) \/ PoolOpen \/ PoolRotate
             \/ PoolOpenFails \/ MergeClose \/ MergeOpen
    <3>1. AccountInv'  BY <1>2, <2>1, AccountMoves
    <3> QED  BY <1>1, <3>1 DEF AccountIInv
  <2>2. CASE (Start /\ mode # "merge") \/ DoStop \/ OnHDF5Stop \/ FlushTest \/ FlushUse \/ Tick
             \/ BatchDone \/ AcquireFile \/ EndOfGroup \/ (FlushTabular /\ buf.known = {})
    <3>1. AccountInv'  BY <1>2, <2>2, AccountStill
    <3> QED  BY <1>1, <3>1 DEF AccountIInv
  <2>3. CASE MergeOpenFails \/ SkipWithoutFile
    <3>1. AccountInv'  BY <1>2, <2>3, AccountGivenUp
    <3> QED  BY <1>1, <3>1 DEF AccountIInv
  <2>4. CASE Take
    <3>1. AccountInv'  BY <1>2, <2>4, AccountTaken
    <3> QED  BY <1>1, <3>1 DEF AccountIInv
  <2>5. CASE AppendFrame \/ AppendFails
    <3>1. AccountInv'  BY <1>2, <2>5, AccountAppended, AccountAppendFails
    <3> QED  BY <1>1, <3>1 DEF AccountIInv
  <2>6. CASE (FlushTabular /\ buf.known # {}) \/ FlushTabularFails
    <3>1. AccountInv'  BY <1>2, <2>6, AccountFlushed, AccountFlushFails
    <3> QED  BY <1>1, <3>1 DEF AccountIInv
  <2>7. CASE Accumulate \/ AccumulateFails
    <3>1. AccountInv'  BY <1>2, <2>7, AccountBuffered
    <3> QED  BY <1>1, <3>1 DEF AccountIInv
  <2> QED  BY <1>2, <2>1, <2>2, <2>3, <2>4, <2>5, <2>6, <2>7 DEF HDF5Next
<1>3. CASE UNCHANGED hdf5Vars
  <2>1. /\ mode' = mode /\ phase' = phase /\ clock' = clock /\ batchSeq' = batchSeq
        /\ work' = work /\ file' = file /\ disk' = disk /\ buf' = buf /\ fseq' = fseq
        /\ faults' = faults /\ given' = given /\ lost' = lost
    BY <1>3 DEF hdf5Vars
  <2>2. Named(disk, fseq)'  BY <2>1 DEF AccountIInv, AccountInv, Named
  <2>3. TableFile'  BY <2>1 DEF AccountIInv, AccountInv, TableFile, PathOf, TempPath
  <2>4. Ledger'  BY <2>1 DEF AccountIInv, AccountInv, Ledger
  <2>5. ASSUME NEW s \in SourceNames, NEW c \in Columns, NEW x \in Stamps
        PROVE  ValueInv(s, c, x)'
    <3>1. ValueInv(s, c, x)  BY <2>5 DEF AccountIInv, AccountInv, Accounts
    <3> QED  BY <2>1, <3>1 DEF ValueInv
  <2> QED  BY <1>1, <2>2, <2>3, <2>4, <2>5 DEF AccountIInv, AccountInv, Accounts
<1> QED  BY <1>2, <1>3

\* The places of a value are finitely many, and a place is a cell that holds it.
LEMMA PlacesAre ==
  ASSUME HDF5Types, IsFiniteSet(DOMAIN disk), NEW s \in SourceNames, NEW c \in Columns, NEW x
  PROVE  LET v == <<s, c, x>>
         IN /\ IsFiniteSet(Places(v))
            /\ \A p \in DOMAIN disk : \A i \in DOMAIN disk[p][s].col[c] :
                 disk[p][s].col[c][i] = x => <<p, i>> \in Places(v)
            /\ \A pi \in Places(v) : \E p \in DOMAIN disk : \E i \in DOMAIN disk[p][s].col[c] :
                 pi = <<p, i>> /\ disk[p][s].col[c][i] = x
<1> DEFINE v == <<s, c, x>>
           T == {PlacesIn(p, v) : p \in DOMAIN disk}
           J(p) == {j \in DOMAIN disk[p][s].col[c] : disk[p][s].col[c][j] = x}
<1>1. \A p : PlacesIn(p, v) = {<<p, i>> : i \in J(p)}  BY DEF PlacesIn
<1>2. Places(v) = UNION T  BY DEF Places
<1>3. ASSUME NEW p \in DOMAIN disk PROVE IsFiniteSet(PlacesIn(p, v))
  <2>1. disk[p][s].col[c] \in Seq(Nat \X Nat)
    <3>1. disk[p] \in Contents  BY DEF HDF5Types
    <3>2. disk[p][s] \in Groups  BY <3>1 DEF Contents
    <3> QED  BY <3>2 DEF Groups
  <2> DEFINE q == disk[p][s].col[c]
             K == J(p)
             f == [i \in K |-> <<p, i>>]
             I == {<<p, i>> : i \in K}
  <2>2. DOMAIN q = 1 .. Len(q) /\ Len(q) \in Nat  BY <2>1
  <2>3. IsFiniteSet(1 .. Len(q))  BY <2>2, FS_Interval
  <2>4. K \in SUBSET (1 .. Len(q))  BY <2>2
  <2>5. IsFiniteSet(K)
    <3> HIDE DEF q, K
    <3> QED  BY <2>3, <2>4, FS_Subset
  <2> HIDE DEF K
  <2>6. f \in Surjection(K, I)  BY DEF Surjection
  <2>7. PlacesIn(p, v) = I  BY <1>1 DEF K
  <2> HIDE DEF f, I
  <2>8. IsFiniteSet(I)  BY <2>5, <2>6, FS_Surjection
  <2> QED  BY <2>7, <2>8
<1>4. IsFiniteSet(Places(v))
  <2> DEFINE D == DOMAIN disk
             f == [p \in D |-> PlacesIn(p, v)]
  <2>1. f \in Surjection(D, T)  BY DEF Surjection
  <2>2. \A t \in T : IsFiniteSet(t)  BY <1>3
  <2>3. IsFiniteSet(D)  OBVIOUS
  <2> HIDE DEF D, f, T
  <2>4. IsFiniteSet(T)  BY <2>1, <2>3, FS_Surjection
  <2>5. IsFiniteSet(UNION T)  BY <2>2, <2>4, FS_UNION
  <2> QED  BY <1>2, <2>5
<1>5. ASSUME NEW p \in DOMAIN disk, NEW i \in DOMAIN disk[p][s].col[c],
             disk[p][s].col[c][i] = x
      PROVE  <<p, i>> \in Places(v)
  <2>1. i \in J(p)  BY <1>5
  <2>2. <<p, i>> \in PlacesIn(p, v)  BY <1>1, <2>1
  <2>3. PlacesIn(p, v) \in T  OBVIOUS
  <2> HIDE DEF T
  <2> QED  BY <1>2, <2>2, <2>3
<1>6. ASSUME NEW pi \in Places(v)
      PROVE  \E p \in DOMAIN disk : \E i \in DOMAIN disk[p][s].col[c] :
               pi = <<p, i>> /\ disk[p][s].col[c][i] = x
  <2>1. PICK p \in DOMAIN disk : pi \in PlacesIn(p, v)  BY <1>2
  <2>2. PICK i \in J(p) : pi = <<p, i>>  BY <1>1, <2>1
  <2> QED  BY <2>2
<1> QED  BY <1>4, <1>5, <1>6

\* A finite set with an element has a positive size, and one of several elements
\* has two that differ.
LEMMA Sizes ==
  ASSUME NEW S, IsFiniteSet(S)
  PROVE  /\ Cardinality(S) \in Nat
         /\ S = {} => Cardinality(S) = 0
         /\ S # {} => Cardinality(S) >= 1
         /\ Cardinality(S) > 1 => \E a, b \in S : a # b
<1>1. Cardinality(S) \in Nat  BY FS_CardinalityType
<1>2. Cardinality(S) = 0 <=> S = {}  BY FS_EmptySet
<1>3. ASSUME Cardinality(S) > 1, ~\E a, b \in S : a # b PROVE FALSE
  <2>1. PICK a \in S : TRUE  BY <1>1, <1>2, <1>3
  <2>2. S = {a}  BY <1>3, <2>1
  <2>3. Cardinality({a}) = 1  BY FS_Singleton
  <2> QED  BY <1>3, <2>2, <2>3
<1> QED  BY <1>1, <1>2, <1>3

\* A value is lost for one reason at most.
LEMMA OneReason ==
  ASSUME NEW v, \A r, q \in Reasons : v \in lost[r] /\ v \in lost[q] => r = q
  PROVE  LET R == {r \in Reasons : v \in lost[r]}
         IN Cardinality(R) = IF \E r \in Reasons : v \in lost[r] THEN 1 ELSE 0
<1> DEFINE R == {r \in Reasons : v \in lost[r]}
<1>1. CASE \E r \in Reasons : v \in lost[r]
  <2>1. PICK r \in Reasons : v \in lost[r]  BY <1>1
  <2>2. R = {r}  BY <2>1
  <2>3. Cardinality({r}) = 1  BY FS_Singleton
  <2> QED  BY <1>1, <2>2, <2>3
<1>2. CASE ~\E r \in Reasons : v \in lost[r]
  <2>1. R = {}  BY <1>2
  <2> QED  BY <1>2, <2>1, FS_EmptySet
<1> QED  BY <1>1, <1>2

\* The account implies the property.
LEMMA AccountImplied ==
  ASSUME AccountIInv
  PROVE  RowsAccounted
<1>1. HDF5Types /\ IsFiniteSet(DOMAIN disk) /\ Ledger /\ Accounts
  BY DEF AccountIInv, AccountInv, FileIInv, Named
<1>2. ASSUME NEW v \in given
      PROVE  LET sum == Cardinality(Places(v)) + Count(InBuffer(v)) + Count(InHand(v))
                        + Cardinality({r \in Reasons : v \in lost[r]})
             IN \/ sum = 1
                \/ sum > 1 /\ v[1] = "table" /\ \E pi \in Places(v) : disk[pi[1]]["table"].torn
  <2>1. PICK s \in SourceNames, c \in Columns, x \in Stamps : v = <<s, c, x>>
    BY <1>1 DEF Ledger
  <2> DEFINE P == Cardinality(Places(v))
             R == Cardinality({r \in Reasons : v \in lost[r]})
             D == OnDisk(disk, s, c, x)
             F == Front(buf.col, s, c, x)
             B == Behind(buf.col, s, c, x)
             H == Carried(work, s, c, x)
             G == Gone(lost, s, c, x)
             torn == v[1] = "table" /\ \E pi \in Places(v) : disk[pi[1]]["table"].torn
  <2>2. /\ D \/ F \/ B \/ H \/ G
        /\ D \/ F \/ B \/ G => ~H
        /\ G => ~D /\ ~F /\ ~B
        /\ \A r, q \in Reasons : v \in lost[r] /\ v \in lost[q] => r = q
        /\ Single(disk, s, c, x)
        /\ F => AllTorn(disk, s, c, x) /\ ~B
        /\ B => ~D
    <3>1. ValueInv(s, c, x)  BY <1>1 DEF Accounts
    <3> QED  BY <1>2, <2>1, <3>1 DEF ValueInv
  <2>3. /\ IsFiniteSet(Places(v))
        /\ \A p \in DOMAIN disk : \A i \in DOMAIN disk[p][s].col[c] :
             disk[p][s].col[c][i] = x => <<p, i>> \in Places(v)
        /\ \A pi \in Places(v) : \E p \in DOMAIN disk : \E i \in DOMAIN disk[p][s].col[c] :
             pi = <<p, i>> /\ disk[p][s].col[c][i] = x
    BY <1>1, <2>1, PlacesAre
  <2>4. D <=> Places(v) # {}
    <3>1. ASSUME D PROVE Places(v) # {}
      <4>1. PICK p \in DOMAIN disk : Holds(disk[p][s].col[c], x)  BY <3>1 DEF OnDisk
      <4>2. PICK i \in DOMAIN disk[p][s].col[c] : disk[p][s].col[c][i] = x  BY <4>1 DEF Holds
      <4> QED  BY <2>3, <4>2
    <3>2. ASSUME Places(v) # {} PROVE D
      <4>1. PICK pi \in Places(v) : TRUE  BY <3>2
      <4> QED  BY <2>3, <4>1 DEF OnDisk, Holds
    <3> QED  BY <3>1, <3>2
  <2>5. F /\ D => torn
    <3>1. SUFFICES ASSUME F, D PROVE torn  OBVIOUS
    <3>2. PICK pi \in Places(v) : TRUE  BY <2>4, <3>1
    <3>3. PICK p \in DOMAIN disk : \E i \in DOMAIN disk[p][s].col[c] :
                 pi = <<p, i>> /\ disk[p][s].col[c][i] = x
      BY <2>3, <3>2
    <3>4. disk[p][s].torn /\ pi[1] = p
      <4>1. Holds(disk[p][s].col[c], x) /\ pi[1] = p  BY <3>3 DEF Holds
      <4> QED  BY <2>2, <3>1, <4>1 DEF AllTorn
    <3>5. s = "table"  BY <3>1 DEF Front
    <3> QED  BY <2>1, <3>2, <3>4, <3>5
  <2>6. P > 1 => torn
    <3>1. SUFFICES ASSUME P > 1 PROVE torn  OBVIOUS
    <3>2. PICK a, b \in Places(v) : a # b  BY <2>3, <3>1, Sizes
    <3>3. PICK p \in DOMAIN disk : \E i \in DOMAIN disk[p][s].col[c] :
                 a = <<p, i>> /\ disk[p][s].col[c][i] = x
      BY <2>3, <3>2
    <3>4. PICK q \in DOMAIN disk : \E j \in DOMAIN disk[q][s].col[c] :
                 b = <<q, j>> /\ disk[q][s].col[c][j] = x
      BY <2>3, <3>2
    <3>5. s = "table" /\ (disk[p][s].torn \/ disk[q][s].torn)
      BY <2>2, <3>2, <3>3, <3>4 DEF Single
    <3>6. a[1] = p /\ b[1] = q  BY <3>3, <3>4
    <3> QED  BY <2>1, <3>2, <3>5, <3>6
  <2>7. P \in Nat /\ (D => P >= 1) /\ (~D => P = 0)
    BY <2>3, <2>4, Sizes
  <2>8. R = IF G THEN 1 ELSE 0
    <3>1. G <=> \E r \in Reasons : v \in lost[r]  BY <2>1 DEF Gone
    <3> QED  BY <2>2, <3>1, OneReason
  <2>9. InBuffer(v) <=> F \/ B
    <3>1. CASE s = "table"
      <4> DEFINE q == buf.col[c]
      <4>1. q \in Seq(Nat \X Nat)  BY <1>1 DEF HDF5Types, Buffers
      <4>2. DOMAIN q = 1 .. Len(q) /\ Len(q) \in Nat  BY <4>1
      <4>3. q # <<>> <=> 1 \in DOMAIN q  BY <4>1, <4>2
      <4>4. InBuffer(v) <=> \E i \in DOMAIN q : q[i] = x  BY <2>1, <3>1 DEF InBuffer
      <4>5. F <=> q # <<>> /\ q[1] = x  BY <3>1 DEF Front
      <4>6. B <=> \E i \in DOMAIN q : i # 1 /\ q[i] = x  BY <3>1 DEF Behind
      <4> HIDE DEF q, F, B
      <4> QED  BY <4>3, <4>4, <4>5, <4>6
    <3>2. CASE s # "table"
      BY <2>1, <3>2 DEF InBuffer, Front, Behind
    <3> QED  BY <3>1, <3>2
  <2>10. InHand(v) <=> H
    BY <2>1, FrameValuesAre DEF InHand, Carried
  <2>11. /\ Count(InBuffer(v)) = IF F \/ B THEN 1 ELSE 0
         /\ Count(InHand(v)) = IF H THEN 1 ELSE 0
    BY <2>9, <2>10 DEF Count
  <2> HIDE DEF P, R, D, F, B, H, G, torn
  <2>12. \/ P + Count(InBuffer(v)) + Count(InHand(v)) + R = 1
         \/ P + Count(InBuffer(v)) + Count(InHand(v)) + R > 1 /\ torn
    BY <2>2, <2>5, <2>6, <2>7, <2>8, <2>11
  <2> QED  BY <2>12 DEF P, R, torn
<1>3. /\ mode = "merge" => lost["overwritten"] = {}
      /\ faults = 0 => lost["failed"] = {} /\ lost["skipped"] = {}
  BY <1>1 DEF Ledger
<1> QED  BY <1>2, <1>3 DEF RowsAccounted

\* Every value the worker of an HDF5 writer took is in one place, however its
\* files are rotated, renamed or fail: the batch in hand, the buffer, one cell of
\* one file or one named loss, besides which only a torn tabular group may hold it
\* (processItem, acquire, rotateMergeFile, flushTabularBuffer).
THEOREM RowsAreAccounted == HDF5Spec => []RowsAccounted
<1>1. HDF5Init => AccountIInv  BY AccountInit
<1>2. AccountIInv /\ [HDF5Next]_hdf5Vars => AccountIInv'  BY AccountStep
<1>3. AccountIInv => RowsAccounted  BY AccountImplied
<1> QED  BY <1>1, <1>2, <1>3, PTL DEF HDF5Spec
=============================================================================
