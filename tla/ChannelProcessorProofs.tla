----------------------- MODULE ChannelProcessorProofs -----------------------
(***************************************************************************)
(* ChannelProcessor: stop() waits for every task, all-updated fires        *)
(* exactly when it should, and the slots hold the newest samples, for any  *)
(* sources, configurations, batches and queue lengths.                     *)
(*                                                                         *)
(* pending_tasks_ is the number of waiting tasks plus the one at work.     *)
(* fresh_ is the set of sources with something newer than the algorithm    *)
(* last fired with, because the batches of a source are ingested in the    *)
(* order of their samples.  What ingest() leaves in a slot is a fold over  *)
(* the frames of a batch; that it is the newest follows by induction over  *)
(* the frames, and from batches that follow one another without a gap.     *)
(***************************************************************************)
EXTENDS ChannelProcessor, FiniteSetTheorems, WellFoundedInduction, TLAPS

Frames == [samples : Seq(Nat), shape : Shapes]
Tasks  == [source : Sources, frames : Seq(Frames)]

\* The last sample of a batch.
End(t) == Last(Last(t.frames).samples)

\* The task at work.
AtWork == IF tpc \in {"compute", "push", "finish"} THEN 1 ELSE 0

\* The buffer has not been cleared by stop().
Live == spc \in {"none", "test", "blocking", "asleep", "clear"}

\* No source is configured twice.
DistinctSources ==
  \A c \in Configs : \A i, j \in DOMAIN c.required : c.required[i] = c.required[j] => i = j

Types ==
  /\ config \in Configs
  /\ tasks \in Seq(Tasks)
  /\ tpc \in {"idle", "compute", "push", "finish", "notify"}
  /\ sent \in [Sources -> Nat] /\ taken \in [Sources -> Nat] /\ fired \in [Sources -> Nat]
  /\ fresh \subseteq Sources /\ seen \subseteq Sources

\* pending_tasks_ counts the tasks that wait and the one at work.
CountInv == pending = Len(tasks) + AtWork

\* stop() lets go at zero, and nothing is pushed any more.
StopInv ==
  /\ spc \in {"clear", "stopped", "destroyed"} => pending = 0
  /\ running => spc = "none"

\* The batches of a source wait in the order of their samples, all newer than
\* what the buffer has taken in.
OrderInv ==
  /\ \A i \in DOMAIN tasks :
       /\ End(tasks[i]) \in Nat
       /\ taken[tasks[i].source] < End(tasks[i])
       /\ End(tasks[i]) <= sent[tasks[i].source]
  /\ \A i, j \in DOMAIN tasks :
       tasks[i].source = tasks[j].source /\ i < j => End(tasks[i]) < End(tasks[j])
  /\ \A s \in Sources : taken[s] <= sent[s]

\* fresh_ is what has come since the algorithm fired.
FreshInv ==
  Live => /\ fresh \subseteq Needed
          /\ \A s \in fresh : fired[s] < taken[s]
          /\ \A s \in Sources \ fresh : fired[s] = taken[s]

\* all-updated waits for some source.
WaitInv ==
  Live /\ config.trigger = "all-updated" /\ Needed # {} => fresh # Needed

\* The sources all-updated waits for, once the given ones have been seen.
NeededBy(seenNow) == IF config.required # <<>> THEN ToSet(config.required) ELSE seenNow

IInv == Types /\ CountInv /\ StopInv /\ OrderInv /\ FreshInv /\ AllUpdatedIsFresh

-----------------------------------------------------------------------------
(* The trigger.                                                             *)

\* The fields of a configuration.
LEMMA ConfigTypes ==
  ASSUME config \in Configs
  PROVE  config.required \in Seq(Sources) /\ config.trigger \in Triggers
  BY ProcessorAssumption

\* A list names no more sources than it is long, and as many if no source is
\* named twice.
LEMMA ListCardinality ==
  ASSUME NEW r \in Seq(Sources)
  PROVE  /\ ToSet(r) \subseteq Sources
         /\ IsFiniteSet(ToSet(r))
         /\ Cardinality(ToSet(r)) \in Nat
         /\ Cardinality(ToSet(r)) <= Len(r)
         /\ (\A i, j \in DOMAIN r : r[i] = r[j] => i = j) => Cardinality(ToSet(r)) = Len(r)
<1>1. ToSet(r) \subseteq Sources
  BY DEF ToSet
<1>2. r \in Surjection(1 .. Len(r), ToSet(r))
  BY DEF Surjection, ToSet
<1>3. IsFiniteSet(1 .. Len(r)) /\ Cardinality(1 .. Len(r)) = Len(r)
  <2>1. Len(r) \in Nat
    OBVIOUS
  <2>2. QED
    BY <2>1, FS_Interval, SMTT(30)
<1>4. /\ IsFiniteSet(ToSet(r))
      /\ Cardinality(ToSet(r)) <= Cardinality(1 .. Len(r))
      /\ r \in Injection(1 .. Len(r), ToSet(r)) => Cardinality(ToSet(r)) = Cardinality(1 .. Len(r))
  BY <1>2, <1>3, FS_Surjection
<1>5. (\A i, j \in DOMAIN r : r[i] = r[j] => i = j) => r \in Injection(1 .. Len(r), ToSet(r))
  BY <1>2 DEF Surjection, Injection, IsInjective
<1>6. Cardinality(ToSet(r)) \in Nat
  BY <1>4, FS_CardinalityType
<1>7. QED
  BY <1>1, <1>3, <1>4, <1>5, <1>6

\* The comparison of the numbers is one of the sets: all-updated fires only
\* when every source it waits for is fresh, and then it does, unless a source is
\* configured twice.
LEMMA FiresExactly ==
  ASSUME config \in Configs, config.trigger = "all-updated",
         NEW freshNow, NEW seenNow \in SUBSET Sources, freshNow \subseteq NeededBy(seenNow)
  PROVE  /\ Fires(freshNow, seenNow) => freshNow = NeededBy(seenNow)
         /\ DistinctSources /\ freshNow = NeededBy(seenNow) => Fires(freshNow, seenNow)
<1>1. config.required \in Seq(Sources)
  BY ConfigTypes
<1>2. CASE config.required # <<>>
  <2>1. PICK r \in Seq(Sources) : r = config.required
    BY <1>1
  <2>2. NeededBy(seenNow) = ToSet(r) /\ freshNow \subseteq ToSet(r)
    BY <1>2, <2>1 DEF NeededBy
  <2>3. Fires(freshNow, seenNow) <=> Cardinality(freshNow) = Len(r)
    BY <1>2, <2>1 DEF Fires
  <2>4. /\ IsFiniteSet(ToSet(r)) /\ Cardinality(ToSet(r)) \in Nat /\ Len(r) \in Nat
        /\ Cardinality(ToSet(r)) <= Len(r)
        /\ (\A i, j \in DOMAIN r : r[i] = r[j] => i = j) => Cardinality(ToSet(r)) = Len(r)
    BY ListCardinality
  <2>5. /\ IsFiniteSet(freshNow) /\ Cardinality(freshNow) <= Cardinality(ToSet(r))
        /\ Cardinality(ToSet(r)) = Cardinality(freshNow) => ToSet(r) = freshNow
    BY <2>2, <2>4, FS_Subset
  <2>6. Cardinality(freshNow) \in Nat
    BY <2>5, FS_CardinalityType
  <2>7. Fires(freshNow, seenNow) => freshNow = ToSet(r)
    BY <2>3, <2>4, <2>5, <2>6
  <2>8. DistinctSources /\ freshNow = ToSet(r) => Fires(freshNow, seenNow)
    BY <2>1, <2>3, <2>4 DEF DistinctSources
  <2>9. QED
    BY <2>2, <2>7, <2>8
<1>3. CASE config.required = <<>>
  <2>1. NeededBy(seenNow) = seenNow /\ freshNow \subseteq seenNow
    BY <1>3 DEF NeededBy
  <2>2. Fires(freshNow, seenNow) <=> Cardinality(freshNow) = Cardinality(seenNow)
    BY <1>3 DEF Fires
  <2>3. IsFiniteSet(Sources)
    BY ProcessorAssumption
  <2>4. IsFiniteSet(seenNow)
    BY <2>3, FS_Subset
  <2>5. Cardinality(seenNow) = Cardinality(freshNow) => seenNow = freshNow
    BY <2>1, <2>4, FS_Subset
  <2>6. QED
    BY <2>1, <2>2, <2>5
<1>4. QED
  BY <1>2, <1>3

-----------------------------------------------------------------------------
(* The slots of the buffer.                                                 *)

\* Every non-empty set of naturals has a least element.
LEMMA LeastNat ==
  ASSUME NEW T, T \subseteq Nat, T # {}
  PROVE  \E x \in T : \A y \in T : x <= y
<1>1. PICK R : R = OpToRel(<, Nat)
  OBVIOUS
<1>2. IsWellFoundedOn(R, Nat)
  BY <1>1, NatLessThanWellFounded
<1>3. PICK x \in T : \A y \in T : ~(<<y, x>> \in R)
  BY <1>2, WFMin
<1>4. \A y \in Nat : y < x => <<y, x>> \in R
  BY <1>1 DEF OpToRel
<1>5. \A y \in T : ~(y < x)
  BY <1>3, <1>4
<1>6. \A y \in T : x <= y
  BY <1>5
<1> QED
  BY <1>6

\* A set with 0 and with the successor of each of its naturals has all of them.
LEMMA SetInduction ==
  ASSUME NEW S, 0 \in S, \A n \in Nat : n \in S => n + 1 \in S
  PROVE  Nat \subseteq S
<1> SUFFICES ASSUME ~(Nat \subseteq S) PROVE FALSE
  OBVIOUS
<1>1. PICK T : T = Nat \ S
  OBVIOUS
<1>2. T \subseteq Nat /\ T # {}
  BY <1>1
<1>3. PICK x \in T : \A y \in T : x <= y
  BY <1>2, LeastNat
<1>4. x # 0 /\ x \in Nat /\ x \notin S
  BY <1>1
<1>5. x - 1 \in Nat /\ x - 1 \notin T
  BY <1>3, <1>4
<1> QED
  BY <1>1, <1>4, <1>5

\* The buffer's slots.
SlotType == [ts : Seq(Nat), vals : Seq(Nat), shape : Shapes \cup {NoShape}]

\* A slot within max_depth, with no more values than timestamps.
Sized(slot) ==
  /\ slot \in SlotType
  /\ Len(slot.vals) <= Len(slot.ts)
  /\ config.maxDepth > 0 => Len(slot.ts) <= config.maxDepth

\* How much accumulating keeps of m samples.
Depth(m) == IF config.maxDepth = 0 \/ m < config.maxDepth THEN m ELSE config.maxDepth

\* A slot that holds the newest of m samples, each value beside its timestamp.
Newest(slot, m) ==
  /\ Len(slot.ts) <= m
  /\ slot.ts = Run(m - Len(slot.ts) + 1, m)
  /\ slot.vals = slot.ts
  /\ ~config.latest => Len(slot.ts) = Depth(m)

\* Frames that carry the samples after a, one after the other, cut at the given places.
Cut(frames, a, cut) ==
  /\ cut \in [0 .. Len(frames) -> Nat] /\ cut[0] = a
  /\ \A k \in 1 .. Len(frames) : /\ cut[k - 1] < cut[k]
                                 /\ frames[k].samples = Run(cut[k - 1] + 1, cut[k])

\* A run is a sequence of numbers.
LEMMA RunType ==
  ASSUME NEW i \in Nat, NEW j \in Nat, i <= j + 1
  PROVE  /\ Run(i, j) \in Seq(Nat) /\ Len(Run(i, j)) = j - i + 1
         /\ \A k \in 1 .. j - i + 1 : Run(i, j)[k] = i + k - 1
<1>1. PICK m \in Nat : m = j - i + 1
  OBVIOUS
<1>2. PICK f : f = [k \in 1 .. m |-> i + k - 1]
  OBVIOUS
<1>3. f \in [1 .. m -> Nat]
  BY <1>2
<1>4. f \in Seq(Nat)
  BY <1>3
<1>5. Len(f) = m
  BY <1>3, <1>4
<1>6. Run(i, j) = f
  BY <1>1, <1>2 DEF Run
<1>7. \A k \in 1 .. m : f[k] = i + k - 1
  BY <1>2
<1> QED
  BY <1>1, <1>4, <1>5, <1>6, <1>7

\* Two sequences of the same length with the same elements are one.
LEMMA SameSeq ==
  ASSUME NEW s \in Seq(Nat), NEW t \in Seq(Nat), Len(s) = Len(t),
         \A k \in 1 .. Len(s) : s[k] = t[k]
  PROVE  s = t
  OBVIOUS

\* One sequence of numbers behind another.
LEMMA SeqJoin ==
  ASSUME NEW s \in Seq(Nat), NEW t \in Seq(Nat)
  PROVE  /\ s \o t \in Seq(Nat) /\ Len(s \o t) = Len(s) + Len(t)
         /\ Len(s) \in Nat /\ Len(t) \in Nat
         /\ \A k \in 1 .. Len(s) : (s \o t)[k] = s[k]
         /\ \A k \in Len(s) + 1 .. Len(s) + Len(t) : (s \o t)[k] = t[k - Len(s)]
  OBVIOUS

\* What is left of a sequence of numbers without its d oldest.
LEMMA SeqDrop ==
  ASSUME NEW s \in Seq(Nat), NEW d \in Nat, d <= Len(s)
  PROVE  /\ SubSeq(s, d + 1, Len(s)) \in Seq(Nat)
         /\ Len(SubSeq(s, d + 1, Len(s))) = Len(s) - d
         /\ \A k \in 1 .. Len(s) - d : SubSeq(s, d + 1, Len(s))[k] = s[k + d]
<1>1. PICK n \in Nat : n = Len(s)
  OBVIOUS
<1>2. \A i \in d + 1 .. n : s[i] \in Nat
  BY <1>1
<1>3. PICK t : t = SubSeq(s, d + 1, n)
  OBVIOUS
<1>4. t \in Seq(Nat) /\ Len(t) = n - d
  BY <1>1, <1>2, <1>3
<1>5. \A k \in 1 .. n - d : t[k] = s[k + d]
  BY <1>1, <1>3
<1> QED
  BY <1>1, <1>3, <1>4, <1>5

\* The samples up to a and those after it.
LEMMA RunJoin ==
  ASSUME NEW i \in Nat, NEW a \in Nat, NEW b \in Nat, i <= a + 1, a <= b
  PROVE  Run(i, a) \o Run(a + 1, b) = Run(i, b)
<1>1. PICK s \in Seq(Nat) : /\ s = Run(i, a) /\ Len(s) = a - i + 1
                            /\ \A k \in 1 .. a - i + 1 : s[k] = i + k - 1
  BY RunType
<1>2. PICK t \in Seq(Nat) : /\ t = Run(a + 1, b) /\ Len(t) = b - a
                            /\ \A k \in 1 .. b - a : t[k] = a + k
  <2>1. a + 1 \in Nat /\ a + 1 <= b + 1 /\ b - (a + 1) + 1 = b - a
    OBVIOUS
  <2>2. PICK t \in Seq(Nat) : /\ t = Run(a + 1, b) /\ Len(t) = b - (a + 1) + 1
                              /\ \A k \in 1 .. b - (a + 1) + 1 : t[k] = (a + 1) + k - 1
    BY <2>1, RunType
  <2>3. \A k \in 1 .. b - a : t[k] = a + k
    BY <2>1, <2>2
  <2> QED
    BY <2>1, <2>2, <2>3
<1>3. PICK u \in Seq(Nat) : /\ u = Run(i, b) /\ Len(u) = b - i + 1
                            /\ \A k \in 1 .. b - i + 1 : u[k] = i + k - 1
  <2>1. i <= b + 1
    OBVIOUS
  <2> QED
    BY <2>1, RunType
<1>4. /\ s \o t \in Seq(Nat) /\ Len(s \o t) = b - i + 1
      /\ \A k \in 1 .. a - i + 1 : (s \o t)[k] = s[k]
      /\ \A k \in a - i + 2 .. b - i + 1 : (s \o t)[k] = t[k - (a - i + 1)]
  <2>1. /\ s \o t \in Seq(Nat) /\ Len(s \o t) = Len(s) + Len(t)
        /\ \A k \in 1 .. Len(s) : (s \o t)[k] = s[k]
        /\ \A k \in Len(s) + 1 .. Len(s) + Len(t) : (s \o t)[k] = t[k - Len(s)]
    BY SeqJoin
  <2>2. /\ Len(s) = a - i + 1 /\ Len(s) + Len(t) = b - i + 1 /\ Len(s) + 1 = a - i + 2
    <3>1. \A x, y, z \in Nat : (y - x + 1) + (z - y) = z - x + 1 /\ (y - x + 1) + 1 = y - x + 2
      OBVIOUS
    <3>2. Len(s) = a - i + 1 /\ Len(t) = b - a
      BY <1>1, <1>2
    <3> QED
      BY <3>1, <3>2
  <2> QED
    BY <2>1, <2>2
<1>5. ASSUME NEW k \in 1 .. b - i + 1 PROVE (s \o t)[k] = i + k - 1
  <2>1. CASE k <= a - i + 1
    BY <1>1, <1>4, <2>1
  <2>2. CASE ~(k <= a - i + 1)
    <3>1. k - (a - i + 1) \in 1 .. b - a
      BY <2>2
    <3>2. (s \o t)[k] = t[k - (a - i + 1)]
      BY <1>4, <2>2
    <3>3. a + (k - (a - i + 1)) = i + k - 1
      OBVIOUS
    <3> QED
      BY <1>2, <3>1, <3>2, <3>3
  <2> QED
    BY <2>1, <2>2
<1>6. s \o t = u
  <2>1. PICK c \in Seq(Nat) : c = s \o t
    BY <1>4
  <2>2. Len(c) = Len(u) /\ \A k \in 1 .. Len(c) : c[k] = u[k]
    BY <1>3, <1>4, <1>5, <2>1
  <2> QED
    BY <2>1, <2>2, SameSeq
<1> QED
  BY <1>1, <1>2, <1>3, <1>6

\* The samples left when the d oldest are dropped.
LEMMA RunDrop ==
  ASSUME NEW i \in Nat, NEW j \in Nat, i <= j + 1, NEW d \in Nat, d <= j - i + 1
  PROVE  SubSeq(Run(i, j), d + 1, Len(Run(i, j))) = Run(i + d, j)
<1>1. PICK s \in Seq(Nat) : /\ s = Run(i, j) /\ Len(s) = j - i + 1
                            /\ \A k \in 1 .. j - i + 1 : s[k] = i + k - 1
  BY RunType
<1>2. PICK u \in Seq(Nat) : /\ u = Run(i + d, j) /\ Len(u) = j - (i + d) + 1
                            /\ \A k \in 1 .. j - (i + d) + 1 : u[k] = (i + d) + k - 1
  <2>1. i + d \in Nat /\ i + d <= j + 1
    OBVIOUS
  <2> QED
    BY <2>1, RunType
<1>3. PICK t : t = SubSeq(s, d + 1, Len(s))
  OBVIOUS
<1>a. /\ d <= Len(s) /\ Len(s) - d = j - (i + d) + 1
      /\ \A k \in 1 .. j - (i + d) + 1 : k + d \in 1 .. j - i + 1
  BY <1>1
<1>4. t \in Seq(Nat) /\ Len(t) = j - (i + d) + 1
  BY <1>3, <1>a, SeqDrop
<1>5. \A k \in 1 .. j - (i + d) + 1 : t[k] = s[k + d] /\ k + d \in 1 .. j - i + 1
  BY <1>3, <1>a, SeqDrop
<1>6. \A k \in 1 .. j - (i + d) + 1 : t[k] = u[k]
  BY <1>1, <1>2, <1>5
<1>7. t = u
  BY <1>2, <1>4, <1>6, SameSeq
<1> QED
  BY <1>1, <1>2, <1>3, <1>7

\* The fields of the configuration that the buffer reads.
LEMMA BufferConfig ==
  ASSUME config \in Configs
  PROVE  config.maxDepth \in Nat /\ config.latest \in BOOLEAN
  BY ProcessorAssumption

\* trimOldestSamples() brings a slot within max_depth.
LEMMA TrimSized ==
  ASSUME config \in Configs, NEW slot \in SlotType, Len(slot.vals) <= Len(slot.ts)
  PROVE  Sized(Trim(slot)) /\ Trim(slot).shape = slot.shape
<1>1. config.maxDepth \in Nat
  BY BufferConfig
<1>2. PICK m \in Nat : m = config.maxDepth
  BY <1>1
<1>3. /\ slot.ts \in Seq(Nat) /\ slot.vals \in Seq(Nat) /\ slot.shape \in Shapes \cup {NoShape}
      /\ Len(slot.ts) \in Nat /\ Len(slot.vals) \in Nat
  BY DEF SlotType
<1>4. PICK d \in Int : d = Len(slot.ts) - m
  <2>1. Len(slot.ts) - m \in Int
    BY <1>3
  <2> QED
    BY <2>1
<1>5. CASE m = 0 \/ d <= 0
  <2>1. Trim(slot) = slot
    BY <1>2, <1>4, <1>5 DEF Trim
  <2> QED
    BY <1>2, <1>3, <1>4, <1>5, <2>1 DEF Sized
<1>6. CASE ~(m = 0 \/ d <= 0) /\ Len(slot.vals) <= d
  <2>1. PICK r : r = [ts |-> <<>>, vals |-> <<>>, shape |-> slot.shape]
    OBVIOUS
  <2>2. Trim(slot) = r
    BY <1>2, <1>4, <1>6, <2>1 DEF Trim
  <2>3. r.ts = <<>> /\ r.vals = <<>> /\ r.shape = slot.shape /\ r \in SlotType
    BY <1>3, <2>1 DEF SlotType
  <2> QED
    BY <1>1, <2>2, <2>3 DEF Sized
<1>7. CASE ~(m = 0 \/ d <= 0) /\ ~(Len(slot.vals) <= d)
  <2>0. d \in Nat /\ d <= Len(slot.ts) /\ d <= Len(slot.vals)
    BY <1>3, <1>4, <1>7
  <2>1. PICK t : t = SubSeq(slot.ts, d + 1, Len(slot.ts))
    OBVIOUS
  <2>2. PICK v : v = SubSeq(slot.vals, d + 1, Len(slot.vals))
    OBVIOUS
  <2>3. t \in Seq(Nat) /\ Len(t) = Len(slot.ts) - d
    BY <1>3, <1>4, <1>7, <2>0, <2>1, SeqDrop
  <2>4. v \in Seq(Nat) /\ Len(v) = Len(slot.vals) - d
    BY <1>3, <1>4, <1>7, <2>0, <2>2, SeqDrop
  <2>5. PICK r : r = [ts |-> t, vals |-> v, shape |-> slot.shape]
    OBVIOUS
  <2>6. Trim(slot) = r
    BY <1>2, <1>4, <1>7, <2>1, <2>2, <2>5 DEF Trim
  <2>7. r.ts = t /\ r.vals = v /\ r.shape = slot.shape /\ r \in SlotType
    BY <1>3, <2>3, <2>4, <2>5 DEF SlotType
  <2>8. Len(v) <= Len(t) /\ Len(t) <= m
    BY <1>3, <1>4, <2>3, <2>4
  <2> QED
    BY <1>2, <2>6, <2>7, <2>8 DEF Sized
<1> QED
  BY <1>5, <1>6, <1>7

\* How many of the n samples of a slot trimOldestSamples() keeps.
Kept(n) == IF config.maxDepth = 0 \/ n <= config.maxDepth THEN n ELSE config.maxDepth

\* The newest n of m samples.
NewestRun(r, n, m) == n \in Nat /\ m \in Nat /\ n <= m /\ r = Run(m - n + 1, m)

\* trimOldestSamples() keeps the newest.
LEMMA TrimNewest ==
  ASSUME config \in Configs, NEW shape, NEW m, NEW n,
         NEW r, NewestRun(r, n, m),
         NEW slot, slot = Trim([ts |-> r, vals |-> r, shape |-> shape]),
         NEW kept, kept = Kept(n)
  PROVE  /\ slot.ts = Run(m - kept + 1, m) /\ Len(slot.ts) = kept /\ kept <= m
         /\ slot.vals = slot.ts /\ slot.shape = shape
<1> USE DEF Kept
<1>0. m \in Nat /\ n \in Nat /\ n <= m /\ r = Run(m - n + 1, m)
  BY DEF NewestRun
<1>1. PICK max \in Nat : max = config.maxDepth
  BY BufferConfig
<1>2. m - n + 1 \in Nat /\ m - n + 1 <= m + 1 /\ m - (m - n + 1) + 1 = n
  BY <1>0
<1>3. r \in Seq(Nat) /\ Len(r) = n
  BY <1>0, <1>2, RunType
<1>4. PICK before1 : before1 = [ts |-> r, vals |-> r, shape |-> shape]
  OBVIOUS
<1>5. before1.ts = r /\ before1.vals = r /\ before1.shape = shape
  BY <1>4
<1>6. CASE max = 0 \/ n <= max
  <2>1. Trim(before1) = before1
    BY <1>1, <1>3, <1>5, <1>6 DEF Trim
  <2> QED
    BY <1>0, <1>1, <1>3, <1>4, <1>5, <1>6, <2>1
<1>7. CASE ~(max = 0 \/ n <= max)
  <2>1. PICK d \in Nat : d = n - max /\ d > 0 /\ d <= n /\ ~(n <= d) /\ n - d = max
    BY <1>0, <1>7
  <2>2. PICK t : t = SubSeq(r, d + 1, Len(r))
    OBVIOUS
  <2>3. Trim(before1) = [ts |-> t, vals |-> t, shape |-> shape]
    <3>1. Len(before1.ts) - config.maxDepth = d /\ Len(before1.vals) = n
      BY <1>1, <1>3, <1>5, <2>1
    <3>2. ~(config.maxDepth = 0 \/ d <= 0) /\ ~(Len(before1.vals) <= d)
      BY <1>1, <1>7, <2>1, <3>1
    <3> QED
      BY <1>5, <2>2, <3>1, <3>2 DEF Trim
  <2>4. t = Run((m - n + 1) + d, m)
    <3>1. PICK i \in Nat : i = m - n + 1 /\ i <= m + 1 /\ d <= m - i + 1
      BY <1>0, <1>2, <2>1
    <3>2. SubSeq(Run(i, m), d + 1, Len(Run(i, m))) = Run(i + d, m)
      BY <1>0, <3>1, RunDrop
    <3>3. i + d = (m - n + 1) + d
      BY <3>1
    <3>4. t = SubSeq(Run(i, m), d + 1, Len(Run(i, m)))
      BY <1>0, <2>2, <3>1
    <3>5. t = Run(i + d, m)
      BY <3>2, <3>4
    <3> QED
      BY <3>3, <3>5
  <2>5. (m - n + 1) + d = m - max + 1 /\ max <= m
    BY <1>0, <1>7, <2>1
  <2>6. Len(t) = max
    BY <1>3, <2>1, <2>2
  <2>7. kept = max
    BY <1>1, <1>7
  <2>8. slot.ts = t /\ slot.vals = t /\ slot.shape = shape
    BY <1>4, <2>3
  <2> QED
    BY <2>4, <2>5, <2>6, <2>7, <2>8
<1> QED
  BY <1>6, <1>7

\* None of y, y + z and z is more than x + z.
LEMMA ShortOfSum ==
  ASSUME NEW x \in Nat, NEW y \in Nat, NEW z \in Nat, y <= x
  PROVE  y <= x + z /\ y + z <= x + z /\ z <= x + z
  OBVIOUS

\* A frame appended leaves the slot within max_depth, whatever its layout.
LEMMA AddSized ==
  ASSUME config \in Configs, NEW slot, Sized(slot), NEW frame \in Frames
  PROVE  Sized(AddFrame(slot, frame))
<1>1. /\ slot.ts \in Seq(Nat) /\ slot.vals \in Seq(Nat) /\ slot.shape \in Shapes \cup {NoShape}
      /\ Len(slot.vals) <= Len(slot.ts)
      /\ frame.samples \in Seq(Nat) /\ frame.shape \in Shapes
  BY DEF Sized, SlotType, Frames
<1>2. PICK fits : fits = (slot.shape = NoShape \/ slot.shape.columns = frame.shape.columns)
  OBVIOUS
<1>3. PICK v : v = IF ~fits THEN slot.vals
                         ELSE IF slot.shape = frame.shape THEN slot.vals \o frame.samples
                         ELSE frame.samples
  OBVIOUS
<1>4. PICK h : h = IF fits THEN frame.shape ELSE slot.shape
  OBVIOUS
<1>5. PICK t : t = slot.ts \o frame.samples
  OBVIOUS
<1>6. AddFrame(slot, frame) = Trim([ts |-> t, vals |-> v, shape |-> h])
  BY <1>2, <1>3, <1>4, <1>5 DEF AddFrame
<1>7. /\ t \in Seq(Nat) /\ Len(t) = Len(slot.ts) + Len(frame.samples)
      /\ Len(slot.ts) \in Nat /\ Len(frame.samples) \in Nat /\ Len(slot.vals) \in Nat
  BY <1>1, <1>5, SeqJoin
<1>a. slot.vals \o frame.samples \in Seq(Nat)
      /\ Len(slot.vals \o frame.samples) = Len(slot.vals) + Len(frame.samples)
  BY <1>1, SeqJoin
<1>8. /\ v \in Seq(Nat)
      /\ v = slot.vals \/ v = slot.vals \o frame.samples \/ v = frame.samples
  BY <1>1, <1>3, <1>a
<1>9. Len(v) <= Len(t)
  <2>0. PICK x, y, z \in Nat : x = Len(slot.ts) /\ y = Len(slot.vals) /\ z = Len(frame.samples)
    BY <1>7
  <2>d. y <= x /\ Len(t) = x + z /\ Len(slot.vals \o frame.samples) = y + z
    BY <1>1, <1>7, <1>a, <2>0
  <2>1. Len(v) \in {y, y + z, z}
    BY <1>8, <2>0, <2>d, Zenon
  <2> QED
    BY <2>0, <2>1, <2>d, ShortOfSum, Zenon
<1>10. h \in Shapes \cup {NoShape}
  BY <1>1, <1>4
<1>11. PICK r : r = [ts |-> t, vals |-> v, shape |-> h]
  OBVIOUS
<1>12. r \in SlotType /\ Len(r.vals) <= Len(r.ts)
  BY <1>7, <1>8, <1>9, <1>10, <1>11 DEF SlotType
<1> QED
  BY <1>6, <1>11, <1>12, TrimSized

\* The next frame of a source that keeps its layout leaves the newest in the slot.
LEMMA AddNewest ==
  ASSUME config \in Configs, ~config.latest, NEW slot, NEW frame, NEW a \in Nat, NEW b \in Nat,
         a < b, Newest(slot, a), frame.samples = Run(a + 1, b), frame.shape \in Shapes,
         slot.shape \in {NoShape, frame.shape}, slot.shape = NoShape => a = 0
  PROVE  Newest(AddFrame(slot, frame), b) /\ AddFrame(slot, frame).shape = frame.shape
<1>1. PICK n : n = Len(slot.ts)
  OBVIOUS
<1>2. PICK max \in Nat : max = config.maxDepth
  BY BufferConfig
<1>3. n = Depth(a) /\ n \in Nat /\ n <= a
  BY <1>1, <1>2 DEF Newest, Depth
<1>4. /\ slot.ts = Run(a - n + 1, a) /\ slot.vals = slot.ts
  BY <1>1 DEF Newest
<1>5. PICK k \in Nat : k = n + (b - a) /\ k <= b /\ b - k + 1 = a - n + 1
  BY <1>3
<1>6. PICK r : r = slot.ts \o frame.samples
  OBVIOUS
<1>7. r = Run(b - k + 1, b)
  <2>1. a - n + 1 \in Nat /\ a - n + 1 <= a + 1 /\ a <= b
    BY <1>3
  <2>2. Run(a - n + 1, a) \o Run(a + 1, b) = Run(a - n + 1, b)
    BY <2>1, RunJoin
  <2> QED
    BY <1>4, <1>5, <1>6, <2>2
<1>8. NoShape \notin Shapes /\ (slot.shape # NoShape => slot.shape = frame.shape)
  BY ProcessorAssumption DEF NoShape
<1>9. AddFrame(slot, frame) = Trim([ts |-> r, vals |-> r, shape |-> frame.shape])
  <2>1. CASE slot.shape = NoShape
    <3>1. a = 0 /\ n = 0 /\ slot.shape # frame.shape
      BY <1>3, <1>8, <2>1
    <3>2. frame.samples = r
      <4>1. 0 - 0 + 1 = 0 + 1
        OBVIOUS
      <4>2. b - k + 1 = a + 1
        BY <1>5, <3>1
      <4> QED
        BY <1>7, <4>2
    <3> QED
      BY <1>6, <2>1, <3>1, <3>2 DEF AddFrame
  <2>2. CASE slot.shape # NoShape
    <3>1. slot.shape = frame.shape
      BY <1>8, <2>2
    <3> QED
      BY <1>4, <1>6, <3>1 DEF AddFrame
  <2> QED
    BY <2>1, <2>2
<1>10. PICK kept : kept = Kept(k)
  OBVIOUS
<1>11. PICK new : new = AddFrame(slot, frame)
  OBVIOUS
<1>12. /\ new.ts = Run(b - kept + 1, b) /\ Len(new.ts) = kept /\ kept <= b
       /\ new.vals = new.ts /\ new.shape = frame.shape
  <2>2. PICK h : h = frame.shape
    OBVIOUS
  <2>3. new = Trim([ts |-> r, vals |-> r, shape |-> h])
    BY <1>9, <1>11, <2>2
  <2>4. NewestRun(r, k, b)
    BY <1>5, <1>7 DEF NewestRun
  <2>5. /\ new.ts = Run(b - kept + 1, b) /\ Len(new.ts) = kept /\ kept <= b
        /\ new.vals = new.ts /\ new.shape = h
    BY <1>10, <2>3, <2>4, TrimNewest
  <2> QED
    BY <2>2, <2>5
<1>13. kept = Depth(b)
  BY <1>2, <1>3, <1>5, <1>10 DEF Depth, Kept
<1> QED
  BY <1>11, <1>12, <1>13 DEF Newest

-----------------------------------------------------------------------------
(* ingest() of a batch, a fold over its frames.                            *)

\* The largest of 1 .. n and of its subsets.
LEMMA MaxUpTo ==
  ASSUME NEW n \in Nat, NEW s \in SUBSET (1 .. n + 1), n + 1 \in s
  PROVE  Max(s) = n + 1 /\ s \ {Max(s)} \in SUBSET (1 .. n)
<1>1. \E x \in s : \A y \in s : x >= y
  OBVIOUS
<1>2. Max(s) \in s /\ \A y \in s : Max(s) >= y
  BY <1>1 DEF Max
<1>3. Max(s) = n + 1
  <2>1. PICK x : x = Max(s)
    OBVIOUS
  <2>2. x \in 1 .. n + 1 /\ x >= n + 1
    BY <1>2, <2>1
  <2> QED
    BY <2>1, <2>2
<1>4. \A x \in s : x # n + 1 => x \in 1 .. n
  OBVIOUS
<1> QED
  BY <1>3, <1>4

\* g folds AddFrame over the frames at every set of places among the first n.
Folding(slot, frames, n, g) ==
  g = [s \in SUBSET (1 .. n) |->
         IF s = {} THEN slot ELSE AddFrame(g[s \ {Max(s)}], frames[Max(s)])]

\* It exists up to every place.
LEMMA FoldingExists ==
  ASSUME NEW slot, NEW frames, NEW n \in Nat
  PROVE  \E g : Folding(slot, frames, n, g)
<1>1. PICK S : S = {m \in Nat : \E g : Folding(slot, frames, m, g)}
  OBVIOUS
<1>2. 0 \in S
  <2>1. PICK g : g = [s \in SUBSET (1 .. 0) |-> slot]
    OBVIOUS
  <2>2. \A s \in SUBSET (1 .. 0) : s = {}
    OBVIOUS
  <2>3. Folding(slot, frames, 0, g)
    BY <2>1, <2>2 DEF Folding
  <2> QED
    BY <1>1, <2>3
<1>3. ASSUME NEW m \in Nat, m \in S PROVE m + 1 \in S
  <2>1. PICK g : Folding(slot, frames, m, g)
    BY <1>1, <1>3
  <2>2. PICK h : h = [s \in SUBSET (1 .. m + 1) |->
                        IF m + 1 \in s THEN AddFrame(g[s \ {m + 1}], frames[m + 1]) ELSE g[s]]
    OBVIOUS
  <2>3. \A s \in SUBSET (1 .. m) : s \in SUBSET (1 .. m + 1) /\ m + 1 \notin s
    OBVIOUS
  <2>4. \A s \in SUBSET (1 .. m) : h[s] = g[s]
    BY <2>2, <2>3
  <2>5. \A s \in SUBSET (1 .. m) :
          g[s] = IF s = {} THEN slot ELSE AddFrame(g[s \ {Max(s)}], frames[Max(s)])
    BY <2>1 DEF Folding
  <2>6. ASSUME NEW s \in SUBSET (1 .. m + 1)
        PROVE  h[s] = IF s = {} THEN slot ELSE AddFrame(h[s \ {Max(s)}], frames[Max(s)])
    <3>1. CASE m + 1 \in s
      <4>1. Max(s) = m + 1 /\ s \ {m + 1} \in SUBSET (1 .. m)
        BY <3>1, MaxUpTo
      <4>2. h[s] = AddFrame(g[s \ {m + 1}], frames[m + 1])
        BY <2>2, <3>1
      <4> QED
        BY <2>4, <3>1, <4>1, <4>2
    <3>2. CASE m + 1 \notin s
      <4>1. s \in SUBSET (1 .. m) /\ s \ {Max(s)} \in SUBSET (1 .. m)
        <5>1. \A x \in s : x \in 1 .. m
          BY <3>2
        <5> QED
          BY <5>1
      <4> QED
        BY <2>4, <2>5, <4>1
    <3> QED
      BY <3>1, <3>2
  <2>7. h = [s \in SUBSET (1 .. m + 1) |->
               IF s = {} THEN slot ELSE AddFrame(h[s \ {Max(s)}], frames[Max(s)])]
    BY <2>2, <2>6
  <2>8. Folding(slot, frames, m + 1, h)
    BY <2>7 DEF Folding
  <2> QED
    BY <1>1, <2>8
<1> QED
  BY <1>1, <1>2, <1>3, SetInduction

\* acc is the slot after each of n frames.
Accumulates(acc, slot, frames, n) ==
  /\ acc[0] = slot
  /\ \A k \in 1 .. n : acc[k] = AddFrame(acc[k - 1], frames[k])
  /\ acc[n] = Ingested(slot, frames)

\* ingest() adds the frames one after the other.
LEMMA FoldUnfolds ==
  ASSUME NEW slot, NEW frames, NEW n \in Nat, DOMAIN frames = 1 .. n, ~config.latest
  PROVE  \E acc : Accumulates(acc, slot, frames, n)
<1>1. PICK g : g = CHOOSE f : f = [s \in SUBSET (1 .. n) |->
                 IF s = {} THEN slot ELSE AddFrame(f[s \ {Max(s)}], frames[Max(s)])]
  OBVIOUS
<1>2. Ingested(slot, frames) = g[1 .. n]
  BY <1>1 DEF Ingested, FoldLeft, MapThenFoldSet
<1>3. Folding(slot, frames, n, g)
  <2>0. PICK h : Folding(slot, frames, n, h)
    BY FoldingExists
  <2>1. h = [s \in SUBSET (1 .. n) |->
                 IF s = {} THEN slot ELSE AddFrame(h[s \ {Max(s)}], frames[Max(s)])]
    BY <2>0 DEF Folding
  <2>2. g = [s \in SUBSET (1 .. n) |->
                 IF s = {} THEN slot ELSE AddFrame(g[s \ {Max(s)}], frames[Max(s)])]
    BY <1>1, <2>1, Zenon
  <2> QED
    BY <2>2 DEF Folding
<1>4. PICK acc : acc = [k \in 0 .. n |-> g[1 .. k]]
  OBVIOUS
<1>5. acc[0] = slot
  <2>1. 1 .. 0 = {} /\ {} \in SUBSET (1 .. n)
    OBVIOUS
  <2>2. g[{}] = slot
    BY <1>3, <2>1 DEF Folding
  <2> QED
    BY <1>4, <2>1, <2>2
<1>6. ASSUME NEW k \in 1 .. n PROVE acc[k] = AddFrame(acc[k - 1], frames[k])
  <2>1. k - 1 \in Nat /\ 1 .. k \in SUBSET (1 .. (k - 1) + 1) /\ (k - 1) + 1 \in 1 .. k
    OBVIOUS
  <2>2. Max(1 .. k) = (k - 1) + 1
    BY <2>1, MaxUpTo
  <2>3. (1 .. k) \ {k} = 1 .. k - 1 /\ 1 .. k \in SUBSET (1 .. n) /\ 1 .. k # {}
    OBVIOUS
  <2>4. g[1 .. k] = AddFrame(g[1 .. k - 1], frames[k])
    <3>1. \A s \in SUBSET (1 .. n) :
            g[s] = IF s = {} THEN slot ELSE AddFrame(g[s \ {Max(s)}], frames[Max(s)])
      BY <1>3 DEF Folding
    <3>2. Max(1 .. k) = k
      BY <2>2
    <3> QED
      BY <2>3, <3>1, <3>2
  <2>5. acc[k] = g[1 .. k] /\ acc[k - 1] = g[1 .. k - 1]
    BY <1>4
  <2> QED
    BY <2>4, <2>5
<1>7. acc[n] = Ingested(slot, frames)
  BY <1>2, <1>4
<1> QED
  BY <1>5, <1>6, <1>7 DEF Accumulates

\* A batch takes the slot within max_depth, whatever layouts it mixes.
LEMMA IngestSized ==
  ASSUME config \in Configs, NEW slot, Sized(slot), NEW frames \in Seq(Frames), frames # <<>>
  PROVE  Sized(Ingested(slot, frames))
<1>1. PICK n \in Nat : n = Len(frames) /\ n >= 1 /\ DOMAIN frames = 1 .. n
  OBVIOUS
<1>2. CASE config.latest
  <2>1. PICK f \in Frames : f = Last(frames)
    BY <1>1 DEF Last
  <2>2. PICK r : r = [ts |-> f.samples, vals |-> f.samples, shape |-> f.shape]
    OBVIOUS
  <2>3. r \in SlotType /\ Len(r.vals) <= Len(r.ts)
    <3>1. f.samples \in Seq(Nat) /\ Len(f.samples) \in Nat /\ f.shape \in Shapes
      BY DEF Frames
    <3>2. r.vals = f.samples /\ r.ts = f.samples
      BY <2>2
    <3> QED
      BY <2>2, <3>1, <3>2 DEF SlotType
  <2>4. Ingested(slot, frames) = Trim(r)
    BY <1>2, <2>1, <2>2 DEF Ingested
  <2> QED
    BY <2>3, <2>4, TrimSized
<1>3. CASE ~config.latest
  <2>0. PICK acc : Accumulates(acc, slot, frames, n)
    BY <1>1, <1>3, FoldUnfolds
  <2>1. /\ acc[0] = slot
        /\ \A k \in 1 .. n : acc[k] = AddFrame(acc[k - 1], frames[k])
        /\ acc[n] = Ingested(slot, frames)
    BY <2>0 DEF Accumulates
  <2>2. PICK S : S = {k \in Nat : k <= n => Sized(acc[k])}
    OBVIOUS
  <2>3. 0 \in S
    BY <2>1, <2>2
  <2>4. ASSUME NEW k \in Nat, k \in S PROVE k + 1 \in S
    <3>1. SUFFICES ASSUME k + 1 <= n PROVE Sized(acc[k + 1])
      BY <2>2
    <3>2. k + 1 \in 1 .. n /\ (k + 1) - 1 = k /\ k <= n
      BY <3>1
    <3>3. Sized(acc[k]) /\ frames[k + 1] \in Frames
      BY <1>1, <2>2, <2>4, <3>2
    <3>4. acc[k + 1] = AddFrame(acc[k], frames[k + 1])
      BY <2>1, <3>2
    <3> QED
      BY <3>3, <3>4, AddSized
  <2>5. n \in S
    BY <2>3, <2>4, SetInduction
  <2> QED
    BY <2>1, <2>2, <2>5
<1> QED
  BY <1>2, <1>3, BufferConfig

\* A batch of a source that keeps its layout leaves the newest in the slot.
LEMMA IngestNewest ==
  ASSUME config \in Configs, NEW slot, NEW frames \in Seq(Frames), frames # <<>>,
         NEW a \in Nat, NEW cut, Cut(frames, a, cut), NEW h \in Shapes,
         \A k \in DOMAIN frames : frames[k].shape = h,
         Newest(slot, a), slot.shape \in {NoShape, h}, slot.shape = NoShape => a = 0
  PROVE  /\ Newest(Ingested(slot, frames), cut[Len(frames)])
         /\ Ingested(slot, frames).shape \in {NoShape, h}
         /\ Ingested(slot, frames).shape = NoShape => cut[Len(frames)] = 0
<1>1. PICK n \in Nat : n = Len(frames) /\ n >= 1 /\ DOMAIN frames = 1 .. n
  OBVIOUS
<1>2. /\ cut[0] = a /\ \A k \in 0 .. n : cut[k] \in Nat
      /\ \A k \in 1 .. n : cut[k - 1] < cut[k] /\ frames[k].samples = Run(cut[k - 1] + 1, cut[k])
  BY <1>1 DEF Cut
<1>3. h # NoShape
  BY ProcessorAssumption DEF NoShape
<1>4. CASE config.latest
  <2>1. n \in 1 .. n /\ n \in 0 .. n /\ n - 1 \in 0 .. n
    BY <1>1
  <2>2. PICK b \in Nat, c \in Nat : b = cut[n - 1] /\ c = cut[n] /\ b < c
    BY <1>2, <2>1
  <2>3. frames[n].samples = Run(b + 1, c) /\ frames[n].shape = h
    BY <1>1, <1>2, <2>1, <2>2
  <2>4. PICK r : r = Run(b + 1, c)
    OBVIOUS
  <2>5. NewestRun(r, c - b, c)
    <3>0. b < c
      BY <2>2
    <3>1. c - b \in Nat /\ c - b <= c /\ c - (c - b) + 1 = b + 1
      BY <3>0
    <3> QED
      BY <2>4, <3>1 DEF NewestRun
  <2>a. PICK new : new = Ingested(slot, frames)
    OBVIOUS
  <2>6. new = Trim([ts |-> r, vals |-> r, shape |-> h])
    <3>1. Last(frames) = frames[n]
      BY <1>1 DEF Last
    <3> QED
      BY <1>4, <2>3, <2>4, <2>a, <3>1 DEF Ingested
  <2>7. PICK kept : kept = Kept(c - b)
    OBVIOUS
  <2>8. /\ new.ts = Run(c - kept + 1, c) /\ Len(new.ts) = kept /\ kept <= c
        /\ new.vals = new.ts /\ new.shape = h
    BY <2>5, <2>6, <2>7, TrimNewest
  <2>9. Newest(new, c)
    BY <1>4, <2>8 DEF Newest
  <2> QED
    BY <1>1, <1>3, <2>2, <2>8, <2>9, <2>a
<1>5. CASE ~config.latest
  <2>0. PICK acc : Accumulates(acc, slot, frames, n)
    BY <1>1, <1>5, FoldUnfolds
  <2>1. /\ acc[0] = slot
        /\ \A k \in 1 .. n : acc[k] = AddFrame(acc[k - 1], frames[k])
        /\ acc[n] = Ingested(slot, frames)
    BY <2>0 DEF Accumulates
  <2>2. PICK S : S = {k \in Nat : k <= n => /\ Newest(acc[k], cut[k])
                                            /\ acc[k].shape \in {NoShape, h}
                                            /\ acc[k].shape = NoShape => cut[k] = 0}
    OBVIOUS
  <2>3. 0 \in S
    BY <1>2, <2>1, <2>2
  <2>4. ASSUME NEW k \in Nat, k \in S PROVE k + 1 \in S
    <3>1. SUFFICES ASSUME k + 1 <= n
                   PROVE  Newest(acc[k + 1], cut[k + 1]) /\ acc[k + 1].shape = h
      BY <1>3, <2>2
    <3>2. k + 1 \in 1 .. n /\ (k + 1) - 1 = k /\ k <= n /\ k \in 0 .. n /\ k + 1 \in 0 .. n
      BY <3>1
    <3>3. /\ Newest(acc[k], cut[k]) /\ acc[k].shape \in {NoShape, h}
          /\ acc[k].shape = NoShape => cut[k] = 0
      BY <2>2, <2>4, <3>2
    <3>4. acc[k + 1] = AddFrame(acc[k], frames[k + 1])
      BY <2>1, <3>2
    <3>5. PICK b \in Nat, c \in Nat : b = cut[k] /\ c = cut[k + 1] /\ b < c
      BY <1>2, <3>2
    <3>6. PICK f : f = frames[k + 1]
      OBVIOUS
    <3>7. f.samples = Run(b + 1, c) /\ f.shape = h
      BY <1>1, <1>2, <3>2, <3>5, <3>6
    <3>8. PICK old : old = acc[k]
      OBVIOUS
    <3>9. Newest(AddFrame(old, f), c) /\ AddFrame(old, f).shape = f.shape
      BY <1>5, <3>3, <3>5, <3>7, <3>8, AddNewest
    <3> QED
      BY <3>4, <3>5, <3>6, <3>7, <3>8, <3>9
  <2>5. n \in S
    BY <2>3, <2>4, SetInduction
  <2> QED
    BY <1>1, <2>1, <2>2, <2>5
<1> QED
  BY <1>4, <1>5, BufferConfig

\* Frames that carry the samples after a and up to e, one after the other.
Batch(frames, a, e) ==
  /\ frames # <<>>
  /\ \E cut : Cut(frames, a, cut) /\ cut[Len(frames)] = e

\* The layouts of a batch.
Layouts(frames) == {frames[k].shape : k \in DOMAIN frames}

-----------------------------------------------------------------------------
(* Readers push.                                                            *)

\* Appending keeps the elements where they are.
LEMMA AppendFacts ==
  ASSUME NEW S, NEW q \in Seq(S), NEW t \in S
  PROVE  /\ Append(q, t) \in Seq(S) /\ Len(Append(q, t)) = Len(q) + 1
         /\ DOMAIN Append(q, t) = DOMAIN q \cup {Len(q) + 1}
         /\ \A i \in DOMAIN q : i \in Nat /\ i < Len(q) + 1 /\ Append(q, t)[i] = q[i]
         /\ Append(q, t)[Len(q) + 1] = t
  OBVIOUS

\* The m samples after b, and the last of them.
LEMMA SampleRun ==
  ASSUME NEW b \in Nat, NEW m \in Nat \ {0}
  PROVE  /\ [k \in 1 .. m |-> b + k] \in Seq(Nat)
         /\ Last([k \in 1 .. m |-> b + k]) = b + m
<1>1. PICK f : f = [k \in 1 .. m |-> b + k]
  OBVIOUS
<1>2. f \in Seq(Nat) /\ Len(f) = m
  <2>1. f \in [1 .. m -> Nat] /\ m \in Nat
    BY <1>1
  <2>2. f \in Seq(Nat)
    BY <2>1
  <2>3. QED
    BY <2>1, <2>2
<1>3. f[m] = b + m
  BY <1>1
<1>4. QED
  BY <1>1, <1>2, <1>3 DEF Last

\* A pushed batch ends with a sample newer than all the source has sent.
LEMMA PushedBatch ==
  ASSUME Types, NEW s \in Sources, Push(s)
  PROVE  \E t \in Tasks : /\ tasks' = Append(tasks, t)
                          /\ t.source = s
                          /\ End(t) \in Nat
                          /\ sent[s] < End(t)
                          /\ sent' = [sent EXCEPT ![s] = End(t)]
                          /\ Batch(t.frames, sent[s], End(t))
                          /\ Layouts(t.frames) \subseteq Shapes
                          /\ IsFiniteSet(Layouts(t.frames))
                          /\ shapes' = [shapes EXCEPT ![s] = @ \cup Layouts(t.frames)]
<1>1. MaxFrames \in Nat /\ MaxSamples \in Nat /\ sent[s] \in Nat
  BY ProcessorAssumption DEF Types
<1>a. PICK n \in 1 .. MaxFrames : \E cut \in Cuts(s, n), shape \in [1 .. n -> ShapesOf[s]] :
        /\ tasks' = Append(tasks,
             [source |-> s,
              frames |-> [i \in 1 .. n |->
                [samples |-> [k \in 1 .. cut[i] - cut[i - 1] |-> cut[i - 1] + k],
                 shape |-> shape[i]]]])
        /\ sent' = [sent EXCEPT ![s] = cut[n]]
        /\ shapes' = [shapes EXCEPT ![s] = @ \cup {shape[i] : i \in 1 .. n}]
  BY DEF Push
<1>2. PICK cut \in Cuts(s, n), shape \in [1 .. n -> ShapesOf[s]] :
        /\ tasks' = Append(tasks,
             [source |-> s,
              frames |-> [i \in 1 .. n |->
                [samples |-> [k \in 1 .. cut[i] - cut[i - 1] |-> cut[i - 1] + k],
                 shape |-> shape[i]]]])
        /\ sent' = [sent EXCEPT ![s] = cut[n]]
        /\ shapes' = [shapes EXCEPT ![s] = @ \cup {shape[i] : i \in 1 .. n}]
  BY <1>a
<1>3. n \in Nat /\ n >= 1 /\ n - 1 \in 0 .. n /\ n \in 0 .. n /\ 0 \in 0 .. n
  BY <1>1
<1>4. /\ cut \in [0 .. n -> sent[s] .. MaxSamples] /\ cut[0] = sent[s]
      /\ \A i, j \in 0 .. n : i < j => cut[i] < cut[j]
  BY DEF Cuts
<1>5. \A i \in 0 .. n : cut[i] \in Nat
  BY <1>1, <1>4
<1>6. cut[n] \in Nat /\ sent[s] < cut[n]
  BY <1>3, <1>4, <1>5
<1>7. PICK run : run = [i \in 1 .. n |-> [k \in 1 .. cut[i] - cut[i - 1] |-> cut[i - 1] + k]]
  OBVIOUS
<1>8. ASSUME NEW i \in 1 .. n
      PROVE  run[i] \in Seq(Nat) /\ Last(run[i]) = cut[i]
  <2>1. i \in 0 .. n /\ i - 1 \in 0 .. n /\ i - 1 < i
    BY <1>3
  <2>2. cut[i] \in Nat /\ cut[i - 1] \in Nat /\ cut[i - 1] < cut[i]
    BY <1>4, <1>5, <2>1
  <2>3. PICK b \in Nat, m \in Nat \ {0} : b = cut[i - 1] /\ m = cut[i] - cut[i - 1] /\ b + m = cut[i]
    BY <2>2
  <2>4. run[i] = [k \in 1 .. m |-> b + k]
    BY <1>7, <2>3
  <2>5. QED
    BY <2>3, <2>4, SampleRun
<1>9. PICK frames : frames = [i \in 1 .. n |-> [samples |-> run[i], shape |-> shape[i]]]
  OBVIOUS
<1>10. frames = [i \in 1 .. n |->
                [samples |-> [k \in 1 .. cut[i] - cut[i - 1] |-> cut[i - 1] + k],
                 shape |-> shape[i]]]
  BY <1>7, <1>9
<1>11. frames \in Seq(Frames) /\ Len(frames) = n
  <2>1. \A i \in 1 .. n : shape[i] \in Shapes
    BY DEF Shapes
  <2>2. frames \in [1 .. n -> Frames]
    BY <1>8, <1>9, <2>1 DEF Frames
  <2>3. frames \in Seq(Frames)
    BY <1>3, <2>2
  <2>4. QED
    BY <1>3, <2>2, <2>3
<1>12. PICK t \in Tasks : t = [source |-> s, frames |-> frames]
  BY <1>11 DEF Tasks
<1>13. End(t) = cut[n]
  <2>1. t.frames = frames /\ Last(frames) = frames[n]
    BY <1>11, <1>12 DEF Last
  <2>2. frames[n].samples = run[n] /\ n \in 1 .. n
    BY <1>3, <1>9
  <2>3. QED
    BY <1>8, <2>1, <2>2 DEF End
<1>14. Batch(t.frames, sent[s], End(t))
  <2>1. cut \in [0 .. n -> Nat]
    BY <1>4, <1>5
  <2>2. ASSUME NEW k \in 1 .. n
        PROVE  cut[k - 1] < cut[k] /\ frames[k].samples = Run(cut[k - 1] + 1, cut[k])
    <3>1. k \in 0 .. n /\ k - 1 \in 0 .. n /\ k - 1 < k
      BY <1>3
    <3>2. PICK b \in Nat, c \in Nat : b = cut[k - 1] /\ c = cut[k] /\ b < c
      BY <1>4, <1>5, <3>1
    <3>3. Run(b + 1, c) = [i \in 1 .. c - b |-> b + i]
      <4>1. c - (b + 1) + 1 = c - b /\ \A i \in 1 .. c - b : (b + 1) + i - 1 = b + i
        OBVIOUS
      <4> QED
        BY <4>1 DEF Run
    <3>4. frames[k].samples = [i \in 1 .. c - b |-> b + i]
      BY <1>7, <1>9, <3>2
    <3> QED
      BY <3>2, <3>3, <3>4
  <2>3. Cut(frames, sent[s], cut)
    BY <1>4, <1>11, <2>1, <2>2 DEF Cut
  <2>4. frames # <<>>
    BY <1>3, <1>11
  <2> QED
    BY <1>11, <1>12, <1>13, <2>3, <2>4 DEF Batch
<1>15. PICK H : H = {shape[i] : i \in 1 .. n}
  OBVIOUS
<1>16. Layouts(t.frames) = H
  <2>1. DOMAIN frames = 1 .. n /\ \A i \in 1 .. n : frames[i].shape = shape[i]
    BY <1>9
  <2>2. t.frames = frames
    BY <1>12
  <2> QED
    BY <1>15, <2>1, <2>2 DEF Layouts
<1>17. IsFiniteSet(H) /\ H \subseteq Shapes
  <2>1. shape \in Surjection(1 .. n, H)
    BY <1>15 DEF Surjection
  <2>2. IsFiniteSet(1 .. n)
    BY <1>3, FS_Interval, SMTT(30)
  <2>3. \A i \in 1 .. n : shape[i] \in Shapes
    BY DEF Shapes
  <2> QED
    BY <1>15, <2>1, <2>2, <2>3, FS_Surjection
<1>18. shapes' = [shapes EXCEPT ![s] = @ \cup Layouts(t.frames)]
  BY <1>2, <1>15, <1>16
<1>19. QED
  BY <1>2, <1>6, <1>10, <1>12, <1>13, <1>14, <1>16, <1>17, <1>18

\* A push counts before the batch is queued, behind the older ones of its source.
LEMMA PushStep ==
  ASSUME IInv, NEW s \in Sources, Push(s)
  PROVE  IInv'
<1>1. PICK t \in Tasks : /\ tasks' = Append(tasks, t)
                         /\ t.source = s
                         /\ End(t) \in Nat
                         /\ sent[s] < End(t)
                         /\ sent' = [sent EXCEPT ![s] = End(t)]
  BY PushedBatch DEF IInv
<1>2. /\ spc = "none" /\ pending' = pending + 1
      /\ UNCHANGED <<config, tpc, fresh, seen, running, spc, taken, fired, before>>
  BY DEF Push, bufferVars
<1>3. tasks \in Seq(Tasks) /\ sent \in [Sources -> Nat] /\ taken \in [Sources -> Nat]
  BY DEF IInv, Types
<1>4. /\ tasks' \in Seq(Tasks) /\ Len(tasks') = Len(tasks) + 1
      /\ DOMAIN tasks' = DOMAIN tasks \cup {Len(tasks) + 1}
      /\ \A i \in DOMAIN tasks : i \in Nat /\ i < Len(tasks) + 1 /\ tasks'[i] = tasks[i]
      /\ tasks'[Len(tasks) + 1] = t
      /\ \A i \in DOMAIN tasks : tasks[i].source \in Sources
  <2>1. \A i \in DOMAIN tasks : tasks[i].source \in Sources
    <3>1. \A i \in DOMAIN tasks : tasks[i] \in Tasks
      BY <1>3
    <3>2. QED
      BY <3>1 DEF Tasks
  <2>2. QED
    BY <1>1, <1>3, <2>1, AppendFacts
<1>5. sent'[s] = End(t) /\ \A r \in Sources : sent'[r] \in Nat /\ sent[r] \in Nat /\ sent[r] <= sent'[r]
  BY <1>1, <1>3
<1>6. Types'
  BY <1>1, <1>2, <1>4 DEF IInv, Types
<1>7. CountInv' /\ StopInv'
  BY <1>2, <1>3, <1>4 DEF IInv, CountInv, StopInv, AtWork
<1>8. OrderInv'
  <2>1. \A r \in Sources : taken'[r] <= sent'[r]
    BY <1>2, <1>3, <1>5 DEF IInv, OrderInv
  <2>2. ASSUME NEW i \in DOMAIN tasks'
        PROVE  /\ End(tasks'[i]) \in Nat /\ taken[tasks'[i].source] < End(tasks'[i])
               /\ End(tasks'[i]) <= sent'[tasks'[i].source]
    <3>1. CASE i = Len(tasks) + 1
      <4>1. taken[s] <= sent[s] /\ taken[s] \in Nat /\ sent[s] \in Nat
        BY <1>3 DEF IInv, OrderInv
      <4>2. QED
        BY <1>1, <1>4, <1>5, <3>1, <4>1
    <3>2. CASE i # Len(tasks) + 1
      <4>1. i \in DOMAIN tasks /\ tasks'[i] = tasks[i]
        BY <1>4, <3>2
      <4>2. PICK r \in Sources, e \in Nat : /\ r = tasks[i].source /\ e = End(tasks[i])
                                            /\ taken[r] < e /\ e <= sent[r]
        BY <1>4, <4>1 DEF IInv, OrderInv
      <4>3. e <= sent'[r]
        BY <1>5, <4>2
      <4>4. QED
        BY <4>1, <4>2, <4>3
    <3>3. QED
      BY <3>1, <3>2
  <2>3. ASSUME NEW i \in DOMAIN tasks', NEW j \in DOMAIN tasks',
               tasks'[i].source = tasks'[j].source, i < j
        PROVE  End(tasks'[i]) < End(tasks'[j])
    <3>1. i \in DOMAIN tasks /\ tasks'[i] = tasks[i]
      BY <1>3, <1>4, <2>3
    <3>2. CASE j = Len(tasks) + 1
      <4>1. tasks'[j] = t /\ tasks[i].source = s
        BY <1>1, <1>4, <2>3, <3>1, <3>2
      <4>2. End(tasks[i]) \in Nat /\ End(tasks[i]) <= sent[s]
        BY <3>1, <4>1 DEF IInv, OrderInv
      <4>3. QED
        BY <1>1, <1>5, <3>1, <4>1, <4>2
    <3>3. CASE j # Len(tasks) + 1
      <4>1. j \in DOMAIN tasks /\ tasks'[j] = tasks[j]
        BY <1>4, <3>3
      <4>2. QED
        BY <2>3, <3>1, <4>1 DEF IInv, OrderInv
    <3>4. QED
      BY <3>2, <3>3
  <2>4. QED
    BY <1>2, <2>1, <2>2, <2>3 DEF OrderInv, End
<1>9. FreshInv' /\ AllUpdatedIsFresh'
  BY <1>2 DEF IInv, FreshInv, AllUpdatedIsFresh, Needed, Live
<1>10. QED
  BY <1>6, <1>7, <1>8, <1>9 DEF IInv

-----------------------------------------------------------------------------
(* The pool thread takes a batch in.                                        *)

\* The front of the queue and what is behind it.
LEMMA FrontTask ==
  ASSUME IInv, tasks # <<>>
  PROVE  /\ 1 \in DOMAIN tasks /\ Head(tasks) = tasks[1]
         /\ tasks[1].source \in Sources
         /\ Tail(tasks) \in Seq(Tasks) /\ Len(Tail(tasks)) = Len(tasks) - 1
         /\ Len(tasks) \in Nat
         /\ \A i \in DOMAIN Tail(tasks) :
              i \in Nat /\ i + 1 \in DOMAIN tasks /\ 1 < i + 1 /\ Tail(tasks)[i] = tasks[i + 1]
<1>1. tasks \in Seq(Tasks)
  BY DEF IInv, Types
<1>2. tasks[1] \in Tasks /\ 1 \in DOMAIN tasks
  BY <1>1
<1>3. tasks[1].source \in Sources
  BY <1>2 DEF Tasks
<1>4. QED
  BY <1>1, <1>2, <1>3

\* What processTask() does with the batch at the front: it decides with the
\* source marked fresh, and the fresh sources are the ones with news.
LEMMA TaskBeginFacts ==
  ASSUME IInv, TaskBegin
  PROVE  \E freshNow, seenNow \in SUBSET Sources :
           /\ seen' = seenNow
           /\ freshNow \subseteq NeededBy(seenNow)
           /\ \A r \in freshNow : fired[r] < taken'[r]
           /\ \A r \in Sources \ freshNow : fired[r] = taken'[r]
           /\ \/ /\ Fires(freshNow, seenNow)
                 /\ tpc' = "compute" /\ fresh' = {} /\ fired' = taken' /\ before' = fired
              \/ /\ ~Fires(freshNow, seenNow)
                 /\ tpc' = "finish" /\ fresh' = freshNow /\ fired' = fired /\ before' = before
<1>1. PICK s \in Sources, e \in Nat : s = Head(tasks).source /\ e = End(Head(tasks)) /\ taken[s] < e
  BY FrontTask DEF TaskBegin, IInv, OrderInv
<1>2. PICK freshNow : freshNow = IF Buffered(s) THEN fresh \cup {s} ELSE fresh
  OBVIOUS
<1>3. PICK seenNow : seenNow = IF config.required = <<>> THEN seen \cup {s} ELSE seen
  OBVIOUS
<1>4. /\ seen' = seenNow
      /\ taken' = IF Buffered(s) THEN [taken EXCEPT ![s] = e] ELSE taken
      /\ \/ /\ Fires(freshNow, seenNow)
            /\ tpc' = "compute" /\ fresh' = {} /\ fired' = taken' /\ before' = fired
         \/ /\ ~Fires(freshNow, seenNow)
            /\ tpc' = "finish" /\ fresh' = freshNow /\ fired' = fired /\ before' = before
  BY <1>1, <1>2, <1>3 DEF TaskBegin, End
<1>5. taken \in [Sources -> Nat] /\ fired \in [Sources -> Nat] /\ fresh \subseteq Sources /\ seen \subseteq Sources
  BY DEF IInv, Types
<1>6. freshNow \in SUBSET Sources /\ seenNow \in SUBSET Sources
  BY <1>2, <1>3, <1>5
<1>7. /\ fresh \subseteq Needed
      /\ \A r \in fresh : fired[r] < taken[r]
      /\ \A r \in Sources \ fresh : fired[r] = taken[r]
  BY DEF TaskBegin, IInv, StopInv, Live, FreshInv
<1>8. freshNow \subseteq NeededBy(seenNow)
  <2>1. CASE config.required = <<>>
    BY <1>2, <1>3, <1>7, <2>1 DEF Needed, NeededBy
  <2>2. CASE config.required # <<>>
    BY <1>2, <1>7, <2>2 DEF Needed, NeededBy, Buffered
  <2>3. QED
    BY <2>1, <2>2
<1>9. CASE Buffered(s)
  <2>1. taken'[s] = e /\ \A r \in Sources : r # s => taken'[r] = taken[r]
    BY <1>4, <1>5, <1>9
  <2>2. fired[s] <= taken[s] /\ fired[s] \in Nat /\ taken[s] \in Nat
    BY <1>5, <1>7
  <2>3. \A r \in freshNow : fired[r] < taken'[r]
    BY <1>1, <1>2, <1>5, <1>7, <1>9, <2>1, <2>2
  <2>4. \A r \in Sources \ freshNow : fired[r] = taken'[r]
    BY <1>2, <1>7, <1>9, <2>1
  <2>5. QED
    BY <1>4, <1>6, <1>8, <2>3, <2>4
<1>10. CASE ~Buffered(s)
  <2>1. taken' = taken /\ freshNow = fresh
    BY <1>2, <1>4, <1>10
  <2>2. QED
    BY <1>4, <1>6, <1>7, <1>8, <2>1
<1>11. QED
  BY <1>9, <1>10

\* The step itself.
LEMMA TaskBeginStep ==
  ASSUME IInv, TaskBegin
  PROVE  IInv'
<1>1. PICK freshNow \in SUBSET Sources, seenNow \in SUBSET Sources :
           /\ seen' = seenNow
           /\ freshNow \subseteq NeededBy(seenNow)
           /\ \A r \in freshNow : fired[r] < taken'[r]
           /\ \A r \in Sources \ freshNow : fired[r] = taken'[r]
           /\ \/ /\ Fires(freshNow, seenNow)
                 /\ tpc' = "compute" /\ fresh' = {} /\ fired' = taken' /\ before' = fired
              \/ /\ ~Fires(freshNow, seenNow)
                 /\ tpc' = "finish" /\ fresh' = freshNow /\ fired' = fired /\ before' = before
  BY TaskBeginFacts
<1>2. /\ tpc = "idle" /\ tasks # <<>> /\ running /\ tasks' = Tail(tasks)
      /\ UNCHANGED <<config, sent, pending, running, spc>>
  BY DEF TaskBegin
<1>3. /\ 1 \in DOMAIN tasks /\ Head(tasks) = tasks[1] /\ tasks[1].source \in Sources
      /\ tasks' \in Seq(Tasks) /\ Len(tasks') = Len(tasks) - 1 /\ Len(tasks) \in Nat
      /\ \A i \in DOMAIN tasks' :
           i \in Nat /\ i + 1 \in DOMAIN tasks /\ 1 < i + 1 /\ tasks'[i] = tasks[i + 1]
  BY <1>2, FrontTask
<1>4. PICK s \in Sources, e \in Nat : /\ s = tasks[1].source /\ e = End(tasks[1]) /\ taken[s] < e
                                      /\ e <= sent[s]
  BY <1>3 DEF IInv, OrderInv
<1>5. taken \in [Sources -> Nat] /\ fired \in [Sources -> Nat] /\ sent \in [Sources -> Nat]
  BY DEF IInv, Types
<1>6. taken' = taken \/ taken' = [taken EXCEPT ![s] = e]
  BY <1>3, <1>4 DEF TaskBegin, End
<1>7. /\ taken' \in [Sources -> Nat]
      /\ \A r \in Sources : r # s => taken'[r] = taken[r]
      /\ taken'[s] = taken[s] \/ taken'[s] = e
  BY <1>4, <1>5, <1>6
<1>8. Types'
  BY <1>1, <1>2, <1>3, <1>5, <1>7 DEF IInv, Types
<1>9. CountInv' /\ StopInv'
  BY <1>1, <1>2, <1>3 DEF IInv, CountInv, StopInv, AtWork
<1>10. OrderInv'
  <2>1. ASSUME NEW i \in DOMAIN tasks'
        PROVE  /\ End(tasks'[i]) \in Nat /\ taken'[tasks'[i].source] < End(tasks'[i])
               /\ End(tasks'[i]) <= sent[tasks'[i].source]
    <3>1. i + 1 \in DOMAIN tasks /\ 1 < i + 1 /\ tasks'[i] = tasks[i + 1]
      BY <1>3
    <3>2. /\ End(tasks[i + 1]) \in Nat /\ taken[tasks[i + 1].source] < End(tasks[i + 1])
          /\ End(tasks[i + 1]) <= sent[tasks[i + 1].source]
      BY <3>1 DEF IInv, OrderInv
    <3>3. tasks[i + 1].source = s => e < End(tasks[i + 1])
      BY <1>3, <1>4, <3>1 DEF IInv, OrderInv
    <3>4. tasks[i + 1].source \in Sources
      <4>1. tasks[i + 1] \in Tasks
        BY <3>1 DEF IInv, Types
      <4>2. QED
        BY <4>1 DEF Tasks
    <3>5. QED
      BY <1>7, <3>1, <3>2, <3>3, <3>4
  <2>2. ASSUME NEW i \in DOMAIN tasks', NEW j \in DOMAIN tasks',
               tasks'[i].source = tasks'[j].source, i < j
        PROVE  End(tasks'[i]) < End(tasks'[j])
    <3>1. /\ i + 1 \in DOMAIN tasks /\ j + 1 \in DOMAIN tasks /\ i + 1 < j + 1
          /\ tasks'[i] = tasks[i + 1] /\ tasks'[j] = tasks[j + 1]
      BY <1>3, <2>2
    <3>2. QED
      BY <2>2, <3>1 DEF IInv, OrderInv
  <2>3. \A r \in Sources : taken'[r] <= sent[r]
    BY <1>4, <1>5, <1>7 DEF IInv, OrderInv
  <2>4. QED
    BY <1>2, <2>1, <2>2, <2>3 DEF OrderInv, End
<1>11. Needed' = NeededBy(seenNow) /\ config' = config
  BY <1>1, <1>2 DEF Needed, NeededBy
<1>12. FreshInv'
  BY <1>1, <1>11 DEF FreshInv
<1>13. AllUpdatedIsFresh'
  <2>1. SUFFICES ASSUME tpc' \in {"compute", "push"}, config.trigger = "all-updated",
                        NEW r \in Needed'
                 PROVE  fired'[r] > before'[r]
    BY <1>11 DEF AllUpdatedIsFresh
  <2>2. Fires(freshNow, seenNow) /\ fired' = taken' /\ before' = fired
    BY <1>1, <2>1
  <2>3. freshNow = NeededBy(seenNow)
    BY <1>1, <2>1, <2>2, FiresExactly DEF IInv, Types
  <2>4. r \in freshNow /\ r \in Sources
    BY <1>11, <2>1, <2>3
  <2>5. QED
    BY <1>1, <1>5, <1>7, <2>2, <2>4
<1>14. QED
  BY <1>8, <1>9, <1>10, <1>12, <1>13 DEF IInv

-----------------------------------------------------------------------------
(* The other steps.                                                         *)

\* A step that takes no batch in and queues none.
LEMMA QuietStep ==
  ASSUME IInv, UNCHANGED <<config, sent, tasks, fresh, seen, taken, fired, before>>,
         tpc' \in {"idle", "compute", "push", "finish", "notify"},
         tpc' \in {"compute", "push"} => tpc \in {"compute", "push"},
         Live' => Live, CountInv', StopInv'
  PROVE  IInv'
<1>1. Types'
  BY DEF IInv, Types
<1>2. OrderInv'
  BY DEF IInv, OrderInv, End
<1>3. FreshInv'
  BY DEF IInv, FreshInv, Needed
<1>4. AllUpdatedIsFresh'
  BY DEF IInv, AllUpdatedIsFresh, Needed
<1>5. QED
  BY <1>1, <1>2, <1>3, <1>4 DEF IInv

\* A task that does nothing still counts until it finishes.
LEMMA TaskSkippedStep ==
  ASSUME IInv, TaskSkipped
  PROVE  IInv'
<1>1. /\ tpc = "idle" /\ tasks # <<>> /\ tpc' = "finish" /\ tasks' = Tail(tasks)
      /\ UNCHANGED <<config, sent, pending, fresh, seen, running, spc, taken, fired, before>>
  BY DEF TaskSkipped, bufferVars, historyVars
<1>2. /\ tasks' \in Seq(Tasks) /\ Len(tasks') = Len(tasks) - 1 /\ Len(tasks) \in Nat
      /\ \A i \in DOMAIN tasks' :
           i \in Nat /\ i + 1 \in DOMAIN tasks /\ 1 < i + 1 /\ tasks'[i] = tasks[i + 1]
  BY <1>1, FrontTask
<1>3. Types'
  BY <1>1, <1>2 DEF IInv, Types
<1>4. CountInv' /\ StopInv'
  BY <1>1, <1>2 DEF IInv, CountInv, StopInv, AtWork
<1>5. OrderInv'
  <2>1. \A i \in DOMAIN tasks' :
          /\ End(tasks'[i]) \in Nat /\ taken[tasks'[i].source] < End(tasks'[i])
          /\ End(tasks'[i]) <= sent[tasks'[i].source]
    BY <1>2 DEF IInv, OrderInv
  <2>2. ASSUME NEW i \in DOMAIN tasks', NEW j \in DOMAIN tasks',
               tasks'[i].source = tasks'[j].source, i < j
        PROVE  End(tasks'[i]) < End(tasks'[j])
    <3>1. /\ i + 1 \in DOMAIN tasks /\ j + 1 \in DOMAIN tasks /\ i + 1 < j + 1
          /\ tasks'[i] = tasks[i + 1] /\ tasks'[j] = tasks[j + 1]
      BY <1>2, <2>2
    <3>2. QED
      BY <2>2, <3>1 DEF IInv, OrderInv
  <2>3. QED
    BY <1>1, <2>1, <2>2 DEF IInv, OrderInv, End
<1>6. FreshInv' /\ AllUpdatedIsFresh'
  BY <1>1 DEF IInv, FreshInv, AllUpdatedIsFresh, Needed, Live
<1>7. QED
  BY <1>3, <1>4, <1>5, <1>6 DEF IInv

\* stop() clears the buffer when no task is left.
LEMMA StopClearStep ==
  ASSUME IInv, StopClear
  PROVE  IInv'
<1>1. /\ spc = "clear" /\ spc' = "stopped" /\ fresh' = {} /\ seen' = {}
      /\ UNCHANGED <<config, sent, tasks, pending, tpc, running, taken, fired, before>>
  BY DEF StopClear, historyVars
<1>2. pending = 0 /\ tasks \in Seq(Tasks)
  BY <1>1 DEF IInv, StopInv, Types
<1>3. tpc \notin {"compute", "push"}
  BY <1>2 DEF IInv, CountInv, AtWork
<1>4. Types' /\ CountInv' /\ OrderInv'
  BY <1>1 DEF IInv, Types, CountInv, AtWork, OrderInv, End
<1>5. StopInv' /\ FreshInv'
  BY <1>1 DEF IInv, StopInv, FreshInv, Live
<1>6. AllUpdatedIsFresh'
  BY <1>1, <1>3 DEF AllUpdatedIsFresh
<1>7. QED
  BY <1>4, <1>5, <1>6 DEF IInv

\* A processor just started.
LEMMA InitIInv == Init => IInv
<1>1. SUFFICES ASSUME Init PROVE IInv
  OBVIOUS
<1>2. Types
  BY <1>1 DEF Init, Types
<1>3. CountInv /\ StopInv /\ OrderInv
  BY <1>1 DEF Init, CountInv, StopInv, OrderInv, AtWork
<1>4. FreshInv /\ AllUpdatedIsFresh
  BY <1>1 DEF Init, FreshInv, AllUpdatedIsFresh
<1>5. QED
  BY <1>2, <1>3, <1>4 DEF IInv

\* Every step of the readers, the pool thread and stop() keeps the invariant.
LEMMA NextIInv == IInv /\ [Next]_vars => IInv'
<1> SUFFICES ASSUME IInv, [Next]_vars PROVE IInv'
  OBVIOUS
<1>1. ASSUME NEW s \in Sources, Push(s) PROVE IInv'
  BY <1>1, PushStep
<1>2. CASE TaskBegin
  BY <1>2, TaskBeginStep
<1>3. CASE TaskSkipped
  BY <1>3, TaskSkippedStep
<1>4. CASE Compute \/ ComputeFails \/ PushOutput
  <2>1. /\ tpc \in {"compute", "push"} /\ tpc' \in {"push", "finish"}
        /\ UNCHANGED <<config, sent, tasks, pending, fresh, seen, running, spc, taken, fired, before>>
    BY <1>4 DEF Compute, ComputeFails, PushOutput, bufferVars, historyVars
  <2>2. CountInv' /\ StopInv' /\ (Live' => Live)
    BY <2>1 DEF IInv, CountInv, StopInv, AtWork, Live
  <2>3. QED
    BY <2>1, <2>2, QuietStep
<1>5. CASE TaskFinish
  <2>1. /\ tpc = "finish" /\ tpc' \in {"notify", "idle"} /\ pending' = pending - 1
        /\ UNCHANGED <<config, sent, tasks, fresh, seen, running, spc, taken, fired, before>>
    BY <1>5 DEF TaskFinish, bufferVars, historyVars
  <2>2. tasks \in Seq(Tasks) /\ pending = Len(tasks) + 1
    BY <2>1 DEF IInv, Types, CountInv, AtWork
  <2>3. CountInv' /\ StopInv' /\ (Live' => Live)
    BY <2>1, <2>2 DEF IInv, CountInv, StopInv, AtWork, Live
  <2>4. QED
    BY <2>1, <2>3, QuietStep
<1>6. CASE TaskNotify
  <2>1. /\ tpc = "notify" /\ tpc' = "idle" /\ (spc' = spc \/ (spc = "asleep" /\ spc' = "test"))
        /\ UNCHANGED <<config, sent, tasks, pending, fresh, seen, running, taken, fired, before>>
    BY <1>6 DEF TaskNotify, bufferVars, historyVars
  <2>2. CountInv' /\ StopInv' /\ (Live' => Live)
    BY <2>1 DEF IInv, CountInv, StopInv, AtWork, Live
  <2>3. QED
    BY <2>1, <2>2, QuietStep
<1>7. CASE StopBegin
  <2>1. /\ spc = "none" /\ spc' = "test" /\ running' = FALSE
        /\ UNCHANGED <<config, sent, tasks, pending, tpc, fresh, seen, taken, fired, before>>
    BY <1>7 DEF StopBegin, bufferVars, historyVars
  <2>2. CountInv' /\ StopInv' /\ (Live' => Live)
    BY <2>1 DEF IInv, CountInv, StopInv, AtWork, Live
  <2>3. QED
    BY <2>1, <2>2, QuietStep DEF IInv, Types
<1>8. CASE StopTest
  <2>1. /\ spc = "test" /\ spc' = (IF pending = 0 THEN "clear" ELSE "blocking")
        /\ UNCHANGED <<config, sent, tasks, pending, tpc, fresh, seen, running, taken, fired, before>>
    BY <1>8 DEF StopTest, bufferVars, historyVars
  <2>2. CountInv' /\ StopInv' /\ (Live' => Live)
    BY <2>1 DEF IInv, CountInv, StopInv, AtWork, Live
  <2>3. QED
    BY <2>1, <2>2, QuietStep DEF IInv, Types
<1>9. CASE StopBlock \/ StopSpuriousWakeup
  <2>1. /\ spc \in {"blocking", "asleep"} /\ spc' \in {"asleep", "test"}
        /\ UNCHANGED <<config, sent, tasks, pending, tpc, fresh, seen, running, taken, fired, before>>
    BY <1>9 DEF StopBlock, StopSpuriousWakeup, bufferVars, historyVars
  <2>2. CountInv' /\ StopInv' /\ (Live' => Live)
    BY <2>1 DEF IInv, CountInv, StopInv, AtWork, Live
  <2>3. QED
    BY <2>1, <2>2, QuietStep DEF IInv, Types
<1>10. CASE StopClear
  BY <1>10, StopClearStep
<1>11. CASE Destroy
  <2>1. /\ spc = "stopped" /\ spc' = "destroyed"
        /\ UNCHANGED <<config, sent, tasks, pending, tpc, fresh, seen, running, taken, fired, before>>
    BY <1>11 DEF Destroy, bufferVars, historyVars
  <2>2. CountInv' /\ StopInv' /\ (Live' => Live)
    BY <2>1 DEF IInv, CountInv, StopInv, AtWork, Live
  <2>3. QED
    BY <2>1, <2>2, QuietStep DEF IInv, Types
<1>12. CASE UNCHANGED vars
  <2>1. UNCHANGED <<config, sent, tasks, pending, tpc, fresh, seen, running, spc, taken, fired, before>>
    BY <1>12 DEF vars, bufferVars, historyVars
  <2>2. CountInv' /\ StopInv' /\ (Live' => Live)
    BY <2>1 DEF IInv, CountInv, StopInv, AtWork, Live
  <2>3. QED
    BY <2>1, <2>2, QuietStep DEF IInv, Types
<1>13. QED
  BY <1>1, <1>2, <1>3, <1>4, <1>5, <1>6, <1>7, <1>8, <1>9, <1>10, <1>11, <1>12 DEF Next, Terminated

\* all-updated keeps waiting for some source, when none is configured twice.
LEMMA WaitInvStep ==
  ASSUME DistinctSources, IInv, WaitInv, [Next]_vars
  PROVE  WaitInv'
<1>1. CASE TaskBegin
  <2>1. PICK freshNow \in SUBSET Sources, seenNow \in SUBSET Sources :
           /\ seen' = seenNow
           /\ freshNow \subseteq NeededBy(seenNow)
           /\ \/ Fires(freshNow, seenNow) /\ fresh' = {}
              \/ ~Fires(freshNow, seenNow) /\ fresh' = freshNow
    BY <1>1, TaskBeginFacts
  <2>2. config' = config
    BY <1>1 DEF TaskBegin
  <2>3. Needed' = NeededBy(seenNow)
    BY <2>1, <2>2 DEF Needed, NeededBy
  <2>4. SUFFICES ASSUME config.trigger = "all-updated", Needed' # {} PROVE fresh' # Needed'
    BY <2>2 DEF WaitInv
  <2>5. ~Fires(freshNow, seenNow) => freshNow # NeededBy(seenNow)
    BY <2>1, <2>4, FiresExactly DEF IInv, Types
  <2>6. QED
    BY <2>1, <2>3, <2>4, <2>5
<1>2. CASE StopClear
  BY <1>2 DEF StopClear, WaitInv, Live
<1>3. CASE UNCHANGED <<config, fresh, seen>> /\ (Live' => Live)
  BY <1>3 DEF WaitInv, Needed
<1>4. ~TaskBegin /\ ~StopClear => UNCHANGED <<config, fresh, seen>>
  BY DEF Next, Push, TaskSkipped, Compute, ComputeFails, PushOutput, TaskFinish, TaskNotify,
         StopBegin, StopTest, StopBlock, StopSpuriousWakeup, Destroy, Terminated, vars, bufferVars
<1>5. ~TaskBegin /\ ~StopClear => (Live' => Live)
  BY DEF Next, Push, TaskSkipped, Compute, ComputeFails, PushOutput, TaskFinish, TaskNotify,
         StopBegin, StopTest, StopBlock, StopSpuriousWakeup, Destroy, Terminated, vars, Live
<1>6. QED
  BY <1>1, <1>2, <1>3, <1>4, <1>5

-----------------------------------------------------------------------------
(* What the slots hold.  The batches of a source are consecutive: each     *)
(* begins where an older one or the buffer ends.                           *)

\* The newest sample before the task at place i of q: what the buffer has taken in, or the
\* end of an older task of the source.
Precedes(q, i, s, m, a) ==
  /\ a = m \/ \E j \in DOMAIN q : j < i /\ q[j].source = s /\ End(q[j]) = a
  /\ \A j \in DOMAIN q : j < i /\ q[j].source = s => End(q[j]) <= a

ChainInv ==
  running => \A s \in Sources : Buffered(s) =>
    /\ Precedes(tasks, Len(tasks) + 1, s, taken[s], sent[s])
    /\ \A i \in DOMAIN tasks : tasks[i].source = s =>
         \E a \in Nat : /\ Batch(tasks[i].frames, a, End(tasks[i]))
                        /\ Precedes(tasks, i, s, taken[s], a)

\* The layouts of the batches that wait are among those the source has used.
LayoutInv ==
  /\ \A s \in Sources : IsFiniteSet(shapes[s])
  /\ \A i \in DOMAIN tasks : Layouts(tasks[i].frames) \subseteq shapes[tasks[i].source]

OneLayout(s) == \A g, h \in shapes[s] : g = h

SlotInv ==
  /\ slots \in [Sources -> SlotType]
  /\ shapes \in [Sources -> SUBSET Shapes]
  /\ \A s \in Sources : Sized(slots[s])
  /\ Live => \A s \in Sources : OneLayout(s) =>
       /\ Newest(slots[s], taken[s])
       /\ slots[s].shape \in shapes[s] \cup {NoShape}
       /\ slots[s].shape = NoShape => taken[s] = 0

BufferInv == LayoutInv /\ ChainInv /\ SlotInv

\* What precedes a task depends only on the older tasks.
LEMMA PrecedesAppend ==
  ASSUME NEW q \in Seq(Tasks), NEW t \in Tasks, NEW i \in Nat, i <= Len(q) + 1,
         NEW s, NEW m, NEW a, Precedes(q, i, s, m, a)
  PROVE  Precedes(Append(q, t), i, s, m, a)
<1>1. PICK r : r = Append(q, t)
  OBVIOUS
<1>2. /\ DOMAIN r = DOMAIN q \cup {Len(q) + 1}
      /\ \A j \in DOMAIN q : j \in Nat /\ j < Len(q) + 1 /\ r[j] = q[j]
  BY <1>1, AppendFacts
<1>3. \A j \in DOMAIN r : j < i => j \in DOMAIN q
  BY <1>2
<1>4. a = m \/ \E j \in DOMAIN r : j < i /\ r[j].source = s /\ End(r[j]) = a
  BY <1>2 DEF Precedes, End
<1>5. \A j \in DOMAIN r : j < i /\ r[j].source = s => End(r[j]) <= a
  BY <1>2, <1>3 DEF Precedes, End
<1> QED
  BY <1>1, <1>4, <1>5 DEF Precedes

\* When the front task, whose end is e, is taken in, what precedes the others moves up.
LEMMA PrecedesTail ==
  ASSUME NEW q \in Seq(Tasks), q # <<>>, NEW i \in Nat, NEW s, NEW m \in Nat, NEW n, NEW a,
         Precedes(q, i + 1, s, m, a), 1 <= i,
         q[1].source = s => n = End(q[1]) /\ m < n /\ n \in Nat,
         q[1].source # s => n = m
  PROVE  Precedes(Tail(q), i, s, n, a)
<1>1. PICK r : r = Tail(q)
  OBVIOUS
<1>2. /\ \A j \in DOMAIN r : j \in Nat /\ j + 1 \in DOMAIN q /\ r[j] = q[j + 1]
      /\ \A j \in DOMAIN q : j \in Nat /\ (j = 1 \/ j - 1 \in DOMAIN r)
      /\ 1 \in DOMAIN q
  <2>1. PICK n1 \in Nat \ {0} : n1 = Len(q)
    OBVIOUS
  <2>2. DOMAIN q = 1 .. n1 /\ DOMAIN r = 1 .. n1 - 1
    BY <1>1, <2>1
  <2>3. \A j \in DOMAIN r : r[j] = q[j + 1]
    BY <1>1
  <2>4. \A j \in DOMAIN r : j \in Nat /\ j + 1 \in DOMAIN q
    BY <2>1, <2>2
  <2>5. \A j \in DOMAIN q : j \in Nat /\ (j = 1 \/ j - 1 \in DOMAIN r)
    BY <2>1, <2>2
  <2>6. 1 \in DOMAIN q
    BY <2>1, <2>2
  <2> QED
    BY <2>3, <2>4, <2>5, <2>6
<1>3. \A j \in DOMAIN r : j < i /\ r[j].source = s => End(r[j]) <= a
  <2>1. SUFFICES ASSUME NEW j \in DOMAIN r, j < i, r[j].source = s
                 PROVE  End(r[j]) <= a
    OBVIOUS
  <2>2. j + 1 \in DOMAIN q /\ j + 1 < i + 1 /\ r[j] = q[j + 1]
    BY <1>2, <2>1
  <2>3. End(q[j + 1]) <= a
    BY <2>1, <2>2 DEF Precedes
  <2> QED
    BY <2>2, <2>3
<1>4. a = n \/ \E j \in DOMAIN r : j < i /\ r[j].source = s /\ End(r[j]) = a
  <2>1. CASE \E j \in DOMAIN q : j < i + 1 /\ q[j].source = s /\ End(q[j]) = a
    <3>1. PICK j \in DOMAIN q : j < i + 1 /\ q[j].source = s /\ End(q[j]) = a
      BY <2>1
    <3>2. CASE j = 1
      BY <3>1, <3>2
    <3>3. CASE j # 1
      <4>1. j - 1 \in DOMAIN r /\ j - 1 < i /\ r[j - 1] = q[j]
        <5>1. j - 1 \in DOMAIN r /\ j \in Nat
          BY <1>2, <3>3
        <5>2. r[j - 1] = q[(j - 1) + 1]
          BY <1>2, <5>1
        <5> QED
          BY <3>1, <5>1, <5>2
      <4>2. r[j - 1].source = s /\ End(r[j - 1]) = a
        BY <3>1, <4>1
      <4> QED
        BY <4>1, <4>2
    <3> QED
      BY <3>2, <3>3
  <2>2. CASE a = m
    <3>1. CASE q[1].source = s
      <4>1. 1 < i + 1 /\ 1 \in DOMAIN q
        BY <1>2
      <4>2. End(q[1]) <= a
        BY <3>1, <4>1 DEF Precedes
      <4> QED
        BY <2>2, <3>1, <4>2
    <3>2. CASE q[1].source # s
      BY <2>2, <3>2
    <3> QED
      BY <3>1, <3>2
  <2> QED
    BY <2>1, <2>2 DEF Precedes
<1> QED
  BY <1>1, <1>3, <1>4 DEF Precedes

\* A push: the new batch begins where the source's last one ended.
LEMMA BufferPush ==
  ASSUME IInv, BufferInv, NEW s \in Sources, Push(s)
  PROVE  BufferInv'
<1>1. PICK t \in Tasks : /\ tasks' = Append(tasks, t) /\ t.source = s
                         /\ End(t) \in Nat /\ sent[s] < End(t)
                         /\ sent' = [sent EXCEPT ![s] = End(t)]
                         /\ Batch(t.frames, sent[s], End(t))
                         /\ Layouts(t.frames) \subseteq Shapes
                         /\ IsFiniteSet(Layouts(t.frames))
                         /\ shapes' = [shapes EXCEPT ![s] = @ \cup Layouts(t.frames)]
  BY PushedBatch DEF IInv
<1>2. UNCHANGED <<config, slots, running, spc, taken>>
  BY DEF Push, bufferVars
<1>3. /\ tasks \in Seq(Tasks) /\ sent \in [Sources -> Nat] /\ taken \in [Sources -> Nat]
      /\ shapes \in [Sources -> SUBSET Shapes] /\ LayoutInv /\ ChainInv /\ SlotInv
      /\ OrderInv
  BY DEF IInv, Types, BufferInv, SlotInv
<1>4. /\ tasks' \in Seq(Tasks) /\ Len(tasks') = Len(tasks) + 1 /\ Len(tasks) \in Nat
      /\ DOMAIN tasks' = DOMAIN tasks \cup {Len(tasks) + 1}
      /\ \A i \in DOMAIN tasks : i \in Nat /\ i < Len(tasks) + 1 /\ tasks'[i] = tasks[i]
      /\ tasks'[Len(tasks) + 1] = t
  BY <1>1, <1>3, AppendFacts
<1>5. \A i \in DOMAIN tasks : tasks[i].source \in Sources
  <2>1. \A i \in DOMAIN tasks : tasks[i] \in Tasks
    BY <1>3
  <2> QED
    BY <2>1 DEF Tasks
<1>6. \A r \in Sources : shapes[r] \subseteq shapes'[r] /\ shapes'[r] \subseteq Shapes
  BY <1>1, <1>3
<1>7. LayoutInv'
  <2>1. \A r \in Sources : IsFiniteSet(shapes'[r])
    <3>1. shapes'[s] = shapes[s] \cup Layouts(t.frames) /\ \A r \in Sources : r # s => shapes'[r] = shapes[r]
      BY <1>1, <1>3
    <3>2. IsFiniteSet(shapes[s]) /\ \A r \in Sources : IsFiniteSet(shapes[r])
      BY <1>3 DEF LayoutInv
    <3>3. IsFiniteSet(shapes[s] \cup Layouts(t.frames))
      BY <1>1, <3>2, FS_Union
    <3> QED
      BY <3>1, <3>2, <3>3
  <2>2. \A i \in DOMAIN tasks : Layouts(tasks'[i].frames) \subseteq shapes'[tasks'[i].source]
    BY <1>3, <1>4, <1>5, <1>6 DEF LayoutInv, Layouts
  <2>3. Layouts(t.frames) \subseteq shapes'[s]
    BY <1>1, <1>3
  <2>4. \A i \in DOMAIN tasks' : Layouts(tasks'[i].frames) \subseteq shapes'[tasks'[i].source]
    BY <1>1, <1>4, <2>2, <2>3
  <2> QED
    BY <2>1, <2>4 DEF LayoutInv, Layouts
<1>8. ASSUME running, NEW r \in Sources, Buffered(r)
      PROVE  /\ Precedes(tasks', Len(tasks') + 1, r, taken[r], sent'[r])
             /\ \A i \in DOMAIN tasks' : tasks'[i].source = r =>
                  \E a \in Nat : /\ Batch(tasks'[i].frames, a, End(tasks'[i]))
                                 /\ Precedes(tasks', i, r, taken[r], a)
  <2>1. /\ Precedes(tasks, Len(tasks) + 1, r, taken[r], sent[r])
        /\ \A i \in DOMAIN tasks : tasks[i].source = r =>
             \E a \in Nat : /\ Batch(tasks[i].frames, a, End(tasks[i]))
                            /\ Precedes(tasks, i, r, taken[r], a)
    BY <1>3, <1>8 DEF ChainInv
  <2>2. Precedes(tasks', Len(tasks) + 1, r, taken[r], sent[r])
    BY <1>1, <1>3, <1>4, <2>1, PrecedesAppend
  <2>3. Precedes(tasks', Len(tasks') + 1, r, taken[r], sent'[r])
    <3>1. CASE r = s
      <4>1. sent'[r] = End(t)
        BY <1>1, <1>3, <3>1
      <4>2. \A j \in DOMAIN tasks : tasks[j].source = r => End(tasks[j]) \in Nat /\ End(tasks[j]) <= sent[r]
        BY <1>3 DEF OrderInv
      <4>3. \A j \in DOMAIN tasks : tasks[j].source = r => End(tasks[j]) <= End(t)
        <5>1. sent[r] \in Nat /\ sent[r] < End(t)
          BY <1>1, <1>3, <3>1
        <5> QED
          BY <1>1, <4>2, <5>1
      <4>4. \A j \in DOMAIN tasks' : tasks'[j].source = r => End(tasks'[j]) <= sent'[r]
        BY <1>1, <1>4, <4>1, <4>3
      <4>5. \E j \in DOMAIN tasks' : j < Len(tasks') + 1 /\ tasks'[j].source = r /\ End(tasks'[j]) = sent'[r]
        BY <1>1, <1>4, <3>1, <4>1
      <4> QED
        BY <4>4, <4>5 DEF Precedes
    <3>2. CASE r # s
      <4>1. sent'[r] = sent[r]
        BY <1>1, <1>3, <3>2
      <4>2. \A j \in DOMAIN tasks' : tasks'[j].source = r => j < Len(tasks) + 1
        BY <1>1, <1>4, <3>2
      <4>3. \A j \in DOMAIN tasks' : tasks'[j].source = r => End(tasks'[j]) <= sent[r]
        BY <2>2, <4>2 DEF Precedes
      <4>4. \/ sent[r] = taken[r]
            \/ \E j \in DOMAIN tasks' : j < Len(tasks) + 1 /\ tasks'[j].source = r /\ End(tasks'[j]) = sent[r]
        BY <2>2 DEF Precedes
      <4>5. \A j \in DOMAIN tasks' : j \in Nat /\ j < Len(tasks') + 1
        BY <1>4
      <4>6. \/ sent[r] = taken[r]
            \/ \E j \in DOMAIN tasks' : j < Len(tasks') + 1 /\ tasks'[j].source = r /\ End(tasks'[j]) = sent[r]
        BY <4>4, <4>5
      <4> QED
        BY <4>1, <4>3, <4>6 DEF Precedes
    <3> QED
      BY <3>1, <3>2
  <2>4. ASSUME NEW i \in DOMAIN tasks', tasks'[i].source = r
        PROVE  \E a \in Nat : /\ Batch(tasks'[i].frames, a, End(tasks'[i]))
                              /\ Precedes(tasks', i, r, taken[r], a)
    <3>1. CASE i \in DOMAIN tasks
      <4>1. i \in Nat /\ i <= Len(tasks) + 1 /\ tasks'[i] = tasks[i]
        BY <1>4, <3>1
      <4>2. PICK a \in Nat : Batch(tasks[i].frames, a, End(tasks[i])) /\ Precedes(tasks, i, r, taken[r], a)
        BY <2>1, <2>4, <3>1, <4>1
      <4>3. Precedes(tasks', i, r, taken[r], a)
        BY <1>1, <1>3, <4>1, <4>2, PrecedesAppend
      <4> QED
        BY <4>1, <4>2, <4>3
    <3>2. CASE i = Len(tasks) + 1
      <4>1. tasks'[i] = t /\ r = s
        BY <1>1, <1>4, <2>4, <3>2
      <4>2. sent[s] \in Nat
        BY <1>3
      <4> QED
        BY <1>1, <2>2, <3>2, <4>1, <4>2
    <3> QED
      BY <1>4, <3>1, <3>2
  <2> QED
    BY <2>3, <2>4
<1>9. ChainInv'
  BY <1>2, <1>8 DEF ChainInv, Buffered
<1>10. SlotInv'
  <2>1. \A r \in Sources : OneLayout(r)' => OneLayout(r)
    BY <1>6 DEF OneLayout
  <2>2. \A r \in Sources : Sized(slots[r])'
    BY <1>2, <1>3 DEF SlotInv, Sized
  <2>3. ASSUME Live', NEW r \in Sources, OneLayout(r)'
        PROVE  /\ Newest(slots[r], taken[r])'
               /\ slots'[r].shape \in shapes'[r] \cup {NoShape}
               /\ slots'[r].shape = NoShape => taken'[r] = 0
    <3>1. Live
      BY <1>2, <2>3 DEF Live
    <3>2. /\ Newest(slots[r], taken[r]) /\ slots[r].shape \in shapes[r] \cup {NoShape}
          /\ slots[r].shape = NoShape => taken[r] = 0
      BY <1>3, <2>1, <2>3, <3>1 DEF SlotInv
    <3>3. Newest(slots[r], taken[r])'
      BY <1>2, <3>2 DEF Newest, Depth
    <3> QED
      BY <1>2, <1>6, <3>2, <3>3
  <2>4. shapes' \in [Sources -> SUBSET Shapes] /\ slots' \in [Sources -> SlotType]
    BY <1>1, <1>2, <1>3 DEF SlotInv
  <2> QED
    BY <2>2, <2>3, <2>4 DEF SlotInv
<1> QED
  BY <1>7, <1>9, <1>10 DEF BufferInv

\* ingest() takes the batch at the front into the slot of its source.
LEMMA BufferTaken ==
  ASSUME IInv, BufferInv, TaskBegin, NEW s \in Sources, s = Head(tasks).source, Buffered(s),
         NEW new, new = Ingested(slots[s], Head(tasks).frames)
  PROVE  /\ Sized(new)
         /\ OneLayout(s) => /\ Newest(new, End(Head(tasks)))
                            /\ new.shape \in shapes[s] \cup {NoShape}
                            /\ new.shape = NoShape => End(Head(tasks)) = 0
<1>1. PICK t : t = Head(tasks)
  OBVIOUS
<1>2. /\ tasks \in Seq(Tasks) /\ tasks # <<>> /\ running /\ config \in Configs
      /\ taken[s] \in Nat /\ ChainInv /\ SlotInv /\ LayoutInv /\ OrderInv
  BY DEF IInv, Types, TaskBegin, BufferInv
<1>3. 1 \in DOMAIN tasks /\ t = tasks[1] /\ t \in Tasks /\ t.source = s /\ t.frames \in Seq(Frames)
  <2>1. 1 \in DOMAIN tasks /\ t = tasks[1] /\ t \in Tasks /\ t.source = s
    BY <1>1, <1>2
  <2> QED
    BY <2>1 DEF Tasks
<1>4. PICK a \in Nat : Batch(t.frames, a, End(t)) /\ Precedes(tasks, 1, s, taken[s], a)
  BY <1>2, <1>3 DEF ChainInv
<1>5. a = taken[s]
  <2>1. \A j \in DOMAIN tasks : ~(j < 1)
    BY <1>2
  <2> QED
    BY <1>4, <2>1 DEF Precedes
<1>6. Sized(slots[s]) /\ shapes[s] \subseteq Shapes
  BY <1>2 DEF SlotInv
<1>7. PICK old : old = slots[s]
  OBVIOUS
<1>8. PICK frames \in Seq(Frames) : frames = t.frames /\ frames # <<>>
  BY <1>3, <1>4 DEF Batch
<1>9. new = Ingested(old, frames)
  BY <1>1, <1>7, <1>8
<1>10. Sized(new)
  BY <1>2, <1>6, <1>7, <1>8, <1>9, IngestSized
<1>11. ASSUME OneLayout(s)
       PROVE  /\ Newest(new, End(t))
              /\ new.shape \in shapes[s] \cup {NoShape}
              /\ new.shape = NoShape => End(t) = 0
  <2>1. Live
    BY DEF TaskBegin, IInv, StopInv, Live
  <2>2. /\ Newest(old, a) /\ old.shape \in shapes[s] \cup {NoShape}
        /\ old.shape = NoShape => a = 0
    BY <1>2, <1>5, <1>7, <1>11, <2>1 DEF SlotInv
  <2>3. PICK cut : Cut(frames, a, cut) /\ cut[Len(frames)] = End(t)
    BY <1>4, <1>8 DEF Batch
  <2>4. Layouts(frames) \subseteq shapes[s]
    BY <1>2, <1>3, <1>8 DEF LayoutInv
  <2>5. PICK h : h = frames[1].shape
    OBVIOUS
  <2>6. 1 \in DOMAIN frames
    BY <1>8
  <2>7. h \in shapes[s] /\ h \in Shapes /\ \A k \in DOMAIN frames : frames[k].shape = h
    BY <1>6, <1>11, <2>4, <2>5, <2>6 DEF Layouts, OneLayout
  <2>8. old.shape \in {NoShape, h}
    BY <1>11, <2>2, <2>7 DEF OneLayout
  <2>9. /\ Newest(new, cut[Len(frames)]) /\ new.shape \in {NoShape, h}
        /\ new.shape = NoShape => cut[Len(frames)] = 0
    BY <1>2, <1>8, <1>9, <2>2, <2>3, <2>7, <2>8, IngestNewest
  <2> QED
    BY <2>3, <2>7, <2>9
<1> QED
  BY <1>1, <1>10, <1>11

\* A batch is taken in: what precedes the others moves up.
LEMMA BufferTake ==
  ASSUME IInv, BufferInv, TaskBegin
  PROVE  BufferInv'
<1>1. /\ tasks # <<>> /\ running /\ tasks' = Tail(tasks)
      /\ UNCHANGED <<config, sent, running, spc, shapes>>
  BY DEF TaskBegin
<1>2. PICK s : s = Head(tasks).source
  OBVIOUS
<1>3. PICK e : e = End(Head(tasks))
  OBVIOUS
<1>4. /\ tasks \in Seq(Tasks) /\ taken \in [Sources -> Nat] /\ sent \in [Sources -> Nat]
      /\ slots \in [Sources -> SlotType] /\ shapes \in [Sources -> SUBSET Shapes]
      /\ ChainInv /\ SlotInv /\ LayoutInv
  BY DEF IInv, Types, BufferInv, SlotInv
<1>5. /\ s \in Sources /\ s = tasks[1].source /\ e = End(tasks[1]) /\ e \in Nat /\ taken[s] < e
      /\ 1 \in DOMAIN tasks /\ Len(tasks) \in Nat /\ Len(tasks') = Len(tasks) - 1
      /\ tasks' \in Seq(Tasks)
      /\ \A i \in DOMAIN tasks' :
           i \in Nat /\ i + 1 \in DOMAIN tasks /\ 1 < i + 1 /\ tasks'[i] = tasks[i + 1]
  BY <1>1, <1>2, <1>3, FrontTask DEF IInv, OrderInv
<1>6. /\ slots' = IF Buffered(s)
                  THEN [slots EXCEPT ![s] = Ingested(slots[s], Head(tasks).frames)] ELSE slots
      /\ taken' = IF Buffered(s) THEN [taken EXCEPT ![s] = e] ELSE taken
  BY <1>2, <1>3 DEF TaskBegin, End
<1>7. LayoutInv'
  <2>1. \A i \in DOMAIN tasks' : Layouts(tasks'[i].frames) \subseteq shapes'[tasks'[i].source]
    BY <1>1, <1>4, <1>5 DEF LayoutInv
  <2> QED
    BY <1>1, <1>4, <2>1 DEF LayoutInv
<1>8. ASSUME NEW r \in Sources, Buffered(r)
      PROVE  /\ Precedes(tasks', Len(tasks') + 1, r, taken'[r], sent[r])
             /\ \A i \in DOMAIN tasks' : tasks'[i].source = r =>
                  \E a \in Nat : /\ Batch(tasks'[i].frames, a, End(tasks'[i]))
                                 /\ Precedes(tasks', i, r, taken'[r], a)
  <2>1. /\ Precedes(tasks, Len(tasks) + 1, r, taken[r], sent[r])
        /\ \A i \in DOMAIN tasks : tasks[i].source = r =>
             \E a \in Nat : /\ Batch(tasks[i].frames, a, End(tasks[i]))
                            /\ Precedes(tasks, i, r, taken[r], a)
    BY <1>1, <1>4, <1>8 DEF ChainInv
  <2>2. PICK m \in Nat, n \in Nat : m = taken[r] /\ n = taken'[r]
    BY <1>4, <1>5, <1>6
  <2>3. /\ tasks[1].source = r => n = End(tasks[1]) /\ m < n /\ n \in Nat
        /\ tasks[1].source # r => n = m
    <3>1. CASE r = s
      BY <1>4, <1>5, <1>6, <1>8, <2>2, <3>1
    <3>2. CASE r # s
      BY <1>4, <1>5, <1>6, <2>2, <3>2
    <3> QED
      BY <3>1, <3>2
  <2>4. ASSUME NEW i \in Nat, 1 <= i, NEW a, Precedes(tasks, i + 1, r, m, a)
        PROVE  Precedes(tasks', i, r, n, a)
    BY <1>1, <1>4, <2>3, <2>4, PrecedesTail
  <2>5. Precedes(tasks', Len(tasks') + 1, r, n, sent[r])
    <3>1. Len(tasks') + 1 \in Nat /\ 1 <= Len(tasks') + 1 /\ (Len(tasks') + 1) + 1 = Len(tasks) + 1
      BY <1>4, <1>5
    <3> QED
      BY <2>1, <2>2, <2>4, <3>1
  <2>6. ASSUME NEW i \in DOMAIN tasks', tasks'[i].source = r
        PROVE  \E a \in Nat : Batch(tasks'[i].frames, a, End(tasks'[i])) /\ Precedes(tasks', i, r, n, a)
    <3>1. i \in Nat /\ 1 <= i /\ i + 1 \in DOMAIN tasks /\ tasks'[i] = tasks[i + 1]
      BY <1>5
    <3>2. PICK a \in Nat : /\ Batch(tasks[i + 1].frames, a, End(tasks[i + 1]))
                           /\ Precedes(tasks, i + 1, r, m, a)
      BY <2>1, <2>2, <2>6, <3>1
    <3>3. Precedes(tasks', i, r, n, a)
      BY <2>4, <3>1, <3>2
    <3> QED
      BY <3>1, <3>2, <3>3
  <2> QED
    BY <2>2, <2>5, <2>6
<1>9. ChainInv'
  BY <1>1, <1>8 DEF ChainInv, Buffered
<1>10. \A r \in Sources : r # s => slots'[r] = slots[r] /\ taken'[r] = taken[r]
  BY <1>4, <1>6
<1>11. CASE Buffered(s)
  <2>1. PICK new : new = Ingested(slots[s], Head(tasks).frames)
    OBVIOUS
  <2>2. /\ Sized(new)
        /\ OneLayout(s) => /\ Newest(new, e) /\ new.shape \in shapes[s] \cup {NoShape}
                           /\ new.shape = NoShape => e = 0
    BY <1>2, <1>3, <1>5, <1>11, <2>1, BufferTaken
  <2>3. slots' = [slots EXCEPT ![s] = new] /\ taken' = [taken EXCEPT ![s] = e]
    BY <1>6, <1>11, <2>1
  <2>4. slots'[s] = new /\ taken'[s] = e
    BY <1>4, <1>5, <2>3
  <2>5. slots' \in [Sources -> SlotType]
    BY <1>4, <2>2, <2>3 DEF Sized
  <2>6. Sized(slots'[s]) /\ \A r \in Sources : Sized(slots[r])
    BY <1>4, <2>2, <2>4 DEF SlotInv
  <2>7. \A r \in Sources : Sized(slots'[r])
    BY <1>10, <2>6
  <2>8. ASSUME NEW r \in Sources, OneLayout(r), Live
        PROVE  /\ Newest(slots'[r], taken'[r])
               /\ slots'[r].shape \in shapes[r] \cup {NoShape}
               /\ slots'[r].shape = NoShape => taken'[r] = 0
    <3>1. CASE r = s
      BY <2>2, <2>4, <2>8, <3>1
    <3>2. CASE r # s
      BY <1>4, <1>10, <2>8, <3>2 DEF SlotInv
    <3> QED
      BY <3>1, <3>2
  <2>9. SlotInv'
    BY <1>1, <1>4, <2>5, <2>7, <2>8 DEF SlotInv, Sized, Newest, Depth, OneLayout, Live
  <2> QED
    BY <1>7, <1>9, <2>9 DEF BufferInv
<1>12. CASE ~Buffered(s)
  <2>1. slots' = slots /\ taken' = taken
    BY <1>6, <1>12
  <2>2. SlotInv'
    BY <1>1, <1>4, <2>1 DEF SlotInv, Sized, Newest, Depth, OneLayout, Live
  <2> QED
    BY <1>7, <1>9, <2>2 DEF BufferInv
<1> QED
  BY <1>11, <1>12

\* A step that takes no batch in and queues none.
LEMMA BufferQuiet ==
  ASSUME IInv, BufferInv, UNCHANGED <<config, sent, tasks, slots, taken, shapes>>,
         running' => running, Live' => Live
  PROVE  BufferInv'
<1>1. LayoutInv'
  BY DEF BufferInv, LayoutInv
<1>2. ChainInv'
  BY DEF BufferInv, ChainInv, Buffered
<1>3. SlotInv'
  BY DEF BufferInv, SlotInv, Sized, Newest, Depth, OneLayout
<1> QED
  BY <1>1, <1>2, <1>3 DEF BufferInv

\* A processor just started has taken nothing in.
LEMMA BufferInit == Init => BufferInv
<1> SUFFICES ASSUME Init PROVE BufferInv
  OBVIOUS
<1>1. /\ tasks = <<>> /\ slots = [s \in Sources |-> EmptySlot] /\ shapes = [s \in Sources |-> {}]
      /\ taken = [s \in Sources |-> 0] /\ sent = [s \in Sources |-> 0] /\ config \in Configs
  BY DEF Init
<1>2. LayoutInv
  BY <1>1, FS_EmptySet DEF LayoutInv
<1>3. ChainInv
  BY <1>1 DEF ChainInv, Precedes
<1>4. PICK z : z = EmptySlot
  OBVIOUS
<1>5. /\ z \in SlotType /\ z.ts = <<>> /\ z.vals = <<>> /\ z.shape = NoShape
      /\ Len(z.ts) = 0 /\ Len(z.vals) = 0
  BY <1>4 DEF EmptySlot, SlotType
<1>6. config.maxDepth \in Nat
  BY <1>1, BufferConfig
<1>7. Sized(z)
  BY <1>5, <1>6 DEF Sized
<1>8. Newest(z, 0)
  <2>1. 0 - 0 + 1 = 1 /\ Run(1, 0) \in Seq(Nat) /\ Len(Run(1, 0)) = 0
    <3>1. /\ Run(1, 0) \in Seq(Nat) /\ Len(Run(1, 0)) = 0 - 1 + 1
      BY RunType
    <3> QED
      BY <3>1
  <2>2. Run(1, 0) = <<>>
    BY <2>1
  <2>3. Depth(0) = 0
    BY <1>6 DEF Depth
  <2> QED
    BY <1>5, <2>1, <2>2, <2>3 DEF Newest
<1>9. SlotInv
  BY <1>1, <1>4, <1>5, <1>7, <1>8 DEF SlotInv
<1> QED
  BY <1>2, <1>3, <1>9 DEF BufferInv

\* Every step of the readers, the pool thread and stop() keeps the slots as they should be.
LEMMA BufferStep == IInv /\ BufferInv /\ [Next]_vars => BufferInv'
<1> SUFFICES ASSUME IInv, BufferInv, [Next]_vars PROVE BufferInv'
  OBVIOUS
<1>1. ASSUME NEW s \in Sources, Push(s) PROVE BufferInv'
  BY <1>1, BufferPush
<1>2. CASE TaskBegin
  BY <1>2, BufferTake
<1>3. CASE TaskSkipped
  <2>1. /\ tasks # <<>> /\ tasks' = Tail(tasks) /\ ~running'
        /\ UNCHANGED <<config, slots, spc, taken, shapes>>
    BY <1>3 DEF TaskSkipped, bufferVars, historyVars
  <2>2. /\ tasks \in Seq(Tasks) /\ SlotInv /\ LayoutInv
        /\ \A i \in DOMAIN tasks' : i + 1 \in DOMAIN tasks /\ tasks'[i] = tasks[i + 1]
    BY <2>1, FrontTask DEF IInv, Types, BufferInv
  <2>3. LayoutInv'
    BY <2>1, <2>2 DEF LayoutInv
  <2>4. ChainInv'
    BY <2>1 DEF ChainInv
  <2>5. SlotInv'
    BY <2>1, <2>2 DEF SlotInv, Sized, Newest, Depth, OneLayout, Live
  <2> QED
    BY <2>3, <2>4, <2>5 DEF BufferInv
<1>4. CASE StopClear
  <2>1. /\ ~Live' /\ slots' = [s \in Sources |-> EmptySlot]
        /\ UNCHANGED <<config, sent, tasks, running, taken, shapes>>
    BY <1>4 DEF StopClear, historyVars, Live
  <2>2. LayoutInv' /\ ChainInv'
    BY <2>1 DEF BufferInv, LayoutInv, ChainInv, Buffered
  <2>3. PICK z : z = EmptySlot
    OBVIOUS
  <2>4. z \in SlotType /\ z.ts = <<>> /\ z.vals = <<>> /\ Len(z.ts) = 0 /\ Len(z.vals) = 0
    BY <2>3 DEF EmptySlot, SlotType
  <2>5. config.maxDepth \in Nat
    BY BufferConfig DEF IInv, Types
  <2>6. Sized(z)
    BY <2>4, <2>5 DEF Sized
  <2>7. \A s \in Sources : slots'[s] = z
    BY <2>1, <2>3
  <2>8. \A s \in Sources : Sized(slots[s])'
    BY <2>1, <2>6, <2>7 DEF Sized
  <2>9. slots' \in [Sources -> SlotType] /\ shapes' \in [Sources -> SUBSET Shapes]
    BY <2>1, <2>3, <2>4 DEF BufferInv, SlotInv
  <2>10. SlotInv'
    BY <2>1, <2>8, <2>9 DEF SlotInv
  <2> QED
    BY <2>2, <2>10 DEF BufferInv
<1>5. CASE \/ Compute \/ ComputeFails \/ PushOutput \/ TaskFinish \/ TaskNotify
           \/ StopBegin \/ StopTest \/ StopBlock \/ StopSpuriousWakeup \/ Destroy \/ UNCHANGED vars
  <2>1. UNCHANGED <<config, sent, tasks, slots, taken, shapes>> /\ (running' => running)
    BY <1>5 DEF Compute, ComputeFails, PushOutput, TaskFinish, TaskNotify, StopBegin, StopTest,
                StopBlock, StopSpuriousWakeup, Destroy, vars, bufferVars, historyVars
  <2>2. Live' => Live
    BY <1>5 DEF Compute, ComputeFails, PushOutput, TaskFinish, TaskNotify, StopBegin, StopTest,
                StopBlock, StopSpuriousWakeup, Destroy, vars, Live
  <2> QED
    BY <2>1, <2>2, BufferQuiet
<1> QED
  BY <1>1, <1>2, <1>3, <1>4, <1>5 DEF Next, Terminated

-----------------------------------------------------------------------------
(* The theorems.                                                            *)

\* Once stop() has seen pending_tasks_ at zero no task waits or is at work, for
\* any number of readers, sources and queued batches: the buffer is cleared and
\* the processor destroyed with the pool thread at rest, but for its notify.
THEOREM StopIsQuiet == Spec => []QuietAfterStop
<1>1. Init => IInv
  BY InitIInv
<1>2. IInv /\ [Next]_vars => IInv'
  BY NextIInv
<1>3. IInv => QuietAfterStop
  <2>1. SUFFICES ASSUME IInv, spc \in {"clear", "stopped", "destroyed"}
                 PROVE  tasks = <<>> /\ tpc \in {"idle", "notify"}
    BY DEF QuietAfterStop
  <2>2. tasks \in Seq(Tasks) /\ Len(tasks) + AtWork = 0
    BY <2>1 DEF IInv, Types, StopInv, CountInv
  <2>3. Len(tasks) = 0 /\ AtWork = 0
    BY <2>2 DEF AtWork
  <2>4. QED
    BY <2>1, <2>2, <2>3 DEF AtWork, IInv, Types
<1>4. QED
  BY <1>1, <1>2, <1>3, PTL DEF Spec

\* all-updated computes only when every source it waits for has sent something
\* since it last computed, whatever sources are configured or seen, how often a
\* source is listed, and which computations failed.
THEOREM AllUpdatedFiresFresh == Spec => []AllUpdatedIsFresh
<1>1. Init => IInv
  BY InitIInv
<1>2. IInv /\ [Next]_vars => IInv'
  BY NextIInv
<1>3. IInv => AllUpdatedIsFresh
  BY DEF IInv
<1>4. QED
  BY <1>1, <1>2, <1>3, PTL DEF Spec

\* Between two tasks all-updated is waiting for a source that has sent nothing
\* since it last fired, provided no source is configured twice: the code
\* compares the number of fresh sources with the length of the list, so that a
\* list with a source named twice never fires.
THEOREM AllUpdatedFiresAtOnce ==
  ASSUME DistinctSources
  PROVE  Spec => []NoMissedFiring
<1>1. Init => IInv /\ WaitInv
  <2>1. Init => WaitInv
    BY DEF Init, WaitInv
  <2>2. QED
    BY <2>1, InitIInv
<1>2. (IInv /\ WaitInv) /\ [Next]_vars => (IInv /\ WaitInv)'
  BY NextIInv, WaitInvStep
<1>3. IInv /\ WaitInv => NoMissedFiring
  <2>1. SUFFICES ASSUME IInv, WaitInv, running, config.trigger = "all-updated", Needed # {}
                 PROVE  \E s \in Needed : taken[s] = fired[s]
    BY DEF NoMissedFiring
  <2>2. Live
    BY <2>1 DEF IInv, StopInv, Live
  <2>3. fresh # Needed /\ fresh \subseteq Needed
    BY <2>1, <2>2 DEF IInv, WaitInv, FreshInv
  <2>4. Needed \subseteq Sources
    <3>1. config.required \in Seq(Sources)
      BY <2>1, ConfigTypes DEF IInv, Types
    <3>2. QED
      BY <2>1, <3>1, ListCardinality DEF Needed, IInv, Types
  <2>5. PICK s \in Needed : s \notin fresh
    BY <2>3
  <2>6. QED
    BY <2>1, <2>2, <2>4, <2>5 DEF IInv, FreshInv
<1>4. QED
  BY <1>1, <1>2, <1>3, PTL DEF Spec

\* While a source keeps its layout its slot holds the newest samples the buffer has taken in,
\* each value beside its timestamp and as many as max_depth allows, and no slot outgrows
\* max_depth, whatever batches, layouts and policies.
THEOREM SlotsHoldNewest == Spec => []SlotIsNewest
<1>1. IInv /\ BufferInv => SlotIsNewest
  <2> SUFFICES ASSUME IInv, BufferInv PROVE SlotIsNewest
    OBVIOUS
  <2>1. SlotInv /\ LayoutInv
    BY DEF BufferInv
  <2>2. ASSUME NEW s \in Sources, spc \in {"none", "test", "blocking", "asleep"},
               Cardinality(shapes[s]) = 1
        PROVE  /\ slots[s].vals = slots[s].ts
               /\ slots[s].ts = Run(taken[s] - Len(slots[s].ts) + 1, taken[s])
               /\ ~config.latest => Len(slots[s].ts) = Depth(taken[s])
    <3>1. IsFiniteSet(shapes[s])
      BY <2>1 DEF LayoutInv
    <3>2. PICK h : shapes[s] = {h}
      BY <2>2, <3>1, FS_Singleton
    <3>3. OneLayout(s)
      BY <3>2 DEF OneLayout
    <3>4. Live
      BY <2>2 DEF Live
    <3> QED
      BY <2>1, <3>3, <3>4 DEF SlotInv, Newest
  <2>3. \A s \in Sources : /\ config.maxDepth > 0 => Len(slots[s].ts) <= config.maxDepth
                           /\ Len(slots[s].vals) <= Len(slots[s].ts)
    BY <2>1 DEF SlotInv, Sized
  <2> QED
    BY <2>2, <2>3 DEF SlotIsNewest, Depth
<1> QED
  BY <1>1, InitIInv, NextIInv, BufferInit, BufferStep, PTL DEF Spec
=============================================================================
