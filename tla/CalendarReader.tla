-------------------------- MODULE CalendarReader ---------------------------
(***************************************************************************)
(* The SLAC calendar reader.  A scan asks the calendar for one time window *)
(* after the other and turns its events into configurations, pushed at     *)
(* once, and activations, which are merged first: the annotation service   *)
(* refuses an activation that touches another one of the same              *)
(* configuration.  The last run of touching events of a window may go on   *)
(* in the next window, so it is carried over.                              *)
(*                                                                         *)
(* An event is a record [program, calendar, from, to]: two posts of one    *)
(* activity differ in the calendar.  Times are ticks; from = NoTime stands *)
(* for an event without start or end.  Attributes, tags and ids are left   *)
(* out.  One accelerator is modelled: the loop over config_.accels() runs  *)
(* the same scan with fresh state for each.                                *)
(***************************************************************************)
EXTENDS Integers, Sequences, FiniteSets, SequencesExt, FiniteSetsExt

CONSTANTS
  Calendars,       \* the event sets the calendar may hold
  RangeEnd,        \* the scanned range is 0 .. RangeEnd
  WindowLength,    \* fetch-window-days
  MaxScans,        \* bound: scans
  MaxHttpFaults    \* bound: windows whose request or body is bad

VARIABLES
  calendar,        \* the events of the calendar
  oneShot,         \* end-date given or no rescan-interval-sec
  reader,          \* "scanning", "sleeping", "completed" or "stopped"
  winStart,        \* win_start
  seenPosts,       \* seen: the first calendar of a [program, from, to]
  held,            \* pending: activations not pushed yet, two of one as one
  configured,      \* the configuration names pushed so far
  activated,       \* the activations pushed in this scan
  fetched,         \* history: the events fetched in this scan
  intact,          \* history: no window of this scan was bad
  scans,           \* scans begun
  httpFaults       \* bad windows so far

calendarVars ==
  <<calendar, oneShot, reader, winStart, seenPosts, held, configured, activated,
    fetched, intact, scans, httpFaults>>

NoTime == -1
Timed(ev) == ev.from # NoTime

\* The windows make progress (fetch-window-days is refused otherwise), and no
\* event ends before it starts.
ASSUME CalendarAssumption ==
  /\ RangeEnd \in Nat /\ WindowLength \in Nat \ {0}
  /\ \A posts \in Calendars :
       /\ IsFiniteSet(posts)
       /\ \A ev \in posts : Timed(ev) => ev.from \in Int /\ ev.to \in Int /\ ev.from <= ev.to

\* fetchAndPublish(): seen and pending belong to the scan.
FreshScan ==
  /\ winStart' = 0 /\ seenPosts' = {} /\ held' = {} /\ activated' = <<>> /\ fetched' = {}
  /\ intact' = TRUE

CalendarInit ==
  /\ calendar \in Calendars /\ oneShot \in BOOLEAN
  /\ reader = "scanning"
  /\ winStart = 0 /\ seenPosts = {} /\ held = {} /\ activated = <<>> /\ fetched = {}
  /\ intact = TRUE
  /\ configured = {} /\ scans = 1 /\ httpFaults = 0

-----------------------------------------------------------------------------
(* pushEvent(): the configuration's name and its activation                *)

SameSlot(a, b) == a.program = b.program /\ a.from = b.from /\ a.to = b.to

\* A second post of an activity is told apart by its calendar.
NameOf(ev, before) ==
  IF \E first \in before : SameSlot(first, ev) /\ first.calendar # ev.calendar
  THEN <<ev.program, ev.calendar>> ELSE <<ev.program>>

Noted(ev, before) ==
  IF Timed(ev) /\ ~\E first \in before : SameSlot(first, ev)
  THEN before \cup {ev} ELSE before

\* What one event adds to [seen, held, names].
PushEvent(state, ev) ==
  LET name == NameOf(ev, state.seen)
  IN  [seen  |-> Noted(ev, state.seen),
       held  |-> IF Timed(ev)
                 THEN state.held \cup {[name |-> name, from |-> ev.from, to |-> ev.to]}
                 ELSE state.held,
       names |-> state.names \cup {name}]

-----------------------------------------------------------------------------
(* mergeAndPushActivations()                                               *)

\* std::sort by start time; which of two that start together is first is open.
ByStart(acts) ==
  CHOOSE s \in SetToSeqs(acts) : \A i, j \in DOMAIN s : i < j => s[i].from <= s[j].from

Joined(run, act) == [name |-> run.name, from |-> run.from, to |-> Max({run.to, act.to})]

\* Defect: activations that only touch are pushed one by one.
ExtendOverlapping(runs, act) ==
  IF runs # <<>> /\ act.from < Last(runs).to
  THEN [runs EXCEPT ![Len(runs)] = Joined(@, act)]
  ELSE Append(runs, act)

\* Touching or overlapping activations become one that spans them.
Extend(runs, act) ==
  IF runs # <<>> /\ act.from <= Last(runs).to
  THEN [runs EXCEPT ![Len(runs)] = Joined(@, act)]
  ELSE Append(runs, act)

Runs(acts, name) == FoldLeft(Extend, <<>>, ByStart({a \in acts : a.name = name}))

Names(acts) == {a.name : a \in acts}

\* All runs go out in the last window, all but the last of a name before it.
Outgoing(acts, flushAll) ==
  UNION {ToSet(IF flushAll THEN Runs(acts, n) ELSE Front(Runs(acts, n))) : n \in Names(acts)}
CarryOver(acts, flushAll) ==
  IF flushAll THEN {} ELSE {Last(Runs(acts, n)) : n \in Names(acts)}

-----------------------------------------------------------------------------
(* fetchAndPublish() and runWorker()                                       *)

WinEnd == Min({winStart + WindowLength, RangeEnd})

\* The calendar answers with the events that fall into the window.
Answer == {ev \in calendar : IF Timed(ev) THEN ev.from < WinEnd /\ ev.to >= winStart
                             ELSE winStart = 0}

\* One window: fetchAccel, parseAndPush, mergeAndPushActivations.
Window ==
  /\ reader = "scanning" /\ winStart < RangeEnd
  /\ \E order \in SetToSeqs(Answer) :
       LET parsed   == FoldLeft(PushEvent, [seen |-> seenPosts, held |-> held, names |-> configured],
                                order)
           flushAll == WinEnd >= RangeEnd
       IN  /\ seenPosts' = parsed.seen
           /\ configured' = parsed.names
           /\ activated' = activated \o SetToSeq(Outgoing(parsed.held, flushAll))
           /\ held' = CarryOver(parsed.held, flushAll)
  /\ fetched' = fetched \cup Answer
  /\ winStart' = winStart + WindowLength
  /\ UNCHANGED <<calendar, oneShot, reader, intact, scans, httpFaults>>

\* A bad status or body ends the scan: the configurations of the events before
\* the bad one have gone out, and what was held is dropped.
WindowFails ==
  /\ reader = "scanning" /\ winStart < RangeEnd
  /\ httpFaults < MaxHttpFaults /\ httpFaults' = httpFaults + 1
  /\ \E before \in SUBSET Answer : \E order \in SetToSeqs(before) :
       configured' = FoldLeft(PushEvent, [seen |-> seenPosts, held |-> held, names |-> configured],
                              order).names
  /\ winStart' = RangeEnd /\ held' = {} /\ intact' = FALSE
  /\ UNCHANGED <<calendar, oneShot, reader, seenPosts, activated, fetched, scans>>

\* The end of a scan: complete, or wait for the next one.
EndScan ==
  /\ reader = "scanning" /\ winStart >= RangeEnd
  /\ reader' = IF oneShot THEN "completed" ELSE "sleeping"
  /\ UNCHANGED <<calendar, oneShot, winStart, seenPosts, held, configured, activated, fetched,
                 intact, scans, httpFaults>>

Rescan ==
  /\ reader = "sleeping" /\ scans < MaxScans
  /\ reader' = "scanning" /\ scans' = scans + 1
  /\ FreshScan
  /\ UNCHANGED <<calendar, oneShot, configured, httpFaults>>

\* The destructor: the worker leaves at its next test of running_.
Stop ==
  /\ reader \in {"scanning", "sleeping"}
  /\ reader' = "stopped" /\ held' = {}
  /\ UNCHANGED <<calendar, oneShot, winStart, seenPosts, configured, activated, fetched,
                 intact, scans, httpFaults>>

CalendarNext == Window \/ WindowFails \/ EndScan \/ Rescan \/ Stop

CalendarSpec == CalendarInit /\ [][CalendarNext]_calendarVars

-----------------------------------------------------------------------------
(* Properties                                                              *)

\* The ticks x .. x+1 that the posts of a program fill.
Busy(program, x) ==
  \E ev \in fetched : Timed(ev) /\ ev.program = program /\ ev.from <= x /\ x < ev.to

Covers(act, ev) ==
  /\ act.name \in {<<ev.program>>, <<ev.program, ev.calendar>>}
  /\ act.from <= ev.from /\ ev.to <= act.to

\* Within one scan no two activations of a name touch, although events cross
\* the windows' borders and are fetched twice; an activation spans no time in
\* which nothing was posted; its configuration went out before it; and a scan
\* whose windows were all good leaves no event without its activation
\* (mergeAndPushActivations and its carry-over, pushEvent's seen map).
ActivationsExact ==
  /\ \A i, j \in DOMAIN activated :
       (i # j /\ activated[i].name = activated[j].name)
         => (activated[i].to < activated[j].from \/ activated[j].to < activated[i].from)
  /\ \A act \in ToSet(activated) :
       /\ act.name \in configured
       /\ \A x \in act.from .. act.to - 1 : Busy(act.name[1], x)
  /\ intact /\ winStart >= RangeEnd =>
       \A ev \in fetched : Timed(ev) => \E act \in ToSet(activated) : Covers(act, ev)
=============================================================================
