------------------------------ MODULE TaskWatch ------------------------------
(***************************************************************************)
(* The detail dialog of the task lists (UserTasksPage.tsx, and the same     *)
(* functions in AdminTasksPage.tsx): openDetail loads a task and, while the *)
(* task runs, an interval loads it again every three seconds.  The handle   *)
(* of the interval is kept in a ref that the next openDetail overwrites; a  *)
(* tick whose request is under way when its interval is cleared still       *)
(* applies its answer.                                                      *)
(***************************************************************************)
EXTENDS Integers, FiniteSets

CONSTANTS Tasks,      \* ids of tasks
          MaxTimers   \* bound: intervals running at once

NoTask == [id |-> 0, over |-> FALSE]
NoTimer == 0
Timers == 1 .. MaxTimers

VARIABLES
  ended,     \* the tasks that are over at the server
  detail,    \* the task in the dialog, as it was read
  opening,   \* openDetail calls under way: task -> "no", "asked" or [over]
  timers,    \* running intervals: handle -> the task it reloads, or 0
  handle,    \* autoRefreshRef.current
  ticks,     \* requests of ticks under way: [id, over]
  onPage,    \* the page is mounted
  crossed    \* history: a late answer was applied

watchVars == <<ended, detail, opening, timers, handle, ticks, onPage, crossed>>

WatchInit ==
  /\ ended = {} /\ detail = NoTask
  /\ opening = [t \in Tasks |-> "no"]
  /\ timers = [h \in Timers |-> 0] /\ handle = NoTimer
  /\ ticks = {} /\ onPage = TRUE /\ crossed = FALSE

TaskEndsAtServer(t) ==
  /\ t \notin ended /\ ended' = ended \cup {t}
  /\ UNCHANGED <<detail, opening, timers, handle, ticks, onPage, crossed>>

\* clearInterval of what the ref holds; an old handle clears nothing.
stopAutoRefresh ==
  /\ timers' = IF handle = NoTimer THEN timers ELSE [timers EXCEPT ![handle] = 0]
  /\ handle' = NoTimer

\* A row can be clicked while no dialog covers the list. The same task is not
\* clicked again while its answer is awaited: that adds nothing to two tasks.
OpenDetail(t) ==
  /\ onPage /\ detail = NoTask /\ opening[t] = "no"
  /\ stopAutoRefresh
  /\ opening' = [opening EXCEPT ![t] = "asked"]
  /\ UNCHANGED <<ended, detail, ticks, onPage, crossed>>

ServeDetail(t) ==
  /\ opening[t] = "asked"
  /\ opening' = [opening EXCEPT ![t] = IF t \in ended THEN "over" ELSE "running"]
  /\ UNCHANGED <<ended, detail, timers, handle, ticks, onPage, crossed>>

Others(t) == \E u \in Tasks \ {t} : opening[u] # "no"

\* The interval starts whether or not the page is still there, and its handle
\* replaces the one in the ref.
DetailLands(t) ==
  /\ opening[t] \in {"over", "running"}
  /\ opening' = [opening EXCEPT ![t] = "no"]
  /\ detail' = IF onPage THEN [id |-> t, over |-> opening[t] = "over"] ELSE detail
  /\ IF opening[t] = "running"
       THEN \E h \in Timers :
              /\ timers[h] = 0 /\ \A g \in 1 .. (h - 1) : timers[g] # 0
              /\ timers' = [timers EXCEPT ![h] = t]
              /\ handle' = h
       ELSE UNCHANGED <<timers, handle>>
  /\ crossed' = (crossed \/ ~onPage \/ detail # NoTask \/ Others(t))
  /\ UNCHANGED <<ended, ticks, onPage>>

DetailFails(t) ==
  /\ opening[t] # "no"
  /\ opening' = [opening EXCEPT ![t] = "no"]
  /\ UNCHANGED <<ended, detail, timers, handle, ticks, onPage, crossed>>

\* Three seconds passed: the interval asks again, and the server reads the row.
Tick(h) ==
  /\ timers[h] # 0 /\ Cardinality(ticks) < MaxTimers
  /\ ticks' = ticks \cup {[id |-> timers[h], over |-> timers[h] \in ended]}
  /\ UNCHANGED <<ended, detail, opening, timers, handle, onPage, crossed>>

Held(t) == handle # NoTimer /\ timers[handle] = t

\* Mutant of TickLands: the interval stops without the last answer being shown.
TickLandsUnseen(q) ==
  /\ q \in ticks /\ ticks' = ticks \ {q}
  /\ IF q.over THEN stopAutoRefresh /\ UNCHANGED detail ELSE detail' = q /\ UNCHANGED <<timers, handle>>
  /\ crossed' = (crossed \/ ~Held(q.id) \/ detail.id # q.id \/ detail.over)
  /\ UNCHANGED <<ended, opening, onPage>>

\* setDetail, then the interval in the ref is stopped if this task is over.
TickLands(q) ==
  /\ q \in ticks /\ ticks' = ticks \ {q}
  /\ detail' = IF onPage THEN q ELSE detail
  /\ IF q.over THEN stopAutoRefresh ELSE UNCHANGED <<timers, handle>>
  /\ crossed' = (crossed \/ ~Held(q.id) \/ detail.id # q.id \/ detail.over)
  /\ UNCHANGED <<ended, opening, onPage>>

TickFails(q) ==
  /\ q \in ticks /\ ticks' = ticks \ {q}
  /\ UNCHANGED <<ended, detail, opening, timers, handle, onPage, crossed>>

\* Mutant of CloseDetail: the interval is left running.
CloseDialogOnly ==
  /\ onPage /\ detail # NoTask /\ detail' = NoTask
  /\ UNCHANGED <<ended, opening, timers, handle, ticks, onPage, crossed>>

CloseDetail ==
  /\ onPage /\ detail # NoTask
  /\ stopAutoRefresh /\ detail' = NoTask
  /\ UNCHANGED <<ended, opening, ticks, onPage, crossed>>

\* The cleanup of the effect runs once, with what the ref holds then.
LeavePage ==
  /\ onPage /\ onPage' = FALSE
  /\ stopAutoRefresh /\ detail' = NoTask
  /\ UNCHANGED <<ended, opening, ticks, crossed>>

WatchNext ==
  \/ \E t \in Tasks : TaskEndsAtServer(t) \/ OpenDetail(t) \/ ServeDetail(t) \/ DetailLands(t) \/ DetailFails(t)
  \/ \E h \in Timers : Tick(h)
  \/ \E q \in ticks : TickLands(q) \/ TickFails(q)
  \/ CloseDetail \/ LeavePage

\* The interval fires again and again, and its requests do not fail for ever.
TickLandsFor(t) == \E over \in BOOLEAN : TickLands([id |-> t, over |-> over])
WatchFairness ==
  /\ \A h \in Timers : WF_watchVars(Tick(h))
  /\ \A t \in Tasks : SF_watchVars(TickLandsFor(t))

WatchSpec == WatchInit /\ [][WatchNext]_watchVars /\ WatchFairness

WatchTypeOK ==
  /\ ended \subseteq Tasks /\ detail \in [id : Tasks \cup {0}, over : BOOLEAN]
  /\ opening \in [Tasks -> {"no", "asked", "running", "over"}]
  /\ timers \in [Timers -> Tasks \cup {0}] /\ handle \in Timers \cup {NoTimer}
  /\ ticks \subseteq [id : Tasks, over : BOOLEAN]
  /\ onPage \in BOOLEAN /\ crossed \in BOOLEAN

\* No interval outlives its dialog: what runs is what the ref holds, and it
\* reloads the task on screen. It may break once two openDetail calls overlapped,
\* one was answered after the page was left, or a tick came back late.
TimersFollowDetail ==
  ~crossed => \A h \in Timers : timers[h] # 0 => h = handle /\ detail = [id |-> timers[h], over |-> FALSE]

\* A task on screen as running is shown as over once it is, unless the dialog is
\* closed or a late answer stopped the interval of another task.
ShownTaskCatchesUp ==
  \A t \in Tasks :
    (detail = [id |-> t, over |-> FALSE] /\ t \in ended) ~> (detail # [id |-> t, over |-> FALSE] \/ crossed)
=============================================================================
