----------------------------- MODULE PageTables -----------------------------
(***************************************************************************)
(* The words the pages of the web client are written in, and the shape each *)
(* view of a page gets from them.  A page has views, the data it loads;     *)
(* acts, the handlers that change the server; and controls, the buttons'    *)
(* own conditions.                                                          *)
(***************************************************************************)
EXTENDS Integers, Sequences, TLC

Page(views, acts, controls) == [views |-> views, acts |-> acts, controls |-> controls]

(***************************************************************************)
(* Views.                                                                   *)
(***************************************************************************)
View(kind, name, calls, keys) ==
  [kind |-> kind, name |-> name, calls |-> calls, keys |-> keys,
   loosely |-> FALSE, ticks |-> FALSE, seeds |-> "no", selects |-> FALSE]
\* useAsync(fetcher, initial, keys): keys are the dependencies that ask again.
Hook(name, calls, keys) == View("hook", name, calls, keys)
\* A detail loaded by a click handler, for the row clicked, without a guard.
Detail(name, calls) == View("bare", name, calls, {"row"})
\* The fetcher reads params that are not among its dependencies: only a search asks again.
Loosely(params, view) == [view EXCEPT !.loosely = TRUE, !.keys = params]
Ticking(view) == [view EXCEPT !.ticks = TRUE]
\* An effect fills a form once: with the first data, or with the first outcome ("any").
SeedsOnce(with, view) == [view EXCEPT !.seeds = with]
\* The answer of a detail is itself the form that is edited.
Editing(view) == [view EXCEPT !.seeds = "always"]
\* The fetcher clears the ticked rows.
Selecting(view) == [view EXCEPT !.selects = TRUE]

(***************************************************************************)
(* Acts: the calls a handler awaits one after the other, and the views it   *)
(* reloads when all of them succeeded.                                      *)
(***************************************************************************)
\* Mutant of Do: the handler forgets its reloads.
DoOnly(name, calls, then) ==
  [name |-> name, calls |-> calls, then |-> {}, flag |-> "", saves |-> "", onSelection |-> FALSE, leaves |-> {}]

Do(name, calls, then) ==
  [name |-> name, calls |-> calls, then |-> then, flag |-> "", saves |-> "", onSelection |-> FALSE, leaves |-> {}]
\* setBusy(...) before the calls, reset in finally.
Under(flag, acts) == {[a EXCEPT !.flag = flag] : a \in acts}
\* The handler sends the form that the view filled.
Saving(view, acts) == {[a EXCEPT !.saves = view] : a \in acts}
OnSelection(acts) == {[a EXCEPT !.onSelection = TRUE] : a \in acts}
\* The handler changes what these views show and does not reload them.
LeavesStale(views, acts) == {[a EXCEPT !.leaves = views] : a \in acts}
\* Several one-call handlers that reload the same views.
Each(then, calls) == {Do(c, <<c>>, then) : c \in calls}

(***************************************************************************)
(* Controls.                                                                *)
(***************************************************************************)
Guarded(how, view, names) == [n \in names |-> [how |-> how, view |-> view]]
Free(names) == Guarded("free", "", names)          \* also behind window.confirm
Asks(names) == Guarded("asks", "", names)          \* behind an AlertDialog, which closes on the click
While(names) == Guarded("while", "", names)        \* disabled while the busy flag is set
PerRow(names) == Guarded("perRow", "", names)      \* the flag holds the id of the busy row
WhileLoading(view, names) == Guarded("whileLoading", view, names)
Reloads(views) == Guarded("always", "", views)     \* a button or a search reloads the view
Retries(views) == Guarded("onError", "", views)    \* a button shown with the error reloads it
NoControls == Free({})

(***************************************************************************)
(* The shape of a view together with the acts that share a busy flag.       *)
(***************************************************************************)
Reading(api, view) == {api[c].collection : c \in view.calls}
Changes(api, act, view) == [i \in DOMAIN act.calls |-> LET c == api[act.calls[i]] IN c.sends /\ c.collection \in Reading(api, view)]

ControlOf(page, act, view) ==
  LET c == page.controls[act.name]
  IN IF c.how = "whileLoading" /\ c.view # view.name THEN "while" ELSE c.how

ActShape(api, page, act, view) ==
  [calls |-> Changes(api, act, view), reloads |-> view.name \in act.then, leavesStale |-> view.name \in act.leaves,
   flagged |-> act.flag # "", control |-> ControlOf(page, act, view),
   saves |-> act.saves = view.name, onSelection |-> act.onSelection /\ view.selects]

ReloadOf(page, view) == IF view.name \in DOMAIN page.controls THEN page.controls[view.name].how ELSE "never"

Together(page, act) == {b \in page.acts : b = act \/ (act.flag # "" /\ b.flag = act.flag)}
Concerns(api, act, view) ==
  view.name \in act.then \/ act.saves = view.name \/ \E i \in DOMAIN act.calls : Changes(api, act, view)[i]
ActGroups(api, page, view) ==
  {{}} \cup {Together(page, a) : a \in {b \in page.acts : Concerns(api, b, view) \/ ~\E v \in page.views : Concerns(api, b, v)}}

ShapeOf(api, page, view, group) ==
  [kind |-> view.kind, keyed |-> view.keys # {}, loosely |-> view.loosely, ticks |-> view.ticks, seeds |-> view.seeds,
   selects |-> view.selects, reload |-> ReloadOf(page, view), acts |-> {ActShape(api, page, a, view) : a \in group}]

ShapesOf(api, pages) ==
  UNION {UNION {{ShapeOf(api, p, v, g) : g \in ActGroups(api, p, v)} : v \in p.views} : p \in pages}
=============================================================================
