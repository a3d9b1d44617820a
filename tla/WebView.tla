------------------------------- MODULE WebView -------------------------------
(***************************************************************************)
(* One view of a page of the web client: the data it loads, the requests    *)
(* that load it, and the actions of the page that change what it shows.     *)
(* hooks/use-async.ts is the loader of almost every page; a "bare" view is  *)
(* a detail a click handler loads by itself, without a guard against a late *)
(* answer.  A shape (see PageTables) says what kind of view it is and what  *)
(* the actions around it do; pages whose views have one shape behave alike, *)
(* and Init takes any of them.                                              *)
(*                                                                          *)
(* An answer is [key, ver]: which selection (page number, filters, opened   *)
(* row) it is for, and which version of the server's data it was read from. *)
(***************************************************************************)
EXTENDS Integers, Sequences

CONSTANTS Shapes,      \* the shapes of the views
          Keys,        \* the selections a view can be asked for
          Rows,        \* the rows an action can be clicked on
          MaxVersion,  \* bound: changes of the server's data
          MaxFetches,  \* bound: requests of the view under way at once
          MaxActs      \* bound: actions under way at once

ASSUME ViewAssumption ==
  /\ MaxVersion \in Nat \ {0} /\ MaxFetches \in Nat \ {0} /\ MaxActs \in Nat
  /\ Keys # {} /\ Rows # {} /\ 0 \notin Rows \cup Keys
  /\ \A s \in Shapes : s.kind \in {"hook", "bare"} /\ \A a \in s.acts : a.calls \in Seq(BOOLEAN) /\ a.calls # <<>>

\* A busy flag guards all the actions that set it in the same way.
ASSUME FlagAssumption ==
  \A s \in Shapes : \A a, b \in {c \in s.acts : c.flagged} : a.control = b.control

\* What is saved is a form that some answer fills: in a detail, every answer.
ASSUME FormAssumption ==
  \A s \in Shapes : (\E a \in s.acts : a.saves) =>
    s.seeds # "no" /\ (s.kind = "bare" => s.seeds = "always" /\ ~s.loosely)

NoKey == 0
Nothing == [key |-> NoKey, ver |-> 0]    \* no answer yet, no draft, no selection
Slots == 1 .. MaxFetches
Doers == 1 .. MaxActs

VARIABLES
  shape,    \* what view this is
  key,      \* the selection the page is on
  asked,    \* the selection of the request made last
  fetches,  \* requests under way: slot -> [key, ver (0: not served yet), live]
  shown,    \* state.data
  loading,  \* state.loading
  error,    \* state.error
  server,   \* the version of the data behind the view
  draft,    \* the form filled from the answer
  chosen,   \* the answer whose rows are ticked
  doing,    \* actions under way: slot -> [act, row, at, key]
  flag,     \* the busy flag of the actions: 0, or the row that set it
  dialog,   \* the confirmation on screen: {} or {[act, row]}
  raced,    \* history: two requests of a bare view were under way, or one for another row
  failed,   \* history: a load failed
  shared,   \* history: a per-row flag was overwritten by another row
  owed      \* history: the version the page's own successful changes reached

vars == <<shape, key, asked, fetches, shown, loading, error, server, draft, chosen, doing, flag, dialog, raced, failed, shared, owed>>
history == <<raced, failed, shared, owed>>
loader == <<asked, fetches, shown, loading, error>>
actor == <<doing, flag, dialog>>

NoRequest == [key |-> NoKey, ver |-> 0, live |-> FALSE]
Idle == [at |-> 0]
IsHook == shape.kind = "hook"
Sent(i) == fetches[i] # NoRequest
Busy(d) == doing[d] # Idle
ActOf(d) == doing[d].act
NextVersion == IF server < MaxVersion THEN server + 1 ELSE server

\* Mutant of Cancelled: the effect has no cleanup.
NotCancelled(f) == f

(***************************************************************************)
(* The effect of useAsync: cancel the request before, dispatch 'start', ask *)
(* again.  A bare loader asks again and cancels nothing.                    *)
(***************************************************************************)
Cancelled(f) == IF IsHook THEN [f EXCEPT !.live = FALSE] ELSE f

Start(k) ==
  /\ \E i \in Slots :
       /\ ~Sent(i) /\ \A j \in 1 .. (i - 1) : Sent(j)
       /\ fetches' = [j \in Slots |-> IF j = i THEN [key |-> k, ver |-> 0, live |-> TRUE] ELSE Cancelled(fetches[j])]
  /\ asked' = k
  /\ loading' = TRUE
  /\ error' = FALSE
  /\ raced' = (raced \/ (~IsHook /\ (k # key' \/ \E i \in Slots : Sent(i))))
  /\ UNCHANGED shown

Init ==
  /\ shape \in Shapes
  /\ key = IF IsHook THEN CHOOSE k \in Keys : TRUE ELSE NoKey
  /\ asked = key
  /\ fetches = [i \in Slots |-> IF i = 1 /\ IsHook THEN [key |-> key, ver |-> 0, live |-> TRUE] ELSE NoRequest]
  /\ shown = Nothing /\ loading = IsHook /\ error = FALSE
  /\ server = 1
  /\ draft = Nothing /\ chosen = Nothing
  /\ doing = [d \in Doers |-> Idle] /\ flag = 0 /\ dialog = {}
  /\ raced = FALSE /\ failed = FALSE /\ shared = FALSE /\ owed = 0

(***************************************************************************)
(* What the user and other clients do to the view.                          *)
(***************************************************************************)
\* A page number, a filter or a row: a dependency of the hook, so a new request.
Select(k) ==
  /\ shape.keyed /\ ~shape.loosely /\ (~IsHook => dialog = {})
  /\ k # key
  /\ key' = k
  /\ Start(k)
  /\ UNCHANGED <<shape, server, draft, chosen, actor, failed, shared, owed>>

\* A filter the fetcher reads that is no dependency: nothing happens until a search.
Type(k) ==
  /\ shape.loosely /\ k # key
  /\ key' = k
  /\ UNCHANGED <<shape, loader, server, draft, chosen, actor, history>>

Reload ==
  /\ shape.reload = "always" \/ (shape.reload = "onError" /\ error)
  /\ key' = key
  /\ Start(key)
  /\ UNCHANGED <<shape, server, draft, chosen, actor, failed, shared, owed>>

\* setInterval(reload): whatever is under way is cancelled and asked again.
Tick ==
  /\ shape.ticks
  /\ key' = key
  /\ Start(key)
  /\ UNCHANGED <<shape, server, draft, chosen, actor, failed, shared, owed>>

ElsewhereChanged ==
  /\ server < MaxVersion
  /\ server' = server + 1
  /\ UNCHANGED <<shape, key, loader, draft, chosen, actor, history>>

(***************************************************************************)
(* Answers.  The server reads its data in one step, the answer is applied   *)
(* in a later one.                                                          *)
(***************************************************************************)
Serve(i) ==
  /\ Sent(i) /\ fetches[i].ver = 0
  /\ fetches' = [fetches EXCEPT ![i].ver = server]
  /\ UNCHANGED <<shape, key, asked, shown, loading, error, server, draft, chosen, actor, history>>

Answer(i) == [key |-> fetches[i].key, ver |-> fetches[i].ver]
\* Mutant of ChosenAfter: a new page of rows keeps the ticks.
ChosenKept == chosen

\* A fetcher that also clears the ticked rows does so before it returns, cancelled or not.
ChosenAfter == IF shape.selects THEN Nothing ELSE chosen
Seeded(answer) ==
  CASE shape.seeds = "no" -> draft
    [] shape.seeds = "always" -> answer
    [] OTHER -> IF draft = Nothing THEN answer ELSE draft

Applied(i) ==
  /\ shown' = Answer(i) /\ loading' = FALSE /\ error' = FALSE
  /\ draft' = Seeded(Answer(i))
Ignored == UNCHANGED <<shown, loading, error, draft>>

Land(i) ==
  /\ Sent(i) /\ fetches[i].ver # 0
  /\ fetches' = [fetches EXCEPT ![i] = NoRequest]
  /\ chosen' = ChosenAfter
  /\ IF fetches[i].live THEN Applied(i) ELSE Ignored
  /\ UNCHANGED <<shape, key, asked, server, actor, history>>

\* The request fails, before or after the server read: the data shown stays. A
\* form that takes the first outcome is then filled from the data the page began with.
Fail(i) ==
  /\ Sent(i)
  /\ fetches' = [fetches EXCEPT ![i] = NoRequest]
  /\ failed' = TRUE
  /\ IF fetches[i].live
       THEN /\ loading' = FALSE /\ error' = TRUE
            /\ draft' = IF shape.seeds = "any" THEN Seeded([key |-> fetches[i].key, ver |-> 0]) ELSE draft
       ELSE UNCHANGED <<loading, error, draft>>
  /\ UNCHANGED <<shape, key, asked, shown, server, chosen, actor, raced, shared, owed>>

(***************************************************************************)
(* Actions of the page.                                                     *)
(***************************************************************************)
Choose ==
  /\ shape.selects /\ ~loading /\ shown # Nothing
  /\ chosen' = shown
  /\ UNCHANGED <<shape, key, loader, server, draft, actor, flag, history>>

\* Mutants of Clickable: the busy flag is not looked at; loading is not looked at.
AlwaysClickable(a, r) == TRUE
ClickableUnloaded(a, r) ==
  CASE a.control \in {"while", "whileLoading"} -> flag = 0
    [] a.control = "perRow" -> flag # r
    [] OTHER -> TRUE

Clickable(a, r) ==
  CASE a.control = "while" -> flag = 0
    [] a.control = "perRow" -> flag # r
    [] a.control = "whileLoading" -> flag = 0 /\ ~loading
    [] OTHER -> TRUE

\* A bare view belongs to a dialog of a row: the actions on its data need the row.
OfDialog(a) == ~IsHook /\ (a.saves \/ a.reloads)
Reachable(a) == (a.onSelection => chosen # Nothing) /\ (OfDialog(a) => key # NoKey)

\* Which row a button belongs to matters where the busy flag holds the row.
RowsOf(a) == IF a.control = "perRow" THEN Rows ELSE {CHOOSE r \in Rows : TRUE}

Begin(d, a, r) ==
  /\ ~Busy(d) /\ \A e \in 1 .. (d - 1) : Busy(e)
  /\ doing' = [doing EXCEPT ![d] = [act |-> a, row |-> r, at |-> 1, key |-> IF OfDialog(a) THEN key ELSE NoKey]]
  /\ flag' = IF a.flagged THEN r ELSE flag
  /\ shared' = (shared \/ (a.flagged /\ flag \notin {0, r}))
  /\ UNCHANGED <<shape, key, loader, server, draft, chosen, raced, failed, owed>>

Click(d, a, r) ==
  /\ a.control # "asks" /\ Reachable(a) /\ Clickable(a, r)
  /\ Begin(d, a, r)
  /\ UNCHANGED dialog

Ask(a, r) ==
  /\ a.control = "asks" /\ Reachable(a) /\ dialog = {}
  /\ dialog' = {[act |-> a, row |-> r]}
  /\ UNCHANGED <<shape, key, loader, server, draft, chosen, doing, flag, history>>

Confirm(d) ==
  \E q \in dialog : Begin(d, q.act, q.row) /\ dialog' = {}

Dismiss ==
  /\ dialog # {} /\ dialog' = {}
  /\ UNCHANGED <<shape, key, loader, server, draft, chosen, doing, flag, history>>

LastCall(d) == doing[d].at = Len(ActOf(d).calls)
Touches(d) == ActOf(d).calls[doing[d].at]

\* Mutant of Released: the flag of the row is left holding something else.
ReleasedInPart(d) == IF ActOf(d).flagged THEN doing[d].at ELSE flag

Released(d) == IF ActOf(d).flagged THEN 0 ELSE flag

\* One call of the handler is applied and answered; the handler makes the next one.
Proceed(d) ==
  /\ Busy(d) /\ ~LastCall(d)
  /\ server' = IF Touches(d) THEN NextVersion ELSE server
  /\ doing' = [doing EXCEPT ![d].at = @ + 1]
  /\ UNCHANGED <<shape, key, loader, draft, chosen, flag, dialog, history>>

\* The last call is answered: the handler reloads what it reloads and clears its
\* flag. The loader of a bare view is the one of the row the handler was clicked on.
Finish(d) ==
  /\ Busy(d) /\ LastCall(d)
  /\ server' = IF Touches(d) THEN NextVersion ELSE server
  /\ doing' = [doing EXCEPT ![d] = Idle]
  /\ flag' = Released(d)
  /\ key' = key
  /\ IF ActOf(d).reloads /\ (IsHook \/ doing[d].key # NoKey)
       THEN Start(IF IsHook THEN key ELSE doing[d].key)
       ELSE UNCHANGED <<loader, raced>>
  /\ owed' = IF ActOf(d).leavesStale \/ \A c \in DOMAIN ActOf(d).calls : ~ActOf(d).calls[c] THEN owed ELSE server'
  /\ chosen' = IF ActOf(d).onSelection THEN Nothing ELSE chosen
  /\ UNCHANGED <<shape, draft, dialog, failed, shared>>

\* A call fails, before or after the server applied it: the rest of the handler is
\* skipped, finally clears the flag.
Break(d) ==
  /\ Busy(d)
  /\ server' \in {server, IF Touches(d) THEN NextVersion ELSE server}
  /\ doing' = [doing EXCEPT ![d] = Idle]
  /\ flag' = Released(d)
  /\ UNCHANGED <<shape, key, loader, draft, chosen, dialog, history>>

UserStep ==
  \/ \E k \in Keys : Select(k) \/ Type(k)
  \/ Reload \/ Choose \/ Dismiss
  \/ \E a \in shape.acts : \E r \in RowsOf(a) : Ask(a, r) \/ \E d \in Doers : Click(d, a, r)
  \/ \E d \in Doers : Confirm(d)
NetworkStep ==
  \/ \E i \in Slots : Serve(i) \/ Land(i) \/ Fail(i)
  \/ \E d \in Doers : Proceed(d) \/ Finish(d) \/ Break(d)
Next == UserStep \/ NetworkStep \/ Tick \/ ElsewhereChanged

Spec == Init /\ [][Next]_vars

-----------------------------------------------------------------------------
VersionsUpTo(n) == [key : Keys \cup {NoKey}, ver : 0 .. n]
TypeOK ==
  /\ shape.kind \in {"hook", "bare"}
  /\ key \in Keys \cup {NoKey} /\ asked \in Keys \cup {NoKey}
  /\ fetches \in [Slots -> [key : Keys \cup {NoKey}, ver : 0 .. MaxVersion, live : BOOLEAN]]
  /\ shown \in VersionsUpTo(server) /\ draft \in VersionsUpTo(server) /\ chosen \in VersionsUpTo(server)
  /\ loading \in BOOLEAN /\ error \in BOOLEAN
  /\ server \in 1 .. MaxVersion /\ owed \in 0 .. server
  /\ \A d \in Doers : Busy(d) => ActOf(d) \in shape.acts /\ doing[d].row \in Rows /\ doing[d].at \in DOMAIN ActOf(d).calls
  /\ flag \in {0} \cup Rows
  /\ dialog \subseteq [act : shape.acts, row : Rows]
  /\ raced \in BOOLEAN /\ failed \in BOOLEAN /\ shared \in BOOLEAN

AtRest == ~loading /\ ~error /\ shown # Nothing

\* What a view shows when it is not loading is the answer for the selection the
\* page is on, whatever answers arrived late: useAsync drops the answer of every
\* request but the last (the cancelled flag of its effect). A bare detail view has
\* no such guard: there it holds unless two of its requests overlapped.
AnswersMatchSelection ==
  AtRest /\ ~raced => shown.key = asked /\ (~shape.loosely => asked = key)

\* After an action of the page succeeded, the view that shows its data comes to
\* show a version at least as new, however the requests before it are answered.
OwnWritesShown == AtRest /\ ~raced => shown.ver >= owed

\* An action with a busy flag is not under way twice. A flag that holds the id of
\* one row guards that row only, until the flag is given to another.
NoDoubleSubmit ==
  \A d, e \in Doers :
    d # e /\ Busy(d) /\ Busy(e) /\ ActOf(d).flagged /\ ActOf(e).flagged =>
      CASE ActOf(d).control \in {"while", "whileLoading"} /\ ActOf(e).control = ActOf(d).control -> FALSE
        [] ActOf(d).control = "perRow" /\ doing[d].row = doing[e].row -> shared
        [] OTHER -> TRUE

\* Ticked rows are rows of the answer on screen: no batch action reaches rows of a
\* page the user has left.
SelectionIsShown == chosen # Nothing => chosen = shown

\* The data never goes back to an older version of the same selection, and an
\* answer that was superseded is never shown.
NoStepBack ==
  [][shown'.key = shown.key /\ ~raced' => shown'.ver >= shown.ver]_vars

\* A form is saved only after it was filled from what the server holds for the row
\* it is saved to. The exceptions are a form whose load failed, raced with another,
\* or is under way behind a button that does not wait for it.
FilledForItsRow == draft.ver > 0 /\ (IsHook \/ draft.key = key)
Unguarded(a) == failed \/ raced \/ (loading /\ a.control # "whileLoading")
SavesWhatWasLoaded ==
  [][\A d \in Doers : ~Busy(d) /\ Busy(d)' /\ ActOf(d)'.saves => FilledForItsRow \/ Unguarded(ActOf(d)')]_vars
=============================================================================
