----------------------------- MODULE MCWebProofs -----------------------------
(***************************************************************************)
(* Theorems about WebView, for every set of shapes and selections and all  *)
(* bounds. Type correctness; what a view shows belongs to its selection,   *)
(* the ticked rows are on screen, and the data shown never goes back; a    *)
(* busy flag lets one handler run at a time; a view shows the changes made *)
(* on it; a form is saved as an answer filled it.                          *)
(*                                                                         *)
(* And about MCWeb: the pages it composes, the channel dialog and the chat *)
(* of the playground among them. No message of a chat is lost while        *)
(* nothing overlaps, and cost is synced automatically only where a sync    *)
(* stands behind it, for any number of messages, conversations, saves,     *)
(* channels and costs.                                                     *)
(***************************************************************************)
EXTENDS MCWeb, TLAPS

-----------------------------------------------------------------------------
(***************************************************************************)
(* A view.                                                                 *)
(***************************************************************************)

Selections == Keys \cup {NoKey}
Requests == [key : Selections, ver : 0 .. MaxVersion, live : BOOLEAN]
Running == [act : shape.acts, row : Rows, at : Nat \ {0}, key : Selections]

\* The types the steps need beyond TypeOK, conjunct by conjunct.
ViewTypes ==
  /\ shape \in Shapes
  /\ key \in Selections /\ asked \in Selections
  /\ fetches \in [Slots -> Requests]
  /\ loading \in BOOLEAN /\ error \in BOOLEAN
  /\ server \in 1 .. MaxVersion
ServedTypes ==
  /\ \A i \in Slots : fetches[i].ver <= server
  /\ shown \in VersionsUpTo(server) /\ draft \in VersionsUpTo(server) /\ chosen \in VersionsUpTo(server)
  /\ owed \in 0 .. server
ActorTypes ==
  /\ doing \in [Doers -> Running \cup {Idle}]
  /\ \A d \in Doers : Busy(d) => doing[d].at \in DOMAIN doing[d].act.calls
  /\ flag \in {0} \cup Rows
  /\ dialog \subseteq [act : shape.acts, row : Rows]
  /\ raced \in BOOLEAN /\ failed \in BOOLEAN /\ shared \in BOOLEAN

TypeInv == ViewTypes /\ ServedTypes /\ ActorTypes

\* While no two requests of a bare view overlapped, the request whose answer
\* counts is the last one, there is one such request, and what it was served is
\* no older than what is shown.
LiveIsLast ==
  ~raced =>
    /\ \A i \in Slots : fetches[i].live => fetches[i].key = asked /\ (fetches[i].ver # 0 => fetches[i].ver >= shown.ver)
    /\ \A i, j \in Slots : fetches[i].live /\ fetches[j].live => i = j
    /\ ~shape.loosely => asked = key
    /\ AtRest => shown.key = asked

TickedIsShown == chosen # Nothing => shape.selects /\ chosen = shown

-----------------------------------------------------------------------------
(***************************************************************************)
(* Facts about the building blocks.                                         *)
(***************************************************************************)

\* NoRequest and Nothing are values of their types, and no request is live there.
LEMMA EmptyTypes ==
  ASSUME TypeInv
  PROVE  /\ NoRequest \in Requests /\ ~NoRequest.live /\ NoRequest.ver = 0
         /\ Nothing \in VersionsUpTo(server)
         /\ NoKey \in Selections
BY ViewAssumption DEF TypeInv, ViewTypes, NoRequest, Nothing, NoKey, Requests, Selections, VersionsUpTo

\* A change of the server's data counts its version up, or leaves it at the bound.
LEMMA VersionGrows ==
  ASSUME TypeInv
  PROVE  NextVersion \in 1 .. MaxVersion /\ NextVersion >= server
BY ViewAssumption DEF TypeInv, ViewTypes, NextVersion

\* What is of a version up to n is of a version up to any later m.
LEMMA VersionsGrow ==
  ASSUME NEW n \in Nat, NEW m \in Nat, n <= m, NEW a \in VersionsUpTo(n)
  PROVE  a \in VersionsUpTo(m)
BY DEF VersionsUpTo

\* The cleanup of the effect keeps what a request asks for and was served.
LEMMA CancelledType ==
  ASSUME NEW f \in Requests
  PROVE  /\ Cancelled(f) \in Requests
         /\ Cancelled(f).key = f.key /\ Cancelled(f).ver = f.ver
         /\ Cancelled(f).live => f.live
         /\ IsHook => ~Cancelled(f).live
BY DEF Cancelled, Requests

\* Starting a request, from a slot that was free.
LEMMA StartType ==
  ASSUME TypeInv, NEW k \in Selections, Start(k)
  PROVE  /\ fetches' \in [Slots -> Requests]
         /\ \A i \in Slots : fetches'[i].ver <= server
         /\ asked' = k /\ loading' = TRUE /\ error' = FALSE /\ shown' = shown
         /\ raced' \in BOOLEAN
<1>1. PICK i \in Slots : fetches' = [j \in Slots |-> IF j = i THEN [key |-> k, ver |-> 0, live |-> TRUE] ELSE Cancelled(fetches[j])]
  BY DEF Start
<1>2. [key |-> k, ver |-> 0, live |-> TRUE] \in Requests
  BY ViewAssumption DEF Requests
<1>3. \A j \in Slots : Cancelled(fetches[j]) \in Requests /\ Cancelled(fetches[j]).ver <= server
  BY CancelledType DEF TypeInv, ViewTypes, ServedTypes
<1>4. server >= 0
  BY DEF TypeInv, ViewTypes
<1>5. \A j \in Slots : fetches'[j] \in Requests /\ fetches'[j].ver <= server
  BY <1>1, <1>2, <1>3, <1>4
<1>6. fetches' \in [Slots -> Requests]
  BY <1>1, <1>5
<1>7. raced' \in BOOLEAN
  BY DEF Start, TypeInv, ActorTypes
<1> QED
  BY <1>5, <1>6, <1>7 DEF Start

-----------------------------------------------------------------------------
(***************************************************************************)
(* Type correctness.                                                        *)
(***************************************************************************)

\* Init is well typed.
LEMMA InitTypes == Init => TypeInv
<1> SUFFICES ASSUME Init PROVE TypeInv
  OBVIOUS
<1>1. (CHOOSE k \in Keys : TRUE) \in Keys
  BY ViewAssumption
<1>2. key \in Selections /\ asked = key
  BY <1>1 DEF Init, Selections
<1>3. [key |-> key, ver |-> 0, live |-> TRUE] \in Requests /\ NoRequest \in Requests
  BY <1>2, ViewAssumption DEF Requests, NoRequest, NoKey, Selections
<1>4. fetches = [i \in Slots |-> IF i = 1 /\ IsHook THEN [key |-> key, ver |-> 0, live |-> TRUE] ELSE NoRequest]
  BY DEF Init
<1>5. fetches \in [Slots -> Requests] /\ \A i \in Slots : fetches[i].ver = 0
  BY <1>3, <1>4 DEF NoRequest
<1>6. loading \in BOOLEAN
  BY DEF Init, IsHook
<1>7. server = 1 /\ shape \in Shapes /\ error \in BOOLEAN
  BY DEF Init
<1>8. ViewTypes
  BY <1>2, <1>5, <1>6, <1>7, ViewAssumption DEF ViewTypes
<1>9. ServedTypes
  BY <1>5, <1>7 DEF ServedTypes, Init, Nothing, NoKey, Selections, VersionsUpTo
<1>10. ActorTypes
  BY DEF ActorTypes, Init, Busy
<1> QED
  BY <1>8, <1>9, <1>10 DEF TypeInv

\* A step that changes no more than the loader keeps the other types.
LEMMA LoaderStep ==
  ASSUME TypeInv, UNCHANGED <<shape, server>>, key' \in Selections,
         asked' \in Selections, fetches' \in [Slots -> Requests], \A i \in Slots : fetches'[i].ver <= server,
         loading' \in BOOLEAN, error' \in BOOLEAN,
         shown' \in VersionsUpTo(server), draft' \in VersionsUpTo(server), chosen' \in VersionsUpTo(server),
         owed' \in 0 .. server, raced' \in BOOLEAN, failed' \in BOOLEAN, shared' \in BOOLEAN,
         UNCHANGED actor
  PROVE  TypeInv'
<1>1. ViewTypes'
  BY DEF TypeInv, ViewTypes
<1>2. ServedTypes'
  BY DEF TypeInv, ServedTypes, VersionsUpTo
<1>3. ActorTypes'
  BY DEF TypeInv, ActorTypes, Running, Busy, actor
<1> QED
  BY <1>1, <1>2, <1>3 DEF TypeInv

\* A request for a selection is well typed, whatever asks for it.
LEMMA StartStep ==
  ASSUME TypeInv, NEW k \in Selections, Start(k), key' \in Selections,
         UNCHANGED <<shape, server, draft, chosen, actor, failed, shared, owed>>
  PROVE  TypeInv'
<1>1. /\ fetches' \in [Slots -> Requests] /\ \A i \in Slots : fetches'[i].ver <= server
      /\ asked' \in Selections /\ loading' \in BOOLEAN /\ error' \in BOOLEAN /\ shown' = shown /\ raced' \in BOOLEAN
  BY StartType
<1>2. /\ shown' \in VersionsUpTo(server) /\ draft' \in VersionsUpTo(server) /\ chosen' \in VersionsUpTo(server)
      /\ owed' \in 0 .. server /\ failed' \in BOOLEAN /\ shared' \in BOOLEAN
  BY <1>1 DEF TypeInv, ServedTypes, ActorTypes
<1> QED
  BY <1>1, <1>2, LoaderStep

\* An answer that was served is of a version the server has reached.
LEMMA AnswerType ==
  ASSUME TypeInv, NEW i \in Slots
  PROVE  Answer(i) \in VersionsUpTo(server)
<1>1. fetches[i].key \in Selections /\ fetches[i].ver \in 0 .. MaxVersion /\ fetches[i].ver <= server
  BY DEF TypeInv, ViewTypes, ServedTypes, Requests
<1>2. fetches[i].ver \in 0 .. server
  BY <1>1, ViewAssumption DEF TypeInv, ViewTypes
<1> QED
  BY <1>1, <1>2 DEF Answer, VersionsUpTo, Selections

\* What a form is filled with is an answer, or what it was.
LEMMA SeededType ==
  ASSUME TypeInv, NEW a \in VersionsUpTo(server)
  PROVE  Seeded(a) \in VersionsUpTo(server)
<1>1. Seeded(a) = draft \/ Seeded(a) = a
  BY DEF Seeded
<1> QED
  BY <1>1 DEF TypeInv, ServedTypes

\* A change of the server's data leaves what was served behind it.
LEMMA ServerStep ==
  ASSUME TypeInv, server' \in 1 .. MaxVersion, server' >= server,
         UNCHANGED <<shape, key, asked, fetches, loading, error, shown, draft>>,
         chosen' \in VersionsUpTo(server'), owed' \in 0 .. server', ActorTypes'
  PROVE  TypeInv'
<1>1. server \in Nat /\ server' \in Nat
  BY ViewAssumption DEF TypeInv, ViewTypes
<1>2. ViewTypes'
  BY DEF TypeInv, ViewTypes
<1>3. shown \in VersionsUpTo(server') /\ draft \in VersionsUpTo(server')
  BY <1>1, VersionsGrow DEF TypeInv, ServedTypes
<1>4. \A i \in Slots : fetches[i].ver <= server'
  <2> TAKE i \in Slots
  <2>1. fetches[i].ver <= server /\ fetches[i].ver \in Nat
    BY ViewAssumption DEF TypeInv, ViewTypes, ServedTypes, Requests
  <2> QED
    BY <2>1, <1>1
<1>5. ServedTypes'
  BY <1>3, <1>4 DEF ServedTypes, VersionsUpTo
<1> QED
  BY <1>2, <1>5 DEF TypeInv

\* A handler begins: its busy flag holds a row, and its place is its first call.
LEMMA BeginStep ==
  ASSUME TypeInv, NEW d \in Doers, NEW a \in shape.acts, NEW r \in Rows, Begin(d, a, r),
         dialog' \subseteq [act : shape.acts, row : Rows]
  PROVE  TypeInv'
<1>1. shape \in Shapes /\ key \in Selections
  BY DEF TypeInv, ViewTypes
<1>2. a.calls \in Seq(BOOLEAN) /\ a.calls # <<>>
  BY <1>1, ViewAssumption
<1>3. 1 \in DOMAIN a.calls
  BY <1>2
<1>4. (IF OfDialog(a) THEN key ELSE NoKey) \in Selections
  BY <1>1 DEF Selections
<1> DEFINE new == [act |-> a, row |-> r, at |-> 1, key |-> IF OfDialog(a) THEN key ELSE NoKey]
<1>5. new \in Running /\ new.at = 1 /\ new.act = a
  BY <1>4 DEF Running
<1>6. doing' = [doing EXCEPT ![d] = new]
  BY DEF Begin
<1> HIDE DEF new
<1>7. doing' \in [Doers -> Running \cup {Idle}]
  BY <1>5, <1>6 DEF TypeInv, ActorTypes
<1>8. \A e \in Doers : doing'[e] # Idle => doing'[e].at \in DOMAIN doing'[e].act.calls
  BY <1>3, <1>5, <1>6 DEF TypeInv, ActorTypes, Busy
<1>9. flag' \in {0} \cup Rows /\ raced' \in BOOLEAN /\ failed' \in BOOLEAN /\ shared' \in BOOLEAN /\ shape' = shape
  BY DEF Begin, TypeInv, ActorTypes
<1>10. ActorTypes'
  BY <1>7, <1>8, <1>9 DEF ActorTypes, Busy, Running
<1>11. /\ server' = server /\ server \in 1 .. MaxVersion /\ chosen' \in VersionsUpTo(server') /\ owed' \in 0 .. server'
  BY DEF Begin, TypeInv, ViewTypes, ServedTypes
<1>12. UNCHANGED <<shape, key, asked, fetches, loading, error, shown, draft>> /\ server' >= server
  BY <1>11 DEF Begin, loader
<1> QED
  BY <1>10, <1>11, <1>12, ServerStep

\* Handlers come to an end or go on; nothing else of the actors changes.
LEMMA DoneTypes ==
  ASSUME TypeInv, NEW d \in Doers, doing' = [doing EXCEPT ![d] = Idle], flag' \in {0} \cup Rows,
         UNCHANGED <<shape, dialog>>, raced' \in BOOLEAN, failed' \in BOOLEAN, shared' \in BOOLEAN
  PROVE  ActorTypes'
<1>1. doing' \in [Doers -> Running \cup {Idle}]
  BY DEF TypeInv, ActorTypes
<1>2. \A e \in Doers : doing'[e] # Idle => doing'[e].at \in DOMAIN doing'[e].act.calls
  BY DEF TypeInv, ActorTypes, Busy
<1> QED
  BY <1>1, <1>2 DEF TypeInv, ActorTypes, Busy, Running

\* What a busy handler is.
LEMMA BusyType ==
  ASSUME TypeInv, NEW d \in Doers, Busy(d)
  PROVE  /\ doing[d] \in Running
         /\ ActOf(d) \in shape.acts
         /\ ActOf(d).calls \in Seq(BOOLEAN)
         /\ doing[d].at \in 1 .. Len(ActOf(d).calls)
         /\ Released(d) \in {0} \cup Rows
<1>1. doing[d] \in Running
  BY DEF TypeInv, ActorTypes, Busy
<1>2. ActOf(d) \in shape.acts
  BY <1>1 DEF Running, ActOf
<1>3. ActOf(d).calls \in Seq(BOOLEAN)
  BY <1>2, ViewAssumption DEF TypeInv, ViewTypes
<1>4. doing[d].at \in 1 .. Len(ActOf(d).calls)
  BY <1>3 DEF TypeInv, ActorTypes, ActOf
<1>5. Released(d) \in {0} \cup Rows
  BY DEF Released, TypeInv, ActorTypes
<1> QED
  BY <1>1, <1>2, <1>3, <1>4, <1>5

\* A further call of a handler.
LEMMA ProceedStep ==
  ASSUME TypeInv, NEW d \in Doers, Proceed(d)
  PROVE  TypeInv'
<1>1. /\ doing[d] \in Running /\ ActOf(d).calls \in Seq(BOOLEAN)
      /\ doing[d].at \in 1 .. Len(ActOf(d).calls) /\ doing[d].at # Len(ActOf(d).calls)
  BY BusyType DEF Proceed, LastCall
<1> DEFINE new == [doing[d] EXCEPT !.at = @ + 1]
<1>2. new \in Running /\ new.act = ActOf(d) /\ new.at \in DOMAIN ActOf(d).calls
  BY <1>1 DEF Running, ActOf
<1>3. doing' = [doing EXCEPT ![d] = new]
  BY DEF Proceed
<1> HIDE DEF new
<1>4. doing' \in [Doers -> Running \cup {Idle}]
  BY <1>2, <1>3 DEF TypeInv, ActorTypes
<1>5. \A e \in Doers : doing'[e] # Idle => doing'[e].at \in DOMAIN doing'[e].act.calls
  BY <1>2, <1>3 DEF TypeInv, ActorTypes, Busy
<1>6. ActorTypes'
  BY <1>4, <1>5 DEF TypeInv, ActorTypes, Busy, Running, Proceed, history
<1>7. server' \in 1 .. MaxVersion /\ server' >= server /\ server \in 1 .. MaxVersion
  BY VersionGrows, ViewAssumption DEF Proceed, TypeInv, ViewTypes
<1>8. chosen' \in VersionsUpTo(server') /\ owed' \in 0 .. server'
  BY <1>7, VersionsGrow DEF Proceed, history, TypeInv, ServedTypes
<1>9. UNCHANGED <<shape, key, asked, fetches, loading, error, shown, draft>>
  BY DEF Proceed, loader
<1> QED
  BY <1>6, <1>7, <1>8, <1>9, ServerStep

\* A handler that fails.
LEMMA BreakStep ==
  ASSUME TypeInv, NEW d \in Doers, Break(d)
  PROVE  TypeInv'
<1>1. server' \in 1 .. MaxVersion /\ server' >= server /\ server \in 1 .. MaxVersion
  BY VersionGrows, ViewAssumption DEF Break, TypeInv, ViewTypes
<1>2. chosen' \in VersionsUpTo(server') /\ owed' \in 0 .. server'
  BY <1>1, VersionsGrow DEF Break, history, TypeInv, ServedTypes
<1>3. flag' \in {0} \cup Rows /\ raced' \in BOOLEAN /\ failed' \in BOOLEAN /\ shared' \in BOOLEAN
  BY BusyType DEF Break, history, TypeInv, ActorTypes
<1>4. ActorTypes'
  BY <1>3, DoneTypes DEF Break
<1>5. UNCHANGED <<shape, key, asked, fetches, loading, error, shown, draft>>
  BY DEF Break, loader
<1> QED
  BY <1>1, <1>2, <1>4, <1>5, ServerStep

\* A handler that succeeds, with what it reloads.
LEMMA FinishStep ==
  ASSUME TypeInv, NEW d \in Doers, Finish(d)
  PROVE  TypeInv'
<1>1. server' \in 1 .. MaxVersion /\ server' >= server /\ server \in 1 .. MaxVersion
  BY VersionGrows, ViewAssumption DEF Finish, TypeInv, ViewTypes
<1> DEFINE k == IF IsHook THEN key ELSE doing[d].key
<1>2. k \in Selections
  BY BusyType DEF Finish, Running, TypeInv, ViewTypes
<1> HIDE DEF k
<1>3. /\ fetches' \in [Slots -> Requests] /\ \A i \in Slots : fetches'[i].ver <= server
      /\ asked' \in Selections /\ loading' \in BOOLEAN /\ error' \in BOOLEAN /\ shown' = shown /\ raced' \in BOOLEAN
  <2>1. CASE Start(k)
    BY <2>1, <1>2, StartType
  <2>2. CASE UNCHANGED <<loader, raced>>
    BY <2>2 DEF loader, TypeInv, ViewTypes, ServedTypes, ActorTypes
  <2> QED
    BY <2>1, <2>2 DEF Finish, k
<1>4. \A i \in Slots : fetches'[i].ver <= server'
  <2> TAKE i \in Slots
  <2>1. fetches'[i].ver <= server /\ fetches'[i].ver \in Nat
    BY <1>3, ViewAssumption DEF Requests
  <2> QED
    BY <2>1, <1>1
<1>5. ViewTypes'
  BY <1>1, <1>3 DEF Finish, TypeInv, ViewTypes
<1>6. Nothing \in VersionsUpTo(server') /\ chosen \in VersionsUpTo(server')
  BY <1>1, VersionsGrow DEF Nothing, NoKey, VersionsUpTo, TypeInv, ServedTypes
<1>7. shown' \in VersionsUpTo(server') /\ draft' \in VersionsUpTo(server') /\ chosen' \in VersionsUpTo(server')
  BY <1>1, <1>3, <1>6, VersionsGrow DEF Finish, TypeInv, ServedTypes
<1>8. owed' \in 0 .. server'
  BY <1>1, ViewAssumption DEF Finish, TypeInv, ServedTypes
<1>9. ServedTypes'
  BY <1>4, <1>7, <1>8 DEF ServedTypes, VersionsUpTo
<1>10. flag' \in {0} \cup Rows /\ failed' \in BOOLEAN /\ shared' \in BOOLEAN /\ UNCHANGED <<shape, dialog>>
  BY BusyType DEF Finish, TypeInv, ActorTypes
<1>11. ActorTypes'
  BY <1>3, <1>10, DoneTypes DEF Finish
<1> QED
  BY <1>5, <1>9, <1>11 DEF TypeInv

\* An answer lands, and is shown if its request was not cancelled.
LEMMA LandStep ==
  ASSUME TypeInv, NEW i \in Slots, Land(i)
  PROVE  TypeInv'
<1>1. fetches' = [fetches EXCEPT ![i] = NoRequest] /\ NoRequest \in Requests /\ NoRequest.ver = 0
  BY EmptyTypes DEF Land
<1>2. fetches' \in [Slots -> Requests] /\ \A j \in Slots : fetches'[j].ver <= server
  BY <1>1, ViewAssumption DEF TypeInv, ViewTypes, ServedTypes
<1>3. /\ shown' \in VersionsUpTo(server) /\ draft' \in VersionsUpTo(server)
      /\ loading' \in BOOLEAN /\ error' \in BOOLEAN
  BY AnswerType, SeededType DEF Land, Applied, Ignored, TypeInv, ViewTypes, ServedTypes
<1>4. chosen' \in VersionsUpTo(server)
  BY EmptyTypes DEF Land, ChosenAfter, TypeInv, ServedTypes
<1>5. /\ UNCHANGED <<shape, server, key, asked, actor>>
      /\ owed' \in 0 .. server /\ raced' \in BOOLEAN /\ failed' \in BOOLEAN /\ shared' \in BOOLEAN
  BY DEF Land, history, TypeInv, ServedTypes, ActorTypes
<1>6. key' \in Selections /\ asked' \in Selections
  BY <1>5 DEF TypeInv, ViewTypes
<1> QED
  BY <1>2, <1>3, <1>4, <1>5, <1>6, LoaderStep

\* A request fails, and a form that takes any outcome is filled from nothing.
LEMMA FailStep ==
  ASSUME TypeInv, NEW i \in Slots, Fail(i)
  PROVE  TypeInv'
<1>1. fetches' = [fetches EXCEPT ![i] = NoRequest] /\ NoRequest \in Requests /\ NoRequest.ver = 0
  BY EmptyTypes DEF Fail
<1>2. fetches' \in [Slots -> Requests] /\ \A j \in Slots : fetches'[j].ver <= server
  BY <1>1, ViewAssumption DEF TypeInv, ViewTypes, ServedTypes
<1>3. [key |-> fetches[i].key, ver |-> 0] \in VersionsUpTo(server)
  BY ViewAssumption DEF TypeInv, ViewTypes, Requests, Selections, VersionsUpTo
<1>4. draft' \in VersionsUpTo(server) /\ loading' \in BOOLEAN /\ error' \in BOOLEAN
  BY <1>3, SeededType DEF Fail, TypeInv, ViewTypes, ServedTypes
<1>5. /\ UNCHANGED <<shape, server, key, asked, shown, chosen, actor, raced, shared, owed>> /\ failed' = TRUE
  BY DEF Fail
<1>6. /\ key' \in Selections /\ asked' \in Selections
      /\ shown' \in VersionsUpTo(server) /\ chosen' \in VersionsUpTo(server)
      /\ owed' \in 0 .. server /\ raced' \in BOOLEAN /\ failed' \in BOOLEAN /\ shared' \in BOOLEAN
  BY <1>5 DEF TypeInv, ViewTypes, ServedTypes, ActorTypes
<1> QED
  BY <1>2, <1>4, <1>5, <1>6, LoaderStep

\* Every step keeps the types.
LEMMA StepTypes == TypeInv /\ [Next]_vars => TypeInv'
<1> SUFFICES ASSUME TypeInv, [Next]_vars PROVE TypeInv'
  OBVIOUS
<1> USE DEF TypeInv
<1>1. ASSUME NEW k \in Keys, Select(k) PROVE TypeInv'
  BY <1>1, StartStep DEF Select, Selections
<1>2. ASSUME NEW k \in Keys, Type(k) PROVE TypeInv'
  <2>1. key' \in Selections
    BY <1>2 DEF Type, Selections
  <2>2. UNCHANGED <<shape, asked, fetches, shown, loading, error, server, draft, chosen, actor, raced, failed, shared, owed>>
    BY <1>2 DEF Type, loader, history
  <2> QED
    BY <2>1, <2>2, LoaderStep DEF ViewTypes, ServedTypes, ActorTypes
<1>3. CASE Reload
  BY <1>3, StartStep DEF Reload, ViewTypes
<1>4. CASE Tick
  BY <1>4, StartStep DEF Tick, ViewTypes
<1>5. CASE Choose
  <2>1. UNCHANGED <<shape, key, asked, fetches, shown, loading, error, server, draft, doing, flag, dialog, raced, failed, shared, owed>>
    BY <1>5 DEF Choose, loader, actor, history
  <2> QED
    BY <1>5, <2>1, LoaderStep DEF Choose, ViewTypes, ServedTypes, ActorTypes, actor
<1>6. CASE Dismiss
  <2>1. UNCHANGED <<shape, key, asked, fetches, shown, loading, error, server, draft, chosen, doing, flag, raced, failed, shared, owed>> /\ dialog' = {}
    BY <1>6 DEF Dismiss, loader, history
  <2>2. ActorTypes'
    BY <2>1 DEF ActorTypes, Busy, Running
  <2> QED
    BY <2>1, <2>2, ServerStep, ViewAssumption DEF ViewTypes, ServedTypes
<1>7. ASSUME NEW a \in shape.acts, NEW r \in RowsOf(a), Ask(a, r) PROVE TypeInv'
  <2>1. r \in Rows
    BY ViewAssumption DEF RowsOf
  <2>2. UNCHANGED <<shape, key, asked, fetches, shown, loading, error, server, draft, chosen, doing, flag, raced, failed, shared, owed>>
    BY <1>7 DEF Ask, loader, history
  <2>3. dialog' \subseteq [act : shape.acts, row : Rows]
    BY <1>7, <2>1 DEF Ask
  <2>4. ActorTypes'
    BY <2>2, <2>3 DEF ActorTypes, Busy, Running
  <2> QED
    BY <2>2, <2>4, ServerStep, ViewAssumption DEF ViewTypes, ServedTypes
<1>8. ASSUME NEW a \in shape.acts, NEW r \in RowsOf(a), NEW d \in Doers, Click(d, a, r) PROVE TypeInv'
  <2>1. r \in Rows
    BY ViewAssumption DEF RowsOf
  <2> QED
    BY <1>8, <2>1, BeginStep DEF Click, ActorTypes
<1>9. ASSUME NEW d \in Doers, Confirm(d) PROVE TypeInv'
  <2>1. PICK q \in dialog : Begin(d, q.act, q.row) /\ dialog' = {}
    BY <1>9 DEF Confirm
  <2>2. q.act \in shape.acts /\ q.row \in Rows
    BY DEF ActorTypes
  <2> QED
    BY <2>1, <2>2, BeginStep
<1>10. ASSUME NEW i \in Slots, Serve(i) PROVE TypeInv'
  <2>1. fetches' = [fetches EXCEPT ![i].ver = server] /\ server \in 0 .. MaxVersion
    BY <1>10, ViewAssumption DEF Serve, ViewTypes
  <2>2. fetches' \in [Slots -> Requests] /\ \A j \in Slots : fetches'[j].ver <= server
    BY <2>1 DEF ViewTypes, ServedTypes, Requests
  <2>3. UNCHANGED <<shape, key, asked, shown, loading, error, server, draft, chosen, actor, raced, failed, shared, owed>>
    BY <1>10 DEF Serve, history
  <2> QED
    BY <2>2, <2>3, LoaderStep DEF ViewTypes, ServedTypes, ActorTypes
<1>11. ASSUME NEW i \in Slots, Land(i) PROVE TypeInv'
  BY <1>11, LandStep
<1>12. ASSUME NEW i \in Slots, Fail(i) PROVE TypeInv'
  BY <1>12, FailStep
<1>13. ASSUME NEW d \in Doers, Proceed(d) \/ Finish(d) \/ Break(d) PROVE TypeInv'
  BY <1>13, ProceedStep, FinishStep, BreakStep
<1>14. CASE ElsewhereChanged
  <2>1. /\ server' = server + 1 /\ server' \in 1 .. MaxVersion
        /\ UNCHANGED <<shape, key, asked, fetches, shown, loading, error, draft, chosen, actor, raced, failed, shared, owed>>
    BY <1>14, ViewAssumption DEF ElsewhereChanged, loader, history, ViewTypes
  <2>2. ActorTypes'
    BY <2>1 DEF ActorTypes, Busy, Running, actor
  <2>3. chosen' \in VersionsUpTo(server') /\ owed' \in 0 .. server' /\ server' >= server
    BY <2>1, VersionsGrow, ViewAssumption DEF ViewTypes, ServedTypes
  <2> QED
    BY <2>1, <2>2, <2>3, ServerStep
<1>15. CASE UNCHANGED vars
  BY <1>15 DEF vars, ViewTypes, ServedTypes, ActorTypes, VersionsUpTo, Busy, Running
<1> QED
  BY <1>1, <1>2, <1>3, <1>4, <1>5, <1>6, <1>7, <1>8, <1>9, <1>10, <1>11, <1>12, <1>13, <1>14, <1>15
     DEF Next, UserStep, NetworkStep

\* The state of every view of every page is of its type, whatever the tables of
\* the pages say.
THEOREM ViewTypeCorrect == Spec => []TypeOK
<1>1. TypeInv => TypeOK
  BY ViewAssumption DEF TypeInv, ViewTypes, ServedTypes, ActorTypes, TypeOK, Selections, Requests, Running, Busy, ActOf
<1> QED
  BY <1>1, InitTypes, StepTypes, PTL DEF Spec

-----------------------------------------------------------------------------
(***************************************************************************)
(* What is shown belongs to the selection, and never goes back.             *)
(***************************************************************************)

\* The request just made is the only one whose answer counts.
LEMMA StartLive ==
  ASSUME TypeInv, NEW k \in Selections, Start(k), ~raced'
  PROVE  /\ ~raced
         /\ \E i \in Slots : /\ fetches'[i].key = k /\ fetches'[i].ver = 0
                           /\ \A j \in Slots : fetches'[j].live => j = i
<1>1. PICK i \in Slots : fetches' = [j \in Slots |-> IF j = i THEN [key |-> k, ver |-> 0, live |-> TRUE] ELSE Cancelled(fetches[j])]
  BY DEF Start
<1>2. fetches'[i].key = k /\ fetches'[i].ver = 0
  BY <1>1
<1>3. ~raced /\ (IsHook \/ \A j \in Slots : ~Sent(j))
  BY DEF Start
<1>4. ASSUME NEW j \in Slots, j # i PROVE ~fetches'[j].live
  <2>1. fetches'[j] = Cancelled(fetches[j])
    BY <1>1, <1>4
  <2>2. CASE IsHook
    BY <2>1, <2>2, CancelledType DEF TypeInv, ViewTypes
  <2>3. CASE \A m \in Slots : ~Sent(m)
    <3>1. fetches[j] = NoRequest
      BY <2>3 DEF Sent
    <3>2. fetches[j] \in Requests /\ ~fetches[j].live
      BY <3>1, EmptyTypes
    <3> QED
      BY <2>1, <3>2, CancelledType
  <2> QED
    BY <1>3, <2>2, <2>3
<1> QED
  BY <1>2, <1>3, <1>4

\* So after a request for the selection the page is on.
LEMMA StartLast ==
  ASSUME TypeInv, NEW k \in Selections, Start(k), UNCHANGED shape,
         ~raced' => shape.loosely \/ k = key'
  PROVE  LiveIsLast'
<1> SUFFICES ASSUME ~raced' PROVE LiveIsLast'
  BY DEF LiveIsLast
<1>1. PICK i \in Slots : /\ fetches'[i].key = k /\ fetches'[i].ver = 0
                        /\ \A j \in Slots : fetches'[j].live => j = i
  BY StartLive
<1>2. asked' = k /\ loading' = TRUE
  BY DEF Start
<1> QED
  BY <1>1, <1>2 DEF LiveIsLast, AtRest

\* Steps that leave the loader alone, or make the page say less.
LEMMA LastKept ==
  ASSUME LiveIsLast, UNCHANGED <<shape, loader, raced>>, shape.loosely \/ key' = key
  PROVE  LiveIsLast'
BY DEF LiveIsLast, AtRest, loader

\* The server answers a request with what it holds now, which is no older than
\* anything it has answered before.
LEMMA ServeLast ==
  ASSUME TypeInv, LiveIsLast, NEW i \in Slots, Serve(i)
  PROVE  LiveIsLast'
<1>1. fetches' = [fetches EXCEPT ![i].ver = server]
  BY DEF Serve
<1>2. \A j \in Slots : /\ fetches'[j].live = fetches[j].live /\ fetches'[j].key = fetches[j].key
                      /\ fetches'[j].ver = IF j = i THEN server ELSE fetches[j].ver
  BY <1>1 DEF TypeInv, ViewTypes, Requests
<1>3. shown.ver <= server
  BY DEF TypeInv, ViewTypes, ServedTypes, VersionsUpTo
<1>4. UNCHANGED <<shape, key, asked, shown, loading, error, raced>>
  BY DEF Serve, history
<1>5. server >= shown.ver
  BY <1>3, ViewAssumption DEF TypeInv, ViewTypes, ServedTypes, VersionsUpTo
<1> QED
  BY <1>2, <1>4, <1>5 DEF LiveIsLast, AtRest

\* A request that is over is in nobody's way; the answer that counts is for the
\* selection of the last request.
LEMMA LandLast ==
  ASSUME TypeInv, LiveIsLast, NEW i \in Slots, Land(i)
  PROVE  LiveIsLast'
<1> SUFFICES ASSUME ~raced' PROVE LiveIsLast'
  BY DEF LiveIsLast
<1>1. UNCHANGED <<shape, key, asked, raced>>
  BY DEF Land, history
<1>2. \A j \in Slots : fetches'[j] = IF j = i THEN NoRequest ELSE fetches[j]
  BY DEF Land, TypeInv, ViewTypes
<1>3. \A j \in Slots : fetches'[j].live => j # i /\ fetches'[j] = fetches[j]
  BY <1>2, EmptyTypes
<1>4. CASE fetches[i].live
  <2>1. shown'.key = fetches[i].key
    BY <1>4 DEF Land, Applied, Answer
  <2>2. \A j \in Slots : ~fetches'[j].live
    BY <1>1, <1>3, <1>4 DEF LiveIsLast
  <2> QED
    BY <1>1, <1>4, <2>1, <2>2 DEF LiveIsLast
<1>5. CASE ~fetches[i].live
  <2>1. UNCHANGED <<shown, loading, error>>
    BY <1>5 DEF Land, Ignored
  <2> QED
    BY <1>1, <1>3, <2>1 DEF LiveIsLast, AtRest
<1> QED
  BY <1>4, <1>5

LEMMA FailLast ==
  ASSUME TypeInv, LiveIsLast, NEW i \in Slots, Fail(i)
  PROVE  LiveIsLast'
<1>1. UNCHANGED <<shape, key, asked, shown, raced>>
  BY DEF Fail
<1>2. \A j \in Slots : fetches'[j] = IF j = i THEN NoRequest ELSE fetches[j]
  BY DEF Fail, TypeInv, ViewTypes
<1>3. \A j \in Slots : fetches'[j].live => j # i /\ fetches'[j] = fetches[j]
  BY <1>2, EmptyTypes
<1>4. AtRest' => AtRest
  BY DEF Fail, AtRest
<1> QED
  BY <1>1, <1>3, <1>4 DEF LiveIsLast

\* A handler reloads the view of the page, or of the row it was clicked on.
LEMMA FinishLast ==
  ASSUME TypeInv, LiveIsLast, NEW d \in Doers, Finish(d)
  PROVE  LiveIsLast'
<1> DEFINE k == IF IsHook THEN key ELSE doing[d].key
<1>1. k \in Selections
  BY BusyType DEF Finish, Running, TypeInv, ViewTypes
<1>2. UNCHANGED <<shape, key>>
  BY DEF Finish
<1>3. CASE Start(k)
  <2>1. ~raced' => IsHook \/ k = key'
    BY <1>3 DEF Start
  <2>2. ~raced' => k = key'
    BY <1>2, <2>1
  <2> HIDE DEF k
  <2> QED
    BY <1>1, <1>2, <1>3, <2>2, StartLast
<1>4. CASE UNCHANGED <<loader, raced>>
  BY <1>2, <1>4, LastKept
<1> QED
  BY <1>3, <1>4 DEF Finish

\* The steps of the page and of the network keep what LiveIsLast says.
LEMMA StepLast == TypeInv /\ LiveIsLast /\ [Next]_vars => LiveIsLast'
<1> SUFFICES ASSUME TypeInv, LiveIsLast, [Next]_vars PROVE LiveIsLast'
  OBVIOUS
<1>1. key \in Selections
  BY DEF TypeInv, ViewTypes
<1>2. ASSUME NEW k \in Keys, Select(k) PROVE LiveIsLast'
  BY <1>2, StartLast DEF Select, Selections
<1>3. ASSUME NEW k \in Keys, Type(k) PROVE LiveIsLast'
  BY <1>3, LastKept DEF Type, history
<1>4. CASE Reload \/ Tick
  BY <1>1, <1>4, StartLast DEF Reload, Tick
<1>5. CASE Choose \/ Dismiss \/ ElsewhereChanged
  BY <1>5, LastKept DEF Choose, Dismiss, ElsewhereChanged, history
<1>6. ASSUME NEW a, NEW r, Ask(a, r) PROVE LiveIsLast'
  BY <1>6, LastKept DEF Ask, history
<1>7. ASSUME NEW a, NEW r, NEW d, Begin(d, a, r) PROVE LiveIsLast'
  BY <1>7, LastKept DEF Begin
<1>8. ASSUME NEW i \in Slots, Serve(i) \/ Land(i) \/ Fail(i) PROVE LiveIsLast'
  BY <1>8, ServeLast, LandLast, FailLast
<1>9. ASSUME NEW d \in Doers, Proceed(d) \/ Break(d) PROVE LiveIsLast'
  BY <1>9, LastKept DEF Proceed, Break, history
<1>10. ASSUME NEW d \in Doers, Finish(d) PROVE LiveIsLast'
  BY <1>10, FinishLast
<1>11. CASE UNCHANGED vars
  BY <1>11, LastKept DEF vars, loader
<1> QED
  BY <1>2, <1>3, <1>4, <1>5, <1>6, <1>7, <1>8, <1>9, <1>10, <1>11
     DEF Next, UserStep, NetworkStep, Click, Confirm

LEMMA InitLast == Init => LiveIsLast
<1> SUFFICES ASSUME Init PROVE LiveIsLast
  OBVIOUS
<1>1. \A i \in Slots : fetches[i] = IF i = 1 /\ IsHook THEN [key |-> key, ver |-> 0, live |-> TRUE] ELSE NoRequest
  BY DEF Init
<1>2. \A i \in Slots : fetches[i].live => i = 1 /\ fetches[i].key = key /\ fetches[i].ver = 0
  BY <1>1 DEF NoRequest
<1>3. asked = key /\ shown = Nothing
  BY DEF Init
<1> QED
  BY <1>2, <1>3 DEF LiveIsLast, AtRest

\* No late answer ever takes the place of the answer for the selection the page
\* is on, in any page of any client, however many requests are under way.
THEOREM AnswersMatch == Spec => []AnswersMatchSelection
<1>1. LiveIsLast => AnswersMatchSelection
  BY DEF LiveIsLast, AnswersMatchSelection
<1> QED
  BY <1>1, InitTypes, StepTypes, InitLast, StepLast, PTL DEF Spec

\* What a view shows never goes back to an older version.
THEOREM NeverStepsBack == Spec => NoStepBack
<1>1. ASSUME TypeInv, LiveIsLast, [Next]_vars, ~raced'
      PROVE  shown'.ver >= shown.ver
  <2>1. shown' = shown => shown'.ver >= shown.ver
    BY <1>1, ViewAssumption DEF TypeInv, ViewTypes, ServedTypes, VersionsUpTo
  <2>2. ASSUME NEW i \in Slots, Land(i), fetches[i].live PROVE shown'.ver >= shown.ver
    BY <1>1, <2>2 DEF Land, Applied, Answer, LiveIsLast, history
  <2>3. ASSUME NEW i \in Slots, Land(i), ~fetches[i].live PROVE shown' = shown
    BY <2>3 DEF Land, Ignored
  <2>4. ASSUME NEW k, Start(k) \/ Select(k) PROVE shown' = shown
    BY <2>4 DEF Start, Select
  <2>5. ASSUME NEW d \in Doers, Proceed(d) \/ Finish(d) \/ Break(d) PROVE shown' = shown
    BY <2>5 DEF Proceed, Finish, Break, loader, Start
  <2>6. CASE Reload \/ Tick \/ Choose \/ Dismiss \/ ElsewhereChanged \/ UNCHANGED vars
    BY <2>1, <2>6 DEF Reload, Tick, Choose, Dismiss, ElsewhereChanged, vars, loader, Start
  <2>7. ASSUME NEW a, NEW r, NEW d, Ask(a, r) \/ Begin(d, a, r) PROVE shown' = shown
    BY <2>7 DEF Ask, Begin, loader
  <2>8. ASSUME NEW i \in Slots, Serve(i) \/ Fail(i) PROVE shown' = shown
    BY <2>8 DEF Serve, Fail
  <2>9. ASSUME NEW k, Type(k) PROVE shown' = shown
    BY <2>9 DEF Type, loader
  <2> QED
    BY <1>1, <2>1, <2>2, <2>3, <2>4, <2>5, <2>6, <2>7, <2>8, <2>9
       DEF Next, UserStep, NetworkStep, Click, Confirm
<1>2. TypeInv /\ LiveIsLast /\ [Next]_vars => [shown'.key = shown.key /\ ~raced' => shown'.ver >= shown.ver]_vars
  BY <1>1
<1> QED
  BY <1>2, InitTypes, StepTypes, InitLast, StepLast, PTL DEF Spec, NoStepBack

-----------------------------------------------------------------------------
(***************************************************************************)
(* The ticked rows.                                                         *)
(***************************************************************************)

\* What is ticked stays on screen: a request keeps the data, and every answer of
\* a view with ticks clears them.
LEMMA StepTicked == TypeInv /\ TickedIsShown /\ [Next]_vars => TickedIsShown'
<1> SUFFICES ASSUME TypeInv, TickedIsShown, [Next]_vars PROVE TickedIsShown'
  OBVIOUS
<1>1. ASSUME UNCHANGED <<shape, shown>>, chosen' \in {chosen, Nothing} PROVE TickedIsShown'
  BY <1>1 DEF TickedIsShown
<1>2. ASSUME NEW k, Select(k) \/ Type(k) PROVE TickedIsShown'
  BY <1>1, <1>2 DEF Select, Type, Start, loader
<1>3. CASE Reload \/ Tick \/ Dismiss \/ ElsewhereChanged
  BY <1>1, <1>3 DEF Reload, Tick, Dismiss, ElsewhereChanged, Start, loader
<1>4. CASE Choose
  BY <1>4 DEF Choose, TickedIsShown, loader
<1>5. ASSUME NEW a, NEW r, NEW d, Ask(a, r) \/ Begin(d, a, r) PROVE TickedIsShown'
  BY <1>1, <1>5 DEF Ask, Begin, loader
<1>6. ASSUME NEW i \in Slots, Serve(i) \/ Fail(i) PROVE TickedIsShown'
  BY <1>1, <1>6 DEF Serve, Fail
<1>7. ASSUME NEW i \in Slots, Land(i) PROVE TickedIsShown'
  <2>1. CASE shape.selects
    BY <1>7, <2>1 DEF Land, ChosenAfter, TickedIsShown
  <2>2. CASE ~shape.selects
    BY <1>7, <2>2 DEF Land, ChosenAfter, TickedIsShown
  <2> QED
    BY <2>1, <2>2
<1>8. ASSUME NEW d \in Doers, Proceed(d) \/ Finish(d) \/ Break(d) PROVE TickedIsShown'
  BY <1>1, <1>8 DEF Proceed, Finish, Break, loader, Start
<1>9. CASE UNCHANGED vars
  BY <1>1, <1>9 DEF vars
<1> QED
  BY <1>2, <1>3, <1>4, <1>5, <1>6, <1>7, <1>8, <1>9 DEF Next, UserStep, NetworkStep, Click, Confirm

\* A batch action reaches only rows that are on screen.
THEOREM TicksAreOnScreen == Spec => []SelectionIsShown
<1>1. Init => TickedIsShown
  BY DEF Init, TickedIsShown
<1>2. TickedIsShown => SelectionIsShown
  BY DEF TickedIsShown, SelectionIsShown
<1> QED
  BY <1>1, <1>2, InitTypes, StepTypes, StepTicked, PTL DEF Spec

-----------------------------------------------------------------------------
(***************************************************************************)
(* The busy flag.                                                           *)
(***************************************************************************)

Flagged(d) == Busy(d) /\ ActOf(d).flagged

\* The flag guards the action, unless it holds one row and was given to another.
Protects(a) == a.control \in {"while", "whileLoading"} \/ (a.control = "perRow" /\ ~shared)

\* Who set a flag that guards holds it, and nobody else does.
HoldsFlag(d) == flag = doing[d].row /\ \A e \in Doers : Flagged(e) => e = d
OneHolder == \A d \in Doers : Flagged(d) /\ Protects(ActOf(d)) => HoldsFlag(d)

\* What waits for a confirmation was asked for, and a detail has its row.
AskedFor ==
  /\ \A q \in dialog : q.act.control = "asks" /\ (OfDialog(q.act) => key # NoKey)
  /\ \A d \in Doers : Busy(d) /\ OfDialog(ActOf(d)) => doing[d].key # NoKey

\* How an action begins: it could be clicked, or was confirmed.
LEMMA BeginsFit ==
  ASSUME TypeInv, AskedFor, NEW d \in Doers,
         Confirm(d) \/ \E a \in shape.acts : \E r \in RowsOf(a) : Click(d, a, r)
  PROVE  \E a \in shape.acts, r \in Rows :
           /\ Begin(d, a, r) /\ dialog' \subseteq dialog
           /\ Clickable(a, r) \/ a.control = "asks"
           /\ OfDialog(a) => key # NoKey
<1>1. CASE Confirm(d)
  <2>1. PICK q \in dialog : Begin(d, q.act, q.row) /\ dialog' = {}
    BY <1>1 DEF Confirm
  <2>2. q.act \in shape.acts /\ q.row \in Rows
    BY DEF TypeInv, ActorTypes
  <2> QED
    BY <2>1, <2>2 DEF AskedFor
<1>2. CASE \E a \in shape.acts : \E r \in RowsOf(a) : Click(d, a, r)
  <2>1. PICK a \in shape.acts : \E r \in RowsOf(a) : Click(d, a, r)
    BY <1>2
  <2>2. PICK r \in RowsOf(a) : Click(d, a, r)
    BY <2>1
  <2>3. r \in Rows
    BY ViewAssumption DEF RowsOf
  <2> QED
    BY <2>2, <2>3 DEF Click, Reachable
<1> QED
  BY <1>1, <1>2

\* What became of the actors in a step.
LEMMA BegunActs ==
  ASSUME TypeInv, NEW d \in Doers, NEW a \in shape.acts, NEW r \in Rows, Begin(d, a, r)
  PROVE  /\ ~Busy(d) /\ Busy(d)' /\ doing'[d].act = a /\ doing'[d].row = r
         /\ doing'[d].key = (IF OfDialog(a) THEN key ELSE NoKey)
         /\ \A e \in Doers : e # d => doing'[e] = doing[e]
<1>1. doing' = [doing EXCEPT ![d] = [act |-> a, row |-> r, at |-> 1, key |-> IF OfDialog(a) THEN key ELSE NoKey]]
  BY DEF Begin
<1> DEFINE new == [act |-> a, row |-> r, at |-> 1, key |-> IF OfDialog(a) THEN key ELSE NoKey]
<1>2. /\ new.act = a /\ new.row = r /\ new.key = (IF OfDialog(a) THEN key ELSE NoKey)
      /\ new # Idle
  <2>1. DOMAIN new # DOMAIN Idle
    <3>1. "act" \in DOMAIN new /\ "act" \notin DOMAIN Idle
      BY DEF Idle
    <3> QED
      BY <3>1
  <2> QED
    BY <2>1
<1>3. doing' = [doing EXCEPT ![d] = new]
  BY <1>1
<1> HIDE DEF new
<1> QED
  BY <1>2, <1>3 DEF Begin, Busy, TypeInv, ActorTypes

LEMMA EndedActs ==
  ASSUME TypeInv, NEW d \in Doers, Finish(d) \/ Break(d)
  PROVE  /\ ~Busy(d)' /\ flag' = Released(d) /\ shared' = shared
         /\ \A e \in Doers : e # d => doing'[e] = doing[e]
BY DEF Finish, Break, Busy, history, TypeInv, ActorTypes

LEMMA ProceedsActs ==
  ASSUME TypeInv, NEW d \in Doers, Proceed(d)
  PROVE  /\ UNCHANGED <<flag, shared, dialog, key, shape>>
         /\ \A e \in Doers : /\ Busy(e)' <=> Busy(e)
                             /\ doing'[e].act = doing[e].act /\ doing'[e].row = doing[e].row
                             /\ doing'[e].key = doing[e].key
<1>1. doing[d] \in Running /\ Busy(d)
  BY BusyType DEF Proceed
<1>2. /\ [doing[d] EXCEPT !.at = @ + 1] \in Running
      /\ [doing[d] EXCEPT !.at = @ + 1].act = doing[d].act
      /\ [doing[d] EXCEPT !.at = @ + 1].row = doing[d].row
      /\ [doing[d] EXCEPT !.at = @ + 1].key = doing[d].key
  BY <1>1 DEF Running
<1>3. \A x \in Running : x # Idle
  <2> TAKE x \in Running
  <2>1. "act" \in DOMAIN x /\ "act" \notin DOMAIN Idle
    BY DEF Running, Idle
  <2> QED
    BY <2>1
<1>4. doing' = [doing EXCEPT ![d] = [doing[d] EXCEPT !.at = @ + 1]]
  BY DEF Proceed
<1> QED
  BY <1>1, <1>2, <1>3, <1>4 DEF Proceed, Busy, history, TypeInv, ActorTypes

LEMMA InitHolder == Init => OneHolder /\ AskedFor
BY DEF Init, OneHolder, AskedFor, Flagged, Busy

\* Steps that leave the actors alone, or only dismiss what they were asked.
LEMMA HolderKept ==
  ASSUME OneHolder, UNCHANGED <<doing, flag, shared>>
  PROVE  OneHolder'
BY DEF OneHolder, HoldsFlag, Flagged, Busy, ActOf, Protects

LEMMA AskedKept ==
  ASSUME AskedFor, UNCHANGED <<shape, doing>>, dialog' \subseteq dialog, key # NoKey => key' # NoKey
  PROVE  AskedFor'
BY DEF AskedFor, Busy, ActOf, OfDialog, IsHook

\* An action takes the flag when nobody holds it.
LEMMA BeginHolder ==
  ASSUME TypeInv, OneHolder, NEW d \in Doers, NEW a \in shape.acts, NEW r \in Rows, Begin(d, a, r),
         Clickable(a, r) \/ a.control = "asks"
  PROVE  OneHolder'
<1>1. /\ ~Busy(d) /\ Busy(d)' /\ ActOf(d)' = a /\ doing'[d].row = r
      /\ \A e \in Doers : e # d => doing'[e] = doing[e]
      /\ shared' = (shared \/ (a.flagged /\ flag \notin {0, r}))
      /\ flag' = IF a.flagged THEN r ELSE flag
  BY BegunActs DEF Begin, ActOf
<1>2. \A e \in Doers : e # d => (Flagged(e)' <=> Flagged(e)) /\ ActOf(e)' = ActOf(e)
  BY <1>1 DEF Flagged, Busy, ActOf
<1>3. ~Flagged(d) /\ (Flagged(d)' <=> a.flagged)
  BY <1>1 DEF Flagged
<1>4. \A e \in Doers : Flagged(e) => ActOf(e) \in shape.acts /\ ActOf(e).flagged /\ doing[e].row \in Rows
  BY BusyType DEF Flagged, Running
<1>5. 0 \notin Rows
  BY ViewAssumption
<1>6. CASE ~a.flagged
  BY <1>1, <1>2, <1>3, <1>6 DEF OneHolder, HoldsFlag, Protects
<1>7. CASE a.flagged
  <2>1. \A e \in Doers : Flagged(e) => ActOf(e).control = a.control
    BY <1>4, <1>7, FlagAssumption DEF TypeInv, ViewTypes
  <2>2. ASSUME Protects(a)' PROVE \A e \in Doers : ~Flagged(e)
    <3>1. Protects(a) /\ a.control # "asks"
      BY <1>1, <2>2 DEF Protects
    <3>2. flag = 0
      BY <1>1, <1>7, <2>2, <3>1 DEF Protects, Clickable
    <3> QED
      BY <1>4, <1>5, <2>1, <3>1, <3>2 DEF OneHolder, HoldsFlag, Protects
  <2>3. CASE Protects(a)'
    BY <1>1, <1>2, <1>3, <1>7, <2>2, <2>3 DEF OneHolder, HoldsFlag
  <2>4. CASE ~Protects(a)'
    <3>1. \A e \in Doers : Flagged(e)' => ActOf(e)'.control = a.control
      BY <1>1, <1>2, <2>1
    <3> QED
      BY <2>4, <3>1 DEF OneHolder, Protects
  <2> QED
    BY <2>3, <2>4
<1> QED
  BY <1>6, <1>7

\* It gives the flag back.
LEMMA EndHolder ==
  ASSUME TypeInv, OneHolder, NEW d \in Doers, Finish(d) \/ Break(d)
  PROVE  OneHolder'
<1>1. /\ ~Busy(d)' /\ flag' = Released(d) /\ shared' = shared /\ Busy(d)
      /\ \A e \in Doers : e # d => doing'[e] = doing[e]
  BY EndedActs DEF Finish, Break
<1>2. /\ ~Flagged(d)'
      /\ \A e \in Doers : e # d => (Flagged(e)' <=> Flagged(e)) /\ ActOf(e)' = ActOf(e) /\ doing'[e].row = doing[e].row
  BY <1>1 DEF Flagged, Busy, ActOf
<1>3. CASE ~ActOf(d).flagged
  BY <1>1, <1>2, <1>3 DEF OneHolder, HoldsFlag, Protects, Released
<1>4. CASE ActOf(d).flagged
  <2>1. Flagged(d)
    BY <1>1, <1>4 DEF Flagged
  <2>2. \A e \in Doers : Flagged(e) /\ Protects(ActOf(e)) => e = d
    BY <2>1 DEF OneHolder, HoldsFlag
  <2> QED
    BY <1>1, <1>2, <2>2 DEF OneHolder, Protects
<1> QED
  BY <1>3, <1>4

LEMMA StepHolder == TypeInv /\ OneHolder /\ AskedFor /\ [Next]_vars => OneHolder' /\ AskedFor'
<1> SUFFICES ASSUME TypeInv, OneHolder, AskedFor, [Next]_vars PROVE OneHolder' /\ AskedFor'
  OBVIOUS
<1>1. \A k \in Keys : k # NoKey
  BY ViewAssumption DEF NoKey
<1>2. ASSUME NEW k \in Keys, Select(k) \/ Type(k) PROVE OneHolder' /\ AskedFor'
  BY <1>1, <1>2, HolderKept, AskedKept DEF Select, Type, actor, history
<1>3. CASE Reload \/ Tick \/ Choose \/ Dismiss \/ ElsewhereChanged \/ UNCHANGED vars
  BY <1>3, HolderKept, AskedKept DEF Reload, Tick, Choose, Dismiss, ElsewhereChanged, actor, history, vars
<1>4. ASSUME NEW i \in Slots, Serve(i) \/ Land(i) \/ Fail(i) PROVE OneHolder' /\ AskedFor'
  BY <1>4, HolderKept, AskedKept DEF Serve, Land, Fail, actor, history
<1>5. ASSUME NEW a \in shape.acts, NEW r, Ask(a, r) PROVE OneHolder' /\ AskedFor'
  <2>1. UNCHANGED <<shape, key, doing, flag, shared>>
    BY <1>5 DEF Ask, history
  <2>2. dialog' = {[act |-> a, row |-> r]} /\ a.control = "asks" /\ (OfDialog(a) => key # NoKey)
    BY <1>5 DEF Ask, Reachable
  <2> QED
    BY <2>1, <2>2, HolderKept DEF AskedFor, Busy, ActOf, OfDialog, IsHook
<1>6. ASSUME NEW d \in Doers, Confirm(d) \/ \E a \in shape.acts : \E r \in RowsOf(a) : Click(d, a, r)
      PROVE  OneHolder' /\ AskedFor'
  <2>1. PICK a \in shape.acts, r \in Rows :
           /\ Begin(d, a, r) /\ dialog' \subseteq dialog
           /\ Clickable(a, r) \/ a.control = "asks"
           /\ OfDialog(a) => key # NoKey
    BY <1>6, BeginsFit
  <2>2. OneHolder'
    BY <2>1, BeginHolder
  <2>3. /\ ActOf(d)' = a /\ (OfDialog(a) => doing'[d].key # NoKey) /\ UNCHANGED <<shape, key>>
        /\ \A e \in Doers : e # d => doing'[e] = doing[e]
    <3>1. UNCHANGED <<shape, key>>
      BY <2>1 DEF Begin
    <3>2. doing'[d].act = a /\ doing'[d].key = (IF OfDialog(a) THEN key ELSE NoKey)
      BY <2>1, BegunActs
    <3>3. \A e \in Doers : e # d => doing'[e] = doing[e]
      BY <2>1, BegunActs
    <3> QED
      BY <2>1, <3>1, <3>2, <3>3 DEF ActOf
  <2>4. \A q \in dialog' : q.act.control = "asks" /\ (OfDialog(q.act)' => key' # NoKey)
    BY <2>1, <2>3 DEF AskedFor, OfDialog, IsHook
  <2>5. \A e \in Doers : Busy(e)' /\ OfDialog(ActOf(e))' => doing'[e].key # NoKey
    BY <2>3 DEF AskedFor, OfDialog, IsHook, Busy, ActOf
  <2> QED
    BY <2>2, <2>4, <2>5 DEF AskedFor, OfDialog, IsHook
<1>7. ASSUME NEW d \in Doers, Proceed(d) PROVE OneHolder' /\ AskedFor'
  BY <1>7, ProceedsActs DEF OneHolder, HoldsFlag, Flagged, ActOf, Protects, AskedFor, OfDialog, IsHook
<1>8. ASSUME NEW d \in Doers, Finish(d) \/ Break(d) PROVE OneHolder' /\ AskedFor'
  <2>1. OneHolder'
    BY <1>8, EndHolder
  <2>2. UNCHANGED <<shape, key, dialog>>
    BY <1>8 DEF Finish, Break
  <2>3. AskedFor'
    BY <1>8, <2>2, EndedActs DEF AskedFor, Busy, ActOf, OfDialog, IsHook
  <2> QED
    BY <2>1, <2>3
<1> QED
  BY <1>2, <1>3, <1>4, <1>5, <1>6, <1>7, <1>8 DEF Next, UserStep, NetworkStep

LEMMA ActorInvariant == Spec => [](TypeInv /\ OneHolder /\ AskedFor)
BY InitTypes, StepTypes, InitHolder, StepHolder, PTL DEF Spec

\* No action with a busy flag runs twice: of the pages and dialogs of every client,
\* however many handlers are under way and whichever of their calls fails.  Where
\* the flag holds a row, none runs twice for that row until another row took it.
THEOREM NeverSubmitsTwice == Spec => []NoDoubleSubmit
<1>1. TypeInv /\ OneHolder => NoDoubleSubmit
  <2> SUFFICES ASSUME TypeInv, OneHolder, NEW d \in Doers, NEW e \in Doers, d # e,
                      Flagged(d), Flagged(e)
               PROVE  /\ ~(ActOf(d).control \in {"while", "whileLoading"} /\ ActOf(e).control = ActOf(d).control)
                      /\ ActOf(d).control = "perRow" => shared
    BY DEF NoDoubleSubmit, Flagged
  <2>1. ~Protects(ActOf(d))
    BY DEF OneHolder, HoldsFlag
  <2> QED
    BY <2>1 DEF Protects, TypeInv, ActorTypes
<1> QED
  BY <1>1, ActorInvariant, PTL

-----------------------------------------------------------------------------
(***************************************************************************)
(* A page shows what it changed.                                            *)
(***************************************************************************)

\* A handler that changes what a view shows reloads the view, or is known to leave
\* it stale.
ReloadsItsChanges ==
  \A s \in Shapes : \A a \in s.acts :
    (\E c \in DOMAIN a.calls : a.calls[c]) => a.reloads \/ a.leavesStale

\* What is shown, and every answer that still counts, has the changes in it.
HasChanges ==
  ~raced =>
    /\ \A i \in Slots : fetches[i].live /\ fetches[i].ver # 0 => fetches[i].ver >= owed
    /\ AtRest => shown.ver >= owed

\* A request that was just made has not been answered yet.
LEMMA StartHas ==
  ASSUME TypeInv, NEW k \in Selections, Start(k)
  PROVE  HasChanges'
<1> SUFFICES ASSUME ~raced' PROVE HasChanges'
  BY DEF HasChanges
<1>1. PICK i \in Slots : /\ fetches'[i].ver = 0
                        /\ \A j \in Slots : fetches'[j].live => j = i
  BY StartLive
<1>2. loading' = TRUE
  BY DEF Start
<1> QED
  BY <1>1, <1>2 DEF HasChanges, AtRest

LEMMA HasKept ==
  ASSUME HasChanges, UNCHANGED <<loader, raced, owed>>
  PROVE  HasChanges'
BY DEF HasChanges, AtRest, loader

LEMMA AnswerHas ==
  ASSUME TypeInv, HasChanges, NEW i \in Slots, Serve(i) \/ Land(i) \/ Fail(i)
  PROVE  HasChanges'
<1>1. UNCHANGED <<raced, owed>>
  BY DEF Serve, Land, Fail, history
<1>2. CASE Serve(i)
  <2>1. \A j \in Slots : /\ fetches'[j].live = fetches[j].live
                        /\ fetches'[j].ver = IF j = i THEN server ELSE fetches[j].ver
    BY <1>2 DEF Serve, TypeInv, ViewTypes, Requests
  <2>2. server >= owed
    BY ViewAssumption DEF TypeInv, ViewTypes, ServedTypes
  <2> QED
    BY <1>1, <1>2, <2>1, <2>2 DEF Serve, HasChanges, AtRest
<1>3. ASSUME Land(i) \/ Fail(i)
      PROVE  \A j \in Slots : fetches'[j].live => j # i /\ fetches'[j] = fetches[j]
  BY <1>3, EmptyTypes DEF Land, Fail, TypeInv, ViewTypes
<1>4. CASE Land(i)
  <2>1. fetches[i].live => shown'.ver = fetches[i].ver /\ fetches[i].ver # 0
    BY <1>4 DEF Land, Applied, Answer
  <2>2. ~fetches[i].live => UNCHANGED <<shown, loading, error>>
    BY <1>4 DEF Land, Ignored
  <2> QED
    BY <1>1, <1>3, <1>4, <2>1, <2>2 DEF HasChanges, AtRest
<1>5. CASE Fail(i)
  <2>1. shown' = shown /\ (AtRest' => AtRest)
    BY <1>5 DEF Fail, AtRest
  <2> QED
    BY <1>1, <1>3, <1>5, <2>1 DEF HasChanges
<1> QED
  BY <1>2, <1>4, <1>5

\* A handler that changed something starts a request, in a detail for its row.
LEMMA FinishHas ==
  ASSUME ReloadsItsChanges, TypeInv, AskedFor, HasChanges, NEW d \in Doers, Finish(d)
  PROVE  HasChanges'
<1> DEFINE k == IF IsHook THEN key ELSE doing[d].key
<1>1. k \in Selections /\ ActOf(d) \in shape.acts /\ Busy(d) /\ shape \in Shapes
  BY BusyType DEF Finish, Running, TypeInv, ViewTypes
<1>2. CASE Start(k)
  <2> HIDE DEF k
  <2> QED
    BY <1>1, <1>2, StartHas
<1>3. CASE ~(ActOf(d).reloads /\ (IsHook \/ doing[d].key # NoKey))
  <2>1. ~ActOf(d).reloads
    BY <1>1, <1>3 DEF AskedFor, OfDialog
  <2>2. ActOf(d).leavesStale \/ \A c \in DOMAIN ActOf(d).calls : ~ActOf(d).calls[c]
    BY <1>1, <2>1 DEF ReloadsItsChanges
  <2>3. UNCHANGED <<loader, raced, owed>>
    BY <1>3, <2>2 DEF Finish
  <2> QED
    BY <2>3, HasKept
<1> QED
  BY <1>2, <1>3 DEF Finish

LEMMA StepHas ==
  ASSUME ReloadsItsChanges, TypeInv, AskedFor, HasChanges, [Next]_vars
  PROVE  HasChanges'
<1>1. key \in Selections /\ Keys \subseteq Selections
  BY DEF TypeInv, ViewTypes, Selections
<1>2. ASSUME NEW k \in Keys, Select(k) \/ Type(k) PROVE HasChanges'
  BY <1>1, <1>2, StartHas, HasKept DEF Select, Type, history
<1>3. CASE Reload \/ Tick
  BY <1>1, <1>3, StartHas DEF Reload, Tick
<1>4. CASE Choose \/ Dismiss \/ ElsewhereChanged \/ UNCHANGED vars
  BY <1>4, HasKept DEF Choose, Dismiss, ElsewhereChanged, history, vars, loader
<1>5. ASSUME NEW a, NEW r, NEW d, Ask(a, r) \/ Begin(d, a, r) PROVE HasChanges'
  BY <1>5, HasKept DEF Ask, Begin, history
<1>6. ASSUME NEW d \in Doers, Proceed(d) \/ Break(d) PROVE HasChanges'
  BY <1>6, HasKept DEF Proceed, Break, history
<1> QED
  BY <1>2, <1>3, <1>4, <1>5, <1>6, AnswerHas, FinishHas DEF Next, UserStep, NetworkStep, Click, Confirm

\* A page whose handlers reload what they change shows every change it made and was
\* told of, however late the answers to earlier requests come.
THEOREM ChangesAreShown ==
  ASSUME ReloadsItsChanges
  PROVE  Spec => []OwnWritesShown
<1>1. Init => HasChanges
  BY DEF Init, HasChanges, AtRest, NoRequest
<1>2. HasChanges => OwnWritesShown
  BY DEF HasChanges, OwnWritesShown
<1> QED
  BY <1>1, <1>2, InitTypes, ActorInvariant, StepHas, PTL DEF Spec

-----------------------------------------------------------------------------
(***************************************************************************)
(* A form is saved for the row it was filled for.                           *)
(***************************************************************************)

Saves == \E a \in shape.acts : a.saves

\* As long as no load failed, the form of a page that has loaded is filled, and that
\* of a detail with the row the detail is on.
Filled ==
  ~failed /\ Saves =>
    /\ draft # Nothing => draft.ver > 0
    /\ IsHook /\ ~loading => draft # Nothing
    /\ ~IsHook /\ ~raced /\ ~loading /\ key # NoKey => draft # Nothing /\ draft.key = key

LEMMA FilledKept ==
  ASSUME Filled, UNCHANGED <<shape, draft, loading, failed, raced>>, UNCHANGED key \/ IsHook
  PROVE  Filled'
BY DEF Filled, IsHook, Saves

LEMMA StartFilled ==
  ASSUME Filled, NEW k, Start(k), UNCHANGED <<shape, draft, failed>>
  PROVE  Filled'
BY DEF Filled, IsHook, Saves, Start

LEMMA LandFilled ==
  ASSUME TypeInv, LiveIsLast, Filled, NEW i \in Slots, Land(i)
  PROVE  Filled'
<1> SUFFICES ASSUME ~failed', Saves' PROVE Filled'
  BY DEF Filled
<1>1. UNCHANGED <<shape, key, failed, raced>>
  BY DEF Land, history
<1>2. Saves /\ ~failed /\ shape \in Shapes /\ shape.seeds # "no" /\ (~IsHook => shape.seeds = "always" /\ ~shape.loosely)
  BY <1>1, FormAssumption, ViewAssumption DEF Saves, TypeInv, ViewTypes, IsHook
<1>3. CASE ~fetches[i].live
  BY <1>1, <1>3, FilledKept DEF Land, Ignored
<1>4. CASE fetches[i].live
  <2>1. draft' = Seeded(Answer(i)) /\ loading' = FALSE
    BY <1>4 DEF Land, Applied
  <2>2. Answer(i).key = fetches[i].key /\ Answer(i).ver > 0 /\ Answer(i) # Nothing
    BY ViewAssumption DEF Land, Answer, Nothing, TypeInv, ViewTypes, Requests
  <2>3. draft' = Answer(i) \/ (draft' = draft /\ draft # Nothing)
    BY <1>2, <2>1 DEF Seeded
  <2>4. ~IsHook => draft' = Answer(i)
    BY <1>2, <2>1 DEF Seeded
  <2>5. ~IsHook /\ ~raced => fetches[i].key = key
    BY <1>2, <1>4 DEF LiveIsLast
  <2> QED
    BY <1>1, <1>2, <2>2, <2>3, <2>4, <2>5 DEF Filled, IsHook
<1> QED
  BY <1>3, <1>4

LEMMA StepFilled ==
  ASSUME TypeInv, LiveIsLast, Filled, [Next]_vars
  PROVE  Filled'
<1>1. ASSUME NEW k \in Keys, Select(k) PROVE Filled'
  BY <1>1, StartFilled DEF Select
<1>2. ASSUME NEW k \in Keys, Type(k) PROVE Filled'
  <2>1. shape.loosely /\ UNCHANGED <<shape, draft, loading, failed, raced>>
    BY <1>2 DEF Type, loader, history
  <2>2. Saves => IsHook
    BY <2>1, FormAssumption, ViewAssumption DEF Saves, TypeInv, ViewTypes, IsHook
  <2> QED
    BY <2>1, <2>2, FilledKept DEF Filled, Saves
<1>3. CASE Reload \/ Tick
  BY <1>3, StartFilled DEF Reload, Tick
<1>4. CASE Choose \/ Dismiss \/ ElsewhereChanged \/ UNCHANGED vars
  BY <1>4, FilledKept DEF Choose, Dismiss, ElsewhereChanged, history, vars, loader
<1>5. ASSUME NEW a, NEW r, NEW d, Ask(a, r) \/ Begin(d, a, r) PROVE Filled'
  BY <1>5, FilledKept DEF Ask, Begin, history, loader
<1>6. ASSUME NEW d \in Doers, Proceed(d) \/ Break(d) PROVE Filled'
  BY <1>6, FilledKept DEF Proceed, Break, history, loader
<1>7. ASSUME NEW d \in Doers, Finish(d) PROVE Filled'
  BY <1>7, FilledKept, StartFilled DEF Finish, loader
<1>8. ASSUME NEW i \in Slots, Serve(i) PROVE Filled'
  BY <1>8, FilledKept DEF Serve, history
<1>9. ASSUME NEW i \in Slots, Land(i) PROVE Filled'
  BY <1>9, LandFilled
<1>10. ASSUME NEW i \in Slots, Fail(i) PROVE Filled'
  BY <1>10 DEF Fail, Filled
<1> QED
  BY <1>1, <1>2, <1>3, <1>4, <1>5, <1>6, <1>7, <1>8, <1>9, <1>10 DEF Next, UserStep, NetworkStep, Click, Confirm

\* A form is sent only after an answer filled it, in a detail the answer for the
\* row it is sent for, unless a load failed, two loads of the detail overlapped, or
\* the button does not wait for the load.
THEOREM SavedFormsAreFilled == Spec => SavesWhatWasLoaded
<1>1. Init => Filled
  BY DEF Init, Filled
<1>2. ASSUME TypeInv, AskedFor, Filled, [Next]_vars, NEW d \in Doers, ~Busy(d), Busy(d)', ActOf(d)'.saves
      PROVE  FilledForItsRow \/ Unguarded(ActOf(d)')
  <2>1. \E e \in Doers : Confirm(e) \/ \E a \in shape.acts : \E r \in RowsOf(a) : Click(e, a, r)
    <3>1. ~UNCHANGED doing
      BY <1>2 DEF Busy
    <3>2. \A e \in Doers : ~Proceed(e)
      BY <1>2, ProceedsActs
    <3>3. \A e \in Doers : ~Finish(e) /\ ~Break(e)
      BY <1>2, EndedActs DEF Busy
    <3>4. ~Reload /\ ~Tick /\ ~Choose /\ ~Dismiss /\ ~ElsewhereChanged /\ ~UNCHANGED vars
      BY <3>1 DEF Reload, Tick, Choose, Dismiss, ElsewhereChanged, vars, actor
    <3>5. \A k \in Keys : ~Select(k) /\ ~Type(k)
      BY <3>1 DEF Select, Type, actor
    <3>6. \A i \in Slots : ~Serve(i) /\ ~Land(i) /\ ~Fail(i)
      BY <3>1 DEF Serve, Land, Fail, actor
    <3>7. \A a, r : ~Ask(a, r)
      BY <3>1 DEF Ask
    <3> QED
      BY <1>2, <3>2, <3>3, <3>4, <3>5, <3>6, <3>7 DEF Next, UserStep, NetworkStep
  <2>2. PICK e \in Doers : Confirm(e) \/ \E a \in shape.acts : \E r \in RowsOf(a) : Click(e, a, r)
    BY <2>1
  <2>3. PICK a \in shape.acts, r \in Rows :
           /\ Begin(e, a, r) /\ dialog' \subseteq dialog
           /\ Clickable(a, r) \/ a.control = "asks"
           /\ OfDialog(a) => key # NoKey
    BY <1>2, <2>2, BeginsFit
  <2>4. e = d /\ ActOf(d)' = a
    BY <1>2, <2>3, BegunActs DEF Busy, ActOf
  <2>5. Saves /\ a.saves /\ (~IsHook => key # NoKey)
    BY <1>2, <2>3, <2>4 DEF Saves, OfDialog
  <2>6. a.control = "whileLoading" => ~loading
    BY <2>3 DEF Clickable
  <2>7. CASE ~failed /\ ~raced /\ ~loading
    BY <1>2, <2>5, <2>7 DEF Filled, FilledForItsRow
  <2> QED
    BY <2>4, <2>6, <2>7 DEF Unguarded
<1>3. TypeInv /\ AskedFor /\ Filled /\ [Next]_vars =>
        [\A d \in Doers : ~Busy(d) /\ Busy(d)' /\ ActOf(d)'.saves => FilledForItsRow \/ Unguarded(ActOf(d)')]_vars
  BY <1>2
<1>4. Spec => [](TypeInv /\ LiveIsLast /\ Filled)
  BY <1>1, InitTypes, StepTypes, InitLast, StepLast, StepFilled, PTL DEF Spec
<1> QED
  BY <1>3, <1>4, ActorInvariant, PTL DEF Spec, SavesWhatWasLoaded

-----------------------------------------------------------------------------
(***************************************************************************)
(* The chat of the playground.                                             *)
(***************************************************************************)

Made == 1 .. made
Ids  == Chat!Conversations \cup {Chat!NoConversation}
Saving(i) == saves[i] # Chat!NoCall
Deleting  == deleting # Chat!NoCall

SaveCalls   == [at : {"asked", "saved", "listing"}, id : Ids, messages : SUBSET Made]
DeleteCalls == [at : {"asked", "deleted"}, id : Chat!Conversations, open : BOOLEAN]

ChatTypes ==
  /\ made \in 0 .. MaxMessages /\ messages \subseteq Made /\ thrown \subseteq Made
  /\ stored \in [Chat!Conversations -> SUBSET Made]
  /\ conversations \in [Chat!Conversations -> SUBSET Made]
  /\ convId \in Ids /\ streaming \in BOOLEAN /\ overlapped \in BOOLEAN
  /\ saves \in [Chat!Saves -> SaveCalls \cup {Chat!NoCall}]
  /\ \A i \in Chat!Saves : saves[i].at \in {"saved", "listing"} => saves[i].id \in Chat!Conversations
  /\ deleting \in DeleteCalls \cup {Chat!NoCall}

\* One call at a time, and none while an answer is received.
OneCall ==
  /\ \A i, j \in Chat!Saves : Saving(i) /\ Saving(j) => i = j
  /\ \A i \in Chat!Saves : Saving(i) => ~Deleting /\ ~streaming
  /\ Deleting => ~streaming

\* A save is of what is on screen, and what the server wrote of it is there.
SavesTheScreen ==
  \A i \in Chat!Saves :
    /\ saves[i].at = "asked" => saves[i].id = convId /\ saves[i].messages = messages
    /\ saves[i].at \in {"saved", "listing"} => stored[saves[i].id] = messages

\* The server knows nothing of the conversation on screen that the screen does not
\* show and the user did not throw away; a deleted one was thrown away.
ScreenIsAhead ==
  /\ convId \in Chat!Conversations => stored[convId] \subseteq messages \cup thrown
  /\ deleting.at = "deleted" /\ deleting.open => messages \subseteq thrown

EachKept ==
  \A m \in Made : m \in messages \/ m \in thrown \/ \E c \in Chat!Conversations : m \in stored[c]

NothingLost == ~overlapped => OneCall /\ SavesTheScreen /\ ScreenIsAhead /\ EachKept

-----------------------------------------------------------------------------
(***************************************************************************)
(* The channel dialog.                                                     *)
(***************************************************************************)

Settings == [cost : Costs \cup {Editor!NoPlatform}, auto : BOOLEAN]
Forms == [id : Channels \cup {Editor!NewChannel}, cost : Costs \cup {Editor!NoPlatform}, auto : BOOLEAN]
AskedCalls == [id : Channels, cost : Costs \cup {Editor!NoPlatform}, answer : {"none", "priced", "unpriced"}]
CostCalls == AskedCalls \cup {Editor!NoCall}

BoxTypes == form \in Forms /\ gate \in [preview : BOOLEAN, sync : BOOLEAN]

EditorTypes ==
  /\ channels \in [Channels -> Settings] /\ listed \in [Channels -> Settings] /\ editing \in BOOLEAN
  /\ BoxTypes /\ saving \subseteq Forms
  /\ costCalls \in [{"preview", "sync"} -> CostCalls]
  /\ rebound \subseteq Channels

\* A sync priced the channel at that cost, or found no price for it.
Tried(c, cost) == <<c, cost>> \in synced \/ c \in rebound

BoxTried == form.auto \/ gate.sync => Tried(form.id, form.cost)

\* Wherever the flag may be set, or was, a sync stands behind it: in the rows, in the
\* list, in the form, in what is being saved, in the gate, in an answer on its way.
FlagsTried ==
  /\ \A c \in Channels : channels[c].auto => Tried(c, channels[c].cost)
  /\ \A c \in Channels : listed[c].auto => Tried(c, listed[c].cost)
  /\ BoxTried
  /\ \A s \in saving : s.auto => Tried(s.id, s.cost)
  /\ costCalls["sync"].answer = "priced" => Tried(costCalls["sync"].id, costCalls["sync"].cost)

\* Messages are numbered from 1: one more is made.
LEMMA MadeGrows ==
  ASSUME MaxMessages \in Nat, made \in 0 .. MaxMessages, made' = made + 1
  PROVE  Made \subseteq Made' /\ made' \in Made' /\ Made' = Made \cup {made'}
BY DEF Made

LEMMA SlotType ==
  ASSUME ChatTypes, NEW i \in Chat!Saves
  PROVE  /\ saves[i] \in SaveCalls \cup {Chat!NoCall}
         /\ Saving(i) => saves[i] \in SaveCalls
         /\ saves[i].at # "no" <=> Saving(i)
BY DEF ChatTypes, Saving, SaveCalls, Chat!NoCall

LEMMA DeleteType ==
  ASSUME ChatTypes
  PROVE  /\ Deleting => deleting \in DeleteCalls
         /\ deleting.at # "no" <=> Deleting
BY DEF ChatTypes, Deleting, DeleteCalls, Chat!NoCall

LEMMA InitChatTypes == MaxMessages \in Nat /\ Chat!ChatInit => ChatTypes
<1> SUFFICES ASSUME MaxMessages \in Nat, Chat!ChatInit PROVE ChatTypes
  OBVIOUS
<1>1. /\ made \in 0 .. MaxMessages /\ messages \subseteq Made /\ thrown \subseteq Made
      /\ convId \in Ids /\ streaming \in BOOLEAN /\ overlapped \in BOOLEAN
  <2>1. made = 0 /\ messages = {} /\ thrown = {} /\ convId = Chat!NoConversation /\ ~streaming /\ ~overlapped
    BY DEF Chat!ChatInit
  <2>2. made \in 0 .. MaxMessages
    BY <2>1
  <2>3. streaming \in BOOLEAN /\ overlapped \in BOOLEAN
    BY DEF Chat!ChatInit
  <2> QED
    BY <2>1, <2>2, <2>3 DEF Ids
<1>2. /\ stored \in [Chat!Conversations -> SUBSET Made]
      /\ conversations \in [Chat!Conversations -> SUBSET Made]
  BY DEF Chat!ChatInit
<1>3. /\ saves \in [Chat!Saves -> SaveCalls \cup {Chat!NoCall}]
      /\ deleting \in DeleteCalls \cup {Chat!NoCall}
  BY DEF Chat!ChatInit
<1>4. \A i \in Chat!Saves : saves[i].at = "no"
  BY DEF Chat!ChatInit, Chat!NoCall
<1> QED
  BY <1>1, <1>2, <1>3, <1>4 DEF ChatTypes

\* Steps that make no message keep the set of messages.
LEMMA SpeakTypes ==
  ASSUME MaxMessages \in Nat, ChatTypes, Chat!sendMessage \/ Chat!StreamEnds
  PROVE  ChatTypes'
<1>1. CASE made' = made + 1 /\ messages' = messages \cup {made'} /\ made < MaxMessages
  <2>1. Made \subseteq Made' /\ made' \in Made' /\ made' \in 0 .. MaxMessages
    BY <1>1, MadeGrows DEF ChatTypes
  <2>2. SaveCalls \subseteq SaveCalls' /\ DeleteCalls' = DeleteCalls
    BY <2>1 DEF SaveCalls, DeleteCalls, Ids
  <2>3. /\ UNCHANGED <<stored, conversations, convId, saves, deleting, thrown>>
        /\ streaming' \in BOOLEAN /\ overlapped' \in BOOLEAN
    BY <1>1 DEF Chat!sendMessage, Chat!StreamEnds, Chat!Meets, ChatTypes
  <2>4. messages' \subseteq Made' /\ thrown' \subseteq Made'
    BY <1>1, <2>1, <2>3 DEF ChatTypes
  <2>5. /\ stored' \in [Chat!Conversations -> SUBSET Made']
        /\ conversations' \in [Chat!Conversations -> SUBSET Made']
    BY <2>1, <2>3 DEF ChatTypes
  <2>6. /\ saves' \in [Chat!Saves -> SaveCalls' \cup {Chat!NoCall}]
        /\ \A i \in Chat!Saves : saves'[i].at \in {"saved", "listing"} => saves'[i].id \in Chat!Conversations
        /\ deleting' \in DeleteCalls' \cup {Chat!NoCall}
    BY <2>2, <2>3 DEF ChatTypes
  <2> QED
    BY <2>1, <2>3, <2>4, <2>5, <2>6 DEF ChatTypes, Ids
<1>2. CASE UNCHANGED <<made, messages>>
  <2>1. UNCHANGED <<stored, conversations, convId, saves, deleting, thrown, made, messages>>
    BY <1>2 DEF Chat!sendMessage, Chat!StreamEnds
  <2>2. streaming' \in BOOLEAN /\ overlapped' \in BOOLEAN
    BY DEF Chat!sendMessage, Chat!StreamEnds, Chat!Meets, ChatTypes
  <2> QED
    BY <2>1, <2>2 DEF ChatTypes, Ids, Made, SaveCalls, DeleteCalls
<1> QED
  BY <1>1, <1>2 DEF Chat!sendMessage, Chat!StreamEnds

LEMMA NewChatTypes ==
  ASSUME ChatTypes, NEW i \in Chat!Saves, Chat!NewChat(i)
  PROVE  ChatTypes'
<1>1. [at |-> "asked", id |-> convId, messages |-> messages] \in SaveCalls
  BY DEF SaveCalls, ChatTypes
<1>2. /\ saves' \in [Chat!Saves -> SaveCalls \cup {Chat!NoCall}]
      /\ \A j \in Chat!Saves : saves'[j].at \in {"saved", "listing"} => saves'[j].id \in Chat!Conversations
  BY <1>1 DEF Chat!NewChat, ChatTypes
<1>3. overlapped' \in BOOLEAN
  BY DEF Chat!NewChat, Chat!Meets, ChatTypes
<1> QED
  BY <1>2, <1>3 DEF Chat!NewChat, Chat!screen, ChatTypes, SaveCalls, DeleteCalls, Ids, Made

LEMMA ServeSaveTypes ==
  ASSUME ChatTypes, NEW i \in Chat!Saves, Chat!ServeSave(i)
  PROVE  ChatTypes'
<1>1. saves[i] \in SaveCalls
  BY SlotType DEF Chat!ServeSave
<1>2. PICK c \in Chat!Conversations :
        /\ stored' = [stored EXCEPT ![c] = saves[i].messages]
        /\ saves' = [saves EXCEPT ![i].at = "saved", ![i].id = c]
  BY DEF Chat!ServeSave
<1>3. UNCHANGED <<conversations, messages, convId, streaming, made, deleting, thrown, overlapped>>
  BY DEF Chat!ServeSave, Chat!screen
<1>4. saves[i].messages \subseteq Made
  BY <1>1 DEF SaveCalls
<1>5. stored' \in [Chat!Conversations -> SUBSET Made]
  BY <1>2, <1>4 DEF ChatTypes
<1>6. [saves[i] EXCEPT !.at = "saved", !.id = c] \in SaveCalls
  BY <1>1 DEF SaveCalls, Ids
<1>7. /\ saves' \in [Chat!Saves -> SaveCalls \cup {Chat!NoCall}]
      /\ \A j \in Chat!Saves : saves'[j].at \in {"saved", "listing"} => saves'[j].id \in Chat!Conversations
  <2>1. saves' = [saves EXCEPT ![i] = [saves[i] EXCEPT !.at = "saved", !.id = c]]
    BY <1>2
  <2>2. [saves[i] EXCEPT !.at = "saved", !.id = c].id = c
    BY <1>1 DEF SaveCalls
  <2> QED
    BY <1>6, <2>1, <2>2 DEF ChatTypes
<1> QED
  BY <1>3, <1>5, <1>7 DEF ChatTypes, SaveCalls, DeleteCalls, Ids, Made

\* The other answers to a save.
LEMMA SaveEndTypes ==
  ASSUME ChatTypes, NEW i \in Chat!Saves, Chat!SaveAnswered(i) \/ Chat!ListLoaded(i) \/ Chat!SaveFails(i)
  PROVE  ChatTypes'
<1>1. stored' = stored /\ UNCHANGED <<made, streaming, deleting, thrown, overlapped>>
  BY DEF Chat!SaveAnswered, Chat!ListLoaded, Chat!SaveFails, Chat!KeepScreen, Chat!screen
<1>2. conversations' \in {conversations, stored} /\ messages' \in {messages, {}}
  BY DEF Chat!SaveAnswered, Chat!ListLoaded, Chat!SaveFails, Chat!KeepScreen, Chat!screen
<1>3. CASE Chat!SaveAnswered(i)
  <2>1. saves[i] \in SaveCalls /\ saves[i].id \in Chat!Conversations
    BY <1>3, SlotType DEF Chat!SaveAnswered, ChatTypes
  <2>2. [saves[i] EXCEPT !.at = "listing"] \in SaveCalls /\ [saves[i] EXCEPT !.at = "listing"].id = saves[i].id
    BY <2>1 DEF SaveCalls
  <2>3. /\ saves' \in [Chat!Saves -> SaveCalls \cup {Chat!NoCall}]
        /\ \A j \in Chat!Saves : saves'[j].at \in {"saved", "listing"} => saves'[j].id \in Chat!Conversations
    BY <1>3, <2>1, <2>2 DEF Chat!SaveAnswered, ChatTypes
  <2>4. convId' \in Ids
    BY <1>3, <2>1 DEF Chat!SaveAnswered, Ids
  <2> QED
    BY <1>1, <1>2, <2>3, <2>4 DEF ChatTypes, SaveCalls, DeleteCalls, Ids, Made
<1>4. CASE Chat!ListLoaded(i) \/ Chat!SaveFails(i)
  <2>1. saves' = [saves EXCEPT ![i] = Chat!NoCall]
    BY <1>4 DEF Chat!ListLoaded, Chat!SaveFails
  <2>2. /\ saves' \in [Chat!Saves -> SaveCalls \cup {Chat!NoCall}]
        /\ \A j \in Chat!Saves : saves'[j].at \in {"saved", "listing"} => saves'[j].id \in Chat!Conversations
    BY <2>1 DEF ChatTypes, Chat!NoCall
  <2>3. convId' \in Ids
    BY <1>4 DEF Chat!ListLoaded, Chat!SaveFails, Chat!KeepScreen, Chat!screen, ChatTypes, Ids
  <2> QED
    BY <1>1, <1>2, <2>2, <2>3 DEF ChatTypes, SaveCalls, DeleteCalls, Ids, Made
<1> QED
  BY <1>3, <1>4

LEMMA OpenTypes ==
  ASSUME ChatTypes, NEW c \in Chat!Conversations, Chat!OpenConversation(c) \/ Chat!DeleteConversation(c)
  PROVE  ChatTypes'
<1>1. UNCHANGED <<stored, conversations, streaming, made, saves>>
  BY DEF Chat!OpenConversation, Chat!DeleteConversation, Chat!screen
<1>2. overlapped' \in BOOLEAN
  BY DEF Chat!OpenConversation, Chat!DeleteConversation, Chat!Meets, ChatTypes
<1>3. messages' \subseteq Made /\ thrown' \subseteq Made /\ convId' \in Ids
  BY DEF Chat!OpenConversation, Chat!DeleteConversation, Chat!screen, ChatTypes, Ids
<1>4. deleting' \in DeleteCalls \cup {Chat!NoCall}
  <2>1. CASE Chat!OpenConversation(c)
    BY <2>1 DEF Chat!OpenConversation, ChatTypes
  <2>2. CASE Chat!DeleteConversation(c)
    <3>1. [at |-> "asked", id |-> c, open |-> convId = c] \in DeleteCalls
      BY DEF DeleteCalls
    <3> QED
      BY <2>2, <3>1 DEF Chat!DeleteConversation
  <2> QED
    BY <2>1, <2>2
<1> QED
  BY <1>1, <1>2, <1>3, <1>4 DEF ChatTypes, SaveCalls, DeleteCalls, Ids, Made

LEMMA DeleteTypes ==
  ASSUME ChatTypes, Chat!ServeDelete \/ Chat!DeleteAnswered \/ Chat!DeleteFails
  PROVE  ChatTypes'
<1>1. UNCHANGED <<streaming, made, saves, overlapped>>
  BY DEF Chat!ServeDelete, Chat!DeleteAnswered, Chat!DeleteFails, Chat!screen
<1>2. deleting \in DeleteCalls
  BY DeleteType DEF Chat!ServeDelete, Chat!DeleteAnswered, Chat!DeleteFails, Deleting
<1>3. CASE Chat!ServeDelete
  <2>1. stored[deleting.id] \subseteq Made
    BY <1>2 DEF ChatTypes, DeleteCalls
  <2>2. thrown' \subseteq Made /\ stored' \in [Chat!Conversations -> SUBSET Made]
    BY <1>3, <2>1 DEF Chat!ServeDelete, ChatTypes
  <2>3. deleting' \in DeleteCalls
    BY <1>2, <1>3 DEF Chat!ServeDelete, DeleteCalls
  <2>4. UNCHANGED <<conversations, messages, convId>>
    BY <1>3 DEF Chat!ServeDelete, Chat!screen
  <2> QED
    BY <1>1, <2>2, <2>3, <2>4 DEF ChatTypes, SaveCalls, DeleteCalls, Ids, Made
<1>4. CASE Chat!DeleteAnswered \/ Chat!DeleteFails
  <2>1. deleting' = Chat!NoCall /\ UNCHANGED <<stored, thrown>>
    BY <1>4 DEF Chat!DeleteAnswered, Chat!DeleteFails
  <2>2. conversations' \in [Chat!Conversations -> SUBSET Made]
    BY <1>4 DEF Chat!DeleteAnswered, Chat!DeleteFails, ChatTypes
  <2>3. messages' \subseteq Made /\ convId' \in Ids
    BY <1>4 DEF Chat!DeleteAnswered, Chat!DeleteFails, Chat!screen, ChatTypes, Ids
  <2> QED
    BY <1>1, <2>1, <2>2, <2>3 DEF ChatTypes, SaveCalls, DeleteCalls, Ids, Made
<1> QED
  BY <1>3, <1>4

LEMMA QuietTypes ==
  ASSUME ChatTypes, Chat!NewChatEmpty \/ Chat!Refresh \/ UNCHANGED Chat!chatVars
  PROVE  ChatTypes'
<1>1. UNCHANGED <<stored, messages, streaming, made, saves, deleting, thrown>>
  BY DEF Chat!NewChatEmpty, Chat!Refresh, Chat!screen, Chat!chatVars
<1>2. conversations' \in {conversations, stored} /\ convId' \in Ids
  BY DEF Chat!NewChatEmpty, Chat!Refresh, Chat!screen, Chat!chatVars, ChatTypes, Ids
<1>3. overlapped' \in BOOLEAN
  BY DEF Chat!NewChatEmpty, Chat!Refresh, Chat!screen, Chat!chatVars, Chat!Meets, ChatTypes
<1> QED
  BY <1>1, <1>2, <1>3 DEF ChatTypes, SaveCalls, DeleteCalls, Ids, Made

LEMMA StepChatTypes ==
  ASSUME MaxMessages \in Nat, ChatTypes, [Chat!ChatNext]_Chat!chatVars
  PROVE  ChatTypes'
BY SpeakTypes, NewChatTypes, ServeSaveTypes, SaveEndTypes, OpenTypes, DeleteTypes, QuietTypes DEF Chat!ChatNext

-----------------------------------------------------------------------------
(***************************************************************************)
(* No message of the chat is lost.                                         *)
(***************************************************************************)

\* An action of the user that overlaps nothing finds nothing under way.
LEMMA MeetsQuiet ==
  ASSUME ~overlapped', Chat!Meets
  PROVE  ~overlapped /\ ~Deleting /\ \A i \in Chat!Saves : ~Saving(i)
BY DEF Chat!Meets, Chat!Quiet, Saving, Deleting

\* While nothing is under way, what is on screen may grow.
LEMMA SpeakKeeps ==
  ASSUME MaxMessages \in Nat, ChatTypes, NothingLost, Chat!sendMessage \/ Chat!StreamEnds
  PROVE  NothingLost'
<1> SUFFICES ASSUME ~overlapped' PROVE (OneCall /\ SavesTheScreen /\ ScreenIsAhead /\ EachKept)'
  BY DEF NothingLost
<1>1. ~overlapped /\ ~Deleting /\ \A i \in Chat!Saves : ~Saving(i)
  <2>1. CASE Chat!sendMessage
    BY <2>1, MeetsQuiet DEF Chat!sendMessage
  <2>2. CASE Chat!StreamEnds
    BY <2>2 DEF Chat!StreamEnds, NothingLost, OneCall
  <2> QED
    BY <2>1, <2>2
<1>2. UNCHANGED <<stored, convId, saves, deleting, thrown>>
  BY DEF Chat!sendMessage, Chat!StreamEnds
<1>3. messages \subseteq messages' /\ \A m \in Made' : m \in Made \/ m \in messages'
  BY MadeGrows DEF Chat!sendMessage, Chat!StreamEnds, Made, ChatTypes
<1>4. OneCall' /\ SavesTheScreen'
  <2>1. \A i \in Chat!Saves : ~Saving(i)' /\ saves'[i].at = "no"
    BY <1>1, <1>2, SlotType DEF Saving
  <2> QED
    BY <1>1, <1>2, <2>1 DEF OneCall, SavesTheScreen, Deleting
<1>5. ScreenIsAhead'
  BY <1>1, <1>2, <1>3, DeleteType DEF NothingLost, ScreenIsAhead
<1>6. EachKept'
  BY <1>1, <1>2, <1>3 DEF NothingLost, EachKept
<1> QED
  BY <1>4, <1>5, <1>6

LEMMA NewChatKeeps ==
  ASSUME ChatTypes, NothingLost, NEW i \in Chat!Saves, Chat!NewChat(i)
  PROVE  NothingLost'
<1> SUFFICES ASSUME ~overlapped' PROVE (OneCall /\ SavesTheScreen /\ ScreenIsAhead /\ EachKept)'
  BY DEF NothingLost
<1>1. ~overlapped /\ ~Deleting /\ \A j \in Chat!Saves : ~Saving(j)
  BY MeetsQuiet DEF Chat!NewChat
<1>2. /\ ~streaming
      /\ saves' = [saves EXCEPT ![i] = [at |-> "asked", id |-> convId, messages |-> messages]]
      /\ UNCHANGED <<stored, messages, convId, streaming, made, deleting, thrown>>
  BY DEF Chat!NewChat, Chat!screen
<1>3. \A j \in Chat!Saves :
        /\ j # i => ~Saving(j)' /\ saves'[j].at = "no"
        /\ j = i => saves'[j] = [at |-> "asked", id |-> convId, messages |-> messages]
  BY <1>1, <1>2, SlotType DEF ChatTypes, Saving
<1>4. OneCall' /\ SavesTheScreen'
  BY <1>1, <1>2, <1>3 DEF OneCall, SavesTheScreen, Deleting
<1>5. ScreenIsAhead' /\ EachKept'
  BY <1>1, <1>2 DEF NothingLost, ScreenIsAhead, EachKept, Made
<1> QED
  BY <1>4, <1>5

\* The server has what is on screen; of the conversation it overwrites, the rest was
\* thrown away.
LEMMA ServeSaveKeeps ==
  ASSUME ChatTypes, NothingLost, NEW i \in Chat!Saves, Chat!ServeSave(i)
  PROVE  NothingLost'
<1> SUFFICES ASSUME ~overlapped' PROVE (OneCall /\ SavesTheScreen /\ ScreenIsAhead /\ EachKept)'
  BY DEF NothingLost
<1>1. PICK c \in Chat!Conversations :
        /\ IF saves[i].id = Chat!NoConversation THEN stored[c] = {} ELSE c = saves[i].id /\ stored[c] # {}
        /\ stored' = [stored EXCEPT ![c] = saves[i].messages]
        /\ saves' = [saves EXCEPT ![i].at = "saved", ![i].id = c]
  BY DEF Chat!ServeSave
<1>2. ~overlapped /\ UNCHANGED <<messages, convId, streaming, made, deleting, thrown>>
  BY DEF Chat!ServeSave, Chat!screen
<1>3. /\ Saving(i) /\ saves[i] \in SaveCalls /\ saves[i].id = convId /\ saves[i].messages = messages
      /\ ~Deleting /\ ~streaming
  BY <1>2, SlotType DEF Chat!ServeSave, NothingLost, OneCall, SavesTheScreen
<1>4. stored'[c] = messages /\ \A d \in Chat!Conversations : d # c => stored'[d] = stored[d]
  BY <1>1, <1>3 DEF ChatTypes
<1>5. stored[c] \subseteq messages \cup thrown
  BY <1>1, <1>2, <1>3 DEF NothingLost, ScreenIsAhead
<1>6. /\ saves'[i].at = "saved" /\ saves'[i].id = c
      /\ \A j \in Chat!Saves : j # i => saves'[j] = saves[j]
  BY <1>1, <1>3 DEF ChatTypes, SaveCalls
<1>7. \A j \in Chat!Saves : j # i => ~Saving(j)' /\ saves'[j].at = "no"
  BY <1>2, <1>3, <1>6, SlotType DEF NothingLost, OneCall, Saving
<1>8. OneCall' /\ SavesTheScreen'
  BY <1>2, <1>3, <1>4, <1>6, <1>7 DEF OneCall, SavesTheScreen, Deleting
<1>9. ScreenIsAhead'
  BY <1>2, <1>3, <1>4, DeleteType DEF NothingLost, ScreenIsAhead
<1>10. EachKept'
  BY <1>1, <1>2, <1>4, <1>5 DEF NothingLost, EachKept, Made
<1> QED
  BY <1>8, <1>9, <1>10

\* The answer to a save clears the screen only once the server has what is on it.
LEMMA SaveEndKeeps ==
  ASSUME ChatTypes, NothingLost, NEW i \in Chat!Saves,
         Chat!SaveAnswered(i) \/ Chat!ListLoaded(i) \/ Chat!SaveFails(i)
  PROVE  NothingLost'
<1> SUFFICES ASSUME ~overlapped' PROVE (OneCall /\ SavesTheScreen /\ ScreenIsAhead /\ EachKept)'
  BY DEF NothingLost
<1>1. ~overlapped /\ UNCHANGED <<stored, streaming, made, deleting, thrown>>
  BY DEF Chat!SaveAnswered, Chat!ListLoaded, Chat!SaveFails, Chat!KeepScreen, Chat!screen
<1>2. saves[i].at # "no"
  BY DEF Chat!SaveAnswered, Chat!ListLoaded, Chat!SaveFails
<1>3. Saving(i) /\ saves[i] \in SaveCalls /\ ~Deleting /\ ~streaming /\ deleting.at = "no"
  BY <1>1, <1>2, SlotType, DeleteType DEF NothingLost, OneCall
<1>4. \A j \in Chat!Saves : j # i => saves'[j] = saves[j] /\ ~Saving(j) /\ saves[j].at = "no"
  BY <1>1, <1>3, SlotType
     DEF NothingLost, OneCall, Chat!SaveAnswered, Chat!ListLoaded, Chat!SaveFails, ChatTypes
<1>5. CASE Chat!SaveAnswered(i)
  <2>1. messages' = messages /\ convId' = saves[i].id /\ saves[i].at = "saved"
    BY <1>5 DEF Chat!SaveAnswered
  <2>2. saves[i].id \in Chat!Conversations /\ stored[saves[i].id] = messages
    BY <1>1, <2>1 DEF NothingLost, SavesTheScreen, ChatTypes
  <2>3. saves'[i].at = "listing" /\ saves'[i].id = saves[i].id
    BY <1>3, <1>5 DEF Chat!SaveAnswered, ChatTypes, SaveCalls
  <2>4. stored[saves[i].id] \subseteq messages \cup thrown
    BY <2>2
  <2>5. OneCall' /\ SavesTheScreen'
    BY <1>1, <1>3, <1>4, <2>1, <2>2, <2>3 DEF OneCall, SavesTheScreen, Saving, Deleting
  <2>6. ScreenIsAhead' /\ EachKept'
    BY <1>1, <1>3, <2>1, <2>4 DEF NothingLost, ScreenIsAhead, EachKept, Made
  <2> QED
    BY <2>5, <2>6
<1>6. CASE Chat!ListLoaded(i) \/ Chat!SaveFails(i)
  <2>1. saves' = [saves EXCEPT ![i] = Chat!NoCall]
    BY <1>6 DEF Chat!ListLoaded, Chat!SaveFails
  <2>2. \A j \in Chat!Saves : ~Saving(j)' /\ saves'[j].at = "no"
    BY <1>4, <2>1 DEF ChatTypes, Saving, Chat!NoCall
  <2>3. OneCall' /\ SavesTheScreen'
    BY <1>1, <1>3, <2>2 DEF OneCall, SavesTheScreen, Deleting
  <2>4. CASE Chat!ListLoaded(i)
    <3>1. messages' = {} /\ convId' = Chat!NoConversation /\ saves[i].at = "listing"
      BY <2>4 DEF Chat!ListLoaded
    <3>2. saves[i].id \in Chat!Conversations /\ stored[saves[i].id] = messages
      BY <1>1, <3>1 DEF NothingLost, SavesTheScreen, ChatTypes
    <3>3. ScreenIsAhead'
      BY <1>1, <1>3, <3>1 DEF ScreenIsAhead, Chat!Conversations, Chat!NoConversation
    <3>4. EachKept'
      BY <1>1, <3>2 DEF NothingLost, EachKept, Made
    <3> QED
      BY <2>3, <3>3, <3>4
  <2>5. CASE Chat!SaveFails(i)
    <3>1. UNCHANGED <<messages, convId>>
      BY <2>5 DEF Chat!SaveFails, Chat!KeepScreen, Chat!screen
    <3>2. ScreenIsAhead' /\ EachKept'
      BY <1>1, <1>3, <3>1 DEF NothingLost, ScreenIsAhead, EachKept, Made
    <3> QED
      BY <2>3, <3>2
  <2> QED
    BY <1>6, <2>4, <2>5
<1> QED
  BY <1>5, <1>6

\* A conversation that is opened is shown as the server has it.
LEMMA OpenKeeps ==
  ASSUME ChatTypes, NothingLost, NEW c \in Chat!Conversations,
         Chat!OpenConversation(c) \/ Chat!DeleteConversation(c)
  PROVE  NothingLost'
<1> SUFFICES ASSUME ~overlapped' PROVE (OneCall /\ SavesTheScreen /\ ScreenIsAhead /\ EachKept)'
  BY DEF NothingLost
<1>1. /\ ~overlapped /\ ~Deleting /\ \A i \in Chat!Saves : ~Saving(i)
      /\ UNCHANGED <<stored, streaming, made, saves>> /\ ~streaming
  BY MeetsQuiet
     DEF Chat!OpenConversation, Chat!DeleteConversation, Chat!Quiet, Saving, Deleting, Chat!screen
<1>2. \A i \in Chat!Saves : ~Saving(i)' /\ saves'[i].at = "no"
  BY <1>1, SlotType DEF Saving
<1>3. OneCall' /\ SavesTheScreen'
  BY <1>1, <1>2 DEF OneCall, SavesTheScreen
<1>4. CASE Chat!OpenConversation(c)
  <2>1. /\ messages' = stored[c] /\ convId' = c /\ thrown' = thrown \cup messages
        /\ deleting' = deleting /\ deleting.at = "no"
    BY <1>1, <1>4, DeleteType DEF Chat!OpenConversation
  <2>2. ScreenIsAhead' /\ EachKept'
    BY <1>1, <2>1 DEF NothingLost, ScreenIsAhead, EachKept, Made
  <2> QED
    BY <1>3, <2>2
<1>5. CASE Chat!DeleteConversation(c)
  <2>1. UNCHANGED <<messages, convId, thrown>> /\ deleting'.at = "asked"
    BY <1>5 DEF Chat!DeleteConversation, Chat!screen
  <2>2. ScreenIsAhead' /\ EachKept'
    BY <1>1, <2>1 DEF NothingLost, ScreenIsAhead, EachKept, Made
  <2> QED
    BY <1>3, <2>2
<1> QED
  BY <1>4, <1>5

\* What a delete takes from the server and from the screen, the user threw away.
LEMMA DeleteKeeps ==
  ASSUME ChatTypes, NothingLost, Chat!ServeDelete \/ Chat!DeleteAnswered \/ Chat!DeleteFails
  PROVE  NothingLost'
<1> SUFFICES ASSUME ~overlapped' PROVE (OneCall /\ SavesTheScreen /\ ScreenIsAhead /\ EachKept)'
  BY DEF NothingLost
<1>1. ~overlapped /\ UNCHANGED <<streaming, made, saves>>
  BY DEF Chat!ServeDelete, Chat!DeleteAnswered, Chat!DeleteFails, Chat!screen
<1>2. Deleting /\ deleting \in DeleteCalls
  BY DeleteType DEF Chat!ServeDelete, Chat!DeleteAnswered, Chat!DeleteFails, Deleting
<1>3. ~streaming /\ \A i \in Chat!Saves : ~Saving(i) /\ saves[i].at = "no"
  BY <1>1, <1>2, SlotType DEF NothingLost, OneCall
<1>4. \A i \in Chat!Saves : ~Saving(i)' /\ saves'[i].at = "no"
  BY <1>1, <1>3 DEF Saving
<1>5. OneCall' /\ SavesTheScreen'
  BY <1>1, <1>3, <1>4 DEF OneCall, SavesTheScreen
<1>6. CASE Chat!ServeDelete
  <2>1. UNCHANGED <<messages, convId>> /\ deleting'.open = deleting.open
    BY <1>2, <1>6 DEF Chat!ServeDelete, Chat!screen, DeleteCalls
  <2>2. /\ stored' = [stored EXCEPT ![deleting.id] = {}]
        /\ thrown' = thrown \cup stored[deleting.id] \cup (IF deleting.open THEN messages ELSE {})
    BY <1>6 DEF Chat!ServeDelete
  <2>3. deleting.id \in Chat!Conversations
    BY <1>2 DEF DeleteCalls
  <2>4. /\ stored'[deleting.id] = {}
        /\ \A c \in Chat!Conversations : c # deleting.id => stored'[c] = stored[c]
    BY <2>2, <2>3 DEF ChatTypes
  <2>5. thrown \subseteq thrown' /\ stored[deleting.id] \subseteq thrown' /\ (deleting.open => messages \subseteq thrown')
    BY <2>2
  <2>6. ScreenIsAhead'
    BY <1>1, <2>1, <2>4, <2>5 DEF NothingLost, ScreenIsAhead
  <2>7. EachKept'
    BY <1>1, <2>1, <2>4, <2>5 DEF NothingLost, EachKept, Made
  <2> QED
    BY <1>5, <2>6, <2>7
<1>7. CASE Chat!DeleteAnswered \/ Chat!DeleteFails
  <2>1. UNCHANGED <<stored, thrown>> /\ deleting' = Chat!NoCall
    BY <1>7 DEF Chat!DeleteAnswered, Chat!DeleteFails
  <2>2. deleting'.at = "no"
    BY <2>1 DEF Chat!NoCall
  <2>3. CASE UNCHANGED <<messages, convId>>
    BY <1>1, <1>5, <2>1, <2>2, <2>3 DEF NothingLost, ScreenIsAhead, EachKept, Made
  <2>4. CASE messages' = {} /\ convId' = Chat!NoConversation /\ deleting.at = "deleted" /\ deleting.open
    <3>1. messages \subseteq thrown
      BY <1>1, <2>4 DEF NothingLost, ScreenIsAhead
    <3>2. EachKept'
      BY <1>1, <2>1, <3>1 DEF NothingLost, EachKept, Made
    <3>3. ScreenIsAhead'
      BY <2>2, <2>4 DEF ScreenIsAhead, Chat!Conversations, Chat!NoConversation
    <3> QED
      BY <1>5, <3>2, <3>3
  <2> QED
    BY <1>2, <1>7, <2>3, <2>4 DEF Chat!DeleteAnswered, Chat!DeleteFails, Chat!screen, DeleteCalls
<1> QED
  BY <1>6, <1>7

LEMMA QuietKeeps ==
  ASSUME ChatTypes, NothingLost, Chat!NewChatEmpty \/ Chat!Refresh \/ UNCHANGED Chat!chatVars
  PROVE  NothingLost'
<1>1. UNCHANGED <<stored, messages, streaming, made, saves, deleting, thrown>>
  BY DEF Chat!NewChatEmpty, Chat!Refresh, Chat!screen, Chat!chatVars
<1>2. CASE UNCHANGED <<convId, overlapped>>
  BY <1>1, <1>2
     DEF NothingLost, OneCall, Saving, Deleting, SavesTheScreen, ScreenIsAhead, EachKept, Made
<1>3. CASE Chat!NewChatEmpty
  <2> SUFFICES ASSUME ~overlapped' PROVE (OneCall /\ SavesTheScreen /\ ScreenIsAhead /\ EachKept)'
    BY DEF NothingLost
  <2>1. ~overlapped /\ ~Deleting /\ \A i \in Chat!Saves : ~Saving(i) /\ saves[i].at = "no"
    BY <1>3, MeetsQuiet, SlotType DEF Chat!NewChatEmpty
  <2>2. convId' = Chat!NoConversation /\ deleting.at = "no"
    BY <1>3, <2>1, DeleteType DEF Chat!NewChatEmpty
  <2>3. OneCall' /\ SavesTheScreen'
    BY <1>1, <2>1 DEF OneCall, SavesTheScreen, Saving, Deleting
  <2>4. ScreenIsAhead' /\ EachKept'
    BY <1>1, <2>1, <2>2
       DEF NothingLost, ScreenIsAhead, EachKept, Made, Chat!Conversations, Chat!NoConversation
  <2> QED
    BY <2>3, <2>4
<1> QED
  BY <1>2, <1>3 DEF Chat!Refresh, Chat!screen, Chat!chatVars

LEMMA InitKept == Chat!ChatInit => NothingLost
<1> SUFFICES ASSUME Chat!ChatInit PROVE OneCall /\ SavesTheScreen /\ ScreenIsAhead /\ EachKept
  BY DEF NothingLost
<1>1. \A i \in Chat!Saves : ~Saving(i) /\ saves[i].at = "no"
  BY DEF Chat!ChatInit, Saving, Chat!NoCall
<1>2. ~Deleting /\ deleting.at = "no" /\ made = 0 /\ convId = Chat!NoConversation
  BY DEF Chat!ChatInit, Deleting, Chat!NoCall
<1>3. ScreenIsAhead /\ EachKept
  BY <1>2 DEF ScreenIsAhead, EachKept, Made, Chat!Conversations, Chat!NoConversation
<1> QED
  BY <1>1, <1>2, <1>3 DEF OneCall, SavesTheScreen

LEMMA StepKept ==
  ASSUME MaxMessages \in Nat, ChatTypes, NothingLost, [Chat!ChatNext]_Chat!chatVars
  PROVE  NothingLost'
BY SpeakKeeps, NewChatKeeps, ServeSaveKeeps, SaveEndKeeps, OpenKeeps, DeleteKeeps, QuietKeeps DEF Chat!ChatNext

\* No message of the chat disappears unless its user throws it away, whatever saves,
\* lists and deletes fail or lose their answers, for any number of messages,
\* conversations and saves.
THEOREM NoMessageLost ==
  ASSUME MaxMessages \in Nat
  PROVE  Chat!ChatSpec => [](ChatTypes /\ Chat!MessagesKept)
<1>1. NothingLost => Chat!MessagesKept
  BY DEF NothingLost, EachKept, Chat!MessagesKept, Made
<1> QED
  BY <1>1, InitChatTypes, StepChatTypes, InitKept, StepKept, PTL DEF Chat!ChatSpec

-----------------------------------------------------------------------------
(***************************************************************************)
(* A sync stands behind the flag of every channel.                         *)
(***************************************************************************)

LEMMA InitFlags == Editor!EditorInit => EditorTypes /\ FlagsTried
<1> SUFFICES ASSUME Editor!EditorInit PROVE EditorTypes /\ FlagsTried
  OBVIOUS
<1>1. channels \in [Channels -> Settings] /\ listed = channels
  BY DEF Editor!EditorInit, Settings
<1>2. form \in Forms /\ ~form.auto /\ gate \in [preview : BOOLEAN, sync : BOOLEAN] /\ ~gate.sync
  BY DEF Editor!EditorInit, Editor!NoForm, Editor!Shut, Forms
<1>3. costCalls \in [{"preview", "sync"} -> CostCalls] /\ costCalls["sync"].answer = "none"
  BY DEF Editor!EditorInit, Editor!NoCall, CostCalls
<1>4. \A c \in Channels : channels[c].auto => <<c, channels[c].cost>> \in synced
  BY DEF Editor!EditorInit
<1>5. saving = {} /\ rebound = {} /\ editing \in BOOLEAN
  BY DEF Editor!EditorInit
<1> QED
  BY <1>1, <1>2, <1>3, <1>4, <1>5 DEF EditorTypes, FlagsTried, Tried, BoxTypes, BoxTried

\* What a sync was tried for stays tried.
TriedGrows == synced \subseteq synced' /\ rebound \subseteq rebound'

\* The dialog is filled with a row of the list, or with nothing.
LEMMA OpenFlags ==
  ASSUME EditorTypes, FlagsTried,
         Editor!OpenCreate \/ \E c \in Channels : Editor!OpenEdit(c) \/ Editor!OpenCopy(c)
  PROVE  EditorTypes' /\ FlagsTried'
<1>1. editing' \in BOOLEAN /\ UNCHANGED <<channels, listed, costCalls, saving, synced, rebound>>
  BY DEF Editor!OpenCreate, Editor!OpenEdit, Editor!OpenCopy, Editor!Open
<1>2. (BoxTypes /\ BoxTried)'
  <2>1. CASE Editor!OpenCreate
    BY <2>1 DEF Editor!OpenCreate, Editor!Open, Editor!NoForm, Editor!Shut, Forms, BoxTypes, BoxTried
  <2>2. ASSUME NEW c \in Channels, Editor!OpenEdit(c) PROVE (BoxTypes /\ BoxTried)'
    <3>1. listed[c] \in Settings /\ (listed[c].auto => Tried(c, listed[c].cost))
      BY DEF EditorTypes, FlagsTried
    <3> QED
      BY <2>2, <3>1 DEF Editor!OpenEdit, Editor!Open, Forms, Settings, BoxTypes, BoxTried, Tried
  <2>3. ASSUME NEW c \in Channels, Editor!OpenCopy(c) PROVE (BoxTypes /\ BoxTried)'
    BY <2>3 DEF Editor!OpenCopy, Editor!Open, Editor!NoForm, Editor!Shut, Forms, EditorTypes, Settings, BoxTypes, BoxTried
  <2> QED
    BY <2>1, <2>2, <2>3
<1> QED
  BY <1>1, <1>2 DEF EditorTypes, FlagsTried, Tried

\* Editing shuts the gate, and the switch needs it open.
LEMMA EditFlags ==
  ASSUME EditorTypes, FlagsTried,
         \/ Editor!Close \/ Editor!ToggleAutoSync
         \/ \E k \in Costs \cup {Editor!NoPlatform} : Editor!resetUpstreamCostGate(k)
  PROVE  EditorTypes' /\ FlagsTried'
<1>1. editing' \in BOOLEAN /\ UNCHANGED <<channels, listed, costCalls, saving, synced, rebound>>
  BY DEF Editor!Close, Editor!Closed, Editor!ToggleAutoSync, Editor!resetUpstreamCostGate, EditorTypes
<1>2. form \in Forms /\ gate \in [preview : BOOLEAN, sync : BOOLEAN] /\ BoxTried
  BY DEF EditorTypes, BoxTypes, FlagsTried
<1>3. (BoxTypes /\ BoxTried)'
  <2>1. CASE Editor!Close
    BY <2>1 DEF Editor!Close, Editor!Closed, Editor!NoForm, Editor!Shut, Forms, BoxTypes, BoxTried
  <2>2. CASE Editor!ToggleAutoSync
    <3>1. form' = [form EXCEPT !.auto = ~form.auto] /\ gate' = gate /\ (form.auto \/ gate.sync)
      BY <2>2 DEF Editor!ToggleAutoSync, Editor!Ready
    <3>2. Tried(form.id, form.cost)'
      BY <1>1, <1>2, <3>1 DEF BoxTried, Tried, Forms
    <3> QED
      BY <1>2, <3>1, <3>2 DEF Forms, BoxTypes, BoxTried, Tried
  <2>3. ASSUME NEW k \in Costs \cup {Editor!NoPlatform}, Editor!resetUpstreamCostGate(k)
        PROVE  (BoxTypes /\ BoxTried)'
    BY <1>2, <2>3 DEF Editor!resetUpstreamCostGate, Editor!Shut, Forms, BoxTypes, BoxTried
  <2> QED
    BY <2>1, <2>2, <2>3
<1> QED
  BY <1>1, <1>3 DEF EditorTypes, FlagsTried, Tried

\* A call that is made, answered or lost changes nothing else; only the answer to a
\* sync tells of a price.
LEMMA CallFlags ==
  ASSUME EditorTypes, FlagsTried,
         \/ Editor!ServePreview
         \/ \E kind \in {"preview", "sync"} : Editor!Ask(kind) \/ Editor!CallFails(kind)
  PROVE  EditorTypes' /\ FlagsTried'
<1>1. UNCHANGED <<channels, listed, editing, form, gate, saving, synced, rebound>>
  BY DEF Editor!ServePreview, Editor!Told, Editor!Ask, Editor!CallFails, Editor!Cleared, Editor!box
<1>2. /\ costCalls' \in [{"preview", "sync"} -> CostCalls]
      /\ costCalls'["sync"] = costCalls["sync"] \/ costCalls'["sync"].answer = "none"
  <2>1. CASE Editor!ServePreview
    <3>1. PICK answer \in {"priced", "unpriced"} : costCalls' = [costCalls EXCEPT !["preview"].answer = answer]
      BY <2>1 DEF Editor!ServePreview, Editor!Told
    <3>2. [costCalls["preview"] EXCEPT !.answer = answer] \in AskedCalls
      BY <2>1 DEF EditorTypes, CostCalls, AskedCalls, Editor!ServePreview, Editor!Waiting
    <3> QED
      BY <3>1, <3>2 DEF EditorTypes, CostCalls
  <2>2. ASSUME NEW kind \in {"preview", "sync"}, Editor!Ask(kind) \/ Editor!CallFails(kind)
        PROVE  /\ costCalls' \in [{"preview", "sync"} -> CostCalls]
               /\ costCalls'["sync"] = costCalls["sync"] \/ costCalls'["sync"].answer = "none"
    <3>1. PICK call \in CostCalls : costCalls' = [costCalls EXCEPT ![kind] = call] /\ call.answer = "none"
      <4>1. CASE Editor!Ask(kind)
        <5> DEFINE call == [id |-> form.id, cost |-> form.cost, answer |-> "none"]
        <5>1. call \in AskedCalls /\ call.answer = "none"
          BY <4>1 DEF EditorTypes, BoxTypes, Forms, AskedCalls, Editor!Ask
        <5>2. costCalls' = [costCalls EXCEPT ![kind] = call]
          BY <4>1 DEF Editor!Ask
        <5> HIDE DEF call
        <5> QED
          BY <5>1, <5>2 DEF CostCalls
      <4>2. CASE Editor!CallFails(kind)
        <5>1. Editor!NoCall \in CostCalls /\ Editor!NoCall.answer = "none"
          BY DEF Editor!NoCall, CostCalls
        <5> QED
          BY <4>2, <5>1 DEF Editor!CallFails, Editor!Cleared
      <4> QED
        BY <2>2, <4>1, <4>2
    <3> QED
      BY <3>1 DEF EditorTypes
  <2> QED
    BY <2>1, <2>2
<1> QED
  BY <1>1, <1>2 DEF EditorTypes, BoxTypes, FlagsTried, BoxTried, Tried

\* The server binds the channel; what is known of the others only grows.
LEMMA ServeSyncFlags ==
  ASSUME EditorTypes, FlagsTried, Editor!ServeSync
  PROVE  EditorTypes' /\ FlagsTried'
<1> DEFINE call == costCalls["sync"]
<1>1. call \in AskedCalls /\ UNCHANGED <<listed, editing, form, gate, saving>>
  BY DEF EditorTypes, CostCalls, Editor!ServeSync, Editor!Waiting, Editor!box
<1>2. PICK answer \in {"priced", "unpriced"} :
        /\ costCalls' = [costCalls EXCEPT !["sync"].answer = answer]
        /\ channels' = [channels EXCEPT ![call.id] = [cost |-> call.cost, auto |-> @.auto \/ answer = "priced"]]
        /\ synced' = IF answer = "priced" THEN synced \cup {<<call.id, call.cost>>} ELSE synced
        /\ rebound' = IF answer = "priced" THEN rebound ELSE rebound \cup {call.id}
  BY DEF Editor!ServeSync, Editor!Told
<1>3. synced \subseteq synced' /\ rebound \subseteq rebound' /\ (<<call.id, call.cost>> \in synced' \/ call.id \in rebound')
  <2>1. CASE answer = "priced"
    BY <1>2, <2>1
  <2>2. CASE answer # "priced"
    BY <1>2, <2>2
  <2> QED
    BY <2>1, <2>2
<1>4. /\ costCalls' \in [{"preview", "sync"} -> CostCalls]
      /\ costCalls'["sync"].id = call.id /\ costCalls'["sync"].cost = call.cost
  <2>1. [call EXCEPT !.answer = answer] \in AskedCalls
    BY <1>1 DEF AskedCalls
  <2>2. costCalls' = [costCalls EXCEPT !["sync"] = [call EXCEPT !.answer = answer]]
    BY <1>2
  <2> QED
    BY <1>1, <2>1, <2>2 DEF EditorTypes, CostCalls, AskedCalls
<1>5. /\ channels' \in [Channels -> Settings]
      /\ \A c \in Channels : channels'[c] = channels[c] \/ (c = call.id /\ channels'[c].cost = call.cost)
  <2>1. [cost |-> call.cost, auto |-> channels[call.id].auto \/ answer = "priced"] \in [cost : Costs \cup {Editor!NoPlatform}, auto : BOOLEAN]
    BY <1>1 DEF AskedCalls
  <2> DEFINE row == [cost |-> call.cost, auto |-> channels[call.id].auto \/ answer = "priced"]
  <2>2. channels' = [channels EXCEPT ![call.id] = row] /\ row \in Settings /\ row.cost = call.cost
    BY <1>2, <2>1 DEF Settings
  <2> HIDE DEF row
  <2> QED
    BY <2>2 DEF EditorTypes
<1>6. rebound' \subseteq Channels
  BY <1>1, <1>2 DEF EditorTypes, AskedCalls
<1>7. EditorTypes'
  BY <1>1, <1>4, <1>5, <1>6 DEF EditorTypes, BoxTypes
<1>8. (\A c \in Channels : channels[c].auto => Tried(c, channels[c].cost))'
  BY <1>3, <1>5 DEF FlagsTried, Tried
<1>9. (\A c \in Channels : listed[c].auto => Tried(c, listed[c].cost))'
  BY <1>1, <1>3 DEF FlagsTried, Tried
<1>10. (BoxTried /\ \A s \in saving : s.auto => Tried(s.id, s.cost))'
  BY <1>1, <1>3 DEF FlagsTried, BoxTried, Tried
<1>11. Tried(costCalls["sync"].id, costCalls["sync"].cost)'
  BY <1>3, <1>4 DEF Tried
<1> QED
  BY <1>7, <1>8, <1>9, <1>10, <1>11 DEF FlagsTried

\* The answer to a sync becomes the form only with the cost that was priced.
LEMMA AnswerFlags ==
  ASSUME EditorTypes, FlagsTried, Editor!PreviewAnswered \/ Editor!SyncAnswered
  PROVE  EditorTypes' /\ FlagsTried'
<1>1. /\ UNCHANGED <<channels, editing, saving, synced, rebound>>
      /\ listed' \in {listed, channels}
  BY DEF Editor!PreviewAnswered, Editor!SyncAnswered
<1>2. form \in Forms /\ gate \in [preview : BOOLEAN, sync : BOOLEAN] /\ BoxTried
  BY DEF EditorTypes, BoxTypes, FlagsTried
<1>3. PICK kind \in {"preview", "sync"} : costCalls' = [costCalls EXCEPT ![kind] = Editor!NoCall]
  BY DEF Editor!PreviewAnswered, Editor!SyncAnswered, Editor!Cleared
<1>4. /\ costCalls' \in [{"preview", "sync"} -> CostCalls]
      /\ costCalls'["sync"] = costCalls["sync"] \/ costCalls'["sync"].answer = "none"
  BY <1>3 DEF EditorTypes, CostCalls, Editor!NoCall
<1>5. (BoxTypes /\ BoxTried)'
  <2>1. CASE UNCHANGED <<form, gate>>
    BY <1>1, <1>2, <2>1 DEF BoxTypes, BoxTried, Tried
  <2>2. CASE Editor!PreviewAnswered /\ editing
    <3>1. form' = [form EXCEPT !.auto = FALSE] /\ gate' = [preview |-> costCalls["preview"].answer = "priced", sync |-> FALSE]
      BY <2>2 DEF Editor!PreviewAnswered, Editor!Applied
    <3>2. form' \in Forms /\ ~form'.auto /\ gate' \in [preview : BOOLEAN, sync : BOOLEAN] /\ ~gate'.sync
      BY <1>2, <3>1 DEF Forms
    <3> QED
      BY <3>2 DEF BoxTypes, BoxTried
  <2>3. CASE Editor!SyncAnswered /\ editing
    <3> DEFINE call == costCalls["sync"]
    <3>1. call \in AskedCalls
      BY <2>3 DEF Editor!SyncAnswered, EditorTypes, CostCalls, Editor!NoCall
    <3>2. /\ form' = [id |-> call.id, cost |-> call.cost, auto |-> call.answer = "priced"]
          /\ gate' = [preview |-> call.answer = "priced", sync |-> call.answer = "priced"]
      BY <2>3 DEF Editor!SyncAnswered, Editor!Applied
    <3>3. call.answer = "priced" => <<call.id, call.cost>> \in synced' \/ call.id \in rebound'
      BY <1>1 DEF FlagsTried, Tried
    <3> HIDE DEF call
    <3> QED
      BY <3>1, <3>2, <3>3 DEF BoxTypes, BoxTried, Tried, Forms, AskedCalls
  <2> QED
    BY <2>1, <2>2, <2>3 DEF Editor!PreviewAnswered, Editor!SyncAnswered, Editor!Applied, Editor!box
<1> QED
  BY <1>1, <1>4, <1>5 DEF EditorTypes, FlagsTried, Tried

\* What is saved is the form, behind its gate.
LEMMA SaveFlags ==
  ASSUME EditorTypes, FlagsTried,
         Editor!ListLoaded \/ Editor!Save \/ \E s \in saving : Editor!Saved(s) \/ Editor!SaveFails(s)
  PROVE  EditorTypes' /\ FlagsTried'
<1>1. UNCHANGED <<costCalls, synced, rebound>>
  BY DEF Editor!ListLoaded, Editor!Save, Editor!Saved, Editor!SaveFails
<1>2. CASE Editor!ListLoaded
  BY <1>1, <1>2 DEF Editor!ListLoaded, Editor!box, EditorTypes, BoxTypes, FlagsTried, BoxTried, Tried
<1>3. CASE Editor!Save
  <2> DEFINE sent == [form EXCEPT !.auto = @ /\ form.cost # Editor!NoPlatform]
  <2>1. form \in Forms /\ BoxTried
    BY DEF EditorTypes, BoxTypes, FlagsTried
  <2>2. sent \in Forms /\ sent.id = form.id /\ sent.cost = form.cost /\ (sent.auto => form.auto)
    BY <2>1 DEF Forms
  <2>3. saving' = saving \cup {sent} /\ UNCHANGED <<channels, listed, editing, form, gate>>
    BY <1>3 DEF Editor!Save, Editor!box
  <2> HIDE DEF sent
  <2>4. \A s \in saving' : s.auto => Tried(s.id, s.cost)
    BY <2>1, <2>2, <2>3 DEF FlagsTried, BoxTried
  <2> QED
    BY <1>1, <2>2, <2>3, <2>4 DEF EditorTypes, BoxTypes, FlagsTried, BoxTried, Tried
<1>4. ASSUME NEW s \in saving, Editor!Saved(s) \/ Editor!SaveFails(s)
      PROVE  EditorTypes' /\ FlagsTried'
  <2> DEFINE row == [cost |-> s.cost, auto |-> s.auto]
  <2>1. s \in Forms /\ (s.auto => Tried(s.id, s.cost))
    BY DEF EditorTypes, FlagsTried
  <2>2. row \in Settings /\ (row.auto => Tried(s.id, row.cost))
    BY <2>1 DEF Forms, Settings
  <2>3. /\ channels' \in {channels, [channels EXCEPT ![s.id] = row]}
        /\ listed' \in {listed, channels'} /\ saving' \subseteq saving /\ editing' \in BOOLEAN
    BY <1>4 DEF Editor!Saved, Editor!SaveFails, Editor!Closed, EditorTypes
  <2> HIDE DEF row
  <2>4. channels' \in [Channels -> Settings] /\ \A c \in Channels : channels'[c].auto => Tried(c, channels'[c].cost)
    BY <2>2, <2>3 DEF EditorTypes, FlagsTried
  <2>5. (BoxTypes /\ BoxTried)'
    <3>1. CASE Editor!Saved(s)
      BY <3>1 DEF Editor!Saved, Editor!Closed, Editor!NoForm, Editor!Shut, Forms, BoxTypes, BoxTried
    <3>2. CASE Editor!SaveFails(s)
      BY <1>1, <3>2 DEF Editor!SaveFails, Editor!box, EditorTypes, BoxTypes, FlagsTried, BoxTried, Tried
    <3> QED
      BY <1>4, <3>1, <3>2
  <2> QED
    BY <1>1, <2>3, <2>4, <2>5 DEF EditorTypes, FlagsTried, Tried
<1> QED
  BY <1>2, <1>3, <1>4

LEMMA StepFlags ==
  ASSUME EditorTypes, FlagsTried, [Editor!EditorNext]_Editor!editorVars
  PROVE  EditorTypes' /\ FlagsTried'
<1>1. CASE UNCHANGED Editor!editorVars
  BY <1>1 DEF Editor!editorVars, EditorTypes, BoxTypes, FlagsTried, BoxTried, Tried
<1> QED
  BY <1>1, OpenFlags, EditFlags, CallFlags, ServeSyncFlags, AnswerFlags, SaveFlags DEF Editor!EditorNext

\* No order of edits, late answers, reopened dialogs and stale lists lets a save switch
\* automatic sync on for settings that no sync priced, for any channels, costs and
\* number of saves.
THEOREM AutoSyncHasPrice == Editor!EditorSpec => [](EditorTypes /\ Editor!AutoSyncWasSynced)
<1>1. FlagsTried => Editor!AutoSyncWasSynced
  BY DEF FlagsTried, Tried, Editor!AutoSyncWasSynced
<1> QED
  BY <1>1, InitFlags, StepFlags, PTL DEF Editor!EditorSpec

-----------------------------------------------------------------------------
(***************************************************************************)
(* The pages together.                                                     *)
(***************************************************************************)

\* The page that is open takes its own steps; the others stand still.
LEMMA PagesRun == WebSpec => Spec /\ Editor!EditorSpec /\ Chat!ChatSpec
<1>1. WebInit => Init /\ Editor!EditorInit /\ Chat!ChatInit
  BY DEF WebInit
<1>2. [WebNext]_webVars => [Next]_vars /\ [Editor!EditorNext]_Editor!editorVars /\ [Chat!ChatNext]_Chat!chatVars
  BY DEF WebNext, webVars, editorState, chatState, Editor!editorVars, Chat!chatVars
<1> QED
  BY <1>1, <1>2, PTL DEF WebSpec, Spec, Editor!EditorSpec, Chat!ChatSpec

OnePart == part \in {"view", "editor", "chat"}

LEMMA PagesType ==
  ASSUME MaxMessages \in Nat
  PROVE  WebSpec => [](OnePart /\ TypeOK /\ Editor!TypeOK /\ Chat!TypeOK)
<1>1. EditorTypes => Editor!TypeOK
  <2>1. EditorTypes => costCalls \in [{"preview", "sync"} ->
          [id : Channels \cup {Editor!NewChannel}, cost : Costs \cup {Editor!NoPlatform}, answer : {"none", "priced", "unpriced"}]]
    BY DEF EditorTypes, CostCalls, AskedCalls, Editor!NoCall
  <2> QED
    BY <2>1 DEF EditorTypes, BoxTypes, Settings, Forms, Editor!TypeOK
<1>2. ChatTypes => Chat!TypeOK
  <2> SUFFICES ASSUME ChatTypes PROVE Chat!TypeOK
    OBVIOUS
  <2>1. {stored, conversations} \subseteq [Chat!Conversations -> SUBSET (1 .. MaxMessages)]
    <3>1. Made \subseteq 1 .. MaxMessages
      BY DEF ChatTypes, Made
    <3> QED
      BY <3>1 DEF ChatTypes
  <2>2. \A i \in Chat!Saves : saves[i].at \in {"no", "asked", "saved", "listing"}
    BY SlotType DEF SaveCalls
  <2>3. deleting.at \in {"no", "asked", "deleted"}
    BY DeleteType DEF DeleteCalls
  <2> QED
    BY <2>1, <2>2, <2>3 DEF ChatTypes, Chat!TypeOK, Made, Ids
<1>3. WebInit => OnePart
  BY DEF WebInit, OnePart
<1>4. OnePart /\ [WebNext]_webVars => OnePart'
  BY DEF WebNext, webVars, OnePart
<1>5. WebSpec => []OnePart
  BY <1>3, <1>4, PTL DEF WebSpec
<1> QED
  BY <1>1, <1>2, <1>5, PagesRun, ViewTypeCorrect, AutoSyncHasPrice, NoMessageLost, PTL

\* Every page of the web client keeps its types, whichever is open.
THEOREM WebTypeCorrect ==
  ASSUME MaxMessages \in Nat
  PROVE  WebSpec => []WebTypeOK
<1>1. OnePart /\ TypeOK /\ Editor!TypeOK /\ Chat!TypeOK => WebTypeOK
  BY DEF WebTypeOK, OnePart
<1> QED
  BY <1>1, PagesType, PTL

\* In the web client of the run cost is synced automatically only from an upstream
\* that has priced the channel at its settings.
THEOREM WebAutoSync == WebSpec => []AutoSyncWasSynced
<1>1. Editor!AutoSyncWasSynced => AutoSyncWasSynced
  BY DEF AutoSyncWasSynced
<1> QED
  BY <1>1, PagesRun, AutoSyncHasPrice, PTL

\* And no message of the chat is lost.
THEOREM WebMessagesKept ==
  ASSUME MaxMessages \in Nat
  PROVE  WebSpec => []MessagesKept
<1>1. Chat!MessagesKept => MessagesKept
  BY DEF MessagesKept
<1> QED
  BY <1>1, PagesRun, NoMessageLost, PTL
=============================================================================
