---------------------------- MODULE ChannelEditor ----------------------------
(***************************************************************************)
(* The channel dialog of AdminChannelsPage.tsx and the two calls behind its *)
(* "upstream cost" box, with what the server does for them.  A cost is what *)
(* the form says of the upstream: platform, model, group and markup.        *)
(* Automatic cost sync may be switched on only behind a gate: a successful  *)
(* preview, then a successful sync, of the cost the form holds.  The gate   *)
(* is state of the dialog; the calls take their time, and nothing stops the *)
(* administrator from editing or opening another channel meanwhile.         *)
(***************************************************************************)
EXTENDS Integers, FiniteSets

CONSTANTS Channels,   \* ids of the channels
          Costs,      \* upstream settings that name a platform
          MaxSaves    \* bound: saves under way at once

NewChannel == 0       \* form.id of a channel not saved yet
NoPlatform == 0       \* upstream_platform_id = ''
NoForm == [id |-> NewChannel, cost |-> NoPlatform, auto |-> FALSE]
NoCall == [id |-> NewChannel, cost |-> NoPlatform, answer |-> "none"]
Shut == [preview |-> FALSE, sync |-> FALSE]

VARIABLES
  channels,   \* the server's rows: [cost, auto]
  listed,     \* the rows the page loaded last
  editing,    \* is the dialog open
  form,       \* ChannelForm: [id, cost, auto]
  gate,       \* upstreamPreviewOk, upstreamSyncOk
  costCalls,  \* the preview and the sync under way
  saving,     \* the payloads of the saves under way
  synced,     \* history: the costs a sync priced, per channel
  rebound     \* history: channels a sync bound to a cost it found no price for

editorVars == <<channels, listed, editing, form, gate, costCalls, saving, synced, rebound>>
box == <<form, gate>>

EditorInit ==
  /\ channels \in [Channels -> [cost : Costs \cup {NoPlatform}, auto : BOOLEAN]]
  /\ \A c \in Channels : channels[c].auto => channels[c].cost # NoPlatform
  /\ listed = channels
  /\ editing = FALSE /\ form = NoForm /\ gate = Shut
  /\ costCalls = [kind \in {"preview", "sync"} |-> NoCall]
  /\ saving = {}
  /\ synced = {<<c, channels[c].cost>> : c \in {d \in Channels : channels[d].auto}} /\ rebound = {}

Open(f, g) ==
  /\ ~editing /\ editing' = TRUE
  /\ form' = f /\ gate' = g
  /\ UNCHANGED <<channels, listed, costCalls, saving, synced, rebound>>

OpenCreate == Open(NoForm, Shut)
OpenEdit(c) ==
  Open([id |-> c, cost |-> listed[c].cost, auto |-> listed[c].auto], [preview |-> listed[c].auto, sync |-> listed[c].auto])
OpenCopy(c) == Open([NoForm EXCEPT !.cost = listed[c].cost], Shut)

\* The form of a closed dialog is forgotten: each open* fills it again.
Closed == editing' = FALSE /\ form' = NoForm /\ gate' = Shut
Applied(f, g) == IF editing THEN form' = f /\ gate' = g ELSE UNCHANGED box

Close ==
  /\ editing /\ Closed
  /\ UNCHANGED <<channels, listed, costCalls, saving, synced, rebound>>

\* Mutant of resetUpstreamCostGate: the cost changes and the gate stays open.
changeCostOnly(k) ==
  /\ editing /\ k # form.cost
  /\ form' = [form EXCEPT !.cost = k]
  /\ UNCHANGED <<channels, listed, editing, gate, costCalls, saving, synced, rebound>>

\* Any field of the cost: the gate shuts and automatic sync is off.
resetUpstreamCostGate(k) ==
  /\ editing /\ k # form.cost
  /\ gate' = Shut
  /\ form' = [form EXCEPT !.cost = k, !.auto = FALSE]
  /\ UNCHANGED <<channels, listed, editing, costCalls, saving, synced, rebound>>

Ready == gate.preview /\ gate.sync

ToggleAutoSync ==
  /\ editing
  /\ form.auto \/ (form.id # NewChannel /\ form.cost # NoPlatform /\ Ready)
  /\ form' = [form EXCEPT !.auto = ~@]
  /\ UNCHANGED <<channels, listed, editing, gate, costCalls, saving, synced, rebound>>

\* previewUpstreamCost and syncUpstreamCost up to their calls.
Ask(kind) ==
  /\ editing /\ form.id # NewChannel /\ form.cost # NoPlatform
  /\ costCalls[kind] = NoCall
  /\ kind = "sync" => gate.preview
  /\ costCalls' = [costCalls EXCEPT ![kind] = [id |-> form.id, cost |-> form.cost, answer |-> "none"]]
  /\ UNCHANGED <<channels, listed, editing, box, saving, synced, rebound>>

Waiting(kind) == costCalls[kind] # NoCall /\ costCalls[kind].answer = "none"
Told(kind, answer) == costCalls' = [costCalls EXCEPT ![kind].answer = answer]

\* The upstream may come to offer a price or withdraw it at any time.
ServePreview ==
  /\ Waiting("preview")
  /\ \E answer \in {"priced", "unpriced"} : Told("preview", answer)
  /\ UNCHANGED <<channels, listed, editing, box, saving, synced, rebound>>

\* SyncChannelUpstreamCost binds the channel to the cost, and sets the flag only
\* with a price; without one a flag that was set stays.
ServeSync ==
  /\ Waiting("sync")
  /\ \E answer \in {"priced", "unpriced"} :
       LET c == costCalls["sync"].id
           k == costCalls["sync"].cost
           priced == answer = "priced"
       IN /\ Told("sync", answer)
          /\ channels' = [channels EXCEPT ![c] = [cost |-> k, auto |-> @.auto \/ priced]]
          /\ synced' = IF priced THEN synced \cup {<<c, k>>} ELSE synced
          /\ rebound' = IF priced THEN rebound ELSE rebound \cup {c}
  /\ UNCHANGED <<listed, editing, box, saving>>

Cleared(kind) == costCalls' = [costCalls EXCEPT ![kind] = NoCall]

\* The answer is applied to the form on screen, whichever that is by now.
PreviewAnswered ==
  /\ costCalls["preview"].answer # "none"
  /\ Applied([form EXCEPT !.auto = FALSE], [preview |-> costCalls["preview"].answer = "priced", sync |-> FALSE])
  /\ Cleared("preview")
  /\ UNCHANGED <<channels, listed, editing, saving, synced, rebound>>

\* The form becomes the channel of the answer, and the list is loaded again; it
\* may come late or not at all.
SyncAnswered ==
  LET call == costCalls["sync"]
      ok == call.answer = "priced"
  IN /\ call.answer # "none"
     /\ Applied([id |-> call.id, cost |-> call.cost, auto |-> ok], [preview |-> ok, sync |-> ok])
     /\ Cleared("sync")
     /\ listed' \in {listed, channels}
     /\ UNCHANGED <<channels, editing, saving, synced, rebound>>

CallFails(kind) ==
  /\ costCalls[kind] # NoCall
  /\ Cleared(kind)
  /\ UNCHANGED <<channels, listed, editing, box, saving, synced, rebound>>

ListLoaded ==
  /\ listed # channels /\ listed' = channels
  /\ UNCHANGED <<channels, editing, box, costCalls, saving, synced, rebound>>

\* The button waits for no save before. A new channel is left out of the list: it
\* is never saved with the flag.
Save ==
  /\ editing /\ (form.auto => Ready) /\ Cardinality(saving) < MaxSaves
  /\ form.id # NewChannel
  /\ saving' = saving \cup {[form EXCEPT !.auto = @ /\ form.cost # NoPlatform]}
  /\ UNCHANGED <<channels, listed, editing, box, costCalls, synced, rebound>>

Saved(payload) ==
  /\ payload \in saving /\ saving' = saving \ {payload}
  /\ channels' = [channels EXCEPT ![payload.id] = [cost |-> payload.cost, auto |-> payload.auto]]
  /\ listed' \in {listed, channels'}
  /\ Closed
  /\ UNCHANGED <<costCalls, synced, rebound>>

\* Refused, or its answer is lost after the server wrote it.
SaveFails(payload) ==
  /\ payload \in saving /\ saving' = saving \ {payload}
  /\ channels' \in {channels, [channels EXCEPT ![payload.id] = [cost |-> payload.cost, auto |-> payload.auto]]}
  /\ UNCHANGED <<listed, editing, box, costCalls, synced, rebound>>

EditorNext ==
  \/ OpenCreate \/ Close \/ ToggleAutoSync \/ Save \/ ListLoaded
  \/ \E payload \in saving : Saved(payload) \/ SaveFails(payload)
  \/ \E c \in Channels : OpenEdit(c) \/ OpenCopy(c)
  \/ \E k \in Costs \cup {NoPlatform} : resetUpstreamCostGate(k)
  \/ \E kind \in {"preview", "sync"} : Ask(kind) \/ CallFails(kind)
  \/ ServePreview \/ ServeSync \/ PreviewAnswered \/ SyncAnswered

EditorSpec == EditorInit /\ [][EditorNext]_editorVars

TypeOK ==
  /\ channels \in [Channels -> [cost : Costs \cup {NoPlatform}, auto : BOOLEAN]]
  /\ listed \in [Channels -> [cost : Costs \cup {NoPlatform}, auto : BOOLEAN]] /\ editing \in BOOLEAN
  /\ {form} \cup saving \subseteq [id : Channels \cup {NewChannel}, cost : Costs \cup {NoPlatform}, auto : BOOLEAN]
  /\ gate \in [preview : BOOLEAN, sync : BOOLEAN]
  /\ costCalls \in [{"preview", "sync"} ->
       [id : Channels \cup {NewChannel}, cost : Costs \cup {NoPlatform}, answer : {"none", "priced", "unpriced"}]]
  /\ rebound \subseteq Channels

\* Cost is synced automatically only from an upstream that has priced the channel
\* at those settings: no order of edits, late answers, reopened dialogs and stale
\* lists lets a save switch it on for anything else. A channel that a sync bound
\* to settings without a price keeps the flag it had (admin_upstream_extra.go:1621).
AutoSyncWasSynced ==
  \A c \in Channels \ rebound : channels[c].auto => <<c, channels[c].cost>> \in synced
=============================================================================
