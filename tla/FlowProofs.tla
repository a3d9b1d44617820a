------------------------------ MODULE FlowProofs ------------------------------
(***************************************************************************)
(* Theorems about the flows that MCFlows checks side by side, for any       *)
(* bounds.                                                                  *)
(*   CreditGift      a gift is made once;                                   *)
(*   Generation      the media on screen belongs to the generation posted   *)
(*                   last, and the music page is busy while one is under way;*)
(*   TaskWatch       no interval outlives its dialog until answers cross;   *)
(*   Checkout        a payment is credited once;                            *)
(*   PostBilling     what a job pays;                                       *)
(*   Withdrawals     every frozen credit pays once;                         *)
(*   QuotaDebitPlan  the loop finds the one plan, or that there is none;    *)
(*   MCFlows         the flow that runs keeps its types.                    *)
(***************************************************************************)
EXTENDS MCFlows, TotalsProofs

-----------------------------------------------------------------------------
(***************************************************************************)
(* CreditGift                                                              *)
(***************************************************************************)

GiftTypes ==
  /\ request \in [signature : Signatures \cup {NoSignature}, id : Ids \cup {0}]
  /\ intents \in [signature : Signatures \cup {NoSignature}, number : Ids \cup {0}]
  /\ filled \in Signatures \cup {NoSignature}
  /\ awaited \in Ids \cup {0} /\ submits \in Ids \cup {0}
  /\ posts \subseteq [n : Ids, id : Ids, intent : Ids]
  /\ replies \in [Ids -> {"none", "ok", "refused"}]
  /\ rows \in [Ids -> Nat] /\ given = rows
  /\ reported \subseteq Ids

\* The id the card keeps names the gift the user means.
IdNamesIntent ==
  /\ request.signature = intents.signature
  /\ request.signature # NoSignature => request.id = intents.number /\ request.id # 0
  /\ \A p \in posts : p.id = p.intent

\* What was posted and answered was clicked before.
PastClicks ==
  /\ \A p \in posts : p.n <= submits
  /\ \A n \in Ids : replies[n] # "none" => n <= submits

\* The post the card awaits is one of the gift it means, and its success is that gift's row.
AwaitedIsMeant ==
  awaited # 0 =>
    /\ request.signature # NoSignature
    /\ \A p \in posts : p.n = awaited => p.id = request.id
    /\ replies[awaited] = "ok" => rows[request.id] > 0

GiftInv == GiftTypes /\ IdNamesIntent /\ PastClicks /\ AwaitedIsMeant /\ OneGiftPerIntent

\* A click posts the id that is kept for this form, or the number of the click.
LEMMA SubmitStep ==
  ASSUME MaxSubmits \in Nat, GiftInv, Submit
  PROVE  GiftInv'
<1> DEFINE fresh == submits + 1
<1>1. /\ submits' = fresh /\ fresh \in Ids /\ awaited' = fresh /\ filled # NoSignature
      /\ UNCHANGED <<filled, replies, rows, given, reported>>
  BY DEF Submit, GiftInv, GiftTypes, Ids
<1>2. request' = RequestFor(filled, fresh) /\ intents' = IntentFor(filled, fresh)
  BY DEF Submit
<1>3. /\ request' \in [signature : Signatures \cup {NoSignature}, id : Ids \cup {0}]
      /\ intents' \in [signature : Signatures \cup {NoSignature}, number : Ids \cup {0}]
      /\ request'.signature = filled /\ intents'.signature = filled
      /\ request'.id = intents'.number /\ request'.id \in Ids
  <2>1. CASE request.signature = filled
    BY <1>1, <1>2, <2>1 DEF RequestFor, IntentFor, GiftInv, GiftTypes, IdNamesIntent
  <2>2. CASE request.signature # filled
    BY <1>1, <1>2, <2>2 DEF RequestFor, IntentFor, GiftInv, GiftTypes, IdNamesIntent
  <2> QED
    BY <2>1, <2>2
<1> DEFINE new == [n |-> fresh, id |-> request'.id, intent |-> intents'.number]
<1>4. posts' = posts \cup {new} /\ new \in [n : Ids, id : Ids, intent : Ids]
  BY <1>1, <1>3 DEF Submit
<1>5. new.n = fresh /\ new.id = request'.id /\ new.id = new.intent
  BY <1>3
<1> HIDE DEF new
<1>6. submits \in Nat /\ submits < fresh
  BY DEF GiftInv, GiftTypes, Ids
<1>7. GiftTypes'
  BY <1>1, <1>3, <1>4 DEF GiftInv, GiftTypes
<1>8. IdNamesIntent'
  BY <1>1, <1>3, <1>4, <1>5 DEF GiftInv, IdNamesIntent, Ids
<1>9. replies[fresh] = "none" /\ \A p \in posts : p.n < fresh
  BY <1>1, <1>6 DEF GiftInv, GiftTypes, PastClicks, Ids
<1>10. \A p \in posts' : p.n <= fresh /\ (p.n = fresh => p.id = request'.id)
  BY <1>4, <1>5, <1>6, <1>9 DEF GiftInv, GiftTypes, Ids
<1>11. \A n \in Ids : replies[n] # "none" => n <= fresh
  BY <1>6 DEF GiftInv, PastClicks, Ids
<1>12. PastClicks' /\ AwaitedIsMeant'
  BY <1>1, <1>3, <1>9, <1>10, <1>11 DEF PastClicks, AwaitedIsMeant
<1>13. OneGiftPerIntent'
  BY <1>1 DEF GiftInv, OneGiftPerIntent
<1> QED
  BY <1>7, <1>8, <1>12, <1>13 DEF GiftInv

\* The server writes one row per id.
LEMMA ServeStep ==
  ASSUME MaxSubmits \in Nat, GiftInv, NEW p \in posts, ServeTransfer(p)
  PROVE  GiftInv'
<1>1. p \in [n : Ids, id : Ids, intent : Ids] /\ p.id = p.intent /\ p.n <= submits
  BY DEF GiftInv, GiftTypes, IdNamesIntent, PastClicks
<1>2. posts' = posts \ {p} /\ UNCHANGED <<filled, request, awaited, submits, intents, reported>>
  BY DEF ServeTransfer
<1>3. CASE AlreadyWritten(p)
  <2>1. replies' = [replies EXCEPT ![p.n] = "ok"] /\ UNCHANGED <<rows, given>> /\ rows[p.id] > 0
    BY <1>3 DEF ServeTransfer, AlreadyWritten
  <2> QED
    BY <1>1, <1>2, <2>1 DEF GiftInv, GiftTypes, IdNamesIntent, PastClicks, AwaitedIsMeant, OneGiftPerIntent
<1>4. CASE ~AlreadyWritten(p) /\ balance < 1
  <2>1. replies' = [replies EXCEPT ![p.n] = "refused"] /\ UNCHANGED <<rows, given>>
    BY <1>4 DEF ServeTransfer
  <2> QED
    BY <1>1, <1>2, <2>1 DEF GiftInv, GiftTypes, IdNamesIntent, PastClicks, AwaitedIsMeant, OneGiftPerIntent
<1>5. CASE ~AlreadyWritten(p) /\ ~(balance < 1)
  <2>1. /\ replies' = [replies EXCEPT ![p.n] = "ok"]
        /\ rows' = [rows EXCEPT ![p.id] = @ + 1] /\ given' = [given EXCEPT ![p.intent] = @ + 1]
    BY <1>5 DEF ServeTransfer
  <2>2. rows[p.id] = 0 /\ p.id \notin reported
    BY <1>1, <1>5 DEF AlreadyWritten, GiftInv, GiftTypes, OneGiftPerIntent
  <2>3. GiftTypes' /\ IdNamesIntent' /\ PastClicks'
    BY <1>1, <1>2, <2>1 DEF GiftInv, GiftTypes, IdNamesIntent, PastClicks
  <2>4. AwaitedIsMeant'
    BY <1>1, <1>2, <2>1 DEF GiftInv, GiftTypes, AwaitedIsMeant, IdNamesIntent
  <2>5. OneGiftPerIntent'
    BY <1>1, <1>2, <2>1, <2>2 DEF GiftInv, GiftTypes, OneGiftPerIntent
  <2> QED
    BY <2>3, <2>4, <2>5 DEF GiftInv
<1> QED
  BY <1>3, <1>4, <1>5

\* Every step keeps the invariant.
LEMMA GiftKept ==
  ASSUME MaxSubmits \in Nat
  PROVE  GiftInv /\ [GiftNext]_giftVars => GiftInv'
<1> SUFFICES ASSUME GiftInv, [GiftNext]_giftVars PROVE GiftInv'
  OBVIOUS
<1> USE DEF GiftInv, GiftTypes, IdNamesIntent, PastClicks, AwaitedIsMeant, OneGiftPerIntent
<1>1. ASSUME NEW s \in Signatures \cup {NoSignature}, Fill(s) PROVE GiftInv'
  BY <1>1 DEF Fill
<1>2. CASE Submit
  BY <1>2, SubmitStep
<1>3. CASE Accepted
  <2>1. /\ awaited \in Ids /\ replies[awaited] = "ok" /\ awaited' = 0
        /\ request' = NoRequest /\ filled' = NoSignature
        /\ reported' = reported \cup {intents.number} /\ intents' = [intents EXCEPT !.signature = NoSignature]
        /\ UNCHANGED <<posts, replies, rows, submits, given>>
    BY <1>3 DEF Accepted
  <2>2. awaited # 0
    BY <1>3 DEF Accepted
  <2>3. intents.number = request.id /\ request.id # 0 /\ rows[request.id] > 0
    BY <2>2, <2>1
  <2>4. intents.number \in Ids
    BY <2>3
  <2>5. intents.number \in Ids /\ given[intents.number] = 1
    BY <2>3, <2>4
  <2>6. request' \in [signature : Signatures \cup {NoSignature}, id : Ids \cup {0}] /\ request'.signature = NoSignature
    BY <2>1 DEF NoRequest
  <2>7. intents' \in [signature : Signatures \cup {NoSignature}, number : Ids \cup {0}] /\ intents'.signature = NoSignature
    BY <2>1
  <2> QED
    BY <2>1, <2>5, <2>6, <2>7
<1>4. CASE Failed
  BY <1>4 DEF Failed
<1>5. ASSUME NEW p \in posts, PostLost(p) PROVE GiftInv'
  BY <1>5 DEF PostLost
<1>6. CASE UNCHANGED giftVars
  BY <1>6 DEF giftVars
<1> QED
  BY <1>1, <1>2, <1>3, <1>4, <1>5, <1>6, ServeStep DEF GiftNext

\* An empty form means no gift.
LEMMA GiftStart == ASSUME MaxSubmits \in Nat PROVE GiftInit => GiftInv
BY DEF GiftInit, GiftInv, GiftTypes, IdNamesIntent, PastClicks, AwaitedIsMeant, OneGiftPerIntent, NoRequest, Ids

\* A gift the user confirms, and confirms again after errors and lost replies, is
\* made once, and what is reported as done was made: however many clicks there
\* are, and whenever the posts that were given up arrive.
THEOREM GiftsMadeOnce ==
  ASSUME MaxSubmits \in Nat
  PROVE  GiftSpec => []OneGiftPerIntent
<1>1. GiftInv => OneGiftPerIntent
  BY DEF GiftInv
<1> QED
  BY <1>1, GiftStart, GiftKept, PTL DEF GiftSpec

-----------------------------------------------------------------------------
(***************************************************************************)
(* Generation                                                              *)
(***************************************************************************)

GenerationTypes ==
  /\ generation \in Generations \cup {None}
  /\ polls \subseteq [of : Generations, answer : {"running", "done", "failed"}, live : BOOLEAN]
  /\ upstream \in [Generations -> {"running", "done", "failed"}]

\* A post under way is the last one, before anything is shown or polled; a poll
\* whose answer counts is of the last generation, still polled.
OneUnderWay ==
  /\ post # None => /\ post = generation /\ taskStatus = "idle" /\ taskId = None /\ result = None
                    /\ \A q \in polls : ~q.live
  /\ \A q \in polls : q.live => q.of = generation /\ taskStatus = "polling"

GenerationInv == GenerationTypes /\ OneUnderWay /\ ResultIsOfLastGeneration

\* The cleanup leaves no poll whose answer counts.
LEMMA CancelledPolls ==
  ASSUME GenerationTypes, NEW S \in SUBSET polls
  PROVE  /\ Cancelled(S) \subseteq [of : Generations, answer : {"running", "done", "failed"}, live : BOOLEAN]
         /\ \A q \in Cancelled(S) : ~q.live
BY DEF Cancelled, GenerationTypes

\* Every step keeps the invariant.
LEMMA GenerationKept ==
  ASSUME MaxGenerations \in Nat
  PROVE  GenerationInv /\ [GenerationNext]_generationVars => GenerationInv'
<1> SUFFICES ASSUME GenerationInv, [GenerationNext]_generationVars PROVE GenerationInv'
  OBVIOUS
<1> USE DEF GenerationInv, OneUnderWay, ResultIsOfLastGeneration
<1>1. CASE Generate
  <2>1. generation' \in Generations
    BY <1>1 DEF Generate, CanGenerate, GenerationTypes, Generations, None
  <2>2. GenerationTypes' /\ \A q \in polls' : ~q.live
    BY <1>1, <2>1, CancelledPolls DEF Generate, GenerationTypes
  <2> QED
    BY <1>1, <2>2 DEF Generate
<1>2. CASE PostGivesResult
  <2>1. GenerationTypes' /\ \A q \in polls' : ~q.live
    BY <1>2, CancelledPolls DEF PostGivesResult, GenerationTypes
  <2> QED
    BY <1>2, <2>1 DEF PostGivesResult
<1>3. CASE PostGivesTask
  <2>1. GenerationTypes' /\ \A q \in polls' : ~q.live
    BY <1>3, CancelledPolls DEF PostGivesTask, GenerationTypes
  <2> QED
    BY <1>3, <2>1 DEF PostGivesTask
<1>4. CASE PostGivesNothing
  BY <1>4 DEF PostGivesNothing, GenerationTypes
<1>5. CASE SelectKey
  <2>1. GenerationTypes' /\ \A q \in polls' : ~q.live
    BY <1>5, CancelledPolls DEF SelectKey, GenerationTypes
  <2> QED
    BY <1>5, <2>1 DEF SelectKey
<1>6. CASE PollTick
  <2> DEFINE new == [of |-> taskId, answer |-> upstream[taskId], live |-> TRUE]
  <2>1. taskId = generation /\ taskId # None /\ taskStatus = "polling"
    BY <1>6 DEF PollTick, Polling
  <2>2. new \in [of : Generations, answer : {"running", "done", "failed"}, live : BOOLEAN] /\ new.of = generation
    BY <2>1 DEF GenerationTypes
  <2>3. polls' = polls \cup {new} /\ UNCHANGED <<generation, post, taskId, taskStatus, result, upstream>>
    BY <1>6 DEF PollTick
  <2> HIDE DEF new
  <2>4. GenerationTypes'
    BY <2>2, <2>3 DEF GenerationTypes
  <2>5. post = None
    BY <2>1
  <2> QED
    BY <2>1, <2>2, <2>3, <2>4, <2>5
<1>7. ASSUME NEW g \in Generations, UpstreamFinishes(g) PROVE GenerationInv'
  BY <1>7 DEF UpstreamFinishes, GenerationTypes
<1>8. ASSUME NEW q \in polls, PollLands(q) PROVE GenerationInv'
  <2>1. CASE q.live /\ q.answer # "running"
    <3>1. /\ taskStatus' = q.answer /\ result' = IF q.answer = "done" THEN q.of ELSE result
          /\ polls' = Cancelled(polls \ {q}) /\ UNCHANGED <<generation, post, taskId, upstream>>
      BY <1>8, <2>1 DEF PollLands
    <3>2. GenerationTypes' /\ \A p \in polls' : ~p.live
      BY <3>1, CancelledPolls DEF GenerationTypes
    <3>3. q.of = generation /\ taskStatus = "polling" /\ result = None /\ post = None
      BY <2>1
    <3> QED
      BY <3>1, <3>2, <3>3
  <2>2. CASE ~(q.live /\ q.answer # "running")
    BY <1>8, <2>2 DEF PollLands, GenerationTypes
  <2> QED
    BY <2>1, <2>2
<1>9. ASSUME NEW q \in polls, PollFails(q) PROVE GenerationInv'
  BY <1>9 DEF PollFails, GenerationTypes
<1>10. CASE UNCHANGED generationVars
  BY <1>10 DEF generationVars, GenerationTypes
<1> QED
  BY <1>1, <1>2, <1>3, <1>4, <1>5, <1>6, <1>7, <1>8, <1>9, <1>10 DEF GenerationNext

\* A page that has posted nothing shows and polls nothing.
LEMMA GenerationStart == GenerationInit => GenerationInv
BY DEF GenerationInit, GenerationInv, GenerationTypes, OneUnderWay, ResultIsOfLastGeneration, None

\* The answer of a poll for an earlier generation, or from before another key was
\* chosen, never puts its media under the last prompt.
THEOREM ResultsOfLastGeneration ==
  ASSUME MaxGenerations \in Nat
  PROVE  GenerationSpec => []ResultIsOfLastGeneration
<1>1. GenerationInv => ResultIsOfLastGeneration
  BY DEF GenerationInv
<1> QED
  BY <1>1, GenerationStart, GenerationKept, PTL DEF GenerationSpec

\* The music page: every step keeps the flag up exactly while something is under way.
LEMMA MusicBusyKept ==
  ASSUME MaxGenerations \in Nat
  PROVE  GenerationInv /\ MusicBusyWhileUnderWay /\ [GenerationNext]_generationVars => MusicBusyWhileUnderWay'
<1> SUFFICES ASSUME GenerationInv, MusicBusyWhileUnderWay, [GenerationNext]_generationVars, page' = "music"
             PROVE  running' <=> post' # None \/ taskStatus' = "polling"
  BY DEF MusicBusyWhileUnderWay
<1>1. page = "music"
  BY DEF GenerationNext, Generate, PostGivesResult, PostGivesTask, PostGivesNothing, SelectKey, PollTick,
         UpstreamFinishes, PollLands, PollFails, generationVars
<1>2. running <=> post # None \/ taskStatus = "polling"
  BY <1>1 DEF MusicBusyWhileUnderWay
<1>3. post # None => taskStatus = "idle" /\ \A q \in polls : ~q.live
  BY DEF GenerationInv, OneUnderWay
<1>4. CASE Generate
  <2>1. post' # None
    BY <1>4 DEF Generate, CanGenerate, GenerationInv, GenerationTypes, Generations, None
  <2> QED
    BY <1>4, <2>1 DEF Generate
<1>5. CASE PostGivesResult \/ PostGivesNothing
  BY <1>1, <1>5 DEF PostGivesResult, PostGivesNothing
<1>6. CASE PostGivesTask
  BY <1>1, <1>2, <1>6 DEF PostGivesTask
<1>7. ASSUME NEW q \in polls, PollLands(q) PROVE running' <=> post' # None \/ taskStatus' = "polling"
  <2>1. CASE q.live /\ q.answer # "running"
    <3>1. post = None
      BY <1>3, <2>1
    <3>2. ~running' /\ taskStatus' = q.answer /\ post' = post
      BY <1>7, <2>1 DEF PollLands
    <3>3. q.answer # "polling"
      BY DEF GenerationInv, GenerationTypes
    <3> QED
      BY <3>1, <3>2, <3>3
  <2>2. CASE ~(q.live /\ q.answer # "running")
    BY <1>2, <1>7, <2>2 DEF PollLands
  <2> QED
    BY <2>1, <2>2
<1>8. CASE UNCHANGED <<running, post, taskStatus>>
  BY <1>2, <1>8
<1>9. SelectKey \/ PollTick \/ UNCHANGED generationVars => UNCHANGED <<running, post, taskStatus>>
  BY DEF SelectKey, PollTick, generationVars
<1>10. ASSUME NEW g \in Generations, UpstreamFinishes(g) PROVE UNCHANGED <<running, post, taskStatus>>
  BY <1>10 DEF UpstreamFinishes
<1>11. ASSUME NEW q \in polls, PollFails(q) PROVE UNCHANGED <<running, post, taskStatus>>
  BY <1>11 DEF PollFails
<1> QED
  BY <1>4, <1>5, <1>6, <1>7, <1>8, <1>9, <1>10, <1>11 DEF GenerationNext

\* The music page never offers a second generation over the first, and its button
\* never stays busy with nothing under way, in whatever order posts, polls and
\* changes of the key end (the busy flag of UserMusicGenPage.tsx).
THEOREM MusicBusyFollowsGeneration ==
  ASSUME MaxGenerations \in Nat
  PROVE  GenerationSpec => []MusicBusyWhileUnderWay
<1>1. GenerationInit => GenerationInv /\ MusicBusyWhileUnderWay
  BY DEF GenerationInit, GenerationInv, GenerationTypes, OneUnderWay, ResultIsOfLastGeneration,
         MusicBusyWhileUnderWay, None
<1> QED
  BY <1>1, GenerationKept, MusicBusyKept, PTL DEF GenerationSpec

-----------------------------------------------------------------------------
(***************************************************************************)
(* TaskWatch                                                               *)
(***************************************************************************)

WatchTypes ==
  /\ detail \in [id : Tasks \cup {0}, over : BOOLEAN]
  /\ opening \in [Tasks -> {"no", "asked", "running", "over"}]
  /\ timers \in [Timers -> Tasks \cup {0}] /\ handle \in Timers \cup {NoTimer}
  /\ ticks \subseteq [id : Tasks, over : BOOLEAN]

WatchInv == WatchTypes /\ TimersFollowDetail

\* After stopAutoRefresh nothing runs, if only what the ref held could.
LEMMA NothingRunsOnceStopped ==
  ASSUME WatchTypes, stopAutoRefresh,
         \A h \in Timers : timers[h] # 0 => h = handle
  PROVE  /\ timers' \in [Timers -> Tasks \cup {0}] /\ handle' \in Timers \cup {NoTimer}
         /\ \A h \in Timers : timers'[h] = 0
<1>1. CASE handle = NoTimer
  <2>1. \A h \in Timers : h # NoTimer
    BY DEF Timers, NoTimer
  <2> QED
    BY <1>1, <2>1 DEF stopAutoRefresh, WatchTypes
<1>2. CASE handle # NoTimer
  BY <1>2 DEF stopAutoRefresh, WatchTypes
<1> QED
  BY <1>1, <1>2

\* It also keeps the types when more is running.
LEMMA StopKeepsTypes ==
  ASSUME WatchTypes, stopAutoRefresh
  PROVE  timers' \in [Timers -> Tasks \cup {0}] /\ handle' \in Timers \cup {NoTimer}
BY DEF stopAutoRefresh, WatchTypes

\* Every step keeps the invariant.
LEMMA WatchKept ==
  ASSUME 0 \notin Tasks
  PROVE  WatchInv /\ [WatchNext]_watchVars => WatchInv'
<1> SUFFICES ASSUME WatchInv, [WatchNext]_watchVars PROVE WatchInv'
  OBVIOUS
<1> USE DEF WatchInv, TimersFollowDetail
<1>0. ASSUME ~crossed, detail = NoTask, NEW h \in Timers PROVE timers[h] = 0
  <2>1. SUFFICES ASSUME timers[h] # 0 PROVE FALSE
    OBVIOUS
  <2>2. detail = [id |-> timers[h], over |-> FALSE]
    BY <1>0, <2>1
  <2>3. detail.id = timers[h] /\ detail.id = 0
    BY <1>0, <2>2 DEF NoTask
  <2> QED
    BY <2>1, <2>3
<1>1. ASSUME NEW t \in Tasks, TaskEndsAtServer(t) PROVE WatchInv'
  BY <1>1 DEF TaskEndsAtServer, WatchTypes
<1>2. ASSUME NEW t \in Tasks, OpenDetail(t) PROVE WatchInv'
  <2>1. WatchTypes'
    BY <1>2, StopKeepsTypes DEF OpenDetail, WatchTypes
  <2>2. ~crossed => \A h \in Timers : timers'[h] = 0
    BY <1>2, NothingRunsOnceStopped DEF OpenDetail
  <2> QED
    BY <1>2, <2>1, <2>2 DEF OpenDetail
<1>3. ASSUME NEW t \in Tasks, ServeDetail(t) PROVE WatchInv'
  BY <1>3 DEF ServeDetail, WatchTypes
<1>4. ASSUME NEW t \in Tasks, DetailLands(t) PROVE WatchInv'
  <2>1. WatchTypes'
    BY <1>4 DEF DetailLands, WatchTypes
  <2>2. CASE opening[t] = "running"
    <3>1. PICK h \in Timers : timers' = [timers EXCEPT ![h] = t] /\ handle' = h
      BY <1>4, <2>2 DEF DetailLands
    <3> SUFFICES ASSUME ~crossed' PROVE TimersFollowDetail'
      BY <2>1
    <3>2. ~crossed /\ onPage /\ detail = NoTask
      BY <1>4 DEF DetailLands
    <3>3. detail' = [id |-> t, over |-> FALSE]
      BY <1>4, <2>2, <3>2 DEF DetailLands
    <3> QED
      BY <1>0, <3>1, <3>2, <3>3 DEF WatchTypes
  <2>3. CASE opening[t] # "running"
    BY <1>0, <1>4, <2>1, <2>3 DEF DetailLands
  <2> QED
    BY <2>2, <2>3
<1>5. ASSUME NEW t \in Tasks, DetailFails(t) PROVE WatchInv'
  BY <1>5 DEF DetailFails, WatchTypes
<1>6. ASSUME NEW h \in Timers, Tick(h) PROVE WatchInv'
  <2> DEFINE asked == [id |-> timers[h], over |-> timers[h] \in ended]
  <2>1. timers[h] \in Tasks
    BY <1>6 DEF Tick, WatchTypes
  <2>2. (timers[h] \in ended) \in BOOLEAN
    OBVIOUS
  <2>3. asked \in [id : Tasks, over : BOOLEAN]
    BY <2>1, <2>2, Zenon
  <2>4. ticks' = ticks \cup {asked} /\ UNCHANGED <<detail, opening, timers, handle, crossed>>
    BY <1>6 DEF Tick
  <2> HIDE DEF asked
  <2>5. ticks' \subseteq [id : Tasks, over : BOOLEAN]
    BY <2>3, <2>4 DEF WatchTypes
  <2> QED
    BY <2>4, <2>5 DEF WatchTypes
<1>7. ASSUME NEW q \in ticks, TickLands(q) PROVE WatchInv'
  <2>1. WatchTypes'
    BY <1>7, StopKeepsTypes DEF TickLands, WatchTypes
  <2> SUFFICES ASSUME ~crossed' PROVE TimersFollowDetail'
    BY <2>1
  <2>2. ~crossed /\ detail = [id |-> q.id, over |-> FALSE]
    BY <1>7 DEF TickLands, WatchTypes
  <2>3. CASE q.over
    BY <1>7, <2>2, <2>3, NothingRunsOnceStopped DEF TickLands
  <2>4. CASE ~q.over
    <3>1. detail' = detail /\ UNCHANGED timers /\ UNCHANGED handle
      BY <1>7, <2>2, <2>4 DEF TickLands, WatchTypes
    <3> QED
      BY <2>2, <3>1
  <2> QED
    BY <2>3, <2>4
<1>8. ASSUME NEW q \in ticks, TickFails(q) PROVE WatchInv'
  BY <1>8 DEF TickFails, WatchTypes
<1>9. CASE CloseDetail \/ LeavePage
  <2>1. stopAutoRefresh /\ detail' = NoTask /\ UNCHANGED <<opening, ticks, crossed>>
    BY <1>9 DEF CloseDetail, LeavePage
  <2>2. WatchTypes'
    BY <2>1, StopKeepsTypes DEF WatchTypes, NoTask
  <2>3. ~crossed => \A h \in Timers : timers'[h] = 0
    BY <2>1, NothingRunsOnceStopped
  <2> QED
    BY <2>1, <2>2, <2>3
<1>10. CASE UNCHANGED watchVars
  BY <1>10 DEF watchVars, WatchTypes
<1> QED
  BY <1>1, <1>2, <1>3, <1>4, <1>5, <1>6, <1>7, <1>8, <1>9, <1>10 DEF WatchNext

\* What runs is what the ref holds and reloads the running task on screen, for as
\* long as no answer came to a page that had moved on (openDetail, closeDetail and
\* the interval of UserTasksPage.tsx).
THEOREM IntervalsFollowDialog ==
  ASSUME 0 \notin Tasks
  PROVE  WatchSpec => []TimersFollowDetail
<1>1. WatchInit => WatchInv
  BY DEF WatchInit, WatchInv, WatchTypes, TimersFollowDetail, NoTask, NoTimer
<1>2. WatchInv => TimersFollowDetail
  BY DEF WatchInv
<1> QED
  BY <1>1, <1>2, WatchKept, PTL DEF WatchSpec

-----------------------------------------------------------------------------
(***************************************************************************)
(* Checkout                                                                *)
(***************************************************************************)

\* Only a payment is notified of, so a handler under way has one behind it.
NotifiedIsPaid == \A o \in Orders : handling[o] > 0 => o \in paidFor

SettlementTypes ==
  /\ credited \in [Orders -> Nat] /\ handling \in [Orders -> Nat]
  /\ status \in [Orders -> {"none", "pending", "paid"}]

SettlementInv == SettlementTypes /\ NotifiedIsPaid /\ PaymentCreditedOnce

\* Steps of the page alone leave the settlement as it is.
LEMMA PageStep ==
  ASSUME SettlementInv, UNCHANGED <<status, paidFor, credited, handling>>
  PROVE  SettlementInv'
BY DEF SettlementInv, SettlementTypes, NotifiedIsPaid, PaymentCreditedOnce

\* An order that is created is not paid and has nothing credited.
LEMMA CreatedStep ==
  ASSUME SettlementInv, NEW o \in Orders, OrderCreated(o)
  PROVE  SettlementInv'
<1>1. /\ status[o] = "none" /\ status' = [status EXCEPT ![o] = "pending"]
      /\ UNCHANGED <<paidFor, credited, handling>>
  BY DEF OrderCreated, NextOrder
<1>2. SettlementTypes' /\ NotifiedIsPaid'
  BY <1>1 DEF SettlementInv, SettlementTypes, NotifiedIsPaid
<1>3. ASSUME NEW p \in Orders
      PROVE  (status'[p] = "paid") <=> (status[p] = "paid")
  BY <1>1, <1>3 DEF SettlementInv, SettlementTypes
<1>4. PaymentCreditedOnce'
  BY <1>1, <1>3 DEF SettlementInv, PaymentCreditedOnce
<1> QED
  BY <1>2, <1>4 DEF SettlementInv

\* The guarded update and the recharge row move together.
LEMMA SettleStep ==
  ASSUME SettlementInv, NEW o \in Orders, Settle(o)
  PROVE  SettlementInv'
<1>1. /\ handling[o] > 0 /\ handling' = [handling EXCEPT ![o] = @ - 1]
      /\ status[o] = "pending" /\ status' = [status EXCEPT ![o] = "paid"]
      /\ credited' = [credited EXCEPT ![o] = @ + 1] /\ paidFor' = paidFor
  BY DEF Settle, Unsettled
<1>2. SettlementTypes'
  BY <1>1 DEF SettlementInv, SettlementTypes
<1>3. NotifiedIsPaid'
  BY <1>1 DEF SettlementInv, SettlementTypes, NotifiedIsPaid
<1>4. credited[o] = 0 /\ o \in paidFor
  BY <1>1 DEF SettlementInv, NotifiedIsPaid, PaymentCreditedOnce
<1>5. PaymentCreditedOnce'
  BY <1>1, <1>4 DEF SettlementInv, SettlementTypes, PaymentCreditedOnce
<1> QED
  BY <1>2, <1>3, <1>5 DEF SettlementInv

\* Every step keeps the invariant.
LEMMA SettlementKept == SettlementInv /\ [CheckoutNext]_checkoutVars => SettlementInv'
<1> SUFFICES ASSUME SettlementInv, [CheckoutNext]_checkoutVars PROVE SettlementInv'
  OBVIOUS
<1>1. CASE handlePay \/ OrderRefused \/ PollOrder \/ CloseFrame \/ PollingLapses
  BY <1>1, PageStep DEF handlePay, OrderRefused, PollOrder, CloseFrame, PollingLapses, server
<1>2. ASSUME NEW a \in answers, PollAnswered(a) \/ PollLost(a) PROVE SettlementInv'
  BY <1>2, PageStep DEF PollAnswered, PollLost, server
<1>3. ASSUME NEW o \in Orders, ProviderPaid(o) PROVE SettlementInv'
  <2>1. paidFor' = paidFor \cup {o} /\ UNCHANGED <<status, credited, handling>>
    BY <1>3 DEF ProviderPaid
  <2> QED
    BY <2>1 DEF SettlementInv, SettlementTypes, NotifiedIsPaid, PaymentCreditedOnce
<1>4. ASSUME NEW o \in Orders, Notify(o) PROVE SettlementInv'
  <2>1. o \in paidFor /\ handling' = [handling EXCEPT ![o] = @ + 1] /\ UNCHANGED <<status, paidFor, credited>>
    BY <1>4 DEF Notify
  <2> QED
    BY <2>1 DEF SettlementInv, SettlementTypes, NotifiedIsPaid, PaymentCreditedOnce
<1>5. ASSUME NEW o \in Orders, SettleFails(o) PROVE SettlementInv'
  <2>1. handling[o] > 0 /\ handling' = [handling EXCEPT ![o] = @ - 1] /\ UNCHANGED <<status, paidFor, credited>>
    BY <1>5 DEF SettleFails
  <2> QED
    BY <2>1 DEF SettlementInv, SettlementTypes, NotifiedIsPaid, PaymentCreditedOnce
<1>6. CASE UNCHANGED checkoutVars
  BY <1>6, PageStep DEF checkoutVars
<1> QED
  BY <1>1, <1>2, <1>3, <1>4, <1>5, <1>6, CreatedStep, SettleStep DEF CheckoutNext

\* However often a payment is notified and however many handlers overlap, the
\* guarded UPDATE of SettlePaymentOrderRecharge credits it once.
THEOREM PaymentsCreditedOnce == CheckoutSpec => []PaymentCreditedOnce
<1>1. CheckoutInit => SettlementInv
  BY DEF CheckoutInit, SettlementInv, SettlementTypes, NotifiedIsPaid, PaymentCreditedOnce
<1>2. SettlementInv => PaymentCreditedOnce
  BY DEF SettlementInv
<1> QED
  BY <1>1, <1>2, SettlementKept, PTL DEF CheckoutSpec

-----------------------------------------------------------------------------
\* A rebate is paid in the transaction that sets rebate_done, and nothing resets it.
RebateWritten ==
  /\ rebates <= 1
  /\ rebates = 1 => postJob.rebateDone
  /\ \A w \in PostWorkers : copy[w].rebateDone => postJob.rebateDone

\* vendor_done is never set, read or assumed before the vendor was paid.
EarningsWritten ==
  /\ postJob.vendorDone \/ postJob.status = "done" => earnings > 0
  /\ \A w \in PostWorkers : stage[w] = "finish" \/ copy[w].vendorDone => earnings > 0

\* Unless a job is taken from a worker at work, one worker holds it at a time and
\* the row stays the worker's own.
NotOvertaken ==
  overtakes = 0 =>
    /\ \A v, w \in PostWorkers : stage[v] \in Claimed /\ stage[w] \in Claimed => v = w
    /\ \A w \in PostWorkers :
         /\ stage[w] \in Claimed => ~stale
         /\ stage[w] \in {"rebate", "vendor", "finish"} => postJob.status = "running"
         /\ stage[w] = "release" => postJob.status # "pending"
         /\ stage[w] \in {"vendor", "finish"} => postJob.rebateDone
    /\ rebateOwed /\ postJob.rebateDone => rebates = 1
    /\ rebateOwed /\ postJob.status = "done" => rebates = 1

\* Without faults the job is claimed once.
ClaimedOnce ==
  overtakes = 0 /\ postFaults = 0 =>
    /\ earnings <= 1
    /\ postJob.status = "pending" => earnings = 0
    /\ postJob.status = "running" => JobHeld
    /\ \A w \in PostWorkers : stage[w] # "release" /\ (stage[w] \in {"rebate", "vendor"} => earnings = 0)

PostInv == PostTypeOK /\ RebateWritten /\ EarningsWritten /\ NotOvertaken /\ ClaimedOnce

\* The stage of one worker changes, and no other's.
LEMMA StageStep ==
  ASSUME stage \in [PostWorkers -> {"idle", "find", "claim"} \cup Claimed],
         NEW w \in PostWorkers, NEW next \in {"idle", "find", "claim"} \cup Claimed, Goes(w, next)
  PROVE  /\ stage' \in [PostWorkers -> {"idle", "find", "claim"} \cup Claimed]
         /\ stage'[w] = next /\ \A v \in PostWorkers : v # w => stage'[v] = stage[v]
BY DEF Goes

\* A worker stops: it dies, gives up or finds nothing to do.
LEMMA StopStep ==
  ASSUME PostInv, NEW w \in PostWorkers, NEW next \in {"idle", "find", "claim"}, Goes(w, next),
         stage[w] \in Claimed => postFaults' > 0,
         postFaults' \in postFaults .. MaxPostFaults, UNCHANGED <<postJob, rebateOwed, stale, rebates, earnings, copy, overtakes>>
  PROVE  PostInv'
<1>1. /\ stage' \in [PostWorkers -> {"idle", "find", "claim"} \cup Claimed]
      /\ stage'[w] = next /\ \A v \in PostWorkers : v # w => stage'[v] = stage[v]
  BY StageStep DEF PostInv, PostTypeOK
<1>2. next \notin Claimed /\ next \notin {"rebate", "vendor", "finish", "release"}
  BY DEF Claimed
<1>3. postFaults \in Nat /\ postFaults' \in Nat /\ (postFaults' = 0 => postFaults = 0 /\ stage[w] \notin Claimed)
  BY PostAssumption DEF PostInv, PostTypeOK
<1>4. PostTypeOK' /\ RebateWritten' /\ EarningsWritten'
  BY <1>1, <1>2 DEF PostInv, PostTypeOK, RebateWritten, EarningsWritten
<1>5. NotOvertaken'
  BY <1>1, <1>2 DEF PostInv, NotOvertaken
<1>6. ClaimedOnce'
  BY <1>1, <1>2, <1>3 DEF PostInv, ClaimedOnce, JobHeld
<1> QED
  BY <1>4, <1>5, <1>6 DEF PostInv

\* A reclaim finds no claimant, unless it overtakes one.
LEMMA ReclaimStep ==
  ASSUME PostInv, NEW w \in PostWorkers, ReclaimStaleJob(w)
  PROVE  PostInv'
<1>1. /\ stage' \in [PostWorkers -> {"idle", "find", "claim"} \cup Claimed]
      /\ stage'[w] = "find" /\ \A v \in PostWorkers : v # w => stage'[v] = stage[v]
  BY StageStep DEF PostInv, PostTypeOK, ReclaimStaleJob
<1>2. /\ stage[w] = "idle" /\ stale' = FALSE
      /\ UNCHANGED <<rebateOwed, rebates, earnings, copy, postFaults, overtakes>>
      /\ postJob' = IF postJob.status = "running" /\ stale THEN [postJob EXCEPT !.status = "pending"] ELSE postJob
  BY DEF ReclaimStaleJob
<1>3. /\ postJob' \in [status : {"pending", "running", "done"}, rebateDone : BOOLEAN, vendorDone : BOOLEAN]
      /\ postJob'.rebateDone = postJob.rebateDone /\ postJob'.vendorDone = postJob.vendorDone
      /\ postJob'.status = IF postJob.status = "running" /\ stale THEN "pending" ELSE postJob.status
  BY <1>2 DEF PostInv, PostTypeOK
<1>4. PostTypeOK' /\ RebateWritten' /\ EarningsWritten'
  BY <1>1, <1>2, <1>3 DEF PostInv, PostTypeOK, RebateWritten, EarningsWritten
<1>5. NotOvertaken'
  BY <1>1, <1>2, <1>3 DEF PostInv, NotOvertaken, Claimed
<1>6. ClaimedOnce'
  BY <1>1, <1>2, <1>3 DEF PostInv, NotOvertaken, ClaimedOnce, JobHeld, Claimed
<1> QED
  BY <1>4, <1>5, <1>6 DEF PostInv

LEMMA FindStep ==
  ASSUME PostInv, NEW w \in PostWorkers, FindJob(w)
  PROVE  PostInv'
<1>1. CASE postJob.status # "pending"
  <2>1. Goes(w, "idle") /\ stage[w] \notin Claimed
    BY <1>1 DEF FindJob, Claimed
  <2>2. postFaults' \in postFaults .. MaxPostFaults
    BY PostAssumption DEF FindJob, PostInv, PostTypeOK
  <2> QED
    BY <1>1, <2>1, <2>2, StopStep DEF FindJob
<1>2. CASE postJob.status = "pending"
  <2>1. /\ stage' \in [PostWorkers -> {"idle", "find", "claim"} \cup Claimed]
        /\ stage'[w] = "claim" /\ \A v \in PostWorkers : v # w => stage'[v] = stage[v]
    BY <1>2, StageStep DEF FindJob, PostInv, PostTypeOK
  <2>2. /\ stage[w] = "find"
        /\ copy' = [copy EXCEPT ![w] = [f \in DOMAIN NotDone |-> postJob[f]]]
        /\ UNCHANGED <<postJob, rebateOwed, stale, rebates, earnings, postFaults, overtakes>>
    BY <1>2 DEF FindJob
  <2>3. [f \in DOMAIN NotDone |-> postJob[f]] = [rebateDone |-> postJob.rebateDone, vendorDone |-> postJob.vendorDone]
    BY DEF NotDone
  <2>4. copy' = [copy EXCEPT ![w] = [rebateDone |-> postJob.rebateDone, vendorDone |-> postJob.vendorDone]]
    BY <2>2, <2>3
  <2>5. PostTypeOK' /\ RebateWritten' /\ EarningsWritten'
    BY <2>1, <2>2, <2>4 DEF PostInv, PostTypeOK, RebateWritten, EarningsWritten
  <2>6. NotOvertaken' /\ ClaimedOnce'
    BY <2>1, <2>2 DEF PostInv, NotOvertaken, ClaimedOnce, JobHeld, Claimed
  <2> QED
    BY <2>5, <2>6 DEF PostInv
<1> QED
  BY <1>1, <1>2

\* A pending job has no claimant, so the claim makes the worker the only one.
LEMMA ClaimStep ==
  ASSUME PostInv, NEW w \in PostWorkers, ClaimJob(w)
  PROVE  PostInv'
<1>1. CASE postJob.status # "pending"
  <2>1. Goes(w, "idle") /\ stage[w] \notin Claimed
    BY <1>1 DEF ClaimJob, Claimed
  <2>2. postFaults' \in postFaults .. MaxPostFaults
    BY PostAssumption DEF ClaimJob, PostInv, PostTypeOK
  <2> QED
    BY <1>1, <2>1, <2>2, StopStep DEF ClaimJob
<1>2. CASE postJob.status = "pending"
  <2>1. /\ stage' \in [PostWorkers -> {"idle", "find", "claim"} \cup Claimed]
        /\ stage'[w] = "rebate" /\ \A v \in PostWorkers : v # w => stage'[v] = stage[v]
    BY <1>2, StageStep DEF ClaimJob, PostInv, PostTypeOK, Claimed
  <2>2. /\ stage[w] = "claim" /\ stale' = FALSE
        /\ postJob' = [postJob EXCEPT !.status = "running"]
        /\ UNCHANGED <<rebateOwed, rebates, earnings, copy, postFaults, overtakes>>
    BY <1>2 DEF ClaimJob
  <2>3. /\ postJob' \in [status : {"pending", "running", "done"}, rebateDone : BOOLEAN, vendorDone : BOOLEAN]
        /\ postJob'.rebateDone = postJob.rebateDone /\ postJob'.vendorDone = postJob.vendorDone
        /\ postJob'.status = "running"
    BY <2>2 DEF PostInv, PostTypeOK
  <2>4. overtakes = 0 => \A v \in PostWorkers : stage[v] \notin Claimed
    BY <1>2 DEF PostInv, NotOvertaken, Claimed
  <2>5. PostTypeOK' /\ RebateWritten' /\ EarningsWritten'
    BY <2>1, <2>2, <2>3 DEF PostInv, PostTypeOK, RebateWritten, EarningsWritten
  <2>6. NotOvertaken'
    BY <2>1, <2>2, <2>3, <2>4 DEF PostInv, NotOvertaken, Claimed
  <2>7. ClaimedOnce'
    BY <1>2, <2>1, <2>2, <2>3, <2>4 DEF PostInv, ClaimedOnce, JobHeld, Claimed
  <2> QED
    BY <2>5, <2>6, <2>7 DEF PostInv
<1> QED
  BY <1>1, <1>2

\* The rebate half: the row that is read FOR UPDATE decides.
LEMMA RebateStep ==
  ASSUME PostInv, NEW w \in PostWorkers, NEW next \in {"vendor", "release"}, PayRebate(w, next),
         postFaults' \in postFaults .. MaxPostFaults, next = "release" => postFaults' > 0
  PROVE  PostInv'
<1>1. /\ stage' \in [PostWorkers -> {"idle", "find", "claim"} \cup Claimed]
      /\ stage'[w] = next /\ \A v \in PostWorkers : v # w => stage'[v] = stage[v]
  BY StageStep DEF PostInv, PostTypeOK, Claimed, PayRebate
<1>2. stage[w] = "rebate" /\ UNCHANGED <<rebateOwed, earnings, copy, overtakes>>
  BY DEF PayRebate
<1>3. postFaults \in Nat /\ postFaults' \in 0 .. MaxPostFaults /\ (postFaults' = 0 => postFaults = 0 /\ next # "release")
  BY PostAssumption DEF PostInv, PostTypeOK
<1>4. CASE ~copy[w].rebateDone /\ RebateStillOwed(w)
  <2>1. /\ rebates' = rebates + (IF rebateOwed THEN 1 ELSE 0)
        /\ postJob' = [postJob EXCEPT !.rebateDone = TRUE] /\ stale' = FALSE
        /\ ~postJob.rebateDone /\ postJob.status = "running"
    BY <1>4 DEF PayRebate, RebateStillOwed
  <2>2. /\ postJob' \in [status : {"pending", "running", "done"}, rebateDone : BOOLEAN, vendorDone : BOOLEAN]
        /\ postJob'.rebateDone /\ postJob'.vendorDone = postJob.vendorDone /\ postJob'.status = postJob.status
    BY <2>1 DEF PostInv, PostTypeOK
  <2>3. rebates = 0 /\ rebates' \in Nat /\ rebates' <= 1 /\ (rebateOwed => rebates' = 1)
    BY <2>1 DEF PostInv, PostTypeOK, RebateWritten
  <2>4. PostTypeOK' /\ RebateWritten' /\ EarningsWritten'
    BY <1>1, <1>2, <1>3, <2>1, <2>2, <2>3 DEF PostInv, PostTypeOK, RebateWritten, EarningsWritten
  <2>5. NotOvertaken'
    BY <1>1, <1>2, <2>1, <2>2, <2>3 DEF PostInv, NotOvertaken, Claimed
  <2>6. ClaimedOnce'
    BY <1>1, <1>2, <1>3, <2>1, <2>2 DEF PostInv, ClaimedOnce, JobHeld, Claimed
  <2> QED
    BY <2>4, <2>5, <2>6 DEF PostInv
<1>5. CASE ~(~copy[w].rebateDone /\ RebateStillOwed(w))
  <2>1. UNCHANGED <<rebates, postJob, stale>>
    BY <1>5 DEF PayRebate
  <2>2. copy[w].rebateDone \/ postJob.rebateDone \/ postJob.status # "running"
    BY <1>5 DEF RebateStillOwed
  <2>3. PostTypeOK' /\ RebateWritten' /\ EarningsWritten'
    BY <1>1, <1>2, <1>3, <2>1 DEF PostInv, PostTypeOK, RebateWritten, EarningsWritten
  <2>4. NotOvertaken'
    BY <1>1, <1>2, <2>1, <2>2 DEF PostInv, RebateWritten, NotOvertaken, Claimed
  <2>5. ClaimedOnce'
    BY <1>1, <1>2, <1>3, <2>1 DEF PostInv, ClaimedOnce, JobHeld, Claimed
  <2> QED
    BY <2>3, <2>4, <2>5 DEF PostInv
<1> QED
  BY <1>4, <1>5

\* The vendor half pays before vendor_done can be set.
LEMMA VendorStep ==
  ASSUME PostInv, NEW w \in PostWorkers, NEW next \in {"finish", "release"}, PayVendor(w, next),
         postFaults' \in postFaults .. MaxPostFaults, next = "release" => postFaults' > 0
  PROVE  PostInv'
<1>1. /\ stage' \in [PostWorkers -> {"idle", "find", "claim"} \cup Claimed]
      /\ stage'[w] = next /\ \A v \in PostWorkers : v # w => stage'[v] = stage[v]
  BY StageStep DEF PostInv, PostTypeOK, Claimed, PayVendor
<1>2. /\ stage[w] = "vendor" /\ UNCHANGED <<rebateOwed, rebates, copy, overtakes>>
      /\ earnings' = earnings + (IF copy[w].vendorDone THEN 0 ELSE 1)
  BY DEF PayVendor
<1>3. postFaults \in Nat /\ postFaults' \in 0 .. MaxPostFaults /\ (postFaults' = 0 => postFaults = 0 /\ next # "release")
  BY PostAssumption DEF PostInv, PostTypeOK
<1>4. earnings \in Nat /\ earnings' \in Nat /\ earnings' > 0 /\ (earnings = 0 => earnings' = 1)
  BY <1>2 DEF PostInv, PostTypeOK, EarningsWritten
<1>5. /\ postJob' \in [status : {"pending", "running", "done"}, rebateDone : BOOLEAN, vendorDone : BOOLEAN]
      /\ postJob'.rebateDone = postJob.rebateDone /\ postJob'.status = postJob.status
      /\ stale' \in {stale, FALSE}
  BY DEF PayVendor, PostInv, PostTypeOK
<1>6. PostTypeOK' /\ RebateWritten' /\ EarningsWritten'
  BY <1>1, <1>2, <1>3, <1>4, <1>5 DEF PostInv, PostTypeOK, RebateWritten, EarningsWritten
<1>7. NotOvertaken'
  BY <1>1, <1>2, <1>5 DEF PostInv, NotOvertaken, Claimed
<1>8. ClaimedOnce'
  BY <1>1, <1>2, <1>3, <1>4, <1>5 DEF PostInv, NotOvertaken, ClaimedOnce, JobHeld, Claimed
<1> QED
  BY <1>6, <1>7, <1>8 DEF PostInv

\* The last update comes after both halves.
LEMMA FinishStep ==
  ASSUME PostInv, NEW w \in PostWorkers, NEW next \in {"idle", "release"}, FinishJob(w, next),
         postFaults' \in postFaults .. MaxPostFaults, next = "release" => postFaults' > 0
  PROVE  PostInv'
<1>1. /\ stage' \in [PostWorkers -> {"idle", "find", "claim"} \cup Claimed]
      /\ stage'[w] = next /\ \A v \in PostWorkers : v # w => stage'[v] = stage[v]
  BY StageStep DEF PostInv, PostTypeOK, Claimed, FinishJob
<1>2. /\ stage[w] = "finish" /\ stale' = FALSE
      /\ UNCHANGED <<rebateOwed, rebates, earnings, copy, overtakes>>
      /\ postJob' = [status |-> "done", rebateDone |-> TRUE, vendorDone |-> TRUE]
  BY DEF FinishJob
<1>3. postFaults \in Nat /\ postFaults' \in 0 .. MaxPostFaults /\ (postFaults' = 0 => postFaults = 0 /\ next # "release")
  BY PostAssumption DEF PostInv, PostTypeOK
<1>4. /\ postJob' \in [status : {"pending", "running", "done"}, rebateDone : BOOLEAN, vendorDone : BOOLEAN]
      /\ postJob'.rebateDone /\ postJob'.vendorDone /\ postJob'.status = "done"
  BY <1>2
<1>5. earnings > 0 /\ (overtakes = 0 /\ rebateOwed => rebates = 1)
  BY <1>2 DEF PostInv, EarningsWritten, NotOvertaken
<1>6. PostTypeOK' /\ RebateWritten' /\ EarningsWritten'
  BY <1>1, <1>2, <1>3, <1>4, <1>5 DEF PostInv, PostTypeOK, RebateWritten, EarningsWritten
<1>7. NotOvertaken'
  BY <1>1, <1>2, <1>4, <1>5 DEF PostInv, NotOvertaken, Claimed
<1>8. ClaimedOnce'
  BY <1>1, <1>2, <1>3, <1>4 DEF PostInv, NotOvertaken, ClaimedOnce, JobHeld, Claimed
<1> QED
  BY <1>6, <1>7, <1>8 DEF PostInv

LEMMA ReleaseStep ==
  ASSUME PostInv, NEW w \in PostWorkers, ReleaseJob(w)
  PROVE  PostInv'
<1>1. /\ stage' \in [PostWorkers -> {"idle", "find", "claim"} \cup Claimed]
      /\ stage'[w] = "idle" /\ \A v \in PostWorkers : v # w => stage'[v] = stage[v]
  BY StageStep DEF PostInv, PostTypeOK, ReleaseJob
<1>2. /\ stage[w] = "release" /\ stale' = FALSE
      /\ postJob' = [postJob EXCEPT !.status = "pending"]
      /\ UNCHANGED <<rebateOwed, rebates, earnings, copy, postFaults, overtakes>>
  BY DEF ReleaseJob
<1>3. /\ postJob' \in [status : {"pending", "running", "done"}, rebateDone : BOOLEAN, vendorDone : BOOLEAN]
      /\ postJob'.rebateDone = postJob.rebateDone /\ postJob'.vendorDone = postJob.vendorDone
      /\ postJob'.status = "pending"
  BY <1>2 DEF PostInv, PostTypeOK
<1>4. PostTypeOK' /\ RebateWritten' /\ EarningsWritten'
  BY <1>1, <1>2, <1>3 DEF PostInv, PostTypeOK, RebateWritten, EarningsWritten
<1>5. NotOvertaken'
  BY <1>1, <1>2, <1>3 DEF PostInv, NotOvertaken, Claimed
<1>6. ClaimedOnce'
  BY <1>1, <1>2, <1>3 DEF PostInv, ClaimedOnce
<1> QED
  BY <1>4, <1>5, <1>6 DEF PostInv

\* A call that fails after the claim sends the worker to the release.
LEMMA FailStep ==
  ASSUME PostInv, NEW w \in PostWorkers, JobCallFails(w)
  PROVE  PostInv'
<1>1. /\ postFaults' = postFaults + 1 /\ postFaults' \in 0 .. MaxPostFaults /\ postFaults \in Nat
      /\ UNCHANGED <<postJob, rebateOwed, stale, rebates, earnings, copy, overtakes>>
  BY PostAssumption DEF JobCallFails, Fault, PostInv, PostTypeOK
<1>2. CASE stage[w] \notin Claimed \ {"release"}
  BY <1>1, <1>2, StopStep DEF JobCallFails
<1>3. CASE stage[w] \in Claimed \ {"release"}
  <2>1. /\ stage' \in [PostWorkers -> {"idle", "find", "claim"} \cup Claimed]
        /\ stage'[w] = "release" /\ \A v \in PostWorkers : v # w => stage'[v] = stage[v]
    BY <1>3, StageStep DEF JobCallFails, PostInv, PostTypeOK, Claimed
  <2>2. PostTypeOK' /\ RebateWritten' /\ EarningsWritten'
    BY <1>1, <2>1 DEF PostInv, PostTypeOK, RebateWritten, EarningsWritten
  <2>3. NotOvertaken'
    BY <1>1, <1>3, <2>1 DEF PostInv, NotOvertaken, Claimed
  <2>4. ClaimedOnce'
    BY <1>1 DEF PostInv, ClaimedOnce
  <2> QED
    BY <2>2, <2>3, <2>4 DEF PostInv
<1> QED
  BY <1>2, <1>3

\* Time that passes under a claimant is counted.
LEMMA StaleStep ==
  ASSUME MaxOvertakes \in Nat, PostInv, JobGoesStale
  PROVE  PostInv'
<1>1. stale' = TRUE /\ UNCHANGED <<postJob, rebateOwed, rebates, earnings, stage, copy, postFaults>>
  BY DEF JobGoesStale
<1>2. overtakes' \in 0 .. MaxOvertakes /\ (overtakes' = 0 => overtakes = 0 /\ ~JobHeld)
  BY DEF JobGoesStale, PostInv, PostTypeOK
<1>3. PostTypeOK' /\ RebateWritten' /\ EarningsWritten'
  BY <1>1, <1>2 DEF PostInv, PostTypeOK, RebateWritten, EarningsWritten
<1>4. NotOvertaken' /\ ClaimedOnce'
  BY <1>1, <1>2 DEF PostInv, NotOvertaken, ClaimedOnce, JobHeld
<1> QED
  BY <1>3, <1>4 DEF PostInv

\* Every step keeps the invariant.
LEMMA PostKept == PostInv /\ [PostNext]_postVars => PostInv'
<1> SUFFICES ASSUME PostInv, [PostNext]_postVars PROVE PostInv'
  OBVIOUS
<1>1. CASE JobGoesStale
  BY <1>1, PostAssumption, StaleStep
<1>2. ASSUME NEW w \in PostWorkers, Works(w) PROVE PostInv'
  <2>1. CASE UNCHANGED postFaults /\ (PayRebate(w, "vendor") \/ PayVendor(w, "finish") \/ FinishJob(w, "idle"))
    <3>1. postFaults' \in postFaults .. MaxPostFaults
      BY <2>1, PostAssumption DEF PostInv, PostTypeOK
    <3> QED
      BY <2>1, <3>1, RebateStep, VendorStep, FinishStep
  <2> QED
    BY <1>2, <2>1, ReclaimStep, FindStep, ClaimStep, ReleaseStep DEF Works
<1>3. ASSUME NEW w \in PostWorkers, AnswerLost(w) PROVE PostInv'
  <2>1. postFaults' \in postFaults .. MaxPostFaults /\ postFaults' > 0
    BY <1>3, PostAssumption DEF AnswerLost, Fault, PostInv, PostTypeOK
  <2> QED
    BY <1>3, <2>1, RebateStep, VendorStep, FinishStep DEF AnswerLost
<1>4. ASSUME NEW w \in PostWorkers, WorkerDies(w) PROVE PostInv'
  <2>1. postFaults' \in postFaults .. MaxPostFaults /\ postFaults' > 0
    BY <1>4, PostAssumption DEF WorkerDies, Fault, PostInv, PostTypeOK
  <2> QED
    BY <1>4, <2>1, StopStep DEF WorkerDies
<1>5. CASE UNCHANGED postVars
  BY <1>5 DEF postVars, PostInv, PostTypeOK, RebateWritten, EarningsWritten, NotOvertaken, ClaimedOnce, JobHeld
<1> QED
  BY <1>1, <1>2, <1>3, <1>4, <1>5, FailStep DEF PostNext

\* A job that was just inserted has paid nothing.
LEMMA PostStart == PostInit => PostInv
<1> SUFFICES ASSUME PostInit PROVE PostInv
  OBVIOUS
<1>1. /\ postJob \in [status : {"pending", "running", "done"}, rebateDone : BOOLEAN, vendorDone : BOOLEAN]
      /\ postJob.status = "pending" /\ ~postJob.vendorDone /\ rebateOwed \in BOOLEAN
      /\ rebateOwed => ~postJob.rebateDone
  BY DEF PostInit
<1>2. /\ stale = FALSE /\ rebates = 0 /\ earnings = 0 /\ postFaults = 0 /\ overtakes = 0
      /\ stage = [w \in PostWorkers |-> "idle"] /\ copy = [w \in PostWorkers |-> [rebateDone |-> FALSE, vendorDone |-> FALSE]]
  BY DEF PostInit, NotDone
<1>3. PostTypeOK
  <2>1. stage \in [PostWorkers -> {"idle", "find", "claim"} \cup Claimed]
    BY <1>2
  <2>2. copy \in [PostWorkers -> [rebateDone : BOOLEAN, vendorDone : BOOLEAN]]
    BY <1>2
  <2>3. postFaults \in 0 .. MaxPostFaults /\ overtakes \in 0 .. MaxOvertakes
    BY <1>2, PostAssumption
  <2>4. rebates \in Nat /\ earnings \in Nat /\ stale \in BOOLEAN
    BY <1>2
  <2> QED
    BY <1>1, <2>1, <2>2, <2>3, <2>4 DEF PostTypeOK
<1>4. RebateWritten /\ EarningsWritten
  BY <1>1, <1>2 DEF RebateWritten, EarningsWritten
<1>5. NotOvertaken /\ ClaimedOnce
  BY <1>1, <1>2 DEF NotOvertaken, ClaimedOnce, Claimed
<1> QED
  BY <1>3, <1>4, <1>5 DEF PostInv

\* However many workers process a job, fail, die and take it from each other, the
\* inviter is paid at most once, and a job marked done has paid its vendor and,
\* unless it was taken from a worker at work, its inviter.
THEOREM JobsPayOut == PostSpec => []PostJobPaysOut
<1>1. PostInv => PostJobPaysOut
  BY PostAssumption DEF PostInv, PostTypeOK, RebateWritten, EarningsWritten, NotOvertaken, ClaimedOnce, PostJobPaysOut
<1> QED
  BY <1>1, PostStart, PostKept, PTL DEF PostSpec

-----------------------------------------------------------------------------
(***************************************************************************)
(* Withdrawals.                                                            *)
(***************************************************************************)

Bounds == MaxRequests \in Nat /\ MaxFrozen \in Nat

WithdrawTypes ==
  /\ requests \in [Requests -> [status : Statuses, stage : Stages, amount : Nat]]
  /\ frozen \in Nat /\ earned \in Nat /\ converted \in Nat
  /\ submitting \in [{1, 2} -> Nat]
  /\ reviewing \in [Reviewers -> [act : {"idle", "cs", "approve", "reject"}, id : Requests \cup {0}]]
  /\ \A r \in Reviewers : reviewing[r].act # "idle" => reviewing[r].id \in Requests

WithdrawInv == WithdrawTypes /\ FrozenPaysOnce

\* The rows are finitely many, and what each paid out is a number of credits.
LEMMA PaidType ==
  ASSUME Bounds, WithdrawTypes
  PROVE  IsFiniteSet(Requests) /\ \A i \in Requests : PaidOut[i] \in Nat
<1>1. IsFiniteSet(Requests)
  BY FS_Interval DEF Requests, Bounds
<1>2. \A i \in Requests : PaidOut[i] \in Nat
  BY DEF PaidOut, WithdrawTypes
<1> QED
  BY <1>1, <1>2

\* What is paid out stays the same as long as no request becomes or stops being
\* an approved one.
LEMMA PaidSame ==
  ASSUME \A i \in Requests : PaidOut'[i] = PaidOut[i]
  PROVE  Total(PaidOut, Requests)' = Total(PaidOut, Requests)
BY TotalSame

\* Handlers that write a request without approving it.
LEMMA WriteStep ==
  ASSUME WithdrawInv, UNCHANGED <<frozen, earned, converted>>, WithdrawTypes',
         \A i \in Requests : requests'[i] = requests[i] \/ (requests[i].status # "approved" /\ requests'[i].status # "approved")
  PROVE  WithdrawInv'
<1>1. \A i \in Requests : PaidOut'[i] = PaidOut[i]
  BY DEF PaidOut
<1>2. Total(PaidOut, Requests)' = Total(PaidOut, Requests)
  BY <1>1, PaidSame
<1> QED
  BY <1>2 DEF WithdrawInv, FrozenPaysOnce

\* Money moves between the frozen balance and what was earned or converted.
LEMMA MoneyStep ==
  ASSUME Bounds, WithdrawInv, UNCHANGED requests, WithdrawTypes',
         earned' - frozen' - converted' = earned - frozen - converted
  PROVE  WithdrawInv'
<1>1. \A i \in Requests : PaidOut'[i] = PaidOut[i]
  BY DEF PaidOut
<1>2. Total(PaidOut, Requests)' = Total(PaidOut, Requests)
  BY <1>1, PaidSame
<1>3. Total(PaidOut, Requests) \in Nat
  BY PaidType, TotalType DEF WithdrawInv
<1>4. earned = frozen + converted + Total(PaidOut, Requests)
  BY DEF WithdrawInv, FrozenPaysOnce
<1>5. frozen \in Nat /\ earned \in Nat /\ converted \in Nat /\ frozen' \in Nat /\ earned' \in Nat /\ converted' \in Nat
  BY DEF WithdrawInv, WithdrawTypes
<1>6. earned' = frozen' + converted' + Total(PaidOut, Requests)
  BY <1>3, <1>4, <1>5
<1> QED
  BY <1>2, <1>5, <1>6 DEF WithdrawInv, FrozenPaysOnce

\* An approval takes from the frozen balance what it pays out.
LEMMA ApproveStep ==
  ASSUME Bounds, WithdrawInv, NEW r \in Reviewers, Approve(r)
  PROVE  WithdrawInv'
<1> DEFINE i == reviewing[r].id
<1>1. i \in Requests /\ reviewing' = [reviewing EXCEPT ![r] = Idle]
  BY DEF Approve, Reviewed, WithdrawInv, WithdrawTypes
<1>2. UNCHANGED <<earned, converted, submitting>>
  BY DEF Approve
<1>3. reviewing' \in [Reviewers -> [act : {"idle", "cs", "approve", "reject"}, id : Requests \cup {0}]]
      /\ \A q \in Reviewers : reviewing'[q].act # "idle" => reviewing'[q].id \in Requests
  BY <1>1 DEF WithdrawInv, WithdrawTypes, Idle
<1>4. CASE StillPending(i) /\ frozen >= requests[i].amount
  <2>1. /\ requests' = [requests EXCEPT ![i].status = "approved", ![i].stage = "completed"]
        /\ frozen' = frozen - requests[i].amount
    BY <1>4 DEF Approve
  <2>2. WithdrawTypes'
    BY <1>1, <1>2, <1>3, <1>4, <2>1 DEF WithdrawInv, WithdrawTypes, Statuses, Stages
  <2>3. requests[i].amount \in Nat /\ requests[i].status = "pending"
    BY <1>1, <1>4 DEF WithdrawInv, WithdrawTypes, StillPending
  <2>4. requests'[i].status = "approved" /\ requests'[i].amount = requests[i].amount
    BY <1>1, <2>1 DEF WithdrawInv, WithdrawTypes
  <2>5. \A j \in Requests \ {i} : requests'[j] = requests[j]
    BY <2>1 DEF WithdrawInv, WithdrawTypes
  <2>6. PaidOut[i] = 0 /\ PaidOut'[i] = requests[i].amount /\ \A j \in Requests \ {i} : PaidOut'[j] = PaidOut[j]
    BY <1>1, <2>3, <2>4, <2>5 DEF PaidOut
  <2>7. IsFiniteSet(Requests) /\ \A j \in Requests : PaidOut[j] \in Nat
    BY PaidType DEF WithdrawInv
  <2> HIDE DEF i
  <2>8. Total(PaidOut', Requests) = Total(PaidOut, Requests) + requests[i].amount
    BY <1>1, <2>3, <2>6, <2>7, TotalUpdate
  <2>9. Total(PaidOut, Requests)' = Total(PaidOut', Requests)
    BY DEF Total, Units, Requests
  <2>10. Total(PaidOut, Requests) \in Nat
    BY <2>7, TotalType
  <2>11. frozen \in Nat /\ earned \in Nat /\ converted \in Nat
    BY DEF WithdrawInv, WithdrawTypes
  <2>12. earned = frozen + converted + Total(PaidOut, Requests)
    BY DEF WithdrawInv, FrozenPaysOnce
  <2>13. earned = frozen' + converted + Total(PaidOut', Requests) /\ frozen' >= 0
    BY <1>4, <2>1, <2>3, <2>8, <2>10, <2>11, <2>12
  <2> QED
    BY <1>2, <2>2, <2>9, <2>13 DEF WithdrawInv, FrozenPaysOnce
<1>5. CASE ~(StillPending(i) /\ frozen >= requests[i].amount)
  <2>1. UNCHANGED <<requests, frozen>>
    BY <1>5 DEF Approve
  <2>2. WithdrawTypes'
    BY <1>2, <1>3, <2>1 DEF WithdrawInv, WithdrawTypes
  <2> QED
    BY <1>2, <2>1, <2>2, WriteStep
<1> QED
  BY <1>4, <1>5

\* Every step keeps the invariant.
LEMMA WithdrawKept ==
  ASSUME Bounds
  PROVE  WithdrawInv /\ [WithdrawNext]_withdrawVars => WithdrawInv'
<1> SUFFICES ASSUME WithdrawInv, [WithdrawNext]_withdrawVars PROVE WithdrawInv'
  OBVIOUS
<1>1. CASE Earn
  <2>1. WithdrawTypes' /\ earned' - frozen' - converted' = earned - frozen - converted /\ UNCHANGED requests
    BY <1>1 DEF Earn, WithdrawInv, WithdrawTypes
  <2> QED
    BY <2>1, MoneyStep
<1>2. ASSUME NEW amount \in Amounts, Convert(amount) PROVE WithdrawInv'
  <2>1. amount \in Nat
    BY DEF Amounts, Bounds
  <2>2. WithdrawTypes' /\ earned' - frozen' - converted' = earned - frozen - converted /\ UNCHANGED requests
    BY <1>2, <2>1 DEF Convert, WithdrawInv, WithdrawTypes
  <2> QED
    BY <2>2, MoneyStep
<1>3. ASSUME NEW s \in {1, 2}, NEW amount \in Amounts, SubmitChecks(s, amount) PROVE WithdrawInv'
  <2>1. amount \in Nat
    BY DEF Amounts, Bounds
  <2>2. WithdrawTypes' /\ UNCHANGED <<requests, frozen, earned, converted>>
    BY <1>3, <2>1 DEF SubmitChecks, WithdrawInv, WithdrawTypes
  <2> QED
    BY <2>2, WriteStep
<1>4. ASSUME NEW s \in {1, 2}, NEW i \in Requests, SubmitInserts(s, i) PROVE WithdrawInv'
  <2> DEFINE row == [status |-> "pending", stage |-> "cs_review", amount |-> submitting[s]]
  <2>1. requests' = [requests EXCEPT ![i] = row] /\ row \in [status : Statuses, stage : Stages, amount : Nat]
    BY <1>4 DEF SubmitInserts, WithdrawInv, WithdrawTypes, Statuses, Stages
  <2>2. requests[i].status # "approved" /\ row.status # "approved"
    BY <1>4 DEF SubmitInserts, NoRequestYet
  <2>3. UNCHANGED <<frozen, earned, converted, reviewing>> /\ submitting' = [submitting EXCEPT ![s] = 0]
    BY <1>4 DEF SubmitInserts
  <2> HIDE DEF row
  <2>4. WithdrawTypes'
    BY <2>1, <2>3 DEF WithdrawInv, WithdrawTypes
  <2>5. \A j \in Requests : requests'[j] = requests[j] \/ (requests[j].status # "approved" /\ requests'[j].status # "approved")
    BY <2>1, <2>2 DEF WithdrawInv, WithdrawTypes
  <2> QED
    BY <2>3, <2>4, <2>5, WriteStep
<1>5. ASSUME NEW r \in Reviewers, NEW act \in {"cs", "approve", "reject"}, NEW i \in Requests, Review(r, act, i) PROVE WithdrawInv'
  <2>1. WithdrawTypes' /\ UNCHANGED <<requests, frozen, earned, converted>>
    BY <1>5 DEF Review, WithdrawInv, WithdrawTypes
  <2> QED
    BY <2>1, WriteStep
<1>6. ASSUME NEW r \in Reviewers, CsApprove(r) \/ Reject(r) PROVE WithdrawInv'
  <2> DEFINE i == reviewing[r].id
  <2>1. i \in Requests /\ reviewing' = [reviewing EXCEPT ![r] = Idle] /\ UNCHANGED <<frozen, earned, converted, submitting>>
    BY <1>6 DEF CsApprove, Reject, Reviewed, WithdrawInv, WithdrawTypes
  <2>2. reviewing' \in [Reviewers -> [act : {"idle", "cs", "approve", "reject"}, id : Requests \cup {0}]]
        /\ \A q \in Reviewers : reviewing'[q].act # "idle" => reviewing'[q].id \in Requests
    BY <2>1 DEF WithdrawInv, WithdrawTypes, Idle
  <2>3. \/ requests' = requests
        \/ requests[i].status = "pending" /\ requests' = [requests EXCEPT ![i].stage = "finance_review"]
        \/ requests[i].status = "pending" /\ requests' = [requests EXCEPT ![i].status = "rejected"]
    BY <1>6 DEF CsApprove, Reject, StillPending
  <2> HIDE DEF i
  <2>4. requests' \in [Requests -> [status : Statuses, stage : Stages, amount : Nat]]
    BY <2>1, <2>3 DEF WithdrawInv, WithdrawTypes, Statuses, Stages
  <2>5. \A j \in Requests : requests'[j] = requests[j] \/ (requests[j].status # "approved" /\ requests'[j].status # "approved")
    BY <2>1, <2>3 DEF WithdrawInv, WithdrawTypes
  <2>6. WithdrawTypes'
    BY <2>1, <2>2, <2>4 DEF WithdrawInv, WithdrawTypes
  <2> QED
    BY <2>1, <2>5, <2>6, WriteStep
<1>7. ASSUME NEW r \in Reviewers, Approve(r) PROVE WithdrawInv'
  BY <1>7, ApproveStep
<1>8. CASE UNCHANGED withdrawVars
  <2>1. WithdrawTypes' /\ UNCHANGED <<requests, frozen, earned, converted>>
    BY <1>8 DEF withdrawVars, WithdrawInv, WithdrawTypes
  <2> QED
    BY <2>1, WriteStep
<1> QED
  BY <1>1, <1>2, <1>3, <1>4, <1>5, <1>6, <1>7, <1>8 DEF WithdrawNext

\* Nothing is earned and nothing asked for.
LEMMA WithdrawStart == WithdrawInit => WithdrawInv
<1> SUFFICES ASSUME WithdrawInit PROVE WithdrawInv
  OBVIOUS
<1>1. WithdrawTypes
  BY DEF WithdrawInit, WithdrawTypes, NoRequestYet, Idle, Statuses, Stages
<1>2. \A i \in Requests : PaidOut[i] = 0
  BY DEF WithdrawInit, PaidOut, NoRequestYet
<1>3. Units(PaidOut, Requests) = {}
  BY <1>2 DEF Units
<1>4. Total(PaidOut, Requests) = 0
  BY <1>3, FS_EmptySet DEF Total
<1> QED
  BY <1>1, <1>4 DEF WithdrawInit, WithdrawInv, FrozenPaysOnce

\* However many requests, reviews and conversions are under way at once, every
\* frozen credit is kept, converted or paid out once.
THEOREM FrozenCreditsPayOnce ==
  ASSUME Bounds
  PROVE  WithdrawSpec => []FrozenPaysOnce
<1>1. WithdrawInv => FrozenPaysOnce
  BY DEF WithdrawInv
<1> QED
  BY <1>1, WithdrawStart, WithdrawKept, PTL DEF WithdrawSpec

-----------------------------------------------------------------------------
(***************************************************************************)
(* The plan of a charge.                                                   *)
(***************************************************************************)

\* A plan takes no more than there is, and empties an earlier row before it touches
\* a later one.
Greedy(d, rem, S) ==
  /\ \A l \in S : l \in Int /\ d[l] \in Nat /\ rem[l] \in Nat /\ d[l] <= rem[l]
  /\ \A l, m \in S : l < m /\ d[m] > 0 => d[l] = rem[l]

\* Of two such plans none takes more of a row: of a later row the other takes nothing
\* then, and of an earlier one it takes all, so that it takes more altogether.
LEMMA GreedyTakesNoMore ==
  ASSUME NEW S, IsFiniteSet(S), NEW rem, NEW d, NEW e,
         Greedy(d, rem, S), Greedy(e, rem, S), Total(d, S) = Total(e, S), NEW k \in S
  PROVE  ~(d[k] < e[k])
<1> SUFFICES ASSUME d[k] < e[k] PROVE FALSE
  OBVIOUS
<1>1. ASSUME NEW m \in S PROVE d[m] \in Nat /\ e[m] \in Nat /\ d[m] <= e[m]
  <2>1. /\ d[m] \in Nat /\ e[m] \in Nat /\ rem[m] \in Nat /\ d[m] <= rem[m]
        /\ d[k] \in Nat /\ e[k] \in Nat /\ m \in Int /\ k \in Int
    BY DEF Greedy
  <2>2. CASE m < k
    <3>1. e[m] = rem[m]
      BY <2>1, <2>2 DEF Greedy
    <3> QED
      BY <2>1, <3>1
  <2>3. CASE k < m
    <3>1. ~(d[m] > 0)
      <4>1. e[k] <= rem[k] /\ rem[k] \in Nat
        BY DEF Greedy
      <4> QED
        BY <2>1, <2>3, <4>1 DEF Greedy
    <3> QED
      BY <2>1, <3>1
  <2>4. CASE m = k
    BY <2>1, <2>4
  <2> QED
    BY <2>1, <2>2, <2>3, <2>4
<1>2. \A l \in S : d[l] = e[l]
  BY <1>1, TotalEqual
<1>3. d[k] = e[k] /\ d[k] \in Nat
  BY <1>2 DEF Greedy
<1> QED
  BY <1>3

\* So two such plans of one charge are the same.
LEMMA GreedyIsUnique ==
  ASSUME NEW S, IsFiniteSet(S), NEW rem, NEW d, NEW e,
         Greedy(d, rem, S), Greedy(e, rem, S), Total(d, S) = Total(e, S)
  PROVE  \A k \in S : d[k] = e[k]
<1>1. ASSUME NEW k \in S PROVE ~(d[k] < e[k]) /\ ~(e[k] < d[k])
  BY GreedyTakesNoMore
<1>2. \A k \in S : d[k] \in Nat /\ e[k] \in Nat
  BY DEF Greedy
<1> QED
  BY <1>1, <1>2

PlanTypes ==
  /\ leases \in Seq(Nat) /\ credits \in Nat
  /\ lease \in 1..Len(leases) + 1 /\ remaining \in 0..credits
  /\ plan \in Seq([row : 1..Len(leases), amount : Nat])
  /\ applied \in 0..Len(plan) /\ pc \in {"loop", "apply", "refused", "done"}

\* The debits are of rows the loop has passed, one for a row.
OneDebitPerRow ==
  /\ \A i \in 1..Len(plan) : plan[i].row < lease
  /\ \A i, j \in 1..Len(plan) : i # j => plan[i].row # plan[j].row

\* What is planned and what no row covers yet make up the charge.
SumsUp == Total(Taken, 1..Len(leases)) + remaining = credits

\* Until the first UPDATE the plan is greedy; while credits are missing it has emptied
\* every row the loop has passed, and of the others it takes nothing.
PlannedInOrder ==
  applied = 0 /\ pc # "done" =>
    /\ Greedy(Taken, leases, 1..Len(leases))
    /\ \A l \in 1..Len(leases) : /\ l >= lease => Taken[l] = 0
                                 /\ l < lease /\ remaining > 0 => Taken[l] = leases[l]

\* A row that is not debited yet holds what the plan takes from it.
RowsHold ==
  pc \in {"loop", "apply"} => \A i \in applied + 1 .. Len(plan) : plan[i].amount <= leases[plan[i].row]

PlanStages ==
  /\ pc \in {"loop", "refused"} => applied = 0
  /\ pc \in {"apply", "done"} => remaining = 0
  /\ pc = "refused" => remaining > 0 /\ lease > Len(leases)

PlanInv == PlanTypes /\ OneDebitPerRow /\ SumsUp /\ PlannedInOrder /\ RowsHold /\ PlanStages

\* One more debit adds to what is taken from its row.
LEMMA DebitAdds ==
  ASSUME NEW Item, NEW p \in Seq(Item), \A d \in Item : d.amount \in Nat, NEW d \in Item, NEW row
  PROVE  Total(Parts(Append(p, d), row), 1..Len(Append(p, d)))
           = Total(Parts(p, row), 1..Len(p)) + (IF d.row = row THEN d.amount ELSE 0)
<1> DEFINE n == Len(p)
           q == Append(p, d)
           g == Parts(q, row)
           f == Parts(p, row)
<1>1. n \in Nat /\ Len(q) = n + 1 /\ 1..(n + 1) = 1..n \cup {n + 1} /\ n + 1 \notin 1..n
  OBVIOUS
<1>2. \A i \in 1..n : q[i] = p[i] /\ p[i] \in Item
  OBVIOUS
<1>3. q[n + 1] = d
  OBVIOUS
<1>4. \A i \in 1..n : g[i] = f[i] /\ f[i] \in Nat
  BY <1>1, <1>2 DEF Parts
<1>5. g[n + 1] = IF d.row = row THEN d.amount ELSE 0
  BY <1>1, <1>3 DEF Parts
<1>6. g[n + 1] \in Nat
  BY <1>5
<1>7. IsFiniteSet(1..n)
  BY <1>1, FS_Interval
<1> HIDE DEF n, q, f, g
<1>8. Total(g, 1..n \cup {n + 1}) = g[n + 1] + Total(g, 1..n)
  <2>1. \A m \in 1..n \cup {n + 1} : g[m] \in Nat
    BY <1>4, <1>6
  <2> QED
    BY <1>1, <1>7, <2>1, TotalAdd
<1>9. Total(g, 1..n) = Total(f, 1..n)
  BY <1>4, TotalSame
<1>10. Total(f, 1..n) \in Nat
  BY <1>4, <1>7, TotalType
<1> QED
  <2>1. Total(g, 1..Len(q)) = Total(f, 1..n) + (IF d.row = row THEN d.amount ELSE 0)
    <3>1. Len(q) = n + 1
      BY <1>1
    <3>2. Total(g, 1..Len(q)) = g[n + 1] + Total(g, 1..n)
      BY <1>1, <1>8, <3>1
    <3> QED
      BY <1>5, <1>6, <1>9, <1>10, <3>2
  <2> QED
    BY <2>1 DEF n, q, f, g

LEMMA PlanRows ==
  ASSUME PlanTypes
  PROVE  /\ Len(leases) \in Nat /\ DOMAIN leases = 1..Len(leases) /\ IsFiniteSet(1..Len(leases))
         /\ \A l \in 1..Len(leases) : l \in Int /\ leases[l] \in Nat
<1>1. Len(leases) \in Nat /\ DOMAIN leases = 1..Len(leases) /\ \A l \in 1..Len(leases) : l \in Int /\ leases[l] \in Nat
  BY DEF PlanTypes
<1> QED
  BY <1>1, FS_Interval

LEMMA DebitType ==
  ASSUME PlanTypes, NEW i \in 1..Len(plan)
  PROVE  plan[i].row \in 1..Len(leases) /\ plan[i].row \in Int /\ plan[i].amount \in Nat
<1> DEFINE debits == [row : 1..Len(leases), amount : Nat]
<1>1. plan \in Seq(debits)
  BY DEF PlanTypes
<1> HIDE DEF debits
<1>2. plan[i] \in debits
  BY <1>1
<1> QED
  BY <1>2 DEF debits

LEMMA TakenType ==
  ASSUME PlanTypes, NEW l \in 1..Len(leases)
  PROVE  Taken[l] = Total(Parts(plan, l), 1..Len(plan)) /\ Taken[l] \in Nat
<1>1. Taken[l] = Total(Parts(plan, l), 1..Len(plan))
  BY PlanRows DEF Taken
<1>2. \A i \in 1..Len(plan) : Parts(plan, l)[i] \in Nat
  BY DebitType DEF Parts
<1>3. IsFiniteSet(1..Len(plan))
  BY FS_Interval DEF PlanTypes
<1> QED
  BY <1>1, <1>2, <1>3, TotalType

\* What is taken depends on the plan and on the number of rows only.
LEMMA TakenStays ==
  ASSUME PlanTypes, PlanTypes', plan' = plan, Len(leases') = Len(leases)
  PROVE  Taken' = Taken
BY PlanRows, DOMAIN leases' = DOMAIN leases DEF Taken, PlanTypes

LEMMA InitPlan == Init => PlanInv
<1> SUFFICES ASSUME Init PROVE PlanInv
  OBVIOUS
<1>1. PICK n \in 0..MaxRows : leases \in [1..n -> 0..MaxCredits]
  BY DEF Init
<1>2. n \in Nat /\ Len(leases) = n /\ leases \in Seq(Nat) /\ credits \in Nat
  BY <1>1, BoundsAssumption DEF Init
<1>3. PlanTypes
  BY <1>2 DEF PlanTypes, Init
<1>4. \A l \in 1..Len(leases) : Taken[l] = 0
  <2> SUFFICES ASSUME NEW l \in 1..Len(leases) PROVE Taken[l] = 0
    OBVIOUS
  <2>1. 1..Len(plan) = {}
    BY DEF Init
  <2> QED
    BY <1>3, <2>1, TakenType, TotalEmpty
<1>5. SumsUp
  BY <1>2, <1>4, TotalZero DEF SumsUp, Init
<1>6. PlannedInOrder
  BY <1>2, <1>3, <1>4, PlanRows DEF PlannedInOrder, Greedy, Init
<1> QED
  BY <1>3, <1>5, <1>6 DEF PlanInv, OneDebitPerRow, RowsHold, PlanStages, Init

LEMMA SkipPlan ==
  ASSUME PlanInv, Skip
  PROVE  PlanInv'
<1>1. /\ pc = "loop" /\ remaining # 0 /\ lease <= Len(leases) /\ leases[lease] = 0 /\ lease' = lease + 1
      /\ UNCHANGED <<leases, credits, remaining, plan, applied, pc>>
  BY DEF Skip, AtEnd, PlanInv, PlanTypes
<1>2. PlanTypes'
  BY <1>1 DEF PlanInv, PlanTypes
<1>3. Taken' = Taken
  BY <1>1, <1>2, TakenStays DEF PlanInv
<1>4. OneDebitPerRow'
  <2>1. \A i \in 1..Len(plan) : plan[i].row \in Int /\ lease \in Int
    BY DebitType DEF PlanInv, PlanTypes
  <2> QED
    BY <1>1, <2>1 DEF PlanInv, OneDebitPerRow
<1>5. PlannedInOrder'
  <2>1. Taken[lease] = 0
    BY <1>1 DEF PlanInv, PlannedInOrder, PlanStages, PlanTypes
  <2> QED
    BY <1>1, <1>3, <2>1 DEF PlanInv, PlannedInOrder, PlanTypes
<1> QED
  BY <1>1, <1>2, <1>3, <1>4, <1>5 DEF PlanInv, SumsUp, RowsHold, PlanStages

LEMMA TakePlan ==
  ASSUME PlanInv, Take
  PROVE  PlanInv'
<1> DEFINE a == Amount(lease)
           d == [row |-> lease, amount |-> a]
<1>1. /\ pc = "loop" /\ applied = 0 /\ remaining \in Nat /\ remaining # 0 /\ lease \in 1..Len(leases)
      /\ lease' = lease + 1 /\ leases[lease] \in Nat /\ leases[lease] > 0
      /\ plan' = Append(plan, d) /\ remaining' = remaining - a
      /\ UNCHANGED <<leases, credits, applied, pc>>
  BY DEF Take, AtEnd, PlanInv, PlanTypes, PlanStages
<1>2. /\ a \in Nat /\ a > 0 /\ a <= remaining /\ a <= leases[lease]
      /\ a < remaining => a = leases[lease]
  BY <1>1 DEF Amount
<1> HIDE DEF a
<1>3. d \in [row : 1..Len(leases), amount : Nat]
  BY <1>1, <1>2
<1>4. PlanTypes'
  BY <1>1, <1>2, <1>3 DEF PlanInv, PlanTypes
<1>5. \A l \in 1..Len(leases) : Taken'[l] = Taken[l] + (IF l = lease THEN a ELSE 0)
  <2> SUFFICES ASSUME NEW l \in 1..Len(leases) PROVE Taken'[l] = Taken[l] + (IF l = lease THEN a ELSE 0)
    OBVIOUS
  <2>1. Taken'[l] = Total(Parts(plan', l), 1..Len(plan'))
    BY <1>1, <1>4, PlanRows DEF Taken, PlanInv
  <2>2. Total(Parts(Append(plan, d), l), 1..Len(Append(plan, d))) = Total(Parts(plan, l), 1..Len(plan)) + (IF d.row = l THEN d.amount ELSE 0)
    <3>1. plan \in Seq([row : 1..Len(leases), amount : Nat])
      BY DEF PlanInv, PlanTypes
    <3> QED
      BY <1>3, <3>1, DebitAdds
  <2> QED
    BY <1>1, <2>1, <2>2, TakenType DEF PlanInv
<1>6. Taken[lease] = 0 /\ \A l \in 1..Len(leases) : l < lease => Taken[l] = leases[l]
  BY <1>1 DEF PlanInv, PlannedInOrder, PlanTypes
<1>7. SumsUp'
  <2>1. \A l \in 1..Len(leases) : Taken[l] \in Nat /\ Taken'[l] \in Nat
    BY <1>2, <1>5, TakenType DEF PlanInv
  <2>2. \A l \in 1..Len(leases) \ {lease} : Taken'[l] = Taken[l]
    BY <1>5, <2>1
  <2>3. Taken'[lease] = Taken[lease] + a
    BY <1>1, <1>5
  <2> DEFINE f == Taken
             g == Taken'
             leaseRows == 1..Len(leases)
  <2>4. IsFiniteSet(leaseRows) /\ lease \in leaseRows /\ a \in Int
    BY <1>1, <1>2, PlanRows DEF PlanInv
  <2>5. Total(f, leaseRows) + remaining = credits
    BY DEF PlanInv, SumsUp
  <2> HIDE DEF f, g
  <2>6. /\ \A l \in leaseRows : f[l] \in Nat /\ g[l] \in Nat
        /\ \A l \in leaseRows \ {lease} : g[l] = f[l]
        /\ g[lease] = f[lease] + a
    BY <2>1, <2>2, <2>3 DEF f, g
  <2> HIDE DEF leaseRows
  <2>7. Total(g, leaseRows) = Total(f, leaseRows) + a /\ Total(f, leaseRows) \in Nat
    BY <2>4, <2>6, TotalUpdate, TotalType
  <2>8. Total(g, leaseRows) + (remaining - a) = credits
    BY <1>1, <1>2, <2>5, <2>7
  <2> QED
    BY <1>1, <2>8 DEF SumsUp, g, leaseRows
<1>8. PlannedInOrder'
  <2>1. \A l \in 1..Len(leases) : l \in Int /\ leases[l] \in Nat /\ Taken[l] \in Nat /\ Taken[l] <= leases[l]
    BY <1>1, PlanRows, TakenType DEF PlanInv, PlannedInOrder, Greedy
  <2>2. \A l, m \in 1..Len(leases) : l < m /\ Taken[m] > 0 => Taken[l] = leases[l]
    BY <1>1 DEF PlanInv, PlannedInOrder, Greedy
  <2>3. \A l \in 1..Len(leases) : l > lease => Taken[l] = 0
    BY <1>1, <2>1 DEF PlanInv, PlannedInOrder
  <2> DEFINE g == Taken'
  <2>4. \A l \in 1..Len(leases) : g[l] = IF l = lease THEN a ELSE Taken[l]
    BY <1>2, <1>5, <1>6, <2>1
  <2> HIDE DEF g
  <2>5. Greedy(g, leases, 1..Len(leases))
    <3>1. \A l \in 1..Len(leases) : l \in Int /\ g[l] \in Nat /\ leases[l] \in Nat /\ g[l] <= leases[l]
      BY <1>2, <2>1, <2>4
    <3>2. ASSUME NEW l \in 1..Len(leases), NEW m \in 1..Len(leases), l < m, g[m] > 0
          PROVE  g[l] = leases[l]
      <4>1. CASE m > lease
        BY <1>1, <2>3, <2>4, <3>2, <4>1
      <4>2. CASE m <= lease
        BY <1>1, <1>6, <2>4, <3>2, <4>2
      <4> QED
        BY <1>1, <4>1, <4>2
    <3> QED
      BY <3>1, <3>2 DEF Greedy
  <2>6. \A l \in 1..Len(leases) : /\ l >= lease + 1 => g[l] = 0
                                  /\ l < lease + 1 /\ remaining - a > 0 => g[l] = leases[l]
    BY <1>1, <1>2, <1>6, <2>1, <2>3, <2>4
  <2> QED
    BY <1>1, <2>5, <2>6 DEF PlannedInOrder, g
<1>9. OneDebitPerRow' /\ RowsHold'
  <2>1. plan \in Seq([row : 1..Len(leases), amount : Nat])
    BY DEF PlanInv, PlanTypes
  <2>2. Len(plan') = Len(plan) + 1 /\ plan'[Len(plan) + 1] = d /\ \A i \in 1..Len(plan) : plan'[i] = plan[i]
    BY <1>1, <1>3, <2>1
  <2>3. \A i \in 1..Len(plan) : plan[i].row < lease /\ plan[i].amount <= leases[plan[i].row]
    BY <1>1 DEF PlanInv, OneDebitPerRow, RowsHold
  <2>4. /\ \A i \in 1..Len(plan') : i \in 1..Len(plan) \/ i = Len(plan) + 1
        /\ \A i \in 1..Len(plan) : plan[i].row \in Int
    <3>1. Len(plan) \in Nat
      BY <2>1
    <3> QED
      BY <2>2, <3>1, DebitType DEF PlanInv
  <2>5. OneDebitPerRow'
    <3>1. d.row = lease /\ lease' = lease + 1 /\ lease \in Int
      BY <1>1
    <3>2. \A i \in 1..Len(plan') : plan'[i].row < lease'
      BY <2>2, <2>3, <2>4, <3>1
    <3>3. ASSUME NEW i \in 1..Len(plan'), NEW j \in 1..Len(plan'), i # j
          PROVE  plan'[i].row # plan'[j].row
      <4>1. CASE i \in 1..Len(plan) /\ j \in 1..Len(plan)
        BY <2>2, <3>3, <4>1 DEF PlanInv, OneDebitPerRow
      <4>2. CASE i = Len(plan) + 1 \/ j = Len(plan) + 1
        BY <2>2, <2>3, <2>4, <3>1, <3>3, <4>2
      <4> QED
        BY <2>4, <4>1, <4>2
    <3> QED
      BY <3>2, <3>3 DEF OneDebitPerRow
  <2>6. RowsHold'
    BY <1>1, <1>2, <2>2, <2>3, <2>4 DEF RowsHold
  <2> QED
    BY <2>5, <2>6
<1>10. PlanStages'
  BY <1>1 DEF PlanStages
<1> QED
  BY <1>4, <1>7, <1>8, <1>9, <1>10 DEF PlanInv

LEMMA ReturnPlan ==
  ASSUME PlanInv, Return \/ Commit
  PROVE  PlanInv'
<1>1. /\ UNCHANGED <<leases, credits, lease, remaining, plan, applied>>
      /\ pc = "loop" \/ pc = "apply"
      /\ pc' \in {"apply", "refused", "done"}
  BY DEF Return, Commit
<1>2. PlanTypes'
  BY <1>1 DEF PlanInv, PlanTypes
<1>3. Taken' = Taken
  BY <1>1, <1>2, TakenStays DEF PlanInv
<1>4. OneDebitPerRow' /\ SumsUp'
  BY <1>1, <1>3 DEF PlanInv, OneDebitPerRow, SumsUp
<1>5. PlanStages'
  BY DEF Return, Commit, AtEnd, Covered, PlanInv, PlanTypes, PlanStages
<1>6. PlannedInOrder'
  BY <1>1, <1>3 DEF PlanInv, PlannedInOrder
<1>7. RowsHold'
  BY <1>1 DEF PlanInv, RowsHold
<1> QED
  BY <1>2, <1>4, <1>5, <1>6, <1>7 DEF PlanInv

\* The guard of the UPDATE holds: no debit before was of the same row.
LEMMA DebitPlan ==
  ASSUME PlanInv, Debit
  PROVE  PlanInv'
<1> DEFINE k == applied + 1
<1>1. /\ pc = "apply" /\ applied \in Nat /\ k \in 1..Len(plan) /\ k \in applied + 1 .. Len(plan)
      /\ UNCHANGED <<credits, lease, remaining, plan>>
  BY DEF Debit, PlanInv, PlanTypes
<1>2. plan[k].row \in 1..Len(leases) /\ plan[k].amount \in Nat /\ plan[k].amount <= leases[plan[k].row]
  BY <1>1, DebitType DEF PlanInv, RowsHold
<1>3. /\ leases' = [leases EXCEPT ![plan[k].row] = leases[plan[k].row] - plan[k].amount]
      /\ applied' = k /\ pc' = "apply"
  BY <1>1, <1>2 DEF Debit
<1>4. /\ leases' \in Seq(Nat) /\ Len(leases') = Len(leases)
      /\ \A l \in 1..Len(leases) : l # plan[k].row => leases'[l] = leases[l]
  <2>1. leases[plan[k].row] - plan[k].amount \in Nat
    BY <1>2, PlanRows DEF PlanInv
  <2> DEFINE v == leases[plan[k].row] - plan[k].amount
             row == plan[k].row
  <2>2. leases' = [leases EXCEPT ![row] = v] /\ v \in Nat /\ row \in 1..Len(leases) /\ leases \in Seq(Nat)
    BY <1>2, <1>3, <2>1 DEF PlanInv, PlanTypes
  <2> HIDE DEF v, row
  <2>3. /\ leases' \in Seq(Nat) /\ Len(leases') = Len(leases)
        /\ \A l \in 1..Len(leases) : l # row => leases'[l] = leases[l]
    BY <2>2
  <2> QED
    BY <2>3 DEF row
<1>5. PlanTypes'
  <2>1. plan' \in Seq([row : 1..Len(leases'), amount : Nat])
    BY <1>1, <1>4 DEF PlanInv, PlanTypes
  <2>2. applied' \in 0..Len(plan')
    BY <1>1, <1>3
  <2>3. lease' \in 1..Len(leases') + 1 /\ remaining' \in 0..credits' /\ credits' \in Nat
    BY <1>1, <1>4 DEF PlanInv, PlanTypes
  <2> QED
    BY <1>3, <1>4, <2>1, <2>2, <2>3 DEF PlanTypes
<1>6. Taken' = Taken
  BY <1>1, <1>4, <1>5, TakenStays DEF PlanInv
<1>7. OneDebitPerRow' /\ SumsUp'
  BY <1>1, <1>4, <1>6 DEF PlanInv, OneDebitPerRow, SumsUp
<1>8. PlannedInOrder' /\ PlanStages'
  BY <1>1, <1>3 DEF PlanInv, PlannedInOrder, PlanStages
<1>9. RowsHold'
  <2> SUFFICES ASSUME NEW i \in applied' + 1 .. Len(plan') PROVE plan'[i].amount <= leases'[plan'[i].row]
    BY DEF RowsHold
  <2>1. i \in 1..Len(plan) /\ i # k /\ i \in applied + 1 .. Len(plan)
    BY <1>1, <1>3
  <2>2. plan[i].row # plan[k].row /\ plan[i].row \in 1..Len(leases) /\ plan[i].amount <= leases[plan[i].row]
    BY <1>1, <2>1, DebitType DEF PlanInv, OneDebitPerRow, RowsHold
  <2> QED
    BY <1>1, <1>4, <2>2
<1> QED
  BY <1>5, <1>7, <1>8, <1>9 DEF PlanInv

LEMMA StepPlan == PlanInv /\ [Next]_vars => PlanInv'
<1>1. ASSUME PlanInv, UNCHANGED vars PROVE PlanInv'
  <2>1. PlanTypes'
    BY <1>1 DEF vars, PlanInv, PlanTypes
  <2>2. Taken' = Taken
    BY <1>1, <2>1, TakenStays DEF vars, PlanInv
  <2> QED
    BY <1>1, <2>1, <2>2
       DEF vars, PlanInv, OneDebitPerRow, SumsUp, PlannedInOrder, RowsHold, PlanStages
<1> QED
  BY <1>1, SkipPlan, TakePlan, ReturnPlan, DebitPlan DEF Next

\* What the invariant says of the reference.
LEMMA PlanMeansReference == PlanInv => PlanIsTheReference
<1> SUFFICES ASSUME PlanInv PROVE PlanIsTheReference
  OBVIOUS
<1> DEFINE leaseRows == 1..Len(leases)
<1>1. DOMAIN leases = leaseRows /\ IsFiniteSet(leaseRows) /\ \A l \in leaseRows : l \in Int /\ leases[l] \in Nat /\ Taken[l] \in Nat
  BY PlanRows, TakenType DEF PlanInv
<1>2. Total(Taken, leaseRows) + remaining = credits /\ credits \in Nat /\ remaining \in Nat
  BY DEF PlanInv, SumsUp, PlanTypes
<1>3. DOMAIN Taken = leaseRows /\ Taken = [l \in leaseRows |-> Taken[l]]
  BY <1>1 DEF Taken
<1>4. ASSUME NEW d \in DebitPlans PROVE Greedy(d, leases, leaseRows) /\ Total(d, leaseRows) = credits /\ d \in [leaseRows -> Nat]
  <2>1. /\ d \in [leaseRows -> 0..credits] /\ Total(d, leaseRows) = credits
        /\ \A l \in leaseRows : d[l] <= leases[l]
        /\ \A l, m \in leaseRows : l < m /\ d[m] > 0 => d[l] = leases[l]
    BY <1>1, <1>4 DEF DebitPlans
  <2>2. \A l \in leaseRows : d[l] \in Nat
    BY <1>2, <2>1
  <2> QED
    BY <1>1, <2>1, <2>2 DEF Greedy
<1>5. ASSUME applied = 0, pc = "apply" PROVE DebitPlans = {Taken}
  <2>1. remaining = 0 /\ Total(Taken, leaseRows) = credits /\ Greedy(Taken, leases, leaseRows)
    BY <1>2, <1>5, TotalType, <1>1 DEF PlanInv, PlanStages, PlannedInOrder
  <2>2. \A l \in leaseRows : Taken[l] \in 0..credits
    BY <1>1, <1>2, <2>1, TotalBound
  <2>3. Taken \in DebitPlans
    BY <1>1, <1>3, <2>1, <2>2 DEF DebitPlans, Greedy
  <2>4. ASSUME NEW d \in DebitPlans PROVE d = Taken
    <3>1. Greedy(d, leases, leaseRows) /\ Total(d, leaseRows) = Total(Taken, leaseRows) /\ d \in [leaseRows -> Nat]
      BY <1>4, <2>1
    <3> HIDE DEF leaseRows
    <3>2. \A l \in leaseRows : d[l] = Taken[l]
      BY <1>1, <2>1, <3>1, GreedyIsUnique
    <3> QED
      BY <1>3, <3>1, <3>2
  <2> QED
    BY <2>3, <2>4
<1>6. ASSUME pc = "refused" PROVE DebitPlans = {}
  <2> SUFFICES ASSUME NEW d \in DebitPlans PROVE FALSE
    OBVIOUS
  <2>1. remaining > 0 /\ \A l \in leaseRows : Taken[l] = leases[l]
    BY <1>1, <1>6 DEF PlanInv, PlanStages, PlannedInOrder, PlanTypes
  <2>2. Total(d, leaseRows) = credits /\ \A l \in leaseRows : d[l] \in Nat /\ d[l] <= Taken[l]
    BY <1>1, <1>4, <2>1 DEF Greedy
  <2> HIDE DEF leaseRows
  <2>3. Total(d, leaseRows) <= Total(Taken, leaseRows)
    BY <1>1, <2>2, TotalAtMost
  <2>4. Total(Taken, leaseRows) \in Nat
    BY <1>1, TotalType
  <2> QED
    BY <1>2, <2>1, <2>2, <2>3, <2>4
<1>7. ASSUME pc = "done" PROVE Total(Taken, DOMAIN leases) = credits
  <2>1. Total(Taken, leaseRows) \in Nat
    BY <1>1, TotalType
  <2> QED
    BY <1>1, <1>2, <1>7, <2>1 DEF PlanInv, PlanStages
<1>8. \A i \in applied + 1 .. Len(plan) : pc = "apply" => leases[plan[i].row] >= plan[i].amount
  <2> SUFFICES ASSUME NEW i \in applied + 1 .. Len(plan), pc = "apply" PROVE leases[plan[i].row] >= plan[i].amount
    OBVIOUS
  <2>1. i \in 1..Len(plan)
    BY DEF PlanInv, PlanTypes
  <2>2. plan[i].amount <= leases[plan[i].row]
    BY DEF PlanInv, RowsHold
  <2>3. leases[plan[i].row] \in Nat /\ plan[i].amount \in Nat
    BY <1>1, <2>1, DebitType DEF PlanInv
  <2> QED
    BY <2>2, <2>3
<1> QED
  BY <1>5, <1>6, <1>7, <1>8 DEF PlanIsTheReference

\* The loop of quotaLeaseDebitPlan computes the one plan that empties the leases in the
\* order they expire, or finds that there is none, and its UPDATEs all find their rows,
\* for any rows and any charge.
THEOREM PlanCorrect == Spec => []PlanIsTheReference
BY InitPlan, StepPlan, PlanMeansReference, PTL DEF Spec

-----------------------------------------------------------------------------
(***************************************************************************)
(* The types of each flow, and of the flow that runs.                      *)
(***************************************************************************)

\* A dialog, an interval and an answer name an order that was created.
PolledIsCreated ==
  /\ poll # NoOrder => status[poll] # "none"
  /\ CheckoutTypeOK

\* Checkout keeps its types: what is polled was created before.
LEMMA CheckoutTypesKept ==
  ASSUME MaxOrders \in Nat, MaxHandlers \in Nat
  PROVE  PolledIsCreated /\ [CheckoutNext]_checkoutVars => PolledIsCreated'
<1> SUFFICES ASSUME PolledIsCreated, [CheckoutNext]_checkoutVars PROVE PolledIsCreated'
  OBVIOUS
<1> USE DEF PolledIsCreated, CheckoutTypeOK, server, tab
<1>0. NoOrder \notin Orders
  BY DEF NoOrder, Orders
<1>1. CASE handlePay \/ OrderRefused
  BY <1>1 DEF handlePay, OrderRefused
<1>2. CASE PollOrder
  <2>1. poll \in Orders /\ status[poll] \in {"pending", "paid"}
    BY <1>2 DEF PollOrder
  <2> QED
    BY <1>2, <2>1 DEF PollOrder
<1>3. CASE CloseFrame \/ PollingLapses
  BY <1>3 DEF CloseFrame, PollingLapses, Success
<1>4. ASSUME NEW o \in Orders, OrderCreated(o) PROVE PolledIsCreated'
  <2>1. /\ status' = [status EXCEPT ![o] = "pending"] /\ status' \in [Orders -> {"none", "pending", "paid"}]
        /\ isPaying' = FALSE /\ UNCHANGED <<paidFor, credited, handling, answers, lapsed, late>>
    BY <1>4 DEF OrderCreated
  <2>2. {frame', poll'} \subseteq Orders \cup {NoOrder}
    BY <1>4 DEF OrderCreated
  <2>3. poll' # NoOrder => status'[poll'] # "none"
    <3>1. poll' = o \/ poll' = poll
      BY <1>4 DEF OrderCreated
    <3> QED
      BY <1>0, <2>1, <3>1
  <2> QED
    BY <2>1, <2>2, <2>3
<1>5. ASSUME NEW o \in Orders, ProviderPaid(o) PROVE PolledIsCreated'
  BY <1>5 DEF ProviderPaid
<1>6. ASSUME NEW o \in Orders, Notify(o) PROVE PolledIsCreated'
  BY <1>6 DEF Notify
<1>7. ASSUME NEW o \in Orders, Settle(o) PROVE PolledIsCreated'
  BY <1>7 DEF Settle
<1>8. ASSUME NEW o \in Orders, SettleFails(o) PROVE PolledIsCreated'
  BY <1>8 DEF SettleFails
<1>9. ASSUME NEW a \in answers, PollAnswered(a) PROVE PolledIsCreated'
  <2>1. UNCHANGED <<status, paidFor, credited, handling, isPaying, lapsed>> /\ answers' \subseteq answers
    BY <1>9 DEF PollAnswered
  <2>2. (poll' = NoOrder /\ frame' = NoOrder) \/ UNCHANGED <<poll, frame>>
    BY <1>9 DEF PollAnswered, Success
  <2>3. late' \in BOOLEAN
    BY <1>9 DEF PollAnswered
  <2> QED
    BY <2>1, <2>2, <2>3
<1>10. ASSUME NEW a \in answers, PollLost(a) PROVE PolledIsCreated'
  BY <1>10 DEF PollLost
<1>11. CASE UNCHANGED checkoutVars
  BY <1>11 DEF checkoutVars
<1> QED
  BY <1>1, <1>2, <1>3, <1>4, <1>5, <1>6, <1>7, <1>8, <1>9, <1>10, <1>11 DEF CheckoutNext

\* CreditGift: a gift is taken only from a balance that has it.
LEMMA GiftBalanceKept ==
  ASSUME Credits \in Nat
  PROVE  balance \in 0 .. Credits /\ [GiftNext]_giftVars => balance' \in 0 .. Credits
<1> SUFFICES ASSUME balance \in 0 .. Credits, [GiftNext]_giftVars PROVE balance' \in 0 .. Credits
  OBVIOUS
<1>1. ASSUME NEW p \in posts, ServeTransfer(p) PROVE balance' \in 0 .. Credits
  BY <1>1 DEF ServeTransfer
<1>2. ASSUME UNCHANGED balance PROVE balance' \in 0 .. Credits
  BY <1>2
<1> QED
  BY <1>1, <1>2 DEF GiftNext, Fill, Submit, Accepted, Failed, PostLost, giftVars

\* Generation: what GenerationInv leaves out.
PageTypes ==
  /\ page \in {"video", "music"} /\ keyOk \in BOOLEAN /\ running \in BOOLEAN
  /\ taskStatus \in {"idle", "polling", "done", "failed"}

\* A poll that counts ends the task as the server says.
LEMMA PageTypesKept ==
  GenerationInv /\ PageTypes /\ [GenerationNext]_generationVars => PageTypes'
<1> SUFFICES ASSUME GenerationInv, PageTypes, [GenerationNext]_generationVars PROVE PageTypes'
  OBVIOUS
<1>1. ASSUME NEW q \in polls, PollLands(q) PROVE PageTypes'
  <2>1. q.answer \in {"running", "done", "failed"}
    BY DEF GenerationInv, GenerationTypes
  <2> QED
    BY <1>1, <2>1 DEF PollLands, PageTypes
<1>2. CASE Generate \/ PostGivesResult \/ PostGivesTask \/ PostGivesNothing
  BY <1>2 DEF Generate, PostGivesResult, PostGivesTask, PostGivesNothing, PageTypes
<1>3. CASE SelectKey \/ PollTick \/ (\E g \in Generations : UpstreamFinishes(g)) \/ (\E q \in polls : PollFails(q))
  BY <1>3 DEF SelectKey, PollTick, UpstreamFinishes, PollFails, PageTypes
<1>4. CASE UNCHANGED generationVars
  BY <1>4 DEF generationVars, PageTypes
<1> QED
  BY <1>1, <1>2, <1>3, <1>4 DEF GenerationNext

\* TaskWatch keeps its types.
LEMMA WatchTypesKept == WatchTypeOK /\ [WatchNext]_watchVars => WatchTypeOK'
<1> SUFFICES ASSUME WatchTypeOK, [WatchNext]_watchVars PROVE WatchTypeOK'
  OBVIOUS
<1> USE DEF WatchTypeOK
<1>0. ASSUME stopAutoRefresh PROVE timers' \in [Timers -> Tasks \cup {0}] /\ handle' \in Timers \cup {NoTimer}
  BY <1>0 DEF stopAutoRefresh
<1>1. ASSUME NEW t \in Tasks, TaskEndsAtServer(t) \/ ServeDetail(t) \/ DetailFails(t) PROVE WatchTypeOK'
  BY <1>1 DEF TaskEndsAtServer, ServeDetail, DetailFails
<1>2. ASSUME NEW t \in Tasks, OpenDetail(t) PROVE WatchTypeOK'
  BY <1>0, <1>2 DEF OpenDetail
<1>3. ASSUME NEW t \in Tasks, DetailLands(t) PROVE WatchTypeOK'
  <2>1. detail' \in [id : Tasks \cup {0}, over : BOOLEAN]
    BY <1>3 DEF DetailLands
  <2>2. timers' \in [Timers -> Tasks \cup {0}] /\ handle' \in Timers \cup {NoTimer}
    BY <1>3 DEF DetailLands
  <2>3. opening' \in [Tasks -> {"no", "asked", "running", "over"}] /\ UNCHANGED <<ended, ticks, onPage>>
    BY <1>3 DEF DetailLands
  <2>4. crossed' \in BOOLEAN
    BY <1>3 DEF DetailLands
  <2> QED
    BY <2>1, <2>2, <2>3, <2>4
<1>4. ASSUME NEW h \in Timers, Tick(h) PROVE WatchTypeOK'
  <2>1. timers[h] \in Tasks
    BY <1>4 DEF Tick
  <2> DEFINE q == [id |-> timers[h], over |-> timers[h] \in ended]
  <2>2. q \in [id : Tasks, over : BOOLEAN]
    BY <2>1
  <2>3. ticks' = ticks \cup {q} /\ UNCHANGED <<ended, detail, opening, timers, handle, onPage, crossed>>
    BY <1>4 DEF Tick
  <2> QED
    BY <2>2, <2>3
<1>5. ASSUME NEW q \in ticks, TickLands(q) PROVE WatchTypeOK'
  <2>1. q \in [id : Tasks, over : BOOLEAN]
    OBVIOUS
  <2>2. timers' \in [Timers -> Tasks \cup {0}] /\ handle' \in Timers \cup {NoTimer}
    BY <1>0, <1>5 DEF TickLands
  <2>3. detail' \in [id : Tasks \cup {0}, over : BOOLEAN]
    BY <1>5, <2>1 DEF TickLands
  <2>4. ticks' \subseteq [id : Tasks, over : BOOLEAN] /\ UNCHANGED <<ended, opening, onPage>>
    BY <1>5 DEF TickLands
  <2>5. crossed' \in BOOLEAN
    BY <1>5 DEF TickLands
  <2> QED
    BY <2>2, <2>3, <2>4, <2>5
<1>6. ASSUME NEW q \in ticks, TickFails(q) PROVE WatchTypeOK'
  BY <1>6 DEF TickFails
<1>7. CASE CloseDetail \/ LeavePage
  <2>1. NoTask \in [id : Tasks \cup {0}, over : BOOLEAN]
    BY DEF NoTask
  <2> QED
    BY <1>0, <1>7, <2>1 DEF CloseDetail, LeavePage
<1>8. CASE UNCHANGED watchVars
  BY <1>8 DEF watchVars
<1> QED
  BY <1>1, <1>2, <1>3, <1>4, <1>5, <1>6, <1>7, <1>8 DEF WatchNext

\* Session keeps its types.
LEMMA SessionTypesKept ==
  ASSUME MaxSessions \in Nat
  PROVE  SessionTypeOK /\ [SessionNext]_sessionVars => SessionTypeOK'
<1> SUFFICES ASSUME SessionTypeOK, [SessionNext]_sessionVars PROVE SessionTypeOK'
  OBVIOUS
<1> DEFINE Calls == [token : Sessions \cup {NoToken}, answer : {"none", "ok", "401"},
                     at : {"idle", "sent", "answered"}, mine : BOOLEAN]
<1> USE DEF SessionTypeOK
<1>0. NoCall \in Calls
  BY DEF NoCall
<1>1. ASSUME NEW t \in Tabs, NEW p \in LoginPages \cup UserPages, Enter(t, p)
      PROVE  location' \in [Tabs -> LoginPages \cup UserPages] /\ profile' \in [Tabs -> {"none", "loaded", "failed"}]
  BY <1>1 DEF Enter
<1>2. ASSUME NEW t \in Tabs, Leaving(t) PROVE call' \in [Tabs -> Calls]
  BY <1>2 DEF Leaving
<1>3. ASSUME NEW t \in Tabs, Cleared(t) PROVE call' \in [Tabs -> Calls]
  BY <1>0, <1>3 DEF Cleared
<1>4. {"login", "console", "public"} = LoginPages \cup UserPages
  BY DEF LoginPages, UserPages
<1>5. ASSUME NEW t \in Tabs, Login(t) PROVE SessionTypeOK'
  <2>1. logins' \in Sessions /\ token' = logins' /\ valid' = valid \cup {logins'}
    BY <1>5 DEF Login, Sessions
  <2> QED
    BY <1>1, <1>2, <1>4, <1>5, <2>1 DEF Login
<1>6. ASSUME NEW t \in Tabs, NEW p \in {"login", "console", "public"}, Visit(t, p) PROVE SessionTypeOK'
  <2>1. Landing(p) \in LoginPages \cup UserPages
    BY <1>4 DEF Landing
  <2> QED
    BY <1>1, <1>2, <1>6, <2>1 DEF Visit
<1>7. ASSUME NEW t \in Tabs, Request(t) PROVE SessionTypeOK'
  <2> DEFINE new == [token |-> token, answer |-> "none", at |-> "sent", mine |-> TRUE]
  <2>1. new \in Calls
    OBVIOUS
  <2>2. call' = [call EXCEPT ![t] = new] /\ UNCHANGED <<token, valid, logins, location, profile>>
    BY <1>7 DEF Request
  <2> HIDE DEF new
  <2>3. call' \in [Tabs -> Calls]
    BY <2>1, <2>2
  <2> QED
    BY <2>2, <2>3
<1>8. ASSUME NEW t \in Tabs, Serve(t) PROVE SessionTypeOK'
  <2> DEFINE new == [call[t] EXCEPT !.at = "answered", !.answer = IF call[t].token \in valid THEN "ok" ELSE "401"]
  <2>1. new \in Calls
    <3>1. call[t] \in Calls
      OBVIOUS
    <3> HIDE DEF SessionTypeOK
    <3> QED
      BY <3>1
  <2>2. call' = [call EXCEPT ![t] = new] /\ UNCHANGED <<token, valid, logins, location, profile>>
    BY <1>8 DEF Serve
  <2> HIDE DEF new
  <2>3. call' \in [Tabs -> Calls]
    BY <2>1, <2>2
  <2> QED
    BY <2>2, <2>3
<1>9. ASSUME NEW t \in Tabs, Answered(t) PROVE SessionTypeOK'
  BY <1>3, <1>9 DEF Answered
<1>10. ASSUME NEW t \in Tabs, Unauthorized(t) PROVE SessionTypeOK'
  BY <1>1, <1>3, <1>4, <1>10 DEF Unauthorized
<1>11. ASSUME NEW t \in Tabs, CallFails(t) PROVE SessionTypeOK'
  BY <1>3, <1>11 DEF CallFails
<1>12. ASSUME NEW t \in Tabs, Logout(t) PROVE SessionTypeOK'
  BY <1>1, <1>2, <1>4, <1>12 DEF Logout
<1>13. ASSUME NEW s \in Sessions, Expire(s) PROVE SessionTypeOK'
  BY <1>13 DEF Expire
<1>14. CASE UNCHANGED sessionVars
  BY <1>14 DEF sessionVars
<1> QED
  BY <1>5, <1>6, <1>7, <1>8, <1>9, <1>10, <1>11, <1>12, <1>13, <1>14 DEF SessionNext

\* Withdrawals: no more is frozen, converted or asked for than was earned.
WithdrawBounds ==
  /\ earned <= MaxFrozen
  /\ \A i \in Requests : requests[i].amount <= MaxFrozen
  /\ \A s \in {1, 2} : submitting[s] <= MaxFrozen

\* What WithdrawInv says of the sum bounds its parts.
LEMMA WithdrawTyped ==
  ASSUME Bounds
  PROVE  WithdrawInv /\ WithdrawBounds => WithdrawTypeOK
<1> SUFFICES ASSUME WithdrawInv, WithdrawBounds PROVE WithdrawTypeOK
  OBVIOUS
<1>1. Total(PaidOut, Requests) \in Nat
  BY PaidType, TotalType DEF WithdrawInv
<1>2. frozen \in 0 .. MaxFrozen /\ earned \in 0 .. MaxFrozen /\ converted \in 0 .. MaxFrozen
  BY <1>1 DEF WithdrawInv, WithdrawTypes, FrozenPaysOnce, WithdrawBounds, Bounds
<1>3. requests \in [Requests -> [status : Statuses, stage : Stages, amount : 0 .. MaxFrozen]]
  <2>1. \A i \in Requests : requests[i] \in [status : Statuses, stage : Stages, amount : 0 .. MaxFrozen]
    BY DEF WithdrawInv, WithdrawTypes, WithdrawBounds, Bounds
  <2> QED
    BY <2>1 DEF WithdrawInv, WithdrawTypes
<1>4. submitting \in [{1, 2} -> 0 .. MaxFrozen]
  <2>1. \A s \in {1, 2} : submitting[s] \in 0 .. MaxFrozen
    BY DEF WithdrawInv, WithdrawTypes, WithdrawBounds, Bounds
  <2> QED
    BY <2>1 DEF WithdrawInv, WithdrawTypes
<1> QED
  BY <1>2, <1>3, <1>4 DEF WithdrawTypeOK, WithdrawInv, WithdrawTypes

\* What is asked for is copied from a checked amount.
LEMMA WithdrawBoundsKept ==
  ASSUME Bounds
  PROVE  WithdrawInv /\ WithdrawBounds /\ [WithdrawNext]_withdrawVars => WithdrawBounds'
<1> SUFFICES ASSUME WithdrawInv, WithdrawBounds, [WithdrawNext]_withdrawVars PROVE WithdrawBounds'
  OBVIOUS
<1> USE DEF WithdrawInv, WithdrawTypes, WithdrawBounds, Bounds
<1>1. CASE Earn
  BY <1>1 DEF Earn
<1>2. ASSUME NEW amount \in Amounts, Convert(amount) PROVE WithdrawBounds'
  BY <1>2 DEF Convert
<1>3. ASSUME NEW amount \in Amounts, NEW s \in {1, 2}, SubmitChecks(s, amount) PROVE WithdrawBounds'
  <2>1. amount <= MaxFrozen
    BY DEF Amounts
  <2>2. submitting' = [submitting EXCEPT ![s] = amount] /\ UNCHANGED <<requests, earned>>
    BY <1>3 DEF SubmitChecks
  <2> QED
    BY <2>1, <2>2
<1>4. ASSUME NEW s \in {1, 2}, NEW i \in Requests, SubmitInserts(s, i) PROVE WithdrawBounds'
  <2>1. /\ submitting' = [submitting EXCEPT ![s] = 0] /\ earned' = earned
        /\ requests' = [requests EXCEPT ![i] = [status |-> "pending", stage |-> "cs_review", amount |-> submitting[s]]]
    BY <1>4 DEF SubmitInserts
  <2> QED
    BY <2>1
<1>5. ASSUME NEW r \in Reviewers, CsApprove(r) \/ Approve(r) \/ Reject(r) PROVE WithdrawBounds'
  <2>1. UNCHANGED <<earned, submitting>>
    BY <1>5 DEF CsApprove, Approve, Reject
  <2>2. \A i \in Requests : requests'[i].amount = requests[i].amount
    BY <1>5 DEF CsApprove, Approve, Reject
  <2> QED
    BY <2>1, <2>2
<1>6. ASSUME NEW r \in Reviewers, NEW act \in {"cs", "approve", "reject"}, NEW i \in Requests, Review(r, act, i)
      PROVE  WithdrawBounds'
  BY <1>6 DEF Review
<1>7. CASE UNCHANGED withdrawVars
  BY <1>7 DEF withdrawVars
<1> QED
  BY <1>1, <1>2, <1>3, <1>4, <1>5, <1>6, <1>7 DEF WithdrawNext

(***************************************************************************)
(* MCFlows                                                                 *)
(***************************************************************************)

Flows == {"plan", "post", "watch", "generation", "checkout", "gift", "withdraw", "session"}

FlowBounds ==
  /\ MaxGenerations \in Nat /\ MaxOrders \in Nat /\ MaxHandlers \in Nat
  /\ MaxSubmits \in Nat /\ Credits \in Nat /\ MaxSessions \in Nat /\ Bounds

\* The invariant of the flow that runs.
FlowInv ==
  /\ part \in Flows
  /\ part = "plan" => PlanInv
  /\ part = "post" => PostInv
  /\ part = "watch" => WatchTypeOK
  /\ part = "generation" => GenerationInv /\ PageTypes
  /\ part = "checkout" => PolledIsCreated
  /\ part = "gift" => GiftInv /\ balance \in 0 .. Credits
  /\ part = "withdraw" => WithdrawInv /\ WithdrawBounds
  /\ part = "session" => SessionTypeOK

\* Each flow starts as its own specification says.
LEMMA FlowStart == ASSUME FlowBounds PROVE FlowInit => FlowInv
<1> SUFFICES ASSUME FlowInit PROVE FlowInv
  OBVIOUS
<1>1. part \in Flows
  BY DEF FlowInit, Flows
<1>2. CASE part = "plan"
  BY <1>1, <1>2, InitPlan DEF FlowInit, FlowInv
<1>3. CASE part = "post"
  BY <1>1, <1>3, PostStart DEF FlowInit, FlowInv
<1>4. CASE part = "watch"
  <2>1. WatchTypeOK
    BY DEF FlowInit, WatchInit, WatchTypeOK, NoTask, NoTimer
  <2> QED
    BY <1>1, <1>4, <2>1 DEF FlowInv
<1>5. CASE part = "generation"
  <2>1. GenerationInit
    BY <1>5 DEF FlowInit
  <2>2. GenerationInv /\ PageTypes
    BY <2>1, GenerationStart DEF FlowBounds, GenerationInit, PageTypes
  <2> QED
    BY <1>1, <1>5, <2>2 DEF FlowInv
<1>6. CASE part = "checkout"
  <2>1. CheckoutInit /\ MaxHandlers \in Nat
    BY DEF FlowBounds, FlowInit
  <2>2. handling \in [Orders -> 0 .. MaxHandlers]
    BY <2>1 DEF CheckoutInit
  <2>3. /\ status \in [Orders -> {"none", "pending", "paid"}] /\ paidFor \subseteq Orders
        /\ credited \in [Orders -> Nat] /\ answers \subseteq [order : Orders, status : {"pending", "paid"}]
        /\ isPaying \in BOOLEAN /\ lapsed \in BOOLEAN /\ late \in BOOLEAN /\ frame = NoOrder /\ poll = NoOrder
    BY <2>1 DEF CheckoutInit
  <2>4. PolledIsCreated
    BY <2>2, <2>3 DEF PolledIsCreated, CheckoutTypeOK
  <2> QED
    BY <1>1, <1>6, <2>4 DEF FlowInv
<1>7. CASE part = "gift"
  <2>1. GiftInv /\ balance \in 0 .. Credits
    BY GiftStart DEF FlowBounds, FlowInit, GiftInit
  <2> QED
    BY <1>1, <1>7, <2>1 DEF FlowInv
<1>8. CASE part = "withdraw"
  <2>1. WithdrawInv
    BY WithdrawStart DEF FlowInit
  <2>2. earned = 0 /\ (\A i \in Requests : requests[i].amount = 0) /\ \A s \in {1, 2} : submitting[s] = 0
    BY DEF FlowInit, WithdrawInit, NoRequestYet
  <2>3. WithdrawBounds
    BY <2>2 DEF FlowBounds, Bounds, WithdrawBounds
  <2> QED
    BY <1>1, <1>8, <2>1, <2>3 DEF FlowInv
<1>9. CASE part = "session"
  <2>1. SessionTypeOK
    BY DEF FlowBounds, FlowInit, SessionInit, SessionTypeOK, NoCall, NoToken, LoginPages, UserPages
  <2> QED
    BY <1>1, <1>9, <2>1 DEF FlowInv
<1> QED
  BY <1>1, <1>2, <1>3, <1>4, <1>5, <1>6, <1>7, <1>8, <1>9 DEF Flows

\* The flow that runs keeps its invariant; no other becomes the one that runs.
LEMMA FlowKept == ASSUME FlowBounds PROVE FlowInv /\ [FlowNext]_flowVars => FlowInv'
<1> SUFFICES ASSUME FlowInv, [FlowNext]_flowVars PROVE FlowInv'
  OBVIOUS
<1>1. CASE PlanStep
  <2>1. part = "plan" /\ part' = "plan" /\ PlanInv'
    BY <1>1, StepPlan DEF PlanStep, FlowInv
  <2> QED
    BY <2>1 DEF FlowInv, Flows
<1>2. CASE PostStep
  <2>1. part = "post" /\ part' = "post" /\ PostInv'
    BY <1>2, PostKept DEF PostStep, FlowInv
  <2> QED
    BY <2>1 DEF FlowInv, Flows
<1>3. CASE WatchStep
  <2>1. part = "watch" /\ part' = "watch" /\ WatchTypeOK'
    BY <1>3, WatchTypesKept DEF WatchStep, FlowInv
  <2> QED
    BY <2>1 DEF FlowInv, Flows
<1>4. CASE GenerationStep
  <2>1. part = "generation" /\ part' = "generation" /\ (GenerationInv /\ PageTypes)'
    BY <1>4, GenerationKept, PageTypesKept DEF GenerationStep, FlowInv, FlowBounds
  <2> QED
    BY <2>1 DEF FlowInv, Flows
<1>5. CASE CheckoutStep
  <2>1. part = "checkout" /\ part' = "checkout" /\ PolledIsCreated'
    BY <1>5, CheckoutTypesKept DEF CheckoutStep, FlowInv, FlowBounds
  <2> QED
    BY <2>1 DEF FlowInv, Flows
<1>6. CASE GiftStep
  <2>1. part = "gift" /\ part' = "gift" /\ GiftInv' /\ balance' \in 0 .. Credits
    BY <1>6, GiftKept, GiftBalanceKept DEF GiftStep, FlowInv, FlowBounds
  <2> QED
    BY <2>1 DEF FlowInv, Flows
<1>7. CASE WithdrawStep
  <2>1. part = "withdraw" /\ part' = "withdraw" /\ (WithdrawInv /\ WithdrawBounds)'
    BY <1>7, WithdrawKept, WithdrawBoundsKept DEF WithdrawStep, FlowInv, FlowBounds
  <2> QED
    BY <2>1 DEF FlowInv, Flows
<1>8. CASE SessionStep
  <2>1. part = "session" /\ part' = "session" /\ SessionTypeOK'
    BY <1>8, SessionTypesKept DEF SessionStep, FlowInv, FlowBounds
  <2> QED
    BY <2>1 DEF FlowInv, Flows
<1>9. CASE UNCHANGED flowVars
  <2>1. /\ UNCHANGED <<part, vars, postVars, watchVars, generationVars, checkoutVars, giftVars, withdrawVars, sessionVars>>
    BY <1>9 DEF flowVars, watchState, generationState, checkoutState, giftState, withdrawState, sessionState,
       watchVars, generationVars, checkoutVars, giftVars, withdrawVars, sessionVars
  <2>2. CASE part = "plan"
    BY <2>1, <2>2, StepPlan DEF FlowInv
  <2>3. CASE part = "post"
    BY <2>1, <2>3, PostKept DEF FlowInv
  <2>4. CASE part = "watch"
    BY <2>1, <2>4, WatchTypesKept DEF FlowInv
  <2>5. CASE part = "generation"
    BY <2>1, <2>5, GenerationKept, PageTypesKept DEF FlowInv, FlowBounds
  <2>6. CASE part = "checkout"
    BY <2>1, <2>6, CheckoutTypesKept DEF FlowInv, FlowBounds
  <2>7. CASE part = "gift"
    BY <2>1, <2>7, GiftKept, GiftBalanceKept DEF FlowInv, FlowBounds
  <2>8. CASE part = "withdraw"
    BY <2>1, <2>8, WithdrawKept, WithdrawBoundsKept DEF FlowInv, FlowBounds
  <2>9. CASE part = "session"
    BY <2>1, <2>9, SessionTypesKept DEF FlowInv, FlowBounds
  <2> QED
    BY <2>2, <2>3, <2>4, <2>5, <2>6, <2>7, <2>8, <2>9 DEF FlowInv, Flows
<1> QED
  BY <1>1, <1>2, <1>3, <1>4, <1>5, <1>6, <1>7, <1>8, <1>9 DEF FlowNext

\* Whichever flow runs, its variables keep their types: no withdrawal, conversion or
\* request exceeds what was earned, no gift what the sender has, and the status of an
\* order is polled only after the order was created.
THEOREM FlowTypeCorrect ==
  ASSUME FlowBounds
  PROVE  FlowSpec => []FlowTypeOK
<1>1. FlowInv => FlowTypeOK
  <2> SUFFICES ASSUME FlowInv PROVE FlowTypeOK
    OBVIOUS
  <2>1. part = "plan" => TypeOK
    BY DEF FlowInv, PlanInv, PlanTypes, TypeOK
  <2>2. part = "post" => PostTypeOK
    BY DEF FlowInv, PostInv
  <2>3. part = "generation" => GenerationTypeOK
    BY DEF FlowInv, GenerationInv, GenerationTypes, OneUnderWay, ResultIsOfLastGeneration, PageTypes, GenerationTypeOK
  <2>4. part = "checkout" => CheckoutTypeOK
    BY DEF FlowInv, PolledIsCreated
  <2>5. part = "gift" => GiftTypeOK
    BY DEF FlowInv, GiftInv, GiftTypes, GiftTypeOK
  <2>6. part = "withdraw" => WithdrawTypeOK
    BY WithdrawTyped DEF FlowInv, FlowBounds
  <2> QED
    BY <2>1, <2>2, <2>3, <2>4, <2>5, <2>6 DEF FlowInv, FlowTypeOK, Flows
<1> QED
  BY <1>1, FlowStart, FlowKept, PTL DEF FlowSpec
=============================================================================
