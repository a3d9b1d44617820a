------------------------------ MODULE Generation ------------------------------
(***************************************************************************)
(* generate() and the polling effect of UserVideoGenPage.tsx and            *)
(* UserMusicGenPage.tsx.  A generation is posted with the selected API key; *)
(* the answer carries the result, a task to poll, or neither.  The effect   *)
(* polls while taskStatus is 'polling' and there are a task id and a usable *)
(* key; its cleanup cancels what an earlier run of it still awaits.  The    *)
(* video page clears `running` when the post is answered, so a second       *)
(* generation can be posted while the first is polled; the music page keeps *)
(* it until the task ends.                                                  *)
(***************************************************************************)
EXTENDS Integers

CONSTANTS MaxGenerations   \* bound: posts of one page

None == 0
Generations == 1 .. MaxGenerations

VARIABLES
  page,        \* "video" or "music"
  keyOk,       \* the selected key has a secret the page can send
  generation,  \* the generation posted last
  post,        \* the generation whose post awaits its answer, or 0
  running,     \* the busy flag
  taskId,      \* the generation whose task is polled, or 0 ('')
  taskStatus,  \* 'idle', 'polling', 'done' or 'failed'
  result,      \* the generation whose media is on screen, or 0
  upstream,    \* state of each task at the server
  polls        \* poll requests under way: [of, answer, live]

generationVars == <<page, keyOk, generation, post, running, taskId, taskStatus, result, upstream, polls>>

GenerationInit ==
  /\ page \in {"video", "music"} /\ keyOk = TRUE
  /\ generation = 0 /\ post = None /\ running = FALSE
  /\ taskId = None /\ taskStatus = "idle" /\ result = None
  /\ upstream = [g \in Generations |-> "running"] /\ polls = {}

Polling(id, status, ok) == id # None /\ status = "polling" /\ ok
\* Mutant of Cancelled: the effect has no cleanup.
NotCancelled(ps) == ps

\* The cleanup of the effect, when one of its dependencies changes.
Cancelled(ps) == {[q EXCEPT !.live = FALSE] : q \in ps}

CanGenerate == ~running /\ keyOk /\ generation < MaxGenerations
Generate ==
  /\ CanGenerate
  /\ generation' = generation + 1 /\ post' = generation'
  /\ running' = TRUE
  /\ taskId' = None /\ taskStatus' = "idle" /\ result' = None
  /\ polls' = Cancelled(polls)
  /\ UNCHANGED <<page, keyOk, upstream>>

\* The media is in the answer.
PostGivesResult ==
  /\ post # None /\ post' = None
  /\ result' = post /\ taskStatus' = "done" /\ running' = FALSE
  /\ polls' = Cancelled(polls)
  /\ UNCHANGED <<page, keyOk, generation, taskId, upstream>>

\* Mutant of PostGivesTask: the music page clears its flag as the video page does.
PostGivesTaskAtOnce ==
  /\ post # None /\ post' = None
  /\ taskId' = post /\ taskStatus' = "polling" /\ running' = FALSE
  /\ polls' = Cancelled(polls)
  /\ UNCHANGED <<page, keyOk, generation, result, upstream>>

PostGivesTask ==
  /\ post # None /\ post' = None
  /\ taskId' = post /\ taskStatus' = "polling"
  /\ running' = IF page = "video" THEN FALSE ELSE running
  /\ polls' = Cancelled(polls)
  /\ UNCHANGED <<page, keyOk, generation, result, upstream>>

\* Neither media nor a task: the video page polls the task '', which its effect
\* refuses; the music page reports a failure. A post that throws ends as 'idle'.
PostGivesNothing ==
  /\ post # None /\ post' = None /\ running' = FALSE
  /\ taskStatus' \in IF page = "video" THEN {"idle", "polling"} ELSE {"idle", "failed"}
  /\ UNCHANGED <<page, keyOk, generation, taskId, result, upstream, polls>>

UpstreamFinishes(g) ==
  /\ upstream[g] = "running"
  /\ \E outcome \in {"done", "failed"} : upstream' = [upstream EXCEPT ![g] = outcome]
  /\ UNCHANGED <<page, keyOk, generation, post, running, taskId, taskStatus, result, polls>>

\* Another key is chosen: the effect runs again.
SelectKey ==
  /\ keyOk' \in BOOLEAN
  /\ polls' = Cancelled(polls)
  /\ UNCHANGED <<page, generation, post, running, taskId, taskStatus, result, upstream>>

\* A tick of the interval; the server reads the task.
PollTick ==
  /\ Polling(taskId, taskStatus, keyOk)
  /\ polls' = polls \cup {[of |-> taskId, answer |-> upstream[taskId], live |-> TRUE]}
  /\ UNCHANGED <<page, keyOk, generation, post, running, taskId, taskStatus, result, upstream>>

\* Mutant of PollLands: a task that failed is polled on.
PollLandsIfDone(q) ==
  /\ q \in polls
  /\ IF q.live /\ q.answer = "done"
       THEN /\ taskStatus' = q.answer /\ running' = FALSE /\ result' = q.of
            /\ polls' = Cancelled(polls \ {q})
       ELSE UNCHANGED <<taskStatus, running, result>> /\ polls' = polls \ {q}
  /\ UNCHANGED <<page, keyOk, generation, post, taskId, upstream>>

PollLands(q) ==
  /\ q \in polls
  /\ IF q.live /\ q.answer # "running"
       THEN /\ taskStatus' = q.answer /\ running' = FALSE
            /\ result' = IF q.answer = "done" THEN q.of ELSE result
            /\ polls' = Cancelled(polls \ {q})
       ELSE UNCHANGED <<taskStatus, running, result>> /\ polls' = polls \ {q}
  /\ UNCHANGED <<page, keyOk, generation, post, taskId, upstream>>

\* A poll that fails is ignored.
PollFails(q) ==
  /\ q \in polls /\ polls' = polls \ {q}
  /\ UNCHANGED <<page, keyOk, generation, post, running, taskId, taskStatus, result, upstream>>

GenerationNext ==
  \/ Generate \/ PostGivesResult \/ PostGivesTask \/ PostGivesNothing
  \/ SelectKey \/ PollTick
  \/ \E g \in Generations : UpstreamFinishes(g)
  \/ \E q \in polls : PollLands(q) \/ PollFails(q)

\* The post is answered, tasks end, the interval fires, polls do not fail for ever.
Ends == {"done", "failed"}
AnyPost == PostGivesResult \/ PostGivesTask \/ PostGivesNothing
EndLands(g) == \E a \in Ends : PollLands([of |-> g, answer |-> a, live |-> TRUE])
GenerationFairness ==
  /\ WF_generationVars(AnyPost) /\ WF_generationVars(PollTick)
  /\ \A g \in Generations : WF_generationVars(UpstreamFinishes(g)) /\ SF_generationVars(EndLands(g))

GenerationSpec == GenerationInit /\ [][GenerationNext]_generationVars /\ GenerationFairness

GenerationTypeOK ==
  /\ page \in {"video", "music"} /\ keyOk \in BOOLEAN /\ running \in BOOLEAN
  /\ {generation, post, taskId, result} \subseteq Generations \cup {None}
  /\ taskStatus \in {"idle", "polling", "done", "failed"}
  /\ upstream \in [Generations -> {"running", "done", "failed"}]
  /\ polls \subseteq [of : Generations, answer : {"running", "done", "failed"}, live : BOOLEAN]

\* What is on screen belongs to the generation posted last: answers of polls for
\* an earlier one, posted before the video page's second click, are dropped.
ResultIsOfLastGeneration ==
  /\ result \in {None, generation} /\ taskId \in {None, generation}
  /\ result # None => taskStatus = "done"

\* The music page is busy exactly while a generation is posted or its task is being
\* polled (also while the selected key cannot poll it): it offers no second one
\* over the first, and never stays busy with nothing under way.
MusicBusyWhileUnderWay ==
  page = "music" => (running <=> post # None \/ taskStatus = "polling")

\* A generation the user waits for ends on the page too, unless the key is
\* changed for one the page cannot send.
GenerationEnds ==
  \A g \in Generations : (taskId = g /\ taskStatus = "polling") ~> (taskId # g \/ taskStatus \in Ends \/ ~keyOk)
=============================================================================
