----------------------------- MODULE MCTaskRaces -----------------------------
(***************************************************************************)
(* A task under two fault models, `weather`, that no single instance of     *)
(* TaskLifecycle may combine: under "storm" the constants of the cfg hold,  *)
(* with timeouts, restarts and failing statements; under "echo" messages    *)
(* are refused or come twice, to two handlers of two channels and a key     *)
(* pool, and nothing else goes wrong.                                       *)
(***************************************************************************)
EXTENDS MCTaskLifecycle

VARIABLE weather

Echo == INSTANCE TaskLifecycle WITH
  Channels <- 2, Async <- {2}, Keys <- 1, Handler <- {h1, h2}, MaxDeliver <- 2,
  ErrorText <- {e1, e2}, Env <- {"publish", "redeliver"}, MaxFaults <- 1, MaxResults <- 2

RacesInit == \/ weather = "storm" /\ Init
             \/ weather = "echo" /\ Echo!Init
RacesNext == \/ weather = "storm" /\ Next /\ UNCHANGED weather
             \/ weather = "echo" /\ Echo!Next /\ UNCHANGED weather
RacesSpec == RacesInit /\ [][RacesNext]_<<weather, vars>>

\* No attempt is refunded that was not charged, and none is refunded twice, when
\* a job or a result comes twice or is refused: "idempotent" in the comment of
\* failTaskDB. A crash between the INSERT of a task and its charge breaks it, and
\* so does a second key: the copy of a job that was rate-limited sets the failed
\* task to "processing" again (SkipKey), and failTaskDB lets its next failure in.
RefundsMatchChargesInEcho == weather = "echo" => Echo!RefundsMatchCharges
=============================================================================
