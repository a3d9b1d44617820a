-------------------------- MODULE MCTaskLifecycle --------------------------
(***************************************************************************)
(* Instances of TaskLifecycle for TLC.                                     *)
(***************************************************************************)
EXTENDS TaskLifecycle

CONSTANTS h1, h2, e1, e2

\* A goroutine of handleResult is neither a request, nor the poller, nor the sweep.
ASSUME HandlersAreOthers == {h1, h2} \cap {"api", "poller", "cleaner"} = {}
=============================================================================
