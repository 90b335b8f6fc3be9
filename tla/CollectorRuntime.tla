-------------------------- MODULE CollectorRuntime --------------------------
(***************************************************************************)
(* The collector loop under the task supervisor, as main.py starts and     *)
(* stops them: the loop of PollScheduler is the body of the task           *)
(* "market-collector", which catches every exception of a round and        *)
(* reports it as a heartbeat; other tasks fail and are restarted beside    *)
(* it; at the end of the lifespan the supervisor cancels them all and the  *)
(* adapters' clients are closed after that.                                *)
(***************************************************************************)
EXTENDS PollScheduler, TaskSupervisor

CONSTANT Collector    \* the task "market-collector"

ASSUME CollectorAssumption == Collector \in Tasks

VARIABLE closed       \* collector.close(): the HTTP clients are closed

vars == <<pollVars, taskVars, closed>>

Others == Tasks \ {Collector}

Init == PollInit /\ SupervisorInit /\ closed = FALSE

(* A step inside a round, or the user's edit beside it.                    *)
InCollector(A) == Running(Collector) /\ A /\ UNCHANGED <<taskVars, closed>>

(* A round that is over reports itself.                                    *)
RoundReported(A, ok) == A /\ Beat(Collector, ok) /\ UNCHANGED closed

Round ==
    \/ InCollector(BeginRound /\ round'.phase = "polling")
    \/ RoundReported(BeginRound /\ round'.phase = "resting", TRUE)
    \/ InCollector(BeginRoundOnOldSettings /\ round'.phase = "polling")
    \/ RoundReported(BeginRoundOnOldSettings /\ round'.phase = "resting", TRUE)
    \/ RoundReported(RoundWithoutSettings, FALSE)
    \/ InCollector(\E a \in Names : Answer(a))
    \/ \E ok \in BOOLEAN : RoundReported(StorePollResults, ok)

Supervision ==
    \/ \E t \in Tasks : Launch(t) \/ ShowBackoff(t) \/ Restart(t)
    \/ \E t \in Others : Fail(t) \/ Return(t) \/ Beat(t, TRUE)
    \/ \E t \in Others : Cancelled(t)
    \/ StopReturns

(* Cancelling the collector cancels whatever its round was waiting for.    *)
CollectorCancelled == Cancelled(Collector) /\ LoopCancelled /\ UNCHANGED closed

(* Mutant of Close: the clients are closed without waiting for stop().     *)
CloseAtOnce ==
    /\ stopping /\ ~closed
    /\ closed' = TRUE
    /\ UNCHANGED <<pollVars, taskVars>>

Close ==
    /\ stopped /\ ~closed
    /\ closed' = TRUE
    /\ UNCHANGED <<pollVars, taskVars>>

Tick == ~stopping /\ PollTimePasses /\ TaskTimePasses /\ UNCHANGED closed

Next ==
    \/ Round
    \/ ~stopping /\ EditIgnored /\ UNCHANGED <<taskVars, closed>>
    \/ Supervision /\ UNCHANGED <<pollVars, closed>>
    \/ Stop /\ UNCHANGED <<pollVars, closed>>
    \/ CollectorCancelled
    \/ Close
    \/ Tick

(* Fairness: the event loop runs what is ready and time passes; a request  *)
(* ends by its timeout.  Nothing is assumed of failures, edits, the other  *)
(* tasks' beats, the first reading of the settings or the shutdown.        *)
Fairness ==
    /\ WF_vars(Round) /\ WF_vars(Tick)
    /\ WF_vars((\E t \in Tasks : Launch(t) \/ ShowBackoff(t) \/ Restart(t))
                /\ UNCHANGED <<pollVars, closed>>)

Spec == Init /\ [][Next]_vars /\ Fairness

-----------------------------------------------------------------------------
(* Properties.                                                             *)

(* Types of the three modules' state; after the clients were closed no     *)
(* request of a round is under way (main.py closes them behind stop()).    *)
TypeOK ==
    /\ PollTypeOK /\ SupervisorTypeOK
    /\ closed \in BOOLEAN
    /\ closed => round.phase = "ended"

(* Once settings have been read, every exchange that stays on the list is  *)
(* polled again and again, whatever the exchanges answer, however rounds   *)
(* fail and other tasks crash, until the process is stopped.  (A claim     *)
(* that is never released, or a cursor that never gets there, breaks it.)  *)
EveryoneServed ==
    \A a \in Names :
        (loaded /\ a \notin ignored) ~> (a \in round.claims \/ a \in ignored \/ stopping)
=============================================================================
