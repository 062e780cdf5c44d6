---------------------------------- MODULE Bot ----------------------------------
(***************************************************************************)
(* The lifecycle as the Telegram bot runs it: the main loop of             *)
(* integrations/telegram/cmd/bot/main.go takes one update at a time, hands *)
(* its text to Router.Route and only then takes the next.  It is the one   *)
(* goroutine that uses the lifecycle, and the Router always passes a nil   *)
(* intent.                                                                 *)
(***************************************************************************)
EXTENDS ExecutionLifecycle

ASSUME BotAssumption ==
  /\ \E main \in Callers : Callers = {main}
  /\ \A q \in Requests : ViaRouter(q)
  /\ HistoryMax % 2 = 0   \* as 50 is: whole exchanges are dropped

\* The user goes on writing, and the service goes on working.
UserAndService ==
  /\ \A c \in Callers : WF_vars(Call(c) \/ RouteRefuses(c))
  /\ WF_vars(Service)

BotSpec == FairSpec /\ UserAndService

-----------------------------------------------------------------------------

\* Between two messages the history is a run of whole exchanges, each a user
\* message followed by its answer, also after old entries were dropped.
WholeExchanges ==
  (\A c \in Callers : pc[c] = "idle") =>
    /\ Len(history) % 2 = 0
    /\ \A i \in 1..Len(history) :
         history[i] = IF i % 2 = 1 THEN "user" ELSE "assistant"

-----------------------------------------------------------------------------
(* What a comment of the code says, which the code does not do.            *)

\* "READY means task is RUNNING": an execution is recorded as completed only
\* when its conversation is no longer running.
CompletedMeansFinished ==
  active.status = "COMPLETED" => remote[active.id] # "running"

\* "handleBlocking stops any active execution", and a user who is told of an
\* execution in progress is asked "Would you like me to stop it first?": taking
\* up a message that says stop leaves no execution in progress.
StopEndsExecution ==
  [][\A c \in Callers :
       /\ pc[c] = "waiting" /\ pc'[c] # "waiting"
       /\ Matches(req[c].text, blockingPatterns) /\ active.status \in InProgress
       => active'.status \notin InProgress]_vars
=============================================================================
