--------------------------- MODULE OpenHandsClient ---------------------------
(***************************************************************************)
(* internal/openhands/client.go: how the client reads the state of a       *)
(* remote task, and (external) the OpenHands service it talks to.          *)
(*                                                                         *)
(* The service holds start tasks.  A task passes from its start status     *)
(* (IN_PROGRESS, READY, ...) to a conversation with an execution_status of *)
(* its own; the client needs two requests to see both.                     *)
(***************************************************************************)
EXTENDS Integers, FiniteSets

CONSTANTS Tasks,   \* identities the service can give to start tasks
          NoTask   \* the empty task id

ASSUME NoTaskAssumption == NoTask \notin Tasks

VARIABLE remote    \* the service: the state of every task

-----------------------------------------------------------------------------
(* The service, as far as the client can tell its states apart.            *)

\* queued: a status the client has no case for; sandbox: READY without a
\* conversation; running, done: READY with a conversation, by its
\* execution_status.
Waiting     == {"queued", "starting", "sandbox"}
Live        == Waiting \cup {"running"}
Over        == {"done", "finished", "error"}
RemoteState == {"absent"} \cup Live \cup Over

InConversation == {"running", "done"}

TaskStatusOf(s) ==
  CASE s = "queued"                          -> "WORKING"
    [] s = "starting"                        -> "IN_PROGRESS"
    [] s \in {"sandbox"} \cup InConversation -> "READY"
    [] s = "finished"                        -> "FINISHED"
    [] s = "error"                           -> "ERROR"

ServiceSteps == {<<"queued", "starting">>,   <<"queued", "error">>,
                 <<"starting", "sandbox">>,  <<"starting", "error">>,
                 <<"sandbox", "running">>,   <<"sandbox", "error">>,
                 <<"running", "done">>,      <<"running", "error">>,
                 <<"done", "finished">>}

ServiceInit == remote = [t \in Tasks |-> "absent"]

\* The service accepts a POST to /api/v1/app-conversations.
Accept(t) ==
  /\ remote[t] = "absent"
  /\ remote' = [remote EXCEPT ![t] = "queued"]

\* The service works on a task; nothing the bot does takes part.
Advance(t) ==
  \E s \in RemoteState :
    /\ <<remote[t], s>> \in ServiceSteps
    /\ remote' = [remote EXCEPT ![t] = s]

-----------------------------------------------------------------------------
(* What the client makes of the answers.                                   *)

ResultStatus == {"COMPLETED", "FAILED", "RUNNING", "WORKING", "UNKNOWN",
                 "TIMEOUT"}

\* ExecutionResult: whether Error is set and the parts of Output are kept.
OutputParts == {"task completed", "runtime", "title", "execution status"}
Result      == [status : ResultStatus, error : BOOLEAN,
                output : SUBSET OutputParts]

\* getConversationDetails joins the fields that are present and, when none
\* is, writes the execution status: the text is never empty.
getConversationDetails(s, fields) ==
  LET parts == fields \cup (IF s = "done" THEN {"task completed"} ELSE {})
  IN  IF parts = {} THEN {"execution status"} ELSE parts

MapStatus_noError(taskStatus, output) ==   \* variant: the ERROR case forgotten
  CASE taskStatus = "READY"       -> IF output # {} THEN "COMPLETED" ELSE "RUNNING"
    [] taskStatus = "IN_PROGRESS" -> "RUNNING"
    [] taskStatus = "FINISHED"    -> "COMPLETED"
    [] OTHER                      -> taskStatus

\* The switch at the end of GetExecutionStatus.
MapStatus(taskStatus, output) ==
  CASE taskStatus = "READY"       -> IF output # {} THEN "COMPLETED" ELSE "RUNNING"
    [] taskStatus = "IN_PROGRESS" -> "RUNNING"
    [] taskStatus = "FINISHED"    -> "COMPLETED"
    [] taskStatus = "ERROR"       -> "FAILED"
    [] OTHER                      -> taskStatus

StatusResult(taskStatus, detail, output) ==
  [status |-> MapStatus(taskStatus, output), error |-> detail, output |-> output]

UnknownResult_done ==   \* variant: an empty list read as success
  [status |-> "COMPLETED", error |-> FALSE, output |-> {}]

UnknownResult == [status |-> "UNKNOWN", error |-> FALSE, output |-> {}]
TimeoutResult == [status |-> "TIMEOUT", error |-> TRUE,  output |-> {}]

\* PollExecution returns on a terminal status and on any error detail.
Settles(r) == r.status \in {"COMPLETED", "FAILED"} \/ r.error
=============================================================================
