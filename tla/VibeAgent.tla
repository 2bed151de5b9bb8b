----------------------------- MODULE VibeAgent -----------------------------
(***************************************************************************)
(* The workflow builder: one conversation that becomes a workflow, the row *)
(* of the workflow, its versions and its executions, and the websockets of *)
(* the conversation (api/v1/vibe_agent.py, services/vibe_agent).           *)
(*                                                                         *)
(* A conversation lives in the memory of an engine.  POST /sessions makes  *)
(* an engine of its own for it; every other handler, and the websocket,    *)
(* ask the global engine.  Every LLM call and every sandbox run is an      *)
(* await, so a request is a sequence of steps.                             *)
(***************************************************************************)
EXTENDS Naturals, Sequences

CONSTANTS
    Clients,       \* browsers at the same conversation
    ScriptStatuses, \* what a script may name as its status
    MaxRequests    \* bound: requests and websocket messages

VARIABLES
    talk,       \* engine -> state of its conversation, "none" without one
    full,       \* engine -> every required slot has a value
    saved,      \* collected_info of the row of the session: its state; "no row", "none"
    cache,      \* keys of workflow_cache of the global engine
    flow,       \* the row of the workflow
    versions,   \* version numbers of its VibeAgentWorkflowVersion rows, in order of insertion
    execs,      \* its VibeAgentExecution rows: status, and history: the script named it
    doing,      \* client -> the request it waits for
    open,       \* clients whose websocket is open
    named,      \* active_connections: the client whose websocket is registered, or "none"
    requests, lost   \* history: requests so far; the status of an execution was not stored

vars == <<talk, full, saved, cache, flow, versions, execs, doing, open, named, requests, lost>>

Engines == {"private", "global"}
States == {"none", "gathering", "filling_slots", "preview", "generating", "completed"}
Idle == [op |-> "idle"]

TypeOK ==
    /\ talk \in [Engines -> States] /\ full \in [Engines -> BOOLEAN]
    /\ saved \in States \cup {"no row"} /\ cache \subseteq {"session", "flow"}
    /\ flow.status \in {"no row", "ready", "executing", "error"}
    /\ open \subseteq Clients /\ named \in Clients \cup {"none"}
    /\ requests \in 0 .. MaxRequests /\ lost \in BOOLEAN

Init ==
    /\ talk = [e \in Engines |-> "none"] /\ full = [e \in Engines |-> FALSE]
    /\ saved = "no row" /\ cache = {}
    /\ flow = [status |-> "no row", versions |-> 0, runs |-> 0]
    /\ versions = <<>> /\ execs = <<>>
    /\ doing = [c \in Clients |-> Idle] /\ open = {} /\ named = "none"
    /\ requests = 0 /\ lost = FALSE

conversation == <<talk, full, saved>>
workflow == <<cache, flow, versions, execs, lost>>
sockets == <<open, named>>

\* a request, or a message over an open websocket
Begin(c, r) ==
    /\ doing[c] = Idle /\ requests < MaxRequests
    /\ requests' = requests + 1 /\ doing' = [doing EXCEPT ![c] = r]
Goto(c, op) == doing' = [doing EXCEPT ![c].op = op] /\ UNCHANGED requests
End(c) == doing' = [doing EXCEPT ![c] = Idle] /\ UNCHANGED requests
At(c, op) == doing[c].op = op
Talk(e, op, how) == [op |-> op, eng |-> e, how |-> how]

-----------------------------------------------------------------------------
\* the conversation

\* POST /sessions: the row is committed, then a new engine starts the conversation
CreateSession(c) ==
    /\ saved = "no row" /\ Begin(c, Talk("private", "slots", "http"))
    /\ saved' = "none" /\ talk' = [talk EXCEPT !["private"] = "gathering"]
    /\ UNCHANGED <<full, workflow, sockets>>

\* "start" over a websocket: a conversation with the same id is replaced, and who is
\* talking in it goes on with the old one, which nobody sees any more
Replaced(r) == IF "eng" \in DOMAIN r /\ r.eng = "global" THEN [r EXCEPT !.eng = "replaced"] ELSE r
Start(c) ==
    /\ c \in open /\ doing[c] = Idle /\ requests < MaxRequests /\ requests' = requests + 1
    /\ doing' = [d \in Clients |-> IF d = c THEN Talk("global", "slots", "ws") ELSE Replaced(doing[d])]
    /\ talk' = [talk EXCEPT !["global"] = "gathering"] /\ full' = [full EXCEPT !["global"] = FALSE]
    /\ UNCHANGED <<saved, workflow, sockets>>

\* what the engine knows now, and a change of the conversation that the request holds
Now(c) == talk[IF doing[c].eng = "private" THEN "private" ELSE "global"]
Set(c, state, ready) ==
    LET e == doing[c].eng IN
    IF e = "replaced" THEN UNCHANGED <<talk, full>>
    ELSE talk' = [talk EXCEPT ![e] = state] /\ full' = [full EXCEPT ![e] = ready]

\* generate_slots: an answer that is no JSON has no slots, so that none is missing
GenerateSlots(c) ==
    /\ At(c, "slots") /\ Goto(c, "tell")
    /\ \E ready \in BOOLEAN : Set(c, IF ready THEN "preview" ELSE "filling_slots", ready)
    /\ UNCHANGED <<saved, workflow, sockets>>

\* "user_message" or POST messages: 404 or an error message where the global engine knows
\* no conversation; a command to generate changes the state and asks nothing
ProcessUserInput(c) ==
    /\ talk["global"] # "none"
    /\ \E how \in {"http"} \cup {h \in {"ws"} : c \in open}, command \in BOOLEAN :
         /\ Begin(c, Talk("global", IF ~command THEN "analyse" ELSE IF how = "ws" THEN "generate" ELSE "save", how))
         /\ talk' = IF command THEN [talk EXCEPT !["global"] = "generating"] ELSE talk
    /\ UNCHANGED <<full, saved, workflow, sockets>>

\* the analysis fills slots or adds some; it may claim that nothing is missing
AnalyseInput(c) ==
    /\ At(c, "analyse") /\ Goto(c, "tell")
    /\ \E claimed, ready \in BOOLEAN :
         Set(c, IF claimed \/ ready THEN "preview" ELSE Now(c), ready)
    /\ UNCHANGED <<saved, workflow, sockets>>

\* the clarification or the preview is written by the LLM too
Tell(c) ==
    /\ At(c, "tell") /\ (IF doing[c].how = "http" THEN Goto(c, "save") ELSE End(c))
    /\ UNCHANGED <<conversation, workflow, sockets>>

\* the state of the engine that is asked, whoever changed it last
SaveSession(c) ==
    /\ At(c, "save") /\ End(c)
    /\ saved' = IF saved = "no row" THEN saved ELSE Now(c)
    /\ UNCHANGED <<talk, full, workflow, sockets>>

\* an LLM call fails or times out: what was changed before it stays changed
LlmFails(c) ==
    /\ doing[c].op \in {"slots", "analyse", "tell", "generate", "tune"} /\ End(c)
    /\ UNCHANGED <<conversation, workflow, sockets>>

\* POST generate or "generate": whatever the state and the slots
RequestWorkflow(c) ==
    /\ talk["global"] # "none"
    /\ \E how \in {"http"} \cup {h \in {"ws"} : c \in open} : Begin(c, Talk("global", "generate", how))
    /\ UNCHANGED <<conversation, workflow, sockets>>

\* definition, code and diagram; the row of the session is not told
GenerateWorkflow(c) ==
    /\ At(c, "generate") /\ End(c)
    /\ cache' = cache \cup {"session"} /\ Set(c, "completed", full["global"])
    /\ UNCHANGED <<saved, flow, versions, execs, lost, sockets>>

-----------------------------------------------------------------------------
\* the workflow

\* 404 where nothing was generated; the session the row refers to must be there
SaveWorkflow(c) ==
    /\ "session" \in cache /\ saved # "no row" /\ flow.status = "no row"
    /\ doing[c] = Idle /\ requests < MaxRequests /\ requests' = requests + 1
    /\ flow' = [status |-> "ready", versions |-> 1, runs |-> 0] /\ versions' = <<1>>
    /\ UNCHANGED <<conversation, cache, execs, doing, sockets, lost>>

\* the three handlers that read the row first
Read(c, op) ==
    /\ flow.status # "no row" /\ Begin(c, [op |-> op, row |-> flow])
    /\ UNCHANGED <<conversation, workflow, sockets>>

\* update_workflow_config: the number counted from the row that was read
UpdateWorkflowConfig(c) ==
    /\ At(c, "config") /\ End(c)
    /\ LET n == doing[c].row.versions + 1 IN
         /\ flow' = [flow EXCEPT !.versions = n] /\ versions' = Append(versions, n)
    /\ UNCHANGED <<conversation, cache, execs, lost, sockets>>

\* execute_workflow: the first commit.  A status that is already "executing" is no change
StartExecution(c) ==
    /\ At(c, "execute")
    /\ execs' = Append(execs, [status |-> "running", own |-> FALSE])
    /\ flow' = [flow EXCEPT !.status = IF doing[c].row.status = "executing" THEN @ ELSE "executing",
                            !.runs = doing[c].row.runs + 1]
    /\ cache' = cache \cup {"flow"}
    /\ doing' = [doing EXCEPT ![c] = [op |-> "sandbox", n |-> Len(execs) + 1]]
    /\ UNCHANGED <<conversation, versions, sockets, requests, lost>>

\* what comes back of a script: an object of JSON that names its status or none, another
\* JSON value, other text, nothing, an exception that nobody caught, no end, no sandbox
Returns ==
    [kind : {"object", "value", "text", "nothing", "exit", "hang", "raise"},
     status : ScriptStatuses \cup {"success"}]
\* an exception in the remote kernel is an output without text, read as an empty object
ExecuteRemote(r) ==
    CASE r.kind = "object" -> r.status
      [] r.kind \in {"text", "exit"} -> "success"
      [] r.kind \in {"value", "nothing", "raise"} -> "error"
      [] r.kind = "hang" -> "timeout"
\* a process that prints nothing has printed no JSON, one that fails has an exit code
ExecuteSubprocess(r) ==
    CASE r.kind = "nothing" -> "success" [] r.kind = "exit" -> "error" [] OTHER -> ExecuteRemote(r)
\* execute: every failure becomes a status, and the status of the script is taken as it is
\* (one the column cannot hold makes the commit fail)
Outcomes ==
    {[status |-> ExecuteRemote(r), own |-> r.kind = "object"] : r \in Returns}
    \cup {[status |-> ExecuteSubprocess(r), own |-> r.kind = "object"] : r \in Returns}

\* mutant of EndExecution: the result is assigned to the rows of the closed session
EndExecutionDetached(c) ==
    /\ At(c, "sandbox") /\ End(c)
    /\ UNCHANGED <<conversation, cache, flow, execs, versions, lost, sockets>>

\* the rows are read again before they are assigned
EndExecution(c) ==
    /\ At(c, "sandbox") /\ End(c)
    /\ \E outcome \in Outcomes : execs' = [execs EXCEPT ![doing[c].n] = outcome]
    /\ flow' = [flow EXCEPT !.status = "ready"]
    /\ UNCHANGED <<conversation, cache, versions, lost, sockets>>

\* the commit of the result fails; the handler then stores a failure, or fails again
CommitFails(c) ==
    /\ At(c, "sandbox") /\ End(c)
    /\ \/ /\ execs' = [execs EXCEPT ![doing[c].n] = [status |-> "failed", own |-> FALSE]]
          /\ flow' = [flow EXCEPT !.status = "error"] /\ UNCHANGED lost
       \/ lost' = TRUE /\ UNCHANGED <<execs, flow>>
    /\ UNCHANGED <<conversation, cache, versions, sockets>>

\* tune_node: the node tuned is the one of the definition, not of the nodes an update wrote.
\* The list of nodes read is changed in place and assigned to its own column, which is no
\* change, and no handler makes rows of VibeAgentNodeConfig: nothing is stored
TuneNode(c) ==
    /\ At(c, "tune") /\ End(c)
    /\ UNCHANGED <<conversation, workflow, sockets>>

\* test_workflow runs every case in the sandbox and stores nothing
CacheFlow(c) ==
    /\ flow.status # "no row"
    /\ \E op \in {"tune", "test"} : Begin(c, [op |-> op])
    /\ cache' = cache \cup {"flow"}
    /\ UNCHANGED <<conversation, flow, versions, execs, lost, sockets>>

TestCode(c) ==
    /\ At(c, "test") /\ End(c)
    /\ UNCHANGED <<conversation, workflow, sockets>>

\* "execute" over a websocket runs what is cached and stores nothing
ExecuteCached(c) ==
    /\ c \in open /\ "flow" \in cache /\ Begin(c, [op |-> "test"])
    /\ UNCHANGED <<conversation, workflow, sockets>>

\* the process ends: engines, conversations and registrations are gone, the rows stay
Crash ==
    /\ requests > 0
    /\ talk' = [e \in Engines |-> "none"] /\ full' = [e \in Engines |-> FALSE] /\ cache' = {}
    /\ doing' = [c \in Clients |-> Idle] /\ open' = {} /\ named' = "none"
    /\ lost' = (lost \/ \E c \in Clients : At(c, "sandbox"))
    /\ UNCHANGED <<saved, flow, versions, execs, requests>>

-----------------------------------------------------------------------------
\* the websockets: the one that connected last is registered
Connect(c) ==
    /\ c \notin open /\ requests < MaxRequests /\ requests' = requests + 1
    /\ open' = open \cup {c} /\ named' = c
    /\ UNCHANGED <<conversation, workflow, doing>>

\* whoever leaves removes the registration, also that of another
Disconnect(c) ==
    /\ c \in open /\ doing[c] = Idle
    /\ open' = open \ {c} /\ named' = "none"
    /\ UNCHANGED <<conversation, workflow, doing, requests>>

HandleConversation(c) ==
    \/ CreateSession(c) \/ Start(c) \/ GenerateSlots(c) \/ ProcessUserInput(c) \/ AnalyseInput(c)
    \/ Tell(c) \/ SaveSession(c) \/ LlmFails(c) \/ RequestWorkflow(c) \/ GenerateWorkflow(c)
HandleWorkflow(c) ==
    \/ SaveWorkflow(c) \/ Read(c, "config") \/ Read(c, "execute") \/ UpdateWorkflowConfig(c)
    \/ StartExecution(c) \/ EndExecution(c) \/ CommitFails(c) \/ CacheFlow(c) \/ TuneNode(c)
    \/ TestCode(c) \/ ExecuteCached(c)

Next ==
    \/ Crash
    \/ \E c \in Clients : HandleConversation(c) \/ HandleWorkflow(c) \/ Connect(c) \/ Disconnect(c)
Spec == Init /\ [][Next]_vars

-----------------------------------------------------------------------------
Running(c) == At(c, "sandbox")

\* When no execution is under way, every execution row has its outcome and the workflow is
\* not left "executing" (vibe_agent.py:361, "the row must be read again, an assignment to a
\* detached object is not stored"), however executions of two clients overlap, unless the
\* process ended in one or the failure could not be stored either; a row still says
\* "running" only where its own script printed that.
ExecutionSettles ==
    (~lost /\ \A c \in Clients : ~Running(c)) =>
      /\ flow.status # "executing"
      /\ \A i \in DOMAIN execs : execs[i].status = "running" => execs[i].own

\* no property of a run: a script that prints the status "running" leaves its row so
NothingLeftRunning ==
    (~lost /\ \A c \in Clients : ~Running(c)) => \A i \in DOMAIN execs : execs[i].status # "running"
=============================================================================
