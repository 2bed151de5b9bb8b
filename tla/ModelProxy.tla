----------------------------- MODULE ModelProxy -----------------------------
(***************************************************************************)
(* A mapped model: a request in one protocol (OpenAI or Anthropic) is      *)
(* translated, sent to the target model in another, and the answer, whole  *)
(* or as a stream, is translated back while the call is logged:            *)
(* api/v1/proxy.py, services/llm/protocol_converter.py, outbound_client.py *)
(* and mapping_logger.py.                                                  *)
(*                                                                         *)
(* A message is its role and its blocks; a block names the inbound message *)
(* it comes from.  A token count is a small number, 0 included.            *)
(***************************************************************************)
EXTENDS Naturals, Sequences, FiniteSets

Seqs == INSTANCE SequencesExt

CONSTANTS
    MaxMessages,  \* messages of a request
    MaxPieces,    \* text and tool pieces of an answer
    MaxUsages     \* chunks with usage of an answer

VARIABLES
    inbound,      \* protocol of the client
    outbound,     \* protocol of the target model
    phase,        \* where the call is
    talk,         \* the request as the client sent it
    body,         \* the messages sent to the target
    heard,        \* frames the target sent: kinds, in order
    reported,     \* usage the target reported: [input, output]
    gen,          \* what the generator has collected
    client,       \* events the client has received
    log,          \* the row of the call: status, and usage once it is finished
    plain         \* sent again without stream_options

vars == <<inbound, outbound, phase, talk, body, heard, reported, gen, client, log, plain>>

Protocols == {"openai", "anthropic"}
NoUsage == [input |-> 0, output |-> 0]
NoLog == [status |-> "none", usage |-> NoUsage]
\* an event of the client: its kind, and which piece it carries
E(kind) == <<kind, 0>>
NewGen == [block |-> FALSE, usage |-> NoUsage, finish |-> "none", completed |-> FALSE,
           error |-> FALSE, calls |-> {}]

-----------------------------------------------------------------------------
\* the requests of a client.  A block is "text", "use" (a tool is called) or "result"
OpenAIMessages ==
    {[role |-> "system", blocks |-> <<"text">>], [role |-> "user", blocks |-> <<"text">>],
     [role |-> "assistant", blocks |-> <<"text">>], [role |-> "assistant", blocks |-> <<"use", "use">>],
     [role |-> "assistant", blocks |-> <<"text", "use">>], [role |-> "tool", blocks |-> <<"result">>]}
AnthropicMessages ==
    {[role |-> "user", blocks |-> b] : b \in {<<"text">>, <<"result">>, <<"result", "result">>,
                                              <<"result", "text">>, <<"text", "result">>}}
    \cup {[role |-> "assistant", blocks |-> b] : b \in {<<"text">>, <<"use">>, <<"text", "use">>}}
Talks(protocol) ==
    UNION {[1 .. n -> IF protocol = "openai" THEN OpenAIMessages ELSE AnthropicMessages] : n \in 1 .. MaxMessages}

\* the blocks of one kind of message i of the talk, and one message of the internal form
Part(i, kind) ==
    Seqs!FlattenSeq([k \in DOMAIN talk[i].blocks |->
        IF talk[i].blocks[k] = kind THEN << <<i, kind>> >> ELSE <<>>])
Message(role, blocks) == [role |-> role, blocks |-> blocks]

\* a system message is taken out, a tool message stays one
OpenaiRequestToInternal ==
    Seqs!FlattenSeq([i \in DOMAIN talk |->
        CASE talk[i].role = "system" -> <<>>
          [] talk[i].role = "tool" -> <<Message("tool", Part(i, "result"))>>
          [] OTHER -> <<Message(talk[i].role, Part(i, "text") \o Part(i, "use"))>>])

\* every result becomes a tool message of its own, ahead of the rest of its message, which
\* stays a message even when nothing is left in it
AnthropicRequestToInternal ==
    Seqs!FlattenSeq([i \in DOMAIN talk |->
        LET results == Part(i, "result") IN
        Append([k \in DOMAIN results |-> Message("tool", <<results[k]>>)],
               Message(talk[i].role, Part(i, "text") \o Part(i, "use")))])

Internal == IF inbound = "openai" THEN OpenaiRequestToInternal ELSE AnthropicRequestToInternal

InternalToOpenaiCallBody(messages) == messages

\* mutant of MergeAdjacentRoles: the messages go out one by one
MergeNoRoles(messages) == messages
\* neighbours of one role become one message
Joined(merged, m) ==
    IF merged # <<>> /\ merged[Len(merged)].role = m.role
    THEN [merged EXCEPT ![Len(merged)] = Message(m.role, @.blocks \o m.blocks)] ELSE Append(merged, m)
MergeAdjacentRoles(messages) ==
    LET merged[n \in 0 .. Len(messages)] ==
            IF n = 0 THEN <<>> ELSE Joined(merged[n - 1], messages[n])
    IN merged[Len(messages)]

\* a result goes into a message of the user, an empty message is sent as an empty text
EmptyText == <<0, "text">>
InternalToAnthropicCallBody(messages) ==
    MergeAdjacentRoles([i \in DOMAIN messages |->
        Message(IF messages[i].role = "tool" THEN "user" ELSE messages[i].role,
                IF messages[i].blocks = <<>> THEN <<EmptyText>> ELSE messages[i].blocks)])

-----------------------------------------------------------------------------
Init ==
    /\ inbound \in Protocols /\ outbound \in Protocols
    /\ phase = "verify" /\ talk = <<>> /\ body = <<>> /\ heard = <<>> /\ reported = NoUsage
    /\ gen = NewGen /\ client = <<>> /\ log = NoLog /\ plain = FALSE

\* the mapping or its target is missing, disabled or of another type, the key is wrong, or
\* the body is not an object
VerifyMappingFails ==
    /\ phase = "verify" /\ phase' = "over" /\ client' = <<E("error")>>
    /\ UNCHANGED <<inbound, outbound, talk, body, heard, reported, gen, log, plain>>

\* the request is read
HandleInbound ==
    /\ phase = "verify" /\ talk' \in Talks(inbound) /\ phase' = "log"
    /\ UNCHANGED <<inbound, outbound, body, heard, reported, gen, client, log, plain>>

\* a row of the call, when the mapping wants one; a failure is only warned about
StartLog ==
    /\ phase = "log"
    /\ log' \in {NoLog, [NoLog EXCEPT !.status = "pending"]}
    /\ body' = IF outbound = "openai" THEN InternalToOpenaiCallBody(Internal)
                                      ELSE InternalToAnthropicCallBody(Internal)
    /\ phase' = "send"
    /\ UNCHANGED <<inbound, outbound, talk, heard, reported, gen, client, plain>>

\* finish_log: a session of its own, whose error leaves the row pending
Finish(status, usage) ==
    IF log.status # "pending" THEN UNCHANGED log
    ELSE \/ log' = [status |-> status, usage |-> usage]
         \/ UNCHANGED log

Counts == {0, 2}

\* without a stream: the answer and its usage, or a failure of the target
Call ==
    /\ phase = "send"
    /\ \/ \E p \in Counts, c \in Counts :
            /\ reported' = [input |-> p, output |-> c]
            /\ Finish("success", [input |-> p, output |-> c]) /\ client' = <<E("answer")>>
       \/ UNCHANGED reported /\ Finish("failed", NoUsage) /\ client' = <<E("error")>>
    /\ phase' = "over" /\ talk' = <<>> /\ body' = <<>>
    /\ UNCHANGED <<inbound, outbound, heard, gen, plain>>

\* with a stream: the response is built, and its generator starts when it is first read
OpenStream ==
    /\ phase = "send" /\ phase' = "stream" /\ talk' = <<>> /\ body' = <<>>
    /\ client' = IF inbound = "anthropic" THEN <<E("message_start")>> ELSE <<>>
    /\ UNCHANGED <<inbound, outbound, heard, reported, gen, log, plain>>

\* the client is gone before that: nothing finishes the log
NeverRead ==
    /\ phase = "send" /\ phase' = "unread" /\ talk' = <<>> /\ body' = <<>>
    /\ UNCHANGED <<inbound, outbound, heard, reported, gen, client, log, plain>>

\* a gateway refuses stream_options before it has sent anything: once more without it
SendPlain ==
    /\ phase = "stream" /\ outbound = "openai" /\ heard = <<>> /\ ~plain /\ plain' = TRUE
    /\ UNCHANGED <<inbound, outbound, phase, talk, body, heard, reported, gen, client, log>>

-----------------------------------------------------------------------------
\* the internal event a frame of the target is read as.  A chunk that holds a text and the
\* finish is two frames here
Ev(kind, n) == [kind |-> kind, n |-> n]
Final(reason, input, output) ==
    [kind |-> "final", n |-> 0, reason |-> reason, usage |-> [input |-> input, output |-> output]]

NoEvent == Ev("none", 0)

\* a chunk with usage is read as that: what else it holds (f.with) is dropped
OpenaiChunkToEvents(f) ==
    CASE f.kind \in {"text", "call", "args"} -> Ev(f.kind, f.n)
      [] f.kind = "finish" -> Final("tool_calls", 0, 0)
      [] f.kind = "usage" -> Final("none", f.input, f.output)
      [] OTHER -> NoEvent

AnthropicEvents(f) ==
    CASE f.kind = "message_start" -> [kind |-> "start", usage |-> [input |-> f.input, output |-> 0]]
      [] f.kind \in {"text", "call", "args"} -> Ev(f.kind, f.n)
      [] f.kind = "finish" -> Final("tool_calls", 0, f.output)
      [] f.kind = "message_stop" -> Final("none", 0, 0)
      [] OTHER -> NoEvent

\* mutant of MergeUsage: what comes later wins, a 0 included
MergeUsageLast(old, new) == new
\* a count that is not 0 wins
MergeUsage(old, new) ==
    [input |-> IF new.input # 0 THEN new.input ELSE old.input,
     output |-> IF new.output # 0 THEN new.output ELSE old.output]

\* mutant of TextEvents: every piece opens the block
TextEventsOpen(g, e) ==
    IF inbound = "openai" THEN <<<<"text", e.n>>>> ELSE <<E("block_start"), <<"text", e.n>>>>
\* what the client is sent for a piece of text
TextEvents(g, e) ==
    (IF inbound = "anthropic" /\ ~g.block THEN <<E("block_start")>> ELSE <<>>) \o <<<<"text", e.n>>>>

\* AnthropicToolEventToOpenaiChunk: a call, or more of its arguments.  A client of the
\* other protocol is sent neither
ToolEvents(e) == IF inbound = "openai" THEN <<<<e.kind, e.n>>>> ELSE <<>>

\* what the generator keeps of an event
Handle(g, e) ==
    CASE e.kind = "start" -> [g EXCEPT !.usage = e.usage]
      [] e.kind = "text" -> [g EXCEPT !.block = TRUE]
      [] e.kind = "call" -> [g EXCEPT !.calls = @ \cup {e.n}]
      [] e.kind = "final" -> [g EXCEPT !.completed = TRUE, !.usage = MergeUsage(@, e.usage),
                                       !.finish = IF e.reason # "none" THEN e.reason ELSE @]
      [] e.kind = "error" -> [g EXCEPT !.error = TRUE]
      [] OTHER -> g
Sent(g, e) == CASE e.kind = "text" -> TextEvents(g, e) [] e.kind \in {"call", "args"} -> ToolEvents(e) [] OTHER -> <<>>

\* a frame of the target.  A blank or unreadable line is none
Hear(f, kind) ==
    LET event == IF outbound = "openai" THEN OpenaiChunkToEvents(f) ELSE AnthropicEvents(f)
    IN /\ heard' = Append(heard, kind)
       /\ gen' = Handle(gen, event)
       /\ client' = client \o Sent(gen, event)
       /\ UNCHANGED <<inbound, outbound, phase, talk, body, log, plain>>

Said(kind) == \E i \in DOMAIN heard : heard[i] = kind
Pieces == Cardinality({i \in DOMAIN heard : heard[i] \in {"text", "call", "args"}})
\* chunks with usage: what they hold besides
UsageKinds == {"usage", "usage text", "usage call", "usage finish"}
SaidUsage == \E kind \in UsageKinds : Said(kind)
Finished == Said("finish") \/ Said("usage finish")
Talking == phase = "stream" /\ ~Finished /\ (outbound = "anthropic" => Said("message_start"))

\* the target speaks its protocol: a start with the input count, pieces, why it has
\* finished, the usage, the end
HearStart ==
    /\ phase = "stream" /\ outbound = "anthropic" /\ heard = <<>>
    /\ \E p \in Counts : /\ reported' = [reported EXCEPT !.input = p]
                         /\ Hear([kind |-> "message_start", input |-> p], "message_start")
HearPiece ==
    /\ Talking /\ Pieces < MaxPieces /\ UNCHANGED reported
    /\ \E k \in {"text", "call", "args"} :
         /\ k = "args" => Said("call") \/ Said("usage call")
         /\ Hear([kind |-> k, n |-> IF k = "text" THEN Len(heard) ELSE 1], k)
HearFinish ==
    /\ Talking
    /\ \E c \in Counts :
         /\ reported' = IF outbound = "anthropic" THEN [reported EXCEPT !.output = c] ELSE reported
         /\ Hear([kind |-> "finish", output |-> c], "finish")
\* usage at the end, or in any chunk on the way; the counts do not fall
HearUsage ==
    /\ phase = "stream" /\ outbound = "openai"
    /\ Cardinality({i \in DOMAIN heard : heard[i] \in UsageKinds}) < MaxUsages
    /\ \E p \in Counts, c \in Counts, kind \in UsageKinds :
         /\ kind # "usage" => ~Finished
         /\ p >= reported.input /\ c >= reported.output
         /\ reported' = [input |-> p, output |-> c]
         /\ Hear([kind |-> "usage", with |-> kind, input |-> p, output |-> c], kind)
HearStop ==
    /\ phase = "stream" /\ outbound = "anthropic" /\ Said("finish") /\ ~Said("message_stop")
    /\ UNCHANGED reported /\ Hear([kind |-> "message_stop"], "message_stop")
\* an error event, or the timeout of either client
HearError ==
    /\ phase = "stream" /\ UNCHANGED reported /\ heard' = Append(heard, "error")
    /\ gen' = Handle(gen, Ev("error", 0)) /\ phase' = "failing"
    /\ UNCHANGED <<inbound, outbound, talk, body, client, log, plain>>

\* the connection is closed, at the end or before it
HearClose ==
    /\ phase = "stream" /\ phase' = "ending"
    /\ UNCHANGED <<inbound, outbound, talk, body, heard, reported, gen, client, log, plain>>

-----------------------------------------------------------------------------
\* the normal end, told to the client
Closing ==
    IF inbound = "openai" THEN <<E("finish")>> \o (IF gen.usage # NoUsage THEN <<E("usage")>> ELSE <<>>) \o <<E("done")>>
    ELSE (IF gen.block THEN <<E("block_stop")>> ELSE <<>>) \o <<E("message_delta"), E("message_stop")>>

Status(failed) == IF gen.completed /\ ~failed THEN "success" ELSE "failed"

\* the normal end: without a finish of the target it is told to the client as "stop"
TellEnd ==
    /\ phase = "ending" /\ client' = client \o Closing /\ phase' = "closed"
    /\ UNCHANGED <<inbound, outbound, talk, body, heard, reported, gen, log, plain>>

\* finally: nothing more is yielded, so that a client which leaves now changes nothing
EndStream ==
    /\ phase = "closed" /\ Finish(Status(FALSE), gen.usage) /\ phase' = "over"
    /\ UNCHANGED <<inbound, outbound, talk, body, heard, reported, gen, client, plain>>

\* an error event is told to the client, as text where its protocol has no error
FailStream ==
    /\ phase = "failing" /\ Finish("failed", gen.usage) /\ phase' = "over"
    /\ client' = client \o (IF inbound = "openai" THEN <<E("error text"), E("done")>> ELSE <<E("error")>>)
    /\ UNCHANGED <<inbound, outbound, talk, body, heard, reported, gen, plain>>

\* the target refuses, or the connection breaks: an exception, told to one of the clients
BreakStream ==
    /\ phase = "stream" /\ Finish("failed", gen.usage) /\ phase' = "over"
    /\ client' = Append(client, IF inbound = "openai" THEN E("done") ELSE E("error"))
    /\ UNCHANGED <<inbound, outbound, talk, body, heard, reported, gen, plain>>

\* where the generator stands at a yield: what it has given out last was an event of the client
AtYield ==
    IF heard = <<>> THEN client # <<>>
    ELSE heard[Len(heard)] = "text" \/ (inbound = "openai" /\ heard[Len(heard)] \in {"call", "args"})

\* the client disconnects.  While the generator awaits the target it is cancelled there, which
\* is an error; at a yield it is only closed, and its error stays what it was
Disconnect ==
    /\ phase \in {"stream", "failing"} /\ phase' = "left"
    /\ \/ Finish("failed", gen.usage)
       \/ phase = "stream" /\ AtYield /\ Finish(Status(FALSE), gen.usage)
    /\ UNCHANGED <<inbound, outbound, talk, body, heard, reported, gen, client, plain>>

\* it disconnects in the closing yields, between which nothing is awaited
LeaveEnd ==
    \E n \in 0 .. Len(Closing) - 1 :
      /\ phase = "ending" /\ client' = client \o SubSeq(Closing, 1, n) /\ phase' = "left"
      /\ Finish(Status(FALSE), gen.usage)
      /\ UNCHANGED <<inbound, outbound, talk, body, heard, reported, gen, plain>>

Next ==
    \/ VerifyMappingFails \/ HandleInbound \/ StartLog \/ Call \/ OpenStream \/ NeverRead \/ SendPlain
    \/ HearStart \/ HearPiece \/ HearFinish \/ HearUsage \/ HearStop \/ HearError \/ HearClose
    \/ TellEnd \/ EndStream \/ FailStream \/ BreakStream \/ Disconnect \/ LeaveEnd

-----------------------------------------------------------------------------
\* What the client said, in its order; the results of a message come before its text.
Expected ==
    Seqs!FlattenSeq([i \in DOMAIN talk |->
        IF talk[i].role = "system" THEN <<>> ELSE Part(i, "result") \o Part(i, "text") \o Part(i, "use")])

\* all that is sent, and what of it is more than a filler
Carried(messages) == Seqs!FlattenSeq([i \in DOMAIN messages |-> messages[i].blocks])
Meant(blocks) ==
    Seqs!FlattenSeq([k \in DOMAIN blocks |-> IF blocks[k] # EmptyText THEN <<blocks[k]>> ELSE <<>>])

\* A request reaches the target with all its texts, tool calls and results in their order,
\* and a target of the Anthropic protocol never sees two messages of one role in a row.
RequestIsKept ==
    phase = "send" =>
      /\ Meant(Carried(body)) = Expected
      /\ outbound = "anthropic" => \A i \in 1 .. Len(body) - 1 : body[i].role # body[i + 1].role

At(kind) == {i \in DOMAIN client : client[i][1] = kind}

\* every text the target sent, one piece per frame, has been given to the client
AllText == Cardinality(At("text")) = Cardinality({i \in DOMAIN heard : heard[i] = "text"})
EndTold == At("done") \cup At("message_stop") # {}

\* A stream is well formed in the protocol of its client: one block around all the text and
\* closed before the message is, more of a call's arguments only after the call, nothing after
\* the end; and a client that is told of a normal end has all the text the target sent.  What
\* the target puts into a chunk with usage is excepted: its text is missing, and the
\* arguments of a call it opens there come without the call.
StreamIsWellFormed ==
    /\ inbound = "anthropic" =>
         /\ Cardinality(At("block_start")) <= 1
         /\ \A i \in At("text") : \E s \in At("block_start") : s < i
         /\ \A e \in At("message_delta") : At("block_start") # {} => \E b \in At("block_stop") : b < e
    /\ (inbound = "openai" /\ ~Said("usage call")) =>
         \A i \in At("args") : \E c \in At("call") : c < i /\ client[c][2] = client[i][2]
    /\ \A i \in At("done") \cup At("message_stop") : i = Len(client)
    /\ At("finish") \cup At("message_delta") # {} => AllText

\* The log of a call says success only of a whole answer, or of a stream whose target has said
\* why it finished or what it used, with the usage the target reported and all its text given
\* out; and the client was told the end, unless it has left.
LogIsTrue ==
    log.status = "success" =>
      /\ log.usage = reported
      /\ \/ client = <<E("answer")>>
         \/ /\ Said("finish") \/ SaidUsage
            /\ AllText
            /\ EndTold \/ phase = "left"

\* no properties of a run.  A client that leaves in the closing yields, or at a piece after a
\* chunk with usage, is logged as served; and a chunk with usage drops what it holds
SuccessIsWhole ==
    log.status = "success" => client = <<E("answer")>> \/ (Finished /\ EndTold)
NothingDropped ==
    At("finish") \cup At("message_delta") # {} => ~Said("usage text") /\ ~Said("usage call")
=============================================================================
