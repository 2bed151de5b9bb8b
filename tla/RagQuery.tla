------------------------------ MODULE RagQuery ------------------------------
(***************************************************************************)
(* One question asked of a RAG system through an adapter, in one reply or  *)
(* as a stream of frames, and the retrieval metrics computed from what the *)
(* adapter kept: services/adapters, the ask of the connectors and          *)
(* services/metrics/retrieval_metrics.py.                                  *)
(*                                                                         *)
(* An adapter is a row: what ends its stream, which of the references in   *)
(* its frames are kept, by which of its names a reference is remembered,   *)
(* whether the reply is polled for and whether a blank answer is refused.  *)
(***************************************************************************)
EXTENDS Naturals, Sequences, FiniteSets

Seqs == INSTANCE SequencesExt

CONSTANTS
    Chunks,      \* chunks of the knowledge base
    MaxRefs,     \* references of one reply
    MaxFrames,   \* frames of one stream
    MaxPolls,    \* polls before the deadline
    K            \* cut-off of the metrics

VARIABLES
    row,       \* the adapter
    origin,    \* where the target chunks of the question come from
    targets,   \* the chunks that hold the answer
    step,      \* where the query is
    frames,    \* frames read so far, the end frame included
    polls,     \* polls made
    answer,    \* texts kept
    ids,       \* retrieval_ids kept
    ok         \* success of the response

vars == <<row, origin, targets, step, frames, polls, answer, ids, ok>>

-----------------------------------------------------------------------------
\* the rows.  ends: the frames that end a stream ({} reads on until it is closed, and
\* NoStream asks for one reply instead); keeps: the places of a frame whose references are kept;
\* names: by which of its names a reference is remembered, the first it has; pads: "" where
\* it has none; setup: a setting must be there; polled; refuses: a blank answer is a failure
Row(ends, keeps, names, pads, setup, polled, refuses) ==
    [ends |-> ends, keeps |-> keeps, names |-> names, pads |-> pads,
     setup |-> setup, polled |-> polled, refuses |-> refuses]
NoStream == {"no stream"}
\* where references stand: the quotes of a newer FastGPT, or where the others have them
Places == {"references", "quotes"}
\* an adapter that asks through a connector
Ask(names, setup) == Row(NoStream, {}, names, FALSE, setup, FALSE, FALSE)

DirectLLMAdapter == Row({"mark"}, {}, <<>>, FALSE, TRUE, FALSE, TRUE)
DifyAdapter == Row({"event"}, {"references"}, <<"dataset">>, TRUE, FALSE, FALSE, FALSE)
CozeAdapter == Row({"mark", "event"}, {}, <<>>, FALSE, FALSE, TRUE, FALSE)
\* query takes the references of both places, the stream does not look for quotes
FastGPTAdapter == Row({"mark"}, {"references"}, <<"chunk">>, TRUE, FALSE, FALSE, FALSE)
RAGFlowAdapter == Row({"event"}, {"references"}, <<"chunk">>, FALSE, TRUE, FALSE, FALSE)
N8nAdapter == Row({}, {}, <<>>, FALSE, FALSE, FALSE, FALSE)
CustomAdapter == Row({}, {}, <<>>, FALSE, FALSE, FALSE, FALSE)
CustomAdapterGet == Ask(<<>>, FALSE)
AskPageIndex == Ask(<<"chunk">>, FALSE)
AskLlmWiki == Ask(<<"document", "chunk">>, FALSE)
AskAnythingLLM == Ask(<<"chunk", "document">>, TRUE)
AskOpenWebUI == Ask(<<"chunk", "document">>, TRUE)
AskLightRAG == Ask(<<"reference", "chunk">>, FALSE)
AskR2R == Ask(<<"chunk">>, FALSE)
AskQAnything == Ask(<<"document">>, TRUE)
AskMaxKB == Ask(<<"chunk", "document">>, TRUE)
AskDocsGPT == Ask(<<"chunk", "document">>, FALSE)
AskPrivateGPT == Ask(<<"chunk", "document">>, FALSE)
AskKhoj == Ask(<<"document", "chunk">>, FALSE)
AskLangchainChatchat == Ask(<<"chunk", "document">>, TRUE)
\* the profile says where the ids are
AskGeneric == Ask(<<"chunk">>, TRUE)

Adapters == {DirectLLMAdapter, DifyAdapter, CozeAdapter, FastGPTAdapter, RAGFlowAdapter, N8nAdapter,
             CustomAdapter, CustomAdapterGet, AskPageIndex, AskLlmWiki, AskAnythingLLM, AskOpenWebUI, AskLightRAG, AskR2R,
             AskQAnything, AskMaxKB, AskDocsGPT, AskPrivateGPT, AskKhoj, AskLangchainChatchat, AskGeneric}

-----------------------------------------------------------------------------
\* a reference says which chunk it is from by some of its names
Refs == [chunk : Chunks, has : {{"chunk", "document", "dataset", "reference"}, {"document", "dataset"}},
         place : Places]
\* of one reply: the quotes, which no other system has, come first
RefSeqs ==
    {refs \in UNION {[1 .. n -> Refs] : n \in 0 .. MaxRefs} :
       \A j \in DOMAIN refs : refs[j].place = "quotes" =>
         row = FastGPTAdapter /\ \A i \in 1 .. j : refs[i].place = "quotes"}
NameOf(r) ==
    LET had == {i \in DOMAIN row.names : row.names[i] \in r.has}
    IN IF had = {} THEN "" ELSE row.names[CHOOSE i \in had : \A j \in had : i <= j]

\* only the name of a chunk tells two chunks of one document apart
IdOf(r) == IF NameOf(r) = "chunk" THEN <<"remote", r.chunk>> ELSE <<NameOf(r), "all">>
Blank == <<"", "">>

\* the ids of the references at these places, in their order; a quote without one has none
Kept(refs, places) ==
    Seqs!FlattenSeq([i \in DOMAIN refs |->
        IF refs[i].place \notin places THEN <<>>
        ELSE IF NameOf(refs[i]) # "" THEN <<IdOf(refs[i])>>
        ELSE IF row.pads /\ refs[i].place = "references" THEN <<Blank>> ELSE <<>>])

Init ==
    /\ row \in Adapters /\ origin \in {"given", "ingested"} /\ targets \in SUBSET Chunks
    /\ step = "ask" /\ frames = <<>> /\ polls = 0 /\ answer = <<>> /\ ids = <<>> /\ ok = FALSE

Respond(success, text, refs) ==
    /\ step' = "answered" /\ ok' = success /\ answer' = text /\ ids' = refs
    /\ UNCHANGED <<row, origin, targets>>

\* a direct model that spent its tokens on thinking gives no answer
Judge(text) == row.refuses => text # <<>>

-----------------------------------------------------------------------------
\* the setting is missing, or the request fails, times out or is refused
Fail ==
    /\ step = "ask" \/ (step \in {"stream", "poll", "fetch"})
    /\ Respond(FALSE, <<>>, <<>>) /\ UNCHANGED <<frames, polls>>

\* query: one reply; a blank text is no text.  query_stream of the adapters without one, and
\* of a custom system read with GET, is the same call
Query ==
    /\ step = "ask" /\ ~row.polled
    /\ \E text \in {<<>>, <<"t">>}, refs \in RefSeqs :
         Respond(Judge(text), IF Judge(text) THEN text ELSE <<>>, IF Judge(text) THEN Kept(refs, Places) ELSE <<>>)
    /\ UNCHANGED <<frames, polls>>

\* query of Coze: started, polled until it has ended, then fetched
StartChat ==
    /\ step = "ask" /\ row.polled /\ step' = "poll"
    /\ UNCHANGED <<row, origin, targets, frames, polls, answer, ids, ok>>

PollChat ==
    /\ step = "poll" /\ polls < MaxPolls
    /\ \/ polls' = polls + 1 /\ UNCHANGED <<step, ok>>
       \/ polls' = polls /\ step' = "fetch" /\ ok' \in BOOLEAN
    /\ UNCHANGED <<row, origin, targets, frames, answer, ids>>

\* what the messages say is kept, a failed conversation is not a success
FetchMessages ==
    /\ step = "fetch"
    /\ \E text \in {<<>>, <<"t">>} : Respond(ok, text, <<>>)
    /\ UNCHANGED <<frames, polls>>

-----------------------------------------------------------------------------
\* a frame: text, references, and what it says of the end
Frames == [text : {<<>>, <<"t">>}, refs : UNION {[1 .. n -> Refs] : n \in 0 .. 1},
           kind : {"data", "mark", "event"}]
\* systems that end with "[DONE]" send nothing in it; Dify puts the references in its end
\* event, RAGFlow text and references alike
Possible(f) ==
    /\ f.kind = "mark" => f.text = <<>> /\ f.refs = <<>>
    /\ f.kind = "event" => row.ends # {} /\ (row = RAGFlowAdapter \/ f.text = <<>>)
    /\ f.refs # <<>> => row.keeps # {} /\ f.refs \in RefSeqs
    /\ row = DifyAdapter /\ f.kind = "data" => f.refs = <<>>

\* mutant of ReferencesOf: the loop is left before the references are read
ReferencesOfOpen(f) == IF f.kind \in row.ends THEN <<>> ELSE Kept(f.refs, row.keeps)
ReferencesOf(f) == Kept(f.refs, row.keeps)

StartStream ==
    /\ step = "ask" /\ row.ends # NoStream /\ step' = "stream"
    /\ UNCHANGED <<row, origin, targets, frames, polls, answer, ids, ok>>

\* a frame is read.  "[DONE]" does not end every stream: where it does not, it is no JSON
\* and is skipped
ReadFrame ==
    /\ step = "stream" /\ Len(frames) < MaxFrames
    /\ \E f \in Frames :
         /\ Possible(f)
         /\ frames' = Append(frames, f)
         /\ answer' = answer \o f.text /\ ids' = ids \o ReferencesOf(f)
         /\ step' = IF f.kind \in row.ends THEN "end" ELSE "stream"
    /\ UNCHANGED <<row, origin, targets, polls, ok>>

\* a line that is not JSON is skipped
SkipLine == step = "stream" /\ UNCHANGED vars

\* the connection is closed without an end frame, which nobody can tell from an end
Close ==
    /\ step = "stream" /\ step' = "end"
    /\ UNCHANGED <<row, origin, targets, frames, polls, answer, ids, ok>>

EndStream ==
    /\ step = "end"
    /\ Respond(Judge(answer), answer, IF Judge(answer) THEN ids ELSE <<>>)
    /\ UNCHANGED <<frames, polls>>

Next ==
    \/ Fail \/ Query \/ StartChat \/ PollChat \/ FetchMessages
    \/ StartStream \/ ReadFrame \/ SkipLine \/ Close \/ EndStream

-----------------------------------------------------------------------------
\* the metrics
TopK == SubSeq(ids, 1, IF Len(ids) < K THEN Len(ids) ELSE K)
\* target_chunk_ids: given with the question, or the ids of the local rows that the
\* ingestion stored the chunks in
TargetOf(c) == IF origin = "given" THEN <<"remote", c>> ELSE <<"local", c>>
TargetSet == {TargetOf(c) : c \in targets}
Matches == {i \in DOMAIN TopK : TopK[i] \in TargetSet}

\* scores as fractions <<numerator, denominator>>
MRRAtK ==
    IF Matches = {} THEN <<0, 1>> ELSE <<1, CHOOSE i \in Matches : \A j \in Matches : i <= j>>
HitRateAtK == IF Matches = {} THEN <<0, 1>> ELSE <<1, 1>>
\* mutant of RecallAtK: every match counts, and the score is cut off at 1
RecallAtKByPosition ==
    IF TargetSet = {} THEN <<0, 1>>
    ELSE LET n == Cardinality(Matches) IN
         <<IF n > Cardinality(TargetSet) THEN Cardinality(TargetSet) ELSE n, Cardinality(TargetSet)>>
RecallAtK ==
    IF TargetSet = {} THEN <<0, 1>>
    ELSE <<Cardinality({TopK[i] : i \in Matches}), Cardinality(TargetSet)>>

-----------------------------------------------------------------------------
Ended == frames # <<>> /\ frames[Len(frames)].kind \in row.ends
Sent(part) == Seqs!FlattenSeq([i \in DOMAIN frames |-> frames[i][part]])

\* A stream that was read to its end frame gives the whole text in its order and every
\* reference of every frame, the end frame included, that stands where its adapter looks.
StreamIsWhole ==
    (step = "answered" /\ ok /\ Ended) =>
      answer = Sent("text") /\ ids = Kept(Sent("refs"), row.keeps)

\* no property of a run: the comment above the references of query says that both places are
\* taken, lest the metrics of a newer FastGPT silently go to zero
QuotesAreKept == (step = "answered" /\ ok /\ Ended) => ids = Kept(Sent("refs"), Places)

\* The three metrics agree: there is a hit exactly when there is a rank and when something
\* is recalled, and recall is full exactly when every target is among the first K.
MetricsAgree ==
    step = "answered" =>
      /\ (HitRateAtK[1] = 1) = (MRRAtK[1] = 1) /\ (HitRateAtK[1] = 1) = (RecallAtK[1] > 0)
      /\ (targets # {} /\ RecallAtK[1] = RecallAtK[2]) =>
            \A c \in targets : \E i \in DOMAIN TopK : TopK[i] = TargetOf(c)

\* A question built from ingested chunks has something to be recalled: a reply that cites
\* every target chunk by its id is a hit.
IngestedIsRecalled ==
    (step = "answered" /\ targets # {} /\ \A c \in targets : \E i \in DOMAIN TopK : TopK[i] = <<"remote", c>>)
      => HitRateAtK = <<1, 1>>
=============================================================================
