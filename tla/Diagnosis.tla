----------------------------- MODULE Diagnosis -----------------------------
(***************************************************************************)
(* Where a bad answer went wrong: the retrieval trace a RAG system sends   *)
(* with a reply is compacted before it is stored                           *)
(* (services/diagnostics/trace.py), every sample of an evaluation is       *)
(* judged from what was stored, and the analysis names the root cause      *)
(* (api/v1/evaluations.py).                                                *)
(*                                                                         *)
(* Of a list of ids only its length and the best rank of a gold chunk in   *)
(* it (0: none) matter.                                                    *)
(***************************************************************************)
EXTENDS Naturals, Sequences, FiniteSets

CONSTANTS
    Channels,      \* retrieval channels of the system
    MaxLen,        \* bound: ids of a channel, and of the final list
    ChannelKeep,   \* CHANNEL_KEEP: ids kept of a channel
    SlimKeep,      \* ids kept of a channel when the trace exceeds its budget, fewer
    MaxSamples     \* bound: samples of the evaluation

VARIABLES
    at,        \* what happens next: "call", "store", "judge" or "done"
    sample,    \* the reply to the question at hand, as the system sent it
    stored,    \* its InvocationResult row
    judged,    \* one record per sample: its attribution, and its step from either trace
    cause      \* root_cause of the analysis

vars == <<at, sample, stored, judged, cause>>

Lists(n) == UNION {[len : {l}, rank : 0 .. l] : l \in 0 .. n}
NoCause == [stage |-> "none", sub |-> "none"]
Empty == [gold |-> FALSE, channels |-> [c \in {} |-> 0], over |-> FALSE, ids |-> FALSE,
          final |-> [len |-> 0, rank |-> 0], error |-> FALSE, generation |-> "none"]

Init == at = "call" /\ sample = Empty /\ stored = Empty /\ judged = <<>> /\ cause = NoCause

-----------------------------------------------------------------------------
\* what is stored

Shrink(list, keep) ==
    [len |-> IF list.len < keep THEN list.len ELSE keep,
     rank |-> IF list.rank <= keep THEN list.rank ELSE 0]

\* mutant of CompactTrace: a trace over its budget is dropped
CompactTraceDropped(channels, over) ==
    IF over THEN [c \in {} |-> 0] ELSE [c \in DOMAIN channels |-> Shrink(channels[c], ChannelKeep)]
\* over its budget a trace keeps its structure and loses ids
CompactTrace(channels, over) ==
    [c \in DOMAIN channels |-> Shrink(channels[c], IF over THEN SlimKeep ELSE ChannelKeep)]

-----------------------------------------------------------------------------
\* the judgements, made of a row

\* rank of gold in the channels that have it
ChannelRankOf(s) == {s.channels[c].rank : c \in DOMAIN s.channels} \ {0}

RetrievalStep(s) ==
    CASE ~s.gold -> "no_gold"
      [] s.gold /\ s.final.rank > 0 -> "gold_in_final"
      [] s.gold /\ s.final.rank = 0 /\ DOMAIN s.channels = {} -> "no_trace"
      [] s.gold /\ s.final.rank = 0 /\ DOMAIN s.channels # {} /\ ChannelRankOf(s) = {} -> "channel_all_miss"
      [] OTHER -> IF \A r \in ChannelRankOf(s) : r > s.final.len THEN "lost_in_truncation"
                  ELSE "lost_in_fusion"

\* gold_hit: unknown without gold chunks or without ids, which a list that is empty is not
GoldHit(s) == IF ~s.gold \/ ~s.ids THEN "unknown" ELSE IF s.final.rank > 0 THEN "hit" ELSE "miss"

ClassifyAttribution(s) ==
    CASE s.error -> "call_failed"
      [] ~s.error /\ GoldHit(s) = "unknown" -> IF s.gold THEN "no_retrieval_trace" ELSE "no_gold"
      [] ~s.error /\ GoldHit(s) = "miss" -> "retrieval_miss"
      [] OTHER -> IF s.generation = "weak" THEN "retrieved_but_answer_weak" ELSE "retrieved_ok"

Number(P(_)) == Cardinality({i \in DOMAIN judged : P(judged[i])})
Attributed(b) == Number(LAMBDA j : j.attribution = b)
Stepped(s) == Number(LAMBDA j : j.step = s)

\* a / b >= p percent; without samples there is no rate
AtLeast(a, b, p) == b > 0 /\ 100 * a >= p * b

Diagnosable ==
    Attributed("retrieval_miss") + Attributed("retrieved_but_answer_weak") + Attributed("retrieved_ok")
Retrievable ==
    Stepped("gold_in_final") + Stepped("lost_in_fusion") + Stepped("lost_in_truncation")
      + Stepped("channel_all_miss")
Traced == Number(LAMBDA j : j.traced)

\* where in the retrieval a miss happened; the last that is set stands
SubStage ==
    IF Traced = 0 THEN "none"
    ELSE IF AtLeast(Stepped("lost_in_fusion"), Retrievable, 30) THEN "fusion"
    ELSE IF AtLeast(Stepped("channel_all_miss"), Retrievable, 50) THEN "index"
    ELSE IF AtLeast(Stepped("lost_in_truncation"), Retrievable, 30) THEN "top_k"
    ELSE "none"

\* the first that holds; "metrics" stands for the causes read off the means of the metrics
RootCause ==
    LET miss == Attributed("retrieval_miss")
        weak == Attributed("retrieved_but_answer_weak")
        Cause(stage, sub) == [stage |-> stage, sub |-> sub]
    IN CASE AtLeast(Attributed("call_failed"), Len(judged), 30) -> Cause("invocation", "none")
         [] ~AtLeast(Attributed("call_failed"), Len(judged), 30) /\ AtLeast(miss, Diagnosable, 50) ->
              Cause("retrieval", SubStage)
         [] OTHER -> IF Diagnosable - miss >= miss /\ weak > 0 /\ AtLeast(weak, Diagnosable - miss, 50)
                     THEN Cause("generation", "none") ELSE Cause("metrics", "none")

-----------------------------------------------------------------------------
\* a system replies with the ids of its final list or with none at all, and with the lists
\* of some channels; a failed call has neither
Reply ==
    /\ at = "call" /\ Len(judged) < MaxSamples /\ at' = "store"
    /\ \E gold, over, ids, error \in BOOLEAN, final \in Lists(MaxLen), names \in SUBSET Channels :
       \E channels \in [names -> Lists(MaxLen)], generation \in {"none", "weak", "strong"} :
         /\ ids \/ final.len = 0
         /\ error => ~ids /\ names = {} /\ generation = "none"
         /\ over => names # {}
         /\ ~gold => final.rank = 0 /\ \A c \in names : channels[c].rank = 0
         /\ sample' = [gold |-> gold, channels |-> channels, over |-> over, ids |-> ids,
                       final |-> final, error |-> error, generation |-> generation]
    /\ UNCHANGED <<stored, judged, cause>>

Store ==
    /\ at = "store" /\ at' = "judge"
    /\ stored' = [sample EXCEPT !.channels = CompactTrace(sample.channels, sample.over)]
    /\ UNCHANGED <<sample, judged, cause>>

Judge ==
    /\ at = "judge" /\ at' = "call"
    /\ judged' = Append(judged, [attribution |-> ClassifyAttribution(stored), step |-> RetrievalStep(stored),
                                 sent |-> RetrievalStep(sample), traced |-> DOMAIN stored.channels # {}])
    /\ sample' = Empty /\ stored' = Empty /\ UNCHANGED cause

\* 400 without results
Analyse ==
    /\ at = "call" /\ judged # <<>> /\ at' = "done"
    /\ cause' = RootCause
    /\ UNCHANGED <<sample, stored, judged>>

Next == Reply \/ Store \/ Judge \/ Analyse
Spec == Init /\ [][Next]_vars

-----------------------------------------------------------------------------
Kept(s) == IF s.over THEN SlimKeep ELSE ChannelKeep

\* What is stored leads to the diagnosis that what was sent leads to; the only loss is of
\* gold chunks that every channel ranked below what is kept, and it never turns a sample
\* with a trace into one without (trace.py:118-120).
StepIsKept ==
    at = "judge" => LET before == RetrievalStep(sample) after == RetrievalStep(stored) IN
      \/ after = before
      \/ /\ before \in {"lost_in_truncation", "lost_in_fusion"} /\ after = "channel_all_miss"
         /\ \A r \in ChannelRankOf(sample) : r > Kept(sample)

\* The two classifications of a sample do not contradict each other.
ClassificationsAgree ==
    at = "judge" =>
      /\ ClassifyAttribution(stored) \in {"retrieved_ok", "retrieved_but_answer_weak"} =>
            RetrievalStep(stored) = "gold_in_final"
      /\ ClassifyAttribution(stored) = "retrieval_miss" =>
            RetrievalStep(stored) \notin {"gold_in_final", "no_gold"}

\* A part of the retrieval that is blamed lost the gold chunk of some sample, in what the
\* system sent and not only in what was kept of it.
BlameIsFounded ==
    LET Some(step) == \E i \in DOMAIN judged : judged[i].sent = step IN
    /\ cause.sub = "fusion" => Some("lost_in_fusion")
    /\ cause.sub = "top_k" => Some("lost_in_truncation")

\* Compaction and the two classifications lead to a sound diagnosis.
DiagnosisIsSound == StepIsKept /\ ClassificationsAgree /\ BlameIsFounded

-----------------------------------------------------------------------------
\* promised and not kept (README, section 6): each fails as the only invariant of Services.cfg

\* A gold chunk that was ranked too low to be kept is not told to be missed by every channel
\* (trace.py:47, "so that the analysis does not take truncation for absence").
TruncationIsNotAbsence ==
    at = "judge" => (RetrievalStep(stored) = "channel_all_miss" => RetrievalStep(sample) = "channel_all_miss")
=============================================================================
