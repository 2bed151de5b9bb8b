------------------------------ MODULE Services ------------------------------
(***************************************************************************)
(* The services that keep no task of the broker, one kind per behaviour    *)
(* (focus), so that their state spaces add up and do not multiply.  Each   *)
(* instance names what it keeps in s1 to s14; what it does not use stays 0.  *)
(***************************************************************************)
EXTENDS Naturals, Sequences, FiniteSets

CONSTANTS
    Kinds,         \* the kinds of service a behaviour may be about
    \* connectors
    Files, Old, SameEnd, Page, ChunkCounts, MaxForeign, MaxListings,
    \* a question to a RAG system
    Passages, MaxRefs, MaxFrames, MaxPolls, K,
    \* a mapped call
    MaxMessages, MaxPieces, MaxUsages,
    \* the workflow builder
    Browsers, MaxCommands, ScriptStatuses,
    \* diagnostics
    Channels, MaxLen, ChannelKeep, SlimKeep, MaxSamples,
    \* the tables and their references
    Groups,
    \* what a start fills
    Clients, Names, Ratings, MaxRequests, MaxDeploys

KindsOfService == {"con", "rag", "proxy", "vibe", "diag", "cat", "reg"}

ASSUME ServicesAssumption == Kinds \subseteq KindsOfService
ASSUME PageAssumption == Page \in Nat \ {0} /\ ChunkCounts \subseteq Nat
ASSUME FilesAssumption ==
    /\ Len(Files) \in Nat /\ DOMAIN Files = 1 .. Len(Files)
    /\ Len(Old) \in Nat /\ DOMAIN Old = 1 .. Len(Old)
ASSUME PassagesAssumption == IsFiniteSet(Passages)
ASSUME KeepAssumption == ChannelKeep \in Nat /\ SlimKeep \in Nat /\ MaxLen \in Nat
ASSUME RatingsAssumption == Ratings \subseteq Nat

VARIABLES focus, s1, s2, s3, s4, s5, s6, s7, s8, s9, s10, s11, s12, s13, s14

Con == INSTANCE Connectors WITH
    MaxPolls <- MaxListings,
    sys <- s1, step <- s2, at <- s3, kb <- s4, up <- s5, seen <- s6, last <- s7,
    offset <- s8, polls <- s9, foreign <- s10, quiet <- s11, got <- s12
Rag == INSTANCE RagQuery WITH
    Chunks <- Passages,
    row <- s1, origin <- s2, targets <- s3, step <- s4, frames <- s5, polls <- s6,
    answer <- s7, ids <- s8, ok <- s9
Proxy == INSTANCE ModelProxy WITH
    inbound <- s1, outbound <- s2, phase <- s3, talk <- s4, body <- s5, heard <- s6,
    reported <- s7, gen <- s8, client <- s9, log <- s10, plain <- s11
Vibe == INSTANCE VibeAgent WITH
    Clients <- Browsers, MaxRequests <- MaxCommands,
    talk <- s1, full <- s2, saved <- s3, cache <- s4, flow <- s5, versions <- s6, execs <- s7,
    doing <- s8, open <- s9, named <- s10, requests <- s11, lost <- s12
Diag == INSTANCE Diagnosis WITH
    at <- s1, sample <- s2, stored <- s3, judged <- s4, cause <- s5
Cat == INSTANCE Catalog WITH
    group <- s1, rows <- s2, links <- s3, eval <- s4, told <- s5
Reg == INSTANCE Registry WITH
    part <- s1, at <- s2, code <- s3, metrics <- s4, sources <- s5, tags <- s6, bindings <- s7,
    copies <- s8, doing <- s9, failed <- s10, rated <- s11, shipped <- s12, requests <- s13, deploys <- s14

Unused6to14 ==
    s6 = 0 /\ s7 = 0 /\ s8 = 0 /\ s9 = 0 /\ s10 = 0 /\ s11 = 0 /\ s12 = 0 /\ s13 = 0 /\ s14 = 0
unused6to14 == <<s6, s7, s8, s9, s10, s11, s12, s13, s14>>

Init ==
    /\ focus \in Kinds
    /\ \/ focus = "con" /\ Con!Init /\ s13 = 0 /\ s14 = 0
       \/ focus = "rag" /\ Rag!Init /\ s10 = 0 /\ s11 = 0 /\ s12 = 0 /\ s13 = 0 /\ s14 = 0
       \/ focus = "proxy" /\ Proxy!Init /\ s12 = 0 /\ s13 = 0 /\ s14 = 0
       \/ focus = "vibe" /\ Vibe!Init /\ s13 = 0 /\ s14 = 0
       \/ focus = "diag" /\ Diag!Init /\ Unused6to14
       \/ focus = "cat" /\ Cat!Init /\ Unused6to14
       \/ focus = "reg" /\ Reg!Init

Next ==
    /\ UNCHANGED focus
    /\ \/ focus = "con" /\ Con!Next /\ UNCHANGED <<s13, s14>>
       \/ focus = "rag" /\ Rag!Next /\ UNCHANGED <<s10, s11, s12, s13, s14>>
       \/ focus = "proxy" /\ Proxy!Next /\ UNCHANGED <<s12, s13, s14>>
       \/ focus = "vibe" /\ Vibe!Next /\ UNCHANGED <<s13, s14>>
       \/ focus = "diag" /\ Diag!Next /\ UNCHANGED unused6to14
       \/ focus = "cat" /\ Cat!Next /\ UNCHANGED unused6to14
       \/ focus = "reg" /\ Reg!Next

vars == <<focus, s1, s2, s3, s4, s5, s6, s7, s8, s9, s10, s11, s12, s13, s14>>
Spec == Init /\ [][Next]_vars

ChunksAreOwn == focus = "con" => Con!ChunksAreOwn
TimeoutIsReal == focus = "con" => Con!TimeoutIsReal
StreamIsWhole == focus = "rag" => Rag!StreamIsWhole
MetricsAgree == focus = "rag" => Rag!MetricsAgree
IngestedIsRecalled == focus = "rag" => Rag!IngestedIsRecalled
RequestIsKept == focus = "proxy" => Proxy!RequestIsKept
StreamIsWellFormed == focus = "proxy" => Proxy!StreamIsWellFormed
LogIsTrue == focus = "proxy" => Proxy!LogIsTrue
ExecutionSettles == focus = "vibe" => Vibe!ExecutionSettles
DiagnosisIsSound == focus = "diag" => Diag!DiagnosisIsSound
ResultsSurvive == [][focus = "cat" => Cat!Survives]_vars
OfferedIsRegistry == focus = "reg" => Reg!OfferedIsRegistry

\* promised and not kept: no part of Services.cfg
ListingIsWhole == focus = "con" => Con!ListingIsWhole
ChunksAreWhole == focus = "con" => Con!ChunksAreWhole
TruncationIsNotAbsence == focus = "diag" => Diag!TruncationIsNotAbsence
RefusalIsTrue == focus = "cat" => Cat!RefusalIsTrue
ReusedAnswersAreOfTheBatch == focus = "cat" => Cat!ReusedAnswersAreOfTheBatch
QuotesAreKept == focus = "rag" => Rag!QuotesAreKept
SuccessIsWhole == focus = "proxy" => Proxy!SuccessIsWhole
NothingDropped == focus = "proxy" => Proxy!NothingDropped
NothingLeftRunning == focus = "vibe" => Vibe!NothingLeftRunning
StartsAgain == focus = "reg" => Reg!StartsAgain
BoundOnce == focus = "reg" => Reg!BoundOnce
RetiredIsNotOffered == focus = "reg" => Reg!RetiredIsNotOffered
MeanIsOfItsRatings == focus = "reg" => Reg!MeanIsOfItsRatings
=============================================================================
