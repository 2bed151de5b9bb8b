---------------------------- MODULE Jobs_proofs ----------------------------
(***************************************************************************)
(* The promises of the jobs, as behaviours of Jobs keep them.              *)
(*                                                                         *)
(* What a proof module shows of DocParse, LoadTest and ApiIngest is a fact *)
(* about their own specification; a behaviour of Jobs about that kind of   *)
(* job is a behaviour of it.  The smaller jobs are proved about here.      *)
(***************************************************************************)
EXTENDS Jobs, FiniteSetTheorems, TLAPS

-----------------------------------------------------------------------------
(* A behaviour is about one kind of job *)

LEMMA ParseRuns == Spec => ([](focus = "parse") /\ Parse!Spec) \/ []~(focus = "parse")
<1>1. Init => (focus = "parse" => Parse!Init)
  BY DEF Init
<1>2. focus = "parse" /\ [Next]_vars => [Parse!Next]_(Parse!vars)
  BY DEF Next, vars, taskVars, Parse!vars, Parse!parseVars, Parse!taskVars
<1>3. focus = "parse" /\ [Next]_vars => (focus = "parse")'
  BY DEF Next, vars
<1>4. ~(focus = "parse") /\ [Next]_vars => (~(focus = "parse"))'
  BY DEF Next, vars
<1> QED BY <1>1, <1>2, <1>3, <1>4, PTL DEF Spec, Parse!Spec

LEMMA LoadRuns == Spec => ([](focus = "load") /\ Load!Spec) \/ []~(focus = "load")
<1>1. Init => (focus = "load" => Load!Init)
  BY DEF Init
<1>2. focus = "load" /\ [Next]_vars => [Load!Next]_(Load!vars)
  BY DEF Next, vars, taskVars, Load!vars, Load!taskVars
<1>3. focus = "load" /\ [Next]_vars => (focus = "load")'
  BY DEF Next, vars
<1>4. ~(focus = "load") /\ [Next]_vars => (~(focus = "load"))'
  BY DEF Next, vars
<1> QED BY <1>1, <1>2, <1>3, <1>4, PTL DEF Spec, Load!Spec

LEMMA IngestRuns == Spec => ([](focus = "ingest") /\ Ingest!Spec) \/ []~(focus = "ingest")
<1>1. Init => (focus = "ingest" => Ingest!Init)
  BY DEF Init
<1>2. focus = "ingest" /\ [Next]_vars => [Ingest!Next]_(Ingest!vars)
  BY DEF Next, vars, taskVars, Ingest!vars, Ingest!ingestVars, Ingest!taskVars
<1>3. focus = "ingest" /\ [Next]_vars => (focus = "ingest")'
  BY DEF Next, vars
<1>4. ~(focus = "ingest") /\ [Next]_vars => (~(focus = "ingest"))'
  BY DEF Next, vars
<1> QED BY <1>1, <1>2, <1>3, <1>4, PTL DEF Spec, Ingest!Spec

\* the assumptions of the instances
LEMMA ParseAssumptions == Parse!MaxRequestsAssumption /\ Parse!BudgetAssumption
BY LimitAssumption, BudgetAssumption
   DEF KindsOfJob, Parse!MaxRequestsAssumption, Parse!BudgetAssumption, Parse!FaultKinds, FaultKinds

LEMMA LoadAssumptions ==
    /\ Load!MaxRequestsAssumption /\ Load!BudgetAssumption
    /\ Load!GivenAssumption /\ Load!DefaultAssumption /\ Load!LevelsAssumption
BY LimitAssumption, BudgetAssumption, GivenAssumption, DefaultAssumption, LevelsAssumption
   DEF KindsOfJob, Load!MaxRequestsAssumption, Load!BudgetAssumption, Load!FaultKinds, FaultKinds,
       Load!GivenAssumption, Load!DefaultAssumption, Load!LevelsAssumption

LEMMA IngestAssumptions == Ingest!MaxRequestsAssumption /\ Ingest!BudgetAssumption
BY LimitAssumption, BudgetAssumption
   DEF KindsOfJob, Ingest!MaxRequestsAssumption, Ingest!BudgetAssumption, Ingest!FaultKinds, FaultKinds

-----------------------------------------------------------------------------
(* Document parsing, load tests and ingestions *)

LEMMA ParseOnce == Parse!Spec => []Parse!OneDocumentPerFile
BY ParseAssumptions, Parse!OneDocumentPerFileThm, PTL DEF Parse!OneDocumentPerFileThm

\* A file becomes a Document at most once, however often its batch is
\* delivered.
THEOREM OneDocumentPerFileThm == Spec => []OneDocumentPerFile
BY ParseRuns, ParseOnce, PTL DEF OneDocumentPerFile

LEMMA ParseKeeps == Parse!Spec => Parse!SuccessStays
BY ParseAssumptions, Parse!SuccessStaysThm, PTL DEF Parse!SuccessStaysThm

\* A batch of a custom service never gives up a file it has parsed.
THEOREM SuccessStaysThm == Spec => SuccessStays
<1>1. focus = "parse" /\ [Parse!KeepsSuccess]_(Parse!vars)
        => [focus = "parse" => Parse!KeepsSuccess]_vars
  BY DEF Parse!vars, Parse!parseVars, Parse!KeepsSuccess
<1>2. ~(focus = "parse") => [focus = "parse" => Parse!KeepsSuccess]_vars
  OBVIOUS
<1> QED BY ParseRuns, ParseKeeps, <1>1, <1>2, PTL DEF SuccessStays, Parse!SuccessStays

LEMMA LoadOnce == Load!Spec => []Load!OneLoadAtATime
<1>1. \A c, d \in OneClient : c = d
  BY DEF OneClient
<1> QED BY LoadAssumptions, <1>1, Load!OneLoadAtATimeThm, PTL DEF Load!OneLoadAtATimeThm

\* One client's load test sends the load of one execution at a time, until a
\* message is delivered again.
THEOREM OneLoadAtATimeThm == Spec => []OneLoadAtATime
BY LoadRuns, LoadOnce, PTL DEF OneLoadAtATime

LEMMA LoadSustained == Load!Spec => []Load!LimitWasSustained
BY LoadAssumptions, Load!LimitWasSustainedThm, PTL DEF Load!LimitWasSustainedThm

\* The reported limit is the last level that passed of a ramp that one execution
\* measured in one direction, for any integers a request gives.
THEOREM LimitWasSustainedThm == Spec => []LimitWasSustained
BY LoadRuns, LoadSustained, PTL DEF LimitWasSustained

LEMMA IngestDocument == Ingest!Spec => []Ingest!OneDocumentPerRemote
BY IngestAssumptions, Ingest!OneDocumentPerRemoteThm, PTL DEF Ingest!OneDocumentPerRemoteThm

\* An ingestion stores at most one local document for a remote one.
THEOREM OneDocumentPerRemoteThm == Spec => []OneDocumentPerRemote
BY IngestRuns, IngestDocument, PTL DEF OneDocumentPerRemote

LEMMA IngestDataset == Ingest!Spec => []Ingest!OneDatasetPerIngest
BY IngestAssumptions, Ingest!OneDatasetPerIngestThm, PTL DEF Ingest!OneDatasetPerIngestThm

\* An ingestion makes at most one dataset.
THEOREM OneDatasetPerIngestThm == Spec => []OneDatasetPerIngest
BY IngestRuns, IngestDataset, PTL DEF OneDatasetPerIngest

LEMMA IngestReady == Ingest!Spec => []Ingest!CompletedIsReady
BY IngestAssumptions, Ingest!CompletedIsReadyThm, PTL DEF Ingest!CompletedIsReadyThm

\* A completed ingestion has left a dataset that can be used.
THEOREM CompletedIsReadyThm == Spec => []CompletedIsReady
BY IngestRuns, IngestReady, PTL DEF CompletedIsReady

-----------------------------------------------------------------------------
(* Tasks: what a move of one worker does to the frames *)

FramesIn(W) == DOMAIN frame = W /\ \A w \in W : DOMAIN frame[w] = {"pc", "mid", "loc"}
Frames == FramesIn(Workers)

LEMMA MovesIn ==
    ASSUME NEW W, FramesIn(W), NEW w \in W, NEW pc, NEW loc, Goto(w, pc, loc)
    PROVE  /\ FramesIn(W)'
           /\ frame'[w].pc = pc /\ frame'[w].loc = loc
           /\ \A v \in W \ {w} : frame'[v] = frame[v]
BY DEF FramesIn, Goto

\* a worker takes a message or is idle again
LEMMA DeliversIn ==
    ASSUME NEW W, FramesIn(W), NEW w \in W, Delivery(w)
    PROVE  /\ FramesIn(W)'
           /\ frame'[w].pc \in {"open", "idle"} /\ frame'[w].loc = <<>>
           /\ \A v \in W \ {w} : frame'[v] = frame[v]
<1>1. CASE Take(w)
  <2>1. PICK m \in queue : frame' = [frame EXCEPT ![w] = [IdleFrame EXCEPT !.pc = "open", !.mid = m]]
    BY <1>1 DEF Take
  <2> QED BY <2>1 DEF FramesIn, IdleFrame
<1>2. CASE Ack(w) \/ Crash(w) \/ Kill(w)
  <2>1. frame' = [frame EXCEPT ![w] = IdleFrame]
    BY <1>2 DEF Ack, Crash, Kill
  <2> QED BY <2>1 DEF FramesIn, IdleFrame
<1> QED BY <1>1, <1>2 DEF Delivery

LEMMA FrameMoves ==
    ASSUME Frames, NEW w \in Workers, NEW pc, NEW loc, Goto(w, pc, loc)
    PROVE  /\ Frames'
           /\ frame'[w].pc = pc /\ frame'[w].loc = loc
           /\ \A v \in Workers \ {w} : frame'[v] = frame[v]
BY MovesIn DEF Frames

LEMMA FrameDelivers ==
    ASSUME Frames, NEW w \in Workers, Delivery(w)
    PROVE  /\ Frames'
           /\ frame'[w].pc \in {"open", "idle"} /\ frame'[w].loc = <<>>
           /\ \A v \in Workers \ {w} : frame'[v] = frame[v]
BY DeliversIn DEF Frames

-----------------------------------------------------------------------------
(* Synchronisation.  The rows up to n are dealt with if each of them is    *)
(* stored, without content, missed, or in a table that was left out;       *)
(* last_sync_at moves to a place up to which they are.  r1, r2, r3 and r4  *)
(* are source, stored, missed and leftOut.                                 *)

Ok(r) == ~r1.rows[r].content \/ r \in r2 \cup r3 \cup r4
Dealt(n) == \A r \in 1..n : Ok(r)
DealtOf(t, n) == \A r \in 1..n : r1.rows[r].table = t => Ok(r)

Converting(w) == job.system = "fastgpt" /\ frame[w].loc.target = "chunks"

\* what a running sync has read of the source
Reads(w) ==
    LET l == frame[w].loc IN
    /\ {"targets", "left", "since", "read"} \subseteq DOMAIN l
    /\ l.targets \subseteq Sync!Targets
    /\ l.since \in Nat /\ l.since <= r1.last
    /\ l.read \in [Sync!Targets -> Nat]
    /\ \A t \in Sync!Targets : l.read[t] <= Len(r1.rows)

\* the target types it has finished
Finished(w) ==
    LET l == frame[w].loc IN
    {t \in l.targets \ l.left : frame[w].pc = "rows" => t # l.target}

\* and how far it has dealt with the rows
SyncTask(w) ==
    /\ frame[w].pc \in {"begin", "target", "rows"} => job.status # "none"
    /\ frame[w].pc \in {"target", "rows"} =>
          /\ Reads(w)
          /\ \A t \in Finished(w) : DealtOf(t, frame[w].loc.read[t])
    /\ frame[w].pc = "rows" =>
          LET l == frame[w].loc IN
          /\ {"target", "at", "count"} \subseteq DOMAIN l
          /\ l.target \in Sync!Targets /\ l.count \in Nat
          /\ l.at \in Nat /\ l.at <= Len(r1.rows)
          /\ IF Converting(w) THEN DealtOf(l.target, l.at) ELSE l.count = 0

SourceOk ==
    /\ {"status", "system", "targets"} \subseteq DOMAIN job
    /\ job.status # "none" => job.targets \subseteq Sync!Targets
    /\ DOMAIN r1 = {"rows", "last"}
    /\ r1.rows \in Seq(Sync!Row) /\ r1.last \in Nat /\ r1.last <= Len(r1.rows)

SyncInv ==
    /\ Frames /\ SourceOk
    /\ Dealt(r1.last)
    /\ \A w \in Workers : SyncTask(w)

\* a step loses no row, no place reached and no dispatch
Grows ==
    /\ r2 \subseteq r2' /\ r3 \subseteq r3' /\ r4 \subseteq r4'
    /\ Len(r1.rows) \in Nat /\ Len(r1'.rows) \in Nat /\ Len(r1.rows) <= Len(r1'.rows)
    /\ \A r \in 1..Len(r1.rows) : r1'.rows[r] = r1.rows[r]
    /\ r1.last \in Nat /\ r1'.last \in Nat /\ r1.last <= r1'.last
    /\ job'.system = job.system
    /\ job.status # "none" => job'.status # "none"

LEMMA DealtStays ==
    ASSUME Grows, NEW n \in Nat, n <= Len(r1.rows)
    PROVE  (Dealt(n) => Dealt(n)') /\ \A t : DealtOf(t, n) => DealtOf(t, n)'
<1>1. \A r \in 1..n : r1'.rows[r] = r1.rows[r] /\ (Ok(r) => Ok(r)')
  BY DEF Grows, Ok
<1> QED BY <1>1 DEF Dealt, DealtOf

LEMMA TaskStays ==
    ASSUME Grows, NEW w \in Workers, SyncTask(w), frame'[w] = frame[w]
    PROVE  SyncTask(w)'
<1> DEFINE l == frame[w].loc
<1>1. Converting(w)' <=> Converting(w)
  BY DEF Grows, Converting
<1>2. Reads(w) => Reads(w)'
  <2> SUFFICES ASSUME Reads(w) PROVE Reads(w)'
    OBVIOUS
  <2>1. l.since \in Nat /\ l.since <= r1'.last
    BY DEF Reads, Grows
  <2>2. \A t \in Sync!Targets : l.read[t] <= Len(r1'.rows)
    BY DEF Reads, Grows
  <2> QED BY <2>1, <2>2 DEF Reads, Sync!Targets
<1>3. Finished(w)' = Finished(w)
  BY DEF Finished
<1>4. ASSUME NEW t \in Finished(w), Reads(w), DealtOf(t, l.read[t])
      PROVE  DealtOf(t, l.read[t])'
  <2>1. l.read[t] \in Nat /\ l.read[t] <= Len(r1.rows)
    BY <1>4 DEF Reads, Finished
  <2>2. \A r \in 1..l.read[t] : r1'.rows[r] = r1.rows[r] /\ (Ok(r) => Ok(r)')
    BY <2>1 DEF Grows, Ok
  <2> QED BY <1>4, <2>2 DEF DealtOf
<1>5. ASSUME l.at \in Nat, l.at <= Len(r1.rows), DealtOf(l.target, l.at)
      PROVE  DealtOf(l.target, l.at)'
  <2>1. \A r \in 1..l.at : r1'.rows[r] = r1.rows[r] /\ (Ok(r) => Ok(r)')
    BY <1>5 DEF Grows, Ok
  <2> QED BY <1>5, <2>1 DEF DealtOf
<1>6. l.at \in Nat /\ l.at <= Len(r1.rows) => l.at <= Len(r1'.rows)
  BY DEF Grows
<1>7. job.status # "none" => job'.status # "none"
  BY DEF Grows
<1> QED BY <1>1, <1>2, <1>3, <1>4, <1>5, <1>6, <1>7 DEF SyncTask, Sync!Targets

\* a step of w
LEMMA SyncStep ==
    ASSUME SyncInv, Grows, SourceOk', Dealt(r1.last)', Frames',
           NEW w \in Workers, \A v \in Workers \ {w} : frame'[v] = frame[v], SyncTask(w)'
    PROVE  SyncInv'
<1>1. \A v \in Workers \ {w} : SyncTask(v)'
  BY TaskStays DEF SyncInv
<1> QED BY <1>1 DEF SyncInv

\* a step of w that reads: what it holds afterwards is shown of the state before
LEMMA SyncReads ==
    ASSUME SyncInv, NEW w \in Workers, UNCHANGED <<r1, r2, r3, r4, job>>, Frames',
           \A v \in Workers \ {w} : frame'[v] = frame[v], SyncTask(w)'
    PROVE  SyncInv'
<1>1. Grows /\ SourceOk' /\ Dealt(r1.last)'
  BY DEF SyncInv, SourceOk, Grows, Dealt, Ok
<1> QED BY <1>1, SyncStep

\* a step that leaves the tasks alone
LEMMA SyncQuiet ==
    ASSUME SyncInv, Grows, SourceOk', Dealt(r1.last)', UNCHANGED frame
    PROVE  SyncInv'
<1>1. \A v \in Workers : SyncTask(v)'
  BY TaskStays DEF SyncInv
<1> QED BY <1>1 DEF SyncInv, Frames, FramesIn

LEMMA SyncHandlers ==
    ASSUME SyncInv, NEW c \in Clients, Sync!Handlers(c) PROVE SyncInv'
<1> USE DEF Sync!syncVars
<1>1. CASE Sync!ExecuteSync(c)
  <2>1. PICK i \in BOOLEAN, t \in SUBSET Sync!Targets :
          job' = [job EXCEPT !.status = "pending", !.incremental = i, !.targets = t]
    BY <1>1 DEF Sync!ExecuteSync
  <2>2. UNCHANGED <<frame, r1, r2, r3, r4>>
    BY <1>1 DEF Sync!ExecuteSync
  <2>3. /\ DOMAIN job' = DOMAIN job /\ job'.system = job.system
        /\ job'.status = "pending" /\ job'.targets = t
    BY <2>1 DEF SyncInv, SourceOk
  <2>4. Grows /\ SourceOk' /\ Dealt(r1.last)'
    BY <2>2, <2>3 DEF SyncInv, SourceOk, Grows, Dealt, Ok
  <2> QED BY <2>2, <2>4, SyncQuiet
<1>2. CASE (Sync!Dispatch(c) \/ Sync!DelayFails(c)) /\ UNCHANGED Sync!syncVars
  <2>1. UNCHANGED <<job, frame, r1, r2, r3, r4>>
    BY <1>2 DEF Sync!Dispatch, Sync!DelayFails
  <2>2. Grows /\ SourceOk' /\ Dealt(r1.last)'
    BY <2>1 DEF SyncInv, SourceOk, Grows, Dealt, Ok
  <2> QED BY <2>1, <2>2, SyncQuiet
<1> QED BY <1>1, <1>2 DEF Sync!Handlers

\* delivery and loss, and what leaves the try or ends without success
LEMMA SyncLeaves ==
    ASSUME SyncInv, NEW w \in Workers, UNCHANGED Sync!syncVars,
           Sync!Delivery(w) \/ Sync!Open(w, <<>>) \/ Sync!FailedLost(w)
             \/ Sync!Fails(w) \/ Sync!FailSync(w)
    PROVE  SyncInv'
<1> USE DEF Sync!syncVars
<1>1. UNCHANGED <<r1, r2, r3, r4>> /\ Frames
  BY DEF SyncInv
<1>2. \/ UNCHANGED job
      \/ Sync!Exists /\ (job' = [job EXCEPT !.status = "running"] \/ job' = [job EXCEPT !.status = "failed"])
  BY DEF Sync!Delivery, Sync!Take, Sync!Ack, Sync!Crash, Sync!Kill, Sync!Open, Sync!FailedLost,
         Sync!Fails, Sync!Raise, Sync!DbError, Sync!FailSync, Sync!MarkFailed
<1>3. /\ {"status", "system", "targets"} \subseteq DOMAIN job'
      /\ job'.system = job.system /\ job'.targets = job.targets
      /\ job'.status = "none" <=> job.status = "none"
  BY <1>2 DEF SyncInv, SourceOk, Sync!Exists
<1>4. Grows /\ SourceOk' /\ Dealt(r1.last)'
  BY <1>1, <1>3 DEF SyncInv, SourceOk, Grows, Dealt, Ok
<1>5. CASE Sync!Delivery(w)
  <2>1. Delivery(w)
    BY <1>5 DEF Delivery, Take, Ack, Crash, Kill, At, Fault, IdleFrame,
          Sync!Delivery, Sync!Take, Sync!Ack, Sync!Crash, Sync!Kill, Sync!At, Sync!Fault, Sync!IdleFrame
  <2>2. /\ Frames' /\ frame'[w].pc \in {"open", "idle"}
        /\ \A v \in Workers \ {w} : frame'[v] = frame[v]
    BY <1>1, <2>1, FrameDelivers
  <2>3. SyncTask(w)'
    BY <2>2 DEF SyncTask
  <2> QED BY <1>4, <2>2, <2>3, SyncStep
<1>6. ASSUME NEW pc, Goto(w, pc, <<>>), pc \in {"begin", "ack", "except"},
             pc = "begin" => job'.status # "none"
      PROVE  SyncInv'
  <2>1. /\ Frames' /\ frame'[w].pc = pc
        /\ \A v \in Workers \ {w} : frame'[v] = frame[v]
    BY <1>1, <1>6, FrameMoves
  <2>2. SyncTask(w)'
    BY <1>6, <2>1 DEF SyncTask
  <2> QED BY <1>4, <2>1, <2>2, SyncStep
<1>7. CASE Sync!Open(w, <<>>)
  <2>1. CASE Sync!Exists /\ Goto(w, "begin", <<>>)
    BY <1>3, <1>6, <2>1 DEF Sync!Exists
  <2>2. CASE Goto(w, "ack", <<>>)
    BY <1>6, <2>2
  <2> QED BY <1>7, <2>1, <2>2 DEF Sync!Open, Goto, Sync!Goto
<1>8. CASE Sync!FailedLost(w) \/ Sync!Fails(w) \/ Sync!FailSync(w)
  <2>1. Goto(w, "ack", <<>>) \/ Goto(w, "except", <<>>)
    BY <1>8 DEF Sync!FailedLost, Sync!Fails, Sync!Raise, Sync!DbError, Sync!FailSync, Sync!MarkFailed,
                Goto, Sync!Goto
  <2> QED BY <1>6, <2>1
<1> QED BY <1>5, <1>7, <1>8

\* the mappings are settled, and nothing has been read
LEMMA SyncPrepares ==
    ASSUME SyncInv, NEW w \in Workers, Sync!Prepare(w) PROVE SyncInv'
<1> DEFINE loc == [targets |-> job.targets, left |-> job.targets, since |-> Sync!Since(job.system),
                   read |-> [t \in Sync!Targets |-> 0]]
<1>1. Goto(w, "target", loc) /\ UNCHANGED <<r1, r2, r3, r4, job>> /\ job.status # "none"
  BY DEF Sync!Prepare, Sync!syncVars, SyncInv, SyncTask, Sync!At, Goto, Sync!Goto
<1>2. loc.since \in Nat /\ loc.since <= r1.last /\ 0 <= Len(r1.rows)
  BY DEF Sync!Since, SyncInv, SourceOk
<1>3. /\ {"targets", "left", "since", "read"} \subseteq DOMAIN loc
      /\ loc.targets = job.targets /\ loc.left = job.targets
      /\ loc.read \in [Sync!Targets -> Nat] /\ \A t \in Sync!Targets : loc.read[t] = 0
      /\ job.targets \subseteq Sync!Targets
  BY <1>1 DEF SyncInv, SourceOk
<1> HIDE DEF loc
<1>4. /\ Frames' /\ frame'[w].pc = "target" /\ frame'[w].loc = loc
      /\ \A v \in Workers \ {w} : frame'[v] = frame[v]
  BY <1>1, FrameMoves DEF SyncInv
<1>5. Reads(w)' /\ Finished(w)' = {}
  BY <1>1, <1>2, <1>3, <1>4 DEF Reads, Finished, Sync!Targets
<1>6. SyncTask(w)'
  BY <1>1, <1>4, <1>5 DEF SyncTask
<1> QED BY <1>1, <1>4, <1>6, SyncReads

LEMMA SyncFetches ==
    ASSUME SyncInv, NEW w \in Workers, Sync!FetchTarget(w) PROVE SyncInv'
<1> DEFINE l == frame[w].loc
           n == Len(r1.rows)
           t == IF "chunks" \in l.left THEN "chunks" ELSE "qa_records"
           read == [l.read EXCEPT ![t] = n]
           loc == [targets |-> l.targets, left |-> l.left \ {t}, since |-> l.since, read |-> read,
                   target |-> t, at |-> l.since, count |-> 0]
<1>1. Goto(w, "rows", loc) /\ UNCHANGED <<r1, r2, r3, r4, job>>
  BY DEF Sync!FetchTarget, Sync!syncVars, Sync!Loc, Goto, Sync!Goto
<1>2. /\ job.status # "none" /\ Reads(w)
      /\ \A x \in l.targets \ l.left : DealtOf(x, l.read[x])
  BY DEF Sync!FetchTarget, Sync!At, SyncInv, SyncTask, Finished
<1>3. /\ n \in Nat /\ l.since \in Nat /\ l.since <= n /\ l.since <= r1.last /\ r1.last \in Nat
      /\ l.targets \subseteq Sync!Targets /\ t \in Sync!Targets
  BY <1>2 DEF Reads, SyncInv, SourceOk, Sync!Targets
<1>4. /\ read \in [Sync!Targets -> Nat] /\ \A x \in Sync!Targets : read[x] <= n
      /\ \A x \in Sync!Targets : x # t => read[x] = l.read[x]
  BY <1>2, <1>3 DEF Reads
<1>5. DealtOf(t, l.since)
  BY <1>3 DEF SyncInv, Dealt, DealtOf
<1>6. /\ DOMAIN loc = {"targets", "left", "since", "read", "target", "at", "count"}
      /\ loc.targets = l.targets /\ loc.left = l.left \ {t} /\ loc.since = l.since /\ loc.read = read
      /\ loc.target = t /\ loc.at = l.since /\ loc.count = 0
  OBVIOUS
<1> HIDE DEF loc, read, t, n
<1>7. /\ Frames' /\ frame'[w].pc = "rows" /\ frame'[w].loc = loc
      /\ \A v \in Workers \ {w} : frame'[v] = frame[v]
  BY <1>1, FrameMoves DEF SyncInv
<1>8. Reads(w)'
  BY <1>1, <1>3, <1>4, <1>6, <1>7 DEF Reads, Sync!Targets, n
<1>9. \A x \in Finished(w)' : DealtOf(x, loc.read[x])
  BY <1>2, <1>3, <1>4, <1>6, <1>7 DEF Finished
<1>10. \A x, m : DealtOf(x, m)' <=> DealtOf(x, m)
  BY <1>1 DEF DealtOf, Ok
<1>11. SyncTask(w)'
  BY <1>1, <1>2, <1>3, <1>5, <1>6, <1>7, <1>8, <1>9, <1>10 DEF SyncTask, Sync!Targets, n
<1> QED BY <1>1, <1>7, <1>11, SyncReads

\* the instance has the library's operator under its own name
LEMMA SyncCardinality == \A S : Sync!Cardinality(S) = Cardinality(S)
BY DEF Sync!Cardinality, Cardinality

\* a batch: chunks of fastgpt are stored unless they are without content, and
\* nothing else is converted
LEMMA SyncStores ==
    ASSUME SyncInv, NEW w \in Workers, Sync!StoreBatch(w) PROVE SyncInv'
<1> DEFINE l == frame[w].loc
           end == l.read[l.target]
           to == IF l.at + BatchSize < end THEN l.at + BatchSize ELSE end
           good == {r \in Sync!Rows(l.target, l.at + 1, to) : Sync!Converts(job.system, l.target, r)}
           loc == [l EXCEPT !.at = to, !.count = @ + Cardinality(good)]
<1>1. UNCHANGED <<r1, r3, r4, job>> /\ r2' = r2 \cup good /\ Goto(w, "rows", loc)
  <2> USE DEF Sync!StoreBatch, Sync!Loc
  <2>1. UNCHANGED <<r1, r3, r4, job>>
    OBVIOUS
  <2>2. r2' = r2 \cup good
    OBVIOUS
  <2>3. Goto(w, "rows", loc)
    BY SyncCardinality DEF Goto, Sync!Goto
  <2> QED BY <2>1, <2>2, <2>3
<1>2. frame[w].pc = "rows"
  BY DEF Sync!StoreBatch, Sync!At
<1>3. /\ Reads(w) /\ job.status # "none"
      /\ {"target", "at", "count"} \subseteq DOMAIN l
      /\ l.target \in Sync!Targets /\ l.at \in Nat /\ l.count \in Nat /\ l.at <= Len(r1.rows)
      /\ IF Converting(w) THEN DealtOf(l.target, l.at) ELSE l.count = 0
      /\ \A t \in Finished(w) : DealtOf(t, l.read[t])
  BY <1>2 DEF SyncInv, SyncTask
<1>4. end \in Nat /\ end <= Len(r1.rows) /\ Len(r1.rows) \in Nat
  BY <1>3 DEF Reads, SyncInv, SourceOk
<1>5. to \in Nat /\ to <= Len(r1.rows)
  <2> HIDE DEF end, l
  <2> QED BY <1>3, <1>4, BatchSizeAssumption
<1>6. IsFiniteSet(good) /\ Cardinality(good) \in Nat
  <2>1. l.at + 1 \in Int /\ to \in Int
    BY <1>3, <1>5
  <2>2. good \subseteq (l.at + 1)..to
    BY DEF Sync!Rows
  <2> HIDE DEF good, to, l
  <2>3. IsFiniteSet((l.at + 1)..to)
    BY <2>1, FS_Interval
  <2> QED BY <2>2, <2>3, FS_Subset, FS_CardinalityType
<1>7. Converting(w) => \A r \in (l.at + 1)..to :
                          r1.rows[r].table = l.target => r \in good \/ ~r1.rows[r].content
  BY DEF Converting, Sync!Converts, Sync!Rows
<1>8. ~Converting(w) => l.count = 0 /\ Cardinality(good) = 0
  <2>1. ~Converting(w) => l.count = 0 /\ good = {}
    BY <1>3 DEF Converting, Sync!Converts
  <2> HIDE DEF good
  <2> QED BY <2>1, FS_EmptySet
<1> HIDE DEF good, to
<1>9. /\ DOMAIN loc = DOMAIN l
      /\ loc.targets = l.targets /\ loc.left = l.left /\ loc.since = l.since /\ loc.read = l.read
      /\ loc.target = l.target /\ loc.at = to /\ loc.count = l.count + Cardinality(good)
  BY <1>3
<1> HIDE DEF loc
<1>10. /\ Frames' /\ frame'[w].pc = "rows" /\ frame'[w].loc = loc
       /\ \A v \in Workers \ {w} : frame'[v] = frame[v]
  BY <1>1, FrameMoves DEF SyncInv
<1>11. Grows /\ SourceOk' /\ Dealt(r1.last)'
  BY <1>1 DEF SyncInv, SourceOk, Grows, Dealt, Ok
<1>12. Reads(w)' /\ Finished(w)' = Finished(w)
  BY <1>1, <1>2, <1>3, <1>9, <1>10 DEF Reads, Finished, Sync!Targets
<1>13. \A r : Ok(r) => Ok(r)'
  BY <1>1 DEF Ok
<1>14. \A t, m : DealtOf(t, m) => DealtOf(t, m)'
  BY <1>1, <1>13 DEF DealtOf
<1>15. Converting(w)' <=> Converting(w)
  BY <1>1, <1>9, <1>10 DEF Converting
<1>16. Converting(w) => DealtOf(frame[w].loc.target, frame[w].loc.at)'
  <2> SUFFICES ASSUME Converting(w), NEW r \in 1..to, r1.rows[r].table = l.target
               PROVE  Ok(r)'
    BY <1>1, <1>9, <1>10 DEF DealtOf
  <2>1. CASE r <= l.at
    BY <1>3, <1>13, <2>1 DEF DealtOf
  <2>2. CASE r \in (l.at + 1)..to
    BY <1>1, <1>7, <2>2 DEF Ok
  <2> QED BY <1>3, <1>5, <2>1, <2>2
<1>17. (~Converting(w) => loc.count = 0) /\ loc.count \in Nat
  BY <1>3, <1>6, <1>8, <1>9
<1>18. SyncTask(w)'
  BY <1>1, <1>3, <1>5, <1>9, <1>10, <1>12, <1>14, <1>15, <1>16, <1>17 DEF SyncTask, Sync!Targets
<1> QED BY <1>10, <1>11, <1>18, SyncStep

\* a target ends without error if nothing was read or something was stored
LEMMA SyncEndsTarget ==
    ASSUME SyncInv, NEW w \in Workers, Sync!EndTarget(w) PROVE SyncInv'
<1> DEFINE l == frame[w].loc
           fetched == Sync!Fetched(l)
           pc == IF fetched # {} /\ l.count = 0 THEN "except" ELSE "target"
           loc == [targets |-> l.targets, left |-> l.left, since |-> l.since, read |-> l.read]
<1>1. Sync!Goto(w, pc, loc) /\ UNCHANGED <<r1, r2, r3, r4, job>>
  BY DEF Sync!EndTarget, Sync!syncVars, Sync!Loc
<1>2. frame[w].pc = "rows" /\ (l.at >= l.read[l.target] \/ fetched = {})
  BY DEF Sync!EndTarget, Sync!Loc, Sync!At
<1>3. /\ Reads(w) /\ job.status # "none" /\ l.target \in Sync!Targets
      /\ l.at \in Nat /\ (l.count # 0 => DealtOf(l.target, l.at))
      /\ \A t \in Finished(w) : DealtOf(t, l.read[t])
  BY <1>2 DEF SyncInv, SyncTask
<1>4. l.read[l.target] \in Nat /\ l.since \in Nat /\ l.since <= r1.last /\ r1.last \in Nat
  BY <1>3 DEF Reads, SyncInv, SourceOk
<1>5. pc = "target" => DealtOf(l.target, l.read[l.target])
  <2>1. CASE fetched = {}
    <3> SUFFICES ASSUME NEW r \in 1..l.read[l.target], r1.rows[r].table = l.target PROVE Ok(r)
      BY DEF DealtOf
    <3>1. r <= l.since
      BY <1>4, <2>1 DEF Sync!Fetched, Sync!Rows
    <3> QED BY <1>4, <3>1 DEF SyncInv, Dealt
  <2>2. CASE l.count # 0 /\ l.at >= l.read[l.target]
    BY <1>3, <1>4, <2>2 DEF DealtOf
  <2> QED BY <1>2, <2>1, <2>2
<1>6. /\ pc \in {"target", "except"} /\ DOMAIN loc = {"targets", "left", "since", "read"}
      /\ loc.targets = l.targets /\ loc.left = l.left /\ loc.since = l.since /\ loc.read = l.read
  OBVIOUS
<1> HIDE DEF loc, pc
<1>7. Goto(w, pc, loc)
  BY <1>1 DEF Goto, Sync!Goto
<1>8. /\ Frames' /\ frame'[w].pc = pc /\ frame'[w].loc = loc
      /\ \A v \in Workers \ {w} : frame'[v] = frame[v]
  BY <1>7, FrameMoves DEF SyncInv
<1>9. Reads(w)'
  BY <1>1, <1>3, <1>6, <1>8 DEF Reads, Sync!Targets
<1>10. pc = "target" => \A t \in Finished(w)' : DealtOf(t, loc.read[t])
  BY <1>2, <1>3, <1>5, <1>6, <1>8 DEF Finished
<1>11. \A x, m : DealtOf(x, m)' <=> DealtOf(x, m)
  BY <1>1 DEF DealtOf, Ok
<1>12. SyncTask(w)'
  BY <1>1, <1>3, <1>6, <1>8, <1>9, <1>10, <1>11 DEF SyncTask
<1> QED BY <1>1, <1>8, <1>12, SyncReads

\* what a target type has not read is missed, and what was not selected left out
LEMMA SyncCompletes ==
    ASSUME SyncInv, NEW w \in Workers, Sync!CompleteSync(w) PROVE SyncInv'
<1> DEFINE l == frame[w].loc
           n == Len(r1.rows)
           out == {r \in DOMAIN r1.rows : r > r1.last /\ r1.rows[r].table \notin l.targets}
           late == {r \in DOMAIN r1.rows : LET t == r1.rows[r].table
                                           IN t \in l.targets /\ r > l.read[t]}
<1>1. /\ Goto(w, "ack", <<>>)
      /\ job' = [job EXCEPT !.status = "completed"]
      /\ r1' = [r1 EXCEPT !.last = n]
      /\ r3' = r3 \cup late /\ r2' = r2 /\ r4' = r4 \cup out
  BY DEF Sync!CompleteSync, Sync!Loc, Sync!Goto, Goto
<1>2. /\ job.status # "none" /\ Reads(w)
      /\ \A t \in l.targets : DealtOf(t, l.read[t])
  BY DEF Sync!CompleteSync, Sync!At, Sync!Loc, SyncInv, SyncTask, Finished
<1>3. /\ DOMAIN job' = DOMAIN job /\ job'.system = job.system /\ job'.targets = job.targets
      /\ job'.status = "completed" /\ job.targets \subseteq Sync!Targets
  BY <1>1, <1>2 DEF SyncInv, SourceOk
<1>4. DOMAIN r1' = DOMAIN r1 /\ r1'.rows = r1.rows /\ r1'.last = n
  BY <1>1 DEF SyncInv, SourceOk
<1>5. r1.rows \in Seq(Sync!Row) /\ n \in Nat /\ DOMAIN r1.rows = 1..n
  BY DEF SyncInv, SourceOk
<1>6. Grows /\ SourceOk'
  <2> HIDE DEF n, late, out
  <2>1. /\ r1.last \in Nat /\ r1.last <= n
        /\ {"status", "system", "targets"} \subseteq DOMAIN job /\ DOMAIN r1 = {"rows", "last"}
    BY DEF SyncInv, SourceOk, n
  <2>2. Grows
    BY <1>1, <1>3, <1>4, <1>5, <2>1 DEF Grows, n
  <2> QED BY <1>1, <1>3, <1>4, <1>5, <2>1, <2>2 DEF SourceOk, Sync!Targets, Sync!Row, n
<1>7. ASSUME NEW r \in 1..n PROVE Ok(r)'
  <2> DEFINE t == r1.rows[r].table
  <2>1. t \in Sync!Targets
    <3>1. r1.rows[r] \in Sync!Row
      BY <1>5
    <3> QED BY <3>1 DEF Sync!Row
  <2>2. CASE t \notin l.targets
    <3>1. CASE r > r1.last
      BY <1>1, <1>4, <1>5, <2>2, <3>1 DEF Ok
    <3>2. CASE r <= r1.last
      <4>1. Ok(r)
        BY <1>5, <3>2 DEF SyncInv, SourceOk, Dealt
      <4> QED BY <1>1, <1>4, <4>1 DEF Ok
    <3> QED BY <1>5, <3>1, <3>2 DEF SyncInv, SourceOk
  <2>3. CASE t \in l.targets /\ r > l.read[t]
    BY <1>1, <1>4, <1>5, <2>3 DEF Ok
  <2>4. CASE t \in l.targets /\ r <= l.read[t]
    <3>1. Ok(r)
      BY <1>2, <2>4 DEF DealtOf
    <3> QED BY <1>1, <1>4, <3>1 DEF Ok
  <2>5. l.read[t] \in Nat
    BY <1>2, <2>1 DEF Reads
  <2> QED BY <1>5, <2>2, <2>3, <2>4, <2>5
<1>8. Dealt(r1.last)'
  BY <1>4, <1>7 DEF Dealt
<1>9. /\ Frames' /\ frame'[w].pc = "ack"
      /\ \A v \in Workers \ {w} : frame'[v] = frame[v]
  BY <1>1, FrameMoves DEF SyncInv
<1>10. SyncTask(w)'
  BY <1>9 DEF SyncTask
<1> QED BY <1>6, <1>8, <1>9, <1>10, SyncStep

LEMMA SourceGrowth ==
    ASSUME SyncInv, Sync!SourceGrows PROVE SyncInv'
<1>1. PICK row \in Sync!Row : r1' = [r1 EXCEPT !.rows = Append(@, row)]
  BY DEF Sync!SourceGrows
<1>2. UNCHANGED <<job, frame, r2, r3, r4>>
  BY DEF Sync!SourceGrows, Sync!taskVars
<1>3. DOMAIN r1' = DOMAIN r1 /\ r1'.rows = Append(r1.rows, row) /\ r1'.last = r1.last
  BY <1>1 DEF SyncInv, SourceOk
<1>4. /\ r1.rows \in Seq(Sync!Row) /\ r1'.rows \in Seq(Sync!Row)
      /\ Len(r1.rows) \in Nat /\ Len(r1'.rows) = Len(r1.rows) + 1
      /\ \A r \in 1..Len(r1.rows) : r1'.rows[r] = r1.rows[r]
  BY <1>3 DEF SyncInv, SourceOk
<1>5. r1.last \in Nat /\ r1.last <= Len(r1.rows)
  BY DEF SyncInv, SourceOk
<1>6. Grows
  BY <1>2, <1>3, <1>4, <1>5 DEF Grows
<1>7. SourceOk'
  BY <1>2, <1>3, <1>4, <1>5 DEF SyncInv, SourceOk, Sync!Targets, Sync!Row
<1>8. Dealt(r1.last)'
  BY <1>3, <1>5, <1>6, DealtStays DEF SyncInv
<1> QED BY <1>2, <1>6, <1>7, <1>8, SyncQuiet

LEMMA SyncInitially == Sync!Init => SyncInv
BY DEF Sync!Init, Sync!QueueInit, Sync!IdleFrame, SyncInv, SyncTask, SourceOk, Dealt, Frames, FramesIn,
       Sync!Row

\* An incremental sync never starts past a row that nobody has stored: what
\* lies before last_sync_at is stored, without content, appeared while a
\* completed sync ran, or lay in the table that the sync which passed it left out
\* (sync_tasks.py:220).
THEOREM NothingSkippedThm == Spec => []NothingSkipped
<1>1. Init => (focus = "sync" => SyncInv)
  BY SyncInitially DEF Init
<1>2. (focus = "sync" => SyncInv) /\ [Next]_vars => (focus = "sync" => SyncInv)'
  <2> SUFFICES ASSUME SyncInv, [Next]_vars, focus = "sync" PROVE SyncInv'
    BY DEF Next, vars
  <2>1. CASE UNCHANGED vars
    BY <2>1 DEF vars, taskVars, SyncInv, SyncTask, SourceOk, Dealt, DealtOf, Ok, Reads, Finished,
                 Converting, Frames, FramesIn
  <2>2. CASE Sync!Next
    <3>1. ASSUME NEW w \in Workers, Sync!Work(w) PROVE SyncInv'
      BY <3>1, SyncLeaves, SyncPrepares, SyncFetches, SyncStores, SyncEndsTarget, SyncCompletes
         DEF Sync!Work, Sync!Fails, Sync!FailSync
    <3> QED BY <2>2, <3>1, SyncHandlers, SourceGrowth DEF Sync!Next
  <2> QED BY <2>1, <2>2 DEF Next
<1>3. (focus = "sync" => SyncInv) => NothingSkipped
  BY DEF SyncInv, NothingSkipped, Sync!NothingSkipped, Dealt, Ok
<1> QED BY <1>1, <1>2, <1>3, PTL DEF Spec

-----------------------------------------------------------------------------
(* The crawler.  While no two crawls overlap, one actor crawls at a time,  *)
(* and what it is about to insert was not stored when it asked.  r1, r2    *)
(* and r3 are copies, feed and overlap.                                    *)

Actors == Clients \cup Workers
Crawls(a) == News!Stage(a) \in {"fetch", "hash", "save"}

\* what one reading of the feed can bring
OneReading(loc) ==
    /\ "got" \in DOMAIN loc /\ loc.got \in [News!Entries -> Nat]
    /\ \A e \in News!Entries : loc.got[e] <= News!Listed(e)

NewsShape ==
    /\ Frames
    /\ DOMAIN call = Clients /\ \A c \in Clients : DOMAIN call[c] = {"op", "seen"}
    /\ r1 \in [News!Entries -> Nat] /\ r2 \in Seq(Nat)
    /\ \A a \in Actors : Crawls(a) => OneReading(News!Local(a))

\* the articles an actor is about to insert are not stored
IsNew(a) ==
    News!Stage(a) = "save" => \A e \in News!Entries : News!Local(a).got[e] = 0 \/ r1[e] = 0

NewsInv ==
    /\ NewsShape
    /\ ~r3 => /\ \A a, b \in Actors : Crawls(a) /\ Crawls(b) => a = b
              /\ \A e \in News!Entries : r1[e] <= News!Listed(e)
              /\ \A a \in Actors : IsNew(a)

\* a move of one actor
LEMMA ActorMoves ==
    ASSUME NewsShape, NEW a \in Actors, NEW s, NEW loc, News!Move(a, s, loc)
    PROVE  /\ Frames'
           /\ DOMAIN call' = Clients /\ \A c \in Clients : DOMAIN call'[c] = {"op", "seen"}
           /\ News!Local(a)' = loc
           /\ News!Stage(a)' = s \/ (s = "none" /\ News!Stage(a)' = "ack")
           /\ \A b \in Actors \ {a} :
                 News!Stage(b)' = News!Stage(b) /\ News!Local(b)' = News!Local(b)
<1>1. CASE a \in Clients
  <2>1. call' = [call EXCEPT ![a] = [op |-> s, seen |-> loc]] /\ UNCHANGED frame
    BY <1>1 DEF News!Move
  <2>2. /\ DOMAIN call' = Clients /\ \A c \in Clients : DOMAIN call'[c] = {"op", "seen"}
        /\ call'[a].op = s /\ call'[a].seen = loc /\ \A c \in Clients \ {a} : call'[c] = call[c]
    BY <1>1, <2>1 DEF NewsShape
  <2>3. Frames'
    BY <2>1 DEF NewsShape, Frames, FramesIn
  <2> QED BY <1>1, <2>1, <2>2, <2>3 DEF News!Stage, News!Local, Actors
<1>2. CASE a \notin Clients
  <2>1. a \in Workers /\ UNCHANGED call
    BY <1>2 DEF News!Move, Actors
  <2>2. Goto(a, IF s = "none" THEN "ack" ELSE s, loc)
    BY <1>2 DEF News!Move, Goto, News!Goto
  <2>3. /\ Frames' /\ frame'[a].pc = (IF s = "none" THEN "ack" ELSE s) /\ frame'[a].loc = loc
        /\ \A v \in Workers \ {a} : frame'[v] = frame[v]
    BY <2>1, <2>2, FrameMoves DEF NewsShape
  <2> QED BY <1>2, <2>1, <2>3 DEF News!Stage, News!Local, Actors, NewsShape
<1> QED BY <1>1, <1>2

\* a step of a that stores nothing and starts no crawl
LEMMA CrawlStep ==
    ASSUME NewsInv, NEW a \in Actors, UNCHANGED <<r1, r2, r3>>, Frames',
           DOMAIN call' = Clients, \A c \in Clients : DOMAIN call'[c] = {"op", "seen"},
           \A b \in Actors \ {a} : News!Stage(b)' = News!Stage(b) /\ News!Local(b)' = News!Local(b),
           Crawls(a)' => Crawls(a),
           Crawls(a)' => OneReading(News!Local(a)'), IsNew(a)'
    PROVE  NewsInv'
<1>1. \A b \in Actors \ {a} : /\ Crawls(b)' <=> Crawls(b)
                              /\ IsNew(b)' <=> IsNew(b)
  BY DEF Crawls, IsNew, News!Entries
<1>2. NewsShape'
  BY <1>1 DEF NewsInv, NewsShape, News!Entries, News!Listed, OneReading
<1> QED BY <1>1, <1>2 DEF NewsInv, News!Entries, News!Listed

\* a crawl begins: if no other is under way it is the only one
LEMMA CrawlBegins ==
    ASSUME NewsInv, NEW a \in Actors, NEW since, News!Begin(a, since), UNCHANGED <<r1, r2>>
    PROVE  NewsInv'
<1> DEFINE loc == [row |-> job, since |-> since, got |-> [e \in News!Entries |-> 0], bad |-> FALSE]
<1>1. News!Move(a, "fetch", loc)
  BY DEF News!Begin
<1>2. ~r3' => ~r3 /\ \A b \in Actors : ~Crawls(b)
  BY DEF News!Begin, News!Crawling, Crawls, Actors
<1>3. OneReading(loc)
  BY DEF OneReading, NewsInv, NewsShape, News!Listed
<1> HIDE DEF loc
<1>4. /\ Frames'
      /\ DOMAIN call' = Clients /\ \A c \in Clients : DOMAIN call'[c] = {"op", "seen"}
      /\ News!Local(a)' = loc /\ News!Stage(a)' = "fetch"
      /\ \A b \in Actors \ {a} : News!Stage(b)' = News!Stage(b) /\ News!Local(b)' = News!Local(b)
  BY <1>1, ActorMoves DEF NewsInv
<1>5. NewsShape'
  BY <1>3, <1>4 DEF NewsInv, NewsShape, News!Entries, News!Listed, OneReading, Crawls
<1>6. ~r3' => \A b \in Actors \ {a} : ~Crawls(b)'
  BY <1>2, <1>4 DEF Crawls
<1>7. \A b \in Actors \ {a} : IsNew(b) => IsNew(b)'
  BY <1>4 DEF IsNew, News!Entries
<1>8. IsNew(a)'
  BY <1>4 DEF IsNew
<1> QED BY <1>2, <1>5, <1>6, <1>7, <1>8 DEF NewsInv, News!Entries, News!Listed

\* rows of the articles go
LEMMA ArticlesGo ==
    ASSUME NewsInv, UNCHANGED <<frame, call, r2, r3>>,
           NEW gone, r1' = [e \in News!Entries |-> IF e \in gone THEN 0 ELSE r1[e]]
    PROVE  NewsInv'
<1>1. \A e \in News!Entries : r1'[e] = 0 \/ r1'[e] = r1[e]
  OBVIOUS
<1>2. \A a \in Actors : /\ News!Stage(a)' = News!Stage(a) /\ News!Local(a)' = News!Local(a)
                        /\ Crawls(a)' <=> Crawls(a)
  BY DEF News!Stage, News!Local, Crawls
<1>3. NewsShape'
  BY <1>2 DEF NewsInv, NewsShape, Frames, FramesIn, News!Entries, News!Listed, OneReading
<1>4. \A a \in Actors : IsNew(a) => IsNew(a)'
  BY <1>1, <1>2 DEF IsNew, News!Entries
<1>5. \A e \in News!Entries : 0 <= News!Listed(e) /\ News!Listed(e)' = News!Listed(e)
  BY DEF NewsInv, NewsShape, News!Listed
<1> QED BY <1>1, <1>2, <1>3, <1>4, <1>5 DEF NewsInv, NewsShape, News!Entries

\* the feed lists another article
LEMMA FeedGrows ==
    ASSUME NewsInv, UNCHANGED <<frame, call, r1, r3>>, NEW n \in Nat, r2' = Append(r2, n)
    PROVE  NewsInv'
<1>1. r2' \in Seq(Nat)
  BY DEF NewsInv, NewsShape
<1>2. \A e \in News!Entries : News!Listed(e) \in Nat /\ News!Listed(e)' \in Nat
                                 /\ News!Listed(e) <= News!Listed(e)'
  BY DEF NewsInv, NewsShape, News!Listed
<1>3. \A a \in Actors : /\ News!Stage(a)' = News!Stage(a) /\ News!Local(a)' = News!Local(a)
                        /\ Crawls(a)' <=> Crawls(a)
  BY DEF News!Stage, News!Local, Crawls
<1>4. ASSUME NEW a \in Actors, OneReading(News!Local(a)) PROVE OneReading(News!Local(a))'
  <2> DEFINE got == News!Local(a).got
  <2>1. /\ News!Local(a)' = News!Local(a)
        /\ got \in [News!Entries -> Nat] /\ \A e \in News!Entries : got[e] <= News!Listed(e)
    BY <1>3, <1>4 DEF OneReading
  <2>2. \A e \in News!Entries : got[e] <= News!Listed(e)'
    BY <1>2, <2>1
  <2> QED BY <1>4, <2>1, <2>2 DEF OneReading, News!Entries
<1>5. NewsShape'
  BY <1>1, <1>3, <1>4 DEF NewsInv, NewsShape, Frames, FramesIn, News!Entries
<1>6. \A a \in Actors : IsNew(a) => IsNew(a)'
  BY <1>3 DEF IsNew, News!Entries
<1>7. ~r3' => \A e \in News!Entries : r1'[e] <= News!Listed(e)'
  BY <1>2 DEF NewsInv, NewsShape
<1> QED BY <1>3, <1>5, <1>6, <1>7 DEF NewsInv, News!Entries

LEMMA NewsAsideKeeps == ASSUME NewsInv, UNCHANGED <<frame, call, r1, r2, r3>> PROVE NewsInv'
<1>1. \A a \in Actors : /\ News!Stage(a)' = News!Stage(a) /\ News!Local(a)' = News!Local(a)
                        /\ (Crawls(a)' <=> Crawls(a)) /\ (IsNew(a)' <=> IsNew(a))
  BY DEF News!Stage, News!Local, Crawls, IsNew, News!Entries
<1>2. NewsShape'
  BY <1>1 DEF NewsInv, NewsShape, Frames, FramesIn, OneReading, News!Entries, News!Listed
<1> QED BY <1>1, <1>2 DEF NewsInv, News!Entries, News!Listed

LEMMA NewsHandlers ==
    ASSUME NewsInv, NEW c \in Clients,
           News!TriggerCrawl(c) \/ News!UpdateSource(c) \/ News!DeleteSource(c) \/ News!DeleteArticles(c)
    PROVE  NewsInv'
<1>1. CASE News!TriggerCrawl(c)
  <2>1. PICK since \in {0, job.since} : News!Begin(c, since) /\ UNCHANGED <<r1, r2>>
    BY <1>1 DEF News!TriggerCrawl
  <2> QED BY <2>1, CrawlBegins DEF Actors
<1>2. CASE News!UpdateSource(c)
  <2>1. UNCHANGED <<frame, call, r1, r2, r3>>
    BY <1>2 DEF News!UpdateSource, News!newsVars
  <2> QED BY <2>1, NewsAsideKeeps
<1>3. CASE News!DeleteSource(c)
  <2>1. UNCHANGED <<frame, call, r2, r3>>
    BY <1>3 DEF News!DeleteSource
  <2>2. r1' = [e \in News!Entries |-> IF e \in News!Entries THEN 0 ELSE r1[e]]
    BY <1>3 DEF News!DeleteSource
  <2> QED BY <2>1, <2>2, ArticlesGo
<1>4. CASE News!DeleteArticles(c)
  <2>1. PICK gone \in SUBSET News!Entries :
           r1' = [e \in News!Entries |-> IF e \in gone THEN 0 ELSE r1[e]]
    BY <1>4 DEF News!DeleteArticles
  <2>2. UNCHANGED <<frame, call, r2, r3>>
    BY <1>4 DEF News!DeleteArticles
  <2> QED BY <2>1, <2>2, ArticlesGo
<1> QED BY <1>1, <1>2, <1>3, <1>4

LEMMA NewsCrawls ==
    ASSUME NewsInv, NEW a \in Actors, News!Crawl(a) PROVE NewsInv'
<1> USE DEF News!newsVars
<1>1. ASSUME NEW s, NEW loc, News!Move(a, s, loc), UNCHANGED <<r1, r2, r3>>, Crawls(a),
             s \in {"hash", "save", "none"},
             s # "none" => OneReading(loc),
             s = "save" => \A e \in News!Entries : loc.got[e] = 0 \/ r1[e] = 0
      PROVE  NewsInv'
  <2>1. /\ Frames'
        /\ DOMAIN call' = Clients /\ \A c \in Clients : DOMAIN call'[c] = {"op", "seen"}
        /\ News!Local(a)' = loc /\ (News!Stage(a)' = s \/ News!Stage(a)' = "ack")
        /\ \A b \in Actors \ {a} : News!Stage(b)' = News!Stage(b) /\ News!Local(b)' = News!Local(b)
    BY <1>1, ActorMoves DEF NewsInv
  <2>2. IsNew(a)'
    BY <1>1, <2>1 DEF IsNew, News!Entries
  <2>3. Crawls(a)' => OneReading(News!Local(a)')
    BY <1>1, <2>1 DEF Crawls
  <2> QED BY <1>1, <2>1, <2>2, <2>3, CrawlStep
<1>2. CASE News!Fetch(a)
  <2> DEFINE fresh == News!Fresh(News!Local(a).since)
             loc(got) == [News!Local(a) EXCEPT !.got = got, !.bad = got # fresh]
  <2>1. PICK got \in [News!Entries -> 0..MaxTimes] :
           (\A e \in News!Entries : got[e] <= fresh[e]) /\ News!Move(a, "hash", loc(got))
    BY <1>2 DEF News!Fetch
  <2>2. Crawls(a) /\ UNCHANGED <<r1, r2, r3>> /\ OneReading(News!Local(a))
    BY <1>2 DEF News!Fetch, Crawls, NewsInv, NewsShape
  <2>3. \A e \in News!Entries : fresh[e] \in Nat /\ fresh[e] <= News!Listed(e)
    BY DEF News!Fresh, News!Listed, NewsInv, NewsShape
  <2>4. got \in [News!Entries -> Nat]
    BY <2>1, MaxTimesAssumption
  <2>5. \A e \in News!Entries : News!Listed(e) \in Nat
    BY DEF News!Listed, NewsInv, NewsShape
  <2>6. "got" \in DOMAIN loc(got) /\ loc(got).got = got
    BY <2>2 DEF OneReading
  <2> HIDE DEF fresh, loc
  <2>7. OneReading(loc(got))
    BY <2>1, <2>3, <2>4, <2>5, <2>6 DEF OneReading
  <2> QED BY <1>1, <2>1, <2>2, <2>7
<1>3. CASE News!FetchFails(a)
  <2> DEFINE loc == [News!Local(a) EXCEPT !.bad = TRUE]
  <2>1. Crawls(a) /\ UNCHANGED <<r1, r2, r3>> /\ OneReading(News!Local(a))
    BY <1>3 DEF News!FetchFails, Crawls, NewsInv, NewsShape
  <2>2. OneReading(loc)
    BY <2>1 DEF OneReading
  <2>3. News!Move(a, "hash", loc)
    BY <1>3 DEF News!FetchFails
  <2> HIDE DEF loc
  <2> QED BY <1>1, <2>1, <2>2, <2>3
<1>4. CASE News!FilterStored(a)
  <2> DEFINE kept == [e \in News!Entries |-> IF r1[e] = 0 THEN News!Local(a).got[e] ELSE 0]
             loc == [News!Local(a) EXCEPT !.got = kept]
  <2>1. News!Move(a, "save", loc) /\ Crawls(a) /\ UNCHANGED <<r1, r2, r3>> /\ OneReading(News!Local(a))
    BY <1>4 DEF News!FilterStored, Crawls, NewsInv, NewsShape
  <2>2. /\ kept \in [News!Entries -> Nat]
        /\ \A e \in News!Entries : kept[e] <= News!Listed(e) /\ (kept[e] = 0 \/ r1[e] = 0)
    <3>1. \A e \in News!Entries : 0 <= News!Listed(e)
      BY DEF News!Listed, NewsInv, NewsShape
    <3> QED BY <2>1, <3>1 DEF OneReading
  <2>3. "got" \in DOMAIN loc /\ loc.got = kept
    BY <2>1 DEF OneReading
  <2> HIDE DEF kept, loc
  <2>4. OneReading(loc)
    BY <2>2, <2>3 DEF OneReading
  <2> QED BY <1>1, <2>1, <2>2, <2>3, <2>4
<1>5. CASE News!SaveFails(a)
  <2>1. News!Move(a, "none", <<>>) /\ Crawls(a) /\ UNCHANGED <<r1, r2, r3>>
    BY <1>5 DEF News!SaveFails, Crawls
  <2> QED BY <1>1, <2>1
<1>6. CASE News!CrawlRaises(a)
  <2>1. News!Move(a, "none", <<>>) /\ Crawls(a) /\ UNCHANGED <<r1, r2, r3>>
    BY <1>6 DEF News!CrawlRaises, Crawls
  <2> QED BY <1>1, <2>1
<1>7. CASE News!Save(a)
  <2>1. /\ News!Move(a, "none", <<>>) /\ News!Stage(a) = "save" /\ UNCHANGED <<r2, r3>>
        /\ r1' = [e \in News!Entries |-> r1[e] + News!Local(a).got[e]]
        /\ OneReading(News!Local(a)) /\ r1 \in [News!Entries -> Nat]
    BY <1>7 DEF News!Save, NewsInv, NewsShape, Crawls
  <2>2. /\ Frames'
        /\ DOMAIN call' = Clients /\ \A c \in Clients : DOMAIN call'[c] = {"op", "seen"}
        /\ News!Stage(a)' \in {"none", "ack"}
        /\ \A b \in Actors \ {a} : News!Stage(b)' = News!Stage(b) /\ News!Local(b)' = News!Local(b)
    BY <2>1, ActorMoves DEF NewsInv
  <2>3. r1' \in [News!Entries -> Nat]
    BY <2>1 DEF OneReading
  <2>4. NewsShape'
    <3>1. \A b \in Actors : Crawls(b)' => b # a /\ Crawls(b)
      BY <2>2 DEF Crawls
    <3>2. \A b \in Actors \ {a} : OneReading(News!Local(b)) => OneReading(News!Local(b))'
      BY <2>1, <2>2 DEF OneReading, News!Entries, News!Listed
    <3> QED BY <2>1, <2>2, <2>3, <3>1, <3>2 DEF NewsInv, NewsShape, News!Entries
  <2>5. ASSUME ~r3
        PROVE  /\ \A e \in News!Entries : r1'[e] <= News!Listed(e)
               /\ \A b \in Actors : ~Crawls(b)'
    <3>1. IsNew(a) /\ \A e \in News!Entries : r1[e] <= News!Listed(e)
      BY <2>5 DEF NewsInv
    <3>2. \A b \in Actors \ {a} : ~Crawls(b)
      BY <2>1, <2>5 DEF NewsInv, Crawls
    <3>3. \A e \in News!Entries : r1'[e] \in {r1[e], News!Local(a).got[e]}
      BY <2>1, <3>1 DEF IsNew, OneReading
    <3> QED BY <2>1, <2>2, <3>1, <3>2, <3>3 DEF Crawls, OneReading
  <2>6. ~r3 => \A b \in Actors : IsNew(b)'
    BY <2>5 DEF IsNew, Crawls
  <2> QED BY <2>1, <2>4, <2>5, <2>6 DEF NewsInv, News!Entries, News!Listed
<1> QED BY <1>2, <1>3, <1>4, <1>5, <1>6, <1>7 DEF News!Crawl

LEMMA NewsWorks ==
    ASSUME NewsInv, NEW w \in Workers,
           News!OpenCrawl(w) \/ (News!Delivery(w) /\ UNCHANGED News!newsVars)
    PROVE  NewsInv'
<1>0. w \in Actors /\ w \notin Clients
  BY ActorsDiffer DEF Actors
<1>1. CASE News!OpenCrawl(w)
  <2>1. CASE News!Begin(w, job.since)
    BY <1>0, <1>1, <2>1, CrawlBegins DEF News!OpenCrawl
  <2>2. CASE News!Move(w, "none", <<>>) /\ UNCHANGED r3
    <3>1. /\ Frames'
          /\ DOMAIN call' = Clients /\ \A c \in Clients : DOMAIN call'[c] = {"op", "seen"}
          /\ News!Stage(w)' \in {"none", "ack"}
          /\ \A b \in Actors \ {w} : News!Stage(b)' = News!Stage(b) /\ News!Local(b)' = News!Local(b)
      BY <1>0, <2>2, ActorMoves DEF NewsInv
    <3>2. UNCHANGED <<r1, r2, r3>>
      BY <1>1, <2>2 DEF News!OpenCrawl
    <3> QED BY <1>0, <3>1, <3>2, CrawlStep DEF Crawls, IsNew
  <2> QED BY <1>1, <2>1, <2>2 DEF News!OpenCrawl
<1>2. CASE News!Delivery(w) /\ UNCHANGED News!newsVars
  <2>1. Delivery(w) /\ UNCHANGED <<call, r1, r2, r3>>
    BY <1>2 DEF News!newsVars, Delivery, Take, Ack, Crash, Kill, At, Fault, IdleFrame,
          News!Delivery, News!Take, News!Ack, News!Crash, News!Kill, News!At, News!Fault, News!IdleFrame
  <2>2. /\ Frames' /\ frame'[w].pc \in {"open", "idle"}
        /\ \A v \in Workers \ {w} : frame'[v] = frame[v]
    BY <2>1, FrameDelivers DEF NewsInv, NewsShape
  <2>3. /\ News!Stage(w)' \in {"open", "idle"}
        /\ \A b \in Actors \ {w} : News!Stage(b)' = News!Stage(b) /\ News!Local(b)' = News!Local(b)
    BY <1>0, <2>1, <2>2 DEF News!Stage, News!Local, Actors
  <2>4. DOMAIN call' = Clients /\ \A c \in Clients : DOMAIN call'[c] = {"op", "seen"}
    BY <2>1 DEF NewsInv, NewsShape
  <2> QED BY <1>0, <2>1, <2>2, <2>3, <2>4, CrawlStep DEF Crawls, IsNew
<1> QED BY <1>1, <1>2

LEMMA NewsInitially == News!Init => NewsInv
<1> SUFFICES ASSUME News!Init PROVE NewsInv
  OBVIOUS
<1>1. \A a \in Actors : News!Stage(a) \in {"none", "idle"}
  BY DEF News!Init, News!QueueInit, News!IdleFrame, News!NoCall, News!Stage, Actors
<1>2. NewsShape
  BY <1>1 DEF News!Init, News!QueueInit, News!IdleFrame, News!NoCall, NewsShape, Frames, FramesIn, Crawls
<1> QED BY <1>1, <1>2 DEF News!Init, NewsInv, Crawls, IsNew, News!Listed

\* Crawls that do not overlap store an article in one of them only, however
\* often the feed lists it, although the hash has no unique constraint: the query
\* for stored hashes and the insert are one crawl's, and no other inserts in
\* between (models/hot_news.py:63).
THEOREM ArticleOnceThm == Spec => []ArticleOnce
<1>1. Init => (focus = "news" => NewsInv)
  BY NewsInitially DEF Init
<1>2. (focus = "news" => NewsInv) /\ [Next]_vars => (focus = "news" => NewsInv)'
  <2> SUFFICES ASSUME NewsInv, [Next]_vars, focus = "news" PROVE NewsInv'
    BY DEF Next, vars
  <2>0. ASSUME UNCHANGED <<frame, call, r1, r2, r3>> PROVE NewsInv'
    BY <2>0, NewsAsideKeeps
  <2>1. CASE UNCHANGED vars
    BY <2>0, <2>1 DEF vars, taskVars
  <2>2. CASE News!Next
    <3>1. CASE News!CrawlAll
      BY <2>0, <3>1 DEF News!CrawlAll, News!newsVars
    <3>2. CASE News!Publish
      <4>1. PICK n \in 1..MaxTimes : r2' = Append(r2, n)
        BY <3>2 DEF News!Publish
      <4>2. n \in Nat /\ UNCHANGED <<frame, call, r1, r3>>
        BY <3>2, MaxTimesAssumption DEF News!Publish, News!taskVars
      <4> QED BY <4>1, <4>2, FeedGrows
    <3> QED BY <2>2, <3>1, <3>2, NewsHandlers, NewsCrawls, NewsWorks DEF News!Next, Actors
  <2> QED BY <2>1, <2>2 DEF Next
<1>3. (focus = "news" => NewsInv) => ArticleOnce
  BY DEF NewsInv, ArticleOnce, News!ArticleOnce
<1> QED BY <1>1, <1>2, <1>3, PTL DEF Spec

-----------------------------------------------------------------------------
(* Dataset profiles.  An import that overlaps no other finds no records    *)
(* but those it deletes.  r1 to r5 are records, nextImport, qa, rivals and *)
(* overlap.                                                                *)

AtWork(c) == call[c].op \in Prof!Importing

\* nobody else imports, and what is left of the old records is to go
Alone(c) ==
    /\ \A d \in Clients \ {c} : ~AtWork(d)
    /\ call[c].op \in {"insert", "backfill"} => r1 = {}
    /\ call[c].op = "replace" => r1 = call[c].seen

ProfInv ==
    /\ DOMAIN call = Clients /\ \A c \in Clients : DOMAIN call[c] = {"op", "seen"}
    /\ ~r5 => \E i : r1 \subseteq Prof!Sample(i)
    /\ \A c \in Clients : AtWork(c) /\ c \notin r4 => Alone(c)

\* a handler or worker that imports nothing
LEMMA ProfQuiet ==
    ASSUME ProfInv, UNCHANGED <<r1, r4, r5>>, DOMAIN call' = Clients,
           \A c \in Clients : /\ DOMAIN call'[c] = {"op", "seen"}
                              /\ call'[c] = call[c] \/ ~AtWork(c)'
    PROVE  ProfInv'
<1>1. \A c \in Clients : AtWork(c)' => AtWork(c) /\ call'[c] = call[c]
  BY DEF AtWork
<1> QED BY <1>1 DEF ProfInv, Alone

\* one client goes to an operation that is no import
LEMMA ProfGoes ==
    ASSUME ProfInv, NEW c \in Clients, NEW s, NEW seen, Prof!To(c, s, seen)
    PROVE  /\ DOMAIN call' = Clients /\ \A d \in Clients : DOMAIN call'[d] = {"op", "seen"}
           /\ call'[c].op = s /\ call'[c].seen = seen
           /\ \A d \in Clients \ {c} : call'[d] = call[d]
BY DEF ProfInv, Prof!To

LEMMA ProfMoves ==
    ASSUME ProfInv, NEW a \in Clients \cup Workers, NEW s, Prof!Move(a, s)
    PROVE  /\ DOMAIN call' = Clients /\ \A d \in Clients : DOMAIN call'[d] = {"op", "seen"}
           /\ \A d \in Clients : call'[d] = call[d] \/ call'[d].op = s
<1>1. CASE a \in Clients
  BY <1>1 DEF ProfInv, Prof!Move
<1>2. CASE a \notin Clients
  BY <1>2 DEF ProfInv, Prof!Move
<1> QED BY <1>1, <1>2

LEMMA ProfRuns ==
    ASSUME ProfInv, NEW a \in Clients \cup Workers, Prof!Run(a) PROVE ProfInv'
<1>1. UNCHANGED <<r1, r4, r5>>
  BY DEF Prof!Run, Prof!Start, Prof!Load, Prof!Build, Prof!Analyse, Prof!Final, Prof!NoRows,
         Prof!CommitFails, Prof!profVars
<1>2. \/ \E s \in {"load", "build", "analyse", "final", "none", "except"} : Prof!Move(a, s)
      \/ a \in Clients /\ Prof!To(a, "none", "none")
  BY DEF Prof!Run, Prof!Start, Prof!Load, Prof!Build, Prof!Analyse, Prof!Final, Prof!NoRows,
         Prof!CommitFails
<1>3. /\ DOMAIN call' = Clients /\ \A c \in Clients : DOMAIN call'[c] = {"op", "seen"}
      /\ \A c \in Clients : \/ call'[c] = call[c]
                           \/ call'[c].op \in {"load", "build", "analyse", "final", "none", "except"}
  BY <1>2, ProfMoves, ProfGoes
<1>4. \A c \in Clients : call'[c] = call[c] \/ ~AtWork(c)'
  BY <1>3 DEF AtWork, Prof!Importing
<1> QED BY <1>1, <1>3, <1>4, ProfQuiet

\* an import begins: the others that are at work are rivals from now on
LEMMA ProfBegins ==
    ASSUME ProfInv, NEW c \in Clients, NEW s \in Prof!Importing, NEW seen, Prof!To(c, s, seen),
           ~AtWork(c), Prof!BeginsImport(c), r1' = r1 \/ r1' = {},
           s \in {"insert", "backfill"} => r1' = {}, s = "replace" => seen = r1'
    PROVE  ProfInv'
<1>1. /\ DOMAIN call' = Clients /\ \A d \in Clients : DOMAIN call'[d] = {"op", "seen"}
      /\ call'[c].op = s /\ call'[c].seen = seen
      /\ \A d \in Clients \ {c} : call'[d] = call[d]
  BY ProfGoes
<1>2. /\ r5' = r5
      /\ \A d \in Clients \ {c} : AtWork(d) => d \in r4' /\ c \in r4'
  BY DEF Prof!BeginsImport, AtWork
<1>3. ~r5' => \E i : r1' \subseteq Prof!Sample(i)
  BY <1>2 DEF ProfInv
<1>4. ASSUME NEW d \in Clients, AtWork(d)', d \notin r4' PROVE Alone(d)'
  <2>1. d = c
    BY <1>1, <1>2, <1>4 DEF AtWork
  <2>2. \A e \in Clients \ {c} : ~AtWork(e)'
    BY <1>1, <1>2, <1>4, <2>1 DEF AtWork
  <2> QED BY <1>1, <2>1, <2>2 DEF Alone
<1> QED BY <1>1, <1>3, <1>4 DEF ProfInv

\* an import ends with what one import inserts, if it overlapped no other
LEMMA ProfEnds ==
    ASSUME ProfInv, NEW c \in Clients, AtWork(c), NEW s, NEW seen, Prof!To(c, s, seen),
           s \notin Prof!Importing, Prof!EndsImport(c),
           c \notin r4 => \E i : r1' \subseteq Prof!Sample(i)
    PROVE  ProfInv'
<1>1. /\ DOMAIN call' = Clients /\ \A d \in Clients : DOMAIN call'[d] = {"op", "seen"}
      /\ call'[c].op = s
      /\ \A d \in Clients \ {c} : call'[d] = call[d]
  BY ProfGoes
<1>2. r4' = r4 /\ r5' = (c \in r4)
  BY DEF Prof!EndsImport
<1>3. ASSUME NEW d \in Clients, AtWork(d)', d \notin r4' PROVE Alone(d)'
  <2>1. d # c /\ AtWork(d)
    BY <1>1, <1>3 DEF AtWork
  <2>2. FALSE
    BY <1>2, <1>3, <2>1 DEF ProfInv, Alone
  <2> QED BY <2>2
<1> QED BY <1>1, <1>2, <1>3 DEF ProfInv

LEMMA ProfImports ==
    ASSUME ProfInv, NEW c \in Clients,
           \/ Prof!ImportTraining(c) \/ Prof!ImportEvalSet(c) \/ Prof!Backfill(c)
           \/ Prof!ReplaceRecords(c) \/ Prof!InsertRecords(c)
    PROVE  ProfInv'
<1> USE DEF Prof!Importing
<1>1. CASE Prof!ImportTraining(c)
  <2>1. Prof!To(c, "replace", r1) /\ Prof!BeginsImport(c) /\ r1' = r1 /\ ~AtWork(c)
    BY <1>1 DEF Prof!ImportTraining, Prof!Request, AtWork
  <2> QED BY <2>1, ProfBegins
<1>2. CASE Prof!ImportEvalSet(c)
  <2>1. Prof!To(c, "insert", "none") /\ Prof!BeginsImport(c) /\ r1' = {} /\ ~AtWork(c)
    BY <1>2 DEF Prof!ImportEvalSet, Prof!Request, AtWork
  <2> QED BY <2>1, ProfBegins
<1>3. CASE Prof!Backfill(c)
  <2>1. Prof!To(c, "backfill", "none") /\ Prof!BeginsImport(c) /\ r1' = {} /\ ~AtWork(c)
    BY <1>3 DEF Prof!Backfill, AtWork
  <2> QED BY <2>1, ProfBegins
<1>4. CASE Prof!ReplaceRecords(c)
  <2>0. AtWork(c) /\ call[c].op = "replace"
    BY <1>4 DEF Prof!ReplaceRecords, AtWork
  <2>1. CASE /\ r1' = (r1 \ call[c].seen) \cup Prof!Sample(r2)
             /\ Prof!NewProfile(c) /\ Prof!EndsImport(c)
    <3>1. PICK seen : Prof!To(c, "start", seen)
      BY <2>1 DEF Prof!NewProfile
    <3>2. c \notin r4 => r1' \subseteq Prof!Sample(r2)
      BY <2>0, <2>1 DEF ProfInv, Alone
    <3>3. "start" \notin Prof!Importing /\ Prof!EndsImport(c)
          /\ (c \notin r4 => \E i : r1' \subseteq Prof!Sample(i))
      BY <2>1, <3>2
    <3> QED BY <2>0, <3>1, <3>3, ProfEnds
  <2>2. CASE Prof!To(c, "none", "none") /\ UNCHANGED <<r1, r4, r5>>
    <3>1. /\ DOMAIN call' = Clients /\ \A d \in Clients : DOMAIN call'[d] = {"op", "seen"}
          /\ call'[c].op = "none" /\ \A d \in Clients \ {c} : call'[d] = call[d]
      BY <2>2, ProfGoes
    <3> QED BY <2>2, <3>1, ProfQuiet DEF AtWork
  <2> QED BY <1>4, <2>1, <2>2 DEF Prof!ReplaceRecords
<1>5. CASE Prof!InsertRecords(c)
  <2>0. AtWork(c) /\ call[c].op \in {"insert", "backfill"} /\ Prof!EndsImport(c)
    BY <1>5 DEF Prof!InsertRecords, AtWork
  <2>1. c \notin r4 => r1' \subseteq Prof!Sample(r2)
    BY <1>5, <2>0 DEF Prof!InsertRecords, ProfInv, Alone
  <2>2. PICK s, seen : s \in {"none", "start", "run"} /\ Prof!To(c, s, seen)
    BY <1>5 DEF Prof!InsertRecords, Prof!NewProfile, Prof!AddProfile
  <2>3. s \notin Prof!Importing /\ (c \notin r4 => \E i : r1' \subseteq Prof!Sample(i))
    BY <2>1, <2>2 DEF Prof!Importing
  <2> QED BY <2>0, <2>2, <2>3, ProfEnds
<1> QED BY <1>1, <1>2, <1>3, <1>4, <1>5

LEMMA ProfHandlers == ASSUME ProfInv, NEW c \in Clients, Prof!Handlers(c) PROVE ProfInv'
<1> USE DEF Prof!profVars
<1>1. CASE Prof!CreateProfile(c) \/ Prof!Rerun(c)
  <2>1. UNCHANGED <<r1, r4, r5>>
    BY <1>1 DEF Prof!CreateProfile, Prof!Rerun
  <2>2. PICK s, seen : s \in {"clear", "none", "start", "run"} /\ Prof!To(c, s, seen)
    BY <1>1 DEF Prof!CreateProfile, Prof!AddProfile, Prof!Rerun
  <2>3. /\ DOMAIN call' = Clients /\ \A d \in Clients : DOMAIN call'[d] = {"op", "seen"}
        /\ call'[c].op = s /\ \A d \in Clients \ {c} : call'[d] = call[d]
    BY <2>2, ProfGoes
  <2>4. ~AtWork(c)'
    BY <2>2, <2>3 DEF AtWork, Prof!Importing
  <2> QED BY <2>1, <2>3, <2>4, ProfQuiet
<1>2. CASE Prof!DeleteProfile(c) \/ Prof!EditQa(c)
  <2>1. UNCHANGED <<call, r1, r4, r5>>
    BY <1>2 DEF Prof!DeleteProfile, Prof!EditQa
  <2> QED BY <2>1, ProfQuiet DEF ProfInv
<1>3. CASE (Prof!StartTask(c) \/ Prof!Dispatch(c) \/ Prof!DispatchFails(c)) /\ UNCHANGED Prof!profVars
  <2>1. \/ call' = [call EXCEPT ![c].op = "dispatch"]
        \/ call' = [call EXCEPT ![c] = [op |-> "none", seen |-> "none"]]
    BY <1>3 DEF Prof!StartTask, Prof!Dispatch, Prof!DispatchFails, Prof!Finish, Prof!NoCall
  <2>2. /\ DOMAIN call' = Clients /\ \A d \in Clients : DOMAIN call'[d] = {"op", "seen"}
        /\ call'[c].op \in {"dispatch", "none"} /\ \A d \in Clients \ {c} : call'[d] = call[d]
    BY <2>1 DEF ProfInv
  <2>3. ~AtWork(c)'
    BY <2>2 DEF AtWork, Prof!Importing
  <2> QED BY <1>3, <2>2, <2>3, ProfQuiet
<1>4. CASE Prof!Run(c) BY <1>4, ProfRuns
<1> QED BY <1>1, <1>2, <1>3, <1>4, ProfImports DEF Prof!Handlers

LEMMA ProfWorks == ASSUME ProfInv, NEW w \in Workers, Prof!Work(w) PROVE ProfInv'
<1> USE DEF Prof!profVars
<1>1. CASE Prof!Run(w) BY <1>1, ProfRuns
<1>2. CASE \/ (Prof!Delivery(w) \/ Prof!MarkFailed(w) \/ Prof!MarkFailedLost(w)) /\ UNCHANGED Prof!profVars
           \/ Prof!OpenProfile(w)
  <2>1. UNCHANGED <<call, r1, r4, r5>>
    BY <1>2 DEF Prof!Delivery, Prof!Take, Prof!Ack, Prof!Crash, Prof!Kill, Prof!MarkFailed,
                Prof!MarkFailedLost, Prof!OpenProfile
  <2> QED BY <2>1, ProfQuiet DEF ProfInv
<1> QED BY <1>1, <1>2 DEF Prof!Work

\* An import that is repeated, also after one that broke down midway, leaves
\* every sample in the dataset once (evalset/profile_runner.py:68,
\* training_data_profiles.py:132), for any number of clients, unless the last
\* one to end overlapped another.
THEOREM ImportIsIdempotentThm == Spec => []ImportIsIdempotent
<1>1. Init => (focus = "prof" => ProfInv)
  <2>1. Prof!Init => ProfInv
    <3> SUFFICES ASSUME Prof!Init PROVE ProfInv
      OBVIOUS
    <3>1. call = [c \in Clients |-> [op |-> "none", seen |-> "none"]]
      BY DEF Prof!Init, Prof!QueueInit, Prof!NoCall
    <3>2. r1 \subseteq Prof!Sample(0)
      BY DEF Prof!Init
    <3>3. \A c \in Clients : ~AtWork(c)
      BY <3>1 DEF AtWork, Prof!Importing
    <3> QED BY <3>1, <3>2, <3>3 DEF ProfInv
  <2> QED BY <2>1 DEF Init
<1>2. (focus = "prof" => ProfInv) /\ [Next]_vars => (focus = "prof" => ProfInv)'
  <2> SUFFICES ASSUME ProfInv, [Next]_vars, focus = "prof" PROVE ProfInv'
    BY DEF Next, vars
  <2>1. CASE UNCHANGED vars
    BY <2>1, ProfQuiet DEF vars, taskVars, ProfInv
  <2>2. CASE Prof!Next
    BY <2>2, ProfHandlers, ProfWorks DEF Prof!Next
  <2> QED BY <2>1, <2>2 DEF Next
<1>3. (focus = "prof" => ProfInv) => ImportIsIdempotent
  BY DEF ProfInv, ImportIsIdempotent, Prof!ImportIsIdempotent, Prof!Sample
<1> QED BY <1>1, <1>2, <1>3, PTL DEF Spec

-----------------------------------------------------------------------------
(* QA records.  A transaction that no other has overlapped still sees the  *)
(* rows and the record_count it has read.  r1 is qa.                       *)

\* a transaction, or another request
TxOk(c) ==
    /\ DOMAIN call[c] = {"op", "seen"}
    /\ call[c].op = "tx" =>
          /\ DOMAIN call[c].seen = {"add", "del", "ready", "alone", "read", "count"}
          /\ call[c].seen.alone /\ Build!Exists =>
                /\ call[c].seen.read = job.count
                /\ call[c].seen.count = Cardinality((r1 \cup call[c].seen.add) \ call[c].seen.del)

BuildInv ==
    /\ {"status", "count"} \subseteq DOMAIN job
    /\ DOMAIN call = Clients
    /\ \A c \in Clients : TxOk(c)

\* a step that leaves the rows and their count, or after which the dataset is gone
KeepsCount ==
    /\ {"status", "count"} \subseteq DOMAIN job'
    /\ Build!Exists' => Build!Exists /\ job'.count = job.count /\ r1' = r1

LEMMA BuildCardinality == \A S : Build!Cardinality(S) = Cardinality(S)
BY DEF Build!Cardinality, Cardinality

\* a step that is no commit of rows, of one client
LEMMA BuildCalls ==
    ASSUME BuildInv, KeepsCount, NEW c \in Clients, NEW r, DOMAIN r = {"op", "seen"}, r.op # "tx",
           call' = [call EXCEPT ![c] = r]
    PROVE  BuildInv'
BY DEF BuildInv, KeepsCount, TxOk

LEMMA BuildQuiet == ASSUME BuildInv, KeepsCount, UNCHANGED call PROVE BuildInv'
BY DEF BuildInv, KeepsCount, TxOk

\* a transaction is opened
LEMMA TxOpens ==
    ASSUME BuildInv, NEW c \in Clients, NEW add, NEW del, NEW ready, UNCHANGED <<job, r1>>,
           call' = [call EXCEPT ![c] = [op |-> "tx", seen |-> Build!Tx(add, del, ready)]]
    PROVE  BuildInv'
<1>1. /\ call'[c] = [op |-> "tx", seen |-> Build!Tx(add, del, ready)]
      /\ DOMAIN call' = Clients /\ \A d \in Clients \ {c} : call'[d] = call[d]
  BY DEF BuildInv
<1>2. TxOk(c)'
  <2>1. /\ call'[c].op = "tx" /\ call'[c].seen.add = add /\ call'[c].seen.del = del
        /\ call'[c].seen.read = job.count
        /\ call'[c].seen.count = Cardinality((r1 \cup add) \ del)
        /\ DOMAIN call'[c] = {"op", "seen"}
        /\ DOMAIN call'[c].seen = {"add", "del", "ready", "alone", "read", "count"}
    <3> DEFINE tx == Build!Tx(add, del, ready)
    <3>1. /\ tx.add = add /\ tx.del = del /\ tx.read = job.count
          /\ tx.count = Cardinality((r1 \cup add) \ del)
          /\ DOMAIN tx = {"add", "del", "ready", "alone", "read", "count"}
      BY BuildCardinality DEF Build!Tx
    <3> HIDE DEF tx
    <3>2. call'[c] = [op |-> "tx", seen |-> tx]
      BY <1>1 DEF tx
    <3> QED BY <3>1, <3>2
  <2> QED BY <2>1 DEF TxOk
<1>3. \A d \in Clients \ {c} : TxOk(d)'
  BY <1>1 DEF BuildInv, TxOk, Build!Exists
<1> QED BY <1>1, <1>2, <1>3 DEF BuildInv

\* what an overlapped transaction counted is no longer relied on
LEMMA TxOverlaps ==
    ASSUME BuildInv, NEW kept \in SUBSET Clients, NEW c \in Clients, c \notin kept,
           call'[c] = Build!Overlapped(kept)[c]
    PROVE  TxOk(c)'
<1>1. CASE call[c].op = "tx"
  <2> DEFINE tx == [call[c].seen EXCEPT !.alone = FALSE]
  <2>1. call'[c] = [call[c] EXCEPT !.seen = tx]
    BY <1>1 DEF Build!Overlapped
  <2>2. /\ DOMAIN call[c] = {"op", "seen"}
        /\ DOMAIN tx = {"add", "del", "ready", "alone", "read", "count"} /\ tx.alone = FALSE
    BY <1>1 DEF BuildInv, TxOk
  <2> HIDE DEF tx
  <2>3. /\ DOMAIN call'[c] = {"op", "seen"} /\ call'[c].op = "tx"
        /\ DOMAIN call'[c].seen = {"add", "del", "ready", "alone", "read", "count"}
        /\ call'[c].seen.alone = FALSE
    BY <1>1, <2>1, <2>2
  <2> QED BY <2>3 DEF TxOk
<1>2. CASE call[c].op # "tx"
  BY <1>2 DEF Build!Overlapped, BuildInv, TxOk
<1> QED BY <1>1, <1>2

\* a commit of rows leaves the transaction's count at their number
LEMMA TxCommits ==
    ASSUME BuildInv, NEW c \in Clients, Build!CommitTx(c)
    PROVE  /\ BuildInv'
           /\ Build!Exists /\ call[c].seen.alone => job'.count = Cardinality(r1')
<1> DEFINE t == call[c].seen
<1>1. CASE Build!Exists
  <2>1. /\ r1' = (r1 \cup t.add) \ t.del
        /\ job' = [job EXCEPT !.count = Build!Write(t.read, t.count, @),
                              !.status = IF t.ready THEN "ready" ELSE @]
        /\ call' = [Build!Overlapped({c}) EXCEPT ![c] = Build!NoCall]
    BY <1>1 DEF Build!CommitTx
  <2>2. call[c].op = "tx"
    BY DEF Build!CommitTx
  <2>3. /\ DOMAIN job' = DOMAIN job
        /\ job'.count = Build!Write(t.read, t.count, job.count)
    BY <2>1 DEF BuildInv
  <2>4. t.alone => job'.count = Cardinality(r1')
    BY <1>1, <2>1, <2>2, <2>3 DEF BuildInv, TxOk, Build!Write
  <2>5. /\ DOMAIN call' = Clients /\ call'[c] = Build!NoCall
        /\ \A d \in Clients \ {c} : call'[d] = Build!Overlapped({c})[d]
    BY <2>1 DEF Build!Overlapped
  <2>6. TxOk(c)'
    BY <2>5 DEF TxOk, Build!NoCall
  <2>7. \A d \in Clients \ {c} : TxOk(d)'
    BY <2>5, TxOverlaps
  <2> QED BY <2>3, <2>4, <2>5, <2>6, <2>7 DEF BuildInv
<1>2. CASE ~Build!Exists
  <2>1. UNCHANGED <<job, r1>> /\ call' = [call EXCEPT ![c] = Build!NoCall]
    BY <1>2 DEF Build!CommitTx, Build!Finish
  <2> QED BY <1>2, <2>1, BuildCalls DEF KeepsCount, BuildInv, Build!Exists, Build!NoCall
<1> QED BY <1>1, <1>2

\* a step of a client other than a commit of rows changes its own request, or
\* none, and does not end a transaction
LEMMA BuildHandlers ==
    ASSUME BuildInv, NEW c \in Clients, Build!Handlers(c), ~Build!CommitTx(c)
    PROVE  /\ BuildInv'
           /\ \A d \in Clients : call[d].op = "tx" => call'[d] = call[d]
<1> USE DEF Build!buildVars
<1>0. ASSUME NEW r, call' = [call EXCEPT ![c] = r], call[c].op # "tx"
      PROVE  \A d \in Clients : call[d].op = "tx" => call'[d] = call[d]
  BY <1>0 DEF BuildInv
<1>1. ASSUME Build!Request(c) PROVE call[c].op # "tx"
  BY <1>1 DEF Build!Request, Build!NoCall
<1>2. CASE Build!AddRecords(c)
  <2>1. PICK n \in 0..MaxAdd, ready \in BOOLEAN :
           call' = [call EXCEPT ![c] = [op |-> "tx", seen |-> Build!Tx(Build!NewRows(n), {}, ready)]]
    BY <1>2 DEF Build!AddRecords
  <2>2. UNCHANGED <<job, r1>> /\ call[c].op # "tx"
    BY <1>1, <1>2 DEF Build!AddRecords
  <2> QED BY <1>0, <2>1, <2>2, TxOpens
<1>3. CASE Build!DeleteRecords(c)
  <2>1. UNCHANGED <<job, r1>> /\ call[c].op # "tx"
    BY <1>1, <1>3 DEF Build!DeleteRecords
  <2>2. PICK del \in (SUBSET r1) \ {{}} :
           \/ call' = call
           \/ call' = [call EXCEPT ![c] = [op |-> "tx", seen |-> Build!Tx({}, del, FALSE)]]
    BY <1>3 DEF Build!DeleteRecords
  <2>3. CASE call' = call
    BY <2>1, <2>3, BuildQuiet DEF KeepsCount, BuildInv, Build!Exists
  <2> QED BY <1>0, <2>1, <2>2, <2>3, TxOpens
<1>4. CASE Build!BackfillTargets(c)
  <2>1. UNCHANGED <<job, r1>> /\ call[c].op # "tx"
    BY <1>1, <1>4 DEF Build!BackfillTargets
  <2>2. call' = [call EXCEPT ![c] = [op |-> "tx", seen |-> Build!Tx({}, {}, FALSE)]]
    BY <1>4 DEF Build!BackfillTargets
  <2> QED BY <1>0, <2>1, <2>2, TxOpens
<1>5. CASE Build!DeleteDataset(c)
  <2>1. /\ UNCHANGED call
        /\ \/ UNCHANGED <<job, r1>>
           \/ job' = [job EXCEPT !.status = "gone", !.count = 0]
    BY <1>5 DEF Build!DeleteDataset
  <2>2. KeepsCount
    BY <2>1 DEF KeepsCount, BuildInv, Build!Exists
  <2> QED BY <2>1, <2>2, BuildQuiet
<1>6. ASSUME NEW r, DOMAIN r = {"op", "seen"}, r.op # "tx", call[c].op # "tx",
             call' = [call EXCEPT ![c] = r], UNCHANGED r1,
             {"status", "count"} \subseteq DOMAIN job',
             job'.status = job.status, job'.count = job.count
      PROVE  /\ BuildInv'
             /\ \A d \in Clients : call[d].op = "tx" => call'[d] = call[d]
  <2>1. KeepsCount
    BY <1>6 DEF KeepsCount, Build!Exists
  <2> QED BY <1>0, <1>6, <2>1, BuildCalls
<1>7. {"status", "count"} \subseteq DOMAIN job
  BY DEF BuildInv
<1>8. CASE Build!RequestGenerate(c)
  BY <1>1, <1>6, <1>7, <1>8 DEF Build!RequestGenerate
<1>9. CASE Build!SendGenerate(c)
  <2>1. call[c].op # "tx" /\ UNCHANGED <<job, r1>>
    BY <1>9 DEF Build!SendGenerate
  <2>2. CASE call' = [call EXCEPT ![c] = [op |-> "gen_note", seen |-> nextMid]]
    BY <1>6, <1>7, <2>1, <2>2
  <2>3. CASE call' = [call EXCEPT ![c] = [op |-> "none", seen |-> "none"]]
    BY <1>6, <1>7, <2>1, <2>3
  <2> QED BY <1>9, <2>2, <2>3 DEF Build!SendGenerate, Build!Finish, Build!NoCall
<1>10. CASE Build!NoteGenerate(c) \/ Build!CommitPoll(c)
  <2>1. /\ call[c].op # "tx" /\ UNCHANGED r1
        /\ call' = [call EXCEPT ![c] = [op |-> "none", seen |-> "none"]]
    BY <1>10 DEF Build!NoteGenerate, Build!CommitPoll, Build!Finish, Build!NoCall
  <2>2. /\ DOMAIN job' = DOMAIN job /\ job'.status = job.status /\ job'.count = job.count
    BY <1>7, <1>10 DEF Build!NoteGenerate, Build!CommitPoll
  <2> QED BY <1>6, <1>7, <2>1, <2>2
<1>11. CASE Build!Poll(c)
  <2>1. UNCHANGED <<job, r1>> /\ call[c].op # "tx"
    BY <1>1, <1>11 DEF Build!Poll
  <2>2. PICK m \in job.told :
           \/ call' = call
           \/ call' = [call EXCEPT ![c] = [op |-> "poll",
                        seen |-> [state |-> r4[m], id |-> job.genId, status |-> job.genStatus]]]
    BY <1>11 DEF Build!Poll
  <2>3. CASE call' = call
    BY <2>1, <2>3, BuildQuiet DEF KeepsCount, BuildInv, Build!Exists
  <2>4. CASE call' # call
    BY <1>6, <1>7, <2>1, <2>2, <2>4
  <2> QED BY <2>3, <2>4
<1> QED BY <1>2, <1>3, <1>4, <1>5, <1>8, <1>9, <1>10, <1>11 DEF Build!Handlers

LEMMA BuildWorks ==
    ASSUME BuildInv, NEW w \in Workers, Build!Work(w)
    PROVE  /\ BuildInv'
           /\ \A d \in Clients : call[d].op = "tx" => call'[d].op = "tx"
<1> USE DEF Build!buildVars
<1>0. {"status", "count"} \subseteq DOMAIN job
  BY DEF BuildInv
<1>1. ASSUME UNCHANGED <<call, r1>>, {"status", "count"} \subseteq DOMAIN job',
             Build!Exists' => Build!Exists, job'.count = job.count
      PROVE  BuildInv' /\ \A d \in Clients : call[d].op = "tx" => call'[d].op = "tx"
  BY <1>1, BuildQuiet DEF KeepsCount
<1>2. CASE \/ Build!Delivery(w) /\ UNCHANGED Build!buildVars
           \/ Build!LoadSources(w) \/ Build!Generate(w) \/ Build!Fails(w) \/ Build!Return(w)
  <2>1. UNCHANGED <<job, call, r1>>
    BY <1>2 DEF Build!Delivery, Build!Take, Build!Ack, Build!Crash, Build!Kill, Build!LoadSources,
                Build!Generate, Build!Fails, Build!Raise, Build!DbError, Build!Return
  <2> QED BY <1>0, <1>1, <2>1 DEF Build!Exists
<1>3. CASE Build!OpenGenerate(w) \/ Build!FailGenerate(w)
  <2>1. /\ UNCHANGED <<call, r1>>
        /\ \/ UNCHANGED job
           \/ Build!Exists /\ job' = [job EXCEPT !.status = "generating"]
           \/ Build!Exists /\ job' = [job EXCEPT !.status = "failed", !.genId = 0, !.genStatus = "none"]
    BY <1>3 DEF Build!OpenGenerate, Build!FailGenerate
  <2>2. /\ DOMAIN job' = DOMAIN job /\ job'.count = job.count
        /\ Build!Exists' => Build!Exists
    BY <1>0, <2>1 DEF Build!Exists
  <2> QED BY <1>0, <1>1, <2>1, <2>2
<1>4. CASE Build!CommitGenerate(w)
  <2>1. call' = Build!Overlapped({})
    BY <1>4 DEF Build!CommitGenerate
  <2>2. \A c \in Clients : TxOk(c)'
    BY <2>1, TxOverlaps
  <2>3. DOMAIN job' = DOMAIN job
    BY <1>4 DEF Build!CommitGenerate
  <2>4. DOMAIN call' = Clients /\ \A d \in Clients : call[d].op = "tx" => call'[d].op = "tx"
    <3>1. \A d \in Clients : call[d].op = "tx" => call'[d] = [call[d] EXCEPT !.seen.alone = FALSE]
      BY <2>1 DEF Build!Overlapped
    <3> QED BY <2>1, <3>1 DEF Build!Overlapped, BuildInv, TxOk
  <2> QED BY <1>0, <2>2, <2>3, <2>4 DEF BuildInv
<1> QED BY <1>2, <1>3, <1>4 DEF Build!Work

LEMMA BuildStep ==
    ASSUME BuildInv, Build!Next PROVE BuildInv' /\ Build!Recounts
<1> SUFFICES BuildInv' /\ \A c \in Clients :
                call[c].op = "tx" /\ call'[c] = Build!NoCall /\ Build!Exists /\ call[c].seen.alone =>
                    job'.count = Cardinality(r1')
  BY BuildCardinality DEF Build!Recounts
<1> USE DEF Build!NoCall
<1>1. ASSUME NEW c \in Clients, Build!CommitTx(c)
      PROVE  /\ BuildInv'
             /\ \A d \in Clients \ {c} : call[d].op = "tx" => call'[d].op = "tx"
             /\ Build!Exists /\ call[c].seen.alone => job'.count = Cardinality(r1')
  <2>1. \A d \in Clients \ {c} : call[d].op = "tx" => call'[d].op = "tx"
    <3>1. CASE Build!Exists
      <4>1. \A d \in Clients \ {c} : call[d].op = "tx" =>
               call'[d] = [call[d] EXCEPT !.seen.alone = FALSE]
        BY <1>1, <3>1 DEF Build!CommitTx, Build!Overlapped
      <4> QED BY <4>1 DEF BuildInv, TxOk
    <3>2. CASE ~Build!Exists
      BY <1>1, <3>2 DEF Build!CommitTx, Build!Finish, BuildInv
    <3> QED BY <3>1, <3>2
  <2> QED BY <1>1, <2>1, TxCommits
<1>2. ASSUME NEW r \in r1, Build!Refer(r)
      PROVE  BuildInv' /\ \A d \in Clients : call[d].op = "tx" => call'[d] = call[d]
  <2>1. UNCHANGED <<job, call, r1>>
    BY <1>2 DEF Build!Refer, Build!taskVars
  <2> QED BY <2>1, BuildQuiet DEF KeepsCount, BuildInv, Build!Exists
<1>3. CASE \E c \in Clients : Build!CommitTx(c)
  BY <1>1, <1>3
<1>4. CASE \E c \in Clients : Build!Handlers(c) /\ ~Build!CommitTx(c)
  BY <1>4, BuildHandlers
<1>5. CASE \E w \in Workers : Build!Work(w)
  BY <1>5, BuildWorks
<1>6. CASE \E r \in r1 : Build!Refer(r)
  BY <1>2, <1>6
<1> QED BY <1>3, <1>4, <1>5, <1>6 DEF Build!Next

\* The transaction of a handler that no other overlapped leaves record_count
\* at the number of QA rows, whatever the count was before and whichever
\* generation runs beside it (documents.py:67).
THEOREM RecountsThm == Spec => Recounts
<1>1. Init => (focus = "build" => BuildInv)
  <2>1. Build!Init => BuildInv
    BY DEF Build!Init, Build!QueueInit, Build!NoCall, BuildInv, TxOk
  <2> QED BY <2>1 DEF Init
<1>2. (focus = "build" => BuildInv) /\ [Next]_vars
        => (focus = "build" => BuildInv)' /\ [focus = "build" => Build!Recounts]_vars
  <2> SUFFICES ASSUME BuildInv, [Next]_vars, focus = "build"
               PROVE  BuildInv' /\ [focus = "build" => Build!Recounts]_vars
    BY DEF Next, vars
  <2>1. CASE UNCHANGED vars
    BY <2>1, BuildQuiet DEF vars, taskVars, KeepsCount, BuildInv, Build!Exists
  <2>2. CASE Build!Next
    BY <2>2, BuildStep
  <2> QED BY <2>1, <2>2 DEF Next
<1> QED BY <1>1, <1>2, PTL DEF Spec, Recounts

-----------------------------------------------------------------------------
(* Training data evaluations.  An execution has an id no row of another    *)
(* carries, and brings its rows and its counters to the commit together.   *)
(* Columns stay as a rival wrote them only where the store found counters  *)
(* it had not read.  r1, r3 and r4 are made, nextExec and overtaken.       *)

Scoring(w) == frame[w].pc \in {"score", "commit"}

\* the counters are those of the rows of execution e
CountsOf(e) ==
    /\ {r.sample : r \in Train!RowsOf(e)} = Train!Sample
    /\ job.passed = Cardinality({r \in Train!RowsOf(e) : r.status = "passed"})
    /\ job.passed + job.failed = NSamples
    /\ job.summary.passed = job.passed
Scored == r4 \/ \E e \in {r.exec : r \in r1} : CountsOf(e)

\* what a commit of the task would write
Concluded(l) ==
    /\ {"passed", "failed", "summary"} \subseteq DOMAIN l.done
    /\ \A r \in l.rows : r.exec = l.exec
    /\ {r.sample : r \in l.rows} = Train!Sample
    /\ l.done.passed = Cardinality({r \in l.rows : r.status = "passed"})
    /\ l.done.passed + l.done.failed = NSamples
    /\ l.done.summary.passed = l.done.passed

TrainTask(w) ==
    Scoring(w) =>
        /\ "exec" \in DOMAIN frame[w].loc
        /\ frame[w].loc.exec \in Nat /\ frame[w].loc.exec < r3
        /\ \A r \in r1 : r.exec # frame[w].loc.exec
        /\ frame[w].pc = "commit" => Concluded(frame[w].loc)

TrainRows ==
    /\ {"status", "passed", "failed", "summary"} \subseteq DOMAIN job
    /\ r3 \in Nat /\ \A r \in r1 : r.exec \in Nat /\ r.exec < r3
    /\ job.status = "completed" => Scored

\* a status that start_task will restore
Restores(c) ==
    /\ DOMAIN call[c] = {"op", "seen"}
    /\ call[c].op \in {"run", "dispatch"} /\ call[c].seen = "completed" /\ job.status # "gone" => Scored

TrainInv ==
    /\ FramesIn(LoadWorkers) /\ TrainRows
    /\ \A w \in LoadWorkers : TrainTask(w)
    /\ \A v, w \in LoadWorkers :
          Scoring(v) /\ Scoring(w) /\ v # w => frame[v].loc.exec # frame[w].loc.exec
    /\ DOMAIN call = Clients
    /\ \A c \in Clients : Restores(c)

\* the scores and the counters they belong to are still there
KeepsScores ==
    /\ {"status", "passed", "failed", "summary"} \subseteq DOMAIN job'
    /\ r1' = r1 /\ r4' = r4
    /\ job'.passed = job.passed /\ job'.failed = job.failed /\ job'.summary = job.summary
    /\ r3 \in Nat => r3' \in Nat /\ r3' >= r3

LEMMA ScoresStay == ASSUME KeepsScores PROVE Scored' <=> Scored
<1>1. \A e : Train!RowsOf(e)' = Train!RowsOf(e)
  BY DEF KeepsScores, Train!RowsOf
<1>2. \A e : CountsOf(e)' <=> CountsOf(e)
  BY <1>1 DEF KeepsScores, CountsOf, Train!Sample
<1> QED BY <1>2 DEF Scored, KeepsScores

LEMMA TrainTaskStays ==
    ASSUME TrainInv, KeepsScores, NEW w \in LoadWorkers, frame'[w] = frame[w] PROVE TrainTask(w)'
<1>1. frame[w].pc = "commit" => Concluded(frame'[w].loc)
  BY DEF TrainInv, TrainTask, Scoring
<1> QED BY <1>1 DEF TrainInv, TrainTask, TrainRows, KeepsScores, Scoring

\* a request handler: it may not say completed of what is not scored
LEMMA TrainCalls ==
    ASSUME TrainInv, KeepsScores, UNCHANGED frame,
           job'.status = "completed" => Scored,
           DOMAIN call' = Clients,
           \A c \in Clients : /\ DOMAIN call'[c] = {"op", "seen"}
                              /\ call'[c].op \in {"run", "dispatch"} /\ call'[c].seen = "completed"
                                   /\ job'.status # "gone" => Scored
    PROVE  TrainInv'
<1>1. \A w \in LoadWorkers : TrainTask(w)' /\ (Scoring(w)' <=> Scoring(w))
  BY TrainTaskStays DEF Scoring
<1>2. TrainRows'
  BY ScoresStay DEF TrainInv, TrainRows, KeepsScores
<1>3. \A c \in Clients : Restores(c)'
  BY ScoresStay DEF Restores
<1> QED BY <1>1, <1>2, <1>3 DEF TrainInv, FramesIn

\* a step of a worker that stores nothing
LEMMA TrainMoves ==
    ASSUME TrainInv, KeepsScores, UNCHANGED call, FramesIn(LoadWorkers)',
           job'.status = "completed" => Scored, job'.status = "gone" <=> job.status = "gone",
           NEW w \in LoadWorkers, \A v \in LoadWorkers \ {w} : frame'[v] = frame[v],
           TrainTask(w)',
           Scoring(w)' => \A v \in LoadWorkers \ {w} : Scoring(v) =>
                              frame[v].loc.exec # frame'[w].loc.exec
    PROVE  TrainInv'
<1>1. \A v \in LoadWorkers \ {w} : TrainTask(v)' /\ (Scoring(v)' <=> Scoring(v))
  BY TrainTaskStays DEF Scoring
<1>2. TrainRows'
  BY ScoresStay DEF TrainInv, TrainRows, KeepsScores
<1>3. \A c \in Clients : Restores(c)'
  BY ScoresStay DEF TrainInv, Restores
<1> QED BY <1>1, <1>2, <1>3 DEF TrainInv

LEMMA TrainHandlers == ASSUME TrainInv, NEW c \in Clients, Train!Handlers(c) PROVE TrainInv'
<1> USE DEF Train!evalVars
<1>0. {"status", "passed", "failed", "summary"} \subseteq DOMAIN job /\ DOMAIN call = Clients
      /\ \A d \in Clients : DOMAIN call[d] = {"op", "seen"}
  BY DEF TrainInv, TrainRows, Restores
<1>1. \A d \in Clients : call[d].op \in {"run", "dispatch"} /\ call[d].seen = "completed"
                            /\ job.status # "gone" => Scored
  BY DEF TrainInv, Restores
<1>2. job.status = "completed" => Scored
  BY DEF TrainInv, TrainRows
<1>3. CASE Train!CreateEval(c)
  <2>1. /\ UNCHANGED <<frame, r1, r3, r4>> /\ job.status = "none"
        /\ job' = [job EXCEPT !.status = "pending"]
        /\ call' = [call EXCEPT ![c] = [op |-> "configs", seen |-> "pending"]]
    BY <1>3 DEF Train!CreateEval
  <2>2. KeepsScores /\ job'.status = "pending"
    BY <1>0, <2>1 DEF KeepsScores
  <2> QED BY <1>0, <1>1, <2>1, <2>2, TrainCalls
<1>4. CASE Train!AddConfigs(c) \/ (Train!Dispatch(c) /\ UNCHANGED Train!evalVars)
  <2>1. UNCHANGED <<job, frame, r1, r3, r4>> /\ call' = [call EXCEPT ![c] = [op |-> "none", seen |-> "none"]]
    BY <1>4 DEF Train!AddConfigs, Train!Dispatch, Train!Finish, Train!NoCall
  <2>2. KeepsScores
    BY <1>0, <2>1 DEF KeepsScores
  <2> QED BY <1>0, <1>1, <1>2, <2>1, <2>2, TrainCalls
<1>5. CASE Train!RequestRun(c)
  <2>1. /\ UNCHANGED <<job, frame, r1, r3, r4>> /\ call' = [call EXCEPT ![c] = [op |-> "run", seen |-> job.status]]
    BY <1>5 DEF Train!RequestRun, Train!Receive
  <2>2. KeepsScores
    BY <1>0, <2>1 DEF KeepsScores
  <2>3. /\ DOMAIN call' = Clients
        /\ \A d \in Clients : DOMAIN call'[d] = {"op", "seen"}
        /\ call'[c].seen = job.status /\ \A d \in Clients \ {c} : call'[d] = call[d]
    BY <1>0, <2>1
  <2> QED BY <1>1, <1>2, <2>1, <2>2, <2>3, TrainCalls
<1>6. CASE Train!DeleteEval(c)
  <2>1. /\ UNCHANGED <<frame, call, r3>> /\ r1' = {} /\ job' = [job EXCEPT !.status = "gone"]
    BY <1>6 DEF Train!DeleteEval
  <2>2. DOMAIN job' = DOMAIN job /\ job'.status = "gone"
    BY <1>0, <2>1
  <2>3. TrainRows'
    BY <2>1, <2>2 DEF TrainInv, TrainRows
  <2>4. \A w \in LoadWorkers : TrainTask(w)' /\ (Scoring(w)' <=> Scoring(w))
    BY <2>1 DEF TrainInv, TrainTask, Scoring, Concluded, Train!Sample
  <2>5. \A d \in Clients : Restores(d)'
    BY <2>1, <2>2 DEF TrainInv, Restores
  <2> QED BY <2>1, <2>3, <2>4, <2>5 DEF TrainInv, FramesIn
<1>7. CASE Train!StartTask(c) /\ UNCHANGED Train!evalVars
  <2>1. UNCHANGED <<frame, r1, r3, r4>>
    BY <1>7 DEF Train!StartTask
  <2>2. CASE /\ Train!Exists /\ job' = [job EXCEPT !.status = "running"]
             /\ call' = [call EXCEPT ![c].op = "dispatch"] /\ call[c].op = "run"
    <3>1. KeepsScores /\ job'.status = "running"
      BY <1>0, <2>1, <2>2 DEF KeepsScores
    <3>2. /\ DOMAIN call' = Clients /\ \A d \in Clients : DOMAIN call'[d] = {"op", "seen"}
          /\ call'[c].seen = call[c].seen /\ \A d \in Clients \ {c} : call'[d] = call[d]
      BY <1>0, <2>2
    <3> QED BY <1>1, <2>1, <2>2, <3>1, <3>2, TrainCalls DEF Train!Exists
  <2>3. CASE UNCHANGED job /\ call' = [call EXCEPT ![c] = [op |-> "none", seen |-> "none"]]
    <3>1. KeepsScores
      BY <1>0, <2>1, <2>3 DEF KeepsScores
    <3> QED BY <1>0, <1>1, <1>2, <2>1, <2>3, <3>1, TrainCalls
  <2> QED BY <1>7, <2>2, <2>3 DEF Train!StartTask, Train!Finish, Train!NoCall
<1>8. CASE Train!DispatchFails(c) /\ UNCHANGED Train!evalVars
  <2>1. /\ UNCHANGED <<frame, r1, r3, r4>> /\ call[c].op = "dispatch"
        /\ call' = [call EXCEPT ![c] = [op |-> "none", seen |-> "none"]]
        /\ \/ Train!Exists /\ job' = [job EXCEPT !.status = call[c].seen]
           \/ UNCHANGED job
    BY <1>8 DEF Train!DispatchFails, Train!Finish, Train!NoCall
  <2>2. KeepsScores /\ (job'.status = "completed" => Scored)
    BY <1>0, <1>1, <1>2, <2>1 DEF KeepsScores, Train!Exists
  <2>3. job.status = "gone" => job'.status = "gone"
    BY <1>0, <2>1 DEF Train!Exists
  <2> QED BY <1>0, <1>1, <2>1, <2>2, <2>3, TrainCalls
<1> QED BY <1>3, <1>4, <1>5, <1>6, <1>7, <1>8 DEF Train!Handlers

\* delivery and loss, and what leaves the try
LEMMA TrainLeaves ==
    ASSUME TrainInv, NEW w \in LoadWorkers, UNCHANGED Train!evalVars,
           \/ Train!Delivery(w) \/ Train!OpenEval(w) \/ Train!MarkFailed(w)
           \/ Train!MarkFailedLost(w) \/ Train!Fails(w)
    PROVE  TrainInv'
<1>1. UNCHANGED <<r1, r3, r4>> /\ FramesIn(LoadWorkers) /\ {"status", "passed", "failed", "summary"} \subseteq DOMAIN job
  BY DEF TrainInv, TrainRows, Train!evalVars
<1>2. UNCHANGED call
  BY DEF Train!Delivery, Train!Take, Train!Ack, Train!Crash, Train!Kill, Train!OpenEval, Train!Open, Train!MarkFailed,
         Train!MarkFailedLost, Train!Fails, Train!Raise, Train!DbError
<1>3. \/ UNCHANGED job
      \/ Train!Exists /\ (job' = [job EXCEPT !.status = "running"] \/ job' = [job EXCEPT !.status = "failed"])
  BY DEF Train!Delivery, Train!Take, Train!Ack, Train!Crash, Train!Kill, Train!OpenEval, Train!Open, Train!MarkFailed,
         Train!MarkFailedLost, Train!Fails, Train!Raise, Train!DbError
<1>4. KeepsScores /\ (job'.status = "gone" <=> job.status = "gone") /\ (job'.status = "completed" => Scored)
  BY <1>1, <1>3 DEF KeepsScores, Train!Exists, TrainInv, TrainRows
<1>5. CASE Train!Delivery(w)
  <2>1. Delivery(w)
    BY <1>5 DEF Delivery, Take, Ack, Crash, Kill, At, Fault, IdleFrame,
          Train!Delivery, Train!Take, Train!Ack, Train!Crash, Train!Kill, Train!At, Train!Fault, Train!IdleFrame
  <2>2. /\ FramesIn(LoadWorkers)' /\ frame'[w].pc \in {"open", "idle"}
        /\ \A v \in LoadWorkers \ {w} : frame'[v] = frame[v]
    BY <1>1, <2>1, DeliversIn
  <2>3. ~Scoring(w)' /\ TrainTask(w)'
    BY <2>2 DEF TrainTask, Scoring
  <2> QED BY <1>2, <1>4, <2>2, <2>3, TrainMoves
<1>6. CASE ~Train!Delivery(w)
  <2>1. \E pc \in {"begin", "ack", "except", "except_fresh"} : \E loc : Goto(w, pc, loc)
    BY <1>6 DEF Train!OpenEval, Train!Open, Train!MarkFailed, Train!MarkFailedLost, Train!Fails, Train!Raise,
                Train!DbError, Goto, Train!Goto
  <2>2. PICK pc \in {"begin", "ack", "except", "except_fresh"} : \E loc : Goto(w, pc, loc)
    BY <2>1
  <2>3. /\ FramesIn(LoadWorkers)' /\ frame'[w].pc = pc
        /\ \A v \in LoadWorkers \ {w} : frame'[v] = frame[v]
    BY <1>1, <2>2, MovesIn
  <2>4. ~Scoring(w)' /\ TrainTask(w)'
    BY <2>2, <2>3 DEF TrainTask, Scoring
  <2> QED BY <1>2, <1>4, <2>3, <2>4, TrainMoves
<1> QED BY <1>5, <1>6

LEMMA TrainCardinality == \A S : Train!Cardinality(S) = Cardinality(S)
BY DEF Train!Cardinality, Cardinality

\* one row for each sample, passed where its verdict says so
LEMMA RowsCount ==
    ASSUME NEW v \in [Train!Sample -> Train!Verdicts], NEW row,
           \A s \in Train!Sample : /\ row[s].sample = s
                                   /\ row[s].status = IF v[s] = "passed" THEN "passed" ELSE "failed",
           NEW P, P = {s \in Train!Sample : v[s] = "passed"},
           NEW Q, Q = {r \in {row[s] : s \in Train!Sample} : r.status = "passed"}
    PROVE  Cardinality(P) \in 0..NSamples /\ Cardinality(Q) = Cardinality(P)
<1> DEFINE f == [s \in P |-> row[s]]
<1>1. P \subseteq 1..NSamples /\ IsFiniteSet(1..NSamples) /\ Cardinality(1..NSamples) = NSamples
  BY FS_Interval, SamplesAssumption DEF Train!Sample
<1>2. f \in Bijection(P, Q)
  <2>1. f \in [P -> Q]
    OBVIOUS
  <2>2. \A s, t \in P : f[s] = f[t] => s = t
    <3> SUFFICES ASSUME NEW s \in P, NEW t \in P, f[s] = f[t] PROVE s = t
      OBVIOUS
    <3>1. f[s].sample = s /\ f[t].sample = t
      OBVIOUS
    <3> QED BY <3>1
  <2>3. \A r \in Q : \E s \in P : f[s] = r
    OBVIOUS
  <2> HIDE DEF f
  <2> QED BY <2>1, <2>2, <2>3 DEF Bijection, Injection, Surjection, IsInjective
<1> HIDE DEF f
<1>3. IsFiniteSet(P) /\ Cardinality(P) <= NSamples /\ Cardinality(P) \in Nat
  BY <1>1, FS_Subset, FS_CardinalityType
<1>4. Cardinality(P) = Cardinality(Q)
  BY <1>2, <1>3, FS_Bijection DEF ExistsBijection
<1> QED BY <1>3, <1>4, SamplesAssumption

\* the rows and counters of an execution are of one scoring
LEMMA TrainConcludes == ASSUME TrainInv, NEW w \in LoadWorkers, Train!Conclude(w) PROVE TrainInv'
<1> DEFINE l == frame[w].loc
<1>1. UNCHANGED <<job, call, r1, r3, r4>> /\ frame[w].pc = "score"
  BY DEF Train!Conclude, Train!evalVars, Train!At
<1>2. PICK v \in [Train!Sample -> Train!Verdicts] :
        Train!Goto(w, "commit", [exec |-> l.exec, held |-> l.held, seen |-> l.seen,
             rows |-> {[r EXCEPT !.chosen = l.chosen] : r \in Train!Row(l.exec, v)},
             done |-> [passed |-> Train!Tally(v, "passed"),
                       failed |-> NSamples - Train!Tally(v, "passed"),
                       summary |-> [passed |-> Train!Tally(v, "passed"), failed |-> Train!Tally(v, "failed"),
                                    unscored |-> Train!Tally(v, "unscored")]]])
  BY DEF Train!Conclude, Train!Loc
<1> DEFINE scored == [s \in Train!Sample |->
                         [exec |-> l.exec, sample |-> s, chosen |-> FALSE,
                          status |-> IF v[s] = "passed" THEN "passed" ELSE "failed"]]
           mark(r) == [r EXCEPT !.chosen = l.chosen]
           row == [s \in Train!Sample |-> mark(scored[s])]
           rows == {row[s] : s \in Train!Sample}
           ok == {s \in Train!Sample : v[s] = "passed"}
           passed == Cardinality(ok)
           done == [passed |-> passed, failed |-> NSamples - passed,
                    summary |-> [passed |-> passed, failed |-> Train!Tally(v, "failed"),
                                 unscored |-> Train!Tally(v, "unscored")]]
           loc == [exec |-> l.exec, held |-> l.held, seen |-> l.seen, rows |-> rows, done |-> done]
<1>3. Goto(w, "commit", loc)
  <2>1. Train!Row(l.exec, v) = {scored[s] : s \in Train!Sample}
    BY DEF Train!Row
  <2>2. {mark(r) : r \in Train!Row(l.exec, v)} = rows
    <3>1. \A s \in Train!Sample : row[s] = mark(scored[s])
      OBVIOUS
    <3> HIDE DEF scored, row, mark
    <3> QED BY <2>1, <3>1
  <2>3. Train!Tally(v, "passed") = passed
    BY TrainCardinality DEF Train!Tally
  <2> QED BY <1>2, <2>2, <2>3 DEF Goto, Train!Goto
<1>4. \A s \in Train!Sample :
         /\ row[s].exec = l.exec /\ row[s].sample = s
         /\ row[s].status = IF v[s] = "passed" THEN "passed" ELSE "failed"
  OBVIOUS
<1>5. Concluded(loc)
  <2>1. /\ {"passed", "failed", "summary"} \subseteq DOMAIN loc.done
        /\ loc.done.passed = passed /\ loc.done.failed = NSamples - passed
        /\ loc.done.summary.passed = passed
        /\ loc.rows = rows /\ loc.exec = l.exec
        /\ rows = {row[s] : s \in Train!Sample}
    OBVIOUS
  <2>0. ok = {s \in Train!Sample : v[s] = "passed"}
    OBVIOUS
  <2> HIDE DEF loc, done, row, rows, ok
  <2>2. /\ passed \in 0..NSamples
        /\ Cardinality({r \in rows : r.status = "passed"}) = passed
    <3> DEFINE stored == {r \in rows : r.status = "passed"}
    <3>1. stored = {r \in {row[s] : s \in Train!Sample} : r.status = "passed"}
      BY <2>1
    <3> HIDE DEF stored
    <3>2. \A s \in Train!Sample : /\ row[s].sample = s
                                /\ row[s].status = IF v[s] = "passed" THEN "passed" ELSE "failed"
      BY ONLY <1>4
    <3>3. Cardinality(ok) \in 0..NSamples /\ Cardinality(stored) = Cardinality(ok)
      BY ONLY <2>0, <3>1, <3>2, RowsCount, v \in [Train!Sample -> Train!Verdicts]
    <3> QED BY <3>3 DEF stored
  <2>3. \A r \in rows : r.exec = l.exec
    BY <1>4, <2>1
  <2>4. {r.sample : r \in rows} = Train!Sample
    BY <1>4, <2>1
  <2> HIDE DEF passed
  <2>5. passed + (NSamples - passed) = NSamples
    BY <2>2, SamplesAssumption
  <2> QED BY <2>1, <2>2, <2>3, <2>4, <2>5 DEF Concluded
<1>6. loc.exec = l.exec /\ "exec" \in DOMAIN loc
  OBVIOUS
<1> HIDE DEF loc, rows, row, scored, done, passed, ok
<1>7. /\ FramesIn(LoadWorkers)' /\ frame'[w].pc = "commit" /\ frame'[w].loc = loc
      /\ \A u \in LoadWorkers \ {w} : frame'[u] = frame[u]
  BY <1>3, MovesIn DEF TrainInv
<1>8. TrainTask(w)'
  <2>1. Concluded(frame'[w].loc)
    BY <1>5, <1>7
  <2> QED BY <1>1, <1>6, <1>7, <2>1 DEF TrainInv, TrainTask, Scoring
<1> QED BY <1>1, <1>6, <1>7, <1>8, TrainMoves DEF TrainInv, TrainRows, KeepsScores, Scoring

LEMMA TrainScores ==
    ASSUME TrainInv, NEW w \in LoadWorkers, Train!Prepare(w) \/ Train!ScoreChunk(w) PROVE TrainInv'
<1> DEFINE l == frame[w].loc
<1>1. CASE Train!Prepare(w)
  <2> DEFINE loc == [exec |-> r3, at |-> 1, chosen |-> r2,
                     expired |-> FALSE, held |-> TRUE, seen |-> frame[w].loc]
  <2>1. Goto(w, "score", loc) /\ UNCHANGED <<job, call, r1, r4>> /\ r3' = r3 + 1
    BY <1>1 DEF Train!Prepare, Train!Loc, Goto, Train!Goto
  <2>2. loc.exec = r3 /\ "exec" \in DOMAIN loc
    OBVIOUS
  <2> HIDE DEF loc
  <2>3. /\ FramesIn(LoadWorkers)' /\ frame'[w].pc = "score" /\ frame'[w].loc = loc
        /\ \A v \in LoadWorkers \ {w} : frame'[v] = frame[v]
    BY <2>1, MovesIn DEF TrainInv
  <2>4. r3 \in Nat /\ \A r \in r1 : r.exec \in Nat /\ r.exec < r3
    BY DEF TrainInv, TrainRows
  <2>5. TrainTask(w)'
    BY <2>1, <2>2, <2>3, <2>4 DEF TrainTask, Scoring
  <2>6. KeepsScores
    BY <2>1, <2>4 DEF TrainInv, TrainRows, KeepsScores
  <2>7. \A v \in LoadWorkers \ {w} : Scoring(v) => frame[v].loc.exec # frame'[w].loc.exec
    BY <2>2, <2>3, <2>4 DEF TrainInv, TrainTask
  <2> QED BY <2>1, <2>3, <2>5, <2>6, <2>7, TrainMoves DEF TrainInv, TrainRows
<1>2. CASE Train!ScoreChunk(w)
  <2>1. frame[w].pc = "score" /\ UNCHANGED <<job, call, r1, r3, r4>>
    BY <1>2 DEF Train!ScoreChunk, Train!At, Train!evalVars
  <2> DEFINE written == [l EXCEPT !.at = @ + ChunkSize, !.expired = FALSE]
             swallowed == [l EXCEPT !.at = @ + ChunkSize, !.expired = TRUE, !.held = FALSE]
  <2>2. PICK loc \in {written, swallowed} : Train!Goto(w, "score", loc)
    BY <1>2 DEF Train!ScoreChunk, Train!Loc
  <2>3. Goto(w, "score", loc)
    BY <2>2 DEF Goto, Train!Goto
  <2>4. loc.exec = l.exec /\ "exec" \in DOMAIN loc
    BY <2>1 DEF TrainInv, TrainTask, Scoring
  <2> HIDE DEF written, swallowed
  <2>5. /\ FramesIn(LoadWorkers)' /\ frame'[w].pc = "score" /\ frame'[w].loc = loc
        /\ \A v \in LoadWorkers \ {w} : frame'[v] = frame[v]
    BY <2>3, MovesIn DEF TrainInv
  <2>6. TrainTask(w)'
    BY <2>1, <2>4, <2>5 DEF TrainInv, TrainTask, Scoring
  <2> QED BY <2>1, <2>4, <2>5, <2>6, TrainMoves DEF TrainInv, TrainRows, KeepsScores, Scoring
<1> QED BY <1>1, <1>2

\* rows and counters are one commit
LEMMA TrainStores == ASSUME TrainInv, NEW w \in LoadWorkers, Train!Store(w) PROVE TrainInv'
<1> DEFINE l == frame[w].loc
<1>1. /\ frame[w].pc = "commit" /\ r1' = r1 \cup l.rows
      /\ job' = [status |-> "completed", passed |-> Train!Written(l, "passed"),
                 failed |-> Train!Written(l, "failed"), summary |-> Train!Written(l, "summary")]
      /\ r4' = (l.held /\ \E c \in Train!Columns : job[c] # l.seen[c])
      /\ Goto(w, "ack", <<>>) /\ UNCHANGED <<call, r3>>
  BY DEF Train!Store, Train!At, Train!Loc, Goto, Train!Goto
<1>2. /\ Concluded(l) /\ \A r \in r1 : r.exec # l.exec
      /\ l.exec \in Nat /\ l.exec < r3
  BY <1>1 DEF TrainInv, TrainTask, Scoring
<1>0. {"status", "passed", "failed", "summary"} \subseteq DOMAIN job'
  BY <1>1
<1>9. ASSUME ~r4' PROVE job'.passed = l.done.passed /\ job'.failed = l.done.failed
                         /\ job'.summary = l.done.summary
  <2>1. \A c \in Train!Columns : Train!Written(l, c) = l.done[c]
    BY <1>1, <1>9 DEF Train!Written
  <2>2. {"passed", "failed", "summary"} \subseteq Train!Columns
    BY DEF Train!Columns
  <2> QED BY <1>1, <2>1, <2>2
<1>3. ASSUME ~r4' PROVE Scored'
  <2>1. PICK e : e = l.exec
    OBVIOUS
  <2>2. Train!RowsOf(e)' = l.rows
    BY <1>1, <1>2, <2>1 DEF Train!RowsOf, Concluded
  <2>3. CountsOf(e)'
    BY <1>2, <1>3, <1>9, <2>2 DEF CountsOf, Concluded, Train!Sample
  <2>4. \E r \in l.rows : r.exec = e
    <3>1. 1 \in Train!Sample
      BY SamplesAssumption DEF Train!Sample
    <3> QED BY <1>2, <2>1, <3>1 DEF Concluded
  <2> QED BY <1>1, <2>3, <2>4 DEF Scored
<1>10. Scored'
  BY <1>3 DEF Scored
<1>4. /\ FramesIn(LoadWorkers)' /\ frame'[w].pc = "ack"
      /\ \A v \in LoadWorkers \ {w} : frame'[v] = frame[v]
  BY <1>1, MovesIn DEF TrainInv
<1>5. TrainRows'
  BY <1>0, <1>1, <1>2, <1>10 DEF TrainInv, TrainRows, Concluded
<1>6. ~Scoring(w)' /\ TrainTask(w)'
  BY <1>4 DEF Scoring, TrainTask
<1>7. ASSUME NEW v \in LoadWorkers \ {w} PROVE TrainTask(v)' /\ (Scoring(v)' <=> Scoring(v))
  <2>1. frame[v].pc = "commit" => Concluded(frame'[v].loc)
    BY <1>4 DEF TrainInv, TrainTask, Scoring
  <2>2. Scoring(v) => \A r \in l.rows : r.exec # frame[v].loc.exec
    BY <1>1, <1>2 DEF TrainInv, Scoring, Concluded
  <2> QED BY <1>1, <1>4, <2>1, <2>2 DEF TrainInv, TrainTask, Scoring
<1>8. \A c \in Clients : Restores(c)'
  BY <1>1, <1>10 DEF TrainInv, Restores
<1> QED BY <1>1, <1>4, <1>5, <1>6, <1>7, <1>8 DEF TrainInv

\* what reaches the end without a commit of its own
LEMMA TrainEnds ==
    ASSUME TrainInv, NEW w \in LoadWorkers,
           Train!ConcludeExpired(w) \/ Train!StoreFails(w) \/ Train!StoreAgain(w)
    PROVE  TrainInv'
<1>1. UNCHANGED <<job, call, r1, r3, r4>>
  BY DEF Train!ConcludeExpired, Train!StoreFails, Train!StoreAgain, Train!evalVars
<1>2. PICK pc \in {"except", "commit_again"} : \E loc : Train!Goto(w, pc, loc)
  BY DEF Train!ConcludeExpired, Train!StoreFails, Train!StoreAgain
<1>3. PICK loc : Train!Goto(w, pc, loc)
  BY <1>2
<1>4. Goto(w, pc, loc)
  BY <1>3 DEF Goto, Train!Goto
<1>5. /\ FramesIn(LoadWorkers)' /\ frame'[w].pc = pc
      /\ \A v \in LoadWorkers \ {w} : frame'[v] = frame[v]
  BY <1>4, MovesIn DEF TrainInv
<1>6. ~Scoring(w)' /\ TrainTask(w)'
  BY <1>5 DEF Scoring, TrainTask
<1> QED BY <1>1, <1>5, <1>6, TrainMoves DEF TrainInv, TrainRows, KeepsScores

LEMMA TrainInitially == Train!Init => TrainInv
BY DEF Train!Init, Train!QueueInit, Train!IdleFrame, Train!NoCall, TrainInv, TrainRows, TrainTask,
       Scoring, Restores, FramesIn

\* A completed training data evaluation has the counters of the rows that one
\* execution stored with them, unless the columns it loaded were written before
\* it committed, through reruns, redeliveries, lost connections and a dispatch
\* that restores the earlier status (training_data_eval_tasks.py:306).
THEOREM CountersMatchRowsThm == Spec => []CountersMatchRows
<1>1. Init => (focus = "train" => TrainInv)
  BY TrainInitially DEF Init
<1>2. (focus = "train" => TrainInv) /\ [Next]_vars => (focus = "train" => TrainInv)'
  <2> SUFFICES ASSUME TrainInv, [Next]_vars, focus = "train" PROVE TrainInv'
    BY DEF Next, vars
  <2>1. CASE UNCHANGED vars
    <3>1. UNCHANGED <<job, frame, call, r1, r3, r4>>
      BY <2>1 DEF vars, taskVars
    <3> QED BY <3>1, TrainCalls DEF KeepsScores, TrainInv, TrainRows, Restores
  <2>2. CASE Train!Next
    <3>1. ASSUME NEW w \in LoadWorkers, Train!Work(w) PROVE TrainInv'
      <4>1. CASE Train!Fails(w) \/ Train!OpenEval(w)
        BY <4>1, TrainLeaves DEF Train!Fails, Train!OpenEval
      <4> QED BY <3>1, <4>1, TrainLeaves, TrainScores, TrainConcludes, TrainStores, TrainEnds
              DEF Train!Work
    <3> QED BY <2>2, <3>1, TrainHandlers DEF Train!Next
  <2> QED BY <2>1, <2>2 DEF Next
<1>3. (focus = "train" => TrainInv) => CountersMatchRows
  <2> SUFFICES ASSUME focus = "train", TrainInv, job.status = "completed"
               PROVE  Train!CountersMatchRows
    BY DEF CountersMatchRows, Train!CountersMatchRows
  <2>1. Scored
    BY DEF TrainInv, TrainRows
  <2> QED BY <2>1, TrainCardinality DEF Train!CountersMatchRows, Scored, CountsOf
<1> QED BY <1>1, <1>2, <1>3, PTL DEF Spec
=============================================================================
