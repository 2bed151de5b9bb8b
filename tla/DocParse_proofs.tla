-------------------------- MODULE DocParse_proofs ---------------------------
(***************************************************************************)
(* A file of a parsing batch becomes a Document at most once, for any      *)
(* number of files, workers, clients and faults.                           *)
(*                                                                         *)
(* A batch has one message, which one worker at a time holds, so that the  *)
(* rows its session has read agree with the database on the column that    *)
(* says a Document was made.                                               *)
(***************************************************************************)
EXTENDS DocParse, TLAPS

Result == [status : {"pending", "running", "success", "failed"},
           text : BOOLEAN, doc : BOOLEAN, scored : BOOLEAN]

Busy(w) == frame[w].pc # "idle"
\* the places of a task whose session holds rows
Holds(w) == frame[w].pc \in {"next", "parse", "load_all", "batch"}

\* the fields that the steps read and write
Shape ==
    /\ "status" \in DOMAIN job
    /\ DOMAIN frame = Workers
    /\ \A w \in Workers : DOMAIN frame[w] = {"pc", "mid", "loc"}
    /\ DOMAIN call = Clients
    /\ \A c \in Clients : DOMAIN call[c] = {"op", "seen"}
    /\ DOMAIN parsed \subseteq Files /\ parsed \in [DOMAIN parsed -> Result]
    /\ saved \in [Files -> Nat]

\* the one message of the batch: being sent, in the broker or at a worker
OneMessage ==
    /\ \A m, n \in queue : m = n
    /\ \A v, w \in Workers : Busy(v) /\ Busy(w) => v = w
    /\ \A w \in Workers : Busy(w) => queue = {}
    /\ \A c \in Clients : call[c].op = "dispatch" =>
          /\ queue = {} /\ \A w \in Workers : ~Busy(w)
          /\ \A d \in Clients : call[d].op = "dispatch" => d = c
    /\ job.status = "none" => /\ queue = {} /\ \A w \in Workers : ~Busy(w)
                              /\ \A c \in Clients : call[c].op # "dispatch"

\* rows that agree with the database on the files and their documents
Agrees(rows) == rows \in [DOMAIN parsed -> Result] /\ \A f \in DOMAIN parsed : rows[f].doc = parsed[f].doc

SessionAgrees ==
    \A w \in Workers : Holds(w) /\ Exists =>
        /\ DOMAIN Loc(w) = {"todo", "at", "rows"} /\ Agrees(Loc(w).rows)
        /\ At(w, "load_all") => Loc(w).todo = DOMAIN parsed

SavedOnce ==
    /\ \A f \in Files : saved[f] <= 1
    /\ \A f \in DOMAIN parsed : saved[f] # 0 => parsed[f].doc
    /\ job.status = "none" => \A f \in Files : saved[f] = 0

ParseInv == Shape /\ OneMessage /\ SessionAgrees /\ SavedOnce

-----------------------------------------------------------------------------
\* a move of one task
LEMMA GotoMoves ==
    ASSUME Shape, NEW w \in Workers, NEW pc, NEW loc, Goto(w, pc, loc)
    PROVE  /\ DOMAIN frame' = Workers
           /\ \A v \in Workers : DOMAIN frame'[v] = {"pc", "mid", "loc"}
           /\ frame'[w].pc = pc /\ frame'[w].loc = loc
           /\ \A v \in Workers \ {w} : frame'[v] = frame[v]
BY DEF Shape, Goto

\* Steps of the busy worker w: the message stays where it is or is settled,
\* the database keeps what it says of documents, the session still agrees.
LEMMA BusyStep ==
    ASSUME ParseInv, NEW w \in Workers, Busy(w), UNCHANGED <<queue, call, saved>>,
           DOMAIN frame' = Workers, \A v \in Workers : DOMAIN frame'[v] = {"pc", "mid", "loc"},
           \A v \in Workers \ {w} : frame'[v] = frame[v],
           "status" \in DOMAIN job',
           Exists' <=> Exists, job'.status = "none" <=> job.status = "none",
           DOMAIN parsed' = DOMAIN parsed, parsed' \in [DOMAIN parsed -> Result],
           \A f \in DOMAIN parsed : parsed'[f].doc = parsed[f].doc,
           Holds(w)' /\ Exists =>
             /\ DOMAIN frame'[w].loc = {"todo", "at", "rows"}
             /\ frame'[w].loc.rows \in [DOMAIN parsed -> Result]
             /\ \A f \in DOMAIN parsed : frame'[w].loc.rows[f].doc = parsed[f].doc
             /\ frame'[w].pc = "load_all" => frame'[w].loc.todo = DOMAIN parsed
    PROVE  ParseInv'
<1>1. Shape'
  BY DEF ParseInv, Shape
<1>2. \A v \in Workers \ {w} : ~Busy(v) /\ ~Busy(v)' /\ ~Holds(v)'
  BY DEF ParseInv, OneMessage, Busy, Holds
<1>3. OneMessage'
  BY <1>2 DEF ParseInv, OneMessage
<1>4. SessionAgrees'
  BY <1>2 DEF SessionAgrees, Agrees, Loc, At
<1>5. SavedOnce'
  BY DEF ParseInv, SavedOnce, Shape
<1> QED BY <1>1, <1>3, <1>4, <1>5 DEF ParseInv

\* the same for a step that leaves the results alone
LEMMA BusyMove ==
    ASSUME ParseInv, NEW w \in Workers, Busy(w), UNCHANGED <<job, queue, call, saved, parsed>>,
           NEW pc, NEW loc, Goto(w, pc, loc),
           pc \in {"next", "parse", "load_all", "batch"} /\ Exists =>
             /\ DOMAIN loc = {"todo", "at", "rows"} /\ Agrees(loc.rows)
             /\ pc = "load_all" => loc.todo = DOMAIN parsed
    PROVE  ParseInv'
<1>1. Shape
  BY DEF ParseInv
<1>2. /\ DOMAIN frame' = Workers
      /\ \A v \in Workers : DOMAIN frame'[v] = {"pc", "mid", "loc"}
      /\ frame'[w].pc = pc /\ frame'[w].loc = loc
      /\ \A v \in Workers \ {w} : frame'[v] = frame[v]
  BY <1>1, GotoMoves
<1> QED BY <1>1, <1>2, BusyStep DEF Shape, Exists, Holds, Agrees

-----------------------------------------------------------------------------
(* The steps of the task *)

LEMMA DeliveryKeeps ==
    ASSUME ParseInv, NEW w \in Workers, Delivery(w), UNCHANGED parseVars PROVE ParseInv'
<1> USE DEF parseVars
<1>0. Shape BY DEF ParseInv
<1>1. CASE Take(w)
  <2>1. PICK m \in queue : /\ queue' = queue \ {m}
                           /\ frame' = [frame EXCEPT ![w] = [IdleFrame EXCEPT !.pc = "open", !.mid = m]]
    BY <1>1 DEF Take
  <2>2. UNCHANGED <<job, call, parsed, saved>>
    BY <1>1 DEF Take
  <2>3. /\ DOMAIN frame' = Workers
        /\ \A v \in Workers : DOMAIN frame'[v] = {"pc", "mid", "loc"}
        /\ frame'[w].pc = "open" /\ \A v \in Workers \ {w} : frame'[v] = frame[v]
    BY <1>0, <2>1 DEF Shape, IdleFrame
  <2>4. Shape' BY <1>0, <2>2, <2>3 DEF Shape
  <2>5. queue' = {} /\ \A v \in Workers \ {w} : ~Busy(v)' /\ ~Holds(v)'
    BY <2>1, <2>3 DEF ParseInv, OneMessage, Busy, Holds
  <2>6. \A c \in Clients : call'[c].op # "dispatch"
    BY <2>1, <2>2 DEF ParseInv, OneMessage
  <2>7. job'.status # "none"
    BY <2>1, <2>2 DEF ParseInv, OneMessage
  <2>8. OneMessage' BY <2>5, <2>6, <2>7 DEF OneMessage
  <2>9. SessionAgrees' BY <2>3, <2>5 DEF SessionAgrees, Holds
  <2> QED BY <2>2, <2>4, <2>8, <2>9 DEF ParseInv, SavedOnce
<1>2. CASE Ack(w) \/ Crash(w) \/ Kill(w)
  <2>1. /\ Busy(w) /\ frame' = [frame EXCEPT ![w] = IdleFrame] /\ UNCHANGED <<job, call, parsed, saved>>
        /\ queue' = queue \/ queue' = queue \cup {frame[w].mid}
    BY <1>2 DEF Ack, Crash, Kill, Busy, At
  <2>2. Shape' BY <1>0, <2>1 DEF Shape, IdleFrame
  <2>3. \A v \in Workers : ~Busy(v)' /\ ~Holds(v)'
    BY <1>0, <2>1 DEF ParseInv, OneMessage, Busy, Holds, Shape, IdleFrame
  <2>4. queue = {} /\ \A c \in Clients : call[c].op # "dispatch"
    BY <2>1 DEF ParseInv, OneMessage
  <2>5. job.status # "none"
    BY <2>1 DEF ParseInv, OneMessage
  <2>6. OneMessage' BY <2>1, <2>3, <2>4, <2>5 DEF OneMessage
  <2>7. SessionAgrees' BY <2>3 DEF SessionAgrees
  <2> QED BY <2>1, <2>2, <2>6, <2>7 DEF ParseInv, SavedOnce
<1> QED BY <1>1, <1>2 DEF Delivery

\* what does not touch a result: opening, failing
LEMMA StatusKeeps ==
    ASSUME ParseInv, NEW w \in Workers, UNCHANGED parseVars,
           Open(w, <<>>) \/ MarkFailed(w) \/ FailedLost(w)
    PROVE  ParseInv'
<1> USE DEF parseVars
<1>0. Shape BY DEF ParseInv
<1>1. Busy(w) /\ UNCHANGED <<queue, call, saved, parsed>>
  BY DEF Open, MarkFailed, FailedLost, At, Busy
<1>2. PICK pc \in {"begin", "ack"} : Goto(w, pc, <<>>)
  BY DEF Open, MarkFailed, FailedLost
<1>3. UNCHANGED job \/ (Exists /\ \E s \in {"running", "failed"} : job' = [job EXCEPT !.status = s])
  BY DEF Open, MarkFailed, FailedLost
<1>4. "status" \in DOMAIN job' /\ (Exists' <=> Exists) /\ (job'.status = "none" <=> job.status = "none")
  BY <1>0, <1>3 DEF Exists, Shape
<1>5. /\ DOMAIN frame' = Workers /\ \A v \in Workers : DOMAIN frame'[v] = {"pc", "mid", "loc"}
      /\ frame'[w].pc = pc /\ \A v \in Workers \ {w} : frame'[v] = frame[v]
  BY <1>0, <1>2, GotoMoves
<1>6. ~Holds(w)' BY <1>5 DEF Holds
<1> QED BY <1>0, <1>1, <1>4, <1>5, <1>6, BusyStep DEF Shape

LEMMA FailsKeeps == ASSUME ParseInv, NEW w \in Workers, Fails(w) PROVE ParseInv'
<1>1. Busy(w) /\ Goto(w, "except", <<>>) /\ UNCHANGED <<job, queue, call, saved, parsed>>
  BY DEF Fails, Raise, DbError, Busy, Inside, parseVars
<1> QED BY <1>1, BusyMove

LEMMA BeginKeeps == ASSUME ParseInv, NEW w \in Workers, Begin(w) PROVE ParseInv'
<1> DEFINE loc == [todo |-> DOMAIN parsed, at |-> {}, rows |-> parsed]
           pc == IF job.provider = "mineru_api" THEN "load_all" ELSE "next"
<1>1. Busy(w) /\ Goto(w, pc, loc) /\ UNCHANGED <<job, queue, call, saved, parsed>>
  BY DEF Begin, Busy, At, parseVars
<1>2. DOMAIN loc = {"todo", "at", "rows"} /\ loc.rows = parsed /\ loc.todo = DOMAIN parsed
  OBVIOUS
<1>3. Agrees(loc.rows)
  BY <1>2 DEF ParseInv, Shape, Agrees
<1> HIDE DEF loc, pc
<1> QED BY <1>1, <1>2, <1>3, BusyMove

\* a step that commits the rows its session then goes on with
LEMMA FlushKeeps ==
    ASSUME ParseInv, NEW w \in Workers, Holds(w), UNCHANGED <<job, queue, call, saved>>,
           Exists, Agrees(parsed'), DOMAIN parsed' = DOMAIN parsed,
           NEW pc \in {"next", "parse"}, NEW loc, Goto(w, pc, loc),
           DOMAIN loc = {"todo", "at", "rows"}, loc.rows = parsed'
    PROVE  ParseInv'
<1>0. Shape BY DEF ParseInv
<1>1. /\ DOMAIN frame' = Workers /\ \A v \in Workers : DOMAIN frame'[v] = {"pc", "mid", "loc"}
      /\ frame'[w].pc = pc /\ frame'[w].loc = loc /\ \A v \in Workers \ {w} : frame'[v] = frame[v]
  BY <1>0, GotoMoves
<1>2. Busy(w) BY DEF Holds, Busy
<1>3. "status" \in DOMAIN job' /\ (Exists' <=> Exists) /\ job'.status = job.status
  BY <1>0 DEF Exists, Shape
<1> QED BY <1>1, <1>2, <1>3, BusyStep DEF Agrees

\* new rows of one file
LEMMA RowAgrees ==
    ASSUME NEW rows, Agrees(rows), NEW f, NEW r,
           f \in DOMAIN parsed => r \in Result /\ r.doc = rows[f].doc
    PROVE  Agrees([rows EXCEPT ![f] = r]) /\ DOMAIN [rows EXCEPT ![f] = r] = DOMAIN parsed
BY DEF Agrees

\* the local values of a task keep their names
LEMMA KeysStay ==
    ASSUME NEW l, DOMAIN l = {"todo", "at", "rows"}, NEW t, NEW a, NEW r
    PROVE  /\ DOMAIN [l EXCEPT !.at = a, !.rows = r] = {"todo", "at", "rows"}
           /\ [l EXCEPT !.at = a, !.rows = r].rows = r
           /\ [l EXCEPT !.at = a, !.rows = r].at = a
           /\ [l EXCEPT !.at = a, !.rows = r].todo = l.todo
           /\ DOMAIN [l EXCEPT !.todo = t, !.rows = r] = {"todo", "at", "rows"}
           /\ [l EXCEPT !.todo = t, !.rows = r].rows = r
           /\ [l EXCEPT !.todo = t, !.rows = r].todo = t
           /\ DOMAIN [l EXCEPT !.todo = t, !.at = a, !.rows = r] = {"todo", "at", "rows"}
           /\ [l EXCEPT !.todo = t, !.at = a, !.rows = r].rows = r
           /\ [l EXCEPT !.todo = t, !.at = a, !.rows = r].todo = t
OBVIOUS

LEMMA NextFileKeeps == ASSUME ParseInv, NEW w \in Workers, NEW f \in Files, NextFile(w, f) PROVE ParseInv'
<1> DEFINE l == Loc(w)
           Set(s) == [l.rows EXCEPT ![f] = [l.rows[f] EXCEPT !.status = s]]
<1>1. Holds(w) /\ Exists /\ UNCHANGED <<job, queue, call, saved>>
  BY DEF NextFile, Holds, At, Flush
<1>2. DOMAIN l = {"todo", "at", "rows"} /\ Agrees(l.rows)
  BY <1>1 DEF ParseInv, SessionAgrees
<1>3. \/ parsed' = Set("running") /\ Goto(w, "parse", [l EXCEPT !.at = {f}, !.rows = parsed'])
      \/ parsed' = Set("failed") /\ Goto(w, "next", [l EXCEPT !.todo = @ \ {f}, !.rows = parsed'])
  BY DEF NextFile, Flush
<1>4. ASSUME NEW s \in {"running", "failed"}
      PROVE  Agrees(Set(s)) /\ DOMAIN Set(s) = DOMAIN parsed
  <2> DEFINE r == [l.rows[f] EXCEPT !.status = s]
  <2>1. f \in DOMAIN parsed => r \in Result /\ r.doc = l.rows[f].doc
    BY <1>2 DEF Agrees, Result
  <2> HIDE DEF r, l
  <2>2. Agrees([l.rows EXCEPT ![f] = r]) /\ DOMAIN [l.rows EXCEPT ![f] = r] = DOMAIN parsed
    BY <1>2, <2>1, RowAgrees
  <2> QED BY <2>2 DEF r
<1>5. Agrees(parsed') /\ DOMAIN parsed' = DOMAIN parsed
  BY <1>3, <1>4
<1>6. CASE Goto(w, "parse", [l EXCEPT !.at = {f}, !.rows = parsed'])
  <2> DEFINE loc == [l EXCEPT !.at = {f}, !.rows = parsed']
  <2>1. DOMAIN loc = {"todo", "at", "rows"} /\ loc.rows = parsed'
    BY <1>2, KeysStay
  <2> HIDE DEF loc
  <2> QED BY <1>1, <1>5, <1>6, <2>1, FlushKeeps DEF loc
<1>7. CASE Goto(w, "next", [l EXCEPT !.todo = @ \ {f}, !.rows = parsed'])
  <2> DEFINE loc == [l EXCEPT !.todo = @ \ {f}, !.rows = parsed']
  <2>1. DOMAIN loc = {"todo", "at", "rows"} /\ loc.rows = parsed'
    BY <1>2, KeysStay
  <2> HIDE DEF loc
  <2> QED BY <1>1, <1>5, <1>7, <2>1, FlushKeeps DEF loc
<1> QED BY <1>3, <1>6, <1>7

LEMMA ParsedResult ==
    ASSUME NEW r \in Result, NEW o \in Outcomes PROVE Parsed(r, o) \in Result /\ Parsed(r, o).doc = r.doc
BY DEF Parsed, Result, Outcomes

LEMMA ParseFileKeeps == ASSUME ParseInv, NEW w \in Workers, ParseFile(w) PROVE ParseInv'
<1> DEFINE l == Loc(w)
<1>1. Holds(w) /\ Exists /\ UNCHANGED <<job, queue, call, saved>>
  BY DEF ParseFile, Holds, At, Flush
<1>2. DOMAIN l = {"todo", "at", "rows"} /\ Agrees(l.rows)
  BY <1>1 DEF ParseInv, SessionAgrees
<1>3. PICK f \in l.at, o \in Outcomes :
        /\ parsed' = [l.rows EXCEPT ![f] = Parsed(l.rows[f], o)]
        /\ Goto(w, "next", [l EXCEPT !.todo = @ \ {f}, !.at = {}, !.rows = parsed'])
  BY DEF ParseFile, Flush
<1>4. f \in DOMAIN parsed => /\ Parsed(l.rows[f], o) \in Result
                             /\ Parsed(l.rows[f], o).doc = l.rows[f].doc
  BY <1>2, ParsedResult DEF Agrees
<1>5. Agrees(parsed') /\ DOMAIN parsed' = DOMAIN parsed
  <2> HIDE DEF l
  <2> QED BY <1>2, <1>3, <1>4, RowAgrees
<1> DEFINE loc == [l EXCEPT !.todo = @ \ {f}, !.at = {}, !.rows = parsed']
<1>6. DOMAIN loc = {"todo", "at", "rows"} /\ loc.rows = parsed'
  BY <1>2, KeysStay
<1>7. Goto(w, "next", loc)
  BY <1>3
<1> HIDE DEF loc
<1> QED BY <1>1, <1>5, <1>6, <1>7, FlushKeeps

LEMMA LoadAllKeeps == ASSUME ParseInv, NEW w \in Workers, LoadAll(w) PROVE ParseInv'
<1> DEFINE l == Loc(w)
           Loaded(bad) == [f \in l.todo |-> IF f \in bad THEN [l.rows[f] EXCEPT !.status = "failed"] ELSE l.rows[f]]
<1>1. Busy(w) /\ At(w, "load_all") /\ Holds(w) /\ UNCHANGED <<job, queue, call, saved, parsed>>
  BY DEF LoadAll, Holds, At, Busy, parseVars
<1>2. PICK bad, kept : Goto(w, "batch", [l EXCEPT !.at = kept, !.rows = Loaded(bad)])
  BY DEF LoadAll
<1>3. ASSUME Exists
      PROVE  /\ DOMAIN [l EXCEPT !.at = kept, !.rows = Loaded(bad)] = {"todo", "at", "rows"}
             /\ Agrees([l EXCEPT !.at = kept, !.rows = Loaded(bad)].rows)
  <2>1. DOMAIN l = {"todo", "at", "rows"} /\ Agrees(l.rows) /\ l.todo = DOMAIN parsed
    BY <1>1, <1>3 DEF ParseInv, SessionAgrees
  <2>2. Agrees(Loaded(bad))
    BY <2>1 DEF Agrees, Result
  <2> HIDE DEF l, Loaded
  <2> QED BY <2>1, <2>2
<1> HIDE DEF l, Loaded
<1> QED BY <1>1, <1>2, <1>3, BusyMove

LEMMA ParseBatchKeeps == ASSUME ParseInv, NEW w \in Workers, ParseBatch(w) PROVE ParseInv'
<1> DEFINE l == Loc(w)
           Done(o) == [f \in DOMAIN l.rows |-> IF f \in l.at THEN Parsed(l.rows[f], o[f]) ELSE l.rows[f]]
<1>1. Busy(w) /\ Holds(w) /\ UNCHANGED <<job, queue, call, saved, parsed>>
  BY DEF ParseBatch, Holds, At, Busy, parseVars
<1>2. PICK o \in [l.at -> Outcomes] : Goto(w, "next", [l EXCEPT !.todo = {}, !.rows = Done(o)])
  BY DEF ParseBatch
<1>3. ASSUME Exists
      PROVE  /\ DOMAIN [l EXCEPT !.todo = {}, !.rows = Done(o)] = {"todo", "at", "rows"}
             /\ Agrees([l EXCEPT !.todo = {}, !.rows = Done(o)].rows)
  <2>1. DOMAIN l = {"todo", "at", "rows"} /\ Agrees(l.rows)
    BY <1>1, <1>3 DEF ParseInv, SessionAgrees
  <2>2. \A f \in DOMAIN parsed : f \in l.at => /\ Parsed(l.rows[f], o[f]) \in Result
                                               /\ Parsed(l.rows[f], o[f]).doc = l.rows[f].doc
    BY <2>1, ParsedResult DEF Agrees
  <2>3. Agrees(Done(o))
    BY <2>1, <2>2 DEF Agrees
  <2> HIDE DEF l, Done
  <2> QED BY <2>1, <2>3
<1> HIDE DEF l, Done
<1> QED BY <1>1, <1>2, <1>3, BusyMove

LEMMA ProgressKeeps == ASSUME ParseInv, NEW w \in Workers, Progress(w) PROVE ParseInv'
<1>0. Shape BY DEF ParseInv
<1>1. Busy(w) /\ Holds(w) /\ Exists /\ parsed' = Loc(w).rows /\ UNCHANGED <<job, queue, call, saved, frame>>
  BY DEF Progress, Holds, At, Busy, Flush, taskVars
<1>2. /\ DOMAIN Loc(w) = {"todo", "at", "rows"} /\ Agrees(Loc(w).rows)
      /\ At(w, "load_all") => Loc(w).todo = DOMAIN parsed
  BY <1>1 DEF ParseInv, SessionAgrees
<1> QED BY <1>0, <1>1, <1>2, BusyStep DEF Agrees, Shape, Exists, Loc, At

\* the commit that makes the documents
LEMMA FinishKeeps == ASSUME ParseInv, NEW w \in Workers, FinishBatch(w) PROVE ParseInv'
<1> DEFINE rows == Loc(w).rows
           new == ToSave(rows)
<1>0. Shape BY DEF ParseInv
<1>1. Busy(w) /\ Holds(w) /\ Exists /\ Goto(w, "ack", <<>>) /\ UNCHANGED <<queue, call>>
  BY DEF FinishBatch, Holds, At, Busy, Flush
<1>2. /\ parsed' = [f \in DOMAIN rows |-> [rows[f] EXCEPT !.doc = @ \/ f \in new]]
      /\ saved' = [f \in Files |-> IF f \in new THEN saved[f] + 1 ELSE saved[f]]
  BY DEF FinishBatch, Flush
<1>3. Agrees(rows)
  BY <1>1 DEF ParseInv, SessionAgrees
<1>4. \A f \in new : f \in DOMAIN parsed /\ ~parsed[f].doc
  BY <1>3 DEF ToSave, Agrees
<1>5. DOMAIN rows = DOMAIN parsed /\ rows \in [DOMAIN parsed -> Result]
  BY <1>3 DEF Agrees
<1>6. "status" \in DOMAIN job' /\ job'.status \in {"completed", "failed"}
  <2>1. job' = [job EXCEPT !.ok = Count(rows, "success"), !.bad = Count(rows, "failed"),
                           !.status = IF Count(rows, "success") > 0 THEN "completed" ELSE "failed"]
    BY DEF FinishBatch
  <2> QED BY <1>0, <2>1 DEF Shape
<1> HIDE DEF rows, new
<1>7. /\ DOMAIN frame' = Workers /\ \A v \in Workers : DOMAIN frame'[v] = {"pc", "mid", "loc"}
      /\ frame'[w].pc = "ack" /\ \A v \in Workers \ {w} : frame'[v] = frame[v]
  BY <1>0, <1>1, GotoMoves
<1>8. /\ DOMAIN parsed' = DOMAIN parsed /\ parsed' \in [DOMAIN parsed -> Result]
      /\ \A f \in DOMAIN parsed : parsed'[f].doc = (rows[f].doc \/ f \in new)
  BY <1>2, <1>5 DEF Result
<1>9. saved' \in [Files -> Nat]
  BY <1>0, <1>2 DEF Shape
<1>10. Shape'
  BY <1>0, <1>1, <1>6, <1>7, <1>8, <1>9 DEF Shape
<1>11. \A v \in Workers \ {w} : ~Busy(v) /\ ~Busy(v)'
  BY <1>1, <1>7 DEF ParseInv, OneMessage, Busy
<1>12. OneMessage'
  BY <1>1, <1>6, <1>11 DEF ParseInv, OneMessage
<1>13. SessionAgrees'
  BY <1>7, <1>11 DEF SessionAgrees, Holds, Busy
<1>14. SavedOnce'
  <2>1. \A f \in Files : saved'[f] <= 1
    BY <1>0, <1>2, <1>4 DEF ParseInv, SavedOnce, Shape
  <2>2. \A f \in DOMAIN parsed' : saved'[f] # 0 => parsed'[f].doc
    <3> SUFFICES ASSUME NEW f \in DOMAIN parsed', saved'[f] # 0 PROVE parsed'[f].doc
      OBVIOUS
    <3>1. f \in DOMAIN parsed /\ f \in Files
      BY <1>0, <1>8 DEF Shape
    <3>2. CASE f \in new BY <1>8, <3>1, <3>2
    <3>3. CASE f \notin new
      <4>1. saved[f] # 0 BY <1>2, <3>1, <3>3
      <4>2. parsed[f].doc BY <3>1, <4>1 DEF ParseInv, SavedOnce
      <4>3. rows[f].doc BY <1>3, <3>1, <4>2 DEF Agrees
      <4> QED BY <1>8, <3>1, <4>3
    <3> QED BY <3>2, <3>3
  <2> QED BY <1>6, <2>1, <2>2 DEF SavedOnce
<1> QED BY <1>10, <1>12, <1>13, <1>14 DEF ParseInv

LEMMA WorkKeeps == ASSUME ParseInv, NEW w \in Workers, Work(w) PROVE ParseInv'
BY DeliveryKeeps, StatusKeeps, FailsKeeps, BeginKeeps, NextFileKeeps, ParseFileKeeps, LoadAllKeeps,
   ParseBatchKeeps, ProgressKeeps, FinishKeeps DEF Work

-----------------------------------------------------------------------------
(* The handlers *)

\* a handler that leaves the batch, its results and its message alone
LEMMA QuietHandler ==
    ASSUME ParseInv, NEW c \in Clients, UNCHANGED <<job, queue, frame, parsed, saved>>,
           \/ UNCHANGED call
           \/ \E s : s.op # "dispatch" /\ DOMAIN s = {"op", "seen"} /\ call' = [call EXCEPT ![c] = s]
    PROVE  ParseInv'
<1>1. Shape' BY DEF ParseInv, Shape
<1>2. \A d \in Clients : call'[d].op = "dispatch" => call[d].op = "dispatch"
  BY DEF ParseInv, Shape
<1>3. \A w \in Workers : (Busy(w)' <=> Busy(w)) /\ (Holds(w)' <=> Holds(w))
  BY DEF Busy, Holds
<1>4. OneMessage' BY <1>2, <1>3 DEF ParseInv, OneMessage
<1>5. SessionAgrees' BY <1>3 DEF ParseInv, SessionAgrees, Agrees, Exists, Loc, At
<1> QED BY <1>1, <1>4, <1>5 DEF ParseInv, SavedOnce

LEMMA HandlersKeep == ASSUME ParseInv, NEW c \in Clients, Handlers(c) PROVE ParseInv'
<1> USE DEF Finish, NoCall
<1>0. Shape BY DEF ParseInv
<1>1. CASE CreateBatch(c)
  <2>1. PICK chosen \in SUBSET Files : parsed' = [f \in chosen |-> NewResult]
    BY <1>1 DEF CreateBatch
  <2>2. /\ job.status = "none" /\ UNCHANGED <<queue, frame, saved>>
        /\ call' = [call EXCEPT ![c] = [op |-> "dispatch", seen |-> "pending"]]
    BY <1>1 DEF CreateBatch
  <2>3. "status" \in DOMAIN job' /\ job'.status = "pending"
    <3>1. PICK p, n : job' = [job EXCEPT !.status = "pending", !.provider = p, !.total = n]
      BY <1>1 DEF CreateBatch
    <3> QED BY <1>0, <3>1 DEF Shape
  <2>4. queue = {} /\ (\A w \in Workers : ~Busy(w)) /\ \A d \in Clients : call[d].op # "dispatch"
    BY <2>2 DEF ParseInv, OneMessage
  <2>5. Shape' BY <1>0, <2>1, <2>2, <2>3 DEF Shape, NewResult, Result
  <2>6. \A w \in Workers : ~Busy(w)' /\ ~Holds(w)'
    BY <2>2, <2>4 DEF Busy, Holds
  <2>7. OneMessage' BY <1>0, <2>2, <2>3, <2>4, <2>6 DEF OneMessage, Shape
  <2>8. SavedOnce'
    BY <2>1, <2>2, <2>3 DEF ParseInv, SavedOnce
  <2> QED BY <2>5, <2>6, <2>7, <2>8 DEF ParseInv, SessionAgrees
<1>2. CASE RequestDelete(c)
  <2>1. /\ UNCHANGED <<job, queue, frame, parsed, saved>>
        /\ call' = [call EXCEPT ![c] = [op |-> "delete", seen |-> job.status]]
    BY <1>2 DEF RequestDelete, Receive, parseVars
  <2> QED BY <2>1, QuietHandler
<1>3. CASE DeleteBatch(c)
  <2>1. /\ job' = [job EXCEPT !.status = "gone"] /\ parsed' = [f \in {} |-> NewResult]
        /\ call' = [call EXCEPT ![c] = NoCall] /\ UNCHANGED <<queue, frame, saved>>
    BY <1>3 DEF DeleteBatch
  <2>2. "status" \in DOMAIN job' /\ job'.status = "gone" /\ ~Exists'
    BY <1>0, <2>1 DEF Shape, Exists
  <2>3. Shape' BY <1>0, <2>1, <2>2 DEF Shape
  <2>4. \A d \in Clients : call'[d].op = "dispatch" => call[d].op = "dispatch"
    BY <1>0, <2>1 DEF Shape
  <2>5. \A w \in Workers : Busy(w)' <=> Busy(w)
    BY <2>1 DEF Busy
  <2>6. OneMessage' BY <2>1, <2>2, <2>4, <2>5 DEF ParseInv, OneMessage
  <2>7. SavedOnce' BY <2>1, <2>2 DEF ParseInv, SavedOnce
  <2> QED BY <2>2, <2>3, <2>6, <2>7 DEF ParseInv, SessionAgrees
<1>4. CASE EvaluateBatch(c)
  <2>1. /\ Exists /\ UNCHANGED <<queue, frame, call, saved>>
        /\ parsed' = [f \in DOMAIN parsed |->
                         IF f \in Scorable THEN [parsed[f] EXCEPT !.scored = TRUE] ELSE parsed[f]]
        /\ \E n : job' = job \/ job' = [job EXCEPT !.summary = n]
    BY <1>4 DEF EvaluateBatch
  <2>2. "status" \in DOMAIN job' /\ job'.status = job.status
    BY <1>0, <2>1 DEF Shape
  <2>3. /\ DOMAIN parsed' = DOMAIN parsed /\ parsed' \in [DOMAIN parsed -> Result]
        /\ \A f \in DOMAIN parsed : parsed'[f].doc = parsed[f].doc
    <3> HIDE DEF Scorable
    <3>1. DOMAIN parsed' = DOMAIN parsed
      BY <2>1
    <3>2. ASSUME NEW f \in DOMAIN parsed PROVE parsed'[f] \in Result /\ parsed'[f].doc = parsed[f].doc
      <4>1. parsed[f] \in Result BY <1>0 DEF Shape
      <4>2. parsed'[f] = parsed[f] \/ parsed'[f] = [parsed[f] EXCEPT !.scored = TRUE]
        BY <2>1
      <4> QED BY <4>1, <4>2 DEF Result
    <3>3. parsed' = [f \in DOMAIN parsed |-> parsed'[f]]
      BY <2>1
    <3> QED BY <3>1, <3>2, <3>3
  <2>4. Shape' BY <1>0, <2>1, <2>2, <2>3 DEF Shape
  <2>5. \A w \in Workers : (Busy(w)' <=> Busy(w)) /\ (Holds(w)' <=> Holds(w))
    BY <2>1 DEF Busy, Holds
  <2>6. OneMessage' BY <2>1, <2>2, <2>5 DEF ParseInv, OneMessage
  <2>7. SessionAgrees' BY <2>1, <2>2, <2>3, <2>5 DEF ParseInv, SessionAgrees, Agrees, Exists, Loc, At
  <2>8. SavedOnce' BY <2>1, <2>2, <2>3 DEF ParseInv, SavedOnce
  <2> QED BY <2>4, <2>6, <2>7, <2>8 DEF ParseInv
<1>5. ASSUME NEW f \in Files, DeleteSource(c, f) PROVE ParseInv'
  BY <1>5, QuietHandler DEF DeleteSource
<1>6. CASE Dispatch(c) /\ UNCHANGED parseVars
  <2>1. /\ call[c].op = "dispatch" /\ queue' = queue \cup {nextMid} /\ call' = [call EXCEPT ![c] = NoCall]
        /\ UNCHANGED <<job, frame, parsed, saved>>
    BY <1>6 DEF Dispatch, parseVars
  <2>2. queue' = {nextMid} /\ job.status # "none" /\ \A w \in Workers : ~Busy(w)' /\ ~Holds(w)'
    BY <2>1 DEF ParseInv, OneMessage, Busy, Holds
  <2>3. \A d \in Clients : call'[d].op # "dispatch"
    BY <1>0, <2>1 DEF ParseInv, OneMessage, Shape
  <2>4. Shape' BY <1>0, <2>1 DEF Shape
  <2>5. OneMessage' BY <2>1, <2>2, <2>3 DEF OneMessage
  <2> QED BY <2>1, <2>2, <2>4, <2>5 DEF ParseInv, SessionAgrees, SavedOnce
<1>7. CASE DelayFails(c) /\ UNCHANGED parseVars
  <2>1. UNCHANGED <<job, queue, frame, parsed, saved>> /\ call' = [call EXCEPT ![c] = NoCall]
    BY <1>7 DEF DelayFails, parseVars
  <2> QED BY <2>1, QuietHandler
<1> QED BY <1>1, <1>2, <1>3, <1>4, <1>5, <1>6, <1>7 DEF Handlers

-----------------------------------------------------------------------------
LEMMA InitParse == Init => ParseInv
BY DEF Init, QueueInit, ParseInv, Shape, OneMessage, SessionAgrees, SavedOnce, Busy, Holds, IdleFrame,
       NoCall, NewResult

LEMMA ParseKept == ASSUME ParseInv, [Next]_vars PROVE ParseInv'
<1>1. CASE UNCHANGED vars
  BY <1>1 DEF vars, taskVars, parseVars, ParseInv, Shape, OneMessage, SessionAgrees, SavedOnce, Busy,
              Holds, Exists, Agrees, Loc, At
<1>2. ASSUME NEW f \in Files, UploadSource(f) PROVE ParseInv'
  BY <1>2 DEF UploadSource, taskVars, ParseInv, Shape, OneMessage, SessionAgrees, SavedOnce, Busy,
              Holds, Exists, Agrees, Loc, At
<1> QED BY <1>1, <1>2, HandlersKeep, WorkKeeps DEF Next

\* A file becomes a Document at most once, however often the message of the
\* batch is delivered and whatever fails, for any number of files, workers and
\* clients (doc_parse_tasks.py:158).
THEOREM OneDocumentPerFileThm == Spec => []OneDocumentPerFile
<1>1. ParseInv /\ [Next]_vars => ParseInv'
  BY ParseKept
<1>2. ParseInv => OneDocumentPerFile
  BY DEF ParseInv, SavedOnce, OneDocumentPerFile
<1> QED BY <1>1, <1>2, InitParse, PTL DEF Spec

-----------------------------------------------------------------------------
(* A custom service: what the session of the task has read of a success is   *)
(* what the database says, and the file under way was not one.               *)

Custom == Exists /\ job.provider = "custom"
IsSuccess(rows, f) == rows[f].status = "success"

CustomSession ==
    \A w \in Workers : Holds(w) /\ Custom =>
        /\ frame[w].pc \in {"next", "parse"} /\ Loc(w).todo \subseteq DOMAIN parsed
        /\ \A f \in DOMAIN parsed : IsSuccess(parsed, f) => IsSuccess(Loc(w).rows, f)
        /\ At(w, "parse") => \A f \in Loc(w).at : f \in DOMAIN parsed /\ ~IsSuccess(Loc(w).rows, f)

NothingBefore == "provider" \in DOMAIN job /\ (job.status = "none" => DOMAIN parsed = {})

SuccessInv == ParseInv /\ NothingBefore /\ CustomSession

\* a step that leaves the sessions it does not end as they are
LEMMA CarryOver ==
    ASSUME CustomSession, DOMAIN parsed' = DOMAIN parsed,
           \A f \in DOMAIN parsed : parsed'[f].status = parsed[f].status,
           Custom' => Custom, \A w \in Workers : Holds(w)' => frame'[w] = frame[w]
    PROVE  CustomSession' /\ KeepsSuccess
<1>1. KeepsSuccess BY DEF KeepsSuccess
<1>2. CustomSession'
  <2> SUFFICES ASSUME NEW w \in Workers, Holds(w)', Custom'
               PROVE  /\ frame'[w].pc \in {"next", "parse"} /\ frame'[w].loc.todo \subseteq DOMAIN parsed'
                      /\ \A f \in DOMAIN parsed' : IsSuccess(parsed', f) => IsSuccess(frame'[w].loc.rows, f)
                      /\ frame'[w].pc = "parse" => \A f \in frame'[w].loc.at :
                            f \in DOMAIN parsed' /\ ~IsSuccess(frame'[w].loc.rows, f)
    BY DEF CustomSession, Loc, At, IsSuccess
  <2>1. frame'[w] = frame[w] /\ Holds(w) /\ Custom
    BY DEF Holds
  <2> QED BY <2>1 DEF CustomSession, Loc, At, IsSuccess
<1> QED BY <1>1, <1>2

\* one file of a custom service: the rows that are committed are the session's,
\* but for a file that is no success
LEMMA FileStep ==
    ASSUME SuccessInv, NEW w \in Workers, Holds(w), Exists, UNCHANGED job,
           NEW f, NEW r, ~IsSuccess(Loc(w).rows, f), parsed' = [Loc(w).rows EXCEPT ![f] = r],
           NEW pc \in {"next", "parse"}, NEW loc, Goto(w, pc, loc), loc.rows = parsed',
           Custom => loc.todo \subseteq DOMAIN parsed /\ f \in DOMAIN parsed,
           pc = "parse" => loc.at = {f} /\ (f \in DOMAIN parsed => r.status # "success")
    PROVE  CustomSession' /\ KeepsSuccess
<1>1. Shape /\ Agrees(Loc(w).rows)
  BY DEF SuccessInv, ParseInv, SessionAgrees
<1>2. /\ frame'[w].pc = pc /\ frame'[w].loc = loc /\ \A v \in Workers \ {w} : frame'[v] = frame[v]
  BY <1>1, GotoMoves
<1>3. \A v \in Workers \ {w} : ~Holds(v)'
  BY <1>2 DEF SuccessInv, ParseInv, OneMessage, Busy, Holds
<1>4. DOMAIN parsed' = DOMAIN parsed /\ \A g \in DOMAIN parsed : g # f => parsed'[g] = Loc(w).rows[g]
  BY <1>1 DEF Agrees
<1>5. f \in DOMAIN parsed => parsed'[f] = r
  BY <1>1 DEF Agrees
<1>6. Custom => \A g \in DOMAIN parsed : IsSuccess(parsed, g) => IsSuccess(Loc(w).rows, g)
  BY DEF SuccessInv, CustomSession
<1>7. KeepsSuccess
  BY <1>4, <1>6 DEF KeepsSuccess, IsSuccess, Custom
<1>8. CustomSession'
  BY <1>2, <1>3, <1>4, <1>5 DEF CustomSession, Loc, At, IsSuccess, Custom, Exists
<1> QED BY <1>7, <1>8

LEMMA NextFileSuccess == ASSUME SuccessInv, NEW w \in Workers, NEW f \in Files, NextFile(w, f)
                         PROVE  CustomSession' /\ KeepsSuccess
<1> DEFINE l == Loc(w)
           r(s) == [l.rows[f] EXCEPT !.status = s]
<1>1. Holds(w) /\ Exists /\ UNCHANGED job /\ f \in l.todo /\ ~IsSuccess(l.rows, f)
  BY DEF NextFile, Holds, At, Flush, Unparsed, IsSuccess
<1>2. DOMAIN l = {"todo", "at", "rows"} /\ Agrees(l.rows)
  BY <1>1 DEF SuccessInv, ParseInv, SessionAgrees
<1>3. \/ parsed' = [l.rows EXCEPT ![f] = r("running")]
         /\ Goto(w, "parse", [l EXCEPT !.at = {f}, !.rows = parsed'])
      \/ parsed' = [l.rows EXCEPT ![f] = r("failed")]
         /\ Goto(w, "next", [l EXCEPT !.todo = @ \ {f}, !.rows = parsed'])
  BY DEF NextFile, Flush
<1>4. f \in DOMAIN parsed => r("running").status # "success"
  BY <1>2 DEF Agrees, Result
<1> HIDE DEF r
<1>5. Custom => l.todo \subseteq DOMAIN parsed
  BY <1>1 DEF SuccessInv, CustomSession
<1> HIDE DEF l
<1>6. CASE /\ Goto(w, "parse", [l EXCEPT !.at = {f}, !.rows = parsed'])
           /\ parsed' = [l.rows EXCEPT ![f] = r("running")]
  <2> DEFINE loc == [l EXCEPT !.at = {f}, !.rows = parsed']
  <2>1. loc.at = {f} /\ loc.rows = parsed' /\ loc.todo = l.todo
    BY <1>2, KeysStay
  <2> HIDE DEF loc
  <2>2. Goto(w, "parse", loc) BY <1>6 DEF loc
  <2> QED BY <1>1, <1>4, <1>5, <1>6, <2>1, <2>2, FileStep DEF l
<1>7. CASE /\ Goto(w, "next", [l EXCEPT !.todo = @ \ {f}, !.rows = parsed'])
           /\ parsed' = [l.rows EXCEPT ![f] = r("failed")]
  <2> DEFINE loc == [l EXCEPT !.todo = @ \ {f}, !.rows = parsed']
  <2>1. loc.rows = parsed' /\ loc.todo = l.todo \ {f}
    BY <1>2, KeysStay
  <2> HIDE DEF loc
  <2>2. Goto(w, "next", loc) BY <1>7 DEF loc
  <2> QED BY <1>1, <1>5, <1>7, <2>1, <2>2, FileStep DEF l
<1> QED BY <1>3, <1>6, <1>7

LEMMA ParseFileSuccess == ASSUME SuccessInv, NEW w \in Workers, ParseFile(w)
                          PROVE  CustomSession' /\ KeepsSuccess
<1> DEFINE l == Loc(w)
<1>1. Holds(w) /\ At(w, "parse") /\ Exists /\ UNCHANGED job
  BY DEF ParseFile, Holds, At, Flush
<1>2. DOMAIN l = {"todo", "at", "rows"} /\ Agrees(l.rows) /\ Shape
  BY <1>1 DEF SuccessInv, ParseInv, SessionAgrees
<1>3. PICK f \in l.at, o \in Outcomes :
        /\ parsed' = [l.rows EXCEPT ![f] = Parsed(l.rows[f], o)]
        /\ Goto(w, "next", [l EXCEPT !.todo = @ \ {f}, !.at = {}, !.rows = parsed'])
  BY DEF ParseFile, Flush
<1> DEFINE loc == [l EXCEPT !.todo = @ \ {f}, !.at = {}, !.rows = parsed']
           r == Parsed(l.rows[f], o)
<1>4. Goto(w, "next", loc) /\ parsed' = [l.rows EXCEPT ![f] = r]
  BY <1>3
<1>5. CASE ~Custom
  <2>1. \A v \in Workers : Holds(v)' /\ Custom' => FALSE
    BY <1>1, <1>5 DEF Custom, Exists
  <2> QED BY <1>1, <1>5, <2>1 DEF CustomSession, KeepsSuccess, Custom
<1>6. CASE Custom
  <2>1. l.todo \subseteq DOMAIN parsed /\ f \in DOMAIN parsed /\ ~IsSuccess(l.rows, f)
    BY <1>1, <1>3, <1>6 DEF SuccessInv, CustomSession
  <2> HIDE DEF l, r
  <2>2. loc.rows = parsed' /\ loc.todo = l.todo \ {f}
    BY <1>2, KeysStay
  <2> HIDE DEF loc
  <2> QED BY <1>1, <1>4, <2>1, <2>2, FileStep DEF l
<1> QED BY <1>5, <1>6

LEMMA BeginSuccess == ASSUME SuccessInv, NEW w \in Workers, Begin(w) PROVE CustomSession' /\ KeepsSuccess
<1> DEFINE loc == [todo |-> DOMAIN parsed, at |-> {}, rows |-> parsed]
           pc == IF job.provider = "mineru_api" THEN "load_all" ELSE "next"
<1>1. Busy(w) /\ Goto(w, pc, loc) /\ UNCHANGED <<job, parsed>>
  BY DEF Begin, Busy, At, parseVars
<1>2. loc.rows = parsed /\ loc.todo = DOMAIN parsed /\ loc.at = {}
  OBVIOUS
<1> HIDE DEF loc
<1>3. /\ frame'[w].pc = pc /\ frame'[w].loc = loc /\ \A v \in Workers \ {w} : frame'[v] = frame[v]
  BY <1>1, GotoMoves DEF SuccessInv, ParseInv
<1>4. \A v \in Workers \ {w} : ~Holds(v)'
  BY <1>1, <1>3 DEF SuccessInv, ParseInv, OneMessage, Busy, Holds
<1> QED BY <1>1, <1>2, <1>3, <1>4 DEF CustomSession, KeepsSuccess, Custom, Exists, Loc, At

\* the steps of the official API are no steps of a custom service
LEMMA OfficialSuccess ==
    ASSUME SuccessInv, NEW w \in Workers, LoadAll(w) \/ ParseBatch(w) \/ Progress(w)
    PROVE  CustomSession' /\ KeepsSuccess
<1>1. Busy(w) /\ Holds(w) /\ ~Custom /\ UNCHANGED job
  BY DEF LoadAll, ParseBatch, Progress, At, Busy, Holds, SuccessInv, CustomSession, taskVars
<1>2. ~Custom' BY <1>1 DEF Custom, Exists
<1>3. KeepsSuccess
  <2>1. UNCHANGED parsed \/ Exists
    BY DEF LoadAll, ParseBatch, Progress, Flush, parseVars
  <2> QED BY <1>1, <2>1 DEF KeepsSuccess, Custom
<1> QED BY <1>2, <1>3 DEF CustomSession

LEMMA FinishSuccess == ASSUME SuccessInv, NEW w \in Workers, FinishBatch(w) PROVE CustomSession' /\ KeepsSuccess
<1> DEFINE rows == Loc(w).rows
           new == ToSave(rows)
<1>1. Busy(w) /\ Holds(w) /\ Exists /\ Goto(w, "ack", <<>>)
  BY DEF FinishBatch, Holds, At, Busy, Flush
<1>2. parsed' = [f \in DOMAIN rows |-> [rows[f] EXCEPT !.doc = @ \/ f \in new]]
  BY DEF FinishBatch, Flush
<1>3. Agrees(rows) /\ Shape
  BY <1>1 DEF SuccessInv, ParseInv, SessionAgrees
<1> HIDE DEF rows, new
<1>4. \A f \in DOMAIN parsed' : parsed'[f].status = rows[f].status
  BY <1>2, <1>3 DEF Agrees, Result
<1>5. Custom => \A f \in DOMAIN parsed : IsSuccess(parsed, f) => IsSuccess(rows, f)
  BY <1>1 DEF SuccessInv, CustomSession, rows
<1>6. /\ frame'[w].pc = "ack" /\ \A v \in Workers \ {w} : frame'[v] = frame[v]
  BY <1>1, <1>3, GotoMoves
<1>7. \A v \in Workers : ~Holds(v)'
  BY <1>1, <1>6 DEF SuccessInv, ParseInv, OneMessage, Busy, Holds
<1> QED BY <1>1, <1>4, <1>5, <1>7 DEF CustomSession, KeepsSuccess, IsSuccess, Custom

\* the steps that end a session or do not concern one
LEMMA WorkEnds ==
    ASSUME SuccessInv, NEW w \in Workers,
           \/ Delivery(w) \/ Open(w, <<>>) \/ MarkFailed(w) \/ FailedLost(w) \/ Fails(w),
           UNCHANGED parseVars \/ Fails(w)
    PROVE  CustomSession' /\ KeepsSuccess
<1>0. Shape BY DEF SuccessInv, ParseInv
<1>1. UNCHANGED parsed
  BY DEF Fails, parseVars
<1>2. DOMAIN job' = DOMAIN job /\ job'.provider = job.provider /\ (Exists' => Exists)
  <2>1. UNCHANGED job \/ (Exists /\ \E s \in {"running", "failed"} : job' = [job EXCEPT !.status = s])
    BY DEF Delivery, Take, Ack, Crash, Kill, Open, MarkFailed, FailedLost, Fails, Raise, DbError
  <2> QED BY <2>1 DEF SuccessInv, NothingBefore, Exists
<1>3. frame'[w].pc \in {"open", "idle", "begin", "ack", "except"} /\ \A v \in Workers \ {w} : frame'[v] = frame[v]
  <2>1. CASE Take(w)
    <3>1. PICK m \in queue : frame' = [frame EXCEPT ![w] = [IdleFrame EXCEPT !.pc = "open", !.mid = m]]
      BY <2>1 DEF Take
    <3> QED BY <1>0, <3>1 DEF Shape, IdleFrame
  <2>2. CASE Ack(w) \/ Crash(w) \/ Kill(w)
    BY <1>0, <2>2 DEF Ack, Crash, Kill, Shape, IdleFrame
  <2>3. CASE Open(w, <<>>) \/ MarkFailed(w) \/ FailedLost(w) \/ Fails(w)
    <3>1. PICK pc \in {"begin", "ack", "except"} : Goto(w, pc, <<>>)
      BY <2>3 DEF Open, MarkFailed, FailedLost, Fails, Raise, DbError
    <3> QED BY <1>0, <3>1, GotoMoves
  <2> QED BY <2>1, <2>2, <2>3 DEF Delivery
<1>4. \A v \in Workers : Holds(v)' => frame'[v] = frame[v]
  BY <1>0, <1>3 DEF Holds, Shape
<1> QED BY <1>1, <1>2, <1>4, CarryOver DEF SuccessInv, Custom

LEMMA HandlersSuccess ==
    ASSUME SuccessInv, NEW c \in Clients, Handlers(c) PROVE CustomSession' /\ KeepsSuccess
<1>1. CASE CreateBatch(c)
  <2>1. job.status = "none" /\ UNCHANGED frame
    BY <1>1 DEF CreateBatch
  <2>2. DOMAIN parsed = {} /\ \A w \in Workers : ~Holds(w)'
    BY <2>1 DEF SuccessInv, NothingBefore, ParseInv, OneMessage, Busy, Holds
  <2> QED BY <2>2 DEF CustomSession, KeepsSuccess
<1>2. CASE DeleteBatch(c)
  <2>1. DOMAIN parsed' = {} /\ job'.status = "gone"
    BY <1>2 DEF DeleteBatch, SuccessInv, ParseInv, Shape
  <2> QED BY <2>1 DEF CustomSession, KeepsSuccess, Custom, Exists
<1>3. CASE EvaluateBatch(c)
  <2>1. /\ UNCHANGED frame
        /\ parsed' = [f \in DOMAIN parsed |->
                         IF f \in Scorable THEN [parsed[f] EXCEPT !.scored = TRUE] ELSE parsed[f]]
        /\ \E n : job' = job \/ job' = [job EXCEPT !.summary = n]
    BY <1>3 DEF EvaluateBatch
  <2>2. job'.status = job.status /\ job'.provider = job.provider
    BY <2>1 DEF SuccessInv, ParseInv, Shape, NothingBefore
  <2>3. DOMAIN parsed' = DOMAIN parsed
    BY <2>1
  <2>4. ASSUME NEW f \in DOMAIN parsed PROVE parsed'[f].status = parsed[f].status
    <3>1. parsed[f] \in Result BY DEF SuccessInv, ParseInv, Shape
    <3>2. parsed'[f] = parsed[f] \/ parsed'[f] = [parsed[f] EXCEPT !.scored = TRUE]
      BY <2>1
    <3> QED BY <3>1, <3>2 DEF Result
  <2> QED BY <2>1, <2>2, <2>3, <2>4, CarryOver DEF SuccessInv, Custom, Exists
<1>4. CASE RequestDelete(c) \/ ((Dispatch(c) \/ DelayFails(c)) /\ UNCHANGED parseVars)
           \/ \E f \in Files : DeleteSource(c, f)
  <2>1. UNCHANGED <<job, frame, parsed>>
    BY <1>4 DEF RequestDelete, Receive, Dispatch, DelayFails, DeleteSource, parseVars
  <2> QED BY <2>1, CarryOver DEF SuccessInv, Custom, Exists
<1> QED BY <1>1, <1>2, <1>3, <1>4 DEF Handlers

LEMMA NothingBeforeKept == ASSUME SuccessInv, [Next]_vars PROVE NothingBefore'
<1> USE DEF SuccessInv, NothingBefore
<1>1. ASSUME NEW c \in Clients, Handlers(c) PROVE NothingBefore'
  <2>1. CASE CreateBatch(c)
    <3>1. PICK p, n : job' = [job EXCEPT !.status = "pending", !.provider = p, !.total = n]
      BY <2>1 DEF CreateBatch
    <3> QED BY <3>1 DEF ParseInv, Shape
  <2>2. CASE DeleteBatch(c) BY <2>2 DEF DeleteBatch
  <2>3. CASE EvaluateBatch(c)
    <3>1. Exists /\ \E n : job' = job \/ job' = [job EXCEPT !.summary = n]
      BY <2>3 DEF EvaluateBatch
    <3>2. DOMAIN job' = DOMAIN job /\ job'.status = job.status
      BY <3>1 DEF ParseInv, Shape
    <3> QED BY <3>1, <3>2 DEF Exists
  <2>4. CASE RequestDelete(c) \/ ((Dispatch(c) \/ DelayFails(c)) /\ UNCHANGED parseVars)
             \/ \E f \in Files : DeleteSource(c, f)
    BY <2>4 DEF RequestDelete, Receive, Dispatch, DelayFails, DeleteSource, parseVars
  <2> QED BY <1>1, <2>1, <2>2, <2>3, <2>4 DEF Handlers
<1>2. ASSUME NEW w \in Workers, Work(w) PROVE NothingBefore'
  <2>1. UNCHANGED <<job, parsed>> \/ Busy(w)
    <3>1. CASE Take(w) /\ UNCHANGED parseVars BY <3>1 DEF Take, parseVars
    <3>2. CASE Ack(w) \/ Crash(w) \/ Kill(w) \/ Open(w, <<>>) \/ MarkFailed(w) \/ FailedLost(w) \/ Fails(w)
      BY <3>2 DEF Ack, Crash, Kill, Open, MarkFailed, FailedLost, Fails, Raise, DbError, Inside, Busy, At
    <3>3. CASE Begin(w) \/ ParseFile(w) \/ LoadAll(w) \/ Progress(w) \/ ParseBatch(w) \/ FinishBatch(w)
               \/ \E f \in Files : NextFile(w, f)
      BY <3>3 DEF Begin, NextFile, ParseFile, LoadAll, Progress, ParseBatch, FinishBatch, Busy, At
    <3> QED BY <1>2, <3>1, <3>2, <3>3 DEF Work, Delivery
  <2>2. /\ DOMAIN job' = DOMAIN job
        /\ job.status # "none" => job'.status # "none"
    <3>1. CASE FinishBatch(w)
      <4>1. job' = [job EXCEPT !.ok = Count(Loc(w).rows, "success"), !.bad = Count(Loc(w).rows, "failed"),
                 !.status = IF Count(Loc(w).rows, "success") > 0 THEN "completed" ELSE "failed"]
        BY <3>1 DEF FinishBatch
      <4> QED BY <4>1 DEF ParseInv, Shape
    <3>2. CASE ~FinishBatch(w)
      <4>1. UNCHANGED job \/ \E s \in {"running", "failed"} : job' = [job EXCEPT !.status = s]
        BY <1>2, <3>2 DEF Work, Delivery, Take, Ack, Crash, Kill, Open, MarkFailed, FailedLost, Begin,
           NextFile, ParseFile, LoadAll, Progress, ParseBatch, Fails, Raise, DbError, taskVars
      <4> QED BY <4>1 DEF ParseInv, Shape
    <3> QED BY <3>1, <3>2
  <2>3. Busy(w) => job.status # "none"
    BY DEF ParseInv, OneMessage
  <2> QED BY <2>1, <2>2, <2>3
<1>3. CASE UNCHANGED vars \/ \E f \in Files : UploadSource(f)
  BY <1>3 DEF vars, UploadSource, taskVars, parseVars
<1> QED BY <1>1, <1>2, <1>3 DEF Next

LEMMA NextSuccess == ASSUME SuccessInv, [Next]_vars PROVE CustomSession' /\ KeepsSuccess
<1>1. CASE UNCHANGED vars \/ \E f \in Files : UploadSource(f)
  <2>1. UNCHANGED <<job, frame, parsed>>
    BY <1>1 DEF vars, UploadSource, taskVars, parseVars
  <2> QED BY <2>1, CarryOver DEF SuccessInv, Custom, Exists
<1>2. ASSUME NEW w \in Workers, Work(w) PROVE CustomSession' /\ KeepsSuccess
  BY <1>2, WorkEnds, BeginSuccess, NextFileSuccess, ParseFileSuccess, OfficialSuccess, FinishSuccess DEF Work
<1> QED BY <1>1, <1>2, HandlersSuccess DEF Next

\* A batch of a custom service never gives up a file it has parsed, for any
\* number of files, workers, clients and faults: a redelivered batch skips it
\* (doc_parse_tasks.py:133).
THEOREM SuccessStaysThm == Spec => SuccessStays
<1>1. Init => SuccessInv
  BY InitParse DEF Init, QueueInit, SuccessInv, NothingBefore, CustomSession, Holds, IdleFrame
<1>2. SuccessInv /\ [Next]_vars => SuccessInv'
  BY ParseKept, NothingBeforeKept, NextSuccess DEF SuccessInv
<1>3. SuccessInv /\ [Next]_vars => [KeepsSuccess]_vars
  BY NextSuccess
<1> QED BY <1>1, <1>2, <1>3, PTL DEF Spec, SuccessStays
=============================================================================
