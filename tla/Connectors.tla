----------------------------- MODULE Connectors -----------------------------
(***************************************************************************)
(* The connectors that ingest documents into a RAG system through its API: *)
(* services/api_ingest.  One behaviour is one session of a task with one   *)
(* connector: choose or make a knowledge base, upload the files, trigger   *)
(* the parse, poll the documents until they are settled, list the chunks.  *)
(*                                                                         *)
(* A connector is a row: where the id of an upload comes from, what a      *)
(* listing shows, which raw statuses it takes as done and as failed, and   *)
(* how it reads chunks.  The remote system is seen from what the           *)
(* connectors send and expect; others use it at the same time.             *)
(***************************************************************************)
EXTENDS Naturals, Sequences, FiniteSets

Seqs == INSTANCE SequencesExt

CONSTANTS
    Files,        \* names of the uploaded files, in order
    Old,          \* names of the documents of the knowledge base chosen
    SameEnd,      \* pairs <<n, f>> of different names where n ends with f
    Page,         \* documents or chunks per page (100)
    ChunkCounts,  \* chunks a parsed document may have
    MaxForeign,   \* documents others add or delete
    MaxPolls      \* listings before the deadline

VARIABLES
    sys,      \* the connector
    step,     \* where the session is
    at,       \* file being uploaded or read
    kb,       \* documents of the knowledge base, oldest first
    up,       \* id of the document of each file: 0 unknown, NoDoc none
    seen,     \* documents listed by the pages of this listing: id -> status
    last,     \* last status of each wanted document
    offset,   \* what the pages read so far hold
    polls,    \* listings made
    foreign,  \* changes of others so far
    quiet,    \* every wanted document was settled when this listing began and
              \* is so still, and nobody has changed the knowledge base since
    got       \* chunks read for each file

vars == <<sys, step, at, kb, up, seen, last, offset, polls, foreign, quiet, got>>

-----------------------------------------------------------------------------
\* the rows.  making: the id of a new knowledge base is in the answer, or is
\* looked up by name when it is not; upload: likewise for a document; keyed: the
\* file name is the id; own: a listing shows the uploads of this session only;
\* partial: what a listing shows of a document some of whose chunks are made;
\* counted: chunks are read up to the total the answer gives
Row(making, upload, parse, list, done, failed, busy, chunks) ==
    [making |-> making, upload |-> upload, parse |-> parse, list |-> list,
     done |-> done, failed |-> failed, busy |-> busy, chunks |-> chunks, partial |-> {}]

\* a listing that reports every document it shows as done
Shown == {"listed"}

RAGFlow == Row("newest", "id", TRUE, "newest", {"DONE", "COMPLETED"},
               {"FAIL", "FAILED", "CANCEL", "STOPPED"}, {"UNSTART", "RUNNING"}, "counted")
Dify == Row("id", "id", FALSE, "pages", {"completed"}, {"error"}, {"waiting", "indexing"}, "pages")
\* settled by an explicit status, or by counts: as much data as is to be trained, or
\* some data and nothing said about training, be the training over or not
FastGPT == [Row("name", "id", FALSE, "pages", {"complete", "counts_equal", "data_only"},
                {"error"}, {"counts_below", "empty"}, "counted")
            EXCEPT !.partial = {"counts_below", "counts_equal", "data_only"}]
Coze == Row("id", "id", FALSE, "pages", {"1"}, {"2", "9"}, {"0"}, "none")
MaxKB == Row("id", "id_or_listed", FALSE, "pages", {"SUCCESS"}, {"FAIL"}, {"PENDING"}, "pages")
LightRAG == Row("none", "listed", FALSE, "whole", {"processed"}, {"failed"}, {"pending"}, "pages")
PageIndex == Row("none", "id", TRUE, "pages", {"completed"}, {"failed"}, {"processing"}, "whole")
R2R == Row("none", "id_or_name", FALSE, "first", {"success"}, {"failed"}, {"pending"}, "whole")
QAnything == Row("name", "id_or_name", FALSE, "whole", {"green"}, {"red"}, {"yellow"}, "none")
LlmWiki == Row("none", "keyed", TRUE, "whole", Shown, {}, Shown, "none")
AnythingLLM == Row("id", "id", FALSE, "whole", Shown, {}, Shown, "none")
OpenWebUI == Row("id", "id", FALSE, "whole", Shown, {}, Shown, "none")
LangchainChatchat == Row("id", "keyed", FALSE, "whole", Shown, {}, Shown, "none")
DocsGPT == Row("none", "id_or_name", FALSE, "whole", Shown, {}, Shown, "none")
PrivateGPT == Row("none", "id", FALSE, "own", Shown, {}, Shown, "none")
Khoj == Row("none", "id_or_name", FALSE, "own", Shown, {}, Shown, "none")
\* a profile with list_docs, and a page parameter for its chunks
Generic == Row("id", "id", TRUE, "whole", {"completed"}, {"failed"}, {"other"}, "pages")

AllSystems == {RAGFlow, Dify, FastGPT, Coze, MaxKB, LightRAG, PageIndex, R2R, QAnything, LlmWiki,
               AnythingLLM, OpenWebUI, LangchainChatchat, DocsGPT, PrivateGPT, Khoj, Generic}

-----------------------------------------------------------------------------
NoDoc == 99    \* the file was not uploaded
Anyone == 0    \* file of a document somebody else uploaded
\* training: the remote system is at it; early: it was shown as done meanwhile
Doc(name, file, raw) ==
    [name |-> name, file |-> file, raw |-> raw, chunks |-> 0, there |-> TRUE,
     training |-> file # Anyone, early |-> file # Anyone /\ raw \in sys.done]

Wanted == {up[f] : f \in DOMAIN Files} \ {NoDoc}
StatusOf(raw) == CASE raw \in sys.done -> "done" [] raw \in sys.failed -> "failed" [] OTHER -> "busy"
Settled(d) == d \in DOMAIN kb /\ kb[d].there /\ StatusOf(kb[d].raw) # "busy"
AllSettled == \A d \in Wanted : Settled(d)

\* what a listing without pages, or all its pages together, would show now
Listed ==
    LET ids == Seqs!FlattenSeq([i \in DOMAIN kb |->
                   IF kb[i].there /\ (sys.list = "own" => kb[i].file # Anyone) THEN <<i>> ELSE <<>>])
        n == Len(ids)
    IN IF sys.list = "newest" THEN [i \in 1 .. n |-> ids[n + 1 - i]] ELSE ids

\* the first document of the listing whose name matches
Named(name, matches(_, _)) ==
    LET hits == {i \in DOMAIN Listed : matches(kb[Listed[i]].name, name)} IN
    IF hits = {} THEN 0 ELSE Listed[CHOOSE i \in hits : \A j \in hits : i <= j]
Same(n, f) == n = f
EndsWith(n, f) == n = f \/ <<n, f>> \in SameEnd

Init ==
    /\ sys \in AllSystems
    /\ step = "kb" /\ at = 1 /\ kb = <<>> /\ up = [f \in DOMAIN Files |-> NoDoc]
    /\ seen = <<>> /\ last = <<>> /\ offset = 0 /\ polls = 0 /\ foreign = 0 /\ quiet = FALSE
    /\ got = [f \in DOMAIN Files |-> <<>>]

-----------------------------------------------------------------------------
OldDocs == [i \in DOMAIN Old |-> [Doc(Old[i], Anyone, CHOOSE r \in sys.done : TRUE) EXCEPT !.chunks = 1]]

\* a knowledge base the request names, with the documents it holds
ChooseKb ==
    /\ step = "kb"
    /\ kb' = OldDocs /\ step' = "upload"
    /\ UNCHANGED <<sys, at, up, seen, last, offset, polls, foreign, quiet, got>>

\* a new one; without an id in the answer the first one of that name is taken,
\* which a listing in no particular order may make an older one
CreateKb ==
    /\ step = "kb" /\ sys.making # "none"
    /\ \/ kb' = <<>>
       \/ sys.making = "name" /\ kb' = OldDocs
    /\ step' = "upload"
    /\ UNCHANGED <<sys, at, up, seen, last, offset, polls, foreign, quiet, got>>

\* mutant of IdOf: the id is always looked up by name
IdByName(d) == {Named(Files[at], Same)}

\* the id an upload is remembered by, once the document d stands in the remote system
IdOf(d) ==
    CASE sys.upload \in {"id", "keyed"} -> {d}
      [] sys.upload = "id_or_name" -> {d, 0}
      [] sys.upload = "id_or_listed" -> {d, Named(Files[at], Same)}
      [] sys.upload = "listed" -> {Named(Files[at], EndsWith)}

\* a file is sent, and the remote system starts to parse it
UploadDocument ==
    /\ step = "upload" /\ at <= Len(Files)
    /\ LET old == {d \in DOMAIN kb : kb[d].there /\ kb[d].name = Files[at]} IN
       \E r \in sys.busy :
         kb' = IF sys.upload = "keyed" /\ old # {}
               THEN [kb EXCEPT ![CHOOSE d \in old : TRUE] = Doc(Files[at], at, r)]
               ELSE Append(kb, Doc(Files[at], at, r))
    /\ step' = "name"
    /\ UNCHANGED <<sys, at, up, seen, last, offset, polls, foreign, quiet, got>>

\* the id it is remembered by; a lookup is a second request
NameDocument ==
    /\ step = "name"
    /\ LET mine == CHOOSE d \in DOMAIN kb : kb[d].file = at IN
       \E id \in IdOf(mine) : up' = [up EXCEPT ![at] = id]
    /\ at' = at + 1 /\ step' = "upload"
    /\ UNCHANGED <<sys, kb, seen, last, offset, polls, foreign, quiet, got>>

\* the request or its lookup fails: the file is left out, whether or not the
\* document has reached the remote system
UploadFails ==
    /\ step = "name" \/ (step = "upload" /\ at <= Len(Files))
    /\ at' = at + 1 /\ step' = "upload"
    /\ UNCHANGED <<sys, kb, up, seen, last, offset, polls, foreign, quiet, got>>

\* parse is triggered where the connector says so
TriggerParse ==
    /\ step = "upload" /\ at > Len(Files)
    /\ IF Wanted = {} THEN step' = "failed" /\ UNCHANGED quiet
       ELSE \/ step' = "list" /\ quiet' = AllSettled
            \/ sys.parse /\ step' = "failed" /\ UNCHANGED quiet
    /\ UNCHANGED <<sys, at, kb, up, seen, last, offset, polls, foreign, got>>

-----------------------------------------------------------------------------
\* the page of a listing from the offset
PageOf(seq, from) ==
    SubSeq(seq, from + 1, IF from + Page < Len(seq) THEN from + Page ELSE Len(seq))

\* how far one request of list_documents reaches
Reach == IF sys.list \in {"whole", "own"} THEN Listed ELSE PageOf(Listed, offset)
\* mutant of Another: no second page is asked for
NoOther(seq) == FALSE
\* another page is asked for
Another(seq) == sys.list = "pages" /\ Len(Reach) = Page /\ offset + Page < Len(seq)

Now(ids) == [d \in DOMAIN seen \cup {ids[i] : i \in DOMAIN ids} |->
               IF d \in {ids[i] : i \in DOMAIN ids} THEN StatusOf(kb[d].raw) ELSE seen[d]]

ListPage ==
    /\ step = "list" /\ Another(Listed)
    /\ seen' = Now(Reach) /\ offset' = offset + Len(Reach)
    /\ UNCHANGED <<sys, step, at, kb, up, last, polls, foreign, quiet, got>>

\* the last page: what is known of the wanted documents is brought up to date, and the
\* wait ends when as many are settled as are wanted
Known == [d \in DOMAIN last \cup (DOMAIN Now(Reach) \cap Wanted) |->
            IF d \in DOMAIN Now(Reach) THEN Now(Reach)[d] ELSE last[d]]
Enough == {d \in DOMAIN Known : Known[d] # "busy"} = Wanted

ListEnds ==
    /\ step = "list" /\ ~Another(Listed)
    /\ last' = Known /\ seen' = <<>> /\ offset' = 0 /\ polls' = polls + 1
    /\ \/ /\ Enough
          /\ step' = IF \A d \in Wanted : Known[d] = "failed" THEN "failed" ELSE "read"
          /\ at' = 1 /\ UNCHANGED quiet
       \/ ~Enough /\ polls' = MaxPolls /\ step' = "timeout" /\ UNCHANGED <<at, quiet>>
       \/ ~Enough /\ polls' < MaxPolls /\ step' = "sleep" /\ UNCHANGED <<at, quiet>>
    /\ UNCHANGED <<sys, kb, up, foreign, got>>

Poll ==
    /\ step = "sleep" /\ step' = "list" /\ quiet' = AllSettled
    /\ UNCHANGED <<sys, at, kb, up, seen, last, offset, polls, foreign, got>>

\* a request that fails ends the session
ListFails ==
    /\ step = "list" /\ step' = "failed"
    /\ UNCHANGED <<sys, at, kb, up, seen, last, offset, polls, foreign, quiet, got>>

-----------------------------------------------------------------------------
FirstChunks(d, n) == [i \in 1 .. n |-> <<d, i>>]
Chunks(d) == FirstChunks(d, IF d \in DOMAIN kb THEN kb[d].chunks ELSE 0)
Readable(f) == sys.chunks # "none" /\ up[f] # NoDoc /\ last[up[f]] # "failed"

\* mutant of LastChunks: a full page is taken for the last one
LastChunksFull(page) == sys.chunks = "whole" \/ Len(page) <= Page
LastChunks(page) ==
    \/ sys.chunks = "whole" \/ Len(page) < Page
    \/ sys.chunks = "counted" /\ offset + Len(page) >= Len(Chunks(up[at]))

ReadChunks ==
    /\ step = "read" /\ at <= Len(Files) /\ Readable(at)
    /\ LET all == Chunks(up[at])
           page == IF sys.chunks = "whole" THEN all ELSE PageOf(all, offset)
       IN /\ got' = [got EXCEPT ![at] = @ \o page]
          /\ IF LastChunks(page) THEN at' = at + 1 /\ offset' = 0
                                 ELSE at' = at /\ offset' = offset + Page
    /\ UNCHANGED <<sys, step, kb, up, seen, last, polls, foreign, quiet>>

\* the chunks of a document that cannot be read are left out
Unread == << <<0, 0>> >>
ReadFails ==
    /\ step = "read" /\ at <= Len(Files) /\ Readable(at)
    /\ got' = [got EXCEPT ![at] = Unread] /\ at' = at + 1 /\ offset' = 0
    /\ UNCHANGED <<sys, step, kb, up, seen, last, polls, foreign, quiet>>

SkipFile ==
    /\ step = "read" /\ at <= Len(Files) /\ ~Readable(at)
    /\ at' = at + 1
    /\ UNCHANGED <<sys, step, kb, up, seen, last, offset, polls, foreign, quiet, got>>

Done ==
    /\ step = "read" /\ at > Len(Files) /\ step' = "done"
    /\ UNCHANGED <<sys, at, kb, up, seen, last, offset, polls, foreign, quiet, got>>

-----------------------------------------------------------------------------
\* the remote system parses a document: it ends, or shows some more of the chunks
RemoteParses ==
    /\ step \notin {"done", "failed", "timeout"}
    /\ \E d \in DOMAIN kb :
         /\ kb[d].there /\ kb[d].training
         /\ \/ \E r \in sys.done, n \in ChunkCounts :
                 n >= kb[d].chunks /\ kb' = [kb EXCEPT ![d].raw = r, ![d].chunks = n, ![d].training = FALSE]
            \/ \E r \in sys.failed : kb' = [kb EXCEPT ![d].raw = r, ![d].training = FALSE]
            \/ \E r \in sys.partial, n \in ChunkCounts :
                 /\ n >= kb[d].chunks
                 /\ kb' = [kb EXCEPT ![d].raw = r, ![d].chunks = n, ![d].early = @ \/ r \in sys.done]
    /\ UNCHANGED <<sys, step, at, up, seen, last, offset, polls, foreign, got>>
    /\ quiet' = (quiet /\ AllSettled')

\* others use the knowledge base
Others ==
    /\ step \in {"upload", "name", "list", "sleep"} /\ foreign < MaxForeign
    /\ foreign' = foreign + 1 /\ quiet' = FALSE
    /\ \/ kb' = Append(kb, Doc("other", Anyone, CHOOSE r \in sys.done : TRUE))
       \/ \E d \in DOMAIN kb : kb[d].there /\ kb[d].file = Anyone /\ kb' = [kb EXCEPT ![d].there = FALSE]
    /\ UNCHANGED <<sys, step, at, up, seen, last, offset, polls, got>>

Next ==
    \/ ChooseKb \/ CreateKb \/ UploadDocument \/ NameDocument \/ UploadFails \/ TriggerParse
    \/ ListPage \/ ListEnds \/ Poll \/ ListFails
    \/ ReadChunks \/ ReadFails \/ SkipFile \/ Done \/ RemoteParses \/ Others

-----------------------------------------------------------------------------
\* The chunks a session has read for a file are those of the document it uploaded for that
\* file, the first ones and in order, and all of them unless the document was shown as done
\* while it was being trained; for every connector that takes the id from the answer.
ChunksAreOwn ==
    sys.upload = "id" =>
      \A f \in DOMAIN Files :
         (step = "done" /\ Readable(f) /\ got[f] # Unread) =>
            /\ kb[up[f]].file = f
            /\ \E n \in 0 .. kb[up[f]].chunks : got[f] = FirstChunks(up[f], n)
            /\ ~kb[up[f]].early => got[f] = Chunks(up[f])

\* A wait gives up only when some document it waits for is unsettled at some time of the last
\* listing, or somebody changes the knowledge base under it, for every connector that reads the
\* whole listing.
TimeoutIsReal == (step = "timeout" /\ sys.list \in {"pages", "whole", "own"}) => ~quiet

-----------------------------------------------------------------------------
\* promised and not kept (README, section 6): each fails as the only invariant of Services.cfg

\* A connector that reads the first page only, as its docstring ("list the documents of the
\* knowledge base and their status") does not say, gives up on documents that are parsed.
ListingIsWhole == step = "timeout" => ~quiet

\* A FastGPT document that has some data counts as trained, so chunks made later are not read.
ChunksAreWhole ==
    \A f \in DOMAIN Files :
      (sys.upload = "id" /\ step = "done" /\ Readable(f) /\ got[f] # Unread) => got[f] = Chunks(up[f])
=============================================================================
