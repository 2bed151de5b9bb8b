------------------------------ MODULE HotNews ------------------------------
(***************************************************************************)
(* The hot news crawler: beat dispatches a crawl of every active source,   *)
(* the crawl_source_task and the trigger_crawl handler both fetch the      *)
(* feed, ask once which hashes are stored and add the others.  The row of  *)
(* the source is read at the start and written at the end of a crawl, as   *)
(* an ORM object: only columns whose value differs from the one read are   *)
(* part of the UPDATE.                                                     *)
(***************************************************************************)
EXTENDS TaskQueue, FiniteSetsExt, Sequences

CONSTANTS
    MaxEntries,    \* bound: articles the feed publishes
    MaxTimes       \* bound: how often the feed lists an article

VARIABLES
    copies,      \* entry -> rows of hot_articles with its hash
    feed,        \* how often the feed lists each article; its length is the clock
    overlap      \* history: a crawl began while another was under way

newsVars == <<copies, feed, overlap>>
Entries == 1..MaxEntries
Listed(e) == IF e \in DOMAIN feed THEN feed[e] ELSE 0

\* job is the source: error is last_crawl_error, since is last_crawl_at
Init ==
    /\ QueueInit
    /\ \E t \in {"rss", "web"} :
          job = [status |-> "new", type |-> t, active |-> TRUE, error |-> FALSE,
                 since |-> 0, total |-> 0]
    /\ copies = [e \in Entries |-> 0]
    /\ feed = <<>> /\ overlap = FALSE

\* an actor is a worker or a request handler
Stage(a) == IF a \in Clients THEN call[a].op ELSE frame[a].pc
Local(a) == IF a \in Clients THEN call[a].seen ELSE frame[a].loc
Move(a, s, loc) ==
    IF a \in Clients
    THEN call' = [call EXCEPT ![a] = [op |-> s, seen |-> loc]] /\ UNCHANGED frame
    ELSE Goto(a, IF s = "none" THEN "ack" ELSE s, loc) /\ UNCHANGED call

Crawling == {"fetch", "hash", "save"}
Begin(a, since) ==
    /\ Move(a, "fetch", [row |-> job, since |-> since, got |-> [e \in Entries |-> 0], bad |-> FALSE])
    /\ overlap' = (overlap \/ \E b \in Workers \cup Clients : Stage(b) \in Crawling)

-----------------------------------------------------------------------------
Publish ==
    /\ Len(feed) < MaxEntries
    /\ \E n \in 1..MaxTimes : feed' = Append(feed, n)
    /\ UNCHANGED <<taskVars, copies, overlap>>

\* crawl_all_active_sources, dispatched by beat
CrawlAll ==
    /\ Exists /\ job.active /\ requests < MaxRequests
    /\ requests' = requests + 1
    /\ queue' = queue \cup {nextMid} /\ nextMid' = nextMid + 1
    /\ UNCHANGED <<job, frame, call, faults, newsVars>>

Request(c) ==
    /\ call[c].op = "none" /\ requests < MaxRequests /\ Exists
    /\ requests' = requests + 1

\* trigger_crawl: force_full passes no since; an inactive source is crawled too
TriggerCrawl(c) ==
    /\ Request(c)
    /\ \E since \in {0, job.since} : Begin(c, since)
    /\ UNCHANGED <<job, queue, nextMid, faults, copies, feed>>

UpdateSource(c) ==
    /\ Request(c)
    /\ job' = [job EXCEPT !.active = ~@]
    /\ UNCHANGED <<queue, nextMid, frame, call, faults, newsVars>>

\* delete_source: the relationship deletes the articles
DeleteSource(c) ==
    /\ Request(c)
    /\ job' = [job EXCEPT !.status = "gone"]
    /\ copies' = [e \in Entries |-> 0]
    /\ UNCHANGED <<queue, nextMid, frame, call, faults, feed, overlap>>

\* delete_article, batch_delete_articles; the totals of the source stay
DeleteArticles(c) ==
    /\ Request(c)
    /\ \E gone \in SUBSET Entries :
          copies' = [e \in Entries |-> IF e \in gone THEN 0 ELSE copies[e]]
    /\ UNCHANGED <<job, queue, nextMid, frame, call, faults, feed, overlap>>

-----------------------------------------------------------------------------
\* _run_crawl: a missing or inactive source ends the task
OpenCrawl(w) ==
    /\ At(w, "open")
    /\ IF Exists /\ job.active
       THEN Begin(w, job.since)
       ELSE Move(w, "none", <<>>) /\ UNCHANGED overlap
    /\ UNCHANGED <<job, queue, nextMid, requests, faults, copies, feed>>

\* only an RSS feed is filtered by the time of the last crawl
Fresh(since) == [e \in Entries |-> IF job.type = "rss" => e >= since THEN Listed(e) ELSE 0]

\* crawl(): entries that fail to parse are errors; a feed that cannot be read
\* is a result without entries and one error
Fetch(a) ==
    /\ Stage(a) = "fetch"
    /\ LET fresh == Fresh(Local(a).since)
       IN \E got \in [Entries -> 0..MaxTimes] :
             /\ \A e \in Entries : got[e] <= fresh[e]
             /\ Move(a, "hash", [Local(a) EXCEPT !.got = got, !.bad = got # fresh])
    /\ UNCHANGED <<job, queue, nextMid, requests, faults, newsVars>>

FetchFails(a) ==
    /\ Stage(a) = "fetch"
    /\ Move(a, "hash", [Local(a) EXCEPT !.bad = TRUE])
    /\ UNCHANGED <<job, queue, nextMid, requests, faults, newsVars>>

\* mutant of FilterStored
FilterNone(a) ==
    /\ Stage(a) = "hash"
    /\ Move(a, "save", Local(a))
    /\ UNCHANGED <<job, queue, nextMid, requests, faults, newsVars>>

\* one query for the hashes that are already stored; the loop that adds the
\* others does not compare them with each other
FilterStored(a) ==
    /\ Stage(a) = "hash"
    /\ Move(a, "save", [Local(a) EXCEPT !.got = [e \in Entries |-> IF copies[e] = 0 THEN @[e] ELSE 0]])
    /\ UNCHANGED <<job, queue, nextMid, requests, faults, newsVars>>

\* a column of the row after the commit of an object that was read as old
Written(old, new, now) == IF old = new THEN now ELSE new

\* the handler keeps the error of an earlier crawl, the task clears it
NextError(a) == Local(a).bad \/ (a \in Clients /\ Local(a).row.error)

Save(a) ==
    /\ Stage(a) = "save" /\ Exists
    /\ LET row == Local(a).row
           n == MapThenSumSet(LAMBDA e : Local(a).got[e], Entries)
           status == IF Local(a).bad THEN "partial" ELSE "success"
       IN job' = [job EXCEPT
                    !.since = Len(feed) + 1,
                    !.status = Written(row.status, status, @),
                    !.error = Written(row.error, NextError(a), @),
                    !.total = Written(row.total, row.total + n, @)]
    /\ copies' = [e \in Entries |-> copies[e] + Local(a).got[e]]
    /\ Move(a, "none", <<>>)
    /\ UNCHANGED <<queue, nextMid, requests, faults, feed, overlap>>

\* an exception crawl() does not catch: the task records it in a commit, the
\* handler and an update_state that raises record nothing
CrawlRaises(a) ==
    /\ Stage(a) = "fetch"
    /\ \/ UNCHANGED job
       \/ /\ a \in Workers /\ Exists
          /\ job' = [job EXCEPT !.status = Written(Local(a).row.status, "failed", @),
                                !.error = TRUE]
    /\ Move(a, "none", <<>>)
    /\ UNCHANGED <<queue, nextMid, requests, faults, newsVars>>

\* the source was deleted, or a statement fails: the session is rolled back
SaveFails(a) ==
    /\ Stage(a) \in {"hash", "save"}
    /\ (~Exists /\ UNCHANGED faults) \/ Fault("db")
    /\ Move(a, "none", <<>>)
    /\ UNCHANGED <<job, queue, nextMid, requests, newsVars>>

Crawl(a) == Fetch(a) \/ FetchFails(a) \/ CrawlRaises(a) \/ FilterStored(a) \/ Save(a) \/ SaveFails(a)

Next ==
    \/ Publish \/ CrawlAll
    \/ \E c \in Clients : TriggerCrawl(c) \/ UpdateSource(c) \/ DeleteSource(c) \/ DeleteArticles(c)
    \/ \E a \in Clients \cup Workers : Crawl(a)
    \/ \E w \in Workers : OpenCrawl(w) \/ (Delivery(w) /\ UNCHANGED newsVars)
vars == <<taskVars, newsVars>>
Spec == Init /\ [][Next]_vars

-----------------------------------------------------------------------------
\* Crawls that do not overlap store an article in one of them only, so that it
\* has no more rows than one reading of the feed lists it, whichever of the two
\* paths runs them and however often a message is delivered
\* (models/hot_news.py:63, content_hash has no unique constraint).
ArticleOnce == ~overlap => \A e \in Entries : copies[e] <= Listed(e)

-----------------------------------------------------------------------------
\* promised and not kept (README, section 6): each fails as the only invariant of Jobs.cfg

\* An article has one row (the content_hash of models/hot_news.py:62 is there to
\* tell copies apart): a feed that lists it twice refutes it.
OneRowPerHash == ~overlap => \A e \in Entries : copies[e] <= 1

\* A source that reports success carries no error (crawler_tasks.py:98-100 names
\* the pair as the contradictory state that clearing the column prevents).
StatusMatchesError == ~overlap => ~(job.status = "success" /\ job.error)
=============================================================================
