-------------------------------- MODULE Crawl --------------------------------
(***************************************************************************)
(* A scrape, from POST /scrape (apps/control-plane/src/app.ts) over its    *)
(* job (workers.ts) to the breadth-first crawl of one host with its        *)
(* robots.txt (packages/scraper/src/crawler.ts, robots.ts).  Left out: the *)
(* politeness delay, what is extracted from a page, and the fetcher's own  *)
(* retries (a fetch succeeds or fails).                                    *)
(***************************************************************************)
EXTENDS Naturals, Sequences, FiniteSets, SequencesExt

CONSTANTS Page,         \* normalised URLs
          SeedUrl,         \* the one submitted
          Sites,        \* [links: Page -> Seq(Page), home: the host's pages,
                        \*  robots: Seq([key, agent, pages, length])]
          Slow,         \* sites that take longer than a lock may be held
          Crawler,      \* worker processes
          Depth, MaxPages, MaxTries,
          MaxCrawls     \* bound on attempts: deaths are not held to MaxTries

ASSUME CrawlAssumption ==
    /\ SeedUrl \in Page /\ Depth \in Nat /\ MaxPages \in Nat \ {0}
    /\ MaxTries \in Nat \ {0} /\ MaxCrawls \in Nat /\ Slow \subseteq Sites
    /\ \A s \in Sites : s.links \in [Page -> Seq(Page)] /\ s.home \subseteq Page

VARIABLES
    site,
    scrape,             \* scrape_jobs.status, "none" for no row
    scraped,            \* scrape_jobs.result_json, with the rules it was got by
    job, tries,         \* its job in the queue (JobQueue)
    submit,             \* the request that makes both
    crawlAt,            \* where each process is in its handler of the job
    crawl,              \* its locals of runCrawl()
    trouble             \* what befell the handlers, see ScrapeSettles

crawlVars == <<site, scrape, scraped, job, tries, submit, crawlAt, crawl, trouble>>

-----------------------------------------------------------------------------
(* robots.ts.                                                              *)

NoGroup == [agents |-> {}, allow |-> {}, disallow |-> {}]

\* parseRobots(): every user-agent line that follows anything opens a group.
ParseRobots(lines) ==
    LET Line(acc, l) ==
            CASE l.key = "user-agent" ->
                    [groups |-> IF acc.current = NoGroup THEN acc.groups
                                ELSE Append(acc.groups, acc.current),
                     current |-> [NoGroup EXCEPT !.agents = {l.agent}]]
              [] l.key = "allow" -> [acc EXCEPT !.current.allow = @ \cup {l}]
              [] OTHER -> [acc EXCEPT !.current.disallow = @ \cup {l}]
        end == FoldLeft(Line, [groups |-> <<>>, current |-> NoGroup], lines)
    IN  IF end.current = NoGroup THEN end.groups ELSE Append(end.groups, end.current)

\* selectGroup(): the last group that names the agent, else the last for all.
SelectGroup(groups, ua) ==
    LET Naming(a) == SelectSeq(groups, LAMBDA g : a \in g.agents)
    IN  IF Naming(ua) # <<>> THEN Last(Naming(ua))
        ELSE IF Naming("*") # <<>> THEN Last(Naming("*")) ELSE NoGroup

\* matchLongestPrefix(), plus one; 0 for no match.  A rule for "/" counts as
\* the shortest there is.
LongestMatch(set, page) ==
    LET lengths == {IF l.length = 1 THEN 0 ELSE l.length :
                        l \in {x \in set : page \in x.pages}}
    IN  IF lengths = {} THEN 0 ELSE 1 + CHOOSE n \in lengths : \A m \in lengths : m <= n

CanFetch(groups, page) ==
    LET g == SelectGroup(groups, "us")
        allowed == LongestMatch(g.allow, page)
        barred  == LongestMatch(g.disallow, page)
    IN  barred = 0 \/ (allowed > 0 /\ allowed >= barred)

-----------------------------------------------------------------------------
(* The row, the job and who makes them.                                    *)

NoCrawl == [rules |-> <<>>, queue |-> <<>>, visited |-> {}, pages |-> <<>>]

CrawlInit ==
    /\ site \in Sites
    /\ scrape = "none" /\ scraped = NoCrawl /\ job = "none" /\ tries = 0
    /\ submit = "new"
    /\ crawlAt = [c \in Crawler |-> "idle"] /\ crawl = [c \in Crawler |-> NoCrawl]
    /\ trouble = {}

InsertScrape ==
    /\ submit = "new"
    /\ scrape' = "queued" /\ submit' = "inserted"
    /\ UNCHANGED <<site, scraped, job, tries, crawlAt, crawl, trouble>>

EnqueueScrape ==
    /\ submit = "inserted"
    /\ job' = "pending" /\ submit' = "answered"
    /\ UNCHANGED <<site, scrape, scraped, tries, crawlAt, crawl, trouble>>

SubmitDies ==
    /\ submit = "inserted"
    /\ submit' = "died"
    /\ UNCHANGED <<site, scrape, scraped, job, tries, crawlAt, crawl, trouble>>

\* An operator puts the dead letter back, with its attempts.
RequeueScrape ==
    /\ job = "dead_letter"
    /\ job' = "pending" /\ tries' = 0
    /\ UNCHANGED <<site, scrape, scraped, submit, crawlAt, crawl, trouble>>

-----------------------------------------------------------------------------
(* runCrawl().                                                             *)

\* The seed waits; a robots.txt that cannot be had allows everything.
Begun == {[NoCrawl EXCEPT !.rules = r, !.queue = <<[url |-> SeedUrl, depth |-> 0]>>] :
             r \in {ParseRobots(site.robots), <<>>}}

\* Mutant: the cap is looked at one page too late.
Bug_More(k) == k.queue # <<>> /\ Len(k.pages) <= MaxPages

More(k) == k.queue # <<>> /\ Len(k.pages) < MaxPages

\* The links of a page, one after another: those of this host that have not been
\* visited join the queue, unless the page is as deep as the crawl goes.
Pushed(rest, item, seen) ==
    LET links == site.links[item.url]
        push[i \in 0..Len(links)] ==
            IF i = 0 THEN rest
            ELSE IF links[i] \in site.home \ seen
                 THEN Append(push[i - 1], [url |-> links[i], depth |-> item.depth + 1])
                 ELSE push[i - 1]
    IN  IF item.depth < Depth THEN push[Len(links)] ELSE rest

\* One turn of the loop: the oldest URL, unless it has been visited; barred by
\* robots.txt, failed, or fetched, and then its links of this host follow.
Turns(k) ==
    LET item == Head(k.queue)
        seen == k.visited \cup {item.url}
        As(is) == Append(k.pages, [url |-> item.url, is |-> is])
        Leaves(rest, listed) == [rules |-> k.rules, queue |-> rest,
                                 visited |-> seen, pages |-> listed]
    IN  IF item.url \in k.visited THEN {Leaves(Tail(k.queue), k.pages)}
        ELSE IF ~CanFetch(k.rules, item.url) THEN {Leaves(Tail(k.queue), As("blocked"))}
        ELSE {Leaves(Tail(k.queue), As("failed")),
              Leaves(Pushed(Tail(k.queue), item, seen), As("fetched"))}

-----------------------------------------------------------------------------
(* The handler, from the claim of its job to its settling.  Between two of *)
(* its statements another process may act, and each that reaches the       *)
(* database may throw.                                                     *)

Moves(c, from, to) == crawlAt[c] = from /\ crawlAt' = [crawlAt EXCEPT ![c] = to]

ClaimScrape(c) ==
    /\ job = "pending" /\ tries < MaxCrawls
    /\ Moves(c, "idle", "entry")
    /\ job' = "running" /\ tries' = tries + 1
    /\ UNCHANGED <<site, scrape, scraped, submit, crawl, trouble>>

\* The handler returns: the job has succeeded if it is still running.
Returns(c, from) ==
    /\ Moves(c, from, "idle")
    /\ job' = IF job = "running" THEN "succeeded" ELSE job
    /\ UNCHANGED <<site, scrape, scraped, tries, submit, crawl, trouble>>

\* It throws: the job runs again or is given up, whatever it is by now.
Throws(c, from) ==
    /\ Moves(c, from, "idle")
    /\ job' = IF tries < MaxTries THEN "pending" ELSE "dead_letter"
    /\ UNCHANGED <<site, scrape, scraped, tries, submit, crawl>>

\* A row that has ended is left alone.
SkipScrape(c) == scrape \in {"succeeded", "failed"} /\ Returns(c, "entry")

ReadScrape(c) ==
    /\ scrape \notin {"succeeded", "failed"}
    /\ Moves(c, "entry", "mark")
    /\ UNCHANGED <<site, scrape, scraped, job, tries, submit, crawl, trouble>>

\* Whatever has become of the row since.
MarkRunning(c) ==
    /\ Moves(c, "mark", "crawling")
    /\ scrape' = "running"
    /\ \E k \in Begun : crawl' = [crawl EXCEPT ![c] = k]
    /\ UNCHANGED <<site, scraped, job, tries, submit, trouble>>

VisitNext(c) ==
    /\ crawlAt[c] = "crawling" /\ More(crawl[c])
    /\ \E k \in Turns(crawl[c]) : crawl' = [crawl EXCEPT ![c] = k]
    /\ UNCHANGED <<site, scrape, scraped, job, tries, submit, crawlAt, trouble>>

\* So does the result: the last of two crawls is the one that stays.
StoreListing(c) ==
    /\ ~More(crawl[c]) /\ Moves(c, "crawling", "stored")
    /\ scrape' = "succeeded" /\ scraped' = crawl[c]
    /\ crawl' = [crawl EXCEPT ![c] = NoCrawl]
    /\ UNCHANGED <<site, job, tries, submit, trouble>>

SettleJob(c) == Returns(c, "stored")

\* Anything goes wrong in the crawl or the write of its result: the row has
\* failed, unless writing that throws too.
CrawlRaises(c) ==
    /\ Moves(c, "crawling", "raised")
    /\ \/ scrape' = "failed" /\ UNCHANGED trouble
       \/ trouble' = trouble \cup {"error"} /\ UNCHANGED scrape
    /\ crawl' = [crawl EXCEPT ![c] = NoCrawl]
    /\ UNCHANGED <<site, scraped, job, tries, submit>>

Rethrow(c) == Throws(c, "raised") /\ UNCHANGED trouble

\* The database fails outside the try: when the row is read or marked, or when
\* the job is settled, and then the queue takes it for the handler's failure.
Breaks(c) ==
    /\ \E from \in {"entry", "mark", "stored"} : Throws(c, from)
    /\ trouble' = trouble \cup {"error"}

\* The process dies, or its loop does, when the queue cannot record a failure.
CrawlerDies(c) ==
    /\ crawlAt[c] # "idle"
    /\ crawlAt' = [crawlAt EXCEPT ![c] = "idle"]
    /\ crawl' = [crawl EXCEPT ![c] = NoCrawl]
    /\ UNCHANGED <<site, scrape, scraped, job, tries, submit, trouble>>

\* A lock that is old is taken from whoever holds it: from a process that died,
\* and from one that is still at a slow site (JobQueue_slow).
ReclaimScrape ==
    /\ job = "running" /\ job' = "pending"
    /\ \/ (\A c \in Crawler : crawlAt[c] = "idle") /\ UNCHANGED trouble
       \/ /\ site \in Slow /\ \E c \in Crawler : crawlAt[c] # "idle"
          /\ trouble' = trouble \cup {"slow"}
    /\ UNCHANGED <<site, scrape, scraped, tries, submit, crawlAt, crawl>>

CrawlNext ==
    \/ InsertScrape \/ EnqueueScrape \/ SubmitDies \/ ReclaimScrape \/ RequeueScrape
    \/ \E c \in Crawler :
          \/ ClaimScrape(c) \/ SkipScrape(c) \/ ReadScrape(c) \/ MarkRunning(c)
          \/ VisitNext(c) \/ StoreListing(c) \/ SettleJob(c)
          \/ CrawlRaises(c) \/ Rethrow(c) \/ Breaks(c) \/ CrawlerDies(c)

CrawlSpec == CrawlInit /\ [][CrawlNext]_crawlVars

-----------------------------------------------------------------------------
(* Properties.                                                             *)

CrawlTypeOK ==
    /\ scrape \in {"none", "queued", "running", "succeeded", "failed"}
    /\ job \in {"none", "pending", "running", "succeeded", "dead_letter"}
    /\ tries \in 0..MaxCrawls /\ trouble \subseteq {"error", "slow"}
    /\ \A c \in Crawler :
          /\ crawlAt[c] \in {"idle", "entry", "mark", "crawling", "stored", "raised"}
          /\ crawl[c].visited \subseteq Page

\* Pages within n links of the seed, following only pages that were fetched.
Within(got) ==
    LET Links(p) == {site.links[p][i] : i \in DOMAIN site.links[p]} \cap site.home
        reach[n \in 0..Depth] ==
            IF n = 0 THEN {SeedUrl}
            ELSE reach[n - 1] \cup UNION {Links(p) : p \in reach[n - 1] \cap got}
    IN  reach[Depth]

\* A scrape that succeeded lists each page once, no more than its cap, and only
\* pages within its depth; below the cap it lists all of them, by the shortest
\* way, however the links go round; and no page is fetched that the rules it
\* read bar.  That holds whoever wrote it, and over what: two crawls of one row
\* may write it in any order, each its own listing under its own rules.
CrawlExact ==
    scrape = "succeeded" =>
        LET pages == scraped.pages
            urls == {pages[i].url : i \in DOMAIN pages}
            got  == {pages[i].url : i \in {k \in DOMAIN pages : pages[k].is = "fetched"}}
        IN  /\ Cardinality(urls) = Len(pages) /\ Len(pages) <= MaxPages
            /\ urls \subseteq Within(got)
            /\ Len(pages) < MaxPages => urls = Within(got)
            /\ \A p \in got : CanFetch(scraped.rules, p)

\* A scrape has no job only when its request died before enqueueing it.  As long
\* as no crawl outlasts its lock, one process is at it at a time, however many
\* die over it, and the job succeeds only over a row that has ended.  If the
\* database has not failed either, a job given up leaves a failed row, and a row
\* runs only while its job runs or waits to.  Neither is promised otherwise: a
\* crawl that outlasted its lock marks a row running that the other has ended
\* (workers.ts:173), and an error outside the try leaves one running or queued.
ScrapeSettles ==
    /\ scrape = "queued" /\ job = "none" => submit \in {"inserted", "died"}
    /\ "slow" \notin trouble =>
          /\ Cardinality({c \in Crawler : crawlAt[c] # "idle"}) <= 1
          /\ job = "succeeded" => scrape \in {"succeeded", "failed"}
    /\ trouble = {} =>
          /\ scrape = "running" => job \in {"running", "pending"}
          /\ job = "dead_letter" => scrape = "failed"

\* What POST /scrape promised: an exact listing, and a row that settles with
\* its job.
ScrapeSound == CrawlExact /\ ScrapeSettles
=============================================================================
