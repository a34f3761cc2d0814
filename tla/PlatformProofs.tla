---------------------------- MODULE PlatformProofs ----------------------------
(***************************************************************************)
(* What each component that MCPlatform puts side by side keeps is kept     *)
(* when it moves and when it rests, and with it the invariants that are    *)
(* stated of all of them (HandlerProofs and ServerProofs have the parts).  *)
(***************************************************************************)
EXTENDS MCPlatform, HandlerProofs, ServerProofs

-----------------------------------------------------------------------------
(* The types of the components, with what only their bounds and their types *)
(* need: no other invariant asks for these.                                 *)

\* What a stream holds are events that were published, each stored at most once.
StreamHolds ==
    /\ published \in 0..MaxEvents /\ breaks \in 0..MaxBreaks
    /\ \A i, j \in 1..Len(table) : i < j => table[i] < table[j]
    /\ \A i \in 1..Len(table) : table[i] \in 1..published
    /\ \A i \in 1..Len(buffer) : buffer[i] \in 1..published
    /\ Len(buffer) <= BufferSize
    /\ got \subseteq 1..published /\ foreign \subseteq 1..published

\* What a change can be, and what is said of it.
GatesHold ==
    /\ code.has \subseteq Traits /\ advice \in Advices
    /\ verdict \in {"none", "APPROVE", "REQUEST_CHANGES", "BLOCK"}

\* Sessions are issued within the bound, and a call names one of them.
ConsoleHolds ==
    /\ changes \in 0..MaxChanges /\ Len(issued) <= MaxIssued
    /\ refusal \in {"none", "no_key", "session_over", "unexplained"}
    /\ \A c \in ApiCall : calls[c].with \in 0..Len(issued)

\* Attempts are counted, and a process that does not crawl has visited nothing.
CrawlHolds ==
    /\ tries \in 0..MaxCrawls
    /\ \A c \in Crawler : crawlAt[c] # "crawling" => crawl[c].visited = {}

RateHolds == clock \in Times /\ lastPrune \in [Replica -> Times]

\* Only an execution that is looked at has a plan; others rest on an empty one.
GraphHolds ==
    Is("graph") => /\ plan \in Plans /\ barred \subseteq visited /\ passed \subseteq visited
                   /\ \A n \in GraphNode : state[n] = "running" => n \in level

\* Every step of the pipeline keeps it.
LEMMA GatesHoldKept == GatesInv /\ GatesHold /\ [GatesNext]_gateVars => GatesHold'
<1> SUFFICES ASSUME GatesInv, GatesHold, [GatesNext]_gateVars PROVE GatesHold'
    OBVIOUS
<1>1. order \in Orders
    BY DEF GatesInv, GatesShape
<1>2. ASSUME UNCHANGED <<code, advice, verdict>> PROVE GatesHold'
    BY <1>2 DEF GatesHold
<1>3. ASSUME code'.has \subseteq Traits, UNCHANGED <<advice, verdict>> PROVE GatesHold'
    BY <1>3 DEF GatesHold
<1>4. CASE UNCHANGED gateVars
    BY <1>2, <1>4 DEF gateVars
<1>5. CASE GenerateCode
    <2>1. PICK c \in IF order.engine = "template" THEN {Template} ELSE Modules :
              code' = c \/ code' = Faulty(c)
        BY <1>5 DEF GenerateCode
    <2>2. PICK m : m \in Modules
        BY <1>1, ModulesExist
    <2>3. c \in Modules
        BY <1>1, <2>1, <2>2, FaultyFits
    <2>4. c.has \subseteq Traits /\ Faulty(c).has = c.has
        <3>1. Faulty(c).has = c.has
            BY <1>1, <2>3, FaultyFits
        <3> QED
            BY <2>3, <3>1 DEF Modules
    <2> QED
        BY <1>3, <1>5, <2>1, <2>4 DEF GenerateCode
<1>6. CASE PipelineRaises \/ TestsPass \/ TestsFail \/ RepairGivesUp \/ RunBenchmark
           \/ Merge \/ VerifyOnMain
    BY <1>2, <1>6 DEF PipelineRaises, TestsPass, TestsFail, RepairGivesUp, RunBenchmark,
                      Merge, VerifyOnMain
<1>7. CASE RepairTemplate
    <2>1. PICK v \in Readable : \E s \in Fixes(v) :
              code' = [code EXCEPT !.sym[v.op] = s]
        BY <1>7 DEF RepairTemplate, Repaired
    <2>2. code'.has = code.has
        BY <2>1
    <2> QED
        BY <1>3, <1>7, <2>2 DEF GatesHold, RepairTemplate, Repaired
<1>8. CASE RepairByModel
    <2>1. code' \in Modules
        BY <1>8 DEF RepairByModel, Repaired
    <2>2. code'.has \subseteq Traits
        BY <2>1 DEF Modules
    <2> QED
        BY <1>3, <1>8, <2>2 DEF RepairByModel, Repaired
<1>9. CASE Review
    <2>1. advice' \in Advices
        BY <1>9 DEF Review, Merging, Advices
    <2>2. verdict' \in {"APPROVE", "REQUEST_CHANGES", "BLOCK"}
        BY <1>9, VerdictOfTraits DEF Review, MergedVerdict
    <2> QED
        BY <1>9, <2>1, <2>2 DEF GatesHold, Review
<1> QED
    BY <1>4, <1>5, <1>6, <1>7, <1>8, <1>9 DEF GatesNext

\* Every step of the browser and its server keeps it.
LEMMA ConsoleHoldKept ==
    ConsoleInv /\ ConsoleHolds /\ [ConsoleNext]_conVars => ConsoleHolds'
<1> SUFFICES ASSUME ConsoleInv, ConsoleHolds, [ConsoleNext]_conVars PROVE ConsoleHolds'
    OBVIOUS
<1> USE ConsoleAssumption
<1>1. /\ issued \in Seq(KeyOrNone) /\ Len(issued) \in Nat /\ cookie \in 0..Len(issued)
      /\ calls \in [ApiCall -> CallRecord] /\ logout.with \in 0..Len(issued)
    BY DEF ConsoleInv, ConsoleTyped
<1>2. \A c \in ApiCall : calls[c] \in CallRecord /\ calls[c].with \in 0..Len(issued)
    BY <1>1 DEF ConsoleHolds
<1>3. \A s \in 0..Len(issued) : Len(Revoked(s)) = Len(issued)
    BY <1>1 DEF Revoked
<1>4. changes' \in 0..MaxChanges
    <2>1. changes' = changes \/ Changes
        BY DEF ConsoleNext, conVars, keyState, SendCall, FirstAnswered, ExchangeAnswered,
               ExchangeFails, LastAnswered, NetworkFails, SaveKey, SetApiKey, SessionEnds,
               Lock, ClearApiKey, LogoutAnswered, LogoutFails, Reload
    <2> QED
        BY <2>1 DEF Changes, ConsoleHolds
<1>5. refusal' \in {"none", "no_key", "session_over", "unexplained"}
    BY DEF ConsoleNext, conVars, ConsoleHolds, SendCall, FirstAnswered, ExchangeAnswered,
           ExchangeFails, LastAnswered, NetworkFails, SaveKey, SessionEnds, Lock,
           ClearApiKey, LogoutAnswered, LogoutFails, Reload, Succeeds, Refused, Goes
<1>6. ASSUME Len(issued') = Len(issued),
             \A c \in ApiCall : calls'[c].with \in 0..Len(issued)
      PROVE  ConsoleHolds'
    BY <1>4, <1>5, <1>6 DEF ConsoleHolds
<1>7. ASSUME NEW c \in ApiCall, NEW r, r.with \in 0..Len(issued),
             calls' = [calls EXCEPT ![c] = r], UNCHANGED issued
      PROVE  ConsoleHolds'
    BY <1>1, <1>2, <1>6, <1>7
<1>8. CASE UNCHANGED conVars
    BY <1>2, <1>6, <1>8 DEF conVars
<1>9. ASSUME NEW c \in ApiCall PROVE NoApiCall.with \in 0..Len(issued)
    BY <1>1 DEF NoApiCall
<1>10. ASSUME NEW c \in ApiCall, SendCall(c) PROVE ConsoleHolds'
    <2>1. [NoApiCall EXCEPT !.pc = "first", !.with = cookie].with \in 0..Len(issued)
        BY <1>1 DEF NoApiCall
    <2> QED
        BY <1>7, <1>10, <2>1 DEF SendCall, keyState
<1>11. ASSUME NEW c \in ApiCall, \/ FirstAnswered(c) \/ ExchangeFails(c)
                                 \/ LastAnswered(c) \/ NetworkFails(c)
       PROVE  ConsoleHolds'
    <2>1. UNCHANGED issued
        BY <1>11 DEF FirstAnswered, ExchangeFails, LastAnswered, NetworkFails, keyState
    <2>2. \/ calls' = [calls EXCEPT ![c] = NoApiCall]
          \/ Goes(c, "by_key") \/ Goes(c, "exchange")
        BY <1>11 DEF FirstAnswered, ExchangeFails, LastAnswered, NetworkFails, Succeeds, Refused
    <2>3. CASE calls' = [calls EXCEPT ![c] = NoApiCall]
        BY <1>7, <1>9, <2>1, <2>3
    <2>4. CASE Goes(c, "by_key") \/ Goes(c, "exchange")
        <3>1. PICK pc \in {"by_key", "exchange"} : Goes(c, pc)
            BY <2>4
        <3> DEFINE r == [calls[c] EXCEPT !.pc = pc, !.by = memKey, !.with = 0]
        <3>2. r.with \in 0..Len(issued)
            BY <1>1, <1>2 DEF CallRecord
        <3>3. calls' = [calls EXCEPT ![c] = r]
            BY <3>1 DEF Goes
        <3> QED
            BY <1>7, <2>1, <3>2, <3>3
    <2> QED
        BY <2>2, <2>3, <2>4
<1>12. ASSUME NEW c \in ApiCall, ExchangeAnswered(c) PROVE ConsoleHolds'
    <2>1. Len(issued') = Len(issued) + 1 /\ Len(issued') <= MaxIssued
        <3>1. issued' = Append(issued, calls[c].by) /\ Len(issued) < MaxIssued
            BY <1>12 DEF ExchangeAnswered
        <3>2. Len(issued') = Len(issued) + 1
            BY <1>1, <3>1
        <3> QED
            BY <1>1, <3>1, <3>2
    <2>2. \A d \in ApiCall : calls'[d].with \in 0..Len(issued')
        <3> SUFFICES ASSUME NEW d \in ApiCall PROVE calls'[d].with \in 0..Len(issued')
            OBVIOUS
        <3>1. calls[d] \in CallRecord /\ calls[d].with \in 0..Len(issued)
            BY <1>2
        <3>2. d # c => calls'[d].with = calls[d].with
            BY <1>12, <3>1 DEF ExchangeAnswered, CallRecord
        <3>3. d = c => calls'[d].with = cookie' /\ cookie' = Len(issued')
            BY <1>12, <3>1 DEF ExchangeAnswered, CallRecord
        <3> QED
            BY <1>1, <2>1, <3>1, <3>2, <3>3
    <2> QED
        BY <1>4, <1>5, <2>1, <2>2 DEF ConsoleHolds
<1>13. CASE (\E k \in Credential : SaveKey(k)) \/ Lock \/ ClearApiKey \/ LogoutFails
    BY <1>2, <1>6, <1>13 DEF SaveKey, Lock, ClearApiKey, LogoutFails, keyState
<1>14. CASE LogoutAnswered
    BY <1>1, <1>2, <1>3, <1>6, <1>14 DEF LogoutAnswered
<1>15. ASSUME NEW s \in DOMAIN issued, SessionEnds(s) PROVE ConsoleHolds'
    BY <1>1, <1>2, <1>3, <1>6, <1>15 DEF SessionEnds
<1>16. CASE Reload
    <2>1. Len(issued') = Len(issued)
        BY <1>1, <1>3, <1>16 DEF Reload
    <2>2. \A d \in ApiCall : calls'[d].with \in {0, cookie}
        BY <1>16 DEF Reload, Loaded, NoApiCall
    <2> QED
        BY <1>1, <1>6, <2>1, <2>2
<1> QED
    BY <1>8, <1>10, <1>11, <1>12, <1>13, <1>14, <1>15, <1>16 DEF ConsoleNext

\* Every step of a scrape keeps it.
LEMMA CrawlHoldKept == CrawlInv /\ CrawlHolds /\ [CrawlNext]_crawlVars => CrawlHolds'
<1> SUFFICES ASSUME CrawlInv, CrawlHolds, [CrawlNext]_crawlVars PROVE CrawlHolds'
    OBVIOUS
<1>1. /\ MaxCrawls \in Nat /\ crawlAt \in [Crawler -> Places]
      /\ crawl = [c \in Crawler |-> crawl[c]]
      /\ tries \in 0..MaxCrawls /\ NoCrawl.visited = {}
      /\ \A c \in Crawler : crawlAt[c] # "crawling" => crawl[c].visited = {}
    BY CrawlAssumption DEF CrawlInv, CrawlHolds, NoCrawl
<1>2. CASE UNCHANGED <<tries, crawlAt, crawl>>
    BY <1>1, <1>2 DEF CrawlHolds
<1>3. CASE RequeueScrape
    BY <1>1, <1>3 DEF RequeueScrape, CrawlHolds
<1>4. ASSUME NEW c \in Crawler, ClaimScrape(c) PROVE CrawlHolds'
    BY <1>1, <1>4 DEF ClaimScrape, Moves, CrawlHolds
<1>5. ASSUME NEW c \in Crawler, NEW src, src # "crawling", NEW to, Moves(c, src, to),
             UNCHANGED <<tries, crawl>>
      PROVE  CrawlHolds'
    BY <1>1, <1>5 DEF Moves, CrawlHolds
<1>6. ASSUME NEW c \in Crawler,
             SkipScrape(c) \/ ReadScrape(c) \/ SettleJob(c) \/ Rethrow(c) \/ Breaks(c)
      PROVE  CrawlHolds'
    BY <1>5, <1>6 DEF SkipScrape, ReadScrape, SettleJob, Rethrow, Breaks, Returns, Throws
<1>7. ASSUME NEW c \in Crawler, MarkRunning(c) PROVE CrawlHolds'
    BY <1>1, <1>7 DEF MarkRunning, Moves, CrawlHolds
<1>8. ASSUME NEW c \in Crawler, VisitNext(c) PROVE CrawlHolds'
    BY <1>1, <1>8 DEF VisitNext, CrawlHolds
<1>9. ASSUME NEW c \in Crawler, StoreListing(c) \/ CrawlRaises(c) PROVE CrawlHolds'
    BY <1>1, <1>9 DEF StoreListing, CrawlRaises, Moves, CrawlHolds
<1>10. ASSUME NEW c \in Crawler, CrawlerDies(c) PROVE CrawlHolds'
    BY <1>1, <1>10 DEF CrawlerDies, CrawlHolds
<1> QED
    BY <1>2, <1>3, <1>4, <1>6, <1>7, <1>8, <1>9, <1>10
    DEF CrawlNext, crawlVars, InsertScrape, EnqueueScrape, SubmitDies, ReclaimScrape

\* With the invariant, its variables keep to their types.
LEMMA CrawlTyped == CrawlInv /\ CrawlHolds => CrawlTypeOK
<1> SUFFICES ASSUME CrawlInv, CrawlHolds PROVE CrawlTypeOK
    OBVIOUS
<1>1. ASSUME NEW c \in Crawler PROVE crawl[c].visited \subseteq Page
    <2>1. CASE crawlAt[c] = "crawling"
        <3>1. PICK b : b = crawl[c] /\ Listing(b)
            BY <2>1 DEF CrawlInv, UnderWay
        <3>2. \A e \in Entries : e.url \in Page
            BY DEF Entries
        <3>3. b.pages \in Seq(Entries) /\ b.visited = Urls(b.pages)
            BY <3>1 DEF Listing
        <3>4. \A i \in DOMAIN b.pages : b.pages[i] \in Entries
            BY <3>3
        <3> QED
            BY <3>1, <3>2, <3>3, <3>4 DEF Urls
    <2>2. CASE crawlAt[c] # "crawling"
        BY <2>2 DEF CrawlHolds
    <2> QED
        BY <2>1, <2>2
<1> QED
    BY <1>1 DEF CrawlInv, CrawlHolds, CrawlTypeOK, Places

\* Every step of the limiter keeps it.
LEMMA RateHoldKept == RateInv /\ RateHolds /\ [RateNext]_rateVars => RateHolds'
<1> SUFFICES ASSUME RateInv, RateHolds, [RateNext]_rateVars PROVE RateHolds'
    OBVIOUS
<1> USE RateAssumption
<1>1. CASE UNCHANGED rateVars
    BY <1>1 DEF RateHolds, rateVars
<1>2. CASE RateTick
    BY <1>2 DEF RateHolds, RateTick, Times
<1>3. ASSUME NEW p \in Replica, Request(p) PROVE RateHolds'
    BY <1>3 DEF RateHolds, Request, Times
<1>4. ASSUME NEW p \in Replica, RateRestart(p) PROVE RateHolds'
    BY <1>4 DEF RateHolds, RateRestart, Times
<1> QED
    BY <1>1, <1>2, <1>3, <1>4 DEF RateNext

\* A sweep adds none but the nodes it is over.
LEMMA SweepWithin ==
    ASSUME NEW n \in Nat, NEW B, NEW A, NEW T \in SUBSET (1..n)
    PROVE  /\ \E g \in [0..n -> SUBSET (B \cup T)] : Sweeps(n, B, A, T, g)
           /\ \A g : Sweeps(n, B, A, T, g) => g[n] \subseteq B \cup T
<1> DEFINE V == SUBSET (B \cup T)
           Turn(k, s) == IF k \in T /\ A[k] \cap s # {} THEN s \cup {k} ELSE s
           G == [k \in 1..n |-> [s \in V |-> Turn(k, s)]]
<1>1. \A k \in 1..n : \A s \in V : Turn(k, s) \in V
    OBVIOUS
<1>2. G \in [1..n -> [V -> V]] /\ \A k \in 1..n : \A s \in V : G[k][s] = Turn(k, s)
    <2> HIDE DEF Turn, V
    <2> QED
        BY <1>1
<1>3. B \in V
    OBVIOUS
<1>4. PICK f \in [0..n -> V] : Iterates(n, B, G, f)
    <2> HIDE DEF G, V
    <2> QED
        BY <1>2, <1>3, Recursion
<1>5. Sweeps(n, B, A, T, f)
    <2>1. ASSUME NEW k \in 1..n PROVE f[k] = Turn(k, f[k - 1])
        <3>1. k - 1 \in 0..n /\ f[k - 1] \in V
            BY <1>4
        <3> HIDE DEF Turn, V, G
        <3> QED
            BY <1>2, <1>4, <3>1 DEF Iterates
    <2> QED
        BY <1>4, <2>1 DEF Sweeps, Iterates
<1>6. ASSUME NEW h, Sweeps(n, B, A, T, h) PROVE h[n] \subseteq B \cup T
    <2> DEFINE S == {k \in 0..n : h[k] \in V}
    <2>1. 0 \in S
        BY <1>3, <1>6 DEF Sweeps
    <2>2. \A k \in 1..n : k - 1 \in S => k \in S
        <3> SUFFICES ASSUME NEW k \in 1..n, k - 1 \in S PROVE k \in S
            OBVIOUS
        <3>1. h[k - 1] \in V /\ h[k] = Turn(k, h[k - 1])
            BY <1>6 DEF Sweeps
        <3>2. h[k] \in V
            <4> HIDE DEF Turn, V
            <4> QED
                BY <1>1, <3>1
        <3> QED
            BY <3>2
    <2>3. \A k \in 0..n : k \in S
        <3> HIDE DEF S
        <3> QED
            BY <2>1, <2>2, UpTo
    <2> QED
        BY <2>3
<1> QED
    BY <1>4, <1>5, <1>6

\* What a level bars and passes is of the level, or was before.
LEMMA LevelWithin ==
    ASSUME NEW lv \in SUBSET GraphNode, NEW before
    PROVE  Blocked(lv) \subseteq barred \cup lv /\ Skipped(lv, before) \subseteq before \cup lv
<1>1. NNodes \in Nat /\ lv \in SUBSET (1..NNodes)
    BY WorkGraphAssumption DEF GraphNode
<1>2. ASSUME NEW B, NEW T \in SUBSET lv
      PROVE  LET h == CHOOSE g : g = [i \in 0..NNodes |->
                          IF i = 0 THEN B ELSE IF i \in T /\ After(i) \cap g[i - 1] # {}
                                               THEN g[i - 1] \cup {i} ELSE g[i - 1]]
             IN  h[NNodes] \subseteq B \cup lv
    <2> DEFINE Body(g) == [i \in 0..NNodes |->
                          IF i = 0 THEN B ELSE IF i \in T /\ After(i) \cap g[i - 1] # {}
                                               THEN g[i - 1] \cup {i} ELSE g[i - 1]]
               h == CHOOSE g : g = Body(g)
               Sweep(g) == Sweeps(NNodes, B, plan.after, T, g)
    <2>1. T \in SUBSET (1..NNodes)
        BY <1>1
    <2>2. /\ \E g \in [0..NNodes -> SUBSET (B \cup T)] : Sweep(g)
          /\ \A g : Sweep(g) => g[NNodes] \subseteq B \cup T
        BY <1>1, <2>1, SweepWithin
    <2>3. \A g : Body(g)[0] = B /\ \A k \in 1..NNodes : Body(g)[k] =
                     IF k \in T /\ plan.after[k] \cap g[k - 1] # {} THEN g[k - 1] \cup {k} ELSE g[k - 1]
        BY <1>1 DEF After
    <2>4. \A g : Body(g) = [i \in 0..NNodes |-> Body(g)[i]]
        OBVIOUS
    <2> HIDE DEF Body
    <2>5. PICK f \in [0..NNodes -> SUBSET (B \cup T)] : Sweep(f)
        BY <2>2
    <2>6. \A k \in 0..NNodes : k = 0 \/ k \in 1..NNodes
        BY <1>1
    <2>7. \A k \in 0..NNodes : f[k] = Body(f)[k]
        BY <2>3, <2>5, <2>6 DEF Sweeps
    <2>8. f = Body(f)
        BY <2>4, <2>7
    <2>9. h = Body(h)
        BY <2>8
    <2> HIDE DEF h
    <2>10. Sweep(h)
        BY <2>3, <2>9 DEF Sweeps
    <2>11. h[NNodes] \subseteq B \cup lv
        BY <2>2, <2>10
    <2> QED
        BY <2>11 DEF h, Body
<1>3. Blocked(lv) \subseteq barred \cup lv
    <2>1. lv \in SUBSET lv
        OBVIOUS
    <2> QED
        BY <1>2, <2>1 DEF Blocked
<1> DEFINE T == lv \ (Blocked(lv) \cup plan.unmet)
<1>4. Skipped(lv, before) \subseteq before \cup lv
    <2>1. T \in SUBSET lv
        OBVIOUS
    <2> QED
        BY <1>2, <2>1 DEF Skipped
<1> QED
    BY <1>3, <1>4

\* Every step of an execution keeps it.
LEMMA GraphHoldKept ==
    GraphInv /\ GraphHolds /\ [GraphNext]_graphVars /\ UNCHANGED subject => GraphHolds'
<1> SUFFICES ASSUME GraphInv, GraphHolds, [GraphNext]_graphVars, UNCHANGED subject, Is("graph")
             PROVE  GraphHolds'
    BY DEF GraphHolds, Is
<1>1. /\ plan \in Plans /\ barred \subseteq visited /\ passed \subseteq visited
      /\ \A n \in GraphNode : state[n] = "running" => n \in level
      /\ level \subseteq visited /\ visited \subseteq GraphNode
      /\ state \in [GraphNode -> NodeStates]
    BY DEF GraphHolds, GraphInv
<1>2. CASE UNCHANGED graphVars
    BY <1>1, <1>2 DEF graphVars, GraphHolds
<1>3. ASSUME NEW before, before \subseteq visited, StartLevel(LevelAfter(visited), before),
             \A n \in level : state[n] # "running"
      PROVE  GraphHolds'
    <2> DEFINE lv == LevelAfter(visited)
    <2>1. lv \in SUBSET GraphNode
        BY DEF LevelAfter, Freed
    <2>2. /\ visited' = visited \cup lv /\ plan' = plan /\ level' = lv
          /\ barred' = Blocked(lv) /\ passed' = Skipped(lv, before)
          /\ state' = [n \in GraphNode |-> StateAtStart(lv, before, n)]
        BY <1>3 DEF StartLevel
    <2> HIDE DEF lv
    <2>3. Blocked(lv) \subseteq barred \cup lv /\ Skipped(lv, before) \subseteq before \cup lv
        BY <2>1, LevelWithin
    <2>4. \A n \in GraphNode : state'[n] = "running" => n \in level'
        BY <1>1, <1>3, <2>2 DEF StateAtStart
    <2>5. plan' \in Plans /\ barred' \subseteq visited' /\ passed' \subseteq visited'
        BY <1>1, <1>3, <2>2, <2>3
    <2> QED
        BY <2>4, <2>5 DEF GraphHolds
<1>4. CASE ExecuteGraph
    <2>1. {} \subseteq visited /\ StartLevel(LevelAfter(visited), {}) /\ level = {}
        BY <1>1, <1>4 DEF ExecuteGraph
    <2> QED
        BY <1>3, <2>1
<1>5. CASE LevelSettles
    <2> DEFINE before == passed \cup {n \in level : state[n] = "skipped"}
    <2>1. before \subseteq visited /\ StartLevel(LevelAfter(visited), before)
          /\ \A n \in level : state[n] # "running"
        BY <1>1, <1>5 DEF LevelSettles
    <2> HIDE DEF before
    <2> QED
        BY <1>3, <2>1
<1>6. ASSUME NEW n \in GraphNode, HandlerDone(n) PROVE GraphHolds'
    <2>1. state[n] = "running" /\ n \in visited
        BY <1>1, <1>6 DEF HandlerDone
    <2>2. /\ \A m \in GraphNode : state'[m] = "running" => state[m] = "running"
          /\ barred' \subseteq barred \cup {n} /\ UNCHANGED <<plan, level, visited, passed>>
        BY <1>1, <1>6 DEF HandlerDone
    <2> QED
        BY <1>1, <2>1, <2>2 DEF GraphHolds
<1> QED
    BY <1>2, <1>4, <1>5, <1>6 DEF GraphNext

\* The newest of what a sequence holds is of it, and as much as is asked for at most.
LEMMA LastNHolds ==
    ASSUME NEW s \in Seq(Nat), NEW n \in Nat
    PROVE  /\ LastN(s, n) \in Seq(Nat) /\ Len(LastN(s, n)) <= n
           /\ \A i \in 1..Len(LastN(s, n)) : \E j \in 1..Len(s) : LastN(s, n)[i] = s[j]
<1>1. CASE Len(s) <= n
    BY <1>1 DEF LastN
<1>2. CASE ~(Len(s) <= n)
    <2> DEFINE m == Len(s) - n + 1
    <2>1. m \in 1..(Len(s) + 1) /\ LastN(s, n) = SubSeq(s, m, Len(s))
        BY <1>2 DEF LastN
    <2>2. Len(SubSeq(s, m, Len(s))) = n
        BY <2>1
    <2>3. \A i \in 1..n : SubSeq(s, m, Len(s))[i] = s[m + i - 1] /\ m + i - 1 \in 1..Len(s)
        BY <2>1
    <2>4. LastN(s, n) \in Seq(Nat)
        BY LastNType
    <2> HIDE DEF m
    <2> QED
        BY <2>1, <2>2, <2>3, <2>4
<1> QED
    BY <1>1, <1>2

\* Every step of the stream keeps it.
LEMMA StreamHoldKept == StreamInv /\ StreamHolds /\ [StreamNext]_evtVars => StreamHolds'
<1> SUFFICES ASSUME StreamInv, StreamHolds, [StreamNext]_evtVars PROVE StreamHolds'
    OBVIOUS
<1> USE StreamAssumption
<1>1. /\ table \in Seq(Nat) /\ buffer \in Seq(Nat) /\ published \in Nat
      /\ Len(table) \in Nat /\ Len(buffer) \in Nat
      /\ \A i \in 1..Len(table) : table[i] <= published
    BY DEF StreamInv, StreamRange
<1>2. ASSUME UNCHANGED <<table, foreign, published>>, breaks' \in 0..MaxBreaks,
             buffer' = buffer \/ buffer' = <<>>, got' \subseteq 1..published
      PROVE  StreamHolds'
    BY <1>2 DEF StreamHolds
<1>3. CASE UNCHANGED evtVars
    BY <1>2, <1>3 DEF evtVars, StreamHolds
<1>4. CASE Break \/ ServerRestarts
    <2>1. breaks' \in 0..MaxBreaks
        BY <1>4 DEF Break, ServerRestarts, StreamHolds
    <2>2. /\ UNCHANGED <<table, foreign, published, got>>
          /\ buffer' = buffer \/ buffer' = <<>>
        BY <1>4 DEF Break, ServerRestarts
    <2>3. got' \subseteq 1..published
        BY <2>2 DEF StreamHolds
    <2> QED
        BY <1>2, <2>1, <2>2, <2>3
<1>5. CASE Connect
    <2>1. {table[i] : i \in Replayed} \subseteq 1..published
        <3>1. lastId \in Nat
            BY DEF StreamInv, StreamRange
        <3>2. \A i \in Replayed : i \in 1..Len(table)
            BY <1>1, <3>1 DEF Replayed, MissedRows
        <3> QED
            BY <3>2 DEF StreamHolds
    <2>2. ToSet(LastN(buffer, RecentSize)) \subseteq 1..published
        <3>1. DOMAIN LastN(buffer, RecentSize) = 1..Len(LastN(buffer, RecentSize))
            <4>1. RecentSize \in Nat
                OBVIOUS
            <4>2. LastN(buffer, RecentSize) \in Seq(Nat)
                BY <1>1, <4>1, LastNHolds
            <4> QED
                BY <4>2
        <3>2. \A i \in 1..Len(LastN(buffer, RecentSize)) :
                  LastN(buffer, RecentSize)[i] \in 1..published
            <4>1. /\ \A j \in 1..Len(buffer) : buffer[j] \in 1..published
                  /\ RecentSize \in Nat
                BY DEF StreamHolds
            <4>2. \A i \in 1..Len(LastN(buffer, RecentSize)) :
                      \E j \in 1..Len(buffer) : LastN(buffer, RecentSize)[i] = buffer[j]
                BY <1>1, <4>1, LastNHolds
            <4> QED
                BY <4>1, <4>2
        <3> QED
            BY <3>1, <3>2 DEF ToSet
    <2>3. got' \subseteq 1..published
        BY <1>5, <2>1, <2>2 DEF Connect, Mine, StreamHolds
    <2> QED
        BY <1>2, <1>5, <2>3 DEF Connect, StreamHolds
<1>6. ASSUME NEW other \in BOOLEAN, published < MaxEvents, Emit(published + 1, other),
             table' = table \/ table' = Append(table, published + 1), UNCHANGED breaks
      PROVE  StreamHolds'
    <2>1. published' = published + 1 /\ published' \in 0..MaxEvents
        BY <1>1, <1>6 DEF Emit
    <2>2. got' \subseteq 1..published' /\ foreign' \subseteq 1..published'
        <3>1. got' \subseteq got \cup {published + 1} /\ foreign' \subseteq foreign \cup {published + 1}
            BY <1>6 DEF Emit
        <3> QED
            BY <1>1, <2>1, <3>1 DEF StreamHolds
    <2>3. /\ \A i \in 1..Len(buffer') : buffer'[i] \in 1..published'
          /\ Len(buffer') <= BufferSize
        <3> DEFINE s == Append(buffer, published + 1)
        <3>1. s \in Seq(Nat) /\ buffer' = LastN(s, BufferSize)
            BY <1>1, <1>6 DEF Emit
        <3>2. \A i \in 1..Len(s) : s[i] \in 1..published'
            BY <1>1, <2>1, SMTT(30) DEF StreamHolds
        <3> HIDE DEF s
        <3> QED
            BY <3>1, <3>2, LastNHolds, ZenonT(40)
    <2>4. CASE table' = table
        BY <1>1, <1>6, <2>1, <2>2, <2>3, <2>4, SMTT(30) DEF StreamHolds
    <2>5. CASE table' = Append(table, published + 1)
        <3>1. /\ Len(table') = Len(table) + 1 /\ table'[Len(table) + 1] = published + 1
              /\ \A i \in 1..Len(table) : table'[i] = table[i]
            BY <1>1, <2>5
        <3>2. \A i \in 1..Len(table') : i \in 1..Len(table) \/ i = Len(table) + 1
            BY <1>1, <3>1
        <3>3. \A i \in 1..Len(table') : table'[i] \in 1..published'
            <4>1. ASSUME NEW i \in 1..Len(table) PROVE table'[i] \in 1..published'
                <5>1. table[i] \in 1..published /\ published \in Nat
                    BY <1>1 DEF StreamHolds
                <5>2. table'[i] = table[i]
                    BY <3>1
                <5> QED
                    BY <2>1, <5>1, <5>2
            <4>2. table'[Len(table) + 1] \in 1..published'
                BY <1>1, <2>1, <3>1
            <4> QED
                BY <3>2, <4>1, <4>2
        <3>4. ASSUME NEW i \in 1..Len(table'), NEW j \in 1..Len(table'), i < j
              PROVE  table'[i] < table'[j]
            <4>1. i \in 1..Len(table)
                BY <1>1, <3>1, <3>4
            <4>2. CASE j \in 1..Len(table)
                <5>1. table'[i] = table[i] /\ table'[j] = table[j]
                    BY <3>1, <4>1, <4>2
                <5> QED
                    BY <3>4, <4>1, <4>2, <5>1 DEF StreamHolds
            <4>3. CASE j = Len(table) + 1
                <5>1. table'[i] = table[i] /\ table[i] \in Nat /\ table[i] <= published
                    BY <1>1, <3>1, <4>1, SMTT(30)
                <5>2. table'[j] = published + 1
                    BY <3>1, <4>3
                <5> QED
                    BY <1>1, <5>1, <5>2
            <4> QED
                BY <3>2, <4>2, <4>3
        <3> QED
            BY <1>6, <2>1, <2>2, <2>3, <3>3, <3>4 DEF StreamHolds
    <2> QED
        BY <1>6, <2>4, <2>5
<1>7. ASSUME NEW other \in BOOLEAN, NEW kept \in Stored, PublishEvent(other, kept)
      PROVE  StreamHolds'
    BY <1>6, <1>7 DEF PublishEvent
<1>8. ASSUME NEW other \in BOOLEAN, WorkerPublishes(other) PROVE StreamHolds'
    BY <1>6, <1>8 DEF WorkerPublishes
<1> QED
    BY <1>3, <1>4, <1>5, <1>7, <1>8 DEF StreamNext

-----------------------------------------------------------------------------
(* The sum: a step is one of a component's own, or leaves it alone.         *)

\* Tasks at rest, and keys at rest, are in a state that keeps the invariant.
LEMMA RestsInv == /\ TasksRest => TasksInv
                  /\ KeysRest => KeysInv
<1>1. ASSUME TasksRest PROVE TasksInv
    <2>1. ledger = [t \in TaskId |-> row[t].status]
        BY <1>1 DEF TasksRest, Unborn
    <2> QED
        BY <1>1, <2>1, TasksInitInv DEF TasksRest, TasksInit
<1>2. ASSUME KeysRest PROVE KeysInv
    BY <1>2, ApiKeyAssumption
    DEF KeysRest, KeysInv, KeysTypeOK, EndInv, RotationInv, NotRotating
<1> QED
    BY <1>1, <1>2

\* A graph at rest has nothing to run.
LEMMA GraphRestInv == GraphRest => GraphInv
<1> SUFFICES ASSUME GraphRest PROVE GraphInv
    OBVIOUS
<1>1. /\ level = {} /\ visited = {} /\ barred = {} /\ passed = {}
      /\ state = [n \in GraphNode |-> "unseen"]
      /\ plan.after = [n \in GraphNode |-> {}]
    BY DEF GraphRest
<1>2. OrderFree
    BY <1>1 DEF OrderFree
<1>3. plan.after \in [GraphNode -> SUBSET (GraphNode \cup {Dangling})]
    BY <1>1
<1> QED
    BY <1>1, <1>2, <1>3 DEF GraphInv, NodeStates

\* The invariants of the components, in five groups: the rows of handlers, what
\* ends access, calls to others and the clients, a process with its skills, its
\* stream and its database, and what is checked before or after the fact, the plans
\* of work graphs among it.
PlatformRowsInv == TasksInv /\ AskInv /\ TenancyInv /\ DeploymentsInv /\ CardsInv
PlatformAccessInv == KeysInv /\ SessionsInv /\ OidcInv
PlatformOutwardInv ==
    CommandsInv /\ OutboundInv /\ McpInv /\ ViewInv /\ ConsoleInv /\ CrawlInv
PlatformProcessInv == SkillInv /\ CatalogInv /\ SecretsInv /\ BootInv /\ StreamInv /\ PgInv
PlatformChecksInv == AuditInv /\ GatesInv /\ GraphInv /\ RateInv
PlatformInv == /\ PlatformRowsInv /\ PlatformAccessInv /\ PlatformOutwardInv
               /\ PlatformProcessInv /\ PlatformChecksInv

\* What the components start with.
LEMMA PlatformInitInv == MCInit => PlatformInv
<1> SUFFICES ASSUME MCInit PROVE PlatformInv
    OBVIOUS
<1>1. PlatformRowsInv
    BY RestsInv, TasksInitInv, AskInitInv, TenancyInitInv, DeploymentsInitInv, CardsInitInv
    DEF MCInit, PlatformRowsInv
<1>2. PlatformAccessInv
    BY RestsInv, KeysInitInv, SessionsInitInv, OidcInitInv
    DEF MCInit, PlatformAccessInv
<1>3. PlatformOutwardInv
    BY RestsInv, CommandsInitInv, OutboundInitInv, McpInitInv, ViewInitInv, ConsoleInitInv,
       CrawlInitInv
    DEF MCInit, PlatformOutwardInv
<1>4. PlatformProcessInv
    BY RestsInv, SkillInitInv, CatalogInitInv, SecretsInitInv, BootInitInv, StreamInitInv, PgInitInv
    DEF MCInit, PlatformProcessInv
<1>5. PlatformChecksInv
    BY AuditInitInv, GatesInitInv, GraphInitInv, GraphRestInv, RateInitInv
    DEF MCInit, PlatformChecksInv
<1> QED
    BY <1>1, <1>2, <1>3, <1>4, <1>5 DEF PlatformInv

\* A step of the sum is, to each component, a step of its own or none.
LEMMA StepsOfOne ==
    ASSUME [MCNext]_mcVars
    PROVE  /\ [TasksNext]_tskVars /\ [DispatchNext]_dispVars /\ [KeysNext]_keyVars
           /\ [SessionsNext]_accVars /\ [OidcNext]_oidcVars /\ [TenancyNext]_tenVars
           /\ [DeploymentsNext]_depVars /\ [CardsNext]_cardVars /\ [CommandsNext]_cmdVars
           /\ [OutboundNext]_outVars /\ [McpNext]_mcpVars /\ [ViewNext]_viewVars
           /\ [ConsoleNext]_conVars /\ [SkillNext]_skillVars /\ [CatalogNext]_catVars
           /\ [SecretsNext]_secVars /\ [BootNext]_bootVars /\ [StreamNext]_evtVars
           /\ [PgNext]_pgVars /\ [AuditNext]_audVars /\ [GatesNext]_gateVars
           /\ [GraphNext]_graphVars /\ [CrawlNext]_crawlVars
           /\ [RateNext]_rateVars
<1>1. CASE UNCHANGED mcVars
    BY <1>1 DEF mcVars
<1>2. CASE MCNext
    <2>1. [TasksNext]_tskVars
        BY <1>2 DEF MCNext, Still
    <2>2. [DispatchNext]_dispVars
        BY <1>2 DEF MCNext, Still
    <2>3. [KeysNext]_keyVars
        BY <1>2 DEF MCNext, Still
    <2>4. [SessionsNext]_accVars
        BY <1>2 DEF MCNext, Still
    <2>5. [OidcNext]_oidcVars
        BY <1>2 DEF MCNext, Still
    <2>6. [TenancyNext]_tenVars
        BY <1>2 DEF MCNext, Still
    <2>7. [DeploymentsNext]_depVars
        BY <1>2 DEF MCNext, Still
    <2>8. [CardsNext]_cardVars
        BY <1>2 DEF MCNext, Still
    <2>9. [CommandsNext]_cmdVars
        BY <1>2 DEF MCNext, Still
    <2>10. [OutboundNext]_outVars
        BY <1>2 DEF MCNext, Still
    <2>11. [McpNext]_mcpVars
        BY <1>2 DEF MCNext, Still
    <2>12. [ViewNext]_viewVars
        BY <1>2 DEF MCNext, Still
    <2>13. [ConsoleNext]_conVars
        BY <1>2 DEF MCNext, Still
    <2>14. [SkillNext]_skillVars
        BY <1>2 DEF MCNext, Still
    <2>15. [CatalogNext]_catVars
        BY <1>2 DEF MCNext, Still
    <2>16. [SecretsNext]_secVars
        BY <1>2 DEF MCNext, Still
    <2>17. [BootNext]_bootVars
        BY <1>2 DEF MCNext, Still
    <2>18. [StreamNext]_evtVars
        BY <1>2 DEF MCNext, Still
    <2>19. [PgNext]_pgVars
        BY <1>2 DEF MCNext, Still
    <2>20. [AuditNext]_audVars
        BY <1>2 DEF MCNext, Still
    <2>21. [GatesNext]_gateVars
        BY <1>2 DEF MCNext, Still
    <2>22. [GraphNext]_graphVars
        BY <1>2 DEF MCNext, Still
    <2>23. [CrawlNext]_crawlVars
        BY <1>2 DEF MCNext, Still
    <2>24. [RateNext]_rateVars
        BY <1>2 DEF MCNext, Still
    <2> QED
        BY <2>1, <2>2, <2>3, <2>4, <2>5, <2>6, <2>7, <2>8, <2>9, <2>10, <2>11,
           <2>12, <2>13, <2>14, <2>15, <2>16, <2>17, <2>18, <2>19, <2>20, <2>21,
           <2>22, <2>23, <2>24
<1> QED
    BY <1>1, <1>2

\* What every component keeps, all of them keep together.
THEOREM PlatformInductive == MCSpec => []PlatformInv
<1>1. MCInit => PlatformInv
    BY PlatformInitInv
<1>2. PlatformInv /\ [MCNext]_mcVars => PlatformInv'
    <2> SUFFICES ASSUME PlatformInv, [MCNext]_mcVars PROVE PlatformInv'
        OBVIOUS
    <2>1. PlatformRowsInv'
        BY StepsOfOne, TasksStepInv, AskStepInv, TenancyStepInv, DeploymentsStepInv, CardsStepInv
        DEF PlatformInv, PlatformRowsInv
    <2>2. PlatformAccessInv'
        BY StepsOfOne, KeysStepInv, SessionsStepInv, OidcStepInv
        DEF PlatformInv, PlatformAccessInv
    <2>3. PlatformOutwardInv'
        BY StepsOfOne, CommandsStepInv, OutboundStepInv, McpStepInv, ViewStepInv, ConsoleStepInv,
           CrawlStepInv
        DEF PlatformInv, PlatformOutwardInv
    <2>4. PlatformProcessInv'
        BY StepsOfOne, SkillStepInv, CatalogStepInv, SecretsStepInv, BootStepInv,
           StreamStepInv, PgStepInv
        DEF PlatformInv, PlatformProcessInv
    <2>5. PlatformChecksInv'
        BY StepsOfOne, AuditStepInv, GatesStepInv, GraphStepInv, RateStepInv
        DEF PlatformInv, PlatformChecksInv
    <2> QED
        BY <2>1, <2>2, <2>3, <2>4, <2>5 DEF PlatformInv
<1> QED
    BY <1>1, <1>2, PTL DEF MCSpec

\* What ends a key, a session, a ticket, a login state or a key of the provider
\* ends that one for good, for any number of them (auth.ts, oidc.ts).  What came
\* from a revoked key lives on until it ends itself; once nothing of it is left, the
\* key lets nobody in again.
THEOREM AccessAlwaysEnds == MCSpec => AccessEnds
<1>1. PlatformInv => KeyEndsOnce /\ SpentStaysSpent /\ LoginsSound
    BY KeysInvEnds, SessionsInvSpent
    DEF PlatformInv, PlatformAccessInv, OidcInv, LoginsSound
<1>2. PlatformInv /\ [MCNext]_mcVars => [KeysStayOut]_accVars
    <2> SUFFICES ASSUME PlatformInv, [MCNext]_mcVars PROVE KeysStayOut
        OBVIOUS
    <2>1. SessionsInv /\ [SessionsNext]_accVars
        BY StepsOfOne DEF PlatformInv, PlatformAccessInv
    <2> QED
        BY <2>1, KeyStaysOut DEF KeysStayOut
<1>3. MCSpec => []PlatformInv /\ [][MCNext]_mcVars
    BY PlatformInductive, PTL DEF MCSpec
<1> QED
    BY <1>1, <1>2, <1>3, PTL DEF AccessEnds

\* The rows that handlers write in several statements stay accounted for: tenants,
\* deployments and acknowledged task cards (app.ts).
THEOREM HandlersAreSound == MCSpec => []HandlersSound
<1>1. PlatformInv => HandlersSound
    BY TenancyInvAccounts, DeploymentsInvExplains, CardsInvStands
    DEF PlatformInv, PlatformRowsInv, HandlersSound
<1> QED
    BY <1>1, PlatformInductive, PTL

\* A command's answer says what became of its child, and a request that is tried
\* again is answered for what it heard (exec-transport.ts, sandbox.ts, fetcher.ts).
THEOREM CallsAreSound == MCSpec => []CallsSound
<1>1. PlatformInv => CallsSound
    BY CommandsInvSettles, OutboundInvHonest
    DEF PlatformInv, PlatformOutwardInv, CallsSound
<1> QED
    BY <1>1, PlatformInductive, PTL

\* The MCP server replies once to each line, the browser's session is that of the
\* credential it holds, and its streams belong to pages (mcp-server, dashboard).
THEOREM ClientsAreSound == MCSpec => []ClientsSound
<1>1. PlatformInv => ClientsSound
    BY McpInvAnswers, ConsoleInvSound, ViewInvExplains
    DEF PlatformInv, PlatformOutwardInv, ClientsSound
<1> QED
    BY <1>1, PlatformInductive, PTL

\* Whatever overlaps or fails, a scrape that succeeded lists each page once and none
\* out of reach, and all of them below its cap; it settles with its job unless a
\* crawl outlasts its lock or the database fails (app.ts, workers.ts, crawler.ts,
\* robots.ts, jobs.ts).
THEOREM ScrapesAreSound == MCSpec => []ScrapeSound
<1>1. PlatformInv => ScrapeSound
    BY CrawlInvSound
    DEF PlatformInv, PlatformOutwardInv
<1> QED
    BY <1>1, PlatformInductive, PTL

\* A skill that succeeded did so by one attempt, under a contract valid where it
\* ran, with a record for each claim (runtime.ts, app.ts).
THEOREM SkillsAreSound == MCSpec => []SkillsSound
<1>1. PlatformInv => SkillsSound
    BY SkillInvIsOne, CatalogInvContracts
    DEF PlatformInv, PlatformProcessInv, SkillsSound
<1> QED
    BY <1>1, PlatformInductive, PTL

\* A process that serves has its migrations and its seeds, and one that is up has
\* the secrets its environment promised (context.ts, config.ts, secrets.ts).
THEOREM StartsAreSound == MCSpec => []StartsSound
<1>1. PlatformInv => StartsSound
    BY BootInvReady, SecretsInvSound
    DEF PlatformInv, PlatformProcessInv, StartsSound
<1> QED
    BY <1>1, PlatformInductive, PTL

\* A connected client misses a stored event only if the ids of the stream ran
\* ahead of the table or a replay was cut off (app.ts, bus.ts).
THEOREM GapsAreExplained == MCSpec => []GapExplained
<1>1. PlatformInv => GapExplained
    BY StreamInvExplains
    DEF PlatformInv, PlatformProcessInv
<1> QED
    BY <1>1, PlatformInductive, PTL

\* While no call to the database timed out, a transaction its caller was told was
\* committed is stored with all its writes, a failed one with none or, where it was
\* the COMMIT that failed, with all (pgdriver.ts, pgworker.cjs).
THEOREM UnitsHoldUntilTimeout == MCSpec => []UnitsUntilTimeout
<1>1. PlatformInv => UnitsUntilTimeout
    BY PgInvUnits
    DEF PlatformInv, PlatformProcessInv
<1> QED
    BY <1>1, PlatformInductive, PTL

\* Verification of the log accepts it exactly when no row was altered and none is
\* missing but at the end, and names no row before the first damage (audit.ts).
THEOREM LogIsTamperEvident == MCSpec => []TamperEvident
<1>1. PlatformInv => TamperEvident
    BY AuditInvTells
    DEF PlatformInv, PlatformChecksInv
<1> QED
    BY <1>1, PlatformInductive, PTL

\* For any orders, of any operands and any budget of repairs, negative ones too: a
\* change on main passed every gate as it is, a delivered one meets all its vectors,
\* and one the template could satisfy is given up only for want of repairs or for a
\* title that cannot be read (pipeline.ts, gates.ts, diagnose.ts).
THEOREM ChangesAreSound == MCSpec => []ChangeSound
<1>1. PlatformInv => ChangeSound
    BY GatesInvSound
    DEF PlatformInv, PlatformChecksInv
<1> QED
    BY <1>1, PlatformInductive, PTL

\* No interval as long as a window sees more than twice the limit admitted, for any
\* limit, window and number of replicas (ratelimit.ts).
THEOREM BurstsAreBounded == MCSpec => []BurstBounded
<1>1. PlatformInv => BurstBounded
    BY RateInvBounds
    DEF PlatformInv, PlatformChecksInv
<1> QED
    BY <1>1, PlatformInductive, PTL

\* On a graph without cycles the results do not depend on how the handlers of a
\* level interleave, nor on the order in which a level is gone through (graph.ts).
THEOREM ResultsAreOrderFree == MCSpec => []OrderFree
<1>1. PlatformInv => OrderFree
    BY GraphInvFree
    DEF PlatformInv, PlatformChecksInv
<1> QED
    BY <1>1, PlatformInductive, PTL

-----------------------------------------------------------------------------
(* Every component keeps to its types.                                      *)

PlatformHolds ==
    /\ GatesHold /\ ConsoleHolds /\ CrawlHolds /\ RateHolds /\ GraphHolds /\ StreamHolds

\* It holds at the start, wherever a component rests.
LEMMA PlatformHoldsInit == MCInit => PlatformHolds
<1> SUFFICES ASSUME MCInit PROVE PlatformHolds
    OBVIOUS
<1>1. GatesHold
    BY DEF MCInit, GatesInit, GatesHold, Advices
<1>2. ConsoleHolds
    BY ConsoleAssumption DEF MCInit, ConsoleInit, ConsoleHolds, NoApiCall
<1>3. CrawlHolds
    BY CrawlAssumption DEF MCInit, CrawlInit, CrawlHolds, NoCrawl
<1>4. RateHolds
    BY RateAssumption DEF MCInit, RateInit, RateHolds, Times
<1>5. GraphHolds
    BY DEF MCInit, GraphInit, GraphHolds
<1>6. StreamHolds
    BY StreamAssumption DEF MCInit, StreamInit, StreamHolds
<1> QED
    BY <1>1, <1>2, <1>3, <1>4, <1>5, <1>6 DEF PlatformHolds

\* With what the invariants say, it is all the types there are.
LEMMA PlatformHoldsTypes == PlatformInv /\ PlatformHolds => TypesOK
<1> SUFFICES ASSUME PlatformInv, PlatformHolds PROVE TypesOK
    OBVIOUS
<1>1. /\ TasksTypeOK /\ DispatchTypeOK /\ TenancyTypeOK /\ DeploymentsTypeOK /\ CardsTypeOK
    BY DEF PlatformInv, PlatformRowsInv, TasksInv, TasksTypeOK, AskInv, DispatchTypeOK,
           TenancyInv, TenancyTypeOK, DeploymentsInv, DeploymentsTypeOK,
           CardsInv, CardsTypeOK, CardsTyped, Cards, Calls
<1>2. KeysTypeOK /\ SessionsTypeOK /\ OidcTypeOK
    BY DEF PlatformInv, PlatformAccessInv, KeysInv, SessionsInv, OidcInv
<1>3. CommandsTypeOK /\ McpTypeOK /\ ViewTypeOK
    BY DEF PlatformInv, PlatformOutwardInv, CommandsInv, CommandsTypeOK, CommandRecord,
           McpInv, McpTypeOK, ViewInv, ViewTypeOK, VisitRecord
<1>4. SkillTypeOK /\ CatalogTypeOK /\ SecretsTypeOK
    BY DEF PlatformInv, PlatformProcessInv, SkillInv, SkillTypeOK, CatalogInv, CatalogTypeOK,
           OverrideInv, PostInv, RunHolds, SecretsInv, SecretsTypeOK
<1>5. PgTypeOK
    BY PgInvTypes DEF PlatformInv, PlatformProcessInv
<1>6. AuditTypeOK
    <2>1. AuditInv
        BY DEF PlatformInv, PlatformChecksInv
    <2>2. appends \in 0..MaxAppends /\ edits \in 0..MaxEdits /\ Len(events) \in Nat
        BY <2>1 DEF AuditInv
    <2>3. ASSUME NEW i \in 1..Len(events) PROVE events[i].seq \in 1..appends /\ events[i].org \in Org
        BY <2>1 DEF AuditInv, RowHolds, AuditRow
    <2>4. ASSUME NEW i \in 1..Len(events), NEW j \in 1..(i - 1) PROVE events[j].seq < events[i].seq
        <3>1. j \in 1..Len(events) /\ j < i
            BY <2>2
        <3> QED
            BY <2>1, <3>1 DEF AuditInv
    <2> QED
        BY <2>2, <2>3, <2>4 DEF AuditTypeOK
<1>7. BootTypeOK
    <2>1. BootShape
        BY DEF PlatformInv, PlatformProcessInv, BootInv
    <2>2. seeded \subseteq {Seeds[i] : i \in DOMAIN Seeds}
        BY <2>1, FourSeeds DEF BootShape
    <2>3. \A s \in Server : boot[s].pc \in {"down", "migrate", "seed", "serving"}
        BY <2>1 DEF BootShape, BootRecord
    <2> QED
        BY <2>1, <2>2, <2>3 DEF BootShape, BootTypeOK
<1>8. OutboundTypeOK
    <2>1. OutboundInv
        BY DEF PlatformInv, PlatformOutwardInv
    <2>2. ASSUME NEW x \in Outgoing PROVE tried[x] \in 0..Tries(x)
        BY <2>1, <2>2, OutboundAssumption DEF OutboundInv, Tries
    <2>3. taken \in [Msg -> 0..3]
        <3>1. ASSUME NEW x \in Msg PROVE taken[x] \in 0..3
            <4>1. x \in Outgoing
                BY DEF Outgoing
            <4>2. taken[x] \in Nat /\ tried[x] \in Nat /\ taken[x] <= tried[x] /\ tried[x] <= 3
                BY <2>1, <4>1 DEF OutboundInv, Tries
            <4> QED
                BY <4>2
        <3> QED
            BY <2>1, <3>1 DEF OutboundInv
    <2> QED
        BY <2>1, <2>2, <2>3 DEF OutboundInv, OutboundTypeOK, Outgoing
<1>9. GatesTypeOK
    BY DEF PlatformInv, PlatformChecksInv, PlatformHolds, GatesInv, GatesShape, GatesHold,
           GatesTypeOK, Underway, OnMain
<1>10. Is("graph") => GraphTypeOK
    BY DEF PlatformInv, PlatformChecksInv, PlatformHolds, GraphInv, GraphHolds, GraphTypeOK,
           NodeStates, Results
<1>11. CrawlTypeOK
    BY CrawlTyped DEF PlatformInv, PlatformOutwardInv, PlatformHolds
<1>12. ConsoleTypeOK
    <2>1. ConsoleTyped /\ ConsoleHolds
        BY DEF PlatformInv, PlatformOutwardInv, PlatformHolds, ConsoleInv
    <2>2. \A c \in ApiCall : calls[c].pc \in {"idle", "first", "exchange", "retry", "by_key"}
        BY <2>1 DEF ConsoleTyped, CallRecord
    <2>3. Len(issued) \in 0..MaxIssued
        BY <2>1, ConsoleAssumption DEF ConsoleTyped, ConsoleHolds
    <2> QED
        BY <2>1, <2>2, <2>3 DEF ConsoleTyped, ConsoleHolds, ConsoleTypeOK, KeyOrNone
<1>13. StreamTypeOK
    <2>1. StreamRange /\ StreamHolds
        BY DEF PlatformInv, PlatformProcessInv, PlatformHolds, StreamInv
    <2>2. Len(table) \in Nat /\ DOMAIN table = 1..Len(table) /\ DOMAIN buffer = 1..Len(buffer)
        BY <2>1 DEF StreamRange
    <2>3. ToSet(table) \subseteq 1..published /\ ToSet(buffer) \subseteq 1..published
        BY <2>1, <2>2 DEF StreamHolds, ToSet
    <2>4. IsInjective(table)
        <3> SUFFICES ASSUME NEW i \in 1..Len(table), NEW j \in 1..Len(table), table[i] = table[j]
                     PROVE  i = j
            BY <2>2 DEF IsInjective
        <3>1. table[i] \in Nat /\ ~(table[i] < table[j]) /\ ~(table[j] < table[i])
            BY <2>1 DEF StreamRange
        <3>2. ~(i < j) /\ ~(j < i)
            BY <2>1, <3>1 DEF StreamHolds
        <3> QED
            BY <2>2, <3>2
    <2> QED
        BY <2>1, <2>3, <2>4 DEF StreamRange, StreamHolds, StreamTypeOK
<1>14. RateTypeOK
    <2>1. RateInv /\ clock \in Times /\ lastPrune \in [Replica -> Times]
        BY DEF PlatformInv, PlatformChecksInv, PlatformHolds, RateHolds
    <2>2. 0..clock \subseteq Times
        BY <2>1, RateAssumption DEF Times
    <2>3. /\ bucket \in [Replica -> [start : Times, count : Nat]]
          /\ counter \in [start : Times, count : Nat]
          /\ admitted \in [Ages -> Nat] /\ admittedBy \in [Replica -> [Ages -> Nat]]
        BY <2>1, <2>2 DEF RateInv, Bounded
    <2> QED
        BY <2>1, <2>3 DEF RateTypeOK
<1> QED
    BY <1>1, <1>2, <1>3, <1>4, <1>5, <1>6, <1>7, <1>8, <1>9, <1>10, <1>11, <1>12, <1>13, <1>14
    DEF TypesOK

\* Every component keeps to its types, for every value of the constants.
THEOREM TypesAreOK == MCSpec => []TypesOK
<1>1. MCInit => PlatformHolds
    BY PlatformHoldsInit
<1>2. PlatformInv /\ PlatformHolds /\ [MCNext]_mcVars => PlatformHolds'
    <2> SUFFICES ASSUME PlatformInv, PlatformHolds, [MCNext]_mcVars PROVE PlatformHolds'
        OBVIOUS
    <2>1. UNCHANGED subject
        BY DEF MCNext, mcVars, Still
    <2>2. GatesHold' /\ GraphHolds' /\ RateHolds'
        BY <2>1, StepsOfOne, GatesHoldKept, GraphHoldKept, RateHoldKept
        DEF PlatformInv, PlatformChecksInv, PlatformHolds
    <2>3. ConsoleHolds' /\ CrawlHolds'
        BY StepsOfOne, ConsoleHoldKept, CrawlHoldKept
        DEF PlatformInv, PlatformOutwardInv, PlatformHolds
    <2>4. StreamHolds'
        BY StepsOfOne, StreamHoldKept
        DEF PlatformInv, PlatformProcessInv, PlatformHolds
    <2> QED
        BY <2>2, <2>3, <2>4 DEF PlatformHolds
<1>3. PlatformInv /\ PlatformHolds => TypesOK
    BY PlatformHoldsTypes
<1> QED
    BY <1>1, <1>2, <1>3, PlatformInductive, PTL DEF MCSpec
=============================================================================
