-------------------------------- MODULE Prospects --------------------------------
(***************************************************************************)
(* How leads are found: the runs of agents/outreach/enrichment_agent.py,   *)
(* each here with one search result, and the discovery cycles of           *)
(* agents/marketing/lead_discovery.py.                                     *)
(*                                                                         *)
(* The site is external: pages that answer 200 or do not, and links among  *)
(* them.  So is the search: the tool the agent imports is not in           *)
(* agents/tools/web_search.py, and without it a run finds nothing; the     *)
(* tests put one in its place.  A lead table has no unique e-mail.         *)
(***************************************************************************)
EXTENDS Integers, FiniteSets, Sequences, SequencesExt

CONSTANTS
    Searches,   \* runs of the enrichment agent
    Cycles,     \* cycles of lead discovery
    Pages,      \* pages of sites
    Links,      \* of each page the sequence of pages it links to
    HostOf,     \* of each page its host
    FirstPage,  \* the page a search finds
    MaxPages,   \* _MAX_PAGES_PER_PROSPECT
    Emails      \* addresses pages show

ASSUME ProspectsAssumption ==
    /\ Links \in [Pages -> Seq(Pages)] /\ FirstPage \in Pages /\ MaxPages \in Nat
    /\ Searches \cap Cycles = {}

VARIABLES
    run,        \* of each run: [at, visited, queue, pages, email]
    leads,      \* rows of leads: [by, email, review]
    announced,  \* runs that published prospect_discovered
    cycled,     \* cycles that are over
    overlap     \* history: pairs of writers that were at work at the same time

prospectvars == <<run, leads, announced, cycled, overlap>>

NoEmail == "null"

ProspectInit ==
    /\ run = [r \in Searches |-> [at |-> "none", visited |-> <<>>, queue |-> <<>>, pages |-> 0, email |-> NoEmail]]
    /\ leads = {}
    /\ announced = {}
    /\ cycled = {}
    /\ overlap = {}

\* run: the search finds the start page, or nothing.
RunEnrichment(r) ==
    /\ run[r].at = "none"
    /\ \/ run' = [run EXCEPT ![r].at = "crawl", ![r].queue = <<FirstPage>>]
       \/ run' = [run EXCEPT ![r].at = "done"]
    /\ UNCHANGED <<leads, announced, cycled, overlap>>

\* Of the first n links of a page those to the same host, outside seen, in order.
InternalLinks(page, seen) ==
    LET kept[n \in 0..Len(Links[page])] ==
            IF n = 0 THEN <<>>
            ELSE IF HostOf[Links[page][n]] = HostOf[FirstPage] /\ Links[page][n] \notin seen
                 THEN Append(kept[n - 1], Links[page][n])
                 ELSE kept[n - 1]
    IN  kept

\* The next page of the queue: a page seen before is passed over, one that fails does
\* not count; another's internal links are queued, up to one that cannot be parsed,
\* and twice if they are there twice.
CrawlProspect(r) ==
    LET page == Head(run[r].queue)
        rest == Tail(run[r].queue)
        seen == Append(run[r].visited, page)
        internal == InternalLinks(page, ToSet(seen))
    IN  /\ run[r].at = "crawl"
        /\ run[r].queue # <<>> /\ run[r].pages < MaxPages
        /\ IF page \in ToSet(run[r].visited)
           THEN run' = [run EXCEPT ![r].queue = rest]
           ELSE \/ \E n \in DOMAIN internal :
                      run' = [run EXCEPT ![r].queue = rest \o internal[n], ![r].visited = seen, ![r].pages = @ + 1]
                \/ run' = [run EXCEPT ![r].queue = rest, ![r].visited = seen]
        /\ UNCHANGED <<leads, announced, cycled, overlap>>

\* _extract_entities: the model's answer, else what the expressions find; a page
\* may show no address, and without any usable field the result is skipped.
ExtractEntities(r) ==
    /\ run[r].at = "crawl"
    /\ run[r].queue = <<>> \/ run[r].pages >= MaxPages
    /\ \/ \E e \in Emails \cup {NoEmail} :
            run' = [run EXCEPT ![r].at = "query", ![r].email = e, ![r].queue = <<>>]
       \/ run' = [run EXCEPT ![r].at = "done", ![r].queue = <<>>]
    /\ UNCHANGED <<leads, announced, cycled, overlap>>

\* Faulty variant: the lead is inserted without a query.
QueryLeadBlind(r) ==
    /\ run[r].at = "query"
    /\ run' = [run EXCEPT ![r].at = "insert"]
    /\ UNCHANGED <<leads, announced, cycled, overlap>>

\* _persist_prospect queries by e-mail and then updates or inserts.
QueryLead(r) ==
    /\ run[r].at = "query"
    /\ run' = [run EXCEPT ![r].at =
                 IF run[r].email # NoEmail /\ \E l \in leads : l.email = run[r].email
                 THEN "update" ELSE "insert"]
    /\ overlap' = overlap \cup {{r, s} : s \in {s \in Searches : run[s].at = "insert"}}
    /\ UNCHANGED <<leads, announced, cycled>>

PersistProspect(r) ==
    /\ run[r].at \in {"insert", "update"}
    /\ leads' = IF run[r].at = "update" THEN leads
                ELSE leads \cup {[by |-> r, email |-> run[r].email, review |-> run[r].email = NoEmail]}
    /\ run' = [run EXCEPT ![r].at = "publish"]
    /\ UNCHANGED <<announced, cycled, overlap>>

\* The event bus keeps failures of its handlers from the publisher.
PublishDiscovered(r) ==
    /\ run[r].at = "publish"
    /\ announced' = announced \cup {r}
    /\ run' = [run EXCEPT ![r].at = "done"]
    /\ UNCHANGED <<leads, cycled, overlap>>

\* Rolled back, logged, and the run goes on without the prospect.
PersistFails(r) ==
    /\ run[r].at \in {"query", "insert", "update", "publish"}
    /\ run' = [run EXCEPT ![r].at = "done"]
    /\ UNCHANGED <<leads, announced, cycled, overlap>>

\* run_discovery_cycle saves what the language model extracted, or the mock leads
\* without it; each save may fail by itself, and none looks for an older lead.
RunDiscoveryCycle(c) ==
    /\ c \notin cycled
    /\ cycled' = cycled \cup {c}
    /\ \E saved \in SUBSET Emails :
         leads' = leads \cup {[by |-> c, email |-> e, review |-> FALSE] : e \in saved}
    /\ UNCHANGED <<run, announced, overlap>>

ProspectNext ==
    \/ \E r \in Searches :
         \/ RunEnrichment(r) \/ CrawlProspect(r) \/ ExtractEntities(r) \/ QueryLead(r)
         \/ PersistProspect(r) \/ PublishDiscovered(r) \/ PersistFails(r)
    \/ \E c \in Cycles : RunDiscoveryCycle(c)

\* Requests to a site have a time limit, and so has the language model.
ProspectFairness == \A r \in Searches : WF_prospectvars(CrawlProspect(r) \/ ExtractEntities(r))

-------------------------------------------------------------------------------
(* Properties. *)

\* A crawl stays on its host and asks for no page twice, although links repeat and
\* lead back, and reads no more pages than it may.
CrawlBounded ==
    \A r \in Searches :
        /\ IsInjective(run[r].visited)
        /\ \A p \in ToSet(run[r].visited) : HostOf[p] = HostOf[FirstPage]
        /\ run[r].pages <= MaxPages

\* A crawl ends on every finite site, also one that links in circles and fails.
CrawlEnds == \A r \in Searches : run[r].at = "crawl" ~> run[r].at # "crawl"

\* Enrichment gives one address two rows only when two runs had both looked for it
\* before one of them wrote; and a lead the CRM is told of has its row.
OneLeadPerAddress ==
    /\ \A l, m \in leads :
         l # m /\ l.by \in Searches /\ m.by \in Searches /\ l.email = m.email /\ l.email # NoEmail
             => {l.by, m.by} \in overlap
    /\ \A r \in announced : \E l \in leads : l.email = run[r].email
===============================================================================
