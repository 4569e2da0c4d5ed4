----------------------------- MODULE MCProcesses -----------------------------
(***************************************************************************)
(* Parts of the program that run until something is done, on one small     *)
(* instance.  As in MCRecords one part, `focus`, moves; it keeps the       *)
(* fairness its module states.                                             *)
(***************************************************************************)
EXTENDS Tickets, Tenants, MailWorker, Prospects, CiPipeline,
        ReleaseAgent, PerformanceMonitor, TLC

VARIABLE focus

Parts == {"tickets", "tenants", "mail", "prospects", "pipeline",
          "release", "performance"}

mcvars == <<focus, ticketvars, tenantvars, mailvars, prospectvars,
            civars, relvars, perfvars>>

\* Of the parts that do not move only one initial state is of interest.
Free(part, initial) == focus = part \/ initial

Init ==
    /\ focus \in Parts
    /\ TicketInit /\ Free("tickets", importable /\ priority = 2)
    /\ TenantInit
    /\ MailInit /\ Free("mail", ~mocked)
    /\ ProspectInit
    /\ CiInit
    /\ RelInit /\ Free("release", running /\ \A r \in Releases : Strategy(r) = "rolling" /\ release[r].auto_rollback)
    /\ PerfInit

Still(part, v) == IF focus = part THEN TRUE ELSE UNCHANGED v

\* The step of the part in focus, beside which nothing moves.
Alone(part) ==
    /\ focus = part /\ UNCHANGED focus
    /\ Still("tickets", ticketvars)
    /\ Still("tenants", tenantvars)
    /\ Still("mail", mailvars)
    /\ Still("prospects", prospectvars)
    /\ Still("pipeline", civars)
    /\ Still("release", relvars)
    /\ Still("performance", perfvars)

Next ==
    \/ Alone("tickets") /\ TicketNext
    \/ Alone("tenants") /\ TenantNext
    \/ Alone("mail") /\ MailNext
    \/ Alone("prospects") /\ ProspectNext
    \/ Alone("pipeline") /\ CiNext
    \/ Alone("release") /\ RelNext
    \/ Alone("performance") /\ PerfNext

Fairness ==
    /\ \A s \in Sweeps : /\ WF_ticketvars(focus = "tickets" /\ Sweep(s))
                         /\ WF_ticketvars(focus = "tickets" /\ SweepStep(s))
    /\ \A u \in Users : WF_ticketvars(focus = "tickets" /\ UserStep(u))
    /\ \A j \in TicketJobs : WF_ticketvars(focus = "tickets" /\ JobStep(j))
    /\ \A c \in Calls : WF_tenantvars(focus = "tenants" /\ TenantStep(c))
    /\ \A t \in Threads : WF_mailvars(focus = "mail" /\ MailStep(t))
    /\ \A r \in Searches :
         WF_prospectvars(focus = "prospects" /\ (CrawlProspect(r) \/ ExtractEntities(r)))
    /\ \A p \in Pipelines : WF_civars(focus = "pipeline" /\ RunPipeline(p))
    /\ \A r \in Releases : WF_relvars(focus = "release" /\ ReleaseStep(r))
    /\ \A l \in Loops : WF_perfvars(focus = "performance" /\ LoopStep(l))

Spec == Init /\ [][Next]_mcvars /\ Fairness

-------------------------------------------------------------------------------
(* Constants. *)

\* A site whose pages link to each other, to themselves and to another host.
MCPages == {"a", "b", "c", "x"}
MCLinks == [a |-> <<"b", "x", "b", "a">>, b |-> <<"c", "a">>, c |-> <<"b">>, x |-> <<"a">>]
MCHostOf == [a |-> "h", b |-> "h", c |-> "h", x |-> "g"]

MCConfigs ==
    {[stages |-> {"security", "deploy"}, target |-> "production"],
     [stages |-> {"quality", "deploy"}, target |-> "staging"],
     [stages |-> {"deploy"}, target |-> "unknown"],
     [stages |-> {"quality"}, target |-> "production"]}

MCWarning == [cpu |-> 2]
MCLimit == [cpu |-> 3]

-------------------------------------------------------------------------------
(* Properties of several parts. *)

\* Crawls stay within bounds and make one lead of an address unless searches overlap,
\* one thread empties the outbox, and retries repeat an effect no more than their limits
\* allow.
WorkBounded ==
    /\ CrawlBounded /\ OneLeadPerAddress /\ OneWorker /\ MailsBounded
    /\ FalloutBounded /\ TicketTypeOK

\* What goes to production was tested; a release, a tenant's row, alerts and reports
\* tell what happened.
RunsTellTruth ==
    /\ ReleasedWasTested /\ ReleaseTellsTruth /\ TenantTellsTruth
    /\ AlertsMatchSamples /\ ReportsAgree

\* What was begun ends: a letter is settled, a provisioning, a crawl, a pipeline and a
\* release come to an end, so do monitoring loops that were told to stop, and the
\* reporter hears of a resolution.
RunsEnd ==
    /\ LetterSettles /\ ProvisionSettles /\ CrawlEnds /\ PipelineEnds
    /\ ReleaseEnds /\ StopEndsLoops /\ ResolvedIsReported
==============================================================================
