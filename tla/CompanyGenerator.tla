---------------------------- MODULE CompanyGenerator ----------------------------
(***************************************************************************)
(* Work that starts with a plan of the strategic board: the generation of  *)
(* a company (backend/services/company_generator.py), a production cycle   *)
(* (backend/core/factory.py) and a mission (agents/managers/commander.py). *)
(*                                                                         *)
(* None of them gives up the event loop, but each commits step by step, so *)
(* a crash or a failed commit leaves what was committed before.  Text is   *)
(* left out; a plan is a number of tickets and the place of the first      *)
(* entry that is no ticket (0: none).                                      *)
(***************************************************************************)
EXTENDS Integers, FiniteSets, Sequences

CONSTANTS
    Jobs,    \* companies, production cycles and missions
    MaxPlan  \* the longest plan

Kinds == {"company", "cycle", "mission"}

VARIABLES
    job,      \* of each job: [kind, at, plan, bad]
    company,  \* row of a company: [status, error, created, completed], or <<>>
    work      \* committed tickets of each job: the sequence of their statuses

generatorvars == <<job, company, work>>

GeneratorInit ==
    /\ job \in [Jobs -> [kind : Kinds, at : {"none"}, plan : {0}, bad : {0}]]
    /\ company = [j \in Jobs |-> <<>>]
    /\ work = [j \in Jobs |-> <<>>]

Running(j) == job[j].at \notin {"none", "returned", "raised", "crashed"}
At(j, next) == job' = [job EXCEPT ![j].at = next]
Opened(n) == [i \in 1..n |-> "OPEN"]

\* convene: what the language models said, in any of four disguises, which may be
\* no plan at all or hold what is no ticket; or the six default tickets.
Convened == {plan \in (0..MaxPlan) \X (0..MaxPlan) : plan[2] <= plan[1]}

-------------------------------------------------------------------------------
(* Generation of a company. *)

GenerateCompany(j) ==
    /\ job[j].kind = "company" /\ job[j].at = "none"
    /\ company' = [company EXCEPT ![j] = [status |-> "pending", error |-> FALSE, created |-> 0, completed |-> 0]]
    /\ At(j, "initializing")
    /\ UNCHANGED work

\* _update_status of the stages without work of their own.
UpdateStatus(j) ==
    /\ job[j].at \in {"initializing", "executing_tickets", "packaging"} 
    /\ company[j].status # job[j].at
    /\ company' = [company EXCEPT ![j].status = job[j].at]
    /\ IF job[j].at = "initializing" THEN At(j, "generating_tickets") ELSE UNCHANGED job
    /\ UNCHANGED work

\* Faulty variant: the tickets are counted before they are saved.
ConveneBoardCounting(j) ==
    /\ job[j].at = "generating_tickets"
    /\ \E plan \in Convened :
         /\ company' = [company EXCEPT ![j].status = "generating_tickets", ![j].created = plan[1]]
         /\ job' = [job EXCEPT ![j].plan = plan[1], ![j].bad = plan[2],
                      ![j].at = IF plan[1] = 0 \/ plan[2] > 0 THEN "failing" ELSE "saving"]
    /\ UNCHANGED work

ConveneBoard(j) ==
    /\ job[j].at = "generating_tickets"
    /\ company' = [company EXCEPT ![j].status = "generating_tickets"]
    /\ \E plan \in Convened :
         job' = [job EXCEPT ![j].plan = plan[1], ![j].bad = plan[2],
                   ![j].at = IF plan[1] = 0 \/ plan[2] > 0 THEN "failing" ELSE "saving"]
    /\ UNCHANGED work

SaveTickets(j) ==
    /\ job[j].at = "saving"
    /\ work' = [work EXCEPT ![j] = Opened(job[j].plan)]
    /\ At(j, "counting")
    /\ UNCHANGED company

CountCreated(j) ==
    /\ job[j].at = "counting"
    /\ company' = [company EXCEPT ![j].created = job[j].plan]
    /\ At(j, "executing_tickets")
    /\ UNCHANGED work

\* process_ticket: the crew's report passes the work or not, or it raises.
ProcessTicket(j) ==
    LET open == {i \in DOMAIN work[j] : work[j][i] = "OPEN"}
        next == CHOOSE i \in open : \A k \in open : i <= k
    IN  /\ job[j].at = "executing_tickets" /\ company[j].status = "executing_tickets"
        /\ IF open = {} THEN At(j, "packaging") /\ UNCHANGED work
           ELSE \/ \E status \in {"COMPLETED", "FAILED"} :
                     work' = [work EXCEPT ![j][next] = status] /\ UNCHANGED job
                \/ At(j, "failing") /\ UNCHANGED work
        /\ UNCHANGED company

Done(j) == Cardinality({i \in DOMAIN work[j] : work[j][i] = "COMPLETED"})

\* The counts and the status are committed together.
CompleteCompany(j) ==
    /\ job[j].at = "packaging" /\ company[j].status = "packaging"
    /\ company' = [company EXCEPT ![j].completed = Done(j), ![j].status = "completed"]
    /\ At(j, "returned")
    /\ UNCHANGED work

\* FAILED is committed, and with it the tickets added before a bad entry.
FailCompany(j) ==
    /\ job[j].at = "failing"
    /\ company' = [company EXCEPT ![j].status = "failed", ![j].error = TRUE]
    /\ work' = [work EXCEPT ![j] = IF job[j].bad > 0 THEN Opened(job[j].bad - 1) ELSE @]
    /\ At(j, "returned")

\* A failed commit leaves the session unusable: FAILED cannot be written either, and
\* generate_company rolls back and raises.
GenerationCommitFails(j) ==
    /\ job[j].kind = "company" /\ (Running(j) \/ job[j].at = "none")
    /\ At(j, "raised")
    /\ UNCHANGED <<company, work>>

-------------------------------------------------------------------------------
(* Production cycles and missions. *)

\* run_production_cycle: one commit, rolled back with a bad entry; then the import of
\* backend.queue, which does not exist, raises before a ticket is enqueued.
RunProductionCycle(j) ==
    /\ job[j].kind = "cycle" /\ job[j].at = "none"
    /\ \E plan \in Convened :
         /\ job' = [job EXCEPT ![j].plan = plan[1], ![j].bad = plan[2], ![j].at = "raised"]
         /\ \/ plan[2] = 0 /\ work' = [work EXCEPT ![j] = Opened(plan[1])]
            \/ UNCHANGED work
    /\ UNCHANGED company

\* execute_mission: an empty plan becomes one ticket, and each ticket is committed
\* by itself.
ExecuteMission(j) ==
    /\ job[j].kind = "mission" /\ job[j].at = "none"
    /\ \E plan \in Convened :
         job' = [job EXCEPT ![j].plan = IF plan[1] = 0 THEN 1 ELSE plan[1], ![j].bad = plan[2],
                   ![j].at = "mission"]
    /\ UNCHANGED <<company, work>>

CreateMissionTicket(j) ==
    /\ job[j].at = "mission"
    /\ \/ Len(work[j]) < job[j].plan /\ Len(work[j]) + 1 # job[j].bad
          /\ work' = [work EXCEPT ![j] = Append(@, "OPEN")] /\ UNCHANGED job
       \/ Len(work[j]) = job[j].plan /\ At(j, "returned") /\ UNCHANGED work
       \/ Len(work[j]) < job[j].plan /\ At(j, "raised") /\ UNCHANGED work
    /\ UNCHANGED company

\* external: the process is killed.
JobCrash(j) ==
    /\ Running(j)
    /\ At(j, "crashed")
    /\ UNCHANGED <<company, work>>

GeneratorNext ==
    \E j \in Jobs :
        \/ GenerateCompany(j) \/ UpdateStatus(j) \/ ConveneBoard(j) \/ SaveTickets(j)
        \/ CountCreated(j) \/ ProcessTicket(j) \/ CompleteCompany(j) \/ FailCompany(j)
        \/ GenerationCommitFails(j) \/ RunProductionCycle(j) \/ ExecuteMission(j)
        \/ CreateMissionTicket(j) \/ JobCrash(j)

-------------------------------------------------------------------------------
(* Properties. *)

\* Whenever it is read, after a crash too, the row of a company counts no ticket
\* that is not there; a completed company's counts are those of its tickets, none
\* of which is still open; and an answer finds the company completed or failed.
CompanyTellsTruth ==
    \A j \in Jobs : company[j] # <<>> =>
        /\ company[j].created <= Len(work[j]) /\ company[j].completed <= Done(j)
        /\ company[j].status = "completed" =>
             /\ company[j].created = Len(work[j]) /\ company[j].completed = Done(j)
             /\ \A i \in DOMAIN work[j] : work[j][i] # "OPEN"
        /\ job[j].at = "returned" => company[j].status \in {"completed", "failed"}
        /\ company[j].error <=> company[j].status = "failed"

\* A production cycle saves its plan whole or not at all, and what answers for a
\* mission as in progress saved all of its tickets.
PlanSavedWhole ==
    \A j \in Jobs :
        /\ job[j].kind = "cycle" => Len(work[j]) \in {0, job[j].plan}
        /\ job[j].kind = "mission" /\ job[j].at = "returned" => Len(work[j]) = job[j].plan /\ Len(work[j]) > 0
===============================================================================
