--------------------------------- MODULE Backlog ---------------------------------
(***************************************************************************)
(* Scoring and planning of a backlog: agents/ticketing/ticket_prioritizer  *)
(* and backlog_manager.                                                    *)
(*                                                                         *)
(* A batch is scored ticket by ticket, in any order, with the language     *)
(* model's opinion or without it; the backlog is then analysed.  A ticket  *)
(* is what its text and labels amount to: how many keywords of each kind   *)
(* it has, the words of its title, its theme, its age.  Scores are in      *)
(* thousandths of a point.  Texts, dates and assignees are left out.       *)
(***************************************************************************)
EXTENDS Integers, FiniteSets, Sequences

CONSTANTS
    Batches,    \* sequences of tickets to plan; see Ticket
    Opinions,   \* numbers the model may answer; 101 stands for no usable answer
    Capacity,   \* sprint_capacity_points
    NumSprints  \* num_sprints

Silent == 101

\* What the texts and labels of a ticket amount to.
Ticket ==
    [words : SUBSET STRING, theme : STRING, high : Nat, medium : Nat, labels : Nat,
     hard : Nat, technical : Nat, simple : Nat, urgent : Nat, age : Nat,
     negative : Nat, positive : Nat, stale : BOOLEAN, depends : BOOLEAN]

ASSUME BacklogAssumption ==
    /\ Batches \subseteq Seq(Ticket)
    /\ Opinions \subseteq Nat
    /\ Capacity \in Nat /\ NumSprints \in Nat

VARIABLES
    backlog,  \* the batch
    scores,   \* of each ticket its PriorityScore, NoScore before it has one
    plan      \* the report of analyze_backlog, <<>> before it

backlogvars == <<backlog, scores, plan>>

NoScore == [score |-> -1]
Least(a, b) == IF a < b THEN a ELSE b
Between0And100(x) == IF x < 0 THEN 0 ELSE Least(100, x)

-------------------------------------------------------------------------------
(* ticket_prioritizer.py *)

\* Keywords and labels, blended with the model's opinion, and cut at the top.
CalculateImpactScore(t, opinion) ==
    LET words == 30 + 10 * t.high + 5 * t.medium + t.labels
    IN  Least(1000, IF opinion = Silent THEN 10 * words ELSE 4 * words + 6 * opinion)

CalculateComplexityScore(t) ==
    Between0And100(50 + 10 * t.hard + 5 * t.technical - 10 * t.simple)

CalculateUrgencyScore(t) == Least(100, 30 + 15 * t.urgent + t.age)

CalculateSentimentScore(t) == Between0And100(50 + 10 * t.negative - 10 * t.positive)

EstimateEffort(complexity) ==
    IF complexity < 30 THEN <<1, "hours">>
    ELSE IF complexity < 50 THEN <<2, "hours">>
    ELSE IF complexity < 70 THEN <<1, "days">>
    ELSE IF complexity < 85 THEN <<3, "days">>
    ELSE <<1, "weeks">>

ScoreToPriority(score) ==
    IF score >= 85000 THEN 4 ELSE IF score >= 70000 THEN 3 ELSE IF score >= 50000 THEN 2 ELSE 1

PrioritizeTicket(t, opinion) ==
    LET complexity == CalculateComplexityScore(t)
        total == 35 * CalculateImpactScore(t, opinion) + 200 * complexity
                 + 250 * CalculateUrgencyScore(t) + 200 * CalculateSentimentScore(t)
    IN  [score |-> total, priority |-> ScoreToPriority(total),
         effort |-> EstimateEffort(complexity), depends |-> t.depends]

-------------------------------------------------------------------------------
(* backlog_manager.py, on the indices of the batch. *)

All == DOMAIN backlog

\* sorted(..., reverse=True) keeps the order of equal scores.
Before(i, j) ==
    scores[i].score > scores[j].score \/ (scores[i].score = scores[j].score /\ i < j)
ByScore == [n \in All |-> CHOOSE i \in All : Cardinality({j \in All : Before(j, i)}) = n - 1]

\* "2-4 hours" counts as two.
EffortToPoints(effort) ==
    CASE effort[2] = "hours" -> IF effort[1] < 4 THEN 1 ELSE effort[1] \div 2
      [] effort[2] = "days" -> effort[1] * 4
      [] OTHER -> effort[1] * 20

Points(i) == EffortToPoints(scores[i].effort)

Fits(total, points) == total + points <= Capacity

\* The loop over the sorted scores takes a ticket that no sprint has if it still fits.
Considered(sprint, taken, i) ==
    IF i \notin taken /\ Fits(sprint.points, Points(i))
    THEN [ids |-> sprint.ids \cup {i}, points |-> sprint.points + Points(i)]
    ELSE sprint

FillSprint(taken) ==
    LET filled[n \in 0..Len(backlog)] ==
          IF n = 0 THEN [ids |-> {}, points |-> 0]
          ELSE Considered(filled[n - 1], taken, ByScore[n])
    IN  filled[Len(backlog)]

Planned(sprints) == UNION {sprints[k].ids : k \in DOMAIN sprints}

\* An empty sprint ends the planning.
WithNextSprint(sprints) ==
    LET sprint == FillSprint(Planned(sprints))
    IN  IF sprint.ids = {} THEN sprints ELSE Append(sprints, sprint)

SuggestSprints ==
    LET suggested[k \in 0..NumSprints] ==
          IF k = 0 THEN <<>> ELSE WithNextSprint(suggested[k - 1])
    IN  suggested[NumSprints]

\* Jaccard similarity of the titles, at least 0.75.
Similar(i, j) ==
    LET a == backlog[i].words  b == backlog[j].words
    IN  a # {} /\ b # {} /\ 4 * Cardinality(a \cap b) >= 3 * Cardinality(a \cup b)

Processed(groups) == UNION {{g.primary} \cup g.others : g \in groups}

\* Ticket i leads the later tickets like it, unless a group has it.
WithGroupOf(groups, i) ==
    LET others == {j \in All \ Processed(groups) : j > i /\ Similar(i, j)}
    IN  IF i \in Processed(groups) \/ others = {} THEN groups
        ELSE groups \cup {[primary |-> i, others |-> others]}

FindDuplicates ==
    LET found[n \in 0..Len(backlog)] == IF n = 0 THEN {} ELSE WithGroupOf(found[n - 1], n)
    IN  found[Len(backlog)]

FindStaleTickets == {i \in All : backlog[i].stale}
FindBlockedTickets == {i \in All : scores[i].depends}

GroupByTheme == {{i \in All : backlog[i].theme = theme} : theme \in {backlog[i].theme : i \in All}}

\* Faulty variant: the level of a later ticket replaces a higher one.
EpicPriorityLast(group) ==
    LET level[n \in 0..Len(backlog)] ==
          IF n = 0 THEN 1
          ELSE IF n \in group /\ scores[n].priority > 1 THEN scores[n].priority ELSE level[n - 1]
    IN  level[Len(backlog)]

\* The loop over a group stops at the first critical ticket.
Raised(level, priority) ==
    IF 4 \in {level, priority} THEN 4
    ELSE IF priority = 3 \/ (priority = 2 /\ level = 1) THEN priority
    ELSE level

EpicPriority(group) ==
    LET level[n \in 0..Len(backlog)] ==
          IF n = 0 THEN 1
          ELSE IF n \in group THEN Raised(level[n - 1], scores[n].priority) ELSE level[n - 1]
    IN  level[Len(backlog)]

EstimateEpicEffort(group) ==
    LET hours(i) == scores[i].effort[1]
                    * (CASE scores[i].effort[2] = "hours" -> 1
                         [] scores[i].effort[2] = "days" -> 8
                         [] OTHER -> 40)
        total[n \in 0..Len(backlog)] ==
          IF n = 0 THEN 0 ELSE total[n - 1] + (IF n \in group THEN hours(n) ELSE 0)
    IN  total[Len(backlog)]

IdentifyEpics ==
    {[ids |-> group, priority |-> EpicPriority(group), hours |-> EstimateEpicEffort(group)] :
        group \in {g \in GroupByTheme : Cardinality(g) >= 3}}

\* How much is wrong, by counts and by shares of the tickets.
HealthIssues(n, critical, duplicates, stale, blocked) ==
    LET total == IF n = 0 THEN 1 ELSE n
        two(condition) == IF condition THEN 2 ELSE 0
        grade(much, some) == IF much THEN 2 ELSE IF some THEN 1 ELSE 0
    IN  grade(n > 200, n > 100) + two(5 * critical > n)
        + grade(duplicates > 5, duplicates > 0)
        + grade(10 * stale > 3 * total, 20 * stale > 3 * total)
        + grade(5 * blocked > total, 10 * blocked > total)

AssessHealth(issues) ==
    IF issues = 0 THEN "excellent" ELSE IF issues <= 2 THEN "good"
    ELSE IF issues <= 5 THEN "fair" ELSE "poor"

-------------------------------------------------------------------------------

BacklogInit ==
    /\ backlog \in Batches
    /\ scores = [i \in DOMAIN backlog |-> NoScore]
    /\ plan = <<>>

\* prioritize_batch: the tickets are scored concurrently.
Prioritize(i) ==
    /\ scores[i] = NoScore
    /\ \E opinion \in Opinions :
         scores' = [scores EXCEPT ![i] = PrioritizeTicket(backlog[i], opinion)]
    /\ UNCHANGED <<backlog, plan>>

AnalyzeBacklog ==
    /\ plan = <<>> /\ \A i \in All : scores[i] # NoScore
    /\ plan' = [epics |-> IdentifyEpics, duplicates |-> FindDuplicates,
                stale |-> FindStaleTickets, blocked |-> FindBlockedTickets,
                sprints |-> SuggestSprints,
                health |-> AssessHealth(
                    HealthIssues(Len(backlog), Cardinality({i \in All : scores[i].priority = 4}),
                           Cardinality(FindDuplicates), Cardinality(FindStaleTickets),
                           Cardinality(FindBlockedTickets)))]
    /\ UNCHANGED <<backlog, scores>>

BacklogNext == (\E i \in All : Prioritize(i)) \/ AnalyzeBacklog

BacklogSpec == BacklogInit /\ [][BacklogNext]_backlogvars

-------------------------------------------------------------------------------
(* Properties. *)

Analysed == plan # <<>>

PointsOf(ids) ==
    LET total[n \in 0..Len(backlog)] ==
          IF n = 0 THEN 0 ELSE total[n - 1] + (IF n \in ids THEN Points(n) ELSE 0)
    IN  total[Len(backlog)]

\* Sprints are filled greedily: they keep to the capacity and share no ticket, and
\* what is planned nowhere fits into no sprint, nor would it with all the tickets of
\* lower scores taken out of it.
SprintsAreGreedy ==
    Analysed =>
        \A k \in DOMAIN plan.sprints :
            LET sprint == plan.sprints[k]
            IN  /\ sprint.points = PointsOf(sprint.ids) /\ sprint.points <= Capacity
                /\ \A other \in 1..(k - 1) : plan.sprints[other].ids \cap sprint.ids = {}
                /\ \A i \in All \ Planned(plan.sprints) :
                     PointsOf({j \in sprint.ids : scores[j].score >= scores[i].score}) + Points(i)
                         > Capacity

\* A ticket is reported in one group of duplicates at most, which an older ticket
\* leads that it resembles; and two tickets that resemble each other are not both
\* left unreported.
DuplicatesGrouped ==
    Analysed =>
        /\ \A g, h \in plan.duplicates : g # h =>
             ({g.primary} \cup g.others) \cap ({h.primary} \cup h.others) = {}
        /\ \A g \in plan.duplicates : \A j \in g.others : g.primary < j /\ Similar(g.primary, j)
        /\ \A i, j \in All : i < j /\ Similar(i, j) =>
             {i, j} \cap Processed(plan.duplicates) # {}

\* An epic is as urgent as its most urgent ticket.
EpicsAsUrgent ==
    Analysed => \A e \in plan.epics :
        /\ \E i \in e.ids : e.priority = scores[i].priority
        /\ \A i \in e.ids : e.priority >= scores[i].priority
===============================================================================
