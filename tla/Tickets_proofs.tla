---------------------------- MODULE Tickets_proofs ----------------------------
(***************************************************************************)
(* Proofs about Tickets, for every number of users, sweeps, jobs, calls,   *)
(* retries and faults.                                                     *)
(***************************************************************************)
EXTENDS Tickets, FiniteSetTheorems, SequenceTheorems, TLAPS

-------------------------------------------------------------------------------
(* The inductive invariant. *)

\* What a sweep may still have to commit, and what a user's call may.
SweepPlans == {<<>>} \cup {<<SetPriority(p)>> : p \in Priorities}
CallPlans ==
    SweepPlans \cup {<<Announce>>, <<SetStatus("RESOLVED"), Announce>>}
    \cup {<<SetStatus(s)>> : s \in Given}
    \cup {<<SetPriority(p), SetStatus(s)>> : p \in Priorities, s \in Given}

\* What a job may still have to commit, by the place it has got to.
JobPlans(place) ==
    CASE place = "starting" -> {<<>>, <<SetStatus("IN_PROGRESS")>>}
      [] place = "resolving" -> {<<>>, <<Announce>>, <<SetStatus("RESOLVED"), Announce>>}
      [] place = "failing" -> {<<>>, <<SetStatus("OPEN")>>}
      [] OTHER -> {<<>>}

Planned ==
    /\ job_at \in [TicketJobs -> Pcs]
    /\ writes = [a \in Writers |-> writes[a]]
    /\ \A u \in Users : writes[u] \in CallPlans
    /\ \A s \in Sweeps : writes[s] \in SweepPlans
    /\ \A j \in TicketJobs : writes[j] \in JobPlans(job_at[j])

TicketTyped ==
    /\ status \in TicketStatuses
    /\ priority \in Priorities
    /\ overdue \in BOOLEAN
    /\ attempt \in [TicketJobs -> 0..Retries]
    /\ incidents \in Nat /\ generated \in Nat
    /\ importable \in BOOLEAN /\ reported \in BOOLEAN /\ resolved \in BOOLEAN
    /\ by_hand \in BOOLEAN /\ cut \in BOOLEAN
    /\ ops_left \in 0..UserOps /\ ticket_faults \in 0..MaxTicketFaults

\* A job that will still take the ticket out of progress.
Drives(j) ==
    \/ job_at[j] = "starting"
    \/ job_at[j] = "resolving" /\ writes[j] = <<SetStatus("RESOLVED"), Announce>>
    \/ job_at[j] = "failing" /\ writes[j] = <<SetStatus("OPEN")>>

Driven == status = "IN_PROGRESS" => cut \/ by_hand \/ \E j \in TicketJobs : Drives(j)

\* Attempts that may still be reported as failed, and those that may still save tickets.
Attempts == TicketJobs \X (0..Retries)
Reporting == {w \in Attempts :
    \/ w[2] > attempt[w[1]]
    \/ w[2] = attempt[w[1]] /\ job_at[w[1]] \notin {"retrying", "done"}}
Saving == {w \in Attempts :
    \/ w[2] > attempt[w[1]]
    \/ w[2] = attempt[w[1]] /\ job_at[w[1]] \in {"idle", "queued", "starting"}}

\* Every incident and every set of tickets uses up an attempt, or a fault gave one back.
Spent ==
    /\ incidents + Cardinality(Reporting) + ticket_faults <= Cardinality(Attempts) + MaxTicketFaults
    /\ generated + Cardinality(Saving) + ticket_faults <= Cardinality(Attempts) + MaxTicketFaults

TicketInv == TicketTyped /\ Planned /\ Driven /\ Spent

-------------------------------------------------------------------------------
(* Short sequences of writes. *)

LEMMA ShortSequences ==
    ASSUME NEW x, NEW y
    PROVE  /\ <<x>> # <<>> /\ <<x, y>> # <<>> /\ <<x>> # <<x, y>>
           /\ Head(<<x>>) = x /\ Tail(<<x>>) = <<>>
           /\ Head(<<x, y>>) = x /\ Tail(<<x, y>>) = <<y>>
           /\ <<>> \o <<x>> = <<x>> /\ <<x>> \o <<y>> = <<x, y>>
           /\ Len(<<>>) = 0 /\ Len(<<x>>) = 1 /\ Len(<<x, y>>) = 2
<1>1. <<x>> # <<>> /\ <<x, y>> # <<>> /\ <<x>> # <<x, y>>
  OBVIOUS
<1>2. Head(<<x>>) = x /\ Head(<<x, y>>) = x
  OBVIOUS
<1>3. Tail(<<x>>) = <<>>
  OBVIOUS
<1>4. Tail(<<x, y>>) = <<y>>
  OBVIOUS
<1>5. <<>> \o <<x>> = <<x>>
  OBVIOUS
<1>6. <<x>> \o <<y>> = <<x, y>>
  <2> DEFINE s == <<x>>
             t == <<y>>
             u == <<x, y>>
  <2>1. s \in Seq({x, y}) /\ t \in Seq({x, y}) /\ u \in Seq({x, y})
    OBVIOUS
  <2>2. Len(s) = 1 /\ Len(t) = 1 /\ Len(u) = 2 /\ s[1] = x /\ t[1] = y /\ u[1] = x /\ u[2] = y
    OBVIOUS
  <2> HIDE DEF s, t, u
  <2>3. /\ s \o t \in Seq({x, y}) /\ Len(s \o t) = Len(s) + Len(t)
        /\ \A i \in 1 .. Len(s) + Len(t) :
             (s \o t)[i] = IF i <= Len(s) THEN s[i] ELSE t[i - Len(s)]
    BY <2>1, ConcatProperties
  <2>4. Len(s \o t) = Len(u) /\ \A i \in 1 .. Len(s \o t) : (s \o t)[i] = u[i]
    BY <2>2, <2>3
  <2>5. s \o t = u
    BY <2>1, <2>3, <2>4, SeqEqual
  <2> QED
    BY <2>5 DEF s, t, u
<1>7. Len(<<>>) = 0 /\ Len(<<x>>) = 1 /\ Len(<<x, y>>) = 2
  OBVIOUS
<1> QED
  BY <1>1, <1>2, <1>3, <1>4, <1>5, <1>6, <1>7

\* What a commit writes.
LEMMA Records ==
    /\ \A s : SetStatus(s).field = "status" /\ SetStatus(s).value = s
    /\ \A p : SetPriority(p).field = "priority" /\ SetPriority(p).value = p
    /\ Announce.field = "announce"
  BY DEF SetStatus, SetPriority, Announce

\* A write whose field has its value already is left out.
LEMMA FirstWrite ==
    /\ \A s : First(SetStatus(s)) = IF status = s THEN <<>> ELSE <<SetStatus(s)>>
    /\ \A p : First(SetPriority(p)) = IF priority = p THEN <<>> ELSE <<SetPriority(p)>>
  BY Records DEF First

\* The forms of a plan.
LEMMA PlanForms ==
    /\ <<>> \in SweepPlans /\ <<>> \in CallPlans /\ SweepPlans \subseteq CallPlans
    /\ \A s \in Given : <<SetStatus(s)>> \in CallPlans
    /\ \A p \in Priorities : <<SetPriority(p)>> \in CallPlans
    /\ <<Announce>> \in CallPlans
    /\ \A plan \in SweepPlans : plan = <<>> \/ \E p \in Priorities : plan = <<SetPriority(p)>>
    /\ \A plan \in CallPlans :
         \/ plan \in SweepPlans
         \/ plan = <<Announce>>
         \/ plan = <<SetStatus("RESOLVED"), Announce>>
         \/ \E s \in Given : plan = <<SetStatus(s)>>
         \/ \E p \in Priorities, s \in Given : plan = <<SetPriority(p), SetStatus(s)>>
<1>1. \A plan \in SweepPlans : plan = <<>> \/ \E p \in Priorities : plan = <<SetPriority(p)>>
  BY Zenon DEF SweepPlans
<1>2. ASSUME NEW plan \in CallPlans
      PROVE  \/ plan \in SweepPlans
             \/ plan = <<Announce>>
             \/ plan = <<SetStatus("RESOLVED"), Announce>>
             \/ \E s \in Given : plan = <<SetStatus(s)>>
             \/ \E p \in Priorities, s \in Given : plan = <<SetPriority(p), SetStatus(s)>>
  BY DEF CallPlans
<1>3. /\ <<>> \in SweepPlans /\ <<>> \in CallPlans /\ SweepPlans \subseteq CallPlans
      /\ <<Announce>> \in CallPlans
  BY DEF SweepPlans, CallPlans
<1>4. \A s \in Given : <<SetStatus(s)>> \in CallPlans
  BY DEF CallPlans
<1>5. \A p \in Priorities : <<SetPriority(p)>> \in CallPlans
  BY DEF SweepPlans, CallPlans
<1> QED
  BY <1>1, <1>2, <1>3, <1>4, <1>5, Zenon

\* No plan has more than two commits.
LEMMA PlansShort ==
    /\ \A plan \in SweepPlans : Len(plan) <= 2
    /\ \A plan \in CallPlans : Len(plan) <= 2
    /\ \A place : \A plan \in JobPlans(place) : Len(plan) <= 2
<1>1. \A x : Len(<<x>>) <= 2
  OBVIOUS
<1>2. \A x, y : Len(<<x, y>>) <= 2
  OBVIOUS
<1>3. Len(<<>>) <= 2
  OBVIOUS
<1>4. \A plan \in SweepPlans : Len(plan) <= 2
  BY <1>1, <1>3, PlanForms, Zenon
<1>5. ASSUME NEW plan \in CallPlans PROVE Len(plan) <= 2
  <2>1. \/ plan \in SweepPlans
        \/ \E x : plan = <<x>>
        \/ \E x, y : plan = <<x, y>>
    BY PlanForms
  <2> QED
    BY <1>1, <1>2, <1>4, <2>1, Zenon
<1>6. \A place : \A plan \in JobPlans(place) : Len(plan) <= 2
  BY <1>1, <1>2, <1>3, Zenon DEF JobPlans
<1> QED
  BY <1>4, <1>5, <1>6

\* Types and plans make the type invariant.
LEMMA TypedSuffices == TicketTyped /\ Planned => TicketTypeOK
<1> SUFFICES ASSUME TicketTyped, Planned PROVE TicketTypeOK
  OBVIOUS
<1>1. \A a \in Writers : Len(writes[a]) <= 2
  BY PlansShort DEF Planned, Writers
<1>2. DOMAIN writes = Writers
  BY DEF Planned
<1>3. {importable, reported, resolved, by_hand, cut} \subseteq BOOLEAN
  BY DEF TicketTyped
<1>4. job_at \in [TicketJobs -> Pcs]
  BY DEF Planned
<1>5. /\ status \in TicketStatuses /\ priority \in Priorities /\ overdue \in BOOLEAN
      /\ attempt \in [TicketJobs -> 0..Retries] /\ incidents \in Nat /\ generated \in Nat
      /\ ops_left \in 0..UserOps /\ ticket_faults \in 0..MaxTicketFaults
  BY DEF TicketTyped
<1> QED
  BY <1>1, <1>2, <1>3, <1>4, <1>5, Zenon DEF TicketTypeOK

\* What calls and jobs plan are plans.
LEMMA CallsPlan ==
    ASSUME TicketTyped
    PROVE  /\ Escalated \in SweepPlans /\ SweepPlans \subseteq CallPlans
           /\ Resolve \in CallPlans /\ Resolve \in JobPlans("resolving")
           /\ status # "RESOLVED" => Resolve = <<SetStatus("RESOLVED"), Announce>>
           /\ First(SetStatus("CLOSED")) \in CallPlans
           /\ Updates \subseteq CallPlans
           /\ First(SetStatus("IN_PROGRESS")) \in JobPlans("starting")
<1>1. Resolve = IF status = "RESOLVED" THEN <<Announce>> ELSE <<SetStatus("RESOLVED"), Announce>>
  <2>1. <<>> \o <<Announce>> = <<Announce>>
        /\ <<SetStatus("RESOLVED")>> \o <<Announce>> = <<SetStatus("RESOLVED"), Announce>>
    BY ShortSequences
  <2>2. First(SetStatus("RESOLVED")) = IF status = "RESOLVED" THEN <<>> ELSE <<SetStatus("RESOLVED")>>
    BY FirstWrite
  <2> QED
    BY <2>1, <2>2, Zenon DEF Resolve
<1>2. Raised(priority) \in Priorities
  BY DEF TicketTyped, Raised, Critical, Priorities
<1>3. Escalated \in SweepPlans
  BY <1>2, FirstWrite DEF Escalated, SweepPlans
<1>4. Updates \subseteq CallPlans
  <2>1. ASSUME NEW p \in Priorities
        PROVE  First(SetPriority(p)) \in CallPlans
    BY FirstWrite DEF SweepPlans, CallPlans
  <2>2. ASSUME NEW s \in Given
        PROVE  First(SetStatus(s)) \in CallPlans
    BY FirstWrite DEF SweepPlans, CallPlans
  <2>3. ASSUME NEW p \in Priorities, NEW s \in Given
        PROVE  First(SetPriority(p)) \o <<SetStatus(s)>> \in CallPlans
    <3>1. <<>> \o <<SetStatus(s)>> = <<SetStatus(s)>>
          /\ <<SetPriority(p)>> \o <<SetStatus(s)>> = <<SetPriority(p), SetStatus(s)>>
      BY ShortSequences
    <3>2. First(SetPriority(p)) \in {<<>>, <<SetPriority(p)>>}
      BY FirstWrite
    <3>3. <<SetStatus(s)>> \in CallPlans /\ <<SetPriority(p), SetStatus(s)>> \in CallPlans
      BY DEF CallPlans
    <3> QED
      BY <3>1, <3>2, <3>3, Zenon
  <2> QED
    <3>1. ASSUME NEW plan \in Updates
          PROVE  \/ \E p \in Priorities : plan = First(SetPriority(p))
                 \/ \E s \in Given : plan = First(SetStatus(s))
                 \/ \E p \in Priorities, s \in Given :
                      plan = First(SetPriority(p)) \o <<SetStatus(s)>>
      BY DEF Updates
    <3> QED
      BY <2>1, <2>2, <2>3, <3>1, Zenon
<1>5. First(SetStatus("CLOSED")) \in CallPlans
  BY FirstWrite DEF SweepPlans, CallPlans, Given, TicketStatuses
<1> QED
  BY <1>1, <1>3, <1>4, <1>5, FirstWrite DEF CallPlans, JobPlans

\* At first the invariants hold.
LEMMA InitTyped == TicketInit => TicketTyped /\ Planned /\ Driven
<1> SUFFICES ASSUME TicketInit PROVE TicketTyped /\ Planned /\ Driven
  OBVIOUS
<1>1. TicketTyped
  <2>1. attempt \in [TicketJobs -> 0..Retries] /\ ops_left \in 0..UserOps
        /\ ticket_faults \in 0..MaxTicketFaults
    BY TicketsAssumption DEF TicketInit
  <2>2. status \in TicketStatuses /\ priority \in Priorities
    BY DEF TicketInit, TicketStatuses, Open
  <2> QED
    BY <2>1, <2>2 DEF TicketInit, TicketTyped
<1>2. job_at \in [TicketJobs -> Pcs]
  BY DEF TicketInit, Pcs
<1>3. writes = [a \in Writers |-> writes[a]] /\ \A a \in Writers : writes[a] = <<>>
  BY DEF TicketInit
<1>4. \A j \in TicketJobs : writes[j] \in JobPlans(job_at[j])
  BY <1>3 DEF TicketInit, JobPlans, Writers
<1>5. Planned
  <2>1. \A a \in Users \cup Sweeps : writes[a] = <<>>
    BY <1>3 DEF Writers
  <2> QED
    BY <1>2, <1>3, <1>4, <2>1, PlanForms DEF Planned
<1> QED
  BY <1>1, <1>5 DEF TicketInit, Driven

-------------------------------------------------------------------------------
(* The steps. *)

\* What is committed first, and what is left.
LEMMA NextWrite ==
    /\ \A plan \in CallPlans : plan # <<>> =>
         /\ Tail(plan) \in CallPlans
         /\ Head(plan) \in {Announce} \cup {SetStatus(s) : s \in Given}
                           \cup {SetPriority(p) : p \in Priorities}
    /\ \A plan \in SweepPlans : plan # <<>> =>
         Tail(plan) \in SweepPlans /\ Head(plan) \in {SetPriority(p) : p \in Priorities}
    /\ \A place \in Pcs : \A plan \in JobPlans(place) : plan # <<>> =>
         /\ Tail(plan) \in JobPlans(place)
         /\ \/ place = "starting" /\ Head(plan) = SetStatus("IN_PROGRESS")
            \/ place = "resolving" /\ Head(plan) \in {Announce, SetStatus("RESOLVED")}
            \/ place = "failing" /\ Head(plan) = SetStatus("OPEN")
    /\ Head(<<SetStatus("RESOLVED"), Announce>>) = SetStatus("RESOLVED")
<1>1. \A x : Head(<<x>>) = x /\ Tail(<<x>>) = <<>>
  BY ShortSequences
<1>2. /\ Head(<<SetStatus("RESOLVED"), Announce>>) = SetStatus("RESOLVED")
      /\ Tail(<<SetStatus("RESOLVED"), Announce>>) = <<Announce>>
  BY ShortSequences
<1>3. ASSUME NEW plan \in SweepPlans, plan # <<>>
      PROVE  Tail(plan) \in SweepPlans /\ Head(plan) \in {SetPriority(p) : p \in Priorities}
  BY <1>1, <1>3, Zenon DEF SweepPlans
<1>5. ASSUME NEW plan \in CallPlans, plan # <<>>
      PROVE  /\ Tail(plan) \in CallPlans
             /\ Head(plan) \in {Announce} \cup {SetStatus(s) : s \in Given}
                               \cup {SetPriority(p) : p \in Priorities}
  <2>1. CASE plan \in SweepPlans
    BY <1>3, <1>5, <2>1, PlanForms
  <2>2. CASE plan = <<Announce>>
    BY <1>1, <2>2, PlanForms
  <2>3. CASE plan = <<SetStatus("RESOLVED"), Announce>>
    <3>1. "RESOLVED" \in Given
      BY DEF Given, TicketStatuses
    <3> QED
      BY <1>2, <2>3, <3>1, PlanForms
  <2>4. CASE \E s \in Given : plan = <<SetStatus(s)>>
    BY <1>1, <2>4, PlanForms
  <2>5. CASE \E p \in Priorities, s \in Given : plan = <<SetPriority(p), SetStatus(s)>>
    <3>1. PICK p \in Priorities, s \in Given : plan = <<SetPriority(p), SetStatus(s)>>
      BY <2>5
    <3>2. Head(plan) = SetPriority(p) /\ Tail(plan) = <<SetStatus(s)>>
      BY <3>1, ShortSequences, Zenon
    <3> QED
      BY <3>2, PlanForms
  <2> QED
    BY <2>1, <2>2, <2>3, <2>4, <2>5, PlanForms
<1>4. ASSUME NEW place \in Pcs, NEW plan \in JobPlans(place), plan # <<>>
      PROVE  /\ Tail(plan) \in JobPlans(place)
             /\ \/ place = "starting" /\ Head(plan) = SetStatus("IN_PROGRESS")
                \/ place = "resolving" /\ Head(plan) \in {Announce, SetStatus("RESOLVED")}
                \/ place = "failing" /\ Head(plan) = SetStatus("OPEN")
  BY <1>1, <1>2, <1>4 DEF JobPlans
<1> QED
  BY <1>2, <1>3, <1>4, <1>5

\* A commit of a call.
LEMMA CommitEffect ==
    ASSUME TicketTyped, Planned, NEW a \in Writers, Commit(a)
    PROVE  /\ writes[a] # <<>> /\ writes' = [writes EXCEPT ![a] = Tail(writes[a])]
           /\ a \in Users \cup Sweeps =>
                UNCHANGED <<status, by_hand>> \/ status' # "IN_PROGRESS" \/ by_hand'
           /\ a \in TicketJobs =>
                \/ job_at[a] = "starting" /\ status' = "IN_PROGRESS"
                \/ job_at[a] = "resolving" /\ status' = "RESOLVED"
                \/ job_at[a] = "resolving" /\ UNCHANGED <<status, by_hand>>
                   /\ writes[a] # <<SetStatus("RESOLVED"), Announce>>
                \/ job_at[a] = "failing" /\ status' = "OPEN"
           /\ TicketTyped'
           /\ UNCHANGED <<fallout, attempt>> /\ cut' \in {cut, TRUE}
           /\ \/ UNCHANGED ticket_faults
              \/ ticket_faults > 0 /\ ticket_faults' = ticket_faults - 1
<1> DEFINE w == Head(writes[a])
<1>1. writes[a] # <<>> /\ writes' = [writes EXCEPT ![a] = Tail(writes[a])]
  BY DEF Commit
<1>2. /\ a \in Users =>
           w \in {Announce} \cup {SetStatus(s) : s \in Given} \cup {SetPriority(p) : p \in Priorities}
      /\ a \in Sweeps => w \in {SetPriority(p) : p \in Priorities}
  BY <1>1, NextWrite DEF Planned
<1>3. a \in TicketJobs =>
        /\ \/ job_at[a] = "starting" /\ w = SetStatus("IN_PROGRESS")
           \/ job_at[a] = "resolving" /\ w \in {Announce, SetStatus("RESOLVED")}
           \/ job_at[a] = "failing" /\ w = SetStatus("OPEN")
        /\ w # SetStatus("RESOLVED") => writes[a] # <<SetStatus("RESOLVED"), Announce>>
  BY <1>1, NextWrite DEF Planned
<1>4. \/ w.field = "status" /\ status' = w.value /\ UNCHANGED <<priority, reported, cut, ticket_faults>>
         /\ resolved' \in BOOLEAN /\ by_hand' = (a \in Users /\ w.value = "IN_PROGRESS")
      \/ w.field = "priority" /\ priority' = w.value /\ UNCHANGED <<status, history, ticket_faults>>
      \/ w.field = "announce" /\ OnTicketResolved /\ UNCHANGED <<status, priority, resolved, by_hand>>
  BY DEF Commit, TicketTyped
<1>5. UNCHANGED <<overdue, fallout, importable, attempt, ops_left>>
  BY DEF Commit
<1> HIDE DEF w
<1>6. /\ a \in Users \cup Sweeps =>
           UNCHANGED <<status, by_hand>> \/ status' # "IN_PROGRESS" \/ by_hand'
      /\ a \in Users \cup Sweeps => status' = status \/ status' \in Given
  <2>1. CASE a \in Sweeps
    BY <1>2, <1>4, <2>1, Records DEF history
  <2>2. CASE a \in Users
    <3>1. CASE w.field = "status" /\ status' = w.value /\ by_hand' = (w.value = "IN_PROGRESS")
      <4>1. PICK s \in Given : w = SetStatus(s)
        BY <1>2, <2>2, <3>1, Records
      <4> QED
        BY <3>1, <4>1, Records
    <3>2. CASE UNCHANGED <<status, by_hand>>
      BY <3>2
    <3> QED
      BY <1>4, <2>2, <3>1, <3>2 DEF history
  <2> QED
    BY <2>1, <2>2
<1>7. a \in TicketJobs =>
        \/ job_at[a] = "starting" /\ status' = "IN_PROGRESS"
        \/ job_at[a] = "resolving" /\ status' = "RESOLVED"
        \/ job_at[a] = "resolving" /\ UNCHANGED <<status, by_hand>>
           /\ writes[a] # <<SetStatus("RESOLVED"), Announce>>
        \/ job_at[a] = "failing" /\ status' = "OPEN"
  BY <1>3, <1>4, Records
<1>8. priority' = priority \/ priority' \in Priorities
  BY <1>2, <1>3, <1>4, Records DEF Writers
<1>9. /\ cut' \in {cut, TRUE} /\ reported' \in BOOLEAN /\ resolved' \in BOOLEAN /\ by_hand' \in BOOLEAN
      /\ \/ UNCHANGED ticket_faults
         \/ ticket_faults > 0 /\ ticket_faults' = ticket_faults - 1
  BY <1>4 DEF OnTicketResolved, TicketFault, history, TicketTyped
<1>10. TicketTyped'
  <2>1. status' \in TicketStatuses /\ priority' \in Priorities
    BY <1>6, <1>7, <1>8 DEF Writers, TicketTyped, TicketStatuses, Open, Given
  <2>2. ticket_faults' \in 0..MaxTicketFaults
    BY <1>9, TicketsAssumption DEF TicketTyped
  <2> QED
    BY <1>5, <1>9, <2>1, <2>2 DEF TicketTyped, fallout
<1> QED
  BY <1>1, <1>5, <1>6, <1>7, <1>9, <1>10

\* A failed commit ends its writer and marks the ticket.
LEMMA CommitFailsEffect ==
    ASSUME TicketTyped, Planned, NEW a \in Writers, CommitFails(a)
    PROVE  /\ writes' = [writes EXCEPT ![a] = <<>>] /\ cut'
           /\ TicketTyped'
           /\ UNCHANGED <<status, by_hand, fallout, attempt>>
           /\ \/ UNCHANGED ticket_faults
              \/ ticket_faults > 0 /\ ticket_faults' = ticket_faults - 1
  BY TicketsAssumption DEF CommitFails, TicketFault, TicketTyped, row, fallout

\* Every other step of a job moves it and gives it a plan of its place.
Moved(j) ==
    /\ \E place \in Pcs : \E plan \in JobPlans(place) :
         /\ Goto(j, place)
         /\ writes' = [writes EXCEPT ![j] = plan]
    /\ UNCHANGED row

\* A writer whose plan is unchanged leaves the plans unchanged.
LEMMA SamePlan ==
    ASSUME Planned, NEW a \in Writers
    PROVE  writes = [writes EXCEPT ![a] = writes[a]]
  BY DEF Planned

\* What a job does between its commits changes no status.
LEMMA MovesEffect ==
    ASSUME TicketTyped, Planned, NEW j \in TicketJobs,
           \/ Send(j) \/ StartJob(j) \/ ProductionCycle(j) \/ ReportFailure(j) \/ RetryJob(j)
           \/ FinishJob(j) \/ WorkerLost(j)
    PROVE  Moved(j) /\ TicketTyped'
<1> USE TicketsAssumption DEF Goto, Call
<1>0. /\ \A place \in Pcs : <<>> \in JobPlans(place)
      /\ job_at[j] \in {"idle", "queued", "retrying", "done"} => writes[j] = <<>>
      /\ j \in Writers /\ "idle" \in Pcs /\ "queued" \in Pcs /\ "done" \in Pcs /\ "starting" \in Pcs
      /\ "resolving" \in Pcs /\ "failing" \in Pcs /\ "retrying" \in Pcs
  BY DEF JobPlans, Pcs, Planned, Writers
<1>1. writes = [writes EXCEPT ![j] = writes[j]]
  BY <1>0, SamePlan
<1>2. CASE Send(j)
  BY <1>0, <1>1, <1>2 DEF Send, Moved, quiet, fallout, TicketTyped, row, history
<1>3. CASE StartJob(j)
  <2>1. TicketTyped' /\ UNCHANGED row
    BY <1>3 DEF StartJob, TicketTyped, quiet, row, history, fallout
  <2>2. CASE status = "absent"
    BY <1>0, <1>1, <1>3, <2>1, <2>2 DEF StartJob, Moved
  <2>3. CASE status # "absent"
    BY <1>0, <1>3, <2>1, <2>3, CallsPlan DEF StartJob, Moved
  <2> QED
    BY <2>2, <2>3
<1>4. CASE ProductionCycle(j)
  <2>1. TicketTyped' /\ UNCHANGED row
    <3>1. generated' \in Nat /\ ticket_faults' \in 0..MaxTicketFaults
      BY <1>4 DEF ProductionCycle, TicketFault, TicketTyped
    <3> QED
      BY <1>4, <3>1 DEF ProductionCycle, TicketTyped, row, history
  <2>2. <<SetStatus("OPEN")>> \in JobPlans("failing")
    BY DEF JobPlans
  <2> QED
    BY <1>0, <1>4, <2>1, <2>2, CallsPlan DEF ProductionCycle, Moved
<1>5. CASE ReportFailure(j)
  <2>1. TicketTyped' /\ UNCHANGED row
    BY <1>5 DEF ReportFailure, OnTaskFailed, TicketFault, TicketTyped, row, history, quiet
  <2> QED
    BY <1>0, <1>1, <1>5, <2>1 DEF ReportFailure, Moved
<1>6. CASE RetryJob(j)
  <2>1. attempt' \in [TicketJobs -> 0..Retries]
    BY <1>6 DEF RetryJob, MayRetry, TicketTyped
  <2>2. TicketTyped' /\ UNCHANGED row
    BY <1>6, <2>1 DEF RetryJob, TicketTyped, row, history, quiet, fallout
  <2> QED
    BY <1>0, <1>1, <1>6, <2>2 DEF RetryJob, Moved
<1>7. CASE FinishJob(j)
  <2>1. TicketTyped' /\ UNCHANGED row
    BY <1>7 DEF FinishJob, TicketTyped, row, history, quiet, fallout
  <2> QED
    BY <1>0, <1>1, <1>7, <2>1 DEF FinishJob, Moved
<1>8. CASE WorkerLost(j)
  <2>1. TicketTyped' /\ UNCHANGED row
    BY <1>8 DEF WorkerLost, TicketFault, TicketTyped, row, fallout
  <2> QED
    BY <1>0, <1>8, <2>1 DEF WorkerLost, Moved
<1> QED
  BY <1>2, <1>3, <1>4, <1>5, <1>6, <1>7, <1>8

\* Types and plans are inductive.
LEMMA PlannedStep ==
    ASSUME TicketTyped, Planned, TicketNext
    PROVE  TicketTyped' /\ Planned'
<1> USE TicketsAssumption
<1>0. /\ \A place \in Pcs : <<>> \in JobPlans(place)
      /\ <<>> \in CallPlans /\ <<>> \in SweepPlans /\ "done" \in Pcs
  BY DEF JobPlans, CallPlans, SweepPlans, Pcs
<1>1. ASSUME NEW a \in Users \cup Sweeps, NEW plan \in CallPlans, a \in Sweeps => plan \in SweepPlans,
             writes' = [writes EXCEPT ![a] = plan], UNCHANGED job_at
      PROVE  Planned'
  BY <1>1 DEF Planned, Writers
<1>2. ASSUME NEW j \in TicketJobs, NEW place \in Pcs, NEW plan \in JobPlans(place),
             writes' = [writes EXCEPT ![j] = plan], job_at' = [job_at EXCEPT ![j] = place]
      PROVE  Planned'
  BY <1>2 DEF Planned, Writers
<1>3. ASSUME NEW u \in Users, UserCall(u)
      PROVE  TicketTyped' /\ Planned'
  <2>1. PICK plan \in CallPlans : Call(u, plan)
    BY <1>3, CallsPlan DEF UserCall
  <2>2. TicketTyped'
    BY <1>3, <2>1 DEF UserCall, Call, TicketTyped, row, history, fallout
  <2> QED
    BY <1>1, <1>3, <2>1, <2>2 DEF UserCall, Call
<1>4. ASSUME NEW u \in Users, DeleteTicket(u)
      PROVE  TicketTyped' /\ Planned'
  BY <1>4 DEF DeleteTicket, TicketTyped, Planned, TicketStatuses, history, fallout
<1>5. ASSUME NEW a \in Users \cup Sweeps, Committing(a), UNCHANGED job_at
      PROVE  TicketTyped' /\ Planned'
  <2>1. a \in Writers
    BY DEF Writers
  <2>2. CASE Commit(a)
    <3>1. TicketTyped' /\ writes' = [writes EXCEPT ![a] = Tail(writes[a])] /\ writes[a] # <<>>
      BY <2>1, <2>2, CommitEffect
    <3>2. Tail(writes[a]) \in CallPlans /\ (a \in Sweeps => Tail(writes[a]) \in SweepPlans)
      BY <3>1, NextWrite, CallsPlan DEF Planned
    <3> QED
      BY <1>1, <1>5, <3>1, <3>2
  <2>3. CASE CommitFails(a)
    BY <1>0, <1>1, <1>5, <2>1, <2>3, CommitFailsEffect
  <2> QED
    BY <1>5, <2>2, <2>3 DEF Committing
<1>6. ASSUME NEW s \in Sweeps, Sweep(s)
      PROVE  TicketTyped' /\ Planned'
  <2>1. TicketTyped'
    BY <1>6 DEF Sweep, Call, TicketTyped, row, history, fallout
  <2> QED
    BY <1>1, <1>6, <2>1, CallsPlan DEF Sweep, Call
<1>7. ASSUME NEW j \in TicketJobs, JobCommits(j)
      PROVE  TicketTyped' /\ Planned'
  <2>1. j \in Writers /\ job_at[j] \in Pcs /\ writes[j] \in JobPlans(job_at[j])
        /\ job_at = [job_at EXCEPT ![j] = job_at[j]]
    BY DEF Writers, Planned
  <2>2. CASE Commit(j) /\ UNCHANGED job_at
    <3>1. TicketTyped' /\ writes' = [writes EXCEPT ![j] = Tail(writes[j])] /\ writes[j] # <<>>
      BY <2>1, <2>2, CommitEffect
    <3>2. Tail(writes[j]) \in JobPlans(job_at[j])
      BY <2>1, <3>1, NextWrite
    <3> QED
      BY <1>2, <2>1, <2>2, <3>1, <3>2
  <2>3. CASE CommitFails(j) /\ Goto(j, "done")
    BY <1>0, <1>2, <2>1, <2>3, CommitFailsEffect DEF Goto
  <2> QED
    BY <1>7, <2>2, <2>3 DEF JobCommits
<1>8. ASSUME NEW j \in TicketJobs, Send(j) \/ (JobStep(j) /\ ~JobCommits(j)) \/ WorkerLost(j)
      PROVE  TicketTyped' /\ Planned'
  <2>1. Moved(j) /\ TicketTyped'
    BY <1>8, MovesEffect DEF JobStep
  <2> QED
    BY <1>2, <2>1 DEF Moved, Goto
<1>9. CASE Deadline
  BY <1>9 DEF Deadline, TicketTyped, Planned, history, fallout
<1> QED
  BY <1>3, <1>4, <1>5, <1>6, <1>7, <1>8, <1>9 DEF TicketNext, UserStep, SweepStep, JobStep

-------------------------------------------------------------------------------
(* A ticket in progress is driven. *)

\* Whoever plans or commits leaves the other plans alone.
LEMMA OtherPlans ==
    ASSUME Planned, NEW a \in Writers, NEW plan, writes' = [writes EXCEPT ![a] = plan]
    PROVE  writes'[a] = plan /\ \A j \in TicketJobs \ {a} : writes'[j] = writes[j]
<1>1. writes = [b \in Writers |-> writes[b]]
  BY DEF Planned
<1>2. writes'[a] = plan /\ \A b \in Writers \ {a} : writes'[b] = writes[b]
  BY <1>1
<1> QED
  BY <1>2 DEF Writers

\* A ticket in progress keeps somebody who will end it.
LEMMA DrivenStep ==
    ASSUME TicketTyped, Planned, Driven, TicketNext
    PROVE  Driven'
<1> USE TicketsAssumption
<1>1. ASSUME NEW a, UNCHANGED <<status, by_hand>>, cut' \in {cut, TRUE},
             \A j \in TicketJobs \ {a} : job_at'[j] = job_at[j] /\ writes'[j] = writes[j],
             a \in TicketJobs /\ status = "IN_PROGRESS" /\ Drives(a) => Drives(a)'
      PROVE  Driven'
  <2>1. \A j \in TicketJobs : status = "IN_PROGRESS" /\ Drives(j) => Drives(j)'
    <3> SUFFICES ASSUME NEW j \in TicketJobs, status = "IN_PROGRESS", Drives(j)
                 PROVE  Drives(j)'
      OBVIOUS
    <3>1. CASE j = a
      BY <1>1, <3>1
    <3>2. CASE j # a
      BY <1>1, <3>2 DEF Drives
    <3> QED
      BY <3>1, <3>2
  <2>2. cut => cut'
    BY <1>1
  <2> QED
    BY <1>1, <2>1, <2>2 DEF Driven
<1>2. ASSUME NEW u \in Users, UserCall(u)
      PROVE  Driven'
  BY <1>1, <1>2 DEF UserCall, Call, row, history, Planned
<1>3. ASSUME NEW u \in Users, DeleteTicket(u)
      PROVE  Driven'
  BY <1>3 DEF DeleteTicket, Driven
<1>4. ASSUME NEW a \in Users \cup Sweeps, Committing(a), UNCHANGED job_at
      PROVE  Driven'
  <2>1. a \in Writers /\ a \notin TicketJobs
    BY DEF Writers
  <2>2. CASE Commit(a)
    <3>1. /\ UNCHANGED <<status, by_hand>> \/ status' # "IN_PROGRESS" \/ by_hand'
          /\ cut' \in {cut, TRUE}
          /\ writes' = [writes EXCEPT ![a] = Tail(writes[a])]
      BY <2>1, <2>2, CommitEffect
    <3>2. \A j \in TicketJobs \ {a} : job_at'[j] = job_at[j] /\ writes'[j] = writes[j]
      BY <1>4, <2>1, <3>1, OtherPlans
    <3>3. CASE UNCHANGED <<status, by_hand>>
      BY <1>1, <2>1, <3>1, <3>2, <3>3
    <3> QED
      BY <3>1, <3>3 DEF Driven
  <2>3. CASE CommitFails(a)
    BY <2>1, <2>3, CommitFailsEffect DEF Driven
  <2> QED
    BY <1>4, <2>2, <2>3 DEF Committing
<1>5. ASSUME NEW s \in Sweeps, Sweep(s)
      PROVE  Driven'
  BY <1>1, <1>5 DEF Sweep, Call, row, history, Planned
<1>6. ASSUME NEW j \in TicketJobs, JobCommits(j)
      PROVE  Driven'
  <2>1. j \in Writers
    BY DEF Writers
  <2>2. CASE Commit(j) /\ UNCHANGED job_at
    <3>1. /\ writes' = [writes EXCEPT ![j] = Tail(writes[j])] /\ cut' \in {cut, TRUE}
          /\ \/ job_at[j] = "starting" /\ status' = "IN_PROGRESS"
             \/ job_at[j] = "resolving" /\ status' = "RESOLVED"
             \/ job_at[j] = "resolving" /\ UNCHANGED <<status, by_hand>>
                /\ writes[j] # <<SetStatus("RESOLVED"), Announce>>
             \/ job_at[j] = "failing" /\ status' = "OPEN"
      BY <2>1, <2>2, CommitEffect
    <3>2. CASE job_at[j] = "starting"
      BY <2>2, <3>2 DEF Driven, Drives
    <3>3. CASE job_at[j] = "resolving" /\ UNCHANGED <<status, by_hand>> /\ writes[j] # <<SetStatus("RESOLVED"), Announce>>
      <4>1. \A i \in TicketJobs \ {j} : job_at'[i] = job_at[i] /\ writes'[i] = writes[i]
        BY <2>1, <2>2, <3>1, OtherPlans
      <4>2. ~Drives(j)
        BY <3>3 DEF Drives
      <4> QED
        BY <1>1, <3>1, <3>3, <4>1, <4>2
    <3> QED
      BY <3>1, <3>2, <3>3 DEF Driven
  <2>3. CASE CommitFails(j)
    BY <2>1, <2>3, CommitFailsEffect DEF Driven
  <2> QED
    BY <1>6, <2>2, <2>3 DEF JobCommits
<1>11. ASSUME NEW j \in TicketJobs, Moved(j)
       PROVE  \A i \in TicketJobs \ {j} : job_at'[i] = job_at[i] /\ writes'[i] = writes[i]
  <2>1. PICK place, plan :
          job_at' = [job_at EXCEPT ![j] = place] /\ writes' = [writes EXCEPT ![j] = plan]
    BY <1>11 DEF Moved, Goto
  <2>2. j \in Writers /\ job_at \in [TicketJobs -> Pcs]
    BY DEF Writers, Planned
  <2>3. \A i \in TicketJobs \ {j} : writes'[i] = writes[i]
    BY <2>1, <2>2, OtherPlans
  <2> QED
    BY <2>1, <2>2, <2>3
<1>7. ASSUME NEW j \in TicketJobs, Send(j) \/ StartJob(j) \/ ReportFailure(j) \/ RetryJob(j) \/ FinishJob(j)
      PROVE  Driven'
  <2>1. Moved(j)
    BY <1>7, MovesEffect
  <2>2. ~Drives(j) /\ UNCHANGED <<status, by_hand, cut>>
    BY <1>7 DEF Send, StartJob, ReportFailure, RetryJob, FinishJob, Drives, quiet, row, history,
       Call
  <2> QED
    BY <1>1, <1>11, <2>1, <2>2
<1>8. ASSUME NEW j \in TicketJobs, ProductionCycle(j)
      PROVE  Driven'
  <2>1. Moved(j)
    BY <1>8, MovesEffect
  <2>2. status = "IN_PROGRESS" => Resolve = <<SetStatus("RESOLVED"), Announce>>
    BY CallsPlan
  <2>3. UNCHANGED <<status, by_hand, cut>> /\ (status = "IN_PROGRESS" => Drives(j)')
    <3>1. j \in Writers
      BY DEF Writers
    <3> QED
      BY <1>8, <2>2, <3>1 DEF ProductionCycle, Call, Goto, row, history, Drives, Planned
  <2> QED
    BY <1>1, <1>11, <2>1, <2>3
<1>9. ASSUME NEW j \in TicketJobs, WorkerLost(j)
      PROVE  Driven'
  BY <1>9 DEF WorkerLost, Driven
<1>10. CASE Deadline
  BY <1>10 DEF Deadline, Driven, Drives, history
<1> QED
  BY <1>2, <1>3, <1>4, <1>5, <1>6, <1>7, <1>8, <1>9, <1>10 DEF TicketNext, UserStep, SweepStep,
     JobStep

-------------------------------------------------------------------------------
(* What the attempts leave behind. *)

LEMMA AttemptsFinite ==
    /\ IsFiniteSet(Attempts)
    /\ Cardinality(Attempts) = Cardinality(TicketJobs) * (Retries + 1)
    /\ Cardinality(TicketJobs) \in Nat
<1>1. IsFiniteSet(0..Retries) /\ Cardinality(0..Retries) = Retries + 1
  BY TicketsAssumption, FS_Interval
<1> QED
  BY <1>1, TicketsAssumption, FS_Product, FS_CardinalityType DEF Attempts

\* Sets of attempts that lose or gain one.
LEMMA AttemptsCounted ==
    ASSUME NEW old \in SUBSET Attempts, NEW new \in SUBSET Attempts, NEW w
    PROVE  /\ Cardinality(old) \in Nat /\ Cardinality(new) \in Nat
           /\ new \subseteq old => Cardinality(new) <= Cardinality(old)
           /\ w \in old /\ new \subseteq old \ {w} => Cardinality(new) + 1 <= Cardinality(old)
           /\ new \subseteq old \cup {w} => Cardinality(new) <= Cardinality(old) + 1
<1>1. IsFiniteSet(old) /\ IsFiniteSet(new) /\ Cardinality(old) \in Nat /\ Cardinality(new) \in Nat
  BY AttemptsFinite, FS_Subset, FS_CardinalityType
<1>2. ASSUME new \subseteq old
      PROVE  Cardinality(new) <= Cardinality(old)
  BY <1>1, <1>2, FS_Subset
<1>3. ASSUME w \in old, new \subseteq old \ {w}
      PROVE  Cardinality(new) + 1 <= Cardinality(old)
  <2>1. IsFiniteSet(old \ {w}) /\ Cardinality(old \ {w}) = Cardinality(old) - 1
    BY <1>1, <1>3, FS_RemoveElement
  <2>2. Cardinality(new) <= Cardinality(old \ {w})
    BY <1>3, <2>1, FS_Subset
  <2> QED
    BY <1>1, <2>1, <2>2
<1>4. ASSUME new \subseteq old \cup {w}
      PROVE  Cardinality(new) <= Cardinality(old) + 1
  <2>1. /\ IsFiniteSet(old \cup {w})
        /\ Cardinality(old \cup {w}) = Cardinality(old) \/ Cardinality(old \cup {w}) = Cardinality(old) + 1
    <3>1. CASE w \in old
      <4>1. old \cup {w} = old
        BY <3>1
      <4> QED
        BY <1>1, <4>1
    <3>2. CASE w \notin old
      BY <1>1, <3>2, FS_AddElement
    <3> QED
      BY <3>1, <3>2
  <2>2. Cardinality(new) <= Cardinality(old \cup {w})
    BY <1>4, <2>1, FS_Subset
  <2> QED
    BY <1>1, <2>1, <2>2
<1> QED
  BY <1>1, <1>2, <1>3, <1>4

\* A job that moves, at the same attempt, changes what this attempt may still leave.
LEMMA AttemptMoved ==
    ASSUME TicketTyped, Planned, NEW j \in TicketJobs, NEW place,
           Goto(j, place), UNCHANGED attempt
    PROVE  LET w == <<j, attempt[j]>>
           IN  /\ Reporting' \subseteq Reporting \cup {w} /\ Saving' \subseteq Saving \cup {w}
               /\ w \in Reporting <=> job_at[j] \notin {"retrying", "done"}
               /\ w \in Reporting' <=> place \notin {"retrying", "done"}
               /\ w \in Saving <=> job_at[j] \in {"idle", "queued", "starting"}
               /\ w \in Saving' <=> place \in {"idle", "queued", "starting"}
<1> DEFINE w == <<j, attempt[j]>>
<1>1. w \in Attempts /\ w[1] = j /\ w[2] = attempt[j]
  BY DEF TicketTyped, Attempts
<1>2. job_at'[j] = place /\ \A i \in TicketJobs \ {j} : job_at'[i] = job_at[i]
  BY DEF Planned, Goto
<1>3. \A i \in TicketJobs : attempt[i] \in Nat
  BY TicketsAssumption DEF TicketTyped
<1>4. \A x \in Attempts : x[1] \in TicketJobs /\ x[2] \in Nat /\ x = <<x[1], x[2]>>
  BY TicketsAssumption DEF Attempts
<1>5. \A x \in Attempts : x # w => x[1] # j \/ x[2] # attempt[j]
  BY <1>4
<1>6. /\ w \in Reporting <=> job_at[j] \notin {"retrying", "done"}
      /\ w \in Reporting' <=> place \notin {"retrying", "done"}
      /\ w \in Saving <=> job_at[j] \in {"idle", "queued", "starting"}
      /\ w \in Saving' <=> place \in {"idle", "queued", "starting"}
  BY <1>1, <1>2, <1>3 DEF Reporting, Saving, Attempts
<1>7. \A x \in Attempts \ {w} : (x \in Reporting' => x \in Reporting) /\ (x \in Saving' => x \in Saving)
  BY <1>2, <1>3, <1>4, <1>5 DEF Reporting, Saving, Attempts
<1>8. Reporting' \subseteq Attempts /\ Saving' \subseteq Attempts
  BY DEF Reporting, Saving, Attempts
<1> QED
  BY <1>6, <1>7, <1>8

\* What failed processing leaves behind is paid for by an attempt or a redelivery.
LEMMA SpentStep ==
    ASSUME TicketTyped, Planned, Spent, TicketNext
    PROVE  Spent'
<1> USE TicketsAssumption
<1> DEFINE Jobs(j) == <<j, attempt[j]>>
<1>0. /\ Reporting \in SUBSET Attempts /\ Saving \in SUBSET Attempts
      /\ Reporting' \in SUBSET Attempts /\ Saving' \in SUBSET Attempts
      /\ Cardinality(Reporting) \in Nat /\ Cardinality(Saving) \in Nat
      /\ Cardinality(Reporting') \in Nat /\ Cardinality(Saving') \in Nat
      /\ Cardinality(Attempts) \in Nat /\ Attempts' = Attempts
  <2>1. Attempts' = Attempts
    BY DEF Attempts
  <2>2. /\ Reporting \in SUBSET Attempts /\ Saving \in SUBSET Attempts
        /\ Reporting' \in SUBSET Attempts /\ Saving' \in SUBSET Attempts
    BY <2>1 DEF Reporting, Saving
  <2> QED
    BY <2>1, <2>2, AttemptsCounted, AttemptsFinite, FS_CardinalityType
<1>1. /\ incidents \in Nat /\ generated \in Nat /\ ticket_faults \in Nat
      /\ TicketTyped' /\ incidents' \in Nat /\ generated' \in Nat /\ ticket_faults' \in Nat
  BY PlannedStep DEF TicketTyped
<1>2. ASSUME Reporting' \subseteq Reporting, Saving' \subseteq Saving,
             UNCHANGED fallout, ticket_faults' <= ticket_faults
      PROVE  Spent'
  <2>1. Cardinality(Reporting') <= Cardinality(Reporting)
        /\ Cardinality(Saving') <= Cardinality(Saving)
    BY <1>0, <1>2, AttemptsCounted
  <2> QED
    BY <1>0, <1>1, <1>2, <2>1 DEF Spent, fallout
<1>3. ASSUME UNCHANGED <<fallout, job_at, attempt>>, ticket_faults' <= ticket_faults
      PROVE  Spent'
  BY <1>2, <1>3 DEF Reporting, Saving, Attempts
<1>4. ASSUME NEW j \in TicketJobs, NEW place, Goto(j, place), UNCHANGED <<fallout, attempt>>,
             ticket_faults' <= ticket_faults,
             \/ place \in {"retrying", "done", "resolving", "failing"}
             \/ job_at[j] \in {"idle", "queued", "starting"},
             \/ place \in {"retrying", "done"}
             \/ job_at[j] \notin {"retrying", "done"}
      PROVE  Spent'
  BY <1>2, <1>4, AttemptMoved
<1>5. ASSUME NEW u \in Users, UserCall(u) \/ DeleteTicket(u)
      PROVE  Spent'
  BY <1>1, <1>3, <1>5 DEF UserCall, DeleteTicket
<1>6. ASSUME NEW a \in Writers, Committing(a), UNCHANGED job_at
      PROVE  Spent'
  <2>1. UNCHANGED <<fallout, attempt>> /\ ticket_faults' <= ticket_faults
    <3>1. CASE Commit(a)
      <4>1. /\ UNCHANGED <<fallout, attempt>>
            /\ \/ UNCHANGED ticket_faults
               \/ ticket_faults > 0 /\ ticket_faults' = ticket_faults - 1
        BY <3>1, CommitEffect, Zenon
      <4> QED
        BY <1>1, <4>1
    <3>2. CASE CommitFails(a)
      BY <1>1, <3>2, CommitFailsEffect
    <3> QED
      BY <1>6, <3>1, <3>2 DEF Committing
  <2> QED
    BY <1>3, <1>6, <2>1
<1>7. ASSUME NEW s \in Sweeps, Sweep(s)
      PROVE  Spent'
  BY <1>1, <1>3, <1>7 DEF Sweep
<1>8. ASSUME NEW j \in TicketJobs, JobCommits(j)
      PROVE  Spent'
  <2>1. j \in Writers
    BY DEF Writers
  <2>2. CASE Commit(j) /\ UNCHANGED job_at
    BY <1>6, <2>1, <2>2 DEF Committing
  <2>3. CASE CommitFails(j) /\ Goto(j, "done")
    <3>1. UNCHANGED <<fallout, attempt>> /\ ticket_faults' <= ticket_faults
      BY <1>1, <2>1, <2>3, CommitFailsEffect
    <3> QED
      BY <1>4, <2>3, <3>1
  <2> QED
    BY <1>8, <2>2, <2>3 DEF JobCommits
<1>9. ASSUME NEW j \in TicketJobs, Send(j) \/ StartJob(j) \/ FinishJob(j)
      PROVE  Spent'
  <2>1. CASE Send(j)
    BY <1>1, <1>4, <2>1 DEF Send
  <2>2. CASE StartJob(j)
    BY <1>1, <1>4, <2>2 DEF StartJob
  <2>3. CASE FinishJob(j)
    BY <1>1, <1>4, <2>3 DEF FinishJob
  <2> QED
    BY <1>9, <2>1, <2>2, <2>3
<1>10. ASSUME NEW j \in TicketJobs, ProductionCycle(j)
       PROVE  Spent'
  <2>1. PICK place \in {"resolving", "failing"} : Goto(j, place)
    BY <1>10 DEF ProductionCycle
  <2>2. /\ job_at[j] = "starting" /\ UNCHANGED <<incidents, attempt>>
        /\ generated' <= generated + 1 /\ ticket_faults' <= ticket_faults
    BY <1>1, <1>10 DEF ProductionCycle, TicketFault
  <2>3. /\ Reporting' \subseteq Reporting
        /\ Jobs(j) \in Saving /\ Saving' \subseteq Saving \ {Jobs(j)}
    BY <2>1, <2>2, AttemptMoved
  <2>4. Cardinality(Reporting') <= Cardinality(Reporting)
        /\ Cardinality(Saving') + 1 <= Cardinality(Saving)
    BY <1>0, <2>3, AttemptsCounted
  <2> QED
    BY <1>0, <1>1, <2>2, <2>4 DEF Spent
<1>11. ASSUME NEW j \in TicketJobs, ReportFailure(j)
       PROVE  Spent'
  <2>1. /\ job_at[j] = "failing" /\ Goto(j, "retrying") /\ UNCHANGED <<generated, attempt>>
        /\ incidents' <= incidents + 1 /\ ticket_faults' <= ticket_faults
    BY <1>1, <1>11 DEF ReportFailure, OnTaskFailed, TicketFault
  <2>2. /\ Jobs(j) \in Reporting /\ Reporting' \subseteq Reporting \ {Jobs(j)}
        /\ Saving' \subseteq Saving
    BY <2>1, AttemptMoved
  <2>3. Cardinality(Reporting') + 1 <= Cardinality(Reporting)
        /\ Cardinality(Saving') <= Cardinality(Saving)
    BY <1>0, <2>2, AttemptsCounted
  <2> QED
    BY <1>0, <1>1, <2>1, <2>3 DEF Spent
<1>12. ASSUME NEW j \in TicketJobs, RetryJob(j)
       PROVE  Spent'
  <2>1. job_at[j] = "retrying" /\ UNCHANGED <<fallout, ticket_faults>>
    BY <1>12 DEF RetryJob
  <2>2. CASE MayRetry(j) /\ Goto(j, "queued") /\ attempt' = [attempt EXCEPT ![j] = @ + 1]
    <3>1. /\ job_at'[j] = "queued" /\ \A i \in TicketJobs \ {j} : job_at'[i] = job_at[i]
          /\ attempt'[j] = attempt[j] + 1 /\ \A i \in TicketJobs \ {j} : attempt'[i] = attempt[i]
          /\ \A i \in TicketJobs : attempt[i] \in Nat
      BY <2>2 DEF Goto, Planned, TicketTyped
    <3>2. \A w \in Attempts : w[1] \in TicketJobs /\ w[2] \in Nat
      BY DEF Attempts
    <3>3. Reporting' \subseteq Reporting /\ Saving' \subseteq Saving
      BY <1>0, <3>1, <3>2 DEF Reporting, Saving
    <3> QED
      BY <1>1, <1>2, <2>1, <3>3
  <2>3. CASE Goto(j, "done") /\ UNCHANGED attempt
    BY <1>1, <1>4, <2>1, <2>3
  <2> QED
    BY <1>12, <2>2, <2>3 DEF RetryJob
<1>13. ASSUME NEW j \in TicketJobs, WorkerLost(j)
       PROVE  Spent'
  <2>1. UNCHANGED <<fallout, attempt>>
    BY <1>13 DEF WorkerLost
  <2>2. CASE TicketFault("crash") /\ Goto(j, "queued")
    <3>1. ticket_faults' = ticket_faults - 1
      BY <2>2 DEF TicketFault
    <3>2. Reporting' \subseteq Reporting \cup {Jobs(j)} /\ Saving' \subseteq Saving \cup {Jobs(j)}
      BY <2>1, <2>2, AttemptMoved
    <3>3. Cardinality(Reporting') <= Cardinality(Reporting) + 1
          /\ Cardinality(Saving') <= Cardinality(Saving) + 1
      BY <1>0, <3>2, AttemptsCounted
    <3> QED
      BY <1>0, <1>1, <2>1, <3>1, <3>3 DEF Spent, fallout
  <2>3. CASE TicketFault("kill") /\ Goto(j, "done")
    BY <1>1, <1>4, <2>1, <2>3 DEF TicketFault
  <2> QED
    BY <1>13, <2>2, <2>3 DEF WorkerLost
<1>14. CASE Deadline
  BY <1>1, <1>3, <1>14 DEF Deadline
<1>15. Users \cup Sweeps \subseteq Writers
  BY DEF Writers
<1> QED
  BY <1>5, <1>6, <1>7, <1>8, <1>9, <1>10, <1>11, <1>12, <1>13, <1>14, <1>15
     DEF TicketNext, UserStep, SweepStep, JobStep

\* At first nothing is spent.
LEMMA InitSpent == TicketInit => Spent
<1> SUFFICES ASSUME TicketInit PROVE Spent
  OBVIOUS
<1>1. Reporting \in SUBSET Attempts /\ Saving \in SUBSET Attempts /\ Attempts \in SUBSET Attempts
  BY DEF Reporting, Saving
<1>2. /\ Cardinality(Reporting) \in Nat /\ Cardinality(Saving) \in Nat /\ Cardinality(Attempts) \in Nat
      /\ Cardinality(Reporting) <= Cardinality(Attempts)
      /\ Cardinality(Saving) <= Cardinality(Attempts)
  BY <1>1, AttemptsCounted
<1> QED
  BY <1>2, TicketsAssumption DEF TicketInit, Spent

-------------------------------------------------------------------------------
(* The theorems. *)

LEMMA TicketInvInit == TicketInit => TicketInv
BY InitTyped, InitSpent DEF TicketInv

LEMMA TicketInvNext == TicketInv /\ [TicketNext]_ticketvars => TicketInv'
<1> SUFFICES ASSUME TicketInv, [TicketNext]_ticketvars PROVE TicketInv'
  OBVIOUS
<1>1. CASE TicketNext
  BY <1>1, PlannedStep, DrivenStep, SpentStep DEF TicketInv
<1>2. CASE UNCHANGED ticketvars
  <2> USE <1>2 DEF ticketvars, row, fallout, history
  <2>1. TicketTyped'
    BY DEF TicketInv, TicketTyped
  <2>2. Planned'
    BY DEF TicketInv, Planned
  <2>3. Driven'
    BY DEF TicketInv, Driven, Drives
  <2>4. Spent'
    BY DEF TicketInv, Spent, Reporting, Saving, Attempts
  <2> QED
    BY <2>1, <2>2, <2>3, <2>4 DEF TicketInv
<1> QED
  BY <1>1, <1>2

\* What is spent, and what can still be, is no more than there are attempts.
LEMMA SpentBounds == TicketInv => FalloutBounded
<1> SUFFICES ASSUME TicketInv PROVE FalloutBounded
  OBVIOUS
<1> DEFINE n == Cardinality(TicketJobs) * (Retries + 1)
<1>1. Reporting \in SUBSET Attempts /\ Saving \in SUBSET Attempts
  BY DEF Reporting, Saving
<1>2. Cardinality(Reporting) \in Nat /\ Cardinality(Saving) \in Nat /\ Cardinality(Attempts) \in Nat
      /\ Cardinality(Attempts) = n
  BY <1>1, AttemptsCounted, AttemptsFinite, FS_CardinalityType
<1> HIDE DEF n
<1>3. incidents <= n + MaxTicketFaults /\ generated <= n + MaxTicketFaults
  BY <1>2, TicketsAssumption DEF TicketInv, TicketTyped, Spent
<1> QED
  BY <1>3 DEF n, FalloutBounded

LEMMA TicketInvTells == TicketInv => TicketTypeOK /\ InProgressIsDriven /\ FalloutBounded
BY TypedSuffices, SpentBounds DEF TicketInv, Driven, Drives, InProgressIsDriven

\* Type correctness: the ticket of ticket_service.py and everybody who changes it stay
\* in their sets, and no call has more than two commits left.
THEOREM TicketsTyped == TicketSpec => []TicketTypeOK
BY TicketInvInit, TicketInvNext, TicketInvTells, PTL DEF TicketSpec

\* process_ticket does not abandon a ticket: one that is in progress has a job under way
\* that resolves or reopens it, whatever users, sweeps, retries and other jobs commit in
\* between, unless a commit failed or a worker was lost.
THEOREM TicketDriven == TicketSpec => []InProgressIsDriven
BY TicketInvInit, TicketInvNext, TicketInvTells, PTL DEF TicketSpec

\* Failed processing leaves at most one incident, and one set of generated tickets, per
\* attempt of process_ticket and redelivery of its message.
THEOREM FalloutStaysBounded == TicketSpec => []FalloutBounded
BY TicketInvInit, TicketInvNext, TicketInvTells, PTL DEF TicketSpec
===============================================================================
