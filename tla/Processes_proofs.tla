-------------------------- MODULE Processes_proofs --------------------------
(***************************************************************************)
(* Proofs about parts of the program that run until something is done, and *)
(* about the instance that puts them side by side, for any number of       *)
(* components, letters, threads, searches, pipelines, releases and calls.  *)
(***************************************************************************)
EXTENDS MCProcesses, SelfHealing, Tickets_proofs, WellFoundedInduction

\* Induction, for sets of numbers.
LEMMA NaturalsReached ==
    ASSUME NEW S, 0 \in S, \A n \in Nat : n \in S => n + 1 \in S
    PROVE  Nat \subseteq S
<1> DEFINE Missing == Nat \ S
           Below == OpToRel(<, Nat)
<1>1. Below = {ss \in Nat \X Nat : ss[1] < ss[2]}
  BY DEF OpToRel
<1>2. IsWellFoundedOn(Below, Nat)
  BY NatLessThanWellFounded
<1> HIDE DEF Below
<1>3. SUFFICES ASSUME Missing # {} PROVE FALSE
  OBVIOUS
<1>4. PICK n \in Missing : \A m \in Missing : <<m, n>> \notin Below
  BY <1>2, <1>3, WFMin, Missing \subseteq Nat
<1>5. n \in Nat /\ n # 0 /\ n - 1 \in Nat /\ n - 1 \notin S
  OBVIOUS
<1>6. <<n - 1, n>> \in Below
  BY <1>1, <1>5
<1> QED
  BY <1>4, <1>5, <1>6

-------------------------------------------------------------------------------
(* SelfHealing: recoveries that overlap. *)

\* A recovery that ends with one more attempt.
Counting == {"before", "settling", "after"}

\* What HealTypeOK says of attempts and actors; an actor at work has a target.
HealTyped ==
    /\ attempts \in [Monitored -> Nat]
    /\ healer \in [Healers -> Counting \cup {"idle", "escalated"}]
    /\ target = [a \in Healers |-> target[a]]
    /\ \A a \in Healers : healer[a] # "idle" => target[a] \in Monitored

HealInv == HealTyped /\ RecoveriesBounded

\* The actors at work on a component, and one more or less of them.
LEMMA RecoveringCounted ==
    ASSUME NEW c
    PROVE  /\ IsFiniteSet(Healers) /\ Cardinality(Healers) \in Nat
           /\ Recovering(c) \subseteq Healers
           /\ Cardinality(Recovering(c)) \in Nat
           /\ Cardinality(Recovering(c)) <= Cardinality(Healers)
           /\ \A a \in Recovering(c) :
                Cardinality(Recovering(c) \ {a}) = Cardinality(Recovering(c)) - 1
<1>1. IsFiniteSet(Healers)
  BY SelfHealingAssumption, FS_AddElement DEF Healers
<1>2. Recovering(c) \subseteq Healers
  BY DEF Recovering
<1>3. IsFiniteSet(Recovering(c))
  BY <1>1, <1>2, FS_Subset
<1>4. \A a \in Recovering(c) : Cardinality(Recovering(c) \ {a}) = Cardinality(Recovering(c)) - 1
  BY <1>3, FS_RemoveElement
<1> QED
  BY <1>1, <1>2, <1>3, <1>4, FS_Subset, FS_CardinalityType

\* The first actor holds nothing, and attempts start at none.
LEMMA HealInvInit == HealInit => HealInv
<1> SUFFICES ASSUME HealInit PROVE HealInv
  OBVIOUS
<1>1. HealTyped
  BY DEF HealInit, HealTyped, Counting
<1>2. ASSUME NEW c \in Monitored PROVE attempts[c] = 0 /\ Recovering(c) = {}
  BY <1>2 DEF HealInit, Recovering
<1>3. Cardinality({}) = 0 /\ Cardinality(Healers) \in Nat
  BY FS_EmptySet, RecoveringCounted
<1>4. RecoveriesBounded
  <2>1. MaxAttempts \in Nat \ {0}
    BY SelfHealingAssumption
  <2> QED
    BY <1>2, <1>3, <2>1 DEF RecoveriesBounded
<1> QED
  BY <1>1, <1>4 DEF HealInv

\* A step that counts no attempt and puts nobody to work on a component.
LEMMA NobodyBegins ==
    ASSUME HealInv, HealTyped',
           \A c \in Monitored : attempts'[c] <= attempts[c] /\ Recovering(c)' \subseteq Recovering(c)
    PROVE  HealInv'
<1>1. ASSUME NEW c \in Monitored
      PROVE  attempts'[c] + Cardinality(Recovering(c)') < MaxAttempts + Cardinality(Healers)
  <2>1. IsFiniteSet(Recovering(c)) /\ Cardinality(Recovering(c)) \in Nat
    BY RecoveringCounted, FS_Subset
  <2>2. Cardinality(Recovering(c)') \in Nat /\ Cardinality(Recovering(c)') <= Cardinality(Recovering(c))
    BY <1>1, <2>1, FS_Subset, FS_CardinalityType
  <2>3. attempts[c] \in Nat /\ attempts'[c] \in Nat
    BY <1>1 DEF HealInv, HealTyped
  <2>4. Cardinality(Healers) \in Nat /\ MaxAttempts \in Nat
    BY RecoveringCounted, SelfHealingAssumption
  <2>5. attempts[c] + Cardinality(Recovering(c)) < MaxAttempts + Cardinality(Healers)
    BY <1>1 DEF HealInv, RecoveriesBounded
  <2>6. attempts'[c] <= attempts[c]
    BY <1>1
  <2> HIDE DEF Recovering, Healers
  <2> QED
    BY <2>1, <2>2, <2>3, <2>4, <2>5, <2>6
<1>2. RecoveriesBounded'
  BY <1>1 DEF RecoveriesBounded, Healers
<1> QED
  BY <1>2 DEF HealInv

\* Every step keeps the bound: a recovery is begun below the limit and gives its place
\* among the recoveries under way for the attempt it counts.
LEMMA HealInvNext == HealInv /\ [HealNext]_healvars => HealInv'
<1> SUFFICES ASSUME HealInv, [HealNext]_healvars
             PROVE  HealInv'
  OBVIOUS
<1>0. HealTyped
  BY DEF HealInv
<1>1. ASSUME UNCHANGED <<attempts, healer, target>> PROVE HealInv'
  <2>1. \A c \in Monitored : attempts'[c] <= attempts[c] /\ Recovering(c)' \subseteq Recovering(c)
    BY <1>0, <1>1 DEF HealTyped, Recovering
  <2>2. HealTyped'
    BY <1>0, <1>1 DEF HealTyped
  <2> QED
    BY <2>1, <2>2, NobodyBegins
<1>2. ASSUME NEW a \in Healers, NEW c \in Strategies, healer[a] = "idle",
             BeginRecovery(a, c)
      PROVE  HealInv'
  <2>0. c \in Monitored
    BY SelfHealingAssumption DEF Monitored
  <2>1. HealTyped'
    BY <1>0, <1>2, <2>0 DEF HealTyped, BeginRecovery, Wait, tracking, Counting
  <2>2. ASSUME NEW d \in Monitored
        PROVE  attempts'[d] + Cardinality(Recovering(d)') < MaxAttempts + Cardinality(Healers)
    <3>1. attempts'[d] = attempts[d] /\ attempts[d] \in Nat /\ MaxAttempts \in Nat
      BY <1>0, <1>2, <2>2, SelfHealingAssumption DEF HealTyped, BeginRecovery, tracking
    <3>2. CASE d = c
      <4>1. Recovering(d)' \subseteq Healers
        BY DEF Recovering, Healers
      <4>2. Cardinality(Recovering(d)') \in Nat /\ Cardinality(Healers) \in Nat
            /\ Cardinality(Recovering(d)') <= Cardinality(Healers)
        BY <4>1, RecoveringCounted, FS_Subset, FS_CardinalityType
      <4>3. attempts[d] < MaxAttempts
        BY <1>2, <3>2 DEF BeginRecovery, WithinLimit
      <4> QED
        BY <3>1, <4>2, <4>3
    <3>3. CASE d # c
      <4>1. Recovering(d)' = Recovering(d)
        BY <1>0, <1>2, <3>3 DEF HealTyped, BeginRecovery, Wait, Recovering, Healers
      <4> QED
        BY <2>2, <3>1, <4>1 DEF HealInv, RecoveriesBounded
    <3> QED
      BY <3>2, <3>3
  <2>3. RecoveriesBounded'
    BY <2>2 DEF RecoveriesBounded, Healers
  <2> QED
    BY <2>1, <2>3 DEF HealInv
<1>3. ASSUME NEW a \in Healers, NEW c \in Strategies, healer[a] = "idle", Escalate(a, c)
      PROVE  HealInv'
  <2>0. c \in Monitored
    BY SelfHealingAssumption DEF Monitored
  <2>1. HealTyped'
    BY <1>0, <1>3, <2>0 DEF HealTyped, Escalate, Wait, Counting
  <2>2. \A d \in Monitored : attempts'[d] <= attempts[d]
    BY <1>0, <1>3 DEF HealTyped, Escalate
  <2>3. \A d \in Monitored : Recovering(d)' \subseteq Recovering(d)
    BY <1>0, <1>3 DEF HealTyped, Escalate, Wait, Recovering, Healers
  <2> QED
    BY <2>1, <2>2, <2>3, NobodyBegins
<1>4. ASSUME NEW a \in Healers, Recover(a) PROVE HealInv'
  <2>1. PICK c \in Strategies : Skip(a, c) \/ BeginRecovery(a, c) \/ Escalate(a, c)
    BY <1>4 DEF Recover
  <2>2. healer[a] = "idle"
    BY <1>4 DEF Recover
  <2> QED
    BY <1>1, <1>2, <1>3, <2>1, <2>2 DEF Skip, tracking
<1>5. ASSUME NEW a \in Healers, healer[a] \in Counting, NEW next \in Counting, Wait(a, next),
             UNCHANGED <<attempts, target>>
      PROVE  HealInv'
  <2>1. HealTyped'
    BY <1>0, <1>5 DEF HealTyped, Wait, Counting
  <2>2. \A d \in Monitored : attempts'[d] <= attempts[d] /\ Recovering(d)' \subseteq Recovering(d)
    BY <1>0, <1>5 DEF HealTyped, Wait, Recovering, Healers, Counting
  <2> QED
    BY <2>1, <2>2, NobodyBegins
<1>6. ASSUME NEW a \in Healers, FinishRecovery(a) PROVE HealInv'
  <2>1. HealTyped'
    BY <1>0, <1>6 DEF HealTyped, FinishRecovery, Wait, Counting
  <2>2. ASSUME NEW d \in Monitored
        PROVE  attempts'[d] + Cardinality(Recovering(d)') < MaxAttempts + Cardinality(Healers)
    <3>0. attempts[d] \in Nat /\ attempts'[d] \in Nat /\ MaxAttempts \in Nat
      BY <1>0, <2>1, <2>2, SelfHealingAssumption DEF HealTyped
    <3>1. Cardinality(Recovering(d)) \in Nat /\ Cardinality(Healers) \in Nat
      BY RecoveringCounted
    <3>2. attempts[d] + Cardinality(Recovering(d)) < MaxAttempts + Cardinality(Healers)
      BY <2>2 DEF HealInv, RecoveriesBounded
    <3>3. CASE d = target[a]
      <4>1. a \in Recovering(d)
        BY <1>6, <3>3 DEF FinishRecovery, Recovering
      <4>2. Recovering(d)' = Recovering(d) \ {a}
        BY <1>0, <1>6 DEF HealTyped, FinishRecovery, Wait, Recovering, Healers
      <4>3. Cardinality(Recovering(d)') = Cardinality(Recovering(d)) - 1
        BY <4>1, <4>2, RecoveringCounted
      <4>4. attempts'[d] <= attempts[d] + 1
        BY <1>0, <1>6, <2>2, <3>3 DEF HealTyped, FinishRecovery
      <4> QED
        BY <3>0, <3>1, <3>2, <4>3, <4>4
    <3>4. CASE d # target[a]
      <4>1. Recovering(d)' = Recovering(d)
        BY <1>0, <1>6, <3>4 DEF HealTyped, FinishRecovery, Wait, Recovering, Healers
      <4>2. attempts'[d] = attempts[d]
        BY <1>0, <1>6, <2>2, <3>4 DEF HealTyped, FinishRecovery
      <4> QED
        BY <3>2, <4>1, <4>2
    <3> QED
      BY <3>3, <3>4
  <2>3. RecoveriesBounded'
    BY <2>2 DEF RecoveriesBounded, Healers
  <2> QED
    BY <2>1, <2>3 DEF HealInv
<1>7. ASSUME NEW a \in Healers, FinishEscalation(a) PROVE HealInv'
  <2>1. HealTyped'
    BY <1>0, <1>7 DEF HealTyped, FinishEscalation, Wait, Counting, tracking
  <2>2. \A d \in Monitored : attempts'[d] <= attempts[d]
    BY <1>0, <1>7 DEF HealTyped, FinishEscalation, tracking
  <2>3. \A d \in Monitored : Recovering(d)' \subseteq Recovering(d)
    BY <1>0, <1>7 DEF HealTyped, FinishEscalation, Wait, Recovering, Healers
  <2> QED
    BY <2>1, <2>2, <2>3, NobodyBegins
<1>8. ASSUME NEW a \in Healers, Act(a)
      PROVE  \E next \in Counting : Wait(a, next)
  <2>1. PICK effect \in Outcomes :
          Wait(a, CASE Reported(effect) = "success" -> "settling"
                    [] Reported(effect) = "failed" -> "after"
                    [] OTHER -> IF Exhausted(executed'[a]) THEN "after" ELSE "before")
    BY <1>8 DEF Act
  <2>2. (CASE Reported(effect) = "success" -> "settling"
           [] Reported(effect) = "failed" -> "after"
           [] OTHER -> IF Exhausted(executed'[a]) THEN "after" ELSE "before") \in Counting
    BY DEF Counting, Reported
  <2> QED
    BY <2>1, <2>2
<1>9. ASSUME NEW a \in Healers, ContinueRecovery(a) PROVE HealInv'
  <2>1. CASE Before(a)
    BY <1>5, <1>8, <2>1 DEF Before, Counting, tracking
  <2>2. CASE Settled(a)
    BY <1>5, <1>8, <2>2 DEF Settled, Counting, tracking
  <2> QED
    BY <1>6, <1>7, <1>9, <2>1, <2>2 DEF ContinueRecovery
<1>10. CASE Poll
  BY <1>1, <1>10 DEF Poll, tracking
<1>11. CASE Fault
  BY <1>1, <1>11 DEF Fault, tracking
<1>12. CASE TimePasses
  BY <1>1, <1>12 DEF TimePasses
<1>13. CASE UNCHANGED healvars
  BY <1>1, <1>13 DEF healvars
<1> QED
  BY <1>4, <1>9, <1>10, <1>11, <1>12, <1>13 DEF HealNext, MonitorStep, CallerStep, Healers

\* However many callers recover a component at the same time as the monitoring loop, each
\* after a check that the others' attempts have outdated: the attempts counted exceed
\* max_attempts by fewer than there are actors.
THEOREM RecoveriesStayBounded == HealSpec => []RecoveriesBounded
<1>1. HealInv => RecoveriesBounded
  BY DEF HealInv
<1> QED
  BY <1>1, HealInvInit, HealInvNext, PTL DEF HealSpec

\* An action that begins is one of the strategy's.
ActionsLeft == \A a \in Healers : healer[a] = "before" => executed[a] < Actions

\* What an action leaves.
LEMMA ActTyped ==
    ASSUME HealTypeOK, NEW a \in Healers, executed[a] < Actions, Act(a)
    PROVE  /\ health' \in [Monitored -> Status]
           /\ executed' \in [Healers -> 0..Actions]
           /\ succeeded' \in [Healers -> BOOLEAN]
           /\ healer' \in [Healers -> {"idle", "before", "settling", "after", "escalated"}]
           /\ \A b \in Healers : b # a => healer'[b] = healer[b] /\ executed'[b] = executed[b]
           /\ healer'[a] = "before" => executed'[a] < Actions
<1>1. PICK effect \in Outcomes :
        /\ health' = [health EXCEPT ![target[a]] = IF effect = "repaired" THEN "healthy" ELSE @]
        /\ executed' = [executed EXCEPT ![a] = @ + 1]
        /\ succeeded' = [succeeded EXCEPT ![a] = @ \/ Reported(effect) = "success"]
        /\ healer' = [healer EXCEPT ![a] =
             CASE Reported(effect) = "success" -> "settling"
               [] Reported(effect) = "failed" -> "after"
               [] OTHER -> IF Exhausted(executed'[a]) THEN "after" ELSE "before"]
  BY DEF Act, Effect, Wait
<1>2. Actions \in Nat /\ target[a] \in Monitored /\ executed[a] \in 0..Actions
  BY SelfHealingAssumption DEF HealTypeOK
<1>3. health' \in [Monitored -> Status]
  BY <1>1, <1>2 DEF HealTypeOK, Status
<1>4. executed' \in [Healers -> 0..Actions] /\ executed'[a] \in 0..Actions
  BY <1>1, <1>2 DEF HealTypeOK
<1>5. succeeded' \in [Healers -> BOOLEAN]
  BY <1>1 DEF HealTypeOK
<1>6. PICK next \in {"before", "settling", "after"} :
        healer' = [healer EXCEPT ![a] = next] /\ (next = "before" => executed'[a] # Actions)
  BY <1>1 DEF Reported, Exhausted
<1>7. healer' \in [Healers -> {"idle", "before", "settling", "after", "escalated"}]
  BY <1>6 DEF HealTypeOK
<1>8. \A b \in Healers : b # a => healer'[b] = healer[b] /\ executed'[b] = executed[b]
  BY <1>1, <1>6 DEF HealTypeOK
<1>9. healer'[a] = next
  BY <1>6 DEF HealTypeOK
<1> QED
  BY <1>2, <1>3, <1>4, <1>5, <1>6, <1>7, <1>8, <1>9

\* Monitor, agent and actors start with types and keep them.
LEMMA HealTypesInit == HealInit => HealTypeOK /\ ActionsLeft
<1> SUFFICES ASSUME HealInit PROVE HealTypeOK /\ ActionsLeft
  OBVIOUS
<1>1. Head(Components) \in Monitored
  BY SelfHealingAssumption DEF Monitored, Range
<1>2. Actions \in Nat /\ MaxFaults \in Nat /\ Cooldown \in Nat
  BY SelfHealingAssumption
<1>3. HealTypeOK
  BY <1>1, <1>2 DEF HealInit, HealTypeOK, Status
<1>4. ActionsLeft
  BY DEF HealInit, ActionsLeft
<1> QED
  BY <1>3, <1>4

LEMMA HealTypesNext == HealTypeOK /\ ActionsLeft /\ [HealNext]_healvars => (HealTypeOK /\ ActionsLeft)'
<1> SUFFICES ASSUME HealTypeOK, ActionsLeft, [HealNext]_healvars
             PROVE  HealTypeOK' /\ ActionsLeft'
  OBVIOUS
<1>0. /\ Strategies \subseteq Monitored /\ Escalating \subseteq Strategies
      /\ MaxAttempts \in Nat /\ Cooldown \in Nat /\ Actions \in Nat \ {0} /\ MaxFaults \in Nat
  BY SelfHealingAssumption DEF Monitored
<1>1. CASE Poll
  BY <1>1 DEF Poll, tracking, HealTypeOK, ActionsLeft
<1>2. ASSUME NEW a \in Healers, Recover(a) PROVE HealTypeOK' /\ ActionsLeft'
  <2>1. PICK c \in Strategies : TakeComponent(a, c) /\ (Skip(a, c) \/ BeginRecovery(a, c) \/ Escalate(a, c))
    BY <1>2 DEF Recover
  <2>2. reported_ill' \subseteq Strategies /\ UNCHANGED health_faults /\ c \in Monitored
    BY <1>0, <1>2, <2>1 DEF TakeComponent, HealTypeOK, Recover
  <2>3. CASE Skip(a, c)
    BY <2>2, <2>3 DEF Skip, tracking, HealTypeOK, ActionsLeft
  <2>4. CASE BeginRecovery(a, c)
    <3>1. HealTypeOK'
      BY <1>0, <2>2, <2>4 DEF BeginRecovery, Wait, tracking, HealTypeOK
    <3>2. ActionsLeft'
      BY <1>0, <2>4 DEF BeginRecovery, Wait, HealTypeOK, ActionsLeft
    <3> QED
      BY <3>1, <3>2
  <2>5. CASE Escalate(a, c)
    <3>1. health' \in [Monitored -> Status]
      BY <2>2, <2>5 DEF Escalate, Effect, HealTypeOK, Status
    <3>2. HealTypeOK'
      BY <1>0, <2>2, <2>5, <3>1 DEF Escalate, Wait, HealTypeOK
    <3>3. ActionsLeft'
      BY <2>5 DEF Escalate, Wait, HealTypeOK, ActionsLeft
    <3> QED
      BY <3>2, <3>3
  <2> QED
    BY <2>1, <2>3, <2>4, <2>5
<1>3. ASSUME NEW a \in Healers, executed[a] < Actions, Act(a),
             UNCHANGED <<tracking, reported_ill, target, health_faults>>
      PROVE  HealTypeOK' /\ ActionsLeft'
  <2>1. HealTypeOK'
    BY <1>3, ActTyped DEF tracking, HealTypeOK
  <2>2. ActionsLeft'
    BY <1>3, ActTyped DEF ActionsLeft
  <2> QED
    BY <2>1, <2>2
<1>4. ASSUME NEW a \in Healers, NEW next \in {"after", "idle"}, Wait(a, next),
             health' \in [Monitored -> Status], cooling' \in [Monitored -> 0..Cooldown],
             attempts' \in [Monitored -> Nat],
             UNCHANGED <<reported_ill, target, executed, succeeded, health_faults>>
      PROVE  HealTypeOK' /\ ActionsLeft'
  <2>1. HealTypeOK'
    BY <1>4 DEF Wait, HealTypeOK
  <2>2. ActionsLeft'
    BY <1>4 DEF Wait, HealTypeOK, ActionsLeft
  <2> QED
    BY <2>1, <2>2
<1>5. ASSUME NEW a \in Healers, Before(a) PROVE HealTypeOK' /\ ActionsLeft'
  BY <1>3, <1>5 DEF Before, ActionsLeft
<1>6. ASSUME NEW a \in Healers, Settled(a) PROVE HealTypeOK' /\ ActionsLeft'
  <2>1. CASE health[target[a]] = "healthy" \/ Exhausted(executed[a])
    <3>1. /\ Wait(a, "after") /\ UNCHANGED <<health, executed, succeeded>>
          /\ UNCHANGED <<tracking, reported_ill, target, health_faults>>
      BY <1>6, <2>1 DEF Settled
    <3> QED
      BY <1>4, <3>1 DEF HealTypeOK, tracking
  <2>2. CASE ~(health[target[a]] = "healthy" \/ Exhausted(executed[a]))
    <3>1. executed[a] < Actions
      BY <1>0, <2>2 DEF HealTypeOK, Exhausted
    <3> QED
      BY <1>3, <1>6, <2>2, <3>1 DEF Settled
  <2> QED
    BY <2>1, <2>2
<1>7. ASSUME NEW a \in Healers, FinishRecovery(a) PROVE HealTypeOK' /\ ActionsLeft'
  <2>1. cooling' \in [Monitored -> 0..Cooldown] /\ attempts' \in [Monitored -> Nat]
    BY <1>0, <1>7 DEF FinishRecovery, HealTypeOK
  <2> QED
    BY <1>4, <1>7, <2>1 DEF FinishRecovery, HealTypeOK
<1>8. ASSUME NEW a \in Healers, FinishEscalation(a) PROVE HealTypeOK' /\ ActionsLeft'
  BY <1>4, <1>8 DEF FinishEscalation, HealTypeOK, tracking
<1>9. CASE Fault
  <2>1. health' \in [Monitored -> Status] /\ health_faults' \in 0..MaxFaults
    BY <1>0, <1>9 DEF Fault, HealTypeOK
  <2> QED
    BY <1>9, <2>1 DEF Fault, tracking, HealTypeOK, ActionsLeft
<1>10. CASE TimePasses
  <2>1. cooling' \in [Monitored -> 0..Cooldown]
    BY <1>0, <1>10 DEF TimePasses, HealTypeOK
  <2> QED
    BY <1>10, <2>1 DEF TimePasses, HealTypeOK, ActionsLeft
<1>11. CASE UNCHANGED healvars
  BY <1>11 DEF healvars, HealTypeOK, ActionsLeft
<1> QED
  BY <1>1, <1>2, <1>5, <1>6, <1>7, <1>8, <1>9, <1>10, <1>11
     DEF HealNext, MonitorStep, CallerStep, ContinueRecovery, Healers

\* A recovery executes no more actions than its strategy has, and whatever overlaps,
\* health, cooldowns and actors stay what the code knows.
THEOREM HealTypesHold == HealSpec => []HealTypeOK
BY HealTypesInit, HealTypesNext, PTL DEF HealSpec

-------------------------------------------------------------------------------
(* MailWorker: one thread, and letters that are sent again. *)

Envelope == Letters \X (0..MaxRetries)

\* Who has a letter in hand is at work on it.
MailTyped ==
    /\ queue \in Seq(Envelope)
    /\ hand \in [Threads -> {<<>>} \cup Envelope]
    /\ thread \in [Threads -> {"new", "loop", "send", "backoff", "dead"}]
    /\ mails \in [Letters -> Nat]
    /\ \A t \in Threads : hand[t] # <<>> <=> thread[t] \in {"send", "backoff"}

\* The thread at the queue is the one start_worker asks about.
OnlyTheWorker == \A t \in Threads : thread[t] \in {"loop", "send", "backoff"} => t = worker

\* A letter is in one place.
InOnePlace ==
    /\ \A i, j \in DOMAIN queue : queue[i][1] = queue[j][1] => i = j
    /\ \A t \in Threads : hand[t] # <<>> => \A i \in DOMAIN queue : queue[i][1] # hand[t][1]

\* Each attempt of a letter accounts for the mails of one send.
MailsAttempted ==
    /\ \A i \in DOMAIN queue : mails[queue[i][1]] <= queue[i][2] * Tries
    /\ \A t \in Threads : hand[t] # <<>> => mails[hand[t][1]] <= hand[t][2] * Tries

MailInv == MailTyped /\ OnlyTheWorker /\ InOnePlace /\ MailsAttempted /\ MailsBounded

\* One attempt more allows the tries of one send more.
LEMMA AttemptsAllow ==
    ASSUME NEW k \in 0..MaxRetries
    PROVE  /\ (k + 1) * Tries = k * Tries + Tries
           /\ k * Tries \in Nat /\ (MaxRetries + 1) * Tries \in Nat
           /\ (k + 1) * Tries <= (MaxRetries + 1) * Tries
<1>1. k \in Nat /\ Tries \in Nat /\ MaxRetries \in Nat /\ k <= MaxRetries
  BY MailAssumption
<1>2. \A a, b, c \in Nat : (a + b) * c = a * c + b * c /\ a * c \in Nat
  OBVIOUS
<1>3. (k + 1) * Tries = k * Tries + Tries
  BY <1>1
<1>4. PICK d \in Nat : MaxRetries = k + d
  <2>1. MaxRetries - k \in Nat /\ MaxRetries = k + (MaxRetries - k)
    BY <1>1
  <2> QED
    BY <2>1
<1>5. (MaxRetries + 1) * Tries = (k + 1) * Tries + d * Tries
  <2>1. MaxRetries + 1 = (k + 1) + d /\ k + 1 \in Nat
    BY <1>1, <1>4
  <2> QED
    BY <1>1, <1>2, <1>4, <2>1
<1>6. k * Tries \in Nat /\ d * Tries \in Nat /\ (k + 1) * Tries \in Nat /\ (MaxRetries + 1) * Tries \in Nat
  BY <1>1, <1>2, <1>4, k + 1 \in Nat, MaxRetries + 1 \in Nat
<1> QED
  BY <1>1, <1>3, <1>5, <1>6

LEMMA MailInvInit == MailInit => MailInv
<1> SUFFICES ASSUME MailInit PROVE MailInv
  OBVIOUS
<1>1. MailTyped /\ OnlyTheWorker /\ InOnePlace /\ MailsAttempted
  BY DEF MailInit, MailTyped, OnlyTheWorker, InOnePlace, MailsAttempted
<1>2. (MaxRetries + 1) * Tries \in Nat
  <2>1. 0 \in 0..MaxRetries
    BY MailAssumption
  <2> QED
    BY <2>1, AttemptsAllow
<1>3. MailsBounded
  BY <1>2 DEF MailInit, MailsBounded
<1> QED
  BY <1>1, <1>3 DEF MailInv

\* A step that hands on no letter.
LEMMA LettersStay ==
    ASSUME MailInv, UNCHANGED <<queue, hand, mails>>,
           thread' \in [Threads -> {"new", "loop", "send", "backoff", "dead"}],
           \A t \in Threads : thread'[t] \in {"send", "backoff"} <=> thread[t] \in {"send", "backoff"},
           OnlyTheWorker'
    PROVE  MailInv'
<1>1. MailTyped'
  BY DEF MailInv, MailTyped
<1>2. InOnePlace' /\ MailsAttempted' /\ MailsBounded'
  BY DEF MailInv, InOnePlace, MailsAttempted, MailsBounded
<1> QED
  BY <1>1, <1>2 DEF MailInv

\* Every step keeps them: a letter that is taken, or put back, is nowhere else.
LEMMA MailInvNext == MailInv /\ [MailNext]_mailvars => MailInv'
<1> SUFFICES ASSUME MailInv, [MailNext]_mailvars PROVE MailInv'
  OBVIOUS
<1>0. /\ MailTyped /\ OnlyTheWorker /\ InOnePlace /\ MailsAttempted /\ MailsBounded
      /\ MaxRetries \in Nat /\ Tries \in Nat
  BY MailAssumption DEF MailInv
<1>1. ASSUME NEW l \in Letters, EnqueueCampaign(l) PROVE MailInv'
  <2>1. /\ queue \in Seq(Envelope) /\ <<l, 0>> \in Envelope /\ queue' = Append(queue, <<l, 0>>)
        /\ UNCHANGED <<hand, thread, worker, mails>>
    BY <1>0, <1>1 DEF EnqueueCampaign, MailTyped, Envelope
  <2>2. /\ queue' \in Seq(Envelope) /\ DOMAIN queue' = 1..(Len(queue) + 1) /\ DOMAIN queue = 1..Len(queue)
        /\ \A i \in DOMAIN queue : queue'[i] = queue[i]
        /\ queue'[Len(queue) + 1] = <<l, 0>>
    BY <2>1
  <2>3. mails[l] = 0 /\ (\A i \in DOMAIN queue : queue[i][1] # l) /\ (\A t \in Threads : hand[t] # <<>> => hand[t][1] # l)
    BY <1>1, <2>2 DEF EnqueueCampaign, Written, Queued, InHand
  <2>4. MailTyped' /\ OnlyTheWorker' /\ MailsBounded'
    BY <1>0, <2>1, <2>2 DEF MailTyped, OnlyTheWorker, MailsBounded
  <2>5. \A i \in DOMAIN queue' : queue'[i] = <<l, 0>> \/ (i \in DOMAIN queue /\ queue'[i] = queue[i])
    BY <2>2
  <2>6. <<l, 0>>[1] = l /\ <<l, 0>>[2] = 0 /\ 0 * Tries = 0
    BY <1>0
  <2>7. InOnePlace'
    <3>1. ASSUME NEW i \in DOMAIN queue', NEW j \in DOMAIN queue', queue'[i][1] = queue'[j][1] PROVE i = j
      <4>1. CASE i \in DOMAIN queue /\ j \in DOMAIN queue
        BY <1>0, <2>2, <3>1, <4>1 DEF InOnePlace
      <4>2. CASE i \notin DOMAIN queue /\ j \notin DOMAIN queue
        BY <2>2, <4>2
      <4>3. CASE (i \in DOMAIN queue) # (j \in DOMAIN queue)
        BY <2>2, <2>3, <2>6, <3>1, <4>3
      <4> QED
        BY <4>1, <4>2, <4>3
    <3>2. \A t \in Threads : hand'[t] # <<>> => \A i \in DOMAIN queue' : queue'[i][1] # hand'[t][1]
      BY <1>0, <2>1, <2>3, <2>5, <2>6 DEF InOnePlace
    <3> QED
      BY <3>1, <3>2 DEF InOnePlace
  <2>8. MailsAttempted'
    <3>1. \A i \in DOMAIN queue' : mails'[queue'[i][1]] <= queue'[i][2] * Tries
      BY <1>0, <2>1, <2>3, <2>5, <2>6 DEF MailsAttempted
    <3> QED
      BY <1>0, <2>1, <3>1 DEF MailsAttempted
  <2> QED
    BY <2>4, <2>7, <2>8 DEF MailInv
<1>2. ASSUME NEW t \in Threads, StartWorker(t) PROVE MailInv'
  <2>1. thread' = [thread EXCEPT ![t] = "loop"] /\ worker' = t /\ UNCHANGED <<queue, hand, mails>>
    BY <1>2 DEF StartWorker, Thread
  <2>2. \A u \in Threads : thread[u] \notin {"loop", "send", "backoff"}
    BY <1>0, <1>2, MailAssumption DEF StartWorker, Alive, OnlyTheWorker
  <2>3. OnlyTheWorker'
    BY <1>0, <2>1, <2>2 DEF OnlyTheWorker, MailTyped
  <2>4. /\ thread' \in [Threads -> {"new", "loop", "send", "backoff", "dead"}]
        /\ \A u \in Threads : thread'[u] \in {"send", "backoff"} <=> thread[u] \in {"send", "backoff"}
    BY <1>0, <2>1, <2>2 DEF MailTyped
  <2> QED
    BY <2>1, <2>3, <2>4, LettersStay
<1>3. CASE StopWorker
  <2>1. UNCHANGED <<queue, hand, thread, worker, mails>>
    BY <1>3 DEF StopWorker
  <2> QED
    BY <1>0, <2>1, LettersStay DEF MailTyped, OnlyTheWorker
<1>4. ASSUME NEW t \in Threads, thread[t] = "loop", NEW next \in {"send", "dead"},
             thread' = [thread EXCEPT ![t] = next], UNCHANGED <<worker, mails>>
      PROVE  OnlyTheWorker' /\ MailsBounded'
  BY <1>0, <1>4 DEF OnlyTheWorker, MailsBounded, MailTyped
<1>5. ASSUME NEW t \in Threads, WorkerLoop(t) PROVE MailInv'
  <2>1. CASE thread' = [thread EXCEPT ![t] = "dead"] /\ UNCHANGED <<queue, hand>>
    <3>1. thread[t] = "loop" /\ UNCHANGED <<worker, mails>>
      BY <1>5 DEF WorkerLoop
    <3>2. /\ thread' \in [Threads -> {"new", "loop", "send", "backoff", "dead"}]
          /\ \A u \in Threads : thread'[u] \in {"send", "backoff"} <=> thread[u] \in {"send", "backoff"}
      BY <1>0, <2>1, <3>1 DEF MailTyped
    <3> QED
      BY <1>4, <2>1, <3>1, <3>2, LettersStay
  <2>2. CASE /\ queue # <<>> /\ hand' = [hand EXCEPT ![t] = Head(queue)]
             /\ queue' = Tail(queue) /\ thread' = [thread EXCEPT ![t] = "send"]
    <3>1. thread[t] = "loop" /\ UNCHANGED <<worker, mails>> /\ queue \in Seq(Envelope)
      BY <1>0, <1>5 DEF WorkerLoop, MailTyped
    <3>2. /\ queue' \in Seq(Envelope) /\ queue[1] \in Envelope /\ 1 \in DOMAIN queue /\ Head(queue) = queue[1]
          /\ \A i \in DOMAIN queue' : i + 1 \in DOMAIN queue /\ queue'[i] = queue[i + 1] /\ i \in Nat \ {0}
      BY <2>2, <3>1
    <3>3. queue[1] # <<>>
      <4>1. PICK m \in Letters, n \in 0..MaxRetries : queue[1] = <<m, n>>
        BY <3>2 DEF Envelope
      <4>2. <<m, n>> # <<>>
        OBVIOUS
      <4> QED
        BY <4>1, <4>2
    <3>4. \A u \in Threads : hand'[u] = IF u = t THEN queue[1] ELSE hand[u]
      BY <1>0, <2>2, <3>2 DEF MailTyped
    <3>5. \A u \in Threads \ {t} : hand[u] = <<>>
      BY <1>0, <3>1 DEF MailTyped, OnlyTheWorker
    <3>6. MailTyped'
      BY <1>0, <2>2, <3>1, <3>2, <3>3 DEF MailTyped
    <3>7. InOnePlace'
      <4>1. \A i, j \in DOMAIN queue' : queue'[i][1] = queue'[j][1] => i = j
        <5>1. ASSUME NEW i \in DOMAIN queue', NEW j \in DOMAIN queue', queue'[i][1] = queue'[j][1] PROVE i = j
          <6>1. i + 1 = j + 1
            BY <1>0, <3>2, <5>1 DEF InOnePlace
          <6> QED
            BY <3>2, <6>1
        <5> QED
          BY <5>1
      <4>2. \A i \in DOMAIN queue' : queue'[i][1] # queue[1][1]
        <5>1. ASSUME NEW i \in DOMAIN queue', queue'[i][1] = queue[1][1] PROVE FALSE
          <6>1. i + 1 = 1
            BY <1>0, <3>2, <5>1 DEF InOnePlace
          <6> QED
            BY <3>2, <6>1
        <5> QED
          BY <5>1
      <4> QED
        BY <3>4, <3>5, <4>1, <4>2 DEF InOnePlace
    <3>8. MailsAttempted'
      BY <1>0, <3>1, <3>2, <3>4, <3>5 DEF MailsAttempted
    <3> QED
      BY <1>4, <2>2, <3>1, <3>6, <3>7, <3>8 DEF MailInv
  <2> QED
    BY <1>5, <2>1, <2>2 DEF WorkerLoop, Thread
<1>6. ASSUME NEW t \in Threads, SendEmail(t) PROVE MailInv'
  <2> DEFINE l == hand[t][1]
             k == hand[t][2]
  <2>1. hand[t] \in Envelope /\ hand[t] = <<l, k>> /\ l \in Letters /\ k \in 0..MaxRetries /\ thread[t] = "send"
    BY <1>0, <1>6 DEF SendEmail, MailTyped, Envelope
  <2>2. /\ mails[l] <= k * Tries /\ mails[l] \in Nat
        /\ \A i \in DOMAIN queue : queue[i][1] # l
        /\ \A u \in Threads \ {t} : hand[u] = <<>>
    BY <1>0, <2>1 DEF MailsAttempted, MailTyped, OnlyTheWorker, InOnePlace
  <2>3. PICK delivered \in 0..Tries :
          /\ mails' = [mails EXCEPT ![l] = @ + delivered]
          /\ \/ hand' = [hand EXCEPT ![t] = <<>>] /\ thread' = [thread EXCEPT ![t] = "loop"]
             \/ /\ k < MaxRetries /\ hand' = [hand EXCEPT ![t] = <<l, k + 1>>]
                /\ thread' = [thread EXCEPT ![t] = "backoff"]
    <3>1. Deliveries \subseteq 0..Tries
      BY <1>0 DEF Deliveries
    <3> QED
      BY <1>6, <3>1 DEF SendEmail, Thread, MayRetryMail
  <2>4. UNCHANGED <<queue, worker>>
    BY <1>6 DEF SendEmail
  <2>5. /\ mails' \in [Letters -> Nat] /\ mails'[l] = mails[l] + delivered
        /\ \A m \in Letters \ {l} : mails'[m] = mails[m]
    BY <1>0, <2>1, <2>2, <2>3 DEF MailTyped
  <2>6. mails'[l] <= (k + 1) * Tries /\ mails'[l] <= (MaxRetries + 1) * Tries
    <3>1. mails'[l] \in Nat /\ (k + 1) * Tries \in Nat /\ mails'[l] <= k * Tries + Tries
      BY <1>0, <2>1, <2>2, <2>3, <2>5, AttemptsAllow, SMTT(60)
    <3> QED
      BY <1>0, <2>1, <3>1, AttemptsAllow
  <2>7. MailsBounded'
    BY <1>0, <2>5, <2>6 DEF MailsBounded
  <2>8. OnlyTheWorker'
    BY <1>0, <2>1, <2>3, <2>4 DEF OnlyTheWorker, MailTyped
  <2>9. \A i \in DOMAIN queue : mails'[queue[i][1]] <= queue[i][2] * Tries
    <3>1. \A i \in DOMAIN queue : queue[i][1] \in Letters \ {l}
      BY <1>0, <2>2 DEF MailTyped, Envelope
    <3> QED
      BY <1>0, <2>5, <3>1 DEF MailsAttempted
  <2> HIDE DEF l, k
  <2>10. CASE hand' = [hand EXCEPT ![t] = <<>>] /\ thread' = [thread EXCEPT ![t] = "loop"]
    <3>1. MailTyped'
      BY <1>0, <2>4, <2>5, <2>10 DEF MailTyped
    <3>2. \A u \in Threads : hand'[u] = <<>>
      BY <1>0, <2>2, <2>10 DEF MailTyped
    <3>3. InOnePlace' /\ MailsAttempted'
      BY <1>0, <2>4, <2>9, <3>2 DEF InOnePlace, MailsAttempted
    <3> QED
      BY <2>7, <2>8, <3>1, <3>3 DEF MailInv
  <2>11. CASE /\ k < MaxRetries /\ hand' = [hand EXCEPT ![t] = <<l, k + 1>>]
              /\ thread' = [thread EXCEPT ![t] = "backoff"]
    <3>0. <<l, k + 1>> \in Envelope /\ <<l, k + 1>> # <<>> /\ <<l, k + 1>>[1] = l /\ <<l, k + 1>>[2] = k + 1
      BY <1>0, <2>1, <2>11 DEF Envelope
    <3>1. MailTyped'
      BY <1>0, <2>4, <2>5, <2>11, <3>0 DEF MailTyped
    <3>2. \A u \in Threads : hand'[u] = IF u = t THEN <<l, k + 1>> ELSE <<>>
      BY <1>0, <2>2, <2>11 DEF MailTyped
    <3>3. InOnePlace'
      BY <1>0, <2>2, <2>4, <3>0, <3>2 DEF InOnePlace
    <3>4. MailsAttempted'
      BY <2>4, <2>6, <2>9, <3>0, <3>2 DEF MailsAttempted
    <3> QED
      BY <2>7, <2>8, <3>1, <3>3, <3>4 DEF MailInv
  <2> QED
    BY <2>3, <2>10, <2>11
<1>7. ASSUME NEW t \in Threads, Requeue(t) PROVE MailInv'
  <2>1. /\ thread[t] = "backoff" /\ UNCHANGED <<worker, mails>>
        /\ hand' = [hand EXCEPT ![t] = <<>>] /\ thread' = [thread EXCEPT ![t] = "loop"]
    BY <1>7 DEF Requeue, Thread
  <2>2. hand[t] \in Envelope /\ hand[t] # <<>> /\ queue \in Seq(Envelope)
    BY <1>0, <2>1 DEF MailTyped
  <2>3. \A u \in Threads : hand'[u] = <<>>
    BY <1>0, <2>1 DEF MailTyped, OnlyTheWorker
  <2>4. OnlyTheWorker' /\ MailsBounded'
    BY <1>0, <2>1 DEF MailTyped, OnlyTheWorker, MailsBounded
  <2>5. ASSUME queue' \in Seq(Envelope) PROVE MailTyped'
    BY <1>0, <2>1, <2>5 DEF MailTyped
  <2>6. CASE UNCHANGED queue
    <3>1. InOnePlace' /\ MailsAttempted'
      BY <1>0, <2>1, <2>3, <2>6 DEF InOnePlace, MailsAttempted
    <3> QED
      BY <2>2, <2>4, <2>5, <2>6, <3>1 DEF MailInv
  <2>7. CASE queue' = Append(queue, hand[t])
    <3>1. /\ queue' \in Seq(Envelope) /\ DOMAIN queue' = 1..(Len(queue) + 1) /\ DOMAIN queue = 1..Len(queue)
          /\ \A i \in DOMAIN queue : queue'[i] = queue[i]
          /\ queue'[Len(queue) + 1] = hand[t]
      BY <2>2, <2>7
    <3>2. /\ \A i \in DOMAIN queue : queue[i][1] # hand[t][1]
          /\ mails[hand[t][1]] <= hand[t][2] * Tries
      BY <1>0, <2>2 DEF InOnePlace, MailsAttempted
    <3>3. ASSUME NEW i \in DOMAIN queue', NEW j \in DOMAIN queue', queue'[i][1] = queue'[j][1] PROVE i = j
      <4>1. CASE i \in DOMAIN queue /\ j \in DOMAIN queue
        BY <1>0, <3>1, <3>3, <4>1 DEF InOnePlace
      <4>2. CASE i \notin DOMAIN queue /\ j \notin DOMAIN queue
        BY <3>1, <4>2
      <4>3. CASE (i \in DOMAIN queue) # (j \in DOMAIN queue)
        BY <3>1, <3>2, <3>3, <4>3
      <4> QED
        BY <4>1, <4>2, <4>3
    <3>4. InOnePlace'
      BY <2>3, <3>3 DEF InOnePlace
    <3>5. MailsAttempted'
      <4>1. ASSUME NEW i \in DOMAIN queue' PROVE mails'[queue'[i][1]] <= queue'[i][2] * Tries
        <5>1. CASE i \in DOMAIN queue
          BY <1>0, <2>1, <3>1, <5>1 DEF MailsAttempted
        <5>2. CASE i = Len(queue) + 1
          BY <2>1, <3>1, <3>2, <5>2
        <5> QED
          BY <3>1, <5>1, <5>2
      <4> QED
        BY <2>3, <4>1 DEF MailsAttempted
    <3> QED
      BY <2>4, <2>5, <3>1, <3>4, <3>5 DEF MailInv
  <2> QED
    BY <1>7, <2>6, <2>7 DEF Requeue
<1>8. CASE MailCrash
  <2>1. /\ hand' = [t \in Threads |-> <<>>] /\ UNCHANGED mails
        /\ thread' = [t \in Threads |-> IF thread[t] = "new" THEN "new" ELSE "dead"]
        /\ queue' = queue \/ queue' = <<>>
    BY <1>8 DEF MailCrash
  <2>2. queue' \in Seq(Envelope) /\ DOMAIN queue' \subseteq DOMAIN queue
        /\ \A i \in DOMAIN queue' : queue'[i] = queue[i]
    <3>1. <<>> \in Seq(Envelope) /\ DOMAIN <<>> = {} /\ queue \in Seq(Envelope)
      BY <1>0 DEF MailTyped
    <3>2. CASE queue' = queue
      BY <3>1, <3>2
    <3>3. CASE queue' = <<>>
      BY <3>1, <3>3
    <3> QED
      BY <2>1, <3>2, <3>3
  <2>3. \A t \in Threads : hand'[t] = <<>> /\ thread'[t] \in {"new", "dead"}
    BY <2>1
  <2>4. MailTyped'
    BY <1>0, <2>1, <2>2, <2>3 DEF MailTyped
  <2>5. OnlyTheWorker' /\ MailsBounded'
    BY <1>0, <2>1, <2>3 DEF OnlyTheWorker, MailsBounded
  <2>6. InOnePlace' /\ MailsAttempted'
    BY <1>0, <2>1, <2>2, <2>3 DEF InOnePlace, MailsAttempted
  <2> QED
    BY <2>4, <2>5, <2>6 DEF MailInv
<1>9. CASE UNCHANGED mailvars
  BY <1>0, <1>9, LettersStay DEF mailvars, MailTyped, OnlyTheWorker
<1> QED
  BY <1>1, <1>2, <1>3, <1>5, <1>6, <1>7, <1>8, <1>9 DEF MailNext, MailStep

\* One thread at the queue is at most one.
LEMMA MailInvHolds == MailInv => OneWorker /\ MailsBounded
<1> SUFFICES ASSUME MailInv PROVE OneWorker
  BY DEF MailInv
<1>1. Running \subseteq {worker}
  BY DEF MailInv, OnlyTheWorker, Running
<1>2. IsFiniteSet({worker}) /\ Cardinality({worker}) = 1
  BY FS_Singleton
<1>3. Cardinality(Running) \in Nat /\ Cardinality(Running) <= 1
  BY <1>1, <1>2, FS_Subset, FS_CardinalityType
<1> QED
  BY <1>3 DEF OneWorker

-------------------------------------------------------------------------------
(* Prospects: crawls, and searches that look for a lead before they write one. *)

OwnPages == {p \in Pages : HostOf[p] = HostOf[FirstPage]}

\* The links queued of a page lead to pages of the host.
LEMMA InternalLinksOwn ==
    ASSUME NEW page \in Pages, NEW seen
    PROVE  /\ DOMAIN InternalLinks(page, seen) = 0..Len(Links[page])
           /\ \A n \in 0..Len(Links[page]) : InternalLinks(page, seen)[n] \in Seq(OwnPages)
<1> DEFINE links == Links[page]
           Longer(g, n) == IF n = 0 THEN <<>>
                         ELSE IF HostOf[links[n]] = HostOf[FirstPage] /\ links[n] \notin seen
                              THEN Append(g[n - 1], links[n])
                              ELSE g[n - 1]
           Defined == {m \in Nat : \E g : g = [n \in 0..m |-> Longer(g, n)]}
           kept == InternalLinks(page, seen)
<1>0. links \in Seq(Pages) /\ Len(links) \in Nat
  BY ProspectsAssumption
<1>1. 0 \in Defined
  <2>1. [n \in 0..0 |-> <<>>] = [n \in 0..0 |-> Longer([i \in 0..0 |-> <<>>], n)]
    OBVIOUS
  <2> QED
    BY <2>1
<1> HIDE DEF Longer
<1>2. ASSUME NEW m \in Nat, m \in Defined PROVE m + 1 \in Defined
  <2>1. PICK g : g = [n \in 0..m |-> Longer(g, n)]
    BY <1>2
  <2> DEFINE h == [n \in 0..(m + 1) |-> IF n <= m THEN g[n] ELSE Longer(g, n)]
  <2>2. \A n \in 0..(m + 1) : h[n] = Longer(h, n)
    <3>1. ASSUME NEW n \in 0..(m + 1) PROVE h[n] = Longer(h, n)
      <4>1. n # 0 => n - 1 \in 0..m /\ h[n - 1] = g[n - 1]
        BY <3>1
      <4>2. \A k \in 0..m : g[k] = Longer(g, k)
        BY <2>1
      <4>3. h[n] = Longer(g, n)
        BY <3>1, <4>2
      <4> QED
        BY <4>1, <4>3 DEF Longer
    <3> QED
      BY <3>1
  <2>3. h = [n \in 0..(m + 1) |-> Longer(h, n)]
    BY <2>2
  <2> HIDE DEF h
  <2> QED
    BY <2>3
<1>3. Len(links) \in Defined
  BY <1>0, <1>1, <1>2, NaturalsReached
<1>4. kept = CHOOSE g : g = [n \in 0..Len(links) |-> Longer(g, n)]
  BY DEF InternalLinks, Longer
<1>5. kept = [n \in 0..Len(links) |-> Longer(kept, n)]
  BY <1>3, <1>4
<1>6. \A n \in 0..Len(links) : kept[n] = Longer(kept, n)
  BY <1>5
<1> DEFINE Reached == {m \in Nat : m <= Len(links) => kept[m] \in Seq(OwnPages)}
<1> HIDE DEF kept
<1>7. 0 \in Reached
  <2>1. kept[0] = <<>>
    BY <1>0, <1>6 DEF Longer
  <2>2. <<>> \in Seq(OwnPages)
    OBVIOUS
  <2> QED
    BY <2>1, <2>2
<1>8. ASSUME NEW m \in Nat, m \in Reached PROVE m + 1 \in Reached
  <2>1. SUFFICES ASSUME m + 1 <= Len(links) PROVE kept[m + 1] \in Seq(OwnPages)
    OBVIOUS
  <2>2. kept[m] \in Seq(OwnPages) /\ links[m + 1] \in Pages
    BY <1>0, <1>8, <2>1
  <2>3. kept[m + 1] = Longer(kept, m + 1) /\ m + 1 # 0 /\ (m + 1) - 1 = m
    BY <1>0, <1>6, <2>1
  <2> QED
    BY <2>2, <2>3 DEF OwnPages, Longer
<1>9. \A n \in 0..Len(links) : kept[n] \in Seq(OwnPages)
  <2>1. Nat \subseteq Reached
    BY <1>7, <1>8, NaturalsReached
  <2> QED
    BY <1>0, <2>1
<1> QED
  BY <1>5, <1>9 DEF kept

RunPlaces == {"none", "crawl", "query", "insert", "update", "publish", "done"}
Run == [at : RunPlaces, visited : Seq(OwnPages), queue : Seq(OwnPages), pages : 0..MaxPages,
        email : Emails \cup {NoEmail}]

\* Pages that are read or wait are pages of the host, and none was read twice.
CrawlInv == run \in [Searches -> Run] /\ \A r \in Searches : IsInjective(run[r].visited)

HasLead(r) == \E l \in leads : l.email = run[r].email

\* What a run knows and has written; and of two that have looked for an address, and
\* not written yet, each knows of the other.
LeadInv ==
    /\ \A l \in leads : l.by \in Searches =>
          /\ l = [by |-> l.by, email |-> run[l.by].email, review |-> run[l.by].email = NoEmail]
          /\ run[l.by].at \in {"publish", "done"}
    /\ \A r, q \in Searches :
          r # q /\ run[r].at = "insert" /\ run[q].at = "insert" => {r, q} \in overlap
    /\ \A r \in Searches, l \in leads :
          run[r].at = "insert" /\ run[r].email # NoEmail /\ l.by \in Searches /\ l.email = run[r].email
             => {r, l.by} \in overlap
    /\ \A r \in Searches : run[r].at \in {"update", "publish"} => HasLead(r)
    /\ \A r \in announced : r \in Searches /\ run[r].at = "done" /\ HasLead(r)

LEMMA ProspectInvInit == ProspectInit => CrawlInv /\ LeadInv /\ OneLeadPerAddress
<1> SUFFICES ASSUME ProspectInit PROVE CrawlInv /\ LeadInv /\ OneLeadPerAddress
  OBVIOUS
<1>1. CrawlInv
  <2>1. <<>> \in Seq(OwnPages) /\ 0 \in 0..MaxPages /\ IsInjective(<<>>)
    BY ProspectsAssumption DEF IsInjective
  <2> QED
    BY <2>1 DEF ProspectInit, CrawlInv, Run, RunPlaces
<1>2. LeadInv /\ OneLeadPerAddress
  BY DEF ProspectInit, LeadInv, OneLeadPerAddress
<1> QED
  BY <1>1, <1>2

\* A crawl goes on among the pages of its host.
LEMMA CrawlNext ==
    ASSUME CrawlInv, NEW r \in Searches, CrawlProspect(r)
    PROVE  CrawlInv'
<1>0. /\ run[r] \in Run /\ run[r].queue \in Seq(OwnPages) /\ run[r].visited \in Seq(OwnPages)
      /\ run[r].pages \in 0..MaxPages /\ IsInjective(run[r].visited) /\ MaxPages \in Nat
  BY ProspectsAssumption DEF CrawlInv, Run
<1>1. run[r].queue # <<>> /\ run[r].pages < MaxPages
  BY DEF CrawlProspect
<1> DEFINE page == Head(run[r].queue)
           rest == Tail(run[r].queue)
           seen == Append(run[r].visited, page)
           internal == InternalLinks(page, ToSet(seen))
<1>2. page \in OwnPages /\ rest \in Seq(OwnPages) /\ seen \in Seq(OwnPages)
  BY <1>0, <1>1
<1>3. \A n \in DOMAIN internal : internal[n] \in Seq(OwnPages)
  BY <1>2, InternalLinksOwn DEF OwnPages
<1>4. page \notin ToSet(run[r].visited) => IsInjective(seen)
  <2>1. SUFFICES ASSUME page \notin ToSet(run[r].visited),
                        NEW i \in DOMAIN seen, NEW j \in DOMAIN seen, seen[i] = seen[j]
                 PROVE  i = j
    BY DEF IsInjective
  <2>2. /\ DOMAIN run[r].visited = 1..Len(run[r].visited) /\ DOMAIN seen = 1..(Len(run[r].visited) + 1)
        /\ \A k \in DOMAIN run[r].visited : seen[k] = run[r].visited[k] /\ seen[k] # page
        /\ seen[Len(run[r].visited) + 1] = page
    BY <1>0, <1>2, <2>1, SMTT(60) DEF ToSet
  <2>3. \A k, m \in DOMAIN run[r].visited : run[r].visited[k] = run[r].visited[m] => k = m
    BY <1>0 DEF IsInjective
  <2>4. CASE i \in DOMAIN run[r].visited /\ j \in DOMAIN run[r].visited
    BY <2>1, <2>2, <2>3, <2>4
  <2>5. CASE ~(i \in DOMAIN run[r].visited /\ j \in DOMAIN run[r].visited)
    BY <2>1, <2>2, <2>5
  <2> QED
    BY <2>4, <2>5
<1>5. \/ run' = [run EXCEPT ![r].queue = rest]
      \/ /\ page \notin ToSet(run[r].visited)
         /\ \/ \E n \in DOMAIN internal :
                 run' = [run EXCEPT ![r].queue = rest \o internal[n], ![r].visited = seen, ![r].pages = @ + 1]
            \/ run' = [run EXCEPT ![r].queue = rest, ![r].visited = seen]
  BY DEF CrawlProspect
<1> HIDE DEF page, rest, seen, internal
<1>6. \A n \in DOMAIN internal : rest \o internal[n] \in Seq(OwnPages)
  BY <1>2, <1>3
<1>7. ASSUME NEW q \in Seq(OwnPages), NEW v \in Seq(OwnPages), NEW p \in 0..MaxPages, IsInjective(v),
             run' = [run EXCEPT ![r] = [run[r] EXCEPT !.queue = q, !.visited = v, !.pages = p]]
      PROVE  CrawlInv'
  <2>1. [run[r] EXCEPT !.queue = q, !.visited = v, !.pages = p] \in Run
    BY <1>0, <1>7 DEF Run
  <2>2. [run[r] EXCEPT !.queue = q, !.visited = v, !.pages = p].visited = v
    BY <1>0 DEF Run
  <2>3. run' \in [Searches -> Run]
    BY <1>7, <2>1 DEF CrawlInv
  <2>4. \A s \in Searches : IsInjective(run'[s].visited)
    BY <1>7, <2>2 DEF CrawlInv
  <2> QED
    BY <2>3, <2>4 DEF CrawlInv
<1>8. CASE run' = [run EXCEPT ![r].queue = rest]
  <2>1. run' = [run EXCEPT ![r] = [run[r] EXCEPT !.queue = rest, !.visited = run[r].visited, !.pages = run[r].pages]]
    BY <1>0, <1>8 DEF CrawlInv, Run
  <2> QED
    BY <1>0, <1>2, <1>7, <2>1
<1>9. ASSUME NEW n \in DOMAIN internal, page \notin ToSet(run[r].visited),
             run' = [run EXCEPT ![r].queue = rest \o internal[n], ![r].visited = seen, ![r].pages = @ + 1]
      PROVE  CrawlInv'
  <2>1. run' = [run EXCEPT ![r] = [run[r] EXCEPT !.queue = rest \o internal[n], !.visited = seen, !.pages = run[r].pages + 1]]
    BY <1>0, <1>9 DEF CrawlInv, Run
  <2>2. run[r].pages + 1 \in 0..MaxPages
    BY <1>0, <1>1
  <2> QED
    BY <1>2, <1>4, <1>6, <1>7, <1>9, <2>1, <2>2
<1>10. CASE page \notin ToSet(run[r].visited) /\ run' = [run EXCEPT ![r].queue = rest, ![r].visited = seen]
  <2>1. run' = [run EXCEPT ![r] = [run[r] EXCEPT !.queue = rest, !.visited = seen, !.pages = run[r].pages]]
    BY <1>0, <1>10 DEF CrawlInv, Run
  <2> QED
    BY <1>0, <1>2, <1>4, <1>7, <1>10, <2>1
<1> QED
  BY <1>5, <1>8, <1>9, <1>10

\* One run moves, and writes no lead nor is about to.
LEMMA LeadsStay ==
    ASSUME LeadInv, OneLeadPerAddress, NEW r \in Searches, UNCHANGED <<leads, overlap>>,
           \A q \in Searches \ {r} : run'[q].at = run[q].at /\ run'[q].email = run[q].email,
           run'[r].email = run[r].email \/ run[r].at = "crawl",
           run'[r].at \notin {"insert", "update", "publish"},
           run[r].at \in {"publish", "done"} => run'[r].at = "done",
           announced' = announced \/ (run[r].at = "publish" /\ announced' = announced \cup {r})
    PROVE  LeadInv' /\ OneLeadPerAddress'
<1>1. \A l \in leads : l.by \in Searches =>
          /\ l = [by |-> l.by, email |-> run'[l.by].email, review |-> run'[l.by].email = NoEmail]
          /\ run'[l.by].at \in {"publish", "done"}
  BY DEF LeadInv
<1>2. \A q \in Searches : run'[q].at \in {"update", "publish"} => \E l \in leads : l.email = run'[q].email
  BY DEF LeadInv, HasLead
<1>3. \A q \in announced' : /\ q \in Searches /\ run'[q].at = "done"
                            /\ \E l \in leads : l.email = run'[q].email
  BY DEF LeadInv, HasLead
<1>4. LeadInv'
  BY <1>1, <1>2, <1>3 DEF LeadInv, HasLead
<1>5. OneLeadPerAddress'
  BY <1>3 DEF OneLeadPerAddress
<1> QED
  BY <1>4, <1>5

\* A run whose place, address and queue are set, and what becomes of it.
RunGetsTo(r, place, e, q) ==
    run' = [run EXCEPT ![r] = [run[r] EXCEPT !.at = place, !.email = e, !.queue = q]]

LEMMA RunSet ==
    ASSUME CrawlInv, NEW r \in Searches, NEW place \in RunPlaces, NEW e \in Emails \cup {NoEmail},
           NEW q \in Seq(OwnPages),
           RunGetsTo(r, place, e, q)
    PROVE  /\ CrawlInv'
           /\ \A s \in Searches \ {r} : run'[s] = run[s]
           /\ run'[r].at = place /\ run'[r].email = e
<1>1. run[r] \in Run
  BY DEF CrawlInv
<1>2. /\ [run[r] EXCEPT !.at = place, !.email = e, !.queue = q] \in Run
      /\ [run[r] EXCEPT !.at = place, !.email = e, !.queue = q].visited = run[r].visited
      /\ [run[r] EXCEPT !.at = place, !.email = e, !.queue = q].at = place
      /\ [run[r] EXCEPT !.at = place, !.email = e, !.queue = q].email = e
  BY <1>1 DEF Run
<1>3. run' \in [Searches -> Run] /\ run'[r].visited = run[r].visited /\ \A s \in Searches \ {r} : run'[s] = run[s]
  BY <1>2 DEF CrawlInv, RunGetsTo
<1>4. \A s \in Searches : IsInjective(run'[s].visited)
  BY <1>3 DEF CrawlInv
<1> QED
  BY <1>2, <1>3, <1>4 DEF CrawlInv, RunGetsTo

\* Its place alone, its place and queue, or all three.
LEMMA RunMoves ==
    ASSUME CrawlInv, NEW r \in Searches, NEW place \in RunPlaces, run' = [run EXCEPT ![r].at = place]
    PROVE  /\ CrawlInv'
           /\ \A s \in Searches \ {r} : run'[s] = run[s]
           /\ run'[r].at = place /\ run'[r].email = run[r].email
<1>1. run[r] \in Run /\ run[r].email \in Emails \cup {NoEmail} /\ run[r].queue \in Seq(OwnPages)
  BY DEF CrawlInv, Run
<1>2. RunGetsTo(r, place, run[r].email, run[r].queue)
  BY <1>1 DEF CrawlInv, Run, RunGetsTo
<1> QED
  BY <1>1, <1>2, RunSet

LEMMA RunQueues ==
    ASSUME CrawlInv, NEW r \in Searches, NEW place \in RunPlaces, NEW q \in Seq(OwnPages),
           run' = [run EXCEPT ![r].at = place, ![r].queue = q]
    PROVE  /\ CrawlInv'
           /\ \A s \in Searches \ {r} : run'[s] = run[s]
           /\ run'[r].at = place /\ run'[r].email = run[r].email
<1>1. run[r] \in Run /\ run[r].email \in Emails \cup {NoEmail}
  BY DEF CrawlInv, Run
<1>2. RunGetsTo(r, place, run[r].email, q)
  BY <1>1 DEF CrawlInv, Run, RunGetsTo
<1> QED
  BY <1>1, <1>2, RunSet

LEMMA RunExtracts ==
    ASSUME CrawlInv, NEW r \in Searches, NEW place \in RunPlaces, NEW e \in Emails \cup {NoEmail},
           NEW q \in Seq(OwnPages),
           run' = [run EXCEPT ![r].at = place, ![r].email = e, ![r].queue = q]
    PROVE  /\ CrawlInv'
           /\ \A s \in Searches \ {r} : run'[s] = run[s]
           /\ run'[r].at = place /\ run'[r].email = e
<1>1. run[r] \in Run
  BY DEF CrawlInv
<1>2. RunGetsTo(r, place, e, q)
  BY <1>1 DEF CrawlInv, Run, RunGetsTo
<1> QED
  BY <1>1, <1>2, RunSet

\* A page that is read changes neither place nor address.
LEMMA CrawlLeaves ==
    ASSUME CrawlInv, NEW r \in Searches, CrawlProspect(r)
    PROVE  /\ run[r].at = "crawl" /\ UNCHANGED <<leads, announced, overlap>>
           /\ \A s \in Searches \ {r} : run'[s] = run[s]
           /\ run'[r].at = run[r].at /\ run'[r].email = run[r].email
<1>1. run \in [Searches -> Run] /\ run[r] \in Run
  BY DEF CrawlInv
<1>2. ASSUME NEW q, run' = [run EXCEPT ![r].queue = q]
      PROVE  (\A s \in Searches \ {r} : run'[s] = run[s]) /\ run'[r].at = run[r].at /\ run'[r].email = run[r].email
  BY <1>1, <1>2 DEF Run
<1>3. ASSUME NEW q, NEW v, run' = [run EXCEPT ![r].queue = q, ![r].visited = v]
      PROVE  (\A s \in Searches \ {r} : run'[s] = run[s]) /\ run'[r].at = run[r].at /\ run'[r].email = run[r].email
  BY <1>1, <1>3 DEF Run
<1>4. ASSUME NEW q, NEW v, run' = [run EXCEPT ![r].queue = q, ![r].visited = v, ![r].pages = @ + 1]
      PROVE  (\A s \in Searches \ {r} : run'[s] = run[s]) /\ run'[r].at = run[r].at /\ run'[r].email = run[r].email
  BY <1>1, <1>4 DEF Run
<1> DEFINE page == Head(run[r].queue)
           rest == Tail(run[r].queue)
           seen == Append(run[r].visited, page)
           internal == InternalLinks(page, ToSet(seen))
<1>5. \/ run' = [run EXCEPT ![r].queue = rest]
      \/ \E n \in DOMAIN internal :
           run' = [run EXCEPT ![r].queue = rest \o internal[n], ![r].visited = seen, ![r].pages = @ + 1]
      \/ run' = [run EXCEPT ![r].queue = rest, ![r].visited = seen]
  BY Zenon DEF CrawlProspect
<1>6. run[r].at = "crawl" /\ UNCHANGED <<leads, announced, cycled, overlap>>
  BY Zenon DEF CrawlProspect
<1> HIDE DEF page, rest, seen, internal
<1>7. (\A s \in Searches \ {r} : run'[s] = run[s]) /\ run'[r].at = run[r].at /\ run'[r].email = run[r].email
  BY Zenon, <1>2, <1>3, <1>4, <1>5
<1> QED
  BY <1>6, <1>7

\* The other steps, and the cycles, whose leads are no run's.
LEMMA ProspectInvNext ==
    CrawlInv /\ LeadInv /\ OneLeadPerAddress /\ [ProspectNext]_prospectvars
      => CrawlInv' /\ LeadInv' /\ OneLeadPerAddress'
<1> SUFFICES ASSUME CrawlInv, LeadInv, OneLeadPerAddress, [ProspectNext]_prospectvars
             PROVE  CrawlInv' /\ LeadInv' /\ OneLeadPerAddress'
  OBVIOUS
<1>0. \A place \in {"crawl", "query", "insert", "update", "publish", "done"} : place \in RunPlaces
  BY DEF RunPlaces
<1>4. <<FirstPage>> \in Seq(OwnPages) /\ <<>> \in Seq(OwnPages)
  BY ProspectsAssumption DEF OwnPages
<1>5. ASSUME NEW r \in Searches, RunEnrichment(r) PROVE CrawlInv' /\ LeadInv' /\ OneLeadPerAddress'
  <2>1. run[r].at = "none" /\ UNCHANGED <<leads, announced, overlap>>
    BY <1>5 DEF RunEnrichment
  <2>2. CASE run' = [run EXCEPT ![r].at = "crawl", ![r].queue = <<FirstPage>>]
    <3>1. CrawlInv' /\ (\A s \in Searches \ {r} : run'[s] = run[s]) /\ run'[r].at = "crawl" /\ run'[r].email = run[r].email
      BY <1>0, <1>4, <2>2, RunQueues
    <3> QED
      BY <2>1, <3>1, LeadsStay
  <2>3. CASE run' = [run EXCEPT ![r].at = "done"]
    <3>1. CrawlInv' /\ (\A s \in Searches \ {r} : run'[s] = run[s]) /\ run'[r].at = "done" /\ run'[r].email = run[r].email
      BY <1>0, <2>3, RunMoves
    <3> QED
      BY <2>1, <3>1, LeadsStay
  <2> QED
    BY <1>5, <2>2, <2>3 DEF RunEnrichment
<1>6. ASSUME NEW r \in Searches, CrawlProspect(r) PROVE CrawlInv' /\ LeadInv' /\ OneLeadPerAddress'
  BY <1>6, CrawlNext, CrawlLeaves, LeadsStay
<1>7. ASSUME NEW r \in Searches, ExtractEntities(r) PROVE CrawlInv' /\ LeadInv' /\ OneLeadPerAddress'
  <2>1. run[r].at = "crawl" /\ UNCHANGED <<leads, announced, overlap>>
    <3>1. run[r].at = "crawl" /\ UNCHANGED <<leads, announced, cycled, overlap>>
      BY Zenon, <1>7 DEF ExtractEntities
    <3> QED
      BY <3>1
  <2>2. ASSUME NEW e \in Emails \cup {NoEmail},
               run' = [run EXCEPT ![r].at = "query", ![r].email = e, ![r].queue = <<>>]
        PROVE  CrawlInv' /\ LeadInv' /\ OneLeadPerAddress'
    <3>1. CrawlInv' /\ (\A s \in Searches \ {r} : run'[s] = run[s]) /\ run'[r].at = "query"
      <4>1. "query" \in RunPlaces
        BY <1>0
      <4> QED
        BY Zenon, <1>4, <2>2, <4>1, RunExtracts
    <3> QED
      BY <2>1, <3>1, LeadsStay
  <2>3. CASE run' = [run EXCEPT ![r].at = "done", ![r].queue = <<>>]
    <3>1. CrawlInv' /\ (\A s \in Searches \ {r} : run'[s] = run[s]) /\ run'[r].at = "done"
      BY <1>0, <1>4, <2>3, RunQueues
    <3> QED
      BY <2>1, <3>1, LeadsStay
  <2> QED
    BY Zenon, <1>7, <2>2, <2>3 DEF ExtractEntities
<1>8. ASSUME NEW r \in Searches, QueryLead(r) PROVE CrawlInv' /\ LeadInv' /\ OneLeadPerAddress'
  <2> DEFINE place == IF run[r].email # NoEmail /\ HasLead(r) THEN "update" ELSE "insert"
  <2>1. /\ run[r].at = "query" /\ run' = [run EXCEPT ![r].at = place] /\ place \in {"update", "insert"}
        /\ overlap' = overlap \cup {{r, s} : s \in {s \in Searches : run[s].at = "insert"}}
        /\ UNCHANGED <<leads, announced>>
    BY <1>8 DEF QueryLead, HasLead
  <2>2. place = "update" => HasLead(r)
    OBVIOUS
  <2>3. place = "insert" => run[r].email = NoEmail \/ ~HasLead(r)
    OBVIOUS
  <2> HIDE DEF place
  <2>4. /\ CrawlInv' /\ run'[r].at = place /\ run'[r].email = run[r].email
        /\ \A s \in Searches \ {r} : run'[s] = run[s]
    BY <1>0, <2>1, RunMoves
  <2>5. overlap \subseteq overlap' /\ \A s \in Searches : run[s].at = "insert" => {r, s} \in overlap' /\ {s, r} \in overlap'
    <3>1. \A s : {s, r} = {r, s}
      OBVIOUS
    <3> QED
      BY <2>1, <3>1
  <2>6. \A q \in Searches : HasLead(q)' <=> HasLead(q)
    BY <2>1, <2>4 DEF HasLead
  <2>7. \A l \in leads : l.by \in Searches =>
          /\ l = [by |-> l.by, email |-> run'[l.by].email, review |-> run'[l.by].email = NoEmail]
          /\ run'[l.by].at \in {"publish", "done"}
    BY <2>1, <2>4 DEF LeadInv
  <2>8. \A s, q \in Searches :
          s # q /\ run'[s].at = "insert" /\ run'[q].at = "insert" => {s, q} \in overlap'
    BY <2>4, <2>5 DEF LeadInv
  <2>9. \A q \in Searches, l \in leads :
          run'[q].at = "insert" /\ run'[q].email # NoEmail /\ l.by \in Searches /\ l.email = run'[q].email
             => {q, l.by} \in overlap'
    BY <2>3, <2>4, <2>5 DEF LeadInv, HasLead
  <2>10. \A q \in Searches : run'[q].at \in {"update", "publish"} => HasLead(q)'
    <3>1. \A q \in Searches \ {r} : run'[q].at \in {"update", "publish"} => HasLead(q)
      BY <2>4 DEF LeadInv
    <3>2. run'[r].at \in {"update", "publish"} => HasLead(r)
      BY <2>1, <2>2, <2>4
    <3> QED
      BY <2>6, <3>1, <3>2
  <2>11. \A q \in announced : q \in Searches /\ run'[q].at = "done" /\ HasLead(q)'
    BY <2>1, <2>4, <2>6 DEF LeadInv
  <2>12. LeadInv'
    BY <2>1, <2>7, <2>8, <2>9, <2>10, <2>11 DEF LeadInv
  <2>13. OneLeadPerAddress'
    BY <2>1, <2>5, <2>11 DEF OneLeadPerAddress, HasLead
  <2> QED
    BY <2>4, <2>12, <2>13
<1>9. ASSUME NEW r \in Searches, PersistProspect(r) PROVE CrawlInv' /\ LeadInv' /\ OneLeadPerAddress'
  <2> DEFINE lead == [by |-> r, email |-> run[r].email, review |-> run[r].email = NoEmail]
  <2>1. /\ run[r].at \in {"insert", "update"} /\ run' = [run EXCEPT ![r].at = "publish"]
        /\ \/ run[r].at = "update" /\ leads' = leads
           \/ run[r].at = "insert" /\ leads' = leads \cup {lead}
        /\ UNCHANGED <<announced, overlap>>
    BY <1>9 DEF PersistProspect
  <2>2. lead.by = r /\ lead.email = run[r].email /\ lead = [by |-> lead.by, email |-> run[r].email, review |-> run[r].email = NoEmail]
    OBVIOUS
  <2> HIDE DEF lead
  <2>3. /\ CrawlInv' /\ run'[r].at = "publish" /\ run'[r].email = run[r].email
        /\ \A s \in Searches \ {r} : run'[s] = run[s]
    BY <1>0, <2>1, RunMoves
  <2>4. /\ leads \subseteq leads'
        /\ \A l \in leads' : l \in leads \/ (l = lead /\ run[r].at = "insert")
    BY <2>1
  <2>5. \A q \in Searches : HasLead(q) => HasLead(q)'
    BY <2>3, <2>4 DEF HasLead
  <2>6. HasLead(r)'
    <3>1. CASE run[r].at = "update"
      BY <2>5, <3>1 DEF LeadInv
    <3>2. CASE leads' = leads \cup {lead}
      BY <2>2, <2>3, <3>2 DEF HasLead
    <3> QED
      BY <2>1, <3>1, <3>2
  <2>7. \A l \in leads' : l.by \in Searches =>
          /\ l = [by |-> l.by, email |-> run'[l.by].email, review |-> run'[l.by].email = NoEmail]
          /\ run'[l.by].at \in {"publish", "done"}
    <3>1. ASSUME NEW l \in leads, l.by \in Searches
          PROVE  /\ l = [by |-> l.by, email |-> run'[l.by].email, review |-> run'[l.by].email = NoEmail]
                 /\ run'[l.by].at \in {"publish", "done"}
      BY <2>1, <2>3, <3>1 DEF LeadInv
    <3>2. /\ lead = [by |-> lead.by, email |-> run'[lead.by].email, review |-> run'[lead.by].email = NoEmail]
          /\ run'[lead.by].at \in {"publish", "done"}
      BY <2>2, <2>3
    <3> QED
      BY <2>4, <3>1, <3>2
  <2>8. \A s, q \in Searches :
          s # q /\ run'[s].at = "insert" /\ run'[q].at = "insert" => {s, q} \in overlap'
    BY <2>1, <2>3 DEF LeadInv
  <2>9. \A q \in Searches, l \in leads' :
          run'[q].at = "insert" /\ run'[q].email # NoEmail /\ l.by \in Searches /\ l.email = run'[q].email
             => {q, l.by} \in overlap'
    <3>1. ASSUME NEW q \in Searches, run'[q].at = "insert" PROVE q # r /\ run[q] = run'[q]
      BY <2>3, <3>1
    <3>2. ASSUME NEW q \in Searches, run'[q].at = "insert", run[r].at = "insert" PROVE {q, lead.by} \in overlap'
      BY <2>1, <2>2, <3>1, <3>2 DEF LeadInv
    <3>3. ASSUME NEW q \in Searches, NEW l \in leads, run'[q].at = "insert", run'[q].email # NoEmail,
                 l.by \in Searches, l.email = run'[q].email
          PROVE {q, l.by} \in overlap'
      BY <2>1, <3>1, <3>3 DEF LeadInv
    <3> QED
      BY <2>4, <3>2, <3>3
  <2>10. \A q \in Searches : run'[q].at \in {"update", "publish"} => HasLead(q)'
    BY <2>3, <2>5, <2>6 DEF LeadInv
  <2>11. \A q \in announced : q \in Searches /\ run'[q].at = "done" /\ HasLead(q)'
    BY <2>1, <2>3, <2>5 DEF LeadInv
  <2>12. LeadInv'
    BY <2>1, <2>7, <2>8, <2>9, <2>10, <2>11 DEF LeadInv
  <2>13. \A l, m \in leads' :
         l # m /\ l.by \in Searches /\ m.by \in Searches /\ l.email = m.email /\ l.email # NoEmail
             => {l.by, m.by} \in overlap'
    <3>1. ASSUME NEW m \in leads, run[r].at = "insert", m.by \in Searches, m.email = lead.email, m.email # NoEmail
          PROVE  {lead.by, m.by} \in overlap' /\ {m.by, lead.by} \in overlap'
      <4>1. {r, m.by} \in overlap'
        BY <2>1, <2>2, <3>1 DEF LeadInv
      <4>2. {r, m.by} = {m.by, r}
        OBVIOUS
      <4> QED
        BY <2>2, <4>1, <4>2
    <3>2. ASSUME NEW l \in leads, NEW m \in leads, l # m, l.by \in Searches, m.by \in Searches,
                 l.email = m.email, l.email # NoEmail
          PROVE  {l.by, m.by} \in overlap'
      BY <2>1, <3>2 DEF OneLeadPerAddress
    <3> QED
      BY <2>4, <3>1, <3>2
  <2>14. OneLeadPerAddress'
    BY <2>1, <2>11, <2>13 DEF OneLeadPerAddress, HasLead
  <2> QED
    BY <2>3, <2>12, <2>14
<1>10. ASSUME NEW r \in Searches, PublishDiscovered(r) PROVE CrawlInv' /\ LeadInv' /\ OneLeadPerAddress'
  <2>1. /\ run[r].at = "publish" /\ run' = [run EXCEPT ![r].at = "done"]
        /\ announced' = announced \cup {r} /\ UNCHANGED <<leads, overlap>>
    BY <1>10 DEF PublishDiscovered
  <2> QED
    BY <1>0, <2>1, RunMoves, LeadsStay, ZenonT(60)
<1>11. ASSUME NEW r \in Searches, PersistFails(r) PROVE CrawlInv' /\ LeadInv' /\ OneLeadPerAddress'
  <2>1. run' = [run EXCEPT ![r].at = "done"] /\ UNCHANGED <<leads, announced, overlap>>
    BY <1>11 DEF PersistFails
  <2> QED
    BY <1>0, <2>1, RunMoves, LeadsStay
<1>12. ASSUME NEW c \in Cycles, RunDiscoveryCycle(c) PROVE CrawlInv' /\ LeadInv' /\ OneLeadPerAddress'
  <2>1. PICK saved \in SUBSET Emails :
          leads' = leads \cup {[by |-> c, email |-> e, review |-> FALSE] : e \in saved}
    BY <1>12 DEF RunDiscoveryCycle
  <2>2. UNCHANGED <<run, announced, overlap>> /\ c \notin Searches
    BY <1>12, ProspectsAssumption DEF RunDiscoveryCycle
  <2>3. leads \subseteq leads' /\ \A l \in leads' : l.by \in Searches => l \in leads
    BY <2>1, <2>2
  <2>4. \A q \in Searches : HasLead(q) => HasLead(q)'
    BY <2>2, <2>3 DEF HasLead
  <2>5. LeadInv'
    BY <2>2, <2>3, <2>4 DEF LeadInv
  <2>6. OneLeadPerAddress'
    BY <2>2, <2>3, <2>4 DEF OneLeadPerAddress, LeadInv, HasLead
  <2> QED
    BY <2>2, <2>5, <2>6 DEF CrawlInv
<1>13. CASE UNCHANGED prospectvars
  BY <1>13 DEF prospectvars, CrawlInv, LeadInv, HasLead, OneLeadPerAddress
<1> QED
  BY <1>5, <1>6, <1>7, <1>8, <1>9, <1>10, <1>11, <1>12, <1>13 DEF ProspectNext

\* The pages a crawl has read are pages of its host.
LEMMA CrawlHolds == CrawlInv => CrawlBounded
<1> SUFFICES ASSUME CrawlInv, NEW r \in Searches
             PROVE  /\ IsInjective(run[r].visited)
                    /\ \A p \in ToSet(run[r].visited) : HostOf[p] = HostOf[FirstPage]
                    /\ run[r].pages <= MaxPages
  BY DEF CrawlBounded
<1>1. run[r].visited \in Seq(OwnPages) /\ run[r].pages \in 0..MaxPages /\ MaxPages \in Nat
  BY ProspectsAssumption DEF CrawlInv, Run
<1>2. \A i \in DOMAIN run[r].visited : run[r].visited[i] \in OwnPages
  BY <1>1
<1> QED
  BY <1>1, <1>2 DEF CrawlInv, ToSet, OwnPages
-------------------------------------------------------------------------------
(* CiPipeline: pipelines that share a directory. *)

\* Of some numbers one is the least.
LEMMA LeastNumber ==
    ASSUME NEW S, S \subseteq Nat, S # {}
    PROVE  \E n \in S : \A m \in S : n <= m
<1> DEFINE Low == {n \in Nat : \A m \in S : n <= m}
<1>1. SUFFICES ASSUME \A n \in S : \E m \in S : ~(n <= m) PROVE FALSE
  OBVIOUS
<1>2. 0 \in Low
  OBVIOUS
<1>3. ASSUME NEW n \in Nat, n \in Low PROVE n + 1 \in Low
  BY <1>1, <1>3
<1>4. Nat \subseteq Low
  BY <1>2, <1>3, NaturalsReached
<1>5. PICK s \in S : TRUE
  OBVIOUS
<1> QED
  BY <1>4, <1>5, s + 1 \in Nat

StageNames == {"checkout", "build", "test", "quality", "security", "deploy", "verify"}

CiTyped ==
    /\ config \in [Pipelines -> Configs]
    /\ stage \in [Pipelines -> StageNames \cup {"none", "complete", "failed", "ended"}]
    /\ passed \in [Pipelines -> SUBSET StageNames]
    /\ released \subseteq Pipelines

\* What a pipeline went through when it is in its stage.
Through(p) ==
    stage[p] \in StageNames => \A i \in Asked(p) : i < Position(p) => Order[i] \in passed[p]

Required(p) == {"checkout", "build", "test"} \cup (config[p].stages \ {"deploy"})

\* The directory holds the checkout of the one pipeline that got past it.
CiInv ==
    /\ \A p \in Pipelines : Through(p)
    /\ \A p \in Pipelines : stage[p] \in StageNames \ {"checkout"} => "checkout" \in passed[p]
    /\ \A p \in Pipelines : "checkout" \in passed[p] => workdir = p
    /\ \A p \in released : stage[p] # "none" /\ Required(p) \subseteq passed[p]

\* Every stage has one place in the order.
LEMMA OnePlace ==
    /\ Len(Order) = 7
    /\ \A i \in 1..7 : Order[i] \in StageNames
    /\ \A i, j \in 1..7 : Order[i] = Order[j] => i = j
    /\ \A s \in StageNames : \E i \in 1..7 : Order[i] = s
    /\ Order[1] = "checkout" /\ Order[2] = "build" /\ Order[3] = "test" /\ Order[4] = "quality"
    /\ Order[5] = "security" /\ Order[6] = "deploy" /\ Order[7] = "verify"
<1>1. /\ Len(Order) = 7
      /\ Order[1] = "checkout" /\ Order[2] = "build" /\ Order[3] = "test" /\ Order[4] = "quality"
      /\ Order[5] = "security" /\ Order[6] = "deploy" /\ Order[7] = "verify"
  BY DEF Order
<1>2. \A i \in 1..7 : i = 1 \/ i = 2 \/ i = 3 \/ i = 4 \/ i = 5 \/ i = 6 \/ i = 7
  OBVIOUS
<1>3. \A i \in 1..7 : Order[i] \in StageNames
  BY <1>1, <1>2 DEF StageNames
<1>4. \A i, j \in 1..7 : Order[i] = Order[j] => i = j
  BY <1>1, <1>2
<1>5. \A s \in StageNames : \E i \in 1..7 : Order[i] = s
  <2>1. 1 \in 1..7 /\ 2 \in 1..7 /\ 3 \in 1..7 /\ 4 \in 1..7 /\ 5 \in 1..7 /\ 6 \in 1..7 /\ 7 \in 1..7
    OBVIOUS
  <2> QED
    BY <1>1, <2>1 DEF StageNames
<1> QED
  BY <1>1, <1>3, <1>4, <1>5

\* A pipeline in a stage is at the place of that stage.
LEMMA AtItsPlace ==
    ASSUME NEW p, NEW i \in 1..7, stage[p] = Order[i]
    PROVE  Position(p) = i
<1>1. \A j \in 1..7 : Order[j] = stage[p] => j = i
  BY OnePlace
<1> QED
  BY <1>1, OnePlace DEF Position

\* The next stage is the first asked for after this one, so that none is left out.
LEMMA Advanced ==
    ASSUME CiTyped, NEW p \in Pipelines, stage[p] \in StageNames, Through(p), Advance(p), UNCHANGED config
    PROVE  /\ stage' \in [Pipelines -> StageNames \cup {"none", "complete", "failed", "ended"}]
           /\ passed' \in [Pipelines -> SUBSET StageNames]
           /\ \A q \in Pipelines \ {p} : stage'[q] = stage[q] /\ passed'[q] = passed[q]
           /\ passed'[p] = passed[p] \cup {stage[p]}
           /\ stage'[p] \notin {"none", "checkout"}
           /\ Through(p)'
<1> DEFINE later == {i \in Asked(p) : i > Position(p)}
           next == IF later = {} THEN "complete" ELSE Order[CHOOSE i \in later : \A j \in later : i <= j]
<1>1. PICK k \in 1..7 : stage[p] = Order[k]
  BY OnePlace
<1>2. Position(p) = k
  BY <1>1, AtItsPlace
<1>3. /\ stage' = [stage EXCEPT ![p] = next]
      /\ passed' = [passed EXCEPT ![p] = passed[p] \cup {stage[p]}]
  BY DEF Advance, CiTyped
<1>4. Asked(p) \subseteq 1..7 /\ Asked(p)' = Asked(p)
  BY OnePlace DEF Asked
<1>5. passed'[p] = passed[p] \cup {stage[p]} /\ \A q \in Pipelines \ {p} : passed'[q] = passed[q]
  BY <1>3 DEF CiTyped
<1>6. \/ later = {} /\ next = "complete"
      \/ \E n \in later : (\A j \in later : n <= j) /\ next = Order[n]
  <2>1. later \subseteq Nat
    BY <1>4
  <2> QED
    BY <2>1, LeastNumber
<1>7. \A n \in later : n \in 2..7 /\ n \in Asked(p) /\ n > k
  BY <1>2, <1>4
<1>8. \A i \in Asked(p) : i \notin later => i <= k
  BY <1>2, <1>4
<1> HIDE DEF later, next
<1>9. next \in StageNames \cup {"complete"} /\ next \notin {"none", "checkout"}
  <2>1. \A n \in 2..7 : Order[n] \in StageNames /\ Order[n] # "checkout"
    BY OnePlace
  <2> QED
    BY <1>6, <1>7, <2>1 DEF StageNames
<1>10. stage'[p] = next /\ \A q \in Pipelines \ {p} : stage'[q] = stage[q]
  BY <1>3 DEF CiTyped
<1>11. Through(p)'
  <2>1. SUFFICES ASSUME stage'[p] \in StageNames, NEW i \in Asked(p), i < Position(p)' PROVE Order[i] \in passed'[p]
    BY <1>4 DEF Through
  <2>2. PICK n \in later : (\A j \in later : n <= j) /\ next = Order[n]
    <3>1. "complete" \notin StageNames
      BY DEF StageNames
    <3> QED
      BY <1>6, <1>10, <2>1, <3>1
  <2>3. Position(p)' = n
    <3>1. n \in 1..7 /\ stage'[p] = Order[n]
      BY <1>7, <1>10, <2>2
    <3>2. \A j \in 1..7 : Order[j] = stage'[p] => j = n
      BY <3>1, OnePlace
    <3> QED
      BY <3>1, <3>2, OnePlace DEF Position
  <2>4. i \in 1..7 /\ n \in 1..7 /\ i < n
    BY <1>4, <1>7, <2>1, <2>3
  <2>5. i <= k
    BY <1>8, <2>2, <2>4
  <2>6. CASE i = k
    BY <1>1, <1>5, <2>6
  <2>7. CASE i < k
    BY <1>2, <1>5, <2>1, <2>7 DEF Through
  <2> QED
    BY <2>4, <2>5, <2>6, <2>7
<1>12. /\ stage' \in [Pipelines -> StageNames \cup {"none", "complete", "failed", "ended"}]
       /\ passed' \in [Pipelines -> SUBSET StageNames]
  BY <1>3, <1>9 DEF CiTyped
<1> QED
  BY <1>5, <1>9, <1>10, <1>11, <1>12

LEMMA CiInvInit == CiInit => CiTyped /\ CiInv
<1> SUFFICES ASSUME CiInit PROVE CiTyped /\ CiInv
  OBVIOUS
<1>1. CiTyped
  BY CiAssumption DEF CiInit, CiTyped
<1>2. \A p \in Pipelines : stage[p] \notin StageNames /\ passed[p] = {}
  BY DEF CiInit, StageNames
<1> QED
  BY <1>1, <1>2 DEF CiInit, CiInv, Through

\* A pipeline that only leaves its stage for good.
LEMMA CiOver ==
    ASSUME CiTyped, CiInv, NEW p \in Pipelines, NEW over \in {"failed", "ended"},
           stage[p] # "none", stage' = [stage EXCEPT ![p] = over], UNCHANGED <<config, workdir, passed>>,
           released' = released \/ (released' = released \cup {p} /\ Required(p) \subseteq passed[p])
    PROVE  CiTyped' /\ CiInv'
<1>1. stage'[p] = over /\ (\A q \in Pipelines \ {p} : stage'[q] = stage[q]) /\ over \notin StageNames
  BY DEF CiTyped, StageNames
<1>2. CiTyped'
  BY DEF CiTyped
<1>3. \A q \in Pipelines : Through(q)'
  BY <1>1 DEF CiInv, Through, Position, Asked
<1>4. \A q \in released' : stage'[q] # "none" /\ Required(q)' \subseteq passed'[q]
  BY <1>1, <1>2 DEF CiInv, CiTyped, Required
<1> QED
  BY <1>1, <1>2, <1>3, <1>4 DEF CiInv

\* What a pipeline in the deploy stage went through.
LEMMA DeployTested ==
    ASSUME CiTyped, CiInv, NEW p \in Pipelines, stage[p] = "deploy"
    PROVE  Required(p) \subseteq passed[p]
<1>1. stage[p] = Order[6] /\ Position(p) = 6 /\ stage[p] \in StageNames
  BY OnePlace, AtItsPlace, 6 \in 1..7
<1>2. \A i \in Asked(p) : i < 6 => Order[i] \in passed[p]
  BY <1>1 DEF CiInv, Through
<1>3. config[p].stages \subseteq Optional
  BY CiAssumption DEF CiTyped
<1>4. 1 \in Asked(p) /\ 2 \in Asked(p) /\ 3 \in Asked(p)
  BY OnePlace DEF Asked, Optional
<1>5. ("quality" \in config[p].stages => 4 \in Asked(p)) /\ ("security" \in config[p].stages => 5 \in Asked(p))
  BY OnePlace DEF Asked, Optional
<1>6. Order[1] \in passed[p] /\ Order[2] \in passed[p] /\ Order[3] \in passed[p]
  BY <1>2, <1>4
<1>7. ("quality" \in config[p].stages => Order[4] \in passed[p]) /\ ("security" \in config[p].stages => Order[5] \in passed[p])
  BY <1>2, <1>5
<1> QED
  BY <1>3, <1>6, <1>7, OnePlace DEF Required, Optional

\* A stage that succeeds; the checkout only in an empty directory.
LEMMA CiAdvances ==
    ASSUME CiTyped, CiInv, NEW p \in Pipelines, stage[p] \in StageNames, Advance(p), UNCHANGED config,
           \/ stage[p] = "checkout" /\ workdir = NoPipeline /\ workdir' = p
           \/ stage[p] # "checkout" /\ UNCHANGED workdir,
           released' = released \/ (released' = released \cup {p} /\ Required(p) \subseteq passed[p])
    PROVE  CiTyped' /\ CiInv'
<1>0. Through(p)
  BY DEF CiInv
<1>1. /\ stage' \in [Pipelines -> StageNames \cup {"none", "complete", "failed", "ended"}]
      /\ passed' \in [Pipelines -> SUBSET StageNames]
      /\ \A q \in Pipelines \ {p} : stage'[q] = stage[q] /\ passed'[q] = passed[q]
      /\ passed'[p] = passed[p] \cup {stage[p]}
      /\ stage'[p] \notin {"none", "checkout"}
      /\ Through(p)'
  BY <1>0, Advanced
<1>2. CiTyped'
  BY <1>1 DEF CiTyped
<1>3. \A q \in Pipelines : Through(q)'
  BY <1>1 DEF CiInv, Through, Position, Asked
<1>4. "checkout" \in passed'[p]
  BY <1>1 DEF CiInv
<1>5. workdir' = p
  BY CiAssumption DEF CiInv
<1>6. \A q \in Pipelines \ {p} : "checkout" \in passed[q] => workdir' = q
  BY CiAssumption DEF CiInv
<1>7. \A q \in released' : stage'[q] # "none" /\ Required(q)' \subseteq passed'[q]
  BY <1>1 DEF CiInv, CiTyped, Required
<1> QED
  BY <1>1, <1>2, <1>3, <1>4, <1>5, <1>6, <1>7 DEF CiInv

LEMMA CiInvNext == CiTyped /\ CiInv /\ [CiNext]_civars => CiTyped' /\ CiInv'
<1> SUFFICES ASSUME CiTyped, CiInv, [CiNext]_civars PROVE CiTyped' /\ CiInv'
  OBVIOUS
<1>1. ASSUME NEW p \in Pipelines, StartPipeline(p) PROVE CiTyped' /\ CiInv'
  <2>1. PICK c \in Configs : config' = [config EXCEPT ![p] = c]
    BY <1>1 DEF StartPipeline
  <2>2. stage[p] = "none" /\ stage' = [stage EXCEPT ![p] = "checkout"] /\ UNCHANGED <<workdir, passed, released>>
    BY <1>1 DEF StartPipeline
  <2>3. CiTyped'
    BY <2>1, <2>2 DEF CiTyped, StageNames
  <2>4. /\ stage'[p] = "checkout" /\ p \notin released
        /\ \A q \in Pipelines \ {p} : stage'[q] = stage[q] /\ config'[q] = config[q]
    BY <2>1, <2>2 DEF CiTyped, CiInv
  <2>5. \A q \in Pipelines \ {p} : Through(q)'
    BY <2>2, <2>4 DEF CiInv, Through, Position, Asked
  <2>6. Through(p)'
    <3>1. Position(p)' = 1
      <4>1. \A j \in 1..7 : Order[j] = stage'[p] => j = 1
        BY <2>4, OnePlace, 1 \in 1..7
      <4> QED
        BY <2>4, <4>1, OnePlace, 1 \in 1..7 DEF Position
    <3>2. \A i \in Asked(p)' : i \in 1..7
      BY OnePlace DEF Asked
    <3> QED
      BY <3>1, <3>2 DEF Through
  <2>7. \A q \in released : Required(q)' = Required(q) /\ stage'[q] # "none"
    BY <2>4 DEF CiInv, CiTyped, Required
  <2> QED
    BY <2>2, <2>3, <2>4, <2>5, <2>6, <2>7 DEF CiInv
<1>2. ASSUME NEW p \in Pipelines, RunPipeline(p) PROVE CiTyped' /\ CiInv'
  <2>0. UNCHANGED config
    BY <1>2 DEF RunPipeline
  <2>1. ASSUME Fail(p), stage[p] \in StageNames PROVE CiTyped' /\ CiInv'
    <3>1. stage[p] # "none"
      BY <2>1 DEF StageNames
    <3> QED
      BY <2>0, <2>1, <3>1, CiOver DEF Fail
  <2>2. CASE CheckoutCode(p)
    BY <2>0, <2>1, <2>2, CiAdvances DEF CheckoutCode, Cloned, StageNames
  <2>3. ASSUME stage[p] \in StageNames \ {"checkout"},
               (Advance(p) /\ UNCHANGED <<workdir, released>>) \/ Fail(p)
        PROVE  CiTyped' /\ CiInv'
    BY <2>0, <2>1, <2>3, CiAdvances
  <2>4. CASE Build(p) \/ Test(p) \/ QualityChecks(p) \/ SecurityScan(p) \/ Verify(p)
    BY <2>3, <2>4 DEF Build, Test, QualityChecks, SecurityScan, Verify, StageNames
  <2>5. CASE DeployStage(p)
    <3>1. stage[p] = "deploy" /\ stage[p] \in StageNames /\ Required(p) \subseteq passed[p]
      BY <2>5, DeployTested DEF DeployStage, StageNames
    <3>2. \/ released' = released \cup {p} /\ Advance(p) /\ UNCHANGED workdir
          \/ Advance(p) /\ UNCHANGED <<workdir, released>>
          \/ Fail(p)
      BY <2>5 DEF DeployStage
    <3> QED
      BY <2>0, <2>1, <3>1, <3>2, CiAdvances
  <2>6. CASE DeployProductionFails(p)
    <3>1. Required(p) \subseteq passed[p] /\ stage[p] # "none"
      BY <2>6, DeployTested DEF DeployProductionFails
    <3> QED
      BY <2>0, <2>6, <3>1, CiOver DEF DeployProductionFails
  <2>7. CASE AnalyzeFailure(p)
    BY <2>0, <2>7, CiOver DEF AnalyzeFailure
  <2> QED
    BY <1>2, <2>2, <2>4, <2>5, <2>6, <2>7 DEF RunPipeline
<1>3. ASSUME UNCHANGED <<config, stage, workdir, passed, released>> PROVE CiTyped' /\ CiInv'
  BY <1>3 DEF CiTyped, CiInv, Through, Position, Asked, Required
<1>4. CASE UNCHANGED civars
  BY <1>3, <1>4 DEF civars
<1>5. ASSUME NEW p \in Pipelines, CancelPipeline(p) PROVE CiTyped' /\ CiInv'
  BY <1>3, <1>5 DEF CancelPipeline
<1> QED
  BY <1>1, <1>2, <1>4, <1>5 DEF CiNext

LEMMA CiInvTells == CiTyped /\ CiInv => ReleasedWasTested
<1> SUFFICES ASSUME CiTyped, CiInv, NEW p \in released
             PROVE  workdir = p /\ Required(p) \subseteq passed[p]
  BY DEF Required, ReleasedWasTested
<1>1. p \in Pipelines /\ Required(p) \subseteq passed[p] /\ "checkout" \in Required(p)
  BY DEF CiTyped, CiInv, Required
<1> QED
  BY <1>1 DEF CiInv

-------------------------------------------------------------------------------
(* ReleaseAgent: releases that overlap. *)

ReleasePhases == {"preparing", "deploying", "testing", "switching", "complete", "rolling_back", "failed"}
ReleaseSteps == {"deploy", "instances", "update", "monitor", "stop", "create", "test", "switch", "shift",
                 "complete", "rollback", "done"}

RelTyped ==
    /\ release \in [Releases -> [strategy : DeployStrategies, auto_rollback : BOOLEAN,
                                 phase : ReleasePhases, status : {"none", "success"}]]
    /\ release_step \in [Releases -> ReleaseSteps]
    /\ updated \in [Releases -> SUBSET Instances]

\* The strategy is done: every instance was updated, or what was stopped is there again.
WasDone(r) ==
    \/ Strategy(r) = "rolling" /\ updated[r] = Instances
    \/ Strategy(r) = "recreate" /\ r \notin outages

\* What holds of a release at the call it is about to make.
ReleaseAt(r) ==
    /\ release_step[r] = "stop" => Strategy(r) = "recreate" /\ release[r].phase = "deploying"
    /\ release_step[r] \in {"instances", "update", "monitor"} => Strategy(r) = "rolling"
    /\ release_step[r] = "test" => Strategy(r) # "canary"
    /\ release_step[r] = "complete" => WasDone(r)
    /\ release[r].status = "success" => release_step[r] = "done" /\ WasDone(r)
    /\ r \in outages => /\ Strategy(r) = "recreate" /\ release_step[r] \in {"create", "rollback", "done"}
                        /\ release[r].phase \in {"deploying", "rolling_back", "failed"}

RelInv == RelTyped /\ \A r \in Releases : ReleaseAt(r)

LEMMA RelInvInit == RelInit => RelInv
<1> SUFFICES ASSUME RelInit PROVE RelInv
  OBVIOUS
<1>1. release \in [Releases -> [strategy : DeployStrategies, auto_rollback : BOOLEAN,
                                phase : ReleasePhases, status : {"none", "success"}]]
  BY DEF RelInit, ReleasePhases
<1>2. release_step \in [Releases -> ReleaseSteps] /\ updated \in [Releases -> SUBSET Instances]
  BY DEF RelInit, ReleaseSteps
<1>3. \A r \in Releases : release[r].status = "none" /\ release_step[r] = "deploy" /\ r \notin outages
  BY DEF RelInit
<1> QED
  BY <1>1, <1>2, <1>3 DEF RelInv, RelTyped, ReleaseAt

\* A new phase is all that changes of a release.
LEMMA PhaseSet ==
    ASSUME RelTyped, NEW r \in Releases, NEW phase \in ReleasePhases, Phase(r, phase)
    PROVE  /\ release' \in [Releases -> [strategy : DeployStrategies, auto_rollback : BOOLEAN,
                                         phase : ReleasePhases, status : {"none", "success"}]]
           /\ release'[r].strategy = release[r].strategy /\ release'[r].status = release[r].status
           /\ release'[r].phase = phase
           /\ \A s \in Releases \ {r} : release'[s] = release[s]
BY DEF RelTyped, Phase

\* A step of one release leaves the others alone.
LEMMA ReleaseMoves ==
    ASSUME RelInv, NEW r \in Releases, NEW next \in ReleaseSteps, ReleaseTo(r, next),
           release' \in [Releases -> [strategy : DeployStrategies, auto_rollback : BOOLEAN,
                                      phase : ReleasePhases, status : {"none", "success"}]],
           \A s \in Releases \ {r} : release'[s] = release[s],
           updated' \in [Releases -> SUBSET Instances],
           \A s \in Releases \ {r} : updated'[s] = updated[s] /\ (s \in outages' <=> s \in outages),
           release_step'[r] = next => ReleaseAt(r)'
    PROVE  RelInv'
<1>1. /\ release_step' \in [Releases -> ReleaseSteps] /\ release_step'[r] = next
      /\ \A s \in Releases \ {r} : release_step'[s] = release_step[s]
  BY DEF RelInv, RelTyped, ReleaseTo
<1>2. RelTyped'
  BY <1>1 DEF RelTyped
<1>3. \A s \in Releases \ {r} : ReleaseAt(s)'
  BY <1>1 DEF RelInv, ReleaseAt, Strategy, WasDone
<1> QED
  BY <1>1, <1>2, <1>3 DEF RelInv

\* The except clause leaves a release without its success.
LEMMA ReleaseRaises ==
    ASSUME RelInv, NEW r \in Releases, Raise(r), release_step[r] # "done", UNCHANGED <<updated, outages>>
    PROVE  RelInv'
<1>1. PICK phase \in {"rolling_back", "failed"}, next \in {"rollback", "done"} :
        Phase(r, phase) /\ ReleaseTo(r, next)
  BY DEF Raise
<1>2. phase \in ReleasePhases /\ next \in ReleaseSteps
  BY DEF ReleasePhases, ReleaseSteps
<1>3. /\ release' \in [Releases -> [strategy : DeployStrategies, auto_rollback : BOOLEAN,
                                    phase : ReleasePhases, status : {"none", "success"}]]
      /\ release'[r].strategy = release[r].strategy /\ release'[r].status = release[r].status
      /\ release'[r].phase = phase
      /\ \A s \in Releases \ {r} : release'[s] = release[s]
  BY <1>1, <1>2, PhaseSet DEF RelInv
<1>4. release_step'[r] = next => ReleaseAt(r)'
  BY <1>3 DEF RelInv, ReleaseAt, Strategy, WasDone
<1> QED
  BY <1>1, <1>2, <1>3, <1>4, ReleaseMoves DEF RelInv, RelTyped

\* A step to another call, in this phase or another.
LEMMA Proceeds ==
    ASSUME RelInv, NEW r \in Releases, NEW next \in ReleaseSteps, ReleaseTo(r, next),
           UNCHANGED release \/ (\E phase \in ReleasePhases : Phase(r, phase)),
           updated' \in [Releases -> SUBSET Instances],
           \A s \in Releases \ {r} : updated'[s] = updated[s] /\ (s \in outages' <=> s \in outages),
           (release'[r].strategy = release[r].strategy /\ release'[r].status = release[r].status
              /\ release_step'[r] = next)
             => ReleaseAt(r)'
    PROVE  RelInv'
<1>1. /\ release' \in [Releases -> [strategy : DeployStrategies, auto_rollback : BOOLEAN,
                                    phase : ReleasePhases, status : {"none", "success"}]]
      /\ release'[r].strategy = release[r].strategy /\ release'[r].status = release[r].status
      /\ \A s \in Releases \ {r} : release'[s] = release[s]
  BY PhaseSet DEF RelInv, RelTyped
<1>2. release_step'[r] = next => ReleaseAt(r)'
  BY <1>1
<1> QED
  BY <1>1, <1>2, ReleaseMoves

LEMMA RelInvNext == RelInv /\ [RelNext]_relvars => RelInv'
<1> SUFFICES ASSUME RelInv, [RelNext]_relvars PROVE RelInv'
  OBVIOUS
<1> USE DEF ReleasePhases, ReleaseSteps
<1>0. RelTyped /\ updated \in [Releases -> SUBSET Instances] /\ \A r \in Releases : ReleaseAt(r)
  BY DEF RelInv, RelTyped
<1>1. ASSUME NEW r \in Releases, ReleaseAt(r), Deploy(r) PROVE RelInv'
  <2>1. PICK phase \in {"preparing", "deploying"}, next \in {"instances", "stop", "create"} :
          /\ Phase(r, phase) /\ ReleaseTo(r, next)
          /\ next = "instances" => Strategy(r) = "rolling"
          /\ next = "stop" => Strategy(r) = "recreate" /\ phase = "deploying"
    BY <1>1 DEF Deploy
  <2>2. release_step[r] = "deploy" /\ UNCHANGED <<updated, outages>>
    BY <1>1 DEF Deploy
  <2>3. release'[r].phase = phase
    BY <1>0, <2>1, PhaseSet
  <2>4. (release'[r].strategy = release[r].strategy /\ release'[r].status = release[r].status
           /\ release_step'[r] = next)
          => ReleaseAt(r)'
    BY <1>1, <2>1, <2>2, <2>3 DEF ReleaseAt, Strategy, WasDone
  <2> QED
    BY <1>0, <2>1, <2>2, <2>4, Proceeds
<1>2. ASSUME NEW r \in Releases, ReleaseAt(r), CreateBeside(r) PROVE RelInv'
  <2>1. release_step[r] = "create" /\ Strategy(r) \in {"blue_green", "canary"} /\ UNCHANGED <<updated, outages>>
    BY <1>2 DEF CreateBeside
  <2>2. ASSUME NEW phase \in {"switching", "testing"}, NEW next \in {"shift", "test"},
               Phase(r, phase), ReleaseTo(r, next), next = "test" => Strategy(r) # "canary"
        PROVE  RelInv'
    <3>1. (release'[r].strategy = release[r].strategy /\ release'[r].status = release[r].status
             /\ release_step'[r] = next)
            => ReleaseAt(r)'
      BY <1>2, <2>1, <2>2 DEF ReleaseAt, Strategy, WasDone
    <3> QED
      BY <1>0, <2>1, <2>2, <3>1, Proceeds
  <2>3. CASE Raise(r)
    BY <2>1, <2>3, ReleaseRaises
  <2> QED
    BY <1>2, <2>2, <2>3 DEF CreateBeside
<1>3. ASSUME NEW r \in Releases, ReleaseAt(r), SwitchTraffic(r) \/ ShiftTraffic(r) PROVE RelInv'
  BY <1>3, ReleaseRaises DEF SwitchTraffic, ShiftTraffic
<1>4. ASSUME NEW r \in Releases, ReleaseAt(r), GetInstances(r) PROVE RelInv'
  <2>1. release_step[r] = "instances" /\ UNCHANGED <<updated, outages>>
    BY <1>4 DEF GetInstances
  <2>2. CASE Phase(r, "deploying") /\ ReleaseTo(r, "update")
    <3>1. (release'[r].strategy = release[r].strategy /\ release'[r].status = release[r].status
             /\ release_step'[r] = "update")
            => ReleaseAt(r)'
      BY <1>4, <2>1, <2>2 DEF ReleaseAt, Strategy, WasDone
    <3> QED
      BY <1>0, <2>1, <2>2, <3>1, Proceeds
  <2> QED
    BY <1>4, <2>1, <2>2, ReleaseRaises DEF GetInstances
<1>5. ASSUME NEW r \in Releases, ReleaseAt(r), UpdateInstance(r) PROVE RelInv'
  <2>1. release_step[r] = "update" /\ ReleaseTo(r, "test") /\ UNCHANGED <<release, outages>>
    BY <1>5 DEF UpdateInstance
  <2>2. updated' \in [Releases -> SUBSET Instances] /\ \A s \in Releases \ {r} : updated'[s] = updated[s]
    BY <1>0, <1>5 DEF UpdateInstance
  <2>3. release_step'[r] = "test" => ReleaseAt(r)'
    BY <1>5, <2>1 DEF ReleaseAt, Strategy, WasDone
  <2> QED
    BY <2>1, <2>2, <2>3, Proceeds
<1>6. ASSUME NEW r \in Releases, ReleaseAt(r), MonitorDeployment(r) PROVE RelInv'
  <2>1. PICK next \in {"complete", "update"} :
          ReleaseTo(r, next) /\ (next = "complete" => updated[r] = Instances)
    BY <1>6 DEF MonitorDeployment
  <2>2. release_step[r] = "monitor" /\ UNCHANGED <<release, updated, outages>>
    BY <1>6 DEF MonitorDeployment
  <2>3. release_step'[r] = next => ReleaseAt(r)'
    BY <1>6, <2>1, <2>2 DEF ReleaseAt, Strategy, WasDone
  <2> QED
    BY <1>0, <2>1, <2>2, <2>3, Proceeds
<1>7. ASSUME NEW r \in Releases, ReleaseAt(r), StopOld(r) PROVE RelInv'
  <2>1. release_step[r] = "stop" /\ UNCHANGED updated
    BY <1>7 DEF StopOld
  <2>2. CASE outages' = outages \cup {r} /\ ReleaseTo(r, "create") /\ UNCHANGED release
    <3>1. release_step'[r] = "create" => ReleaseAt(r)'
      BY <1>7, <2>1, <2>2 DEF ReleaseAt, Strategy, WasDone
    <3> QED
      BY <1>0, <2>1, <2>2, <3>1, Proceeds
  <2> QED
    BY <1>7, <2>1, <2>2, ReleaseRaises DEF StopOld
<1>8. ASSUME NEW r \in Releases, ReleaseAt(r), CreateNew(r) PROVE RelInv'
  <2>1. release_step[r] = "create" /\ Strategy(r) = "recreate" /\ UNCHANGED updated
    BY <1>8 DEF CreateNew
  <2>2. CASE outages' = outages \ {r} /\ Phase(r, "testing") /\ ReleaseTo(r, "test")
    <3>1. (release'[r].strategy = release[r].strategy /\ release'[r].status = release[r].status
             /\ release_step'[r] = "test")
            => ReleaseAt(r)'
      BY <1>8, <2>1, <2>2 DEF ReleaseAt, Strategy, WasDone
    <3> QED
      BY <1>0, <2>1, <2>2, <3>1, Proceeds
  <2> QED
    BY <1>8, <2>1, <2>2, ReleaseRaises DEF CreateNew
<1>9. ASSUME NEW r \in Releases, ReleaseAt(r), HealthCheck(r) PROVE RelInv'
  <2>1. release_step[r] = "test" /\ Strategy(r) # "canary" /\ UNCHANGED <<updated, outages>>
    BY <1>9 DEF HealthCheck, ReleaseAt
  <2>2. CASE UNCHANGED <<release, release_step>>
    BY <1>0, <2>1, <2>2 DEF RelInv, RelTyped, ReleaseAt, Strategy, WasDone
  <2>3. CASE Strategy(r) = "blue_green" /\ Phase(r, "switching") /\ ReleaseTo(r, "switch")
    <3>1. (release'[r].strategy = release[r].strategy /\ release'[r].status = release[r].status
             /\ release_step'[r] = "switch")
            => ReleaseAt(r)'
      BY <1>9, <2>1, <2>3 DEF ReleaseAt, Strategy, WasDone
    <3> QED
      BY <1>0, <2>1, <2>3, <3>1, Proceeds
  <2>4. ASSUME NEW next \in {"monitor", "complete"}, UNCHANGED release, ReleaseTo(r, next),
               next = "monitor" => Strategy(r) = "rolling",
               next = "complete" => Strategy(r) \notin {"blue_green", "rolling"}
        PROVE  RelInv'
    <3>1. Strategy(r) \in DeployStrategies
      BY <1>0 DEF RelTyped, Strategy
    <3>2. next = "complete" => Strategy(r) = "recreate"
      BY <2>1, <2>4, <3>1 DEF DeployStrategies
    <3>3. release_step'[r] = next => ReleaseAt(r)'
      BY <1>9, <2>1, <2>4, <3>2 DEF ReleaseAt, Strategy, WasDone
    <3> QED
      BY <1>0, <2>1, <2>4, <3>3, Proceeds
  <2>5. \/ UNCHANGED <<release, release_step>>
        \/ CASE Strategy(r) = "blue_green" -> Phase(r, "switching") /\ ReleaseTo(r, "switch")
             [] Strategy(r) = "rolling" -> UNCHANGED release /\ ReleaseTo(r, "monitor")
             [] OTHER -> UNCHANGED release /\ ReleaseTo(r, "complete")
    BY Zenon, <1>9 DEF HealthCheck
  <2> QED
    BY <2>2, <2>3, <2>4, <2>5
<1>10. ASSUME NEW r \in Releases, ReleaseAt(r), Complete(r) PROVE RelInv'
  <2>1. /\ release_step[r] = "complete" /\ ReleaseTo(r, "done") /\ UNCHANGED <<updated, outages>>
        /\ release' = [release EXCEPT ![r].phase = "complete", ![r].status = "success"]
    BY <1>10 DEF Complete
  <2>2. /\ release' \in [Releases -> [strategy : DeployStrategies, auto_rollback : BOOLEAN,
                                      phase : ReleasePhases, status : {"none", "success"}]]
        /\ release'[r].strategy = release[r].strategy
        /\ \A s \in Releases \ {r} : release'[s] = release[s]
    BY <1>0, <2>1, ZenonT(60) DEF RelTyped
  <2>3. release_step'[r] = "done" => ReleaseAt(r)'
    BY <1>10, <2>1, <2>2 DEF ReleaseAt, Strategy, WasDone
  <2> QED
    BY <1>0, <2>1, <2>2, <2>3, ReleaseMoves
<1>11. ASSUME NEW r \in Releases, ReleaseAt(r), Rollback(r) PROVE RelInv'
  <2>1. /\ release_step[r] = "rollback" /\ ReleaseTo(r, "done") /\ UNCHANGED <<release, updated>>
        /\ outages' = outages \/ outages' = outages \ {r}
    BY <1>11 DEF Rollback
  <2>2. release_step'[r] = "done" => ReleaseAt(r)'
    BY <1>11, <2>1 DEF ReleaseAt, Strategy, WasDone
  <2> QED
    BY <1>0, <2>1, <2>2, Proceeds
<1>12. CASE UNCHANGED relvars
  BY <1>12 DEF relvars, RelInv, RelTyped, ReleaseAt, Strategy, WasDone
<1> QED
  BY <1>0, <1>1, <1>2, <1>3, <1>4, <1>5, <1>6, <1>7, <1>8, <1>9, <1>10, <1>11, <1>12 DEF RelNext,
     ReleaseStep

LEMMA RelInvTells == RelInv => ReleaseTellsTruth
BY DEF RelInv, ReleaseAt, WasDone, ReleaseTellsTruth

-------------------------------------------------------------------------------
(* Tenants: calls that come one at a time. *)

CallSteps == {"none", "insert", "close", "remove", "run", "inspect", "commit", "done"}

TenantTyped == call \in [Calls -> CallSteps] /\ outcome \in [Calls -> {"unknown", "running", "failed"}]

\* What the row says is so, once no call is under way.
RowTrue == (tenant = "running" => box # "absent") /\ tenant # "provisioning"

\* What the one call under way finds.
CallAt(c) ==
    /\ call[c] \in {"insert", "close"} => RowTrue /\ c \notin attached
    /\ call[c] \in {"remove", "run"} => c \in attached
    /\ call[c] = "inspect" => RowTrue /\ c \in attached
    /\ call[c] = "commit" => /\ c \in attached
                             /\ outcome[c] = "running" => box # "absent"
                             /\ outcome[c] = "unknown" => RowTrue

Sequential ==
    /\ \A c, d \in UnderWay : c = d
    /\ \A c \in UnderWay : CallAt(c)
    /\ UnderWay = {} => RowTrue
    /\ attached \subseteq UnderWay

TenantInv == TenantTyped /\ (alone /\ ~tenant_cut => Sequential)

LEMMA TenantInvInit == TenantInit => TenantInv
BY DEF TenantInit, TenantInv, TenantTyped, CallSteps, Sequential, UnderWay, RowTrue

\* A call that begins alone finds no other.
LEMMA CallBegins ==
    ASSUME TenantInv, NEW c \in Calls, NEW first \in CallSteps \ {"none", "done"}, Begins(c, first)
    PROVE  /\ call' \in [Calls -> CallSteps] /\ call'[c] = first /\ c \in UnderWay'
           /\ alone' => alone /\ UnderWay = {} /\ UnderWay' = {c}
<1>1. call' = [call EXCEPT ![c] = first] /\ (alone' => alone /\ UnderWay = {})
  BY DEF Begins, Becomes
<1>2. call' \in [Calls -> CallSteps] /\ call'[c] = first /\ \A d \in Calls \ {c} : call'[d] = call[d]
  BY <1>1 DEF TenantInv, TenantTyped
<1>3. c \in UnderWay'
  BY <1>2 DEF UnderWay
<1>4. UnderWay = {} => UnderWay' = {c}
  BY <1>2 DEF UnderWay
<1> QED
  BY <1>1, <1>2, <1>3, <1>4

\* A step of the one call under way, to another of its steps or to its end.
LEMMA CallMoves ==
    ASSUME TenantInv, NEW c \in UnderWay, NEW next \in CallSteps \ {"none"}, Becomes(c, next)
    PROVE  /\ call' \in [Calls -> CallSteps] /\ call'[c] = next
           /\ Sequential => UnderWay = {c} /\ UnderWay' = IF next = "done" THEN {} ELSE {c}
<1>0. c \in Calls
  BY DEF UnderWay
<1>1. call' \in [Calls -> CallSteps] /\ call'[c] = next /\ \A d \in Calls \ {c} : call'[d] = call[d]
  BY <1>0 DEF TenantInv, TenantTyped, Becomes
<1>2. Sequential => UnderWay = {c}
  BY DEF Sequential
<1>3. UnderWay = {c} => UnderWay' = IF next = "done" THEN {} ELSE {c}
  BY <1>0, <1>1 DEF UnderWay
<1> QED
  BY <1>1, <1>2, <1>3

LEMMA TenantInvNext == TenantInv /\ [TenantNext]_tenantvars => TenantInv'
<1> SUFFICES ASSUME TenantInv, [TenantNext]_tenantvars PROVE TenantInv'
  OBVIOUS
<1>0. TenantTyped /\ (alone /\ ~tenant_cut => Sequential)
  BY DEF TenantInv
<1>1. \A first \in {"insert", "close", "remove", "run", "inspect", "commit"} : first \in CallSteps \ {"none", "done"}
  BY DEF CallSteps
<1>2. "done" \in CallSteps \ {"none"}
  BY DEF CallSteps
<1>3. \A c \in Calls : call[c] \in {"insert", "close", "remove", "run", "inspect", "commit"} => c \in UnderWay
  BY DEF UnderWay
\* A call that begins.
<1>4. ASSUME NEW c \in Calls, NEW first \in CallSteps \ {"none", "done"}, Begins(c, first),
             UNCHANGED <<outcome, tenant_cut>>,
             alone /\ ~tenant_cut /\ UnderWay = {} /\ RowTrue /\ attached = {} /\ call'[c] = first
               => CallAt(c)' /\ attached' \subseteq {c}
      PROVE  TenantInv'
  <2>1. /\ call' \in [Calls -> CallSteps] /\ call'[c] = first
        /\ alone' => alone /\ UnderWay = {} /\ UnderWay' = {c}
    BY <1>4, CallBegins
  <2>2. TenantTyped'
    BY <1>0, <1>4, <2>1 DEF TenantTyped
  <2>3. ASSUME alone', ~tenant_cut' PROVE Sequential'
    <3>1. alone /\ ~tenant_cut /\ UnderWay = {} /\ UnderWay' = {c}
      BY <1>4, <2>1, <2>3
    <3>2. RowTrue /\ attached = {}
      BY <1>0, <3>1 DEF Sequential
    <3> QED
      BY <1>4, <2>1, <3>1, <3>2 DEF Sequential
  <2> QED
    BY <2>2, <2>3 DEF TenantInv
\* A call that goes on, or ends.
<1>5. ASSUME NEW c \in Calls, c \in UnderWay, NEW next \in CallSteps \ {"none"}, Becomes(c, next),
             outcome' \in [Calls -> {"unknown", "running", "failed"}], UNCHANGED alone,
             tenant_cut => tenant_cut',
             Sequential /\ CallAt(c) /\ attached \subseteq {c} /\ call'[c] = next /\ ~tenant_cut'
               => /\ next # "done" => CallAt(c)' /\ attached' \subseteq {c}
                  /\ next = "done" => RowTrue' /\ attached' = {}
      PROVE  TenantInv'
  <2>1. /\ call' \in [Calls -> CallSteps] /\ call'[c] = next
        /\ Sequential => UnderWay = {c} /\ UnderWay' = IF next = "done" THEN {} ELSE {c}
    BY <1>5, CallMoves
  <2>2. TenantTyped'
    BY <1>5, <2>1 DEF TenantTyped
  <2>3. ASSUME alone', ~tenant_cut' PROVE Sequential'
    <3>1. Sequential /\ UnderWay = {c} /\ UnderWay' = IF next = "done" THEN {} ELSE {c}
      BY <1>0, <1>5, <2>1, <2>3
    <3>2. CallAt(c) /\ attached \subseteq {c}
      BY <3>1 DEF Sequential
    <3>3. /\ next # "done" => CallAt(c)' /\ attached' \subseteq {c}
          /\ next = "done" => RowTrue' /\ attached' = {}
      BY <1>5, <2>1, <2>3, <3>1, <3>2
    <3> QED
      BY <3>1, <3>3 DEF Sequential
  <2> QED
    BY <2>2, <2>3 DEF TenantInv
<1>6. ASSUME NEW c \in Calls, Register(c) PROVE TenantInv'
  <2>1. PICK first \in {"insert", "close"} : Begins(c, first)
    BY <1>6 DEF Register
  <2>2. UNCHANGED <<tenant, box, attached, outcome, tenant_cut>>
    BY <1>6 DEF Register
  <2>3. RowTrue /\ attached = {} /\ call'[c] = first => CallAt(c)' /\ attached' \subseteq {c}
    BY <2>1, <2>2 DEF RowTrue, CallAt
  <2> QED
    BY <1>1, <1>4, <2>1, <2>2, <2>3
<1>7. ASSUME NEW c \in Calls, Provision(c) PROVE TenantInv'
  <2>1. Begins(c, "remove") /\ attached' = attached \cup {c} /\ UNCHANGED <<outcome, tenant_cut>>
    BY <1>7 DEF Provision
  <2>2. attached = {} /\ call'[c] = "remove" => CallAt(c)' /\ attached' \subseteq {c}
    BY <2>1 DEF CallAt
  <2> QED
    BY <1>1, <1>4, <2>1, <2>2
<1>8. ASSUME NEW c \in Calls, RefreshStatus(c) PROVE TenantInv'
  <2>1. Begins(c, "inspect") /\ attached' = attached \cup {c} /\ UNCHANGED <<tenant, box, outcome, tenant_cut>>
    BY <1>8 DEF RefreshStatus
  <2>2. RowTrue /\ attached = {} /\ call'[c] = "inspect" => CallAt(c)' /\ attached' \subseteq {c}
    BY <2>1 DEF RowTrue, CallAt
  <2> QED
    BY <1>1, <1>4, <2>1, <2>2
<1>9. ASSUME NEW c \in Calls, Insert(c) PROVE TenantInv'
  <2>1. /\ call[c] = "insert" /\ Becomes(c, "close") /\ UNCHANGED <<box, attached, outcome, alone, tenant_cut>>
        /\ tenant' = tenant \/ tenant' = "pending"
    BY <1>9 DEF Insert
  <2>2. CallAt(c) /\ attached \subseteq {c} /\ call'[c] = "close" => CallAt(c)' /\ attached' \subseteq {c}
    BY <2>1 DEF RowTrue, CallAt
  <2> QED
    BY <1>0, <1>1, <1>3, <1>5, <2>1, <2>2 DEF TenantTyped
<1>10. ASSUME NEW c \in Calls, CloseSession(c) PROVE TenantInv'
  <2>1. /\ call[c] = "close" /\ Becomes(c, "done") /\ attached' = {} /\ UNCHANGED <<tenant, box, outcome, alone>>
        /\ tenant_cut => tenant_cut'
    BY <1>10 DEF CloseSession
  <2>2. CallAt(c) => RowTrue' /\ attached' = {}
    BY <2>1 DEF RowTrue, CallAt
  <2> QED
    BY <1>0, <1>2, <1>3, <1>5, <2>1, <2>2 DEF TenantTyped
<1>11. ASSUME NEW c \in Calls, RemoveBox(c) PROVE TenantInv'
  <2>1. call[c] = "remove" /\ Becomes(c, "run") /\ UNCHANGED <<tenant, attached, outcome, alone, tenant_cut>>
    BY <1>11 DEF RemoveBox
  <2>2. CallAt(c) /\ attached \subseteq {c} /\ call'[c] = "run" => CallAt(c)' /\ attached' \subseteq {c}
    BY <2>1 DEF CallAt
  <2> QED
    BY <1>0, <1>1, <1>3, <1>5, <2>1, <2>2 DEF TenantTyped
<1>12. ASSUME NEW c \in Calls, DeployDockerBox(c) PROVE TenantInv'
  <2>1. call[c] = "run" /\ Becomes(c, "commit") /\ UNCHANGED <<tenant, attached, alone, tenant_cut>>
    BY <1>12 DEF DeployDockerBox
  <2>2. \/ box' = "running" /\ outcome' = [outcome EXCEPT ![c] = "running"]
        \/ outcome' = [outcome EXCEPT ![c] = "failed"]
    BY <1>12 DEF DeployDockerBox
  <2>3. /\ outcome' \in [Calls -> {"unknown", "running", "failed"}]
        /\ outcome'[c] \in {"running", "failed"} /\ (outcome'[c] = "running" => box' # "absent")
    BY <1>0, <2>2 DEF TenantTyped
  <2>4. CallAt(c) /\ attached \subseteq {c} /\ call'[c] = "commit" => CallAt(c)' /\ attached' \subseteq {c}
    BY <2>1, <2>3 DEF CallAt
  <2> QED
    BY <1>1, <1>3, <1>5, <2>1, <2>3, <2>4
<1>13. ASSUME NEW c \in Calls, BoxStatus(c) PROVE TenantInv'
  <2>1. call[c] = "inspect" /\ Becomes(c, "commit") /\ UNCHANGED <<tenant, box, attached, alone, tenant_cut>>
    BY <1>13 DEF BoxStatus
  <2>2. PICK told \in {"unknown", "running", "failed"} :
          outcome' = [outcome EXCEPT ![c] = told] /\ (told = "running" => box = "running")
    BY <1>13 DEF BoxStatus
  <2>3. /\ outcome' \in [Calls -> {"unknown", "running", "failed"}]
        /\ outcome'[c] = "running" => box' # "absent"
    BY <1>0, <2>1, <2>2 DEF TenantTyped
  <2>4. CallAt(c) /\ attached \subseteq {c} /\ call'[c] = "commit" => CallAt(c)' /\ attached' \subseteq {c}
    BY <2>1, <2>3 DEF CallAt, RowTrue
  <2> QED
    BY <1>1, <1>3, <1>5, <2>1, <2>3, <2>4
<1>14. ASSUME NEW c \in Calls, CommitStatus(c) PROVE TenantInv'
  <2>1. /\ call[c] = "commit" /\ Becomes(c, "done") /\ UNCHANGED <<box, outcome, alone, tenant_cut>>
        /\ attached' = attached \ {c}
        /\ tenant' = IF c \in attached /\ outcome[c] # "unknown" THEN outcome[c] ELSE tenant
    BY <1>14 DEF CommitStatus
  <2>2. outcome[c] \in {"unknown", "running", "failed"}
    BY <1>0 DEF TenantTyped
  <2>3. CallAt(c) /\ attached \subseteq {c} => RowTrue' /\ attached' = {}
    BY <2>1, <2>2 DEF CallAt, RowTrue
  <2> QED
    BY <1>0, <1>2, <1>3, <1>5, <2>1, <2>3 DEF TenantTyped
<1>15. CASE BoxStops
  <2>1. box' = "exited" /\ UNCHANGED <<tenant, call, attached, outcome, alone, tenant_cut>>
    BY <1>15 DEF BoxStops
  <2>2. TenantTyped' /\ UnderWay' = UnderWay
    BY <1>0, <2>1 DEF TenantTyped, UnderWay
  <2>3. \A c \in Calls : CallAt(c) => CallAt(c)'
    BY <2>1 DEF CallAt, RowTrue
  <2>4. RowTrue => RowTrue'
    BY <2>1 DEF RowTrue
  <2>5. Sequential => Sequential'
    BY <2>1, <2>2, <2>3, <2>4 DEF Sequential, UnderWay
  <2> QED
    BY <1>0, <2>1, <2>2, <2>5 DEF TenantInv
<1>16. CASE TenantCrash
  <2>1. /\ call' = [c \in Calls |-> IF call[c] = "none" THEN "none" ELSE "done"]
        /\ tenant_cut' /\ UNCHANGED outcome
    BY <1>16 DEF TenantCrash
  <2>2. TenantTyped'
    BY <1>0, <2>1 DEF TenantTyped, CallSteps
  <2> QED
    BY <2>1, <2>2 DEF TenantInv
<1>17. CASE UNCHANGED tenantvars
  BY <1>17 DEF tenantvars, TenantInv, TenantTyped, Sequential, UnderWay, CallAt, RowTrue
<1> QED
  BY <1>6, <1>7, <1>8, <1>9, <1>10, <1>11, <1>12, <1>13, <1>14, <1>15, <1>16, <1>17
     DEF TenantNext, TenantStep

LEMMA TenantInvTells == TenantInv => TenantTellsTruth
BY DEF TenantInv, Sequential, RowTrue, TenantTellsTruth

-------------------------------------------------------------------------------
(* PerformanceMonitor: loops that overlap, and percentiles. *)

\* There is a place for the percentile, and it leaves at most its share behind.
LEMMA RankInside ==
    ASSUME NEW n \in Nat \ {0}
    PROVE  Rank(n) \in 1..n /\ 100 * Rank(n) >= Percent * n
<1> DEFINE x == n * Percent
           index == x \div 100
<1>1. Percent \in Nat /\ Percent <= 100
  BY PerformanceAssumption
<1>2. x \in Nat /\ x = Percent * n
  BY <1>1
<1>3. Rank(n) = IF index < n THEN index + 1 ELSE n
  BY DEF Rank
<1> HIDE DEF x
<1>4. index \in Nat /\ 100 * (index + 1) >= x
  BY <1>2
<1>5. 100 * n >= x
  <2>1. PICK d \in Nat : 100 = Percent + d
    <3>1. 100 - Percent \in Nat /\ 100 = Percent + (100 - Percent)
      BY <1>1
    <3> QED
      BY <3>1
  <2>2. 100 * n = Percent * n + d * n /\ d * n \in Nat
    BY <1>1, <2>1
  <2> QED
    BY <1>2, <2>2
<1> HIDE DEF index
<1> QED
  BY <1>2, <1>3, <1>4, <1>5

\* Of finitely many values one is the greatest; here, that they have a bound.
LEMMA ValuesBelow ==
    ASSUME NEW kept, IsFiniteSet(kept), \A s \in kept : s[2] \in Nat
    PROVE  \E b \in Nat : \A s \in kept : s[2] <= b
<1>1. PICK n \in Nat : ExistsSurjection(1..n, kept)
  BY FS_NatSurjection
<1>2. PICK f \in Surjection(1..n, kept) : TRUE
  BY <1>1 DEF ExistsSurjection
<1>3. f \in [1..n -> kept] /\ \A s \in kept : \E i \in 1..n : f[i] = s
  BY <1>2 DEF Surjection
<1> DEFINE Bounded == {m \in Nat : m <= n => \E b \in Nat : \A i \in 1..m : f[i][2] <= b}
<1>4. 0 \in Bounded
  OBVIOUS
<1>5. ASSUME NEW m \in Nat, m \in Bounded PROVE m + 1 \in Bounded
  <2>1. SUFFICES ASSUME m + 1 <= n PROVE \E b \in Nat : \A i \in 1..(m + 1) : f[i][2] <= b
    OBVIOUS
  <2>2. PICK b \in Nat : \A i \in 1..m : f[i][2] <= b
    BY <1>5, <2>1
  <2>3. f[m + 1][2] \in Nat
    BY <1>3, <2>1
  <2>4. PICK c \in Nat : b <= c /\ f[m + 1][2] <= c
    BY <2>3
  <2>5. \A i \in 1..m : f[i][2] \in Nat
    BY <1>3, <2>1
  <2>6. \A i \in 1..(m + 1) : f[i][2] <= c
    BY <2>2, <2>4, <2>5
  <2> QED
    BY <2>6
<1>6. n \in Bounded
  BY <1>4, <1>5, NaturalsReached
<1>7. PICK b \in Nat : \A i \in 1..n : f[i][2] <= b
  <2>1. n <= n => \E b \in Nat : \A i \in 1..n : f[i][2] <= b
    BY <1>6
  <2> QED
    BY <2>1, n <= n
<1> QED
  BY <1>3, <1>7

\* The percentile is one of the values, and as many as its place says are at or below it.
LEMMA PercentileRanked ==
    ASSUME NEW kept, IsFiniteSet(kept), kept # {}, \A s \in kept : s[2] \in Nat
    PROVE  /\ Percentile(kept) \in Nat
           /\ Cardinality({s \in kept : s[2] <= Percentile(kept)}) \in Nat
           /\ Cardinality({s \in kept : s[2] <= Percentile(kept)}) >= Rank(Cardinality(kept))
<1> DEFINE Within(v) == {s \in kept : s[2] <= v}
           Under(v) == {s \in kept : s[2] < v}
           k == Rank(Cardinality(kept))
           Enough == {v \in Nat : Cardinality(Within(v)) >= k}
<1>1. Cardinality(kept) \in Nat \ {0}
  BY FS_CardinalityType, FS_EmptySet
<1>2. k \in 1..Cardinality(kept) /\ k \in Nat /\ k >= 1
  BY <1>1, RankInside
<1>3. \A v : Cardinality(Within(v)) \in Nat /\ Cardinality(Under(v)) \in Nat
  <2> TAKE v
  <2>1. Within(v) \subseteq kept /\ Under(v) \subseteq kept
    OBVIOUS
  <2>2. IsFiniteSet(Within(v)) /\ IsFiniteSet(Under(v))
    BY <2>1, FS_Subset
  <2> QED
    BY <2>2, FS_CardinalityType
<1>4. Enough # {}
  <2>1. PICK b \in Nat : \A s \in kept : s[2] <= b
    BY ValuesBelow
  <2>2. Within(b) = kept
    BY <2>1
  <2> HIDE DEF Within, Under, k
  <2>3. Cardinality(Within(b)) >= k
    BY <1>1, <1>2, <2>2
  <2> QED
    BY <2>3
<1>5. PICK v \in Enough : \A w \in Enough : v <= w
  BY <1>4, LeastNumber
<1>6. Cardinality(Under(v)) < k
  <2>1. CASE v = 0
    <3>1. Under(v) = {}
      BY <2>1
    <3> HIDE DEF Within, Under, k
    <3> QED
      BY <1>2, <3>1, FS_EmptySet
  <2>2. CASE v # 0
    <3>1. v - 1 \in Nat /\ v - 1 \notin Enough
      BY <1>5, <2>2
    <3>2. Under(v) = Within(v - 1)
      BY <1>5, <2>2
    <3>3. ~(Cardinality(Within(v - 1)) >= k)
      BY <3>1
    <3> HIDE DEF Within, Under, k
    <3> QED
      BY <1>2, <1>3, <3>2, <3>3
  <2> QED
    BY <2>1, <2>2
<1>7. v \in {s[2] : s \in kept}
  <2>1. SUFFICES ASSUME \A s \in kept : s[2] # v PROVE FALSE
    OBVIOUS
  <2>2. Within(v) = Under(v)
    BY <1>5, <2>1
  <2>3. Cardinality(Within(v)) >= k
    BY <1>5
  <2> HIDE DEF Within, Under, k
  <2> QED
    BY <1>2, <1>3, <1>6, <2>2, <2>3
<1>8. \E w \in {s[2] : s \in kept} : Cardinality(Under(w)) < k /\ Cardinality(Within(w)) >= k
  BY <1>5, <1>6, <1>7
<1>9. Percentile(kept) = CHOOSE w \in {s[2] : s \in kept} : Cardinality(Under(w)) < k /\ Cardinality(Within(w)) >= k
  BY DEF Percentile
<1> DEFINE p == Percentile(kept)
<1>10. p \in {s[2] : s \in kept} /\ Cardinality(Within(p)) >= k
  BY <1>8, <1>9
<1> QED
  BY <1>3, <1>10

PerfTyped ==
    /\ \A m \in Watched : IsFiniteSet(samples[m]) /\ \A s \in samples[m] : s[2] \in Nat
    /\ DOMAIN perf_report \subseteq Watched
    /\ \A m \in DOMAIN perf_report : perf_report[m] \in Nat

LEMMA PerfInvInit == PerfInit => PerfTyped /\ AlertsMatchSamples
<1> SUFFICES ASSUME PerfInit PROVE PerfTyped /\ AlertsMatchSamples
  OBVIOUS
<1>1. \A m \in Watched : samples[m] = {}
  BY DEF PerfInit
<1>2. DOMAIN perf_report = {}
  BY DEF PerfInit
<1> QED
  BY <1>1, <1>2, FS_EmptySet DEF PerfInit, PerfTyped, AlertsMatchSamples

LEMMA PerfInvNext == PerfTyped /\ AlertsMatchSamples /\ [PerfNext]_perfvars => PerfTyped' /\ AlertsMatchSamples'
<1> SUFFICES ASSUME PerfTyped, AlertsMatchSamples, [PerfNext]_perfvars PROVE PerfTyped' /\ AlertsMatchSamples'
  OBVIOUS
<1>1. ASSUME NEW l \in Loops, CollectMetrics(l) PROVE PerfTyped' /\ AlertsMatchSamples'
  <2>1. PICK values \in [Watched -> Values] :
          samples' = [m \in Watched |-> {s \in samples[m] \cup {<<clock', values[m]>>} : s[1] > clock' - Day}]
    BY <1>1 DEF CollectMetrics
  <2>2. UNCHANGED <<alerts, advised, perf_report>>
    BY <1>1 DEF CollectMetrics
  <2>3. ASSUME NEW m \in Watched PROVE IsFiniteSet(samples'[m]) /\ \A s \in samples'[m] : s[2] \in Nat
    <3>1. samples'[m] \subseteq samples[m] \cup {<<clock', values[m]>>}
      BY <2>1
    <3>2. IsFiniteSet(samples[m] \cup {<<clock', values[m]>>})
      BY FS_AddElement DEF PerfTyped
    <3>3. values[m] \in Nat
      BY PerformanceAssumption
    <3> QED
      BY <3>1, <3>2, <3>3, FS_Subset DEF PerfTyped
  <2> QED
    BY <2>2, <2>3 DEF PerfTyped, AlertsMatchSamples
<1>2. ASSUME NEW l \in Loops, CheckThresholds(l) PROVE PerfTyped' /\ AlertsMatchSamples'
  <2> DEFINE round == <<l, taken[l], sample[l]>>
  <2>1. /\ alerts' = alerts \cup {CreateAlert(l, m) : m \in Exceeding(sample[l])}
        /\ advised' = advised \cup {round} /\ UNCHANGED <<samples, perf_report>>
    BY <1>2 DEF CheckThresholds
  <2>2. round[1] = l /\ round[2] = taken[l] /\ round[3] = sample[l]
    OBVIOUS
  <2> HIDE DEF round
  <2>3. \A r \in advised' : \A m \in Watched :
          Level(m, r[3][m]) # "none" =>
             [metric |-> m, level |-> Level(m, r[3][m]), time |-> r[2], by |-> r[1]] \in alerts'
    <3>1. \A m \in Watched : Level(m, round[3][m]) # "none" =>
             [metric |-> m, level |-> Level(m, round[3][m]), time |-> round[2], by |-> round[1]] \in alerts'
      BY <2>1, <2>2 DEF Exceeding, CreateAlert
    <3>2. \A r \in advised : \A m \in Watched :
            Level(m, r[3][m]) # "none" =>
               [metric |-> m, level |-> Level(m, r[3][m]), time |-> r[2], by |-> r[1]] \in alerts
      BY DEF AlertsMatchSamples
    <3> QED
      BY <2>1, <3>1, <3>2
  <2>4. \A a \in alerts' : \E r \in advised' :
          r[1] = a.by /\ r[2] = a.time /\ Level(a.metric, r[3][a.metric]) = a.level
    <3>1. \A m \in Watched :
            /\ CreateAlert(l, m).by = round[1] /\ CreateAlert(l, m).time = round[2] /\ CreateAlert(l, m).metric = m
            /\ CreateAlert(l, m).level = Level(m, round[3][m])
      BY <2>2 DEF CreateAlert
    <3>2. \A a \in alerts : \E r \in advised :
            r[1] = a.by /\ r[2] = a.time /\ Level(a.metric, r[3][a.metric]) = a.level
      BY DEF AlertsMatchSamples
    <3> QED
      BY <2>1, <3>1, <3>2 DEF Exceeding
  <2> QED
    BY <2>1, <2>3, <2>4 DEF PerfTyped, AlertsMatchSamples
<1>3. CASE GenerateReport
  <2>1. /\ perf_report' = [m \in {m \in Watched : samples[m] # {}} |-> Percentile(samples[m])]
        /\ UNCHANGED <<samples, alerts, advised>>
    BY <1>3 DEF GenerateReport
  <2>2. \A m \in Watched : samples[m] # {} => Percentile(samples[m]) \in Nat
    BY PercentileRanked DEF PerfTyped
  <2>3. DOMAIN perf_report' \subseteq Watched /\ \A m \in DOMAIN perf_report' : perf_report'[m] \in Nat
    BY <2>1, <2>2
  <2> QED
    BY <2>1, <2>3 DEF PerfTyped, AlertsMatchSamples
<1>4. ASSUME UNCHANGED <<samples, alerts, advised, perf_report>> PROVE PerfTyped' /\ AlertsMatchSamples'
  BY <1>4 DEF PerfTyped, AlertsMatchSamples
<1>5. ASSUME NEW l \in Loops, StartMonitoring(l) \/ CollectFails(l) \/ AdviceFails(l) \/ Wake(l)
      PROVE  PerfTyped' /\ AlertsMatchSamples'
  BY <1>4, <1>5 DEF StartMonitoring, CollectFails, AdviceFails, Wake
<1>6. CASE StopMonitoring
  BY <1>4, <1>6 DEF StopMonitoring
<1>7. CASE UNCHANGED perfvars
  BY <1>4, <1>7 DEF perfvars
<1> QED
  BY <1>1, <1>2, <1>3, <1>5, <1>6, <1>7 DEF PerfNext, LoopStep

\* Scores and bottlenecks come from one comparison, and shares from the rank.
LEMMA PerfTells == PerfTyped => ReportsAgree
<1> SUFFICES ASSUME PerfTyped PROVE ReportsAgree
  OBVIOUS
<1>1. ASSUME NEW m \in DOMAIN perf_report
      PROVE  m \in Bottlenecks <=> CalculatePerformanceScore(m) < 70 * Warning[m]
  <2>1. perf_report[m] \in Nat /\ Warning[m] \in Nat \ {0}
    BY PerformanceAssumption DEF PerfTyped
  <2> QED
    BY <2>1 DEF Bottlenecks, CalculatePerformanceScore
<1>2. ASSUME NEW m \in Watched, samples[m] # {}
      PROVE  100 * Cardinality({s \in samples[m] : s[2] <= Percentile(samples[m])})
               >= Percent * Cardinality(samples[m])
  <2> DEFINE n == Cardinality(samples[m])
             below == Cardinality({s \in samples[m] : s[2] <= Percentile(samples[m])})
  <2>1. n \in Nat \ {0}
    BY <1>2, FS_CardinalityType, FS_EmptySet DEF PerfTyped
  <2>2. below \in Nat /\ below >= Rank(n)
    BY <1>2, PercentileRanked DEF PerfTyped
  <2>3. Rank(n) \in Nat /\ 100 * Rank(n) >= Percent * n /\ Percent * n \in Nat
    BY <2>1, RankInside, PerformanceAssumption
  <2> HIDE DEF n, below
  <2>4. 100 * below >= Percent * n
    BY <2>2, <2>3
  <2> QED
    BY <2>4 DEF n, below
<1> QED
  BY <1>1, <1>2 DEF ReportsAgree

-------------------------------------------------------------------------------
(* The parts side by side. *)

\* A step of the whole is a step of one part, and the others stutter.
LEMMA PartsMove ==
    [Next]_mcvars => /\ [TicketNext]_ticketvars /\ [TenantNext]_tenantvars
                     /\ [MailNext]_mailvars /\ [ProspectNext]_prospectvars /\ [CiNext]_civars
                     /\ [RelNext]_relvars /\ [PerfNext]_perfvars
<1> SUFFICES ASSUME [Next]_mcvars
             PROVE  /\ [TicketNext]_ticketvars /\ [TenantNext]_tenantvars
                    /\ [MailNext]_mailvars /\ [ProspectNext]_prospectvars /\ [CiNext]_civars
                    /\ [RelNext]_relvars /\ [PerfNext]_perfvars
  OBVIOUS
<1>1. CASE UNCHANGED mcvars
  BY <1>1 DEF mcvars
<1>2. ASSUME NEW part \in Parts, Alone(part)
      PROVE  /\ part # "tickets" => UNCHANGED ticketvars
             /\ part # "tenants" => UNCHANGED tenantvars
             /\ part # "mail" => UNCHANGED mailvars
             /\ part # "prospects" => UNCHANGED prospectvars
             /\ part # "pipeline" => UNCHANGED civars
             /\ part # "release" => UNCHANGED relvars
             /\ part # "performance" => UNCHANGED perfvars
  BY <1>2 DEF Alone, Still
<1>3. CASE Next
  BY <1>2, <1>3 DEF Next, Parts
<1> QED
  BY <1>1, <1>3

\* Whatever else goes on: crawls and leads, the outbox, and the retries of tickets
\* stay within their bounds.
THEOREM WorkStaysBounded == Spec => []WorkBounded
<1>1. Init => /\ CrawlInv /\ LeadInv /\ OneLeadPerAddress /\ MailInv /\ TicketInv
  BY ProspectInvInit, MailInvInit, TicketInvInit DEF Init
<1>2. CrawlInv /\ OneLeadPerAddress /\ MailInv /\ TicketInv => WorkBounded
  BY CrawlHolds, MailInvHolds, TicketInvTells DEF WorkBounded
<1> QED
  BY <1>1, <1>2, PartsMove, ProspectInvNext, MailInvNext, TicketInvNext, PTL DEF Spec
\* Whatever overlaps: what is released to production was tested, and the answers of
\* releases, of the tenants' table, of alerts and of reports are true.
THEOREM RunsTold == Spec => []RunsTellTruth
<1>1. Init => CiTyped /\ CiInv /\ RelInv /\ TenantInv /\ PerfTyped /\ AlertsMatchSamples
  BY CiInvInit, RelInvInit, TenantInvInit, PerfInvInit DEF Init
<1>2. CiTyped /\ CiInv /\ RelInv /\ TenantInv /\ PerfTyped /\ AlertsMatchSamples => RunsTellTruth
  BY CiInvTells, RelInvTells, TenantInvTells, PerfTells DEF RunsTellTruth
<1> QED
  BY <1>1, <1>2, PartsMove, CiInvNext, RelInvNext, TenantInvNext, PerfInvNext, PTL DEF Spec
===============================================================================
