------------------------------ MODULE LinearIssues ------------------------------
(***************************************************************************)
(* The client of the Linear API in agents/ticketing/linear_integration.py. *)
(* The API is external: it has the issues and the workflow states, which   *)
(* the team may rename, and it may fail before or after it did its work.   *)
(* A status is the name of a state, with the case and spaces taken out.    *)
(***************************************************************************)
EXTENDS Integers, FiniteSets

CONSTANTS
    Issues,     \* issues that may be created
    StateIds,   \* workflow states of the team
    Requests,   \* calls of update_issue
    MaxRenames  \* renames of states

Statuses == {"backlog", "todo", "in_progress", "in_review", "done", "canceled"}
Priorities == {"urgent", "high", "medium", "low", "no_priority"}
Nothing == "null"

ASSUME LinearAssumption == Nothing \notin StateIds

VARIABLES
    states,       \* external: of each state [name, type]
    issue,        \* external: of each issue [state, priority, assignee, project], or <<>>
    state_cache,  \* of each status the cached state, or Nothing
    created,      \* of each issue what create_issue did: "none", "returned", "raised"
    update,       \* of each call [at, issue, status, state]
    renames,
    matched       \* history: pairs <<status, state>> that matched in a lookup

linearvars == <<states, issue, state_cache, created, update, renames, matched>>

PriorityToNumber(p) ==
    CASE p = "urgent" -> 1 [] p = "high" -> 2 [] p = "medium" -> 3 [] p = "low" -> 4 [] OTHER -> 0
NumberToPriority(n) ==
    CASE n = 1 -> "urgent" [] n = 2 -> "high" [] n = 3 -> "medium" [] n = 4 -> "low"
      [] OTHER -> "no_priority"

\* _parse_issue raises when the API answers null for the assignee or the project,
\* or when the state has a name of the team's own.
ParseIssue(i) ==
    /\ i.assignee # Nothing /\ i.project # Nothing
    /\ states[i.state].name \in Statuses

GetIssueReturns(i) == issue[i] # <<>> /\ ParseIssue(issue[i])
\* One issue that cannot be parsed fails the list.
ListIssuesReturns == \A i \in Issues : issue[i] # <<>> => ParseIssue(issue[i])

TypeMap(status) ==
    CASE status = "done" -> "completed" [] status = "canceled" -> "cancelled"
      [] status \in {"in_progress", "in_review"} -> "started"
      [] status = "backlog" -> "backlog" [] OTHER -> "unstarted"

\* A state of that name, else one of the type, else none.
Matching(status) ==
    LET named == {s \in StateIds : states[s].name = status}
    IN  IF named # {} THEN named ELSE {s \in StateIds : states[s].type = TypeMap(status)}

-------------------------------------------------------------------------------

LinearInit ==
    /\ states \in [StateIds -> [name : {"todo", "other"}, type : {"unstarted", "started"}]]
    /\ issue = [i \in Issues |-> <<>>]
    /\ state_cache = [s \in Statuses |-> Nothing]
    /\ created = [i \in Issues |-> "none"]
    /\ update = [u \in Requests |-> [at |-> "none", issue |-> Nothing, status |-> "todo", state |-> Nothing]]
    /\ renames = 0
    /\ matched = {}

\* The call may fail before the issue is made, after it, or in _parse_issue.
CreateIssue(i, priority, assignee, project) ==
    LET new(s) == [state |-> s, priority |-> PriorityToNumber(priority),
                   assignee |-> assignee, project |-> project]
    IN  /\ created[i] = "none"
        /\ \/ created' = [created EXCEPT ![i] = "raised"] /\ UNCHANGED issue
           \/ \E s \in StateIds, answered \in BOOLEAN :
                /\ issue' = [issue EXCEPT ![i] = new(s)]
                /\ created' = [created EXCEPT ![i] =
                                 IF answered /\ ParseIssue(new(s)) THEN "returned" ELSE "raised"]
        /\ UNCHANGED <<states, state_cache, update, renames, matched>>

UpdateTo(u, at) == update' = [update EXCEPT ![u].at = at]

\* update_issue with a status.
BeginUpdate(u, i, status) ==
    /\ update[u].at = "none" /\ issue[i] # <<>>
    /\ update' = [update EXCEPT ![u] =
                    IF state_cache[status] # Nothing
                    THEN [at |-> "send", issue |-> i, status |-> status, state |-> state_cache[status]]
                    ELSE [at |-> "lookup", issue |-> i, status |-> status, state |-> Nothing]]
    /\ UNCHANGED <<states, issue, state_cache, created, renames, matched>>

\* _get_state_id: a lookup that fails or matches nothing leaves the name itself.
GetStateId(u) ==
    /\ update[u].at = "lookup"
    /\ \/ \E s \in Matching(update[u].status) :
            /\ update' = [update EXCEPT ![u].at = "send", ![u].state = s]
            /\ state_cache' = [state_cache EXCEPT ![update[u].status] = s]
            /\ matched' = matched \cup {<<update[u].status, s>>}
       \/ UpdateTo(u, "send") /\ UNCHANGED <<state_cache, matched>>
    /\ UNCHANGED <<states, issue, created, renames>>

\* external: the API moves the issue, or refuses a state it does not have.
UpdateIssue(u) ==
    /\ update[u].at = "send" /\ update[u].state \in StateIds
    /\ issue' = [issue EXCEPT ![update[u].issue].state = update[u].state]
    /\ UpdateTo(u, "sent")
    /\ UNCHANGED <<states, state_cache, created, renames, matched>>

\* The answer is the issue as it is now.
UpdateReturns(u) ==
    /\ update[u].at = "sent"
    /\ UpdateTo(u, IF ParseIssue(issue[update[u].issue]) THEN "returned" ELSE "raised")
    /\ UNCHANGED <<states, issue, state_cache, created, renames, matched>>

\* _execute_query logs what failed and raises.
ExecuteQueryRaises(u) ==
    /\ update[u].at \in {"send", "sent"}
    /\ UpdateTo(u, "raised")
    /\ UNCHANGED <<states, issue, state_cache, created, renames, matched>>

\* external: the team renames a state.
Rename(s, name) ==
    /\ renames < MaxRenames
    /\ renames' = renames + 1
    /\ states' = [states EXCEPT ![s].name = name]
    /\ UNCHANGED <<issue, state_cache, created, update, matched>>

LinearNext ==
    \/ \E i \in Issues, p \in {"medium", "urgent"}, a, q \in {"a1", Nothing} : CreateIssue(i, p, a, q)
    \/ \E u \in Requests, i \in Issues, s \in {"todo", "in_progress"} : BeginUpdate(u, i, s)
    \/ \E u \in Requests : GetStateId(u) \/ UpdateIssue(u) \/ UpdateReturns(u) \/ ExecuteQueryRaises(u)
    \/ \E s \in StateIds, name \in {"in_progress", "other"} : Rename(s, name)

-------------------------------------------------------------------------------
(* Properties. *)

\* States are renamed under the cache and calls overlap, and still an update sends
\* an issue only to a state that once matched the status asked for.
MovedWhereAsked ==
    \A u \in Requests : update[u].at = "sent" => <<update[u].status, update[u].state>> \in matched

\* One status always goes to one state that still exists: a cached entry matched.
CacheWasMatched ==
    \A s \in Statuses : state_cache[s] # Nothing => <<s, state_cache[s]>> \in matched

\* An issue whose creation returned can be read, and listed where every creation
\* returned, as long as the team leaves its state a name the code knows; and a
\* priority reads back as it was set.
CreatedReadsBack ==
    LET Named(i) == issue[i] # <<>> => states[issue[i].state].name \in Statuses
    IN  /\ \A i \in Issues : created[i] = "returned" /\ Named(i) => GetIssueReturns(i)
        /\ (\A i \in Issues : created[i] # "raised" /\ Named(i)) => ListIssuesReturns
        /\ \A p \in Priorities : NumberToPriority(PriorityToNumber(p)) = p
===============================================================================
