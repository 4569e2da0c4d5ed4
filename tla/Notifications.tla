----------------------------- MODULE Notifications -----------------------------
(***************************************************************************)
(* System events and their notifications: the dispatch of                  *)
(* backend/services/event_bus.py, notification_service.py, the tasks of    *)
(* backend/tasks/notification_tasks.py and the sockets of backend/api/ws.py.*)
(*                                                                         *)
(* A broadcast commits one notification per admin.  As an event handler it *)
(* ends at the first error; as a Celery task it is repeated from the start.*)
(* A push walks over a copy of the user's list of sockets and waits at     *)
(* each; meanwhile sockets come, go and break.                             *)
(***************************************************************************)
EXTENDS Integers, FiniteSets, SequencesExt

CONSTANTS
    Admins,         \* active users with an admin role
    Broadcasts,     \* system events
    BroadcastRetries, \* max_retries of broadcast_event
    Sockets,        \* connections of one user, or of one thread
    Pushes,         \* payloads for that user
    MaxNoteFaults   \* failed commits and lost workers

ASSUME NotificationsAssumption == MaxNoteFaults \in Nat

VARIABLES
    via,            \* of each broadcast: "none", "handler" or "task"
    notify,         \* of each broadcast: "idle", "busy", "ok" or "failed"
    unnotified,     \* of each broadcast: admins its list still has
    repeats,        \* of each broadcast: how often it was repeated
    notes,          \* notifications of each broadcast each admin has
    connections,    \* _user_connections of the user
    socket,         \* of each socket: "new", "open", "closed" or "gone"
    targets,        \* of each push: the copy it walks over
    position,       \* of each push: how many it has tried, -1 before
    received,       \* history: sockets each push reached
    note_faults

bvars == <<via, notify, unnotified, repeats, notes>>
svars == <<connections, socket, targets, position, received>>
notevars == <<bvars, svars, note_faults>>

NoteInit ==
    /\ via = [b \in Broadcasts |-> "none"]
    /\ notify = [b \in Broadcasts |-> "idle"]
    /\ unnotified = [b \in Broadcasts |-> {}]
    /\ repeats = [b \in Broadcasts |-> 0]
    /\ notes = [b \in Broadcasts |-> [a \in Admins |-> 0]]
    /\ connections = <<>>
    /\ socket = [s \in Sockets |-> "new"]
    /\ targets = [p \in Pushes |-> <<>>]
    /\ position = [p \in Pushes |-> -1]
    /\ received = [p \in Pushes |-> {}]
    /\ note_faults = MaxNoteFaults

NoteFault == note_faults > 0 /\ note_faults' = note_faults - 1

-------------------------------------------------------------------------------
(* Broadcasts. *)

\* publish calls the handler of a workflow event, or a broadcast_event task starts.
Publish(b) ==
    /\ via[b] = "none"
    /\ \E how \in {"handler", "task"} : via' = [via EXCEPT ![b] = how]
    /\ notify' = [notify EXCEPT ![b] = "busy"]
    /\ unnotified' = [unnotified EXCEPT ![b] = Admins]
    /\ UNCHANGED <<repeats, notes, svars, note_faults>>

CreateNotification(b, a) ==
    /\ notify[b] = "busy" /\ a \in unnotified[b]
    /\ notes' = [notes EXCEPT ![b][a] = @ + 1]
    /\ unnotified' = [unnotified EXCEPT ![b] = @ \ {a}]
    /\ notify' = [notify EXCEPT ![b] = IF unnotified'[b] = {} THEN "ok" ELSE "busy"]
    /\ UNCHANGED <<via, repeats, svars, note_faults>>

\* The list is made again from the start.
Again(b) == unnotified' = [unnotified EXCEPT ![b] = Admins]

\* A commit fails: the handler's error is logged, the task is retried.
BroadcastFails(b) ==
    /\ notify[b] = "busy" /\ NoteFault
    /\ IF via[b] = "task" /\ repeats[b] < BroadcastRetries
       THEN Again(b) /\ repeats' = [repeats EXCEPT ![b] = @ + 1] /\ UNCHANGED notify
       ELSE notify' = [notify EXCEPT ![b] = "failed"] /\ UNCHANGED <<unnotified, repeats>>
    /\ UNCHANGED <<via, notes, svars>>

\* A lost worker's task is delivered again; a lost process ends its handlers.
BroadcastLost(b) ==
    /\ notify[b] = "busy" /\ NoteFault
    /\ IF via[b] = "task"
       THEN Again(b) /\ UNCHANGED notify
       ELSE notify' = [notify EXCEPT ![b] = "failed"] /\ UNCHANGED unnotified
    /\ UNCHANGED <<via, repeats, notes, svars>>

BroadcastStep(b) == \E a \in Admins : CreateNotification(b, a)

-------------------------------------------------------------------------------
(* Sockets. *)

ConnectUser(s) ==
    /\ socket[s] = "new"
    /\ socket' = [socket EXCEPT ![s] = "open"]
    /\ connections' = Append(connections, s)
    /\ UNCHANGED <<bvars, targets, position, received, note_faults>>

\* external: the client closes the socket, or its handler dies of another exception
\* than a disconnect, which removes nothing.
SocketCloses(s) ==
    /\ socket[s] = "open"
    /\ \E how \in {"closed", "gone"} : socket' = [socket EXCEPT ![s] = how]
    /\ UNCHANGED <<bvars, connections, targets, position, received, note_faults>>

\* The list without s, which it holds at most once.
Without(s) ==
    IF s \in Range(connections)
    THEN RemoveAt(connections, CHOOSE i \in DOMAIN connections : connections[i] = s)
    ELSE connections

DisconnectUser(s) ==
    /\ socket[s] = "closed"
    /\ socket' = [socket EXCEPT ![s] = "gone"]
    /\ connections' = Without(s)
    /\ UNCHANGED <<bvars, targets, position, received, note_faults>>

StartPush(p) ==
    /\ position[p] = -1
    /\ position' = [position EXCEPT ![p] = 0]
    /\ targets' = [targets EXCEPT ![p] = connections]
    /\ UNCHANGED <<bvars, connections, socket, received, note_faults>>

\* Faulty variant: the list itself, which others shorten meanwhile.
ListLive(p) == connections

\* What a push walks over: its copy.
List(p) == targets[p]
Pushing(p) == position[p] >= 0 /\ position[p] < Len(List(p))

\* send_to_user: a socket that raises is removed.
SendToUser(p) ==
    /\ Pushing(p)
    /\ LET s == List(p)[position[p] + 1] IN
         IF socket[s] = "open"
         THEN received' = [received EXCEPT ![p] = @ \cup {s}] /\ UNCHANGED connections
         ELSE connections' = Without(s) /\ UNCHANGED received
    /\ position' = [position EXCEPT ![p] = @ + 1]
    /\ UNCHANGED <<bvars, socket, targets, note_faults>>

NoteNext ==
    \/ \E b \in Broadcasts : Publish(b) \/ BroadcastStep(b) \/ BroadcastFails(b) \/ BroadcastLost(b)
    \/ \E s \in Sockets : ConnectUser(s) \/ SocketCloses(s) \/ DisconnectUser(s)
    \/ \E p \in Pushes : StartPush(p) \/ SendToUser(p)

-------------------------------------------------------------------------------
(* Properties. *)

\* A broadcast that ended well notified every admin, and none more often than it
\* was started: once, and once more for each retry and redelivery.
BroadcastComplete ==
    \A b \in Broadcasts, a \in Admins :
        /\ notify[b] = "ok" => notes[b][a] >= 1
        /\ notes[b][a] <= 1 + MaxNoteFaults
        /\ via[b] = "handler" => notes[b][a] <= 1

\* A push reaches every socket that was connected when it began and is still open,
\* whichever sockets left the list while it waited.
PushReachesOpen ==
    \A p \in Pushes :
        position[p] >= 0 /\ ~Pushing(p) =>
            \A s \in Range(targets[p]) : socket[s] = "open" => s \in received[p]
===============================================================================
