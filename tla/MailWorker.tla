------------------------------- MODULE MailWorker -------------------------------
(***************************************************************************)
(* The outreach worker: agents/outreach/worker.py, the queue of            *)
(* backend/task_queue.py and send_email of agents/outreach/email_engine.py.*)
(*                                                                         *)
(* Letters wait in a queue.  One thread of the process takes them, sends   *)
(* them, and puts back those that failed, with one attempt more.  Stopping *)
(* sets an event the thread looks at between letters and waits for it for  *)
(* some seconds only; starting does nothing while the old thread lives.    *)
(***************************************************************************)
EXTENDS Integers, FiniteSets, Sequences

CONSTANTS
    Letters,       \* letters of the campaigns
    Threads,       \* worker threads the process may create
    MaxRetries,    \* OUTREACH_MAX_RETRIES
    Tries,         \* attempts of one send_email: providers times retries
    Durable,       \* whether the queue is in Redis and survives the process
    MaxMailFaults  \* errors of the queue and crashes of the process

\* _worker_thread without a thread.
Nobody == "nobody"

ASSUME MailAssumption == Nobody \notin Threads /\ MaxRetries \in Nat /\ Tries \in Nat

VARIABLES
    queue,     \* what the queue holds: letters with their attempts
    hand,      \* of each thread: the letter it works on, with its attempts
    thread,    \* of each thread: "new", "loop", "send", "backoff" or "dead"
    worker,    \* _worker_thread
    stopping,  \* threads whose stop event is set
    mocked,    \* whether no provider has a password
    mails,     \* history: how often each letter reached its recipient
    settled,   \* history: letters sent, given up or lost
    mail_faults

mailvars == <<queue, hand, thread, worker, stopping, mocked, mails, settled, mail_faults>>

Running == {t \in Threads : thread[t] \in {"loop", "send", "backoff"}}

MailInit ==
    /\ queue = <<>>
    /\ hand = [t \in Threads |-> <<>>]
    /\ thread = [t \in Threads |-> "new"]
    /\ worker = Nobody
    /\ stopping = {}
    /\ mocked \in BOOLEAN
    /\ mails = [l \in Letters |-> 0]
    /\ settled = {}
    /\ mail_faults = MaxMailFaults

MailFault == mail_faults > 0 /\ mail_faults' = mail_faults - 1
Thread(t, next) == thread' = [thread EXCEPT ![t] = next]
Queued == {queue[i][1] : i \in 1..Len(queue)}
InHand == {hand[t][1] : t \in {u \in Threads : hand[u] # <<>>}}
Written == Queued \cup InHand

\* enqueue_campaign, one recipient.
EnqueueCampaign(l) ==
    /\ mails[l] = 0 /\ l \notin Written \cup settled
    /\ queue' = Append(queue, <<l, 0>>)
    /\ UNCHANGED <<hand, thread, worker, stopping, mocked, mails, settled, mail_faults>>

\* start_worker
Alive == worker # Nobody /\ thread[worker] # "dead"

StartWorker(t) ==
    /\ thread[t] = "new" /\ ~Alive
    /\ worker' = t
    /\ Thread(t, "loop")
    /\ UNCHANGED <<queue, hand, stopping, mocked, mails, settled, mail_faults>>

\* stop_worker, whose join may time out.
StopWorker ==
    /\ worker # Nobody /\ worker \notin stopping
    /\ stopping' = stopping \cup {worker}
    /\ UNCHANGED <<queue, hand, thread, worker, mocked, mails, settled, mail_faults>>

\* dequeue_task; what it raises ends the thread.
WorkerLoop(t) ==
    /\ thread[t] = "loop"
    /\ \/ t \in stopping /\ Thread(t, "dead") /\ UNCHANGED <<queue, hand, mail_faults>>
       \/ /\ t \notin stopping /\ queue # <<>>
          /\ hand' = [hand EXCEPT ![t] = Head(queue)]
          /\ queue' = Tail(queue)
          /\ Thread(t, "send")
          /\ UNCHANGED mail_faults
       \/ /\ t \notin stopping /\ MailFault /\ Thread(t, "dead")
          /\ UNCHANGED <<queue, hand>>
    /\ UNCHANGED <<worker, stopping, mocked, mails, settled>>

MayRetryMail(attempts) == attempts < MaxRetries

\* send_email tries until a try does not raise; a try that raised may have delivered.
\* Without a password it delivers nothing and reports success.
Deliveries == IF mocked THEN {0} ELSE 0..Tries

SendEmail(t) ==
    /\ thread[t] = "send"
    /\ LET l == hand[t][1] IN
         \E delivered \in Deliveries :
            /\ mails' = [mails EXCEPT ![l] = @ + delivered]
            /\ \/ /\ mocked \/ delivered > 0 \/ ~MayRetryMail(hand[t][2])
                  /\ settled' = settled \cup {l} /\ Thread(t, "loop")
                  /\ hand' = [hand EXCEPT ![t] = <<>>]
               \/ /\ ~mocked /\ MayRetryMail(hand[t][2])
                  /\ hand' = [hand EXCEPT ![t] = <<l, @[2] + 1>>]
                  /\ Thread(t, "backoff") /\ UNCHANGED settled
    /\ UNCHANGED <<queue, worker, stopping, mocked, mail_faults>>

\* The end of the backoff; a letter the queue does not take is logged and lost.
Requeue(t) ==
    /\ thread[t] = "backoff"
    /\ \/ queue' = Append(queue, hand[t]) /\ UNCHANGED <<settled, mail_faults>>
       \/ MailFault /\ settled' = settled \cup {hand[t][1]} /\ UNCHANGED queue
    /\ hand' = [hand EXCEPT ![t] = <<>>]
    /\ Thread(t, "loop")
    /\ UNCHANGED <<worker, stopping, mocked, mails>>

MailStep(t) == WorkerLoop(t) \/ SendEmail(t) \/ Requeue(t)

\* The process ends; what it holds in memory is lost.
MailCrash ==
    /\ MailFault
    /\ queue' = IF Durable THEN queue ELSE <<>>
    /\ settled' = settled \cup InHand \cup (IF Durable THEN {} ELSE Queued)
    /\ hand' = [t \in Threads |-> <<>>]
    /\ thread' = [t \in Threads |-> IF thread[t] = "new" THEN "new" ELSE "dead"]
    /\ worker' = Nobody
    /\ UNCHANGED <<stopping, mocked, mails>>

MailNext ==
    \/ \E l \in Letters : EnqueueCampaign(l)
    \/ \E t \in Threads : StartWorker(t) \/ MailStep(t)
    \/ StopWorker \/ MailCrash

MailFairness == \A t \in Threads : WF_mailvars(MailStep(t))

-------------------------------------------------------------------------------
(* Properties. *)

\* Starts, stops that do not wait long enough and crashes never leave two threads
\* at the queue.
OneWorker == Cardinality(Running) <= 1

\* However a letter is retried, it arrives no more often than its sends have tries.
MailsBounded == \A l \in Letters : mails[l] <= (MaxRetries + 1) * Tries

\* A queued letter is sent, given up or lost, as long as a thread works that was
\* not told to stop.
LetterSettles ==
    \A l \in Letters : l \in Written ~> l \in settled \/ Running \subseteq stopping
===============================================================================
