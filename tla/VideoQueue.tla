----------------------------- MODULE VideoQueue -----------------------------
(***************************************************************************)
(* The queue between the read threads and the decode thread                *)
(* (src/app/video_queue.h), at the level of its mutex and its condition    *)
(* variable.  Push and the flag of Shutdown are atomic because they hold   *)
(* the mutex; Shutdown notifies after it has released it, and a waiting    *)
(* PopWait is asleep, woken or timed out until it has the mutex again.     *)
(* Samples are numbers, in the order in which they are pushed.             *)
(***************************************************************************)
EXTENDS Naturals, Sequences

CONSTANTS
    kCapacity,     \* VideoQueue::kCapacity
    MaxSamples     \* bound: samples pushed in a run

ASSUME QueueAssumption == kCapacity \in Nat \ {0} /\ MaxSamples \in Nat

VARIABLES
    queue,         \* queue_
    pushed,        \* samples pushed so far
    shuttingDown,  \* shutting_down_
    unnotified,    \* Shutdown has set the flag and not called notify_all yet
    waiter,        \* where the decode thread is in PopWait
    popped         \* the last sample PopWait returned; 0: none so far

queueVars == <<queue, pushed, shuttingDown, unnotified, waiter, popped>>

NoSample == 0

\* "out": not in PopWait; "asleep": in wait_for without the mutex; "woken",
\* "expired": notified or timed out, about to take the mutex again; "got",
\* "empty": PopWait has returned a sample or nullopt.
Places == {"out", "asleep", "woken", "expired", "got", "empty"}

-----------------------------------------------------------------------------
\* Mutant: nobody is woken.
NotifySilent == UNCHANGED waiter

\* notify_one, notify_all: one thread waits, or none.
Notify == waiter' = IF waiter = "asleep" THEN "woken" ELSE waiter

\* Mutant: the new sample is dropped instead of the oldest.
KeepOldest(q, sample) == IF Len(q) >= kCapacity THEN q ELSE Append(q, sample)

\* Drop the oldest at capacity, push_back.
DropOldest(q, sample) ==
    Append(IF Len(q) >= kCapacity THEN Tail(q) ELSE q, sample)

Push ==
    /\ pushed < MaxSamples
    /\ pushed' = pushed + 1
    /\ queue' = DropOldest(queue, pushed + 1)
    /\ Notify
    /\ UNCHANGED <<shuttingDown, unnotified, popped>>

\* The predicate of wait_for.
Ready == queue # <<>> \/ shuttingDown

\* PopWait holds the mutex and does not wait (any more).
Return ==
    /\ IF queue = <<>>
       THEN waiter' = "empty" /\ UNCHANGED <<queue, popped>>
       ELSE waiter' = "got" /\ popped' = Head(queue) /\ queue' = Tail(queue)
    /\ UNCHANGED <<pushed, shuttingDown, unnotified>>

Sleep == waiter' = "asleep"
         /\ UNCHANGED <<queue, pushed, shuttingDown, unnotified, popped>>

\* PopWait takes the mutex: return at once, or wait.
Enter == waiter = "out" /\ IF Ready THEN Return ELSE Sleep

\* Notified, or for no reason: look again, and wait on if it was nothing.
WakeUp == waiter = "woken" /\ IF Ready THEN Return ELSE Sleep

\* 200 ms have passed: what the predicate says now decides.
GiveUp == waiter = "expired" /\ Return

SpuriousWakeup ==
    /\ waiter = "asleep" /\ waiter' = "woken"
    /\ UNCHANGED <<queue, pushed, shuttingDown, unnotified, popped>>

TimeOut ==
    /\ waiter = "asleep" /\ waiter' = "expired"
    /\ UNCHANGED <<queue, pushed, shuttingDown, unnotified, popped>>

PopWait == Enter \/ WakeUp \/ GiveUp

\* The caller is back in its loop.
Leave ==
    /\ waiter \in {"got", "empty"} /\ waiter' = "out"
    /\ UNCHANGED <<queue, pushed, shuttingDown, unnotified, popped>>

\* Shutdown, first half: the flag, under the mutex.
ShutdownFlag ==
    /\ ~unnotified
    /\ shuttingDown' = TRUE /\ unnotified' = TRUE
    /\ UNCHANGED <<queue, pushed, waiter, popped>>

\* Second half: notify_all.
ShutdownNotify ==
    /\ unnotified
    /\ unnotified' = FALSE
    /\ Notify
    /\ UNCHANGED <<queue, pushed, shuttingDown, popped>>

-----------------------------------------------------------------------------
QueueInit ==
    /\ queue = <<>> /\ pushed = 0
    /\ shuttingDown = FALSE /\ unnotified = FALSE
    /\ waiter = "out" /\ popped = NoSample

QueueNext == Push \/ PopWait \/ Leave \/ SpuriousWakeup \/ TimeOut
             \/ ShutdownFlag \/ ShutdownNotify

QueueSpec == QueueInit /\ [][QueueNext]_queueVars

-----------------------------------------------------------------------------
(* Properties.                                                             *)

(* What is in each variable, and the queue's capacity.                      *)
QueueTypeOK ==
    /\ queue \in Seq(Nat) /\ Len(queue) <= kCapacity
    /\ pushed \in Nat /\ popped \in Nat
    /\ shuttingDown \in BOOLEAN /\ unnotified \in BOOLEAN
    /\ waiter \in Places

(* No lost wakeup: the decode thread never sleeps, relying on the timeout,  *)
(* while there is a sample for it or the queue is shut down and nobody is    *)
(* about to notify it (video_queue.h:26-61).                                *)
WakeupPending == waiter = "asleep" => queue = <<>> /\ (shuttingDown => unnotified)

\* What is in the queue are the samples pushed last.
Latest == \A i \in 1..Len(queue) : queue[i] = pushed - Len(queue) + i

\* The abstract buffer: what is handed out or lost is what is not in the queue.
Buffer == INSTANCE LossyBuffer WITH
    N <- kCapacity, put <- pushed, gone <- pushed - Len(queue),
    taken <- popped, closed <- shuttingDown
=============================================================================
