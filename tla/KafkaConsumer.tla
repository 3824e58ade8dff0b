--------------------------- MODULE KafkaConsumer ---------------------------
(***************************************************************************)
(* How a service consumes a Kafka topic: libs/kafka/src/kafka.consumer.ts. *)
(* kafkajs awaits the handler of a message before it delivers the next of  *)
(* that partition; several workers are the replicas of a service that      *)
(* share the partitions.  Every handler catches and logs its errors, so a  *)
(* message that failed is done with.  kafkajs commits offsets afterwards:  *)
(* what a process took but did not commit, before it died or lost the      *)
(* partition, is delivered again, handled to its end or not.               *)
(***************************************************************************)
EXTENDS Integers, Sequences

CONSTANTS
    Workers,   \* bound: how many messages, or HTTP calls, may be handled at once
    MayFail,   \* whether an awaited statement may reject, or a process die
    None       \* no task

VARIABLES
    inbox,     \* the messages of the topic, in the order they were sent
    taken,     \* which of them, by their place, have been delivered
    again,     \* which of them have been delivered a second time
    task       \* what each worker is doing; task[w].msg is the place, 0 for HTTP

delivery == <<taken, again, task>>

Running(w, at) == task[w] # None /\ task[w].at = at
Continue(w, at) == task' = [task EXCEPT ![w].at = at]
Finish(w) == task' = [task EXCEPT ![w] = None]
Quiet == \A w \in Workers : task[w] = None

\* An HTTP call, which no offset is about
Call(w, t) ==
    /\ task[w] = None
    /\ task' = [task EXCEPT ![w] = t]
    /\ UNCHANGED <<taken, again>>

Deliver(w, i, t) ==
    /\ task[w] = None
    /\ i \in DOMAIN inbox \ taken
    /\ taken' = taken \cup {i}
    /\ task' = [task EXCEPT ![w] = t]
    /\ UNCHANGED again

\* The next awaited statement rejects, and the handler logs it; or the process dies.
Reject(w) ==
    /\ MayFail
    /\ task[w] # None
    /\ Finish(w)
    /\ UNCHANGED <<taken, again>>

\* The offset of a message was not committed; a handler of a partition that was lost
\* may still be at work on it.  Bound: a message is delivered at most twice.
Redeliver(i) ==
    /\ MayFail
    /\ i \in taken \ again
    /\ taken' = taken \ {i}
    /\ again' = again \cup {i}
    /\ UNCHANGED task

DeliveryInit ==
    /\ taken = {}
    /\ again = {}
    /\ task = [w \in Workers |-> None]

=============================================================================
