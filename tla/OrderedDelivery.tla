---------------------------- MODULE OrderedDelivery ----------------------------
(***************************************************************************)
(* What the outbox promises (DR-SVC-1, DR-SVC-5), with no transactions,    *)
(* sequence queries, fences or instances that do not know they were        *)
(* replaced: messages of a consumer are numbered without a hole, it        *)
(* receives them in that order, and where it resumes is moved by the one   *)
(* owner of its stream, to a message that it has received.                 *)
(***************************************************************************)
EXTENDS Naturals

CONSTANTS
  Consumers,
  Instances   \* who may own a stream

VARIABLES
  stream,     \* the numbers of the messages sent to each consumer
  received,   \* those it has received
  resume,     \* the number after which it is resumed
  owner       \* who owns its stream: nobody, {}, or one

vars == <<stream, received, resume, owner>>

\* A set of numbers that begins at 1 and has no hole.
Unbroken(S) == \A s \in S : s > 0 /\ 1..s \subseteq S

Init ==
  /\ stream = [c \in Consumers |-> {}]
  /\ received = [c \in Consumers |-> {}]
  /\ resume = [c \in Consumers |-> 0]
  /\ owner = [c \in Consumers |-> {}]

\* One transaction sends messages to some consumers, at the end of their streams.
Send ==
  /\ \A c \in Consumers : stream[c] \subseteq stream'[c] /\ Unbroken(stream'[c])
  /\ UNCHANGED <<received, resume, owner>>

\* The next message arrives.  One that arrives again changes nothing.
Receive(c) ==
  /\ \E s \in stream[c] \ received[c] :
       /\ 1..s - 1 \subseteq received[c]
       /\ received' = [received EXCEPT ![c] = @ \cup {s}]
  /\ UNCHANGED <<stream, resume, owner>>

\* The owner moves the point to resume from, forward.
Acknowledge(i, c) ==
  /\ owner[c] = {i}
  /\ \E s \in received[c] : s > resume[c] /\ resume' = [resume EXCEPT ![c] = s]
  /\ UNCHANGED <<stream, received, owner>>

\* The stream is taken over, from whoever has it, or given up.
Own(i, c) ==
  /\ owner' = [owner EXCEPT ![c] = {i}]
  /\ UNCHANGED <<stream, received, resume>>

Disown(c) ==
  /\ owner' = [owner EXCEPT ![c] = {}]
  /\ UNCHANGED <<stream, received, resume>>

Next ==
  \/ Send
  \/ \E c \in Consumers : Receive(c) \/ Disown(c)
  \/ \E c \in Consumers, i \in Instances : Acknowledge(i, c) \/ Own(i, c)

Spec == Init /\ [][Next]_vars
===============================================================================
