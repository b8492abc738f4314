------------------------------ MODULE WorkQueue ------------------------------
(***************************************************************************)
(* What the shared buffer of a farm promises: the producer works on a      *)
(* draft unit in place, commits it, and is given another one to work on;   *)
(* committed units are handed out in the order they were committed, each   *)
(* to exactly one consumer.  Only a conditional get is ever refused, and   *)
(* only when there is no unit.                                             *)
(***************************************************************************)
EXTENDS Naturals, Sequences

CONSTANTS Capacity,   \* committed units that may wait to be taken
          Consumers,
          Value

VARIABLES queue,       \* committed units, oldest first
          draft,       \* the unit the producer works on
          committing,  \* the producer is inside bc_commit
          asked,       \* the get each consumer is in
          reply        \* the answer to the last get of each consumer

avars == <<queue, draft, committing, asked, reply>>

Gets    == {"get", "cond_get"}
NoReply == [preamble |-> "none", data |-> << >>]
Sorry   == [preamble |-> "sorry", data |-> << >>]

Init == /\ queue = << >>
        /\ draft \in Value
        /\ committing = FALSE
        /\ asked = [c \in Consumers |-> "none"]
        /\ reply = [c \in Consumers |-> NoReply]

Write == /\ ~ committing
         /\ draft' \in Value
         /\ UNCHANGED <<queue, committing, asked, reply>>

BeginCommit == /\ ~ committing
               /\ committing' = TRUE
               /\ UNCHANGED <<queue, draft, asked, reply>>

EndCommit == /\ committing
             /\ Len(queue) < Capacity
             /\ queue' = Append(queue, draft)
             /\ draft' \in Value
             /\ committing' = FALSE
             /\ UNCHANGED <<asked, reply>>

BeginGet(c) == /\ asked[c] = "none"
               /\ \E g \in Gets : asked' = [asked EXCEPT ![c] = g]
               /\ reply' = [reply EXCEPT ![c] = NoReply]
               /\ UNCHANGED <<queue, draft, committing>>

Deliver(c) == /\ asked[c] \in Gets
              /\ queue # << >>
              /\ reply' = [reply EXCEPT ![c] =
                             [preamble |-> IF asked[c] = "cond_get" THEN "preamble" ELSE "none",
                              data     |-> <<Head(queue)>>]]
              /\ queue' = Tail(queue)
              /\ asked' = [asked EXCEPT ![c] = "none"]
              /\ UNCHANGED <<draft, committing>>

Refuse(c) == /\ asked[c] = "cond_get"
             /\ queue = << >>
             /\ reply' = [reply EXCEPT ![c] = Sorry]
             /\ asked' = [asked EXCEPT ![c] = "none"]
             /\ UNCHANGED <<queue, draft, committing>>

Next == \/ Write \/ BeginCommit \/ EndCommit
        \/ \E c \in Consumers : BeginGet(c) \/ Deliver(c) \/ Refuse(c)

Spec == Init /\ [][Next]_avars
=============================================================================
