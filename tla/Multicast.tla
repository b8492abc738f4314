------------------------------ MODULE Multicast ------------------------------
(***************************************************************************)
(* What the shared buffer of a replicating channel promises: every unit    *)
(* the producer commits reaches every consumer that stays, once and in     *)
(* commit order, and the unit the producer is working on reaches none.     *)
(***************************************************************************)
EXTENDS Naturals, Sequences

CONSTANTS Capacity,   \* committed units that may wait for a consumer
          Consumers,
          Value

VARIABLES pending,     \* for each consumer, the committed units it has not read
          draft,       \* the unit the producer works on
          committing,  \* the producer is inside bc_commit
          attached,    \* the consumers that have not left
          asked,       \* the get each consumer is in
          reply        \* the answer to the last get of each consumer

avars == <<pending, draft, committing, attached, asked, reply>>

Gets    == {"get", "cond_get"}
NoReply == [preamble |-> "none", data |-> << >>]
Sorry   == [preamble |-> "sorry", data |-> << >>]

Init == /\ pending = [c \in Consumers |-> << >>]
        /\ draft \in Value
        /\ committing = FALSE
        /\ attached = Consumers
        /\ asked = [c \in Consumers |-> "none"]
        /\ reply = [c \in Consumers |-> NoReply]

Write == /\ ~ committing
         /\ draft' \in Value
         /\ UNCHANGED <<pending, committing, attached, asked, reply>>

BeginCommit == /\ ~ committing
               /\ committing' = TRUE
               /\ UNCHANGED <<pending, draft, attached, asked, reply>>

EndCommit == /\ committing
             /\ \A c \in attached : Len(pending[c]) < Capacity
             /\ pending' = [c \in Consumers |->
                              IF c \in attached THEN Append(pending[c], draft) ELSE << >>]
             /\ draft' \in Value
             /\ committing' = FALSE
             /\ UNCHANGED <<attached, asked, reply>>

BeginGet(c) == /\ c \in attached
               /\ asked[c] = "none"
               /\ \E g \in Gets : asked' = [asked EXCEPT ![c] = g]
               /\ reply' = [reply EXCEPT ![c] = NoReply]
               /\ UNCHANGED <<pending, draft, committing, attached>>

Deliver(c) == /\ asked[c] \in Gets
              /\ pending[c] # << >>
              /\ reply' = [reply EXCEPT ![c] =
                             [preamble |-> IF asked[c] = "cond_get" THEN "preamble" ELSE "none",
                              data     |-> <<Head(pending[c])>>]]
              /\ pending' = [pending EXCEPT ![c] = Tail(@)]
              /\ asked' = [asked EXCEPT ![c] = "none"]
              /\ UNCHANGED <<draft, committing, attached>>

Refuse(c) == /\ asked[c] = "cond_get"
             /\ pending[c] = << >>
             /\ reply' = [reply EXCEPT ![c] = Sorry]
             /\ asked' = [asked EXCEPT ![c] = "none"]
             /\ UNCHANGED <<pending, draft, committing, attached>>

Leave(c) == /\ c \in attached
            /\ asked[c] = "none"
            /\ attached' = attached \ {c}
            /\ pending' = [pending EXCEPT ![c] = << >>]
            /\ UNCHANGED <<draft, committing, asked, reply>>

Next == \/ Write \/ BeginCommit \/ EndCommit
        \/ \E c \in Consumers : BeginGet(c) \/ Deliver(c) \/ Refuse(c) \/ Leave(c)

Spec == Init /\ [][Next]_avars
=============================================================================
