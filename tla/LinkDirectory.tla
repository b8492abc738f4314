---------------------------- MODULE LinkDirectory ----------------------------
(***************************************************************************)
(* What the table of links promises the service thread of one remote       *)
(* process: a request is held back until the link with its tag exists, a   *)
(* link that was inserted stays until the remote process has it destroyed, *)
(* and destroying one link touches no other.                               *)
(***************************************************************************)
EXTENDS Naturals

CONSTANTS Tags

VARIABLES links,    \* tags of the links in the table
          request   \* the request being served

avars == <<links, request>>

NoRequest == [code |-> "NONE", tag |-> 0]
Requests  == [code : {"GET", "KILL"}, tag : Tags]

Init == links = {} /\ request = NoRequest

Insert == /\ \E t \in Tags \ links : links' = links \cup {t}
          /\ UNCHANGED request

Receive == /\ request = NoRequest
           /\ request' \in Requests
           /\ UNCHANGED links

Serve == /\ request.code = "GET"
         /\ request.tag \in links
         /\ request' = NoRequest
         /\ UNCHANGED links

Destroy == /\ request.code = "KILL"
           /\ request.tag \in links
           /\ links' = links \ {request.tag}
           /\ request' \in {request, NoRequest}

Finish == /\ request.code = "KILL"
          /\ request.tag \notin links
          /\ request' = NoRequest
          /\ UNCHANGED links

Next == Insert \/ Receive \/ Serve \/ Destroy \/ Finish

Spec == Init /\ [][Next]_avars
=============================================================================
