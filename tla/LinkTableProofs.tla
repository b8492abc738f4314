--------------------------- MODULE LinkTableProofs ----------------------------
(***************************************************************************)
(* Proofs about the table of links (libdsys/ltab.c), for any number of     *)
(* links and blocks of memory.                                             *)
(*                                                                         *)
(* First under the assumptions of run links: links are destroyed after     *)
(* use, an insertion runs beside the destruction of the newest link only,  *)
(* and the block being freed is not handed out.  Links are inserted at the *)
(* root with rising tags, so the list is sorted: the invariant Inv says    *)
(* that each pointer leads to the link with the next lower tag of those in *)
(* the list, which are known without following it.                         *)
(*                                                                         *)
(* Then under the second of these alone: KILLs may come before any get and *)
(* blocks be handed out at once.  The list may then lose links, and the    *)
(* invariant Sound speaks of the nodes only.                               *)
(***************************************************************************)
EXTENDS LinkTable, WellFoundedInduction, TLAPS

USE LinkAssumption

-----------------------------------------------------------------------------
(* The link of an insertion that is not yet in the list; a link that is    *)
(* freed and still in it                                                   *)
Pending == apc \in {"lock", "next", "root"}
Freeing == spc \in {"d_relock", "d_relink"}

In(a) == \/ node[a].state = "live" /\ ~ (Pending /\ a = link)
         \/ Freeing /\ a = rtemp

(* The pointer x leads to the first of the links with tags below n         *)
Follows(x, n) ==
  /\ x # NULL => x \in Address /\ In(x) /\ node[x].tag < n
  /\ \A b \in Address : In(b) /\ node[b].tag < n => x # NULL /\ node[b].tag <= node[x].tag

(* All tags in the list are below this one                                 *)
Fresh == IF Pending THEN node[link].tag ELSE sink_tag

ListInv ==
  /\ Follows(root, Fresh)
  /\ \A a \in Address : In(a) => Follows(node[a].next, node[a].tag) /\ node[a].tag < Fresh
  /\ \A a, b \in Address : In(a) /\ In(b) /\ node[a].tag = node[b].tag => a = b

-----------------------------------------------------------------------------
(* The mutex is held where the code has it, and a request is served as its *)
(* code says.  A KILL finds its link, so it never waits.                   *)
GetPcs  == {"serve", "s_lock", "s_root", "s_scan", "s_miss", "s_check", "s_block", "s_wait",
            "s_wake"}
KillPcs == {"d_lock", "d_root", "d_test", "d_relock", "d_relink", "d_scan", "d_unlink"}

Control ==
  /\ owner = "app" <=> InInsert
  /\ owner = "svc" <=> InSearch \/ InDestroy
  /\ spc \in {"recv"} \cup GetPcs \cup KillPcs
  /\ spc = "recv" => req = NoRequest
  /\ spc \in GetPcs => req.code = "GET"
  /\ spc \in KillPcs => req.code = "KILL"

(* No insertion is under way but beside the destruction of the root        *)
Ordered ==
  Destroying /\ ~ KillsRoot =>
    \/ apc = "idle"
    \/ apc = "lock" /\ spc \in {"d_lock", "d_root"} /\ root # NULL /\ node[root].tag = req.tag

Inserting ==
  /\ apc # "idle" => link \in Address
  /\ Pending => node[link].state = "live" /\ node[link].tag + 1 = sink_tag
  /\ apc = "root" => node[link].next = root

Found(t) == \E a \in Address : In(a) /\ node[a].tag = t

(* A KILL: its link is in the list, between temp and the end               *)
Killing ==
  /\ Destroying => Found(req.tag) /\ req.tag \in killed
  /\ spc = "d_test" => /\ rtemp \in Address /\ In(rtemp) /\ temp = rtemp
                       /\ req.tag <= node[rtemp].tag
  /\ Freeing => /\ rtemp \in Address /\ node[rtemp].state = "freed"
                /\ node[rtemp].tag = req.tag /\ temp = node[rtemp].next
  /\ spc \in {"d_scan", "d_unlink"} => temp \in Address /\ In(temp) /\ req.tag < node[temp].tag
  /\ spc = "d_unlink" => node[temp].next # NULL /\ node[node[temp].next].tag = req.tag

(* A GET: what was found stays until it is killed                          *)
Searching ==
  /\ spc = "s_scan" /\ temp # NULL => In(temp)
  /\ clink # NULL /\ ~ Destroying => In(clink) /\ node[clink].tag = ctag
  /\ spc = "serve" => clink # NULL /\ ctag = req.tag
  /\ \A t \in served : t \in killed \/ Found(t)

ChannelsLive == \A a \in Address : node[a].state = "live" => channel[node[a].tag] = "live"

Inv == /\ TypeOK /\ ListInv /\ Control /\ Ordered /\ Inserting /\ Killing /\ Searching
       /\ ChannelsLive

(* A link that no KILL has freed; a step that changes none of them         *)
Kept(a) == In(a) /\ ~ (Freeing /\ a = rtemp)
SameLinks ==
  /\ req' = req
  /\ \A a \in Address : (Kept(a)' <=> Kept(a)) /\ (Kept(a) => node'[a].tag = node[a].tag)
-----------------------------------------------------------------------------
NodeSet == [state : {"virgin", "live", "freed"}, tag : Tags, next : Address \cup {NULL}]

(* Tags are numbers                                                        *)
LEMMA TagTypes ==
  ASSUME TypeOK
  PROVE  /\ node \in [Address -> NodeSet]
         /\ \A a \in Address : node[a].tag \in Nat /\ node[a].next \in Address \cup {NULL}
         /\ sink_tag \in Nat
<1>1. node \in [Address -> NodeSet] /\ sink_tag \in 0 .. NTags
  BY DEF TypeOK, NodeSet
<1>2. \A n \in NodeSet : n.tag \in Nat /\ n.next \in Address \cup {NULL}
  BY DEF NodeSet, Tags
<1>3. QED
  BY <1>1, <1>2

(* Nothing is found out of the list, nor in it what is freed               *)
LEMMA InFacts ==
  ASSUME Inv
  PROVE  /\ Pending => link \in Address /\ ~ In(link) /\ node[link].state = "live"
         /\ \A a \in Address : In(a) /\ ~ Freeing => node[a].state = "live"
         /\ \A a \in Address : In(a) => node[a].state # "virgin"
         /\ ~ Destroying => ~ Freeing
<1>1. Control /\ Inserting /\ Killing
  BY DEF Inv
<1>2. Pending => apc # "idle"
  BY DEF Pending
<1>3. Pending => link \in Address /\ node[link].state = "live"
  BY <1>1, <1>2 DEF Inserting
<1>4. Freeing => node[rtemp].state = "freed" /\ Destroying
  BY <1>1 DEF Freeing, Killing, Control, KillPcs, Destroying
<1>5. QED
  BY <1>3, <1>4 DEF In

(* A step that changes neither the links in the list nor the root          *)
LEMMA ListSame ==
  ASSUME ListInv, \A a \in Address : In(a)' <=> In(a),
         \A a \in Address : In(a) => node'[a].tag = node[a].tag /\ node'[a].next = node[a].next,
         root' = root, Fresh' = Fresh
  PROVE  ListInv'
<1>1. ASSUME NEW x, NEW n, Follows(x, n)
      PROVE  Follows(x, n)'
  BY <1>1 DEF Follows
<1>2. Follows(root, Fresh)'
  <2>1. Follows(root, Fresh)
    BY DEF ListInv
  <2>2. QED
    BY <2>1 DEF Follows
<1>3. ASSUME NEW a \in Address, In(a)'
      PROVE  Follows(node[a].next, node[a].tag)' /\ node'[a].tag < Fresh'
  <2>1. PICK x, n : x = node[a].next /\ n = node[a].tag
    OBVIOUS
  <2>2. /\ Follows(x, n) /\ n < Fresh
        /\ x = node'[a].next /\ n = node'[a].tag
    BY <1>3, <2>1 DEF ListInv
  <2>3. Follows(x, n)'
    BY <1>1, <2>2
  <2>4. QED
    BY <2>2, <2>3 DEF Follows
<1>4. \A a, b \in Address : In(a)' /\ In(b)' /\ node'[a].tag = node'[b].tag => a = b
  BY DEF ListInv
<1>5. QED
  BY <1>2, <1>3, <1>4 DEF ListInv

(* The new root has the highest tag                                        *)
LEMMA ListInsert ==
  ASSUME TypeOK, ListInv, Pending, link \in Address, ~ In(link), node[link].next = root,
         UNCHANGED <<node, link>>, root' = link, \A a \in Address : In(a)' <=> In(a) \/ a = link,
         Fresh' = node[link].tag + 1
  PROVE  ListInv'
<1>0. \A a \in Address : node[a].tag \in Nat
  BY TagTypes
<1>1. Fresh = node[link].tag
  BY DEF Fresh
<1>2. \A a \in Address : In(a) => node[a].tag < node[link].tag
  BY <1>1 DEF ListInv
<1>3. Follows(root, Fresh)'
  <2>1. link # NULL
    OBVIOUS
  <2>2. In(link)' /\ node[link].tag < node[link].tag + 1
    BY <1>0
  <2>3. \A b \in Address : In(b)' => node[b].tag <= node[link].tag
    BY <1>0, <1>2
  <2>4. QED
    BY <2>1, <2>2, <2>3 DEF Follows
<1>4. ASSUME NEW x \in Address \cup {NULL}, NEW n, n <= node[link].tag, n \in Nat, Follows(x, n)
      PROVE  Follows(x, n)'
  <2>1. x # NULL => x \in Address /\ In(x)' /\ node[x].tag < n
    BY <1>4 DEF Follows
  <2>2. ASSUME NEW b \in Address, In(b)', node[b].tag < n
        PROVE  x # NULL /\ node[b].tag <= node[x].tag
    <3>1. b # link
      BY <1>0, <1>4, <2>2
    <3>2. In(b)
      BY <2>2, <3>1
    <3>3. QED
      BY <1>4, <2>2, <3>2 DEF Follows
  <2>3. QED
    BY <2>1, <2>2 DEF Follows
<1>5. ASSUME NEW a \in Address, In(a)'
      PROVE  Follows(node[a].next, node[a].tag)' /\ node'[a].tag < Fresh'
  <2>1. PICK x \in Address \cup {NULL}, n \in Nat : x = node[a].next /\ n = node[a].tag
    BY TagTypes
  <2>2. n <= node[link].tag
    BY <1>0, <1>2, <1>5, <2>1
  <2>3. Follows(x, n)
    BY <1>1, <1>5, <2>1 DEF ListInv
  <2>4. Follows(x, n)'
    BY <1>4, <2>2, <2>3
  <2>5. QED
    BY <1>0, <2>1, <2>2, <2>4 DEF Follows
<1>6. \A a, b \in Address : In(a)' /\ In(b)' /\ node'[a].tag = node'[b].tag => a = b
  BY <1>0, <1>2 DEF ListInv
<1>7. QED
  BY <1>3, <1>5, <1>6 DEF ListInv

(* A link leaves the list: whoever pointed to it points past it            *)
LEMMA ListRemove ==
  ASSUME TypeOK, ListInv, Pending => link \in Address, NEW d \in Address, In(d),
         \A a \in Address : In(a)' <=> In(a) /\ a # d,
         \A a \in Address : node'[a].tag = node[a].tag, Fresh' = Fresh,
         \/ root = d /\ root' = node[d].next /\ \A a \in Address : node'[a].next = node[a].next
         \/ /\ root' = root
            /\ \E a \in Address : /\ In(a) /\ node[a].next = d /\ node'[a].next = node[d].next
                                  /\ \A b \in Address \ {a} : node'[b].next = node[b].next
  PROVE  ListInv'
<1>0. /\ \A a \in Address : node[a].tag \in Nat /\ node[a].next \in Address \cup {NULL}
      /\ \A a \in Address : In(a) => Follows(node[a].next, node[a].tag) /\ node[a].tag < Fresh
      /\ \A a, b \in Address : In(a) /\ In(b) /\ node[a].tag = node[b].tag => a = b
      /\ Follows(root, Fresh)
  BY TagTypes DEF ListInv
<1>1. ASSUME NEW x \in Address \cup {NULL}, NEW n, Follows(x, n), x # d
      PROVE  Follows(x, n)'
  BY <1>1 DEF Follows
<1>2. PICK y \in Address \cup {NULL} : y = node[d].next
  BY <1>0
<1>3. ASSUME NEW n, Follows(d, n), n \in Nat
      PROVE  Follows(y, n)'
  <2>1. Follows(y, node[d].tag) /\ node[d].tag < n
    BY <1>0, <1>2, <1>3 DEF Follows
  <2>2. y # NULL => In(y)' /\ node[y].tag < n
    BY <1>0, <1>3, <2>1 DEF Follows
  <2>3. ASSUME NEW b \in Address, In(b)', node[b].tag < n
        PROVE  y # NULL /\ node[b].tag <= node[y].tag
    <3>1. In(b) /\ b # d
      BY <2>3
    <3>2. node[b].tag <= node[d].tag /\ node[b].tag # node[d].tag
      BY <1>0, <1>3, <2>3, <3>1 DEF Follows
    <3>3. node[b].tag < node[d].tag
      BY <1>0, <3>2
    <3>4. QED
      BY <2>1, <3>1, <3>3 DEF Follows
  <2>4. QED
    BY <2>2, <2>3 DEF Follows
<1>4. \A a, b \in Address : In(a) /\ In(b) /\ node[a].next = d /\ node[b].next = d => a = b
  <2>1. SUFFICES ASSUME NEW a \in Address, NEW b \in Address, In(a), In(b),
                        node[a].next = d, node[b].next = d, node[a].tag < node[b].tag
                 PROVE  FALSE
    BY <1>0
  <2>2. Follows(d, node[a].tag) /\ Follows(d, node[b].tag)
    BY <1>0, <2>1
  <2>3. node[d].tag < node[a].tag /\ node[a].tag <= node[d].tag
    BY <2>1, <2>2 DEF Follows
  <2>4. QED
    BY <1>0, <2>3
<1>5. ASSUME root = d, NEW a \in Address, In(a), node[a].next = d
      PROVE  FALSE
  <2>1. Follows(d, node[a].tag) /\ Follows(d, Fresh) /\ node[a].tag < Fresh
    BY <1>0, <1>5
  <2>2. node[d].tag < node[a].tag /\ node[a].tag <= node[d].tag
    BY <1>5, <2>1 DEF Follows
  <2>3. QED
    BY <1>0, <2>2
<1>6. Fresh \in Nat
  BY <1>0, TagTypes DEF Fresh
<1>7. Follows(root, Fresh)'
  <2>1. PICK n \in Nat : n = Fresh
    BY <1>6
  <2>2. root \in Address \cup {NULL}
    BY DEF TypeOK
  <2>3. CASE root = d /\ root' = y
    <3>1. Follows(y, n)'
      BY <1>0, <1>3, <2>1, <2>3
    <3>2. QED
      BY <2>1, <2>3, <3>1 DEF Follows
  <2>4. CASE root # d /\ root' = root
    <3>1. PICK x \in Address \cup {NULL} : x = root
      BY <2>2
    <3>2. Follows(x, n)'
      BY <1>0, <1>1, <2>1, <2>4, <3>1
    <3>3. QED
      BY <2>1, <2>4, <3>1, <3>2 DEF Follows
  <2>5. QED
    BY <1>2, <1>5, <2>3, <2>4
<1>8. ASSUME NEW a \in Address, In(a)'
      PROVE  Follows(node[a].next, node[a].tag)' /\ node'[a].tag < Fresh'
  <2>1. PICK x \in Address \cup {NULL}, n \in Nat : x = node[a].next /\ n = node[a].tag
    BY <1>0
  <2>2. Follows(x, n) /\ n < Fresh /\ In(a) /\ a # d
    BY <1>0, <1>8, <2>1
  <2>3. CASE x # d
    <3>1. node'[a].next = x
      BY <1>4, <2>1, <2>2, <2>3
    <3>2. Follows(x, n)'
      BY <1>1, <2>2, <2>3
    <3>3. QED
      BY <2>1, <2>2, <3>1, <3>2 DEF Follows
  <2>4. CASE x = d
    <3>1. node'[a].next = y
      BY <1>2, <1>4, <1>5, <2>1, <2>2, <2>4
    <3>2. Follows(y, n)'
      BY <1>3, <2>2, <2>4
    <3>3. QED
      BY <2>1, <2>2, <3>1, <3>2 DEF Follows
  <2>5. QED
    BY <2>3, <2>4
<1>9. \A a, b \in Address : In(a)' /\ In(b)' /\ node'[a].tag = node'[b].tag => a = b
  BY <1>0
<1>10. QED
  BY <1>7, <1>8, <1>9 DEF ListInv
-----------------------------------------------------------------------------
(* The list is empty and both threads are idle                             *)
LEMMA InitInv == Init => Inv
<1> SUFFICES ASSUME Init
             PROVE  Inv
  OBVIOUS
<1>1. /\ node = [a \in Address |-> Blank] /\ root = NULL /\ owner = "none" /\ sink_tag = 0
      /\ apc = "idle" /\ link = NULL /\ spc = "recv" /\ req = NoRequest
      /\ rtemp = NULL /\ temp = NULL /\ clink = NULL /\ ctag = NTags
      /\ channel = [t \in Tags |-> "none"] /\ channel_rc = [t \in Tags |-> 0]
      /\ served = {} /\ killed = {}
  BY DEF Init
<1>2. \A a \in Address : ~ In(a) /\ node[a].state = "virgin"
  BY <1>1 DEF In, Freeing, Blank
<1>3. TypeOK
  <2>1. 0 \in Tags
    BY DEF Tags
  <2>2. Blank \in [state : {"virgin", "live", "freed"}, tag : Tags, next : Address \cup {NULL}]
    BY <2>1 DEF Blank
  <2>3. NoRequest \in [code : {"NONE", "GET", "KILL"}, tag : Tags]
    BY <2>1 DEF NoRequest
  <2>4. QED
    BY <1>1, <2>2, <2>3 DEF TypeOK
<1>4. ListInv
  BY <1>1, <1>2 DEF ListInv, Follows
<1>5. Control
  BY <1>1 DEF Control, InInsert, InSearch, InDestroy, GetPcs, KillPcs
<1>6. Ordered /\ Inserting /\ Killing /\ Searching
  BY <1>1 DEF Ordered, Inserting, Killing, Searching, Pending, Freeing, Destroying, NoRequest
<1>7. ChannelsLive
  BY <1>2 DEF ChannelsLive
<1>8. QED
  BY <1>3, <1>4, <1>5, <1>6, <1>7 DEF Inv

-----------------------------------------------------------------------------
(* What the service thread knows of the list outlives an insertion         *)
LEMMA InsertionKeeps ==
  ASSUME Inv, Destroying => KillsRoot, UNCHANGED <<req, rtemp, temp, clink, ctag, served, killed>>,
         \A a \in Address : In(a) => In(a)' /\ node'[a] = node[a],
         spc' = spc \/ (spc = "s_wait" /\ spc' = "s_wake")
  PROVE  Ordered' /\ Killing' /\ Searching'
<1>1. Killing /\ Searching /\ TypeOK /\ Control
  BY DEF Inv
<1>2. \A t : Found(t) => Found(t)'
  BY DEF Found
<1>3. Freeing' <=> Freeing
  BY DEF Freeing
<1>4. Freeing => In(rtemp) /\ rtemp \in Address
  BY <1>1 DEF In, Killing
<1>5. Destroying' <=> Destroying
  BY DEF Destroying
<1>6. Ordered'
  <2>1. Destroying => spc' = spc
    BY <1>1 DEF Control, Destroying, GetPcs
  <2>2. KillsRoot => KillsRoot'
    <3>1. spc = "d_test" => node'[rtemp] = node[rtemp]
      BY <1>1 DEF Killing
    <3>2. KillsRoot => spc' = spc
      BY DEF KillsRoot
    <3>3. QED
      BY <3>1, <3>2 DEF KillsRoot
  <2>3. QED
    BY <1>5, <2>2 DEF Ordered
<1>7. Killing'
  <2>1. Destroying' => Found(req.tag)' /\ req'.tag \in killed'
    <3>1. PICK t : t = req.tag
      OBVIOUS
    <3>2. Destroying => Found(t) /\ t \in killed
      BY <1>1, <3>1 DEF Killing
    <3>3. QED
      BY <1>2, <1>5, <3>1, <3>2 DEF Found
  <2>2. spc' = "d_test" => /\ rtemp' \in Address /\ In(rtemp)' /\ temp' = rtemp'
                           /\ req'.tag <= node'[rtemp'].tag
    BY <1>1 DEF Killing, In
  <2>3. Freeing' => /\ rtemp' \in Address /\ node'[rtemp'].state = "freed"
                    /\ node'[rtemp'].tag = req'.tag /\ temp' = node'[rtemp'].next
    BY <1>1, <1>3, <1>4 DEF Killing
  <2>4. spc' \in {"d_scan", "d_unlink"} =>
          temp' \in Address /\ In(temp)' /\ req'.tag < node'[temp'].tag
    BY <1>1 DEF Killing, In
  <2>5. spc' = "d_unlink" => node'[temp'].next # NULL /\ node'[node'[temp'].next].tag = req'.tag
    <3>1. SUFFICES ASSUME spc' = "d_unlink"
                   PROVE  FALSE
      OBVIOUS
    <3>2. Destroying /\ spc = "d_unlink"
      BY <1>1, <3>1 DEF Control, KillPcs, Destroying
    <3>3. QED
      BY <3>2 DEF KillsRoot
  <2>6. QED
    BY <2>1, <2>2, <2>3, <2>4, <2>5 DEF Killing
<1>8. Searching'
  <2>1. spc' = "s_scan" /\ temp' # NULL => In(temp)'
    <3>1. temp \in Address \cup {NULL}
      BY <1>1 DEF TypeOK
    <3>2. QED
      BY <1>1, <3>1 DEF Searching, In
  <2>2. clink' # NULL /\ ~ Destroying' => In(clink)' /\ node'[clink'].tag = ctag'
    <3>1. clink \in Address \cup {NULL}
      BY <1>1 DEF TypeOK
    <3>2. QED
      BY <1>1, <1>5, <3>1 DEF Searching, In
  <2>3. spc' = "serve" => clink' # NULL /\ ctag' = req'.tag
    BY <1>1 DEF Searching
  <2>4. \A t \in served' : t \in killed' \/ Found(t)'
    BY <1>1, <1>2 DEF Searching
  <2>5. QED
    BY <2>1, <2>2, <2>3, <2>4 DEF Searching
<1>9. QED
  BY <1>6, <1>7, <1>8

(* bc_sink_create makes a link that nobody else knows                      *)
LEMMA CreateLinkInv ==
  ASSUME ~ EarlyReuse, Overlap = "orderly", Inv, MayInsert, CreateLink
  PROVE  Inv' /\ SameLinks
<1>0. /\ TypeOK /\ ListInv /\ Control /\ Ordered /\ Inserting /\ Killing /\ Searching
      /\ ChannelsLive
  BY DEF Inv
<1>1. /\ apc = "idle" /\ ~ Pending /\ sink_tag \in Tags /\ sink_tag \in Nat
      /\ Destroying => KillsRoot
  BY <1>0 DEF CreateLink, Pending, MayInsert, TypeOK, Tags
<1>2. PICK a \in Address :
        /\ \/ node[a].state = "virgin"
           \/ node[a].state = "freed" /\ ~ Destroying
        /\ node' = [node EXCEPT ![a].state = "live", ![a].tag = sink_tag]
        /\ link' = a
  BY DEF CreateLink
<1>3. /\ channel' = [channel EXCEPT ![sink_tag] = "live"]
      /\ channel_rc' = [channel_rc EXCEPT ![sink_tag] = IF sink_tag \in Shared THEN 2 ELSE 0]
      /\ sink_tag' = sink_tag + 1
      /\ apc' = "lock"
      /\ UNCHANGED <<root, owner, spc, req, rtemp, temp, clink, ctag, served, killed>>
  BY DEF CreateLink, locals, cache, remote
<1>4. /\ node' \in [Address -> NodeSet]
      /\ node'[a].state = "live" /\ node'[a].tag = sink_tag
      /\ \A b \in Address \ {a} : node'[b] = node[b]
  <2>1. node \in [Address -> NodeSet]
    BY <1>0, TagTypes
  <2>2. node[a] \in [state : {"virgin", "live", "freed"}, tag : Tags, next : Address \cup {NULL}]
    BY <2>1 DEF NodeSet
  <2>3. PICK n : n = [node[a] EXCEPT !.state = "live", !.tag = sink_tag]
    OBVIOUS
  <2>4. n \in NodeSet /\ n.state = "live" /\ n.tag = sink_tag
    BY <1>1, <2>2, <2>3 DEF NodeSet
  <2>5. node' = [node EXCEPT ![a] = n]
    BY <1>2, <2>1, <2>3
  <2>6. QED
    BY <2>1, <2>4, <2>5
<1>5. ~ In(a)
  BY <1>0, <1>1, <1>2, InFacts DEF Killing, In
<1>6. \A b \in Address : In(b)' <=> In(b)
  BY <1>1, <1>2, <1>3, <1>4, <1>5 DEF In, Pending, Freeing
<1>7. TypeOK'
  <2>1. sink_tag' \in 0 .. NTags
    BY <1>1, <1>3 DEF Tags
  <2>2. channel' \in [Tags -> {"none", "live", "freed"}] /\ channel_rc' \in [Tags -> 0 .. 2]
    BY <1>0, <1>1, <1>3 DEF TypeOK
  <2>3. QED
    BY <1>0, <1>2, <1>3, <1>4, <2>1, <2>2 DEF TypeOK, NodeSet
<1>8. ListInv'
  <2>1. Fresh' = Fresh
    BY <1>1, <1>2, <1>3, <1>4 DEF Fresh, Pending
  <2>2. \A b \in Address : In(b) => node'[b].tag = node[b].tag /\ node'[b].next = node[b].next
    BY <1>4, <1>5
  <2>3. root' = root
    BY <1>3
  <2>4. QED
    BY <1>0, <1>6, <2>1, <2>2, <2>3, ListSame
<1>9. Ordered' /\ Killing' /\ Searching'
  <2>1. \A b \in Address : In(b) => In(b)' /\ node'[b] = node[b]
    BY <1>4, <1>5, <1>6
  <2>2. QED
    BY <1>1, <1>3, <2>1, InsertionKeeps
<1>10. Control'
  BY <1>0, <1>1, <1>3 DEF Control, InInsert, InSearch, InDestroy
<1>11. Inserting'
  BY <1>2, <1>3, <1>4 DEF Inserting, Pending
<1>12. ChannelsLive'
  <2>1. \A b \in Address : node[b].tag \in Tags
    BY <1>0 DEF TypeOK
  <2>2. QED
    BY <1>0, <1>1, <1>3, <1>4, <2>1 DEF ChannelsLive, TypeOK
<1>13. SameLinks
  BY <1>3, <1>4, <1>5, <1>6 DEF SameLinks, Kept, Freeing
<1>14. QED
  BY <1>7, <1>8, <1>9, <1>10, <1>11, <1>12, <1>13 DEF Inv

(* The steps of __bc_link_insert that leave the list as it is              *)
LEMMA InsertLockInv ==
  ASSUME Overlap = "orderly", Inv, (MayInsert /\ InsertLock) \/ InsertSignal \/ InsertUnlock
  PROVE  Inv' /\ SameLinks
<1>0. /\ TypeOK /\ ListInv /\ Control /\ Ordered /\ Inserting /\ Killing /\ Searching
      /\ ChannelsLive
  BY DEF Inv
<1>1. /\ UNCHANGED <<node, root, sink_tag, req, rtemp, temp, clink, ctag, served, killed,
                     channel, channel_rc>>
      /\ apc # "idle" /\ apc' \in {"next", "unlock", "idle"}
      /\ apc' # "idle" => link' = link
      /\ Pending => link' = link
      /\ link' \in Address \cup {NULL}
      /\ Pending' <=> Pending
  BY <1>0 DEF InsertLock, InsertSignal, InsertUnlock, heap, locals, cache, chans, remote, Pending,
              TypeOK
<1>2. \/ spc' = spc
      \/ spc = "s_wait" /\ spc' = "s_wake"
  BY <1>0 DEF InsertLock, InsertSignal, InsertUnlock, Control, GetPcs, KillPcs
<1>3. Destroying => KillsRoot
  BY <1>0 DEF Ordered, InsertLock, InsertSignal, InsertUnlock, MayInsert
<1>4. \A a \in Address : In(a)' <=> In(a)
  BY <1>1, <1>2 DEF In, Freeing
<1>5. TypeOK'
  BY <1>0, <1>1, <1>2 DEF TypeOK, InsertLock, InsertSignal, InsertUnlock
<1>6. ListInv'
  <2>1. Fresh' = Fresh
    BY <1>1 DEF Fresh
  <2>2. QED
    BY <1>0, <1>1, <1>4, <2>1, ListSame
<1>7. Ordered' /\ Killing' /\ Searching'
  BY <1>0, <1>1, <1>2, <1>3, <1>4, InsertionKeeps
<1>8. Control'
  BY <1>0, <1>1, <1>2 DEF Control, InsertLock, InsertSignal, InsertUnlock, InInsert, InSearch,
                          InDestroy, GetPcs, KillPcs
<1>9. Inserting'
  BY <1>0, <1>1 DEF Inserting, Pending
<1>10. ChannelsLive'
  BY <1>0, <1>1 DEF ChannelsLive
<1>11. SameLinks
  BY <1>1, <1>2, <1>4 DEF SameLinks, Kept, Freeing
<1>12. QED
  BY <1>5, <1>6, <1>7, <1>8, <1>9, <1>10, <1>11 DEF Inv

LEMMA InsertNextInv ==
  ASSUME Inv, InsertNext
  PROVE  Inv' /\ SameLinks
<1>0. /\ TypeOK /\ ListInv /\ Control /\ Ordered /\ Inserting /\ Killing /\ Searching
      /\ ChannelsLive
  BY DEF Inv
<1>1. /\ apc = "next" /\ apc' = "root" /\ Pending /\ Pending'
      /\ node' = [node EXCEPT ![link].next = root]
      /\ UNCHANGED <<root, owner, sink_tag, link, spc, req, rtemp, temp, clink, ctag, served,
                     killed, channel, channel_rc>>
  BY DEF InsertNext, locals, cache, chans, remote, Pending
<1>2. link \in Address /\ ~ In(link)
  BY <1>1, InFacts
<1>3. /\ node' \in [Address -> NodeSet]
      /\ node'[link].state = node[link].state /\ node'[link].tag = node[link].tag
      /\ node'[link].next = root
      /\ \A b \in Address \ {link} : node'[b] = node[b]
  <2>1. node \in [Address -> NodeSet] /\ root \in Address \cup {NULL}
    BY <1>0, TagTypes DEF TypeOK
  <2>2. node[link] \in [state : {"virgin", "live", "freed"}, tag : Tags, next : Address \cup {NULL}]
    BY <1>2, <2>1 DEF NodeSet
  <2>3. PICK n : n = [node[link] EXCEPT !.next = root]
    OBVIOUS
  <2>4. n \in NodeSet /\ n.state = node[link].state /\ n.tag = node[link].tag /\ n.next = root
    BY <2>1, <2>2, <2>3 DEF NodeSet
  <2>5. node' = [node EXCEPT ![link] = n]
    BY <1>1, <2>1, <2>3
  <2>6. QED
    BY <1>2, <2>1, <2>4, <2>5
<1>4. \A a \in Address : In(a)' <=> In(a)
  BY <1>1, <1>3 DEF In, Freeing
<1>5. TypeOK'
  BY <1>0, <1>1, <1>3 DEF TypeOK, NodeSet
<1>6. ListInv'
  <2>1. Fresh' = Fresh
    BY <1>1, <1>3 DEF Fresh
  <2>2. \A b \in Address : In(b) => node'[b].tag = node[b].tag /\ node'[b].next = node[b].next
    BY <1>2, <1>3
  <2>3. QED
    BY <1>0, <1>1, <1>4, <2>1, <2>2, ListSame
<1>7. Ordered' /\ Killing' /\ Searching'
  <2>1. \A b \in Address : In(b) => In(b)' /\ node'[b] = node[b]
    BY <1>2, <1>3, <1>4
  <2>2. Destroying => KillsRoot
    BY <1>0, <1>1 DEF Ordered
  <2>3. QED
    BY <1>1, <2>1, <2>2, InsertionKeeps
<1>8. Control'
  BY <1>0, <1>1 DEF Control, InInsert, InSearch, InDestroy
<1>9. Inserting'
  BY <1>0, <1>1, <1>2, <1>3 DEF Inserting
<1>10. ChannelsLive'
  BY <1>0, <1>1, <1>3 DEF ChannelsLive
<1>11. SameLinks
  BY <1>1, <1>2, <1>3, <1>4 DEF SameLinks, Kept, Freeing
<1>12. QED
  BY <1>5, <1>6, <1>7, <1>8, <1>9, <1>10, <1>11 DEF Inv

(* The link becomes the root                                               *)
LEMMA InsertRootInv ==
  ASSUME Inv, InsertRoot
  PROVE  /\ Inv' /\ ~ In(link)
         /\ \A a \in Address : In(a)' <=> In(a) \/ a = link
<1>0. /\ TypeOK /\ ListInv /\ Control /\ Ordered /\ Inserting /\ Killing /\ Searching
      /\ ChannelsLive
  BY DEF Inv
<1>1. /\ apc = "root" /\ apc' = "signal" /\ Pending /\ ~ Pending' /\ root' = link
      /\ UNCHANGED <<node, owner, sink_tag, link, spc, req, rtemp, temp, clink, ctag, served,
                     killed, channel, channel_rc>>
  BY DEF InsertRoot, locals, cache, chans, remote, Pending
<1>2. link \in Address /\ ~ In(link) /\ node[link].next = root /\ node[link].state = "live"
  BY <1>0, <1>1, InFacts DEF Inserting
<1>3. \A a \in Address : In(a)' <=> In(a) \/ a = link
  BY <1>1, <1>2 DEF In, Freeing
<1>4. TypeOK'
  BY <1>0, <1>1, <1>2 DEF TypeOK
<1>5. ListInv'
  <2>1. Fresh' = node[link].tag + 1
    BY <1>0, <1>1 DEF Fresh, Inserting
  <2>2. QED
    BY <1>0, <1>1, <1>2, <1>3, <2>1, ListInsert
<1>6. Ordered' /\ Killing' /\ Searching'
  <2>1. Destroying => KillsRoot
    BY <1>0, <1>1 DEF Ordered
  <2>2. QED
    BY <1>1, <1>3, <2>1, InsertionKeeps
<1>7. Control'
  BY <1>0, <1>1 DEF Control, InInsert, InSearch, InDestroy
<1>8. Inserting'
  BY <1>1, <1>2 DEF Inserting
<1>9. ChannelsLive'
  BY <1>0, <1>1 DEF ChannelsLive
<1>10. QED
  BY <1>2, <1>3, <1>4, <1>5, <1>6, <1>7, <1>8, <1>9 DEF Inv
-----------------------------------------------------------------------------
(* A step of the service thread that only reads the list                   *)
LEMMA ListRead ==
  ASSUME UNCHANGED <<node, apc, link>>, Freeing' <=> Freeing, Freeing => rtemp' = rtemp
  PROVE  /\ \A a \in Address : In(a)' <=> In(a)
         /\ \A t : Found(t)' <=> Found(t)
<1>1. \A a \in Address : In(a)' <=> In(a)
  BY DEF In, Pending
<1>2. QED
  BY <1>1 DEF Found

LEMMA ReadingInv ==
  ASSUME Inv, UNCHANGED <<node, root, apc, link, sink_tag, channel, channel_rc>>,
         Freeing' <=> Freeing, Freeing => rtemp' = rtemp,
         TypeOK', Control', Ordered', Killing', Searching'
  PROVE  Inv'
<1>1. ListInv /\ Inserting /\ ChannelsLive
  BY DEF Inv
<1>2. ListInv'
  <2>1. Fresh' = Fresh
    BY DEF Fresh, Pending
  <2>2. QED
    BY <1>1, <2>1, ListRead, ListSame
<1>3. Inserting' /\ ChannelsLive'
  BY <1>1 DEF Inserting, Pending, ChannelsLive
<1>4. QED
  BY <1>2, <1>3 DEF Inv

LEMMA RecvGetInv ==
  ASSUME Inv, NEW t \in Tags, RecvGet(t)
  PROVE  Inv' /\ ~ Freeing /\ ~ Freeing' /\ UNCHANGED <<node, apc, link>>
<1>0. TypeOK /\ Control /\ Killing /\ Searching
  BY DEF Inv
<1>1. /\ UNCHANGED <<node, root, owner, apc, link, sink_tag, channel, channel_rc, rtemp, temp,
                     clink, ctag, served, killed>>
      /\ spc = "recv" /\ req' = [code |-> "GET", tag |-> t]
      /\ spc' = IF clink # NULL /\ ctag = t THEN "serve" ELSE "s_lock"
  BY DEF RecvGet, heap, app, locals, cache, chans, remote
<1>2. ~ Freeing /\ ~ Freeing' /\ ~ Destroying /\ ~ Destroying'
  BY <1>0, <1>1 DEF Freeing, Destroying, Control, NoRequest
<1>3. /\ \A a \in Address : In(a)' <=> In(a)
      /\ \A u : Found(u)' <=> Found(u)
  BY <1>1, <1>2, ListRead
<1>4. TypeOK'
  BY <1>0, <1>1 DEF TypeOK
<1>5. Control'
  BY <1>0, <1>1 DEF Control, InInsert, InSearch, InDestroy, GetPcs, KillPcs
<1>6. Ordered' /\ Killing'
  BY <1>1, <1>2 DEF Ordered, Killing
<1>7. Searching'
  <2>1. clink' # NULL => In(clink)' /\ node'[clink'].tag = ctag'
    BY <1>0, <1>1, <1>2 DEF Searching, In, Pending
  <2>2. \A u \in served' : u \in killed' \/ Found(u)'
    BY <1>0, <1>1, <1>3 DEF Searching
  <2>3. QED
    BY <1>1, <2>1, <2>2 DEF Searching
<1>8. QED
  BY <1>1, <1>2, <1>4, <1>5, <1>6, <1>7, ReadingInv

(* Only links that a GET was served from are killed, and no other is being *)
(* inserted then, unless the root is to go                                 *)
LEMMA RecvKillInv ==
  ASSUME KillAfterGet, Overlap = "orderly", Inv, NEW t \in Tags, MayKill(t), RecvKill(t)
  PROVE  Inv' /\ ~ Freeing /\ ~ Freeing' /\ UNCHANGED <<node, apc, link>>
<1>0. TypeOK /\ Control /\ Killing /\ Searching
  BY DEF Inv
<1>1. /\ UNCHANGED <<node, root, owner, apc, link, sink_tag, channel, channel_rc, rtemp, temp,
                     clink, ctag, served>>
      /\ spc = "recv" /\ req' = [code |-> "KILL", tag |-> t] /\ spc' = "d_lock"
      /\ t \in served /\ t \notin killed /\ killed' = killed \cup {t}
      /\ \/ apc = "idle"
         \/ apc = "lock" /\ root # NULL /\ node[root].tag = t
  BY DEF RecvKill, heap, app, locals, cache, chans, remote, MayKill
<1>2. ~ Freeing /\ ~ Freeing' /\ ~ Destroying /\ Destroying'
  BY <1>0, <1>1 DEF Freeing, Destroying, Control, NoRequest
<1>3. /\ \A a \in Address : In(a)' <=> In(a)
      /\ \A u : Found(u)' <=> Found(u)
  BY <1>1, <1>2, ListRead
<1>4. TypeOK'
  BY <1>0, <1>1 DEF TypeOK
<1>5. Control'
  BY <1>0, <1>1 DEF Control, InInsert, InSearch, InDestroy, GetPcs, KillPcs
<1>6. Ordered'
  BY <1>1 DEF Ordered
<1>7. Killing'
  <2>1. Found(t)'
    BY <1>0, <1>1, <1>3 DEF Searching
  <2>2. Found(req.tag)' /\ req'.tag \in killed'
    BY <1>1, <2>1 DEF Found
  <2>3. QED
    BY <1>1, <1>2, <2>2 DEF Killing
<1>8. Searching'
  <2>1. \A u \in served' : u \in killed' \/ Found(u)'
    BY <1>0, <1>1, <1>3 DEF Searching
  <2>2. QED
    BY <1>1, <1>2, <2>1 DEF Searching
<1>9. QED
  BY <1>1, <1>2, <1>4, <1>5, <1>6, <1>7, <1>8, ReadingInv

(* A GET is served from the link that was found                            *)
LEMMA ServeInv ==
  ASSUME Inv, Serve
  PROVE  /\ Inv' /\ ~ Freeing /\ ~ Freeing' /\ UNCHANGED <<node, apc, link>>
         /\ Found(req.tag) /\ req.code = "GET"
<1>0. TypeOK /\ Control /\ Killing /\ Searching
  BY DEF Inv
<1>1. /\ UNCHANGED <<node, root, owner, apc, link, sink_tag, channel, channel_rc, rtemp, temp,
                     clink, ctag, killed>>
      /\ spc = "serve" /\ req' = NoRequest /\ spc' = "recv" /\ served' = served \cup {req.tag}
  BY DEF Serve, heap, app, locals, cache, chans
<1>2. ~ Freeing /\ ~ Freeing' /\ ~ Destroying /\ ~ Destroying'
  BY <1>0, <1>1 DEF Freeing, Destroying, Control, NoRequest, GetPcs
<1>3. /\ \A a \in Address : In(a)' <=> In(a)
      /\ \A u : Found(u)' <=> Found(u)
  BY <1>1, <1>2, ListRead
<1>4. clink \in Address /\ In(clink) /\ node[clink].tag = req.tag /\ Found(req.tag)
  BY <1>0, <1>1, <1>2 DEF Searching, TypeOK, Found
<1>5. TypeOK'
  <2>1. req.tag \in Tags /\ NoRequest \in [code : {"NONE", "GET", "KILL"}, tag : Tags]
    BY <1>0 DEF TypeOK, NoRequest, Tags
  <2>2. QED
    BY <1>0, <1>1, <2>1 DEF TypeOK
<1>6. Control'
  BY <1>0, <1>1 DEF Control, InInsert, InSearch, InDestroy, GetPcs, KillPcs
<1>7. Ordered' /\ Killing'
  BY <1>1, <1>2 DEF Ordered, Killing
<1>8. Searching'
  <2>1. clink' # NULL => In(clink)' /\ node'[clink'].tag = ctag'
    BY <1>0, <1>1, <1>2 DEF Searching, In, Pending
  <2>2. \A u \in served' : u \in killed' \/ Found(u)'
    BY <1>0, <1>1, <1>3, <1>4 DEF Searching
  <2>3. QED
    BY <1>1, <2>1, <2>2 DEF Searching
<1>9. req.code = "GET"
  BY <1>0, <1>1 DEF Control, GetPcs
<1>10. QED
  BY <1>1, <1>2, <1>4, <1>9, <1>5, <1>6, <1>7, <1>8, ReadingInv
(* Waiting for the mutex, for a link, or taking the mutex                  *)
LEMMA LockInv ==
  ASSUME Inv, Lock \/ CheckRoot \/ CondWait \/ SpuriousWakeup
  PROVE  Inv' /\ (Freeing' <=> Freeing) /\ UNCHANGED <<node, apc, link, rtemp, req>>
<1>0. TypeOK /\ Control /\ Ordered /\ Killing /\ Searching
  BY DEF Inv
<1>1. UNCHANGED <<node, root, apc, link, sink_tag, channel, channel_rc, req, rtemp, temp, clink,
                  ctag, served, killed>>
  BY DEF Lock, CheckRoot, CondWait, SpuriousWakeup, heap, app, locals, cache, chans, remote
<1>2. \/ /\ owner = "none" /\ owner' = "svc"
         /\ <<spc, spc'>> \in {<<"s_lock", "s_root">>, <<"s_miss", "s_check">>,
                               <<"s_wake", "s_root">>, <<"d_lock", "d_root">>,
                               <<"d_relock", "d_relink">>}
      \/ owner' = owner /\ spc = "s_check" /\ spc' \in {"s_root", "s_block"}
      \/ owner' = "none" /\ spc = "s_block" /\ spc' = "s_wait"
      \/ owner' = owner /\ spc = "s_wait" /\ spc' = "s_wake"
  BY <1>0 DEF Lock, CheckRoot, CondWait, SpuriousWakeup, Control, GetPcs, KillPcs
<1>3. /\ Freeing' <=> Freeing
      /\ Destroying' <=> Destroying
  BY <1>1, <1>2 DEF Freeing, Destroying
<1>4. /\ \A a \in Address : In(a)' <=> In(a)
      /\ \A u : Found(u)' <=> Found(u)
  BY <1>1, <1>3, ListRead
<1>5. TypeOK'
  BY <1>0, <1>1, <1>2 DEF TypeOK
<1>6. Control'
  <2>1. /\ owner' = "app" <=> InInsert'
        /\ owner' = "svc" <=> InSearch' \/ InDestroy'
    BY <1>0, <1>1, <1>2 DEF Control, InInsert, InSearch, InDestroy
  <2>2. /\ spc' \in GetPcs \cup KillPcs /\ spc' # "recv"
        /\ spc' \in GetPcs => spc \in GetPcs
        /\ spc' \in KillPcs => spc \in KillPcs
    BY <1>2 DEF GetPcs, KillPcs
  <2>3. QED
    BY <1>0, <1>1, <2>1, <2>2 DEF Control
<1>7. Ordered'
  BY <1>0, <1>1, <1>2 DEF Ordered, KillsRoot, Destroying, Control, GetPcs, KillPcs
<1>8. Killing'
  <2>1. Destroying' => Found(req.tag)' /\ req'.tag \in killed'
    BY <1>0, <1>1, <1>3, <1>4 DEF Killing, Found
  <2>2. /\ spc' \notin {"d_test", "d_scan", "d_unlink"}
        /\ Freeing' => /\ rtemp' \in Address /\ node'[rtemp'].state = "freed"
                       /\ node'[rtemp'].tag = req'.tag /\ temp' = node'[rtemp'].next
    BY <1>0, <1>1, <1>2, <1>3 DEF Killing
  <2>3. QED
    BY <2>1, <2>2 DEF Killing
<1>9. Searching'
  <2>1. clink' # NULL /\ ~ Destroying' => In(clink)' /\ node'[clink'].tag = ctag'
    BY <1>0, <1>1, <1>3 DEF Searching, In, Pending
  <2>2. \A u \in served' : u \in killed' \/ Found(u)'
    BY <1>0, <1>1, <1>4 DEF Searching
  <2>3. QED
    BY <1>2, <2>1, <2>2 DEF Searching
<1>10. QED
  BY <1>1, <1>3, <1>5, <1>6, <1>7, <1>8, <1>9, ReadingInv

(* The root is the link with the highest tag, or the one to destroy        *)
LEMMA ReadRootInv ==
  ASSUME Inv, ReadRoot
  PROVE  Inv' /\ ~ Freeing /\ ~ Freeing' /\ UNCHANGED <<node, apc, link, req>>
<1>0. TypeOK /\ ListInv /\ Control /\ Ordered /\ Killing /\ Searching
  BY DEF Inv
<1>1. /\ UNCHANGED <<node, root, apc, link, sink_tag, channel, channel_rc, req, clink, ctag,
                     served, killed>>
      /\ rtemp' = root /\ temp' = root /\ owner' = "none"
      /\ <<spc, spc'>> \in {<<"s_root", "s_scan">>, <<"d_root", "d_test">>}
  BY DEF ReadRoot, heap, app, cache, chans, remote
<1>2. /\ ~ Freeing /\ ~ Freeing'
      /\ Destroying' <=> Destroying
      /\ Destroying <=> spc = "d_root"
  BY <1>0, <1>1 DEF Freeing, Destroying, Control, GetPcs, KillPcs
<1>3. /\ \A a \in Address : In(a)' <=> In(a)
      /\ \A u : Found(u)' <=> Found(u)
  BY <1>1, <1>2, ListRead
<1>4. root # NULL => root \in Address /\ In(root) /\ In(root)'
  BY <1>0, <1>1, <1>3 DEF ListInv, Follows
<1>5. spc = "d_root" => root # NULL /\ req.tag <= node[root].tag
  <2>1. SUFFICES ASSUME spc = "d_root"
                 PROVE  root # NULL /\ req.tag <= node[root].tag
    OBVIOUS
  <2>2. PICK a \in Address : In(a) /\ node[a].tag = req.tag
    BY <1>0, <1>2, <2>1 DEF Killing, Found
  <2>3. QED
    BY <1>0, <2>2 DEF ListInv, Follows
<1>6. TypeOK'
  BY <1>0, <1>1 DEF TypeOK
<1>7. Control'
  <2>1. /\ owner' = "app" <=> InInsert'
        /\ owner' = "svc" <=> InSearch' \/ InDestroy'
    BY <1>0, <1>1 DEF Control, InInsert, InSearch, InDestroy
  <2>2. QED
    BY <1>0, <1>1, <2>1 DEF Control, GetPcs, KillPcs
<1>8. Ordered'
  BY <1>0, <1>1, <1>2 DEF Ordered, KillsRoot, Destroying
<1>9. Killing'
  <2>1. Destroying' => Found(req.tag)' /\ req'.tag \in killed'
    BY <1>0, <1>1, <1>2, <1>3 DEF Killing, Found
  <2>2. spc' = "d_test" => /\ rtemp' \in Address /\ In(rtemp)' /\ temp' = rtemp'
                           /\ req'.tag <= node'[rtemp'].tag
    BY <1>1, <1>4, <1>5 DEF In
  <2>3. QED
    BY <1>1, <1>2, <2>1, <2>2 DEF Killing
<1>10. Searching'
  <2>1. clink' # NULL /\ ~ Destroying' => In(clink)' /\ node'[clink'].tag = ctag'
    BY <1>0, <1>1, <1>2 DEF Searching, In, Pending
  <2>2. \A u \in served' : u \in killed' \/ Found(u)'
    BY <1>0, <1>1, <1>3 DEF Searching
  <2>3. spc' = "s_scan" /\ temp' # NULL => In(temp)'
    BY <1>1, <1>4 DEF In
  <2>4. QED
    BY <1>1, <2>1, <2>2, <2>3 DEF Searching
<1>11. QED
  BY <1>1, <1>2, <1>6, <1>7, <1>8, <1>9, <1>10, ReadingInv

LEMMA SearchStepInv ==
  ASSUME Inv, SearchStep
  PROVE  Inv' /\ ~ Freeing /\ ~ Freeing' /\ UNCHANGED <<node, apc, link, req>>
<1>0. TypeOK /\ ListInv /\ Control /\ Killing /\ Searching
  BY DEF Inv
<1>1. /\ UNCHANGED <<node, root, owner, apc, link, sink_tag, channel, channel_rc, req, rtemp,
                     served, killed>>
      /\ spc = "s_scan"
      /\ \/ temp = NULL /\ spc' = "s_miss" /\ UNCHANGED <<temp, clink, ctag>>
         \/ /\ temp # NULL /\ node[temp].tag = req.tag
            /\ clink' = temp /\ ctag' = req.tag /\ spc' = "serve" /\ temp' = temp
         \/ /\ temp # NULL /\ temp' = node[temp].next /\ spc' = spc
            /\ UNCHANGED <<clink, ctag>>
  BY DEF SearchStep, heap, app, cache, chans, remote
<1>2. ~ Freeing /\ ~ Freeing' /\ ~ Destroying /\ ~ Destroying'
  BY <1>0, <1>1 DEF Freeing, Destroying, Control, GetPcs
<1>3. /\ \A a \in Address : In(a)' <=> In(a)
      /\ \A u : Found(u)' <=> Found(u)
  BY <1>1, <1>2, ListRead
<1>4. temp # NULL => temp \in Address /\ In(temp)
  BY <1>0, <1>1 DEF TypeOK, Searching
<1>5. temp # NULL => Follows(node[temp].next, node[temp].tag)
  BY <1>0, <1>4 DEF ListInv
<1>6. TypeOK'
  <2>1. temp # NULL => node[temp].next \in Address \cup {NULL}
    BY <1>0, <1>4, TagTypes
  <2>2. req.tag \in 0 .. NTags
    BY <1>0 DEF TypeOK, Tags
  <2>3. QED
    BY <1>0, <1>1, <1>4, <2>1, <2>2 DEF TypeOK
<1>7. Control'
  BY <1>0, <1>1 DEF Control, InInsert, InSearch, InDestroy, GetPcs, KillPcs
<1>8. Ordered' /\ Killing'
  <2>1. spc' \in {"s_scan", "s_miss", "serve"}
    BY <1>1
  <2>2. QED
    BY <1>2, <2>1 DEF Ordered, Killing
<1>9. Searching'
  <2>1. spc' = "s_scan" /\ temp' # NULL => In(temp)'
    <3>1. SUFFICES ASSUME spc' = "s_scan", temp' # NULL
                   PROVE  In(temp)'
      OBVIOUS
    <3>2. PICK x \in Address : x = temp' /\ In(x)
      BY <1>1, <1>5, <3>1 DEF Follows
    <3>3. QED
      BY <1>3, <3>2 DEF In
  <2>2. clink' # NULL => In(clink)' /\ node'[clink'].tag = ctag'
    <3>1. CASE UNCHANGED <<clink, ctag>>
      BY <1>0, <1>1, <1>2, <3>1 DEF Searching, In, Pending
    <3>2. CASE temp # NULL /\ node[temp].tag = req.tag /\ clink' = temp /\ ctag' = req.tag
      BY <1>1, <1>2, <1>4, <3>2 DEF In, Pending
    <3>3. QED
      BY <1>1, <3>1, <3>2
  <2>3. \A u \in served' : u \in killed' \/ Found(u)'
    BY <1>0, <1>1, <1>3 DEF Searching
  <2>4. spc' = "serve" => clink' # NULL /\ ctag' = req'.tag
    BY <1>1
  <2>5. QED
    BY <2>1, <2>2, <2>3, <2>4 DEF Searching
<1>10. QED
  BY <1>1, <1>2, <1>6, <1>7, <1>8, <1>9, ReadingInv
-----------------------------------------------------------------------------
(* The destructor of one channel leaves the others alone                   *)
LEMMA DestructOne ==
  ASSUME TypeOK, NEW r, NEW t \in Tags, Destruct(r, t)
  PROVE  /\ channel' \in [Tags -> {"none", "live", "freed"}]
         /\ channel_rc' \in [Tags -> 0 .. 2]
         /\ \A u \in Tags \ {t} : channel'[u] = channel[u]
<1>1. channel \in [Tags -> {"none", "live", "freed"}] /\ channel_rc \in [Tags -> 0 .. 2]
  BY DEF TypeOK
<1>2. CASE r \notin Shared
  BY <1>1, <1>2 DEF Destruct
<1>3. CASE r \in Shared
  <2>1. channel_rc' = [channel_rc EXCEPT ![t] = IF @ = 0 THEN 0 ELSE @ - 1]
    BY <1>3 DEF Destruct
  <2>2. channel_rc' \in [Tags -> 0 .. 2]
    <3>1. (IF channel_rc[t] = 0 THEN 0 ELSE channel_rc[t] - 1) \in 0 .. 2
      BY <1>1
    <3>2. QED
      BY <1>1, <2>1, <3>1
  <2>3. channel' = [channel EXCEPT ![t] = IF channel_rc[t] = 1 THEN "freed" ELSE @]
    BY <1>3 DEF Destruct
  <2>4. QED
    BY <1>1, <2>2, <2>3
<1>4. QED
  BY <1>2, <1>3

(* Only the state of a node changes                                        *)
LEMMA FreeNode ==
  ASSUME node \in [Address -> NodeSet], NEW d \in Address,
         node' = [node EXCEPT ![d].state = "freed"]
  PROVE  /\ node' \in [Address -> NodeSet]
         /\ node'[d].state = "freed"
         /\ \A a \in Address \ {d} : node'[a].state = node[a].state
         /\ \A a \in Address : node'[a].tag = node[a].tag /\ node'[a].next = node[a].next
<1>1. node[d] \in [state : {"virgin", "live", "freed"}, tag : Tags, next : Address \cup {NULL}]
  BY DEF NodeSet
<1>2. PICK n : n = [node[d] EXCEPT !.state = "freed"]
  OBVIOUS
<1>3. n \in NodeSet /\ n.state = "freed" /\ n.tag = node[d].tag /\ n.next = node[d].next
  BY <1>1, <1>2 DEF NodeSet
<1>4. node' = [node EXCEPT ![d] = n]
  BY <1>2
<1>5. QED
  BY <1>3, <1>4

(* The root is freed and stays in the list, or the search for the link     *)
(* begins behind it                                                        *)
LEMMA DestroyTestInv ==
  ASSUME Inv, DestroyTest
  PROVE  /\ Inv' /\ ~ Freeing /\ UNCHANGED <<apc, link, req>>
         /\ \A a \in Address : node'[a].tag = node[a].tag /\ (In(a)' <=> In(a))
         /\ Freeing' => rtemp' \in Address /\ node[rtemp'].tag = req.tag /\ In(rtemp)'
<1>0. /\ TypeOK /\ ListInv /\ Control /\ Ordered /\ Inserting /\ Killing /\ Searching
      /\ ChannelsLive
  BY DEF Inv
<1>1. /\ spc = "d_test" /\ rtemp \in Address /\ In(rtemp) /\ temp = rtemp
      /\ req.tag <= node[rtemp].tag /\ rtemp # NULL
  BY <1>0 DEF DestroyTest, Killing
<1>2. ~ Freeing /\ Destroying /\ req.tag \in Nat /\ node[rtemp].tag \in Nat
  BY <1>0, <1>1, TagTypes DEF Freeing, Destroying, Control, KillPcs, TypeOK, Tags
<1>3. CASE node[rtemp].tag = req.tag
  <2>1. /\ temp' = node[rtemp].next
        /\ Destruct(req.tag, req.tag)
        /\ node' = [node EXCEPT ![rtemp].state = "freed"]
        /\ spc' = "d_relock"
        /\ UNCHANGED <<root, owner, sink_tag, apc, link, req, rtemp, clink, ctag, served, killed>>
    BY <1>1, <1>3 DEF DestroyTest, Crash, app, cache, remote
  <2>2. /\ node' \in [Address -> NodeSet] /\ node'[rtemp].state = "freed"
        /\ \A a \in Address \ {rtemp} : node'[a].state = node[a].state
        /\ \A a \in Address : node'[a].tag = node[a].tag /\ node'[a].next = node[a].next
    BY <1>0, <1>1, <2>1, FreeNode, TagTypes
  <2>3. Freeing' /\ Destroying'
    BY <1>2, <2>1 DEF Freeing, Destroying
  <2>4. Pending' <=> Pending
    BY <2>1 DEF Pending
  <2>5. Pending => link \in Address /\ link # rtemp /\ node[link].state = "live"
    BY <1>1, InFacts
  <2>6. \A a \in Address : In(a)' <=> In(a)
    BY <1>1, <1>2, <2>1, <2>2, <2>3, <2>4 DEF In
  <2>7. \A u : Found(u)' <=> Found(u)
    BY <2>2, <2>6 DEF Found
  <2>8. req.tag \in Tags
    BY <1>0 DEF TypeOK
  <2>9. /\ channel' \in [Tags -> {"none", "live", "freed"}]
        /\ channel_rc' \in [Tags -> 0 .. 2]
        /\ \A u \in Tags \ {req.tag} : channel'[u] = channel[u]
    BY <1>0, <2>1, <2>8, DestructOne
  <2>10. TypeOK'
    <3>1. temp' \in Address \cup {NULL}
      BY <1>0, <1>1, <2>1, TagTypes
    <3>2. QED
      BY <1>0, <2>1, <2>2, <2>9, <3>1 DEF TypeOK, NodeSet
  <2>11. ListInv'
    <3>1. Fresh' = Fresh
      BY <2>1, <2>2, <2>4, <2>5 DEF Fresh
    <3>2. QED
      BY <1>0, <2>1, <2>2, <2>6, <3>1, ListSame
  <2>12. Control'
    BY <1>0, <1>1, <2>1 DEF Control, InInsert, InSearch, InDestroy, GetPcs, KillPcs
  <2>13. Ordered'
    BY <2>1 DEF Ordered, KillsRoot
  <2>14. Inserting'
    BY <1>0, <2>1, <2>2, <2>4, <2>5 DEF Inserting
  <2>15. Killing'
    <3>1. Found(req.tag)' /\ req'.tag \in killed'
      BY <1>0, <1>2, <2>1, <2>7 DEF Killing, Found
    <3>2. /\ rtemp' \in Address /\ node'[rtemp'].state = "freed"
          /\ node'[rtemp'].tag = req'.tag /\ temp' = node'[rtemp'].next
      BY <1>1, <1>3, <2>1, <2>2
    <3>3. QED
      BY <2>1, <3>1, <3>2 DEF Killing
  <2>16. Searching'
    BY <1>0, <2>1, <2>3, <2>7 DEF Searching
  <2>17. ChannelsLive'
    <3>1. SUFFICES ASSUME NEW a \in Address, node'[a].state = "live"
                   PROVE  channel'[node'[a].tag] = "live"
      BY DEF ChannelsLive
    <3>2. a # rtemp /\ node[a].state = "live" /\ node'[a].tag = node[a].tag
      BY <2>2, <3>1
    <3>3. node[a].tag # req.tag
      <4>1. CASE In(a)
        BY <1>0, <1>1, <1>3, <3>2, <4>1 DEF ListInv
      <4>2. CASE ~ In(a)
        <5>1. Pending /\ a = link
          BY <3>2, <4>2 DEF In
        <5>2. node[rtemp].tag < node[link].tag
          BY <1>0, <1>1, <5>1 DEF ListInv, Fresh
        <5>3. QED
          BY <1>2, <1>3, <5>1, <5>2
      <4>3. QED
        BY <4>1, <4>2
    <3>4. node[a].tag \in Tags
      BY <1>0 DEF TypeOK
    <3>5. QED
      BY <1>0, <2>9, <3>2, <3>3, <3>4 DEF ChannelsLive
  <2>18. In(rtemp)'
    BY <2>1, <2>3 DEF In
  <2>19. QED
    BY <1>1, <1>2, <1>3, <2>1, <2>2, <2>6, <2>10, <2>11, <2>12, <2>13, <2>14, <2>15, <2>16, <2>17,
       <2>18 DEF Inv
<1>4. CASE node[rtemp].tag # req.tag
  <2>1. /\ spc' = "d_scan"
        /\ UNCHANGED <<node, root, owner, apc, link, sink_tag, channel, channel_rc, req, rtemp,
                       temp, clink, ctag, served, killed>>
    BY <1>1, <1>4 DEF DestroyTest, Crash, heap, app, locals, cache, chans, remote
  <2>2. ~ Freeing' /\ Destroying'
    BY <1>2, <2>1 DEF Freeing, Destroying
  <2>3. /\ \A a \in Address : In(a)' <=> In(a)
        /\ \A u : Found(u)' <=> Found(u)
    BY <1>2, <2>1, <2>2, ListRead
  <2>4. TypeOK'
    BY <1>0, <2>1 DEF TypeOK
  <2>5. Control'
    BY <1>0, <1>1, <2>1 DEF Control, InInsert, InSearch, InDestroy, GetPcs, KillPcs
  <2>6. Ordered'
    BY <1>0, <1>1, <1>2, <1>4, <2>1 DEF Ordered, KillsRoot
  <2>7. Killing'
    <3>1. Found(req.tag)' /\ req'.tag \in killed'
      BY <1>0, <1>2, <2>1, <2>3 DEF Killing, Found
    <3>2. temp' \in Address /\ In(temp)' /\ req'.tag < node'[temp'].tag
      BY <1>1, <1>2, <1>4, <2>1 DEF In, Pending
    <3>3. QED
      BY <2>1, <2>2, <3>1, <3>2 DEF Killing
  <2>8. Searching'
    BY <1>0, <2>1, <2>2, <2>3 DEF Searching
  <2>9. Inv'
    BY <1>2, <2>1, <2>2, <2>4, <2>5, <2>6, <2>7, <2>8, ReadingInv
  <2>10. QED
    BY <1>2, <2>1, <2>2, <2>3, <2>9
<1>5. QED
  BY <1>3, <1>4

(* The link to destroy is below temp, so the end is never reached          *)
LEMMA DestroyStepInv ==
  ASSUME Inv, DestroyStep
  PROVE  Inv' /\ ~ Freeing /\ ~ Freeing' /\ UNCHANGED <<node, apc, link, req>>
<1>0. TypeOK /\ ListInv /\ Control /\ Ordered /\ Killing /\ Searching
  BY DEF Inv
<1>1. /\ spc = "d_scan" /\ temp \in Address /\ In(temp) /\ req.tag < node[temp].tag
      /\ ~ Freeing /\ Destroying /\ ~ KillsRoot
  BY <1>0 DEF DestroyStep, Killing, Freeing, Destroying, Control, KillPcs, KillsRoot
<1>2. req.tag \in Nat /\ \A a \in Address : node[a].tag \in Nat
  BY <1>0, TagTypes DEF TypeOK, Tags
<1>3. PICK k \in Address : In(k) /\ node[k].tag = req.tag
  BY <1>0, <1>1 DEF Killing, Found
<1>4. \A a \in Address : In(a) /\ req.tag < node[a].tag =>
        /\ node[a].next \in Address /\ node[a].next # NULL /\ In(node[a].next)
        /\ req.tag <= node[node[a].next].tag
  BY <1>0, <1>3 DEF ListInv, Follows
<1>5. PICK nxt \in Address : /\ nxt = node[temp].next /\ nxt # NULL /\ In(nxt)
                             /\ req.tag <= node[nxt].tag
  BY <1>1, <1>4
<1>6. req.tag < node[nxt].tag => node[nxt].next # NULL
  BY <1>4, <1>5
<1>7. /\ UNCHANGED <<node, root, owner, apc, link, sink_tag, channel, channel_rc, req, rtemp,
                     clink, ctag, served, killed>>
      /\ \/ node[nxt].tag = req.tag /\ spc' = "d_unlink" /\ temp' = temp
         \/ node[nxt].tag # req.tag /\ spc' = "d_scan" /\ temp' = nxt
  BY <1>2, <1>5, <1>6 DEF DestroyStep, Crash, heap, app, locals, cache, chans, remote
<1>8. ~ Freeing' /\ Destroying'
  BY <1>1, <1>7 DEF Freeing, Destroying
<1>9. /\ \A a \in Address : In(a)' <=> In(a)
      /\ \A u : Found(u)' <=> Found(u)
  BY <1>1, <1>7, <1>8, ListRead
<1>10. TypeOK'
  BY <1>0, <1>7 DEF TypeOK
<1>11. Control'
  BY <1>0, <1>1, <1>7 DEF Control, InInsert, InSearch, InDestroy, GetPcs, KillPcs
<1>12. Ordered'
  BY <1>0, <1>1, <1>7 DEF Ordered
<1>13. Killing'
  <2>1. Found(req.tag)' /\ req'.tag \in killed'
    BY <1>0, <1>1, <1>7, <1>9 DEF Killing, Found
  <2>2. temp' \in Address /\ In(temp)' /\ req'.tag < node'[temp'].tag
    <3>1. PICK x \in Address : x = temp' /\ In(x) /\ req.tag < node[x].tag
      BY <1>1, <1>2, <1>5, <1>7
    <3>2. QED
      BY <1>7, <1>9, <3>1 DEF In
  <2>3. spc' = "d_unlink" => node'[temp'].next # NULL /\ node'[node'[temp'].next].tag = req'.tag
    BY <1>5, <1>7
  <2>4. QED
    BY <1>7, <1>8, <2>1, <2>2, <2>3 DEF Killing
<1>14. Searching'
  BY <1>0, <1>7, <1>8, <1>9 DEF Searching
<1>15. QED
  BY <1>1, <1>7, <1>8, <1>10, <1>11, <1>12, <1>13, <1>14, ReadingInv
-----------------------------------------------------------------------------
(* Only the successor of a node changes                                    *)
LEMMA RedirectNode ==
  ASSUME node \in [Address -> NodeSet], NEW d \in Address, NEW x \in Address \cup {NULL},
         node' = [node EXCEPT ![d].next = x]
  PROVE  /\ node' \in [Address -> NodeSet]
         /\ node'[d].next = x
         /\ \A a \in Address \ {d} : node'[a].next = node[a].next
         /\ \A a \in Address : node'[a].tag = node[a].tag /\ node'[a].state = node[a].state
<1>1. node[d] \in [state : {"virgin", "live", "freed"}, tag : Tags, next : Address \cup {NULL}]
  BY DEF NodeSet
<1>2. PICK n : n = [node[d] EXCEPT !.next = x]
  OBVIOUS
<1>3. n \in NodeSet /\ n.next = x /\ n.tag = node[d].tag /\ n.state = node[d].state
  BY <1>1, <1>2 DEF NodeSet
<1>4. node' = [node EXCEPT ![d] = n]
  BY <1>2
<1>5. QED
  BY <1>3, <1>4

(* Following the pointers from the root meets links of the list only       *)
LEMMA VisitedIn ==
  ASSUME TypeOK, ListInv, NEW stop, NEW a \in Visited(root, stop)
  PROVE  a \in Address /\ a # stop /\ In(a)
<1> DEFINE S == {b \in Address : In(b)} \cup {NULL}
<1>1. root \in S
  BY DEF ListInv, Follows
<1>2. \A b \in S \ {NULL, stop} : node[b].next \in S
  BY DEF ListInv, Follows
<1>3. S \in SUBSET (Address \cup {NULL})
  OBVIOUS
<1>4. a \in S /\ a \in Address /\ a # stop
  BY <1>1, <1>2, <1>3 DEF Visited, Closed
<1>5. QED
  BY <1>4

(* The freed root leaves the list, and with it the tag of the KILL         *)
LEMMA RelinkInv ==
  ASSUME Inv, Relink
  PROVE  /\ Inv' /\ Freeing /\ ~ Freeing' /\ Destroying /\ req' = NoRequest
         /\ rtemp \in Address /\ In(rtemp) /\ node[rtemp].tag = req.tag
         /\ \A a \in Address : node'[a].tag = node[a].tag /\ (In(a)' <=> In(a) /\ a # rtemp)
<1>0. /\ TypeOK /\ ListInv /\ Control /\ Inserting /\ Killing /\ Searching /\ ChannelsLive
      /\ node \in [Address -> NodeSet]
  BY TagTypes DEF Inv
<1>1. /\ UNCHANGED <<sink_tag, apc, link, rtemp, temp, ctag, channel, channel_rc, served, killed>>
      /\ spc = "d_relink" /\ spc' = "recv" /\ owner' = "none" /\ clink' = NULL
      /\ req' = NoRequest
  BY DEF Relink, KillDone, app, chans, remote
<1>2. Freeing /\ ~ Freeing' /\ Destroying /\ ~ Destroying'
  BY <1>0, <1>1 DEF Freeing, Destroying, Control, KillPcs, NoRequest
<1>3. /\ rtemp \in Address /\ node[rtemp].state = "freed" /\ node[rtemp].tag = req.tag
      /\ temp = node[rtemp].next /\ temp \in Address \cup {NULL}
      /\ In(rtemp) /\ rtemp # NULL
  BY <1>0, <1>2, TagTypes DEF Killing, In
<1>4. /\ ~ InInsert /\ apc \in {"idle", "lock"}
      /\ Pending' <=> Pending
  BY <1>0, <1>1 DEF Control, InInsert, InDestroy, TypeOK, Pending
<1>5. Pending => link \in Address /\ ~ In(link) /\ node[link].state = "live"
  BY InFacts
<1>6. /\ node' \in [Address -> NodeSet] /\ root' \in Address \cup {NULL}
      /\ \A a \in Address : node'[a].tag = node[a].tag /\ node'[a].state = node[a].state
      /\ \/ /\ root = rtemp /\ root' = node[rtemp].next
            /\ \A a \in Address : node'[a].next = node[a].next
         \/ /\ root' = root
            /\ \E a \in Address : /\ In(a) /\ node[a].next = rtemp
                                  /\ node'[a].next = node[rtemp].next
                                  /\ \A b \in Address \ {a} : node'[b].next = node[b].next
  <2>1. CASE rtemp = root
    <3>1. root' = temp /\ node' = node
      BY <2>1 DEF Relink
    <3>2. QED
      BY <1>0, <1>3, <2>1, <3>1
  <2>2. CASE rtemp # root
    <3>1. root' = root /\ \E a \in Visited(root, rtemp) :
            node[a].next = rtemp /\ node' = [node EXCEPT ![a].next = temp]
      BY <2>2 DEF Relink
    <3>2. PICK a \in Visited(root, rtemp) :
            node[a].next = rtemp /\ node' = [node EXCEPT ![a].next = temp]
      BY <3>1
    <3>3. a \in Address /\ In(a)
      BY <1>0, VisitedIn
    <3>4. /\ node' \in [Address -> NodeSet] /\ node'[a].next = temp
          /\ \A b \in Address \ {a} : node'[b].next = node[b].next
          /\ \A b \in Address : node'[b].tag = node[b].tag /\ node'[b].state = node[b].state
      BY <1>0, <1>3, <3>2, <3>3, RedirectNode
    <3>5. root \in Address \cup {NULL}
      BY <1>0 DEF TypeOK
    <3>6. QED
      BY <1>3, <3>1, <3>2, <3>3, <3>4, <3>5
  <2>3. QED
    BY <2>1, <2>2
<1>7. \A a \in Address : In(a)' <=> In(a) /\ a # rtemp
  BY <1>1, <1>2, <1>3, <1>4, <1>5, <1>6 DEF In
<1>8. TypeOK'
  <2>1. NoRequest \in [code : {"NONE", "GET", "KILL"}, tag : Tags]
    BY DEF NoRequest, Tags
  <2>2. QED
    BY <1>0, <1>1, <1>6, <2>1 DEF TypeOK, NodeSet
<1>9. ListInv'
  <2>1. Fresh' = Fresh
    BY <1>1, <1>4, <1>5, <1>6 DEF Fresh
  <2>2. QED
    BY <1>0, <1>3, <1>5, <1>6, <1>7, <2>1, ListRemove
<1>10. Control'
  BY <1>0, <1>1, <1>4 DEF Control, InInsert, InSearch, InDestroy, GetPcs, KillPcs
<1>11. Ordered' /\ Killing'
  BY <1>1, <1>2 DEF Ordered, Killing
<1>12. Inserting'
  BY <1>0, <1>1, <1>4, <1>5, <1>6 DEF Inserting
<1>13. Searching'
  <2>1. ASSUME NEW t \in served, t \notin killed
        PROVE  Found(t)'
    <3>1. PICK a \in Address : In(a) /\ node[a].tag = t
      BY <1>0, <2>1 DEF Searching, Found
    <3>2. a # rtemp
      BY <1>0, <1>2, <1>3, <2>1, <3>1 DEF Killing
    <3>3. QED
      BY <1>6, <1>7, <3>1, <3>2 DEF Found
  <2>2. QED
    BY <1>1, <2>1 DEF Searching
<1>14. ChannelsLive'
  BY <1>0, <1>1, <1>6 DEF ChannelsLive
<1>15. QED
  BY <1>1, <1>2, <1>3, <1>6, <1>7, <1>8, <1>9, <1>10, <1>11, <1>12, <1>13, <1>14 DEF Inv

(* An inner link leaves the list; no insertion is under way                *)
LEMMA UnlinkInv ==
  ASSUME Inv, Unlink
  PROVE  /\ Inv' /\ ~ Freeing /\ ~ Freeing' /\ Destroying /\ req' = NoRequest
         /\ \E d \in Address :
              /\ In(d) /\ node[d].tag = req.tag
              /\ \A a \in Address : node'[a].tag = node[a].tag /\ (In(a)' <=> In(a) /\ a # d)
<1>0. /\ TypeOK /\ ListInv /\ Control /\ Ordered /\ Inserting /\ Killing /\ Searching
      /\ ChannelsLive /\ node \in [Address -> NodeSet]
  BY TagTypes DEF Inv
<1>1. PICK d : d = node[temp].next
  OBVIOUS
<1>2. /\ UNCHANGED <<root, sink_tag, apc, link, rtemp, temp, ctag, served, killed>>
      /\ spc = "d_unlink" /\ spc' = "recv" /\ owner' = "none" /\ clink' = NULL
      /\ req' = NoRequest
      /\ node' = [node EXCEPT ![temp].next = node[d].next, ![d].state = "freed"]
      /\ Destruct(node[temp].tag, node[d].tag)
  BY <1>1 DEF Unlink, KillDone, app, remote
<1>3. ~ Freeing /\ ~ Freeing' /\ Destroying /\ ~ Destroying' /\ ~ KillsRoot
  BY <1>0, <1>2 DEF Freeing, Destroying, Control, KillPcs, NoRequest, KillsRoot
<1>4. apc = "idle" /\ ~ Pending /\ ~ Pending'
  BY <1>0, <1>2, <1>3 DEF Ordered, Pending
<1>5. temp \in Address /\ In(temp) /\ req.tag < node[temp].tag /\ d # NULL /\ node[d].tag = req.tag
  BY <1>0, <1>1, <1>2 DEF Killing
<1>6. d \in Address /\ In(d) /\ d # temp
  <2>1. \A a \in Address : In(a) => (node[a].next # NULL =>
           node[a].next \in Address /\ In(node[a].next) /\ node[node[a].next].tag < node[a].tag)
    BY <1>0 DEF ListInv, Follows
  <2>2. node[temp].tag \in Nat /\ d \in Address /\ In(d) /\ node[d].tag < node[temp].tag
    BY <1>0, <1>1, <1>5, <2>1, TagTypes
  <2>3. QED
    BY <2>2
<1>7. /\ node' \in [Address -> NodeSet]
      /\ \A a \in Address : node'[a].tag = node[a].tag
      /\ node'[temp].next = node[d].next
      /\ \A a \in Address \ {temp} : node'[a].next = node[a].next
      /\ node'[d].state = "freed"
      /\ \A a \in Address \ {d} : node'[a].state = node[a].state
  <2>1. \A a \in Address : node[a] \in [state : {"virgin", "live", "freed"}, tag : Tags,
                                        next : Address \cup {NULL}]
    BY <1>0 DEF NodeSet
  <2>2. PICK m : m = [node[temp] EXCEPT !.next = node[d].next]
    OBVIOUS
  <2>3. PICK n : n = [node[d] EXCEPT !.state = "freed"]
    OBVIOUS
  <2>4. node[d].next \in Address \cup {NULL}
    BY <1>0, <1>6, TagTypes
  <2>5. /\ m \in NodeSet /\ m.next = node[d].next /\ m.tag = node[temp].tag
        /\ m.state = node[temp].state
    BY <1>5, <2>1, <2>2, <2>4 DEF NodeSet
  <2>6. n \in NodeSet /\ n.state = "freed" /\ n.tag = node[d].tag /\ n.next = node[d].next
    BY <1>6, <2>1, <2>3 DEF NodeSet
  <2>7. node' = [node EXCEPT ![temp] = m, ![d] = n]
    BY <1>0, <1>2, <1>5, <1>6, <2>2, <2>3
  <2>8. QED
    BY <1>0, <1>5, <1>6, <2>5, <2>6, <2>7
<1>8. \A a \in Address : In(a)' <=> In(a) /\ a # d
  BY <1>3, <1>4, <1>7 DEF In
<1>9. node[d].tag \in Tags /\ node[temp].tag \in Tags
  BY <1>0, <1>5, <1>6 DEF NodeSet
<1>10. /\ channel' \in [Tags -> {"none", "live", "freed"}]
       /\ channel_rc' \in [Tags -> 0 .. 2]
       /\ \A u \in Tags \ {node[d].tag} : channel'[u] = channel[u]
  <2>1. PICK r \in Tags, t \in Tags : t = node[d].tag /\ Destruct(r, t)
    BY <1>2, <1>9
  <2>2. QED
    BY <1>0, <2>1, DestructOne
<1>11. TypeOK'
  <2>1. NoRequest \in [code : {"NONE", "GET", "KILL"}, tag : Tags]
    BY DEF NoRequest, Tags
  <2>2. QED
    BY <1>0, <1>2, <1>7, <1>10, <2>1 DEF TypeOK, NodeSet
<1>12. ListInv'
  <2>1. Fresh' = Fresh
    BY <1>2, <1>4 DEF Fresh
  <2>2. \E a \in Address : /\ In(a) /\ node[a].next = d /\ node'[a].next = node[d].next
                           /\ \A b \in Address \ {a} : node'[b].next = node[b].next
    BY <1>1, <1>5, <1>7
  <2>3. \A a \in Address : node'[a].tag = node[a].tag
    BY <1>7
  <2>4. QED
    BY <1>0, <1>2, <1>4, <1>6, <1>8, <2>1, <2>2, <2>3, ListRemove
<1>13. Control'
  BY <1>0, <1>2, <1>4 DEF Control, InInsert, InSearch, InDestroy, GetPcs, KillPcs
<1>14. Ordered' /\ Killing'
  BY <1>2, <1>3 DEF Ordered, Killing
<1>15. Inserting'
  BY <1>2, <1>4 DEF Inserting, Pending
<1>16. Searching'
  <2>1. ASSUME NEW t \in served, t \notin killed
        PROVE  Found(t)'
    <3>1. PICK a \in Address : In(a) /\ node[a].tag = t
      BY <1>0, <2>1 DEF Searching, Found
    <3>2. a # d
      BY <1>0, <1>3, <1>5, <2>1, <3>1 DEF Killing
    <3>3. QED
      BY <1>7, <1>8, <3>1, <3>2 DEF Found
  <2>2. QED
    BY <1>2, <2>1 DEF Searching
<1>17. ChannelsLive'
  <2>1. SUFFICES ASSUME NEW a \in Address, node'[a].state = "live"
                 PROVE  channel'[node'[a].tag] = "live"
    BY DEF ChannelsLive
  <2>2. a # d /\ node[a].state = "live" /\ node'[a].tag = node[a].tag /\ In(a)
    BY <1>4, <1>7, <2>1 DEF In
  <2>3. node[a].tag # node[d].tag
    BY <1>0, <1>6, <2>2 DEF ListInv
  <2>4. node[a].tag \in Tags
    BY <1>0 DEF NodeSet
  <2>5. QED
    BY <1>0, <1>10, <2>2, <2>3, <2>4 DEF ChannelsLive
<1>18. QED
  BY <1>2, <1>3, <1>5, <1>6, <1>7, <1>8, <1>11, <1>12, <1>13, <1>14, <1>15, <1>16, <1>17 DEF Inv
-----------------------------------------------------------------------------
LEMMA StepInv ==
  ASSUME Overlap = "orderly", KillAfterGet, ~ EarlyReuse, Inv, [Next]_vars
  PROVE  Inv'
<1>1. CASE MayInsert /\ CreateLink
  BY <1>1, CreateLinkInv
<1>2. CASE Insert
  BY <1>2, InsertLockInv, InsertNextInv, InsertRootInv DEF Insert
<1>3. CASE Service
  BY <1>3, ServeInv, LockInv, ReadRootInv, SearchStepInv, DestroyTestInv, RelinkInv,
     DestroyStepInv, UnlinkInv DEF Service
<1>4. CASE SpuriousWakeup
  BY <1>4, LockInv
<1>5. ASSUME NEW t \in Tags, RecvGet(t) \/ (MayKill(t) /\ RecvKill(t))
      PROVE  Inv'
  BY <1>5, RecvGetInv, RecvKillInv
<1>6. CASE UNCHANGED vars
  <2>1. /\ UNCHANGED <<node, root, apc, link, sink_tag, channel, channel_rc, owner, spc, req>>
        /\ UNCHANGED <<rtemp, temp, clink, ctag, served, killed>>
    BY <1>6 DEF vars
  <2>2. Freeing' <=> Freeing
    BY <2>1 DEF Freeing
  <2>3. /\ \A a \in Address : In(a)' <=> In(a)
        /\ \A u : Found(u)' <=> Found(u)
    BY <2>1, <2>2, ListRead
  <2>4. TypeOK' /\ Control' /\ Ordered'
    BY <2>1 DEF Inv, TypeOK, Control, InInsert, InSearch, InDestroy, Ordered, Destroying, KillsRoot
  <2>5. Killing'
    BY <2>1, <2>2, <2>3 DEF Inv, Killing, Destroying, Found, In, Pending, Freeing
  <2>6. Searching'
    <3>1. Searching
      BY DEF Inv
    <3>2. \A u \in served' : u \in killed' \/ Found(u)'
      BY <2>1, <2>3, <3>1 DEF Searching
    <3>3. QED
      BY <2>1, <2>2, <3>1, <3>2 DEF Searching, Destroying, In, Pending, Freeing
  <2>7. QED
    BY <2>1, <2>2, <2>4, <2>5, <2>6, ReadingInv
<1>7. QED
  BY <1>1, <1>2, <1>3, <1>4, <1>5, <1>6 DEF Next

(* The list stays sorted and complete, whatever the two threads interleave *)
THEOREM Invariance ==
  ASSUME Overlap = "orderly", KillAfterGet, ~ EarlyReuse
  PROVE  Spec => []Inv
<1>1. Inv /\ [Next]_vars => Inv'
  BY StepInv
<1>2. QED
  BY InitInv, <1>1, PTL DEF Spec

(* AccessSafe: __bc_link_destroy never follows a null pointer, and neither *)
(* thread is in the list between lock and unlock with the other            *)
THEOREM AccessCorrect ==
  ASSUME Overlap = "orderly", KillAfterGet, ~ EarlyReuse
  PROVE  Spec => []AccessSafe
<1>1. Inv => AccessSafe
  <2>1. SUFFICES ASSUME Inv
                 PROVE  AccessSafe
    OBVIOUS
  <2>2. Control
    BY <2>1 DEF Inv
  <2>3. NoCrash
    BY <2>2 DEF Control, NoCrash, GetPcs, KillPcs
  <2>4. MutualExclusion
    BY <2>2 DEF Control, MutualExclusion
  <2>5. QED
    BY <2>3, <2>4 DEF AccessSafe
<1>2. QED
  BY Invariance, <1>1, PTL

-----------------------------------------------------------------------------
(* The least-number principle                                              *)
LEMMA Least ==
  ASSUME NEW T \in SUBSET Nat, T # {}
  PROVE  \E m \in T : \A n \in T : m <= n
<1> DEFINE R == {ss \in Nat \X Nat : ss[1] < ss[2]}
<1>1. IsWellFoundedOn(R, Nat)
  BY NatLessThanWellFounded DEF OpToRel
<1>2. \A x, y \in Nat : y < x => <<y, x>> \in R
  OBVIOUS
<1> HIDE DEF R
<1>3. PICK m \in T : \A n \in T : ~ (<<n, m>> \in R)
  BY <1>1, WFMin
<1>4. ASSUME NEW n \in T
      PROVE  m <= n
  <2>1. m \in Nat /\ n \in Nat /\ ~ (n < m)
    BY <1>2, <1>3
  <2>2. QED
    BY <2>1
<1>5. QED
  BY <1>4

(* Following the pointers from the root meets every link of the list: of   *)
(* those it missed the newest would be the successor of the one before it  *)
LEMMA Reaches ==
  ASSUME Inv
  PROVE  Visited(root, NULL) = {a \in Address : In(a)}
<1>0. TypeOK /\ ListInv /\ NULL \notin Address
  BY DEF Inv
<1>1. \A a \in Address : node[a].tag \in 0 .. NTags - 1
  BY <1>0 DEF TypeOK, Tags
<1>2. SUFFICES ASSUME NEW c \in Address, In(c), NEW S \in SUBSET (Address \cup {NULL}),
                      root \in S, Closed(S, NULL), c \notin S
               PROVE  FALSE
  BY <1>0, VisitedIn DEF Visited
<1>3. PICK b \in Address :
        /\ In(b) /\ b \notin S
        /\ \A e \in Address : In(e) /\ e \notin S => node[e].tag <= node[b].tag
  <2> DEFINE T == {n \in Nat : \E e \in Address : In(e) /\ e \notin S /\ n + node[e].tag = NTags}
  <2>1. \A e \in Address : In(e) /\ e \notin S => NTags - node[e].tag \in T
    BY <1>1
  <2>2. PICK m \in T : \A n \in T : m <= n
    BY <1>2, <2>1, Least
  <2>3. PICK b \in Address : In(b) /\ b \notin S /\ m + node[b].tag = NTags
    OBVIOUS
  <2>4. ASSUME NEW e \in Address, In(e), e \notin S
        PROVE  node[e].tag <= node[b].tag
    <3>1. m <= NTags - node[e].tag
      BY <2>1, <2>2, <2>4
    <3>2. QED
      BY <1>1, <2>3, <3>1
  <2>5. QED
    BY <2>3, <2>4
<1>4. ASSUME NEW x, NEW n, Follows(x, n), x \in S, node[b].tag < n
      PROVE  /\ x \in Address /\ x # NULL /\ In(x)
             /\ node[b].tag < node[x].tag /\ node[x].tag < n
  <2>1. x # NULL /\ x \in Address /\ In(x) /\ node[x].tag < n /\ node[b].tag <= node[x].tag
    BY <1>3, <1>4 DEF Follows
  <2>2. node[b].tag # node[x].tag
    BY <1>0, <1>3, <1>4, <2>1 DEF ListInv
  <2>3. QED
    BY <1>1, <2>1, <2>2
<1>5. Follows(root, Fresh) /\ node[b].tag < Fresh
  BY <1>0, <1>3 DEF ListInv
<1>6. PICK e \in Address :
        /\ In(e) /\ e \in S /\ node[b].tag < node[e].tag
        /\ \A a \in Address : In(a) /\ a \in S /\ node[b].tag < node[a].tag =>
                                node[e].tag <= node[a].tag
  <2> DEFINE U == {n \in Nat : \E a \in Address : /\ In(a) /\ a \in S
                                                  /\ node[b].tag < node[a].tag /\ n = node[a].tag}
  <2>1. \A a \in Address : In(a) /\ a \in S /\ node[b].tag < node[a].tag => node[a].tag \in U
    BY <1>1
  <2>2. PICK x, n : x = root /\ n = Fresh
    OBVIOUS
  <2>3. root \in Address /\ In(root) /\ node[b].tag < node[root].tag
    BY <1>2, <1>4, <1>5, <2>2
  <2>4. PICK m \in U : \A k \in U : m <= k
    BY <1>2, <2>1, <2>3, Least
  <2>5. QED
    BY <2>1, <2>4
<1>7. PICK x, n : x = node[e].next /\ n = node[e].tag
  OBVIOUS
<1>8. Follows(x, n) /\ x \in S /\ node[b].tag < n
  BY <1>0, <1>2, <1>6, <1>7 DEF ListInv, Closed
<1>9. x \in Address /\ In(x) /\ node[b].tag < node[x].tag /\ node[x].tag < node[e].tag
  BY <1>4, <1>7, <1>8
<1>10. QED
  BY <1>1, <1>6, <1>8, <1>9
-----------------------------------------------------------------------------
(* What the directory holds: the tags of the links that no KILL has freed  *)
ListedKept == Listed = {t \in Tags : \E a \in Address : Kept(a) /\ node[a].tag = t}

LEMMA ListedTags == Inv => ListedKept
<1> SUFFICES ASSUME Inv
             PROVE  ListedKept
  OBVIOUS
<1>1. Visited(root, NULL) = {a \in Address : In(a)}
  BY Reaches
<1>2. \A a \in Address : node[a].tag \in Tags
  BY DEF Inv, TypeOK
<1>3. Listed = {node[a].tag : a \in {b \in Address : Kept(b)}}
  <2>1. CASE Freeing
    <3>1. {a \in Address : In(a)} \ {rtemp} = {b \in Address : Kept(b)}
      BY <2>1 DEF Kept
    <3>2. QED
      BY <1>1, <2>1, <3>1 DEF Listed, Freeing
  <2>2. CASE ~ Freeing
    <3>1. {a \in Address : In(a)} \ {} = {b \in Address : Kept(b)}
      BY <2>2 DEF Kept
    <3>2. QED
      BY <1>1, <2>2, <3>1 DEF Listed, Freeing
  <2>3. QED
    BY <2>1, <2>2
<1>4. QED
  BY <1>2, <1>3 DEF ListedKept

LEMMA ListedTagsNext == Inv' => ListedKept'
BY ListedTags, PTL

LEMMA SameListed ==
  ASSUME ListedKept, ListedKept', SameLinks
  PROVE  UNCHANGED <<Listed, req>>
BY DEF ListedKept, SameLinks

(* A link of the list is gone, freed or unlinked                           *)
LEMMA LessListed ==
  ASSUME Inv, ListedKept, ListedKept', NEW d \in Address, Kept(d),
         \A a \in Address : node'[a].tag = node[a].tag /\ (Kept(a)' <=> Kept(a) /\ a # d)
  PROVE  node[d].tag \in Listed /\ Listed' = Listed \ {node[d].tag}
<1>1. \A a \in Address : Kept(a) /\ node[a].tag = node[d].tag => a = d
  BY DEF Kept, Inv, ListInv
<1>2. node[d].tag \in Tags
  BY DEF Inv, TypeOK
<1>3. QED
  BY <1>1, <1>2 DEF ListedKept

(* A step that only reads the list                                         *)
LEMMA ReadSame ==
  ASSUME UNCHANGED <<node, apc, link>>, Freeing' <=> Freeing, Freeing => rtemp' = rtemp
  PROVE  \A a \in Address : (Kept(a)' <=> Kept(a)) /\ node'[a].tag = node[a].tag
<1>1. \A a \in Address : In(a)' <=> In(a)
  BY ListRead
<1>2. QED
  BY <1>1 DEF Kept
(* Each step of the two threads is a step of the directory, or none        *)
LEMMA RefinementStep ==
  ASSUME Overlap = "orderly", KillAfterGet, ~ EarlyReuse, Inv, ListedKept, ListedKept',
         [Next]_vars
  PROVE  Directory!Next \/ UNCHANGED <<Listed, req>>
<1>1. CASE MayInsert /\ CreateLink
  BY <1>1, CreateLinkInv, SameListed
<1>2. CASE (MayInsert /\ InsertLock) \/ InsertSignal \/ InsertUnlock \/ InsertNext
  BY <1>2, InsertLockInv, InsertNextInv, SameListed
<1>3. CASE InsertRoot
  <2>1. /\ Pending /\ ~ In(link) /\ link \in Address /\ \A a \in Address : In(a)' <=> In(a) \/ a = link
        /\ UNCHANGED <<node, req, spc, rtemp>>
    BY <1>3, InsertRootInv, InFacts DEF InsertRoot, locals, Pending
  <2>2. PICK t \in Tags : t = node[link].tag
    BY <2>1 DEF Inv, TypeOK
  <2>3. Freeing => In(rtemp)
    BY DEF In
  <2>4. \A a \in Address : Kept(a)' <=> Kept(a) \/ a = link
    BY <2>1, <2>3 DEF Kept, Freeing
  <2>5. t \notin Listed
    <3>1. \A a \in Address : In(a) => node[a].tag < t
      BY <2>1, <2>2 DEF Inv, ListInv, Fresh
    <3>2. t \in Nat
      BY DEF Tags
    <3>3. QED
      BY <3>1, <3>2 DEF ListedKept, Kept
  <2>6. Listed' = Listed \cup {t}
    BY <2>1, <2>2, <2>4 DEF ListedKept
  <2>7. QED
    BY <2>1, <2>5, <2>6 DEF Directory!Next, Directory!Insert
<1>4. CASE Lock \/ CheckRoot \/ CondWait \/ SpuriousWakeup
  BY <1>4, LockInv, ReadSame, SameListed DEF SameLinks
<1>5. CASE ReadRoot \/ SearchStep \/ DestroyStep
  BY <1>5, ReadRootInv, SearchStepInv, DestroyStepInv, ReadSame, SameListed DEF SameLinks
<1>6. ASSUME NEW t \in Tags, RecvGet(t) \/ (MayKill(t) /\ RecvKill(t))
      PROVE  Directory!Receive
  <2>1. UNCHANGED <<node, apc, link>> /\ ~ Freeing /\ ~ Freeing'
    BY <1>6, RecvGetInv, RecvKillInv
  <2>2. Listed' = Listed
    BY <2>1, ReadSame DEF ListedKept
  <2>3. req = NoRequest /\ req' \in [code : {"GET", "KILL"}, tag : Tags]
    BY <1>6 DEF RecvGet, RecvKill, Inv, Control
  <2>4. QED
    BY <2>2, <2>3 DEF Directory!Receive, Directory!NoRequest, Directory!Requests, NoRequest
<1>7. CASE Serve
  <2>1. /\ UNCHANGED <<node, apc, link>> /\ ~ Freeing /\ ~ Freeing'
        /\ Found(req.tag) /\ req.code = "GET" /\ req' = NoRequest
    BY <1>7, ServeInv DEF Serve
  <2>2. Listed' = Listed
    BY <2>1, ReadSame DEF ListedKept
  <2>3. req.tag \in Listed
    BY <2>1 DEF ListedKept, Found, Kept, Inv, TypeOK
  <2>4. QED
    BY <2>1, <2>2, <2>3 DEF Directory!Next, Directory!Serve, Directory!NoRequest, NoRequest
<1>8. CASE DestroyTest
  <2>1. /\ ~ Freeing /\ UNCHANGED <<apc, link, req>>
        /\ \A a \in Address : node'[a].tag = node[a].tag /\ (In(a)' <=> In(a))
        /\ Freeing' => rtemp' \in Address /\ node[rtemp'].tag = req.tag /\ In(rtemp)'
    BY <1>8, DestroyTestInv
  <2>2. CASE ~ Freeing'
    BY <2>1, <2>2, SameListed DEF SameLinks, Kept
  <2>3. CASE Freeing'
    <3>1. PICK d \in Address : d = rtemp' /\ node[d].tag = req.tag /\ In(d)
      BY <2>1, <2>3
    <3>2. Kept(d) /\ \A a \in Address : Kept(a)' <=> Kept(a) /\ a # d
      BY <2>1, <2>3, <3>1 DEF Kept
    <3>3. req.tag \in Listed /\ Listed' = Listed \ {req.tag}
      BY <2>1, <3>1, <3>2, LessListed
    <3>4. req.code = "KILL"
      BY <1>8 DEF DestroyTest, Inv, Control, KillPcs
    <3>5. QED
      BY <2>1, <3>3, <3>4 DEF Directory!Next, Directory!Destroy
  <2>4. QED
    BY <2>2, <2>3
<1>9. CASE Relink
  <2>1. /\ Freeing /\ ~ Freeing' /\ Destroying /\ req' = NoRequest
        /\ rtemp \in Address /\ In(rtemp) /\ node[rtemp].tag = req.tag
        /\ \A a \in Address : node'[a].tag = node[a].tag /\ (In(a)' <=> In(a) /\ a # rtemp)
    BY <1>9, RelinkInv
  <2>2. \A a \in Address : Kept(a)' <=> Kept(a)
    BY <2>1 DEF Kept
  <2>3. Listed' = Listed
    BY <2>1, <2>2 DEF ListedKept
  <2>4. req.tag \notin Listed
    BY <2>1 DEF ListedKept, Kept, Inv, ListInv
  <2>5. QED
    BY <2>1, <2>3, <2>4 DEF Directory!Next, Directory!Finish, Directory!NoRequest, NoRequest,
                            Destroying
<1>10. CASE Unlink
  <2>1. PICK d \in Address :
          /\ ~ Freeing /\ ~ Freeing' /\ Destroying /\ req' = NoRequest
          /\ In(d) /\ node[d].tag = req.tag
          /\ \A a \in Address : node'[a].tag = node[a].tag /\ (In(a)' <=> In(a) /\ a # d)
    BY <1>10, UnlinkInv
  <2>2. Kept(d) /\ \A a \in Address : Kept(a)' <=> Kept(a) /\ a # d
    BY <2>1 DEF Kept
  <2>3. req.tag \in Listed /\ Listed' = Listed \ {req.tag}
    BY <2>1, <2>2, LessListed
  <2>4. QED
    BY <2>1, <2>3 DEF Directory!Next, Directory!Destroy, Directory!NoRequest, NoRequest, Destroying
<1>11. CASE UNCHANGED vars
  <2>1. UNCHANGED <<node, apc, link, rtemp, req>> /\ (Freeing' <=> Freeing)
    BY <1>11 DEF vars, Freeing
  <2>2. QED
    BY <2>1, ReadSame, SameListed DEF SameLinks
<1>12. QED
  BY <1>1, <1>2, <1>3, <1>4, <1>5, <1>6, <1>7, <1>8, <1>9, <1>10, <1>11
     DEF Next, Insert, Service, Directory!Next

(* DirectorySpec: an insertion adds one link, a KILL takes away its own    *)
(* and no other, and a GET is answered for a link that is there            *)
THEOREM Refinement ==
  ASSUME Overlap = "orderly", KillAfterGet, ~ EarlyReuse
  PROVE  Spec => DirectorySpec
<1>1. Init => Directory!Init
  <2>1. SUFFICES ASSUME Init
                 PROVE  Listed = {} /\ req = NoRequest
    BY DEF Directory!Init, Directory!NoRequest, NoRequest
  <2>2. \A a \in Address : ~ Kept(a)
    BY <2>1 DEF Init, Kept, In, Freeing, Blank
  <2>3. QED
    BY <2>1, <2>2, InitInv, ListedTags DEF ListedKept, Init
<1>2. Inv /\ Inv' /\ [Next]_vars => [Directory!Next]_<<Listed, req>>
  BY RefinementStep, ListedTags, ListedTagsNext
<1>3. [][Directory!Next]_<<Listed, req>> <=> [][Directory!Next]_(Directory!avars)
  BY DEF Directory!avars
<1>4. QED
  BY Invariance, <1>1, <1>2, <1>3, PTL DEF Spec, DirectorySpec, Directory!Spec
-----------------------------------------------------------------------------
(* What holds of the nodes alone, with less assumed: also when a KILL      *)
(* comes before any GET, and the block being freed is handed out again.    *)
DestroyPcs == {"d_lock", "d_root", "d_test", "d_relock", "d_relink", "d_scan", "d_miss",
               "d_check", "d_block", "d_wait", "d_wake", "d_unlink", "crashed"}

Sections ==
  /\ owner = "app" <=> InInsert
  /\ owner = "svc" <=> InSearch \/ InDestroy
  /\ spc = "recv" => req = NoRequest
  /\ spc \in GetPcs => req.code = "GET" /\ req.tag \notin killed
  /\ spc \in DestroyPcs => req.code = "KILL" /\ req.tag \in killed

(* No pointer leads to a block that malloc never returned                  *)
Given(x) == x # NULL => x \in Address /\ node[x].state # "virgin"
Pointers ==
  /\ Given(root) /\ Given(rtemp) /\ Given(temp) /\ \A a \in Address : Given(node[a].next)
  /\ apc # "idle" => link # NULL /\ Given(link)
  /\ spc = "d_test" => temp = rtemp
  /\ spc \in {"d_scan", "d_unlink"} => temp # NULL
  /\ spc = "d_unlink" => node[temp].next # NULL /\ node[node[temp].next].tag = req.tag

(* A link is freed only by the KILL of its tag, and no two have the same   *)
Lives ==
  /\ \A a \in Address : node[a].state = "freed" =>
       node[a].tag \in killed /\ (Destroying /\ ~ Freeing => node[a].tag # req.tag)
  /\ \A a \in Address : node[a].state = "live" =>
       node[a].tag < sink_tag /\ channel[node[a].tag] = "live"
  /\ \A a, b \in Address :
       node[a].state = "live" /\ node[b].state = "live" /\ node[a].tag = node[b].tag => a = b

Cached ==
  /\ clink # NULL /\ ~ Destroying => /\ clink \in Address /\ node[clink].state = "live"
                                     /\ node[clink].tag = ctag
  /\ spc = "serve" => clink # NULL /\ ctag = req.tag

Sound == TypeOK /\ Sections /\ Ordered /\ Pointers /\ Lives /\ Cached

LEMMA InitSound == Init => Sound
<1> SUFFICES ASSUME Init
             PROVE  Sound
  OBVIOUS
<1>1. /\ node = [a \in Address |-> Blank] /\ root = NULL /\ owner = "none"
      /\ apc = "idle" /\ spc = "recv" /\ req = NoRequest
      /\ rtemp = NULL /\ temp = NULL /\ clink = NULL
  BY DEF Init
<1>2. \A a \in Address : node[a].state = "virgin" /\ node[a].next = NULL
  BY <1>1 DEF Blank
<1>3. TypeOK
  BY InitInv DEF Inv
<1>4. Sections /\ Ordered
  BY <1>1 DEF Sections, InInsert, InSearch, InDestroy, GetPcs, DestroyPcs, Ordered, Destroying,
              NoRequest
<1>5. Pointers /\ Lives /\ Cached
  BY <1>1, <1>2 DEF Pointers, Given, Lives, Cached
<1>6. QED
  BY <1>3, <1>4, <1>5 DEF Sound

(* What a KILL is about to free is allocated                               *)
LEMMA KilledLives ==
  ASSUME Sound, Destroying, ~ Freeing, NEW a \in Address, node[a].tag = req.tag,
         node[a].state # "virgin"
  PROVE  node[a].state = "live"
BY DEF Sound, TypeOK, Lives

(* An insertion leaves alone what the service thread relies on             *)
LEMMA InsertionSound ==
  ASSUME Sound, Destroying => KillsRoot, UNCHANGED <<req, rtemp, temp, clink, ctag, killed>>,
         spc' = spc \/ (spc = "s_wait" /\ spc' = "s_wake"),
         \A a \in Address : node[a].state = "live" =>
                              node'[a].state = "live" /\ node'[a].tag = node[a].tag,
         \A a \in Address : node'[a].state = "virgin" => node[a].state = "virgin",
         \A a \in Address : node'[a].next \in {node[a].next, root},
         Given(root)', apc' # "idle" => link' # NULL /\ Given(link)'
  PROVE  Ordered' /\ Pointers' /\ Cached'
<1>1. TypeOK /\ Sections /\ Ordered /\ Pointers /\ Lives /\ Cached
  BY DEF Sound
<1>2. \A x : Given(x) => (x # NULL => x \in Address /\ node'[x].state # "virgin")
  BY DEF Given
<1>3. Destroying' <=> Destroying
  BY DEF Destroying
<1>4. Destroying => spc' = spc
  BY <1>1 DEF Sections, GetPcs, Destroying
<1>5. KillsRoot => KillsRoot'
  <2>1. CASE spc = "d_test" /\ rtemp # NULL /\ node[rtemp].tag = req.tag
    <3>1. Destroying /\ ~ Freeing
      BY <1>1, <2>1 DEF Sections, DestroyPcs, Destroying, Freeing
    <3>2. rtemp \in Address /\ node[rtemp].state # "virgin"
      BY <1>1, <2>1 DEF Pointers, Given
    <3>3. node[rtemp].state = "live"
      BY <2>1, <3>1, <3>2, KilledLives
    <3>4. QED
      BY <1>4, <2>1, <3>1, <3>2, <3>3 DEF KillsRoot
  <2>2. CASE spc \in {"d_relock", "d_relink"}
    BY <2>2 DEF KillsRoot
  <2>3. QED
    BY <2>1, <2>2 DEF KillsRoot
<1>6. Ordered'
  BY <1>3, <1>5 DEF Ordered
<1>7. Pointers'
  <2>1. Given(rtemp)' /\ Given(temp)'
    BY <1>1, <1>2 DEF Pointers, Given
  <2>2. \A a \in Address : Given(node[a].next)'
    BY <1>1, <1>2 DEF Pointers, Given
  <2>3. spc' \notin {"d_scan", "d_unlink"}
    <3>1. SUFFICES ASSUME spc \in {"d_scan", "d_unlink"}
                   PROVE  FALSE
      OBVIOUS
    <3>2. Destroying /\ ~ KillsRoot
      BY <1>1, <3>1 DEF Sections, DestroyPcs, Destroying, KillsRoot
    <3>3. QED
      BY <3>2
  <2>4. spc' = "d_test" => temp' = rtemp'
    BY <1>1 DEF Pointers
  <2>5. QED
    BY <2>1, <2>2, <2>3, <2>4 DEF Pointers
<1>8. Cached'
  BY <1>1, <1>3 DEF Cached
<1>9. QED
  BY <1>6, <1>7, <1>8

(* A step that frees and allocates nothing                                 *)
LEMMA LivesSame ==
  ASSUME Sound, \A a \in Address : node'[a].state = node[a].state /\ node'[a].tag = node[a].tag,
         UNCHANGED <<sink_tag, channel, killed>>,
         Destroying' /\ ~ Freeing' => req' = req /\ Destroying /\ ~ Freeing
  PROVE  Lives'
BY DEF Sound, Lives

LEMMA CreateLinkSound ==
  ASSUME Overlap = "orderly", Sound, MayInsert, CreateLink
  PROVE  Sound'
<1>0. TypeOK /\ Sections /\ Ordered /\ Pointers /\ Lives /\ node \in [Address -> NodeSet]
  BY TagTypes DEF Sound
<1>1. apc = "idle" /\ sink_tag \in Tags /\ sink_tag \in Nat /\ (Destroying => KillsRoot)
  BY <1>0 DEF CreateLink, MayInsert, TypeOK, Tags
<1>2. PICK a \in Address : /\ node[a].state \in {"virgin", "freed"}
                           /\ node' = [node EXCEPT ![a].state = "live", ![a].tag = sink_tag]
                           /\ link' = a
  BY DEF CreateLink
<1>3. /\ channel' = [channel EXCEPT ![sink_tag] = "live"]
      /\ channel_rc' = [channel_rc EXCEPT ![sink_tag] = IF sink_tag \in Shared THEN 2 ELSE 0]
      /\ sink_tag' = sink_tag + 1
      /\ apc' = "lock"
      /\ UNCHANGED <<root, owner, spc, req, rtemp, temp, clink, ctag, served, killed>>
  BY DEF CreateLink, locals, cache, remote
<1>4. /\ node' \in [Address -> NodeSet]
      /\ node'[a].state = "live" /\ node'[a].tag = sink_tag /\ node'[a].next = node[a].next
      /\ \A b \in Address \ {a} : node'[b] = node[b]
  <2>1. node[a] \in [state : {"virgin", "live", "freed"}, tag : Tags, next : Address \cup {NULL}]
    BY <1>0 DEF NodeSet
  <2>2. PICK n : n = [node[a] EXCEPT !.state = "live", !.tag = sink_tag]
    OBVIOUS
  <2>3. n \in NodeSet /\ n.state = "live" /\ n.tag = sink_tag /\ n.next = node[a].next
    BY <1>1, <2>1, <2>2 DEF NodeSet
  <2>4. node' = [node EXCEPT ![a] = n]
    BY <1>0, <1>2, <2>2
  <2>5. QED
    BY <1>0, <2>3, <2>4
<1>5. TypeOK'
  <2>1. sink_tag' \in 0 .. NTags
    BY <1>1, <1>3 DEF Tags
  <2>2. channel' \in [Tags -> {"none", "live", "freed"}] /\ channel_rc' \in [Tags -> 0 .. 2]
    BY <1>0, <1>1, <1>3 DEF TypeOK
  <2>3. QED
    BY <1>0, <1>2, <1>3, <1>4, <2>1, <2>2 DEF TypeOK, NodeSet
<1>6. Sections'
  BY <1>0, <1>1, <1>3 DEF Sections, InInsert, InSearch, InDestroy
<1>7. Ordered' /\ Pointers' /\ Cached'
  <2>1. \A b \in Address : node[b].state = "live" =>
                             node'[b].state = "live" /\ node'[b].tag = node[b].tag
    BY <1>2, <1>4
  <2>2. \A b \in Address : node'[b].state = "virgin" => node[b].state = "virgin"
    BY <1>4
  <2>3. \A b \in Address : node'[b].next \in {node[b].next, root}
    BY <1>4
  <2>4. link' # NULL /\ Given(link)'
    BY <1>2, <1>4 DEF Given
  <2>5. Given(root)'
    BY <1>0, <1>3, <2>2 DEF Pointers, Given
  <2>6. QED
    BY <1>1, <1>3, <2>1, <2>2, <2>3, <2>4, <2>5, InsertionSound
<1>8. Lives'
  <2>1. Destroying' /\ ~ Freeing' => Destroying /\ ~ Freeing
    BY <1>3 DEF Destroying, Freeing
  <2>2. \A b \in Address : node[b].tag \in Tags /\ node[b].tag \in Nat
    BY <1>0, TagTypes DEF TypeOK
  <2>3. \A b \in Address : node'[b].state = "freed" =>
          node'[b].tag \in killed' /\ (Destroying' /\ ~ Freeing' => node'[b].tag # req'.tag)
    BY <1>0, <1>3, <1>4, <2>1 DEF Lives
  <2>4. \A b \in Address : node'[b].state = "live" =>
          node'[b].tag < sink_tag' /\ channel'[node'[b].tag] = "live"
    BY <1>0, <1>1, <1>3, <1>4, <2>2 DEF Lives, TypeOK
  <2>5. \A b, c \in Address :
          node'[b].state = "live" /\ node'[c].state = "live" /\ node'[b].tag = node'[c].tag => b = c
    BY <1>0, <1>1, <1>4, <2>2 DEF Lives
  <2>6. QED
    BY <2>3, <2>4, <2>5 DEF Lives
<1>9. QED
  BY <1>5, <1>6, <1>7, <1>8 DEF Sound

LEMMA InsertSound ==
  ASSUME Overlap = "orderly", Sound, Insert
  PROVE  Sound'
<1>0. TypeOK /\ Sections /\ Ordered /\ Pointers /\ node \in [Address -> NodeSet]
  BY TagTypes DEF Sound
<1>1. /\ UNCHANGED <<sink_tag, channel, channel_rc, req, rtemp, temp, clink, ctag, served, killed>>
      /\ apc # "idle"
  BY DEF Insert, InsertLock, InsertNext, InsertRoot, InsertSignal, InsertUnlock, heap, locals,
         cache, chans, remote
<1>2. link \in Address /\ Given(link)
  BY <1>0, <1>1 DEF Pointers, Given
<1>3. Destroying => KillsRoot
  BY <1>0 DEF Ordered, Insert, InsertLock, InsertNext, InsertRoot, InsertSignal, InsertUnlock,
              MayInsert
<1>4. spc' = spc \/ (spc = "s_wait" /\ spc' = "s_wake")
  <2>1. CASE InsertSignal
    <3>1. spc # "d_wait"
      BY <1>0, <1>3 DEF Sections, DestroyPcs, Destroying, KillsRoot
    <3>2. QED
      BY <2>1, <3>1 DEF InsertSignal
  <2>2. CASE ~ InsertSignal
    BY <2>2 DEF Insert, InsertLock, InsertNext, InsertRoot, InsertUnlock
  <2>3. QED
    BY <2>1, <2>2
<1>5. /\ node' \in [Address -> NodeSet]
      /\ \A a \in Address : node'[a].state = node[a].state /\ node'[a].tag = node[a].tag
      /\ \A a \in Address : node'[a].next \in {node[a].next, root}
  <2>1. CASE InsertNext
    <3>1. node' = [node EXCEPT ![link].next = root] /\ root \in Address \cup {NULL}
      BY <1>0, <2>1 DEF InsertNext, TypeOK
    <3>2. QED
      BY <1>0, <1>2, <3>1, RedirectNode
  <2>2. CASE ~ InsertNext
    <3>1. node' = node
      BY <2>2 DEF Insert, InsertLock, InsertRoot, InsertSignal, InsertUnlock, heap
    <3>2. QED
      BY <1>0, <3>1
  <2>3. QED
    BY <2>1, <2>2
<1>6. root' \in {root, link} /\ link' \in {link, NULL} /\ (apc' # "idle" => link' = link)
  BY DEF Insert, InsertLock, InsertNext, InsertRoot, InsertSignal, InsertUnlock, heap
<1>7. TypeOK'
  <2>1. apc' \in {"next", "root", "signal", "unlock", "idle"} /\ owner' \in {"app", "none", owner}
    BY DEF Insert, InsertLock, InsertNext, InsertRoot, InsertSignal, InsertUnlock
  <2>2. QED
    BY <1>0, <1>1, <1>4, <1>5, <1>6, <2>1 DEF TypeOK, NodeSet
<1>8. Sections'
  <2>1. /\ owner' = "app" <=> InInsert'
        /\ owner' = "svc" <=> InSearch' \/ InDestroy'
    BY <1>0, <1>4 DEF Sections, InInsert, InSearch, InDestroy, Insert, InsertLock, InsertNext,
                      InsertRoot, InsertSignal, InsertUnlock
  <2>2. QED
    BY <1>0, <1>1, <1>4, <2>1 DEF Sections, GetPcs, DestroyPcs
<1>9. Ordered' /\ Pointers' /\ Cached'
  <2>1. Given(root)' /\ (apc' # "idle" => link' # NULL /\ Given(link)')
    BY <1>0, <1>1, <1>2, <1>5, <1>6 DEF Pointers, Given
  <2>2. QED
    BY <1>1, <1>3, <1>4, <1>5, <2>1, InsertionSound
<1>10. Lives'
  <2>1. Destroying' /\ ~ Freeing' => Destroying /\ ~ Freeing
    BY <1>1, <1>4 DEF Destroying, Freeing
  <2>2. QED
    BY <1>1, <1>5, <2>1, LivesSame
<1>11. QED
  BY <1>7, <1>8, <1>9, <1>10 DEF Sound
LEMMA LockSound ==
  ASSUME Sound, Lock \/ CheckRoot \/ CondWait \/ SpuriousWakeup
  PROVE  Sound'
<1>0. TypeOK /\ Sections /\ Ordered /\ Pointers /\ Lives /\ Cached
  BY DEF Sound
<1>1. UNCHANGED <<node, root, apc, link, sink_tag, channel, channel_rc, req, rtemp, temp, clink,
                  ctag, served, killed>>
  BY DEF Lock, CheckRoot, CondWait, SpuriousWakeup, heap, app, locals, cache, chans, remote
<1>2. \/ /\ owner = "none" /\ owner' = "svc"
         /\ <<spc, spc'>> \in {<<"s_lock", "s_root">>, <<"s_miss", "s_check">>,
                               <<"s_wake", "s_root">>, <<"d_lock", "d_root">>,
                               <<"d_miss", "d_check">>, <<"d_wake", "d_root">>,
                               <<"d_relock", "d_relink">>}
      \/ /\ owner' = owner
         /\ <<spc, spc'>> \in {<<"s_check", "s_root">>, <<"s_check", "s_block">>,
                               <<"d_check", "d_root">>, <<"d_check", "d_block">>,
                               <<"s_wait", "s_wake">>, <<"d_wait", "d_wake">>}
      \/ /\ owner' = "none"
         /\ <<spc, spc'>> \in {<<"s_block", "s_wait">>, <<"d_block", "d_wait">>}
  BY DEF Lock, CheckRoot, CondWait, SpuriousWakeup
<1>3. /\ Freeing' <=> Freeing
      /\ Destroying' <=> Destroying
      /\ KillsRoot' <=> KillsRoot
  BY <1>1, <1>2 DEF Freeing, Destroying, KillsRoot
<1>4. TypeOK'
  BY <1>0, <1>1, <1>2 DEF TypeOK
<1>5. Sections'
  <2>1. /\ owner' = "app" <=> InInsert'
        /\ owner' = "svc" <=> InSearch' \/ InDestroy'
    BY <1>0, <1>1, <1>2 DEF Sections, InInsert, InSearch, InDestroy
  <2>2. /\ spc' # "recv"
        /\ spc' \in GetPcs => spc \in GetPcs
        /\ spc' \in DestroyPcs => spc \in DestroyPcs
    BY <1>2 DEF GetPcs, DestroyPcs
  <2>3. QED
    BY <1>0, <1>1, <2>1, <2>2 DEF Sections
<1>6. Ordered'
  BY <1>0, <1>1, <1>2, <1>3 DEF Ordered
<1>7. Pointers'
  BY <1>0, <1>1, <1>2 DEF Pointers, Given
<1>8. Lives'
  BY <1>1, <1>3, LivesSame
<1>9. Cached'
  BY <1>0, <1>1, <1>2, <1>3 DEF Cached
<1>10. QED
  BY <1>4, <1>5, <1>6, <1>7, <1>8, <1>9 DEF Sound

LEMMA ReadRootSound ==
  ASSUME Sound, ReadRoot
  PROVE  Sound'
<1>0. TypeOK /\ Sections /\ Ordered /\ Pointers /\ Lives /\ Cached
  BY DEF Sound
<1>1. /\ UNCHANGED <<node, root, apc, link, sink_tag, channel, channel_rc, req, clink, ctag,
                     served, killed>>
      /\ rtemp' = root /\ temp' = root /\ owner' = "none"
      /\ <<spc, spc'>> \in {<<"s_root", "s_scan">>, <<"d_root", "d_test">>}
  BY DEF ReadRoot, heap, app, cache, chans, remote
<1>2. /\ ~ Freeing /\ ~ Freeing'
      /\ Destroying' <=> Destroying
  BY <1>1 DEF Freeing, Destroying
<1>3. TypeOK'
  BY <1>0, <1>1 DEF TypeOK
<1>4. Sections'
  <2>1. /\ owner' = "app" <=> InInsert'
        /\ owner' = "svc" <=> InSearch' \/ InDestroy'
    BY <1>0, <1>1 DEF Sections, InInsert, InSearch, InDestroy
  <2>2. QED
    BY <1>0, <1>1, <2>1 DEF Sections, GetPcs, DestroyPcs
<1>5. Ordered'
  <2>1. CASE spc = "s_root"
    <3>1. ~ Destroying
      BY <1>0, <2>1 DEF Sections, GetPcs, Destroying
    <3>2. QED
      BY <1>2, <3>1 DEF Ordered
  <2>2. CASE spc = "d_root"
    BY <1>0, <1>1, <1>2, <2>2 DEF Ordered, KillsRoot
  <2>3. QED
    BY <1>1, <2>1, <2>2
<1>6. Pointers'
  BY <1>0, <1>1 DEF Pointers, Given
<1>7. Lives'
  BY <1>1, <1>2, LivesSame
<1>8. Cached'
  BY <1>0, <1>1, <1>2 DEF Cached
<1>9. QED
  BY <1>3, <1>4, <1>5, <1>6, <1>7, <1>8 DEF Sound

(* What a GET finds is allocated: its tag was not killed                   *)
LEMMA SearchStepSound ==
  ASSUME Sound, SearchStep
  PROVE  Sound'
<1>0. TypeOK /\ Sections /\ Pointers /\ Lives /\ Cached
  BY DEF Sound
<1>1. /\ UNCHANGED <<node, root, owner, apc, link, sink_tag, channel, channel_rc, req, rtemp,
                     served, killed>>
      /\ spc = "s_scan"
      /\ \/ temp = NULL /\ spc' = "s_miss" /\ UNCHANGED <<temp, clink, ctag>>
         \/ /\ temp # NULL /\ node[temp].tag = req.tag
            /\ clink' = temp /\ ctag' = req.tag /\ spc' = "serve" /\ temp' = temp
         \/ /\ temp # NULL /\ temp' = node[temp].next /\ spc' = spc
            /\ UNCHANGED <<clink, ctag>>
  BY DEF SearchStep, heap, app, cache, chans, remote
<1>2. req.code = "GET" /\ req.tag \notin killed /\ ~ Destroying /\ ~ Destroying'
  BY <1>0, <1>1 DEF Sections, GetPcs, Destroying
<1>3. temp # NULL => temp \in Address /\ node[temp].state \in {"live", "freed"}
                     /\ Given(node[temp].next)
  BY <1>0 DEF Pointers, Given, TypeOK
<1>4. TypeOK'
  <2>1. temp # NULL => node[temp].next \in Address \cup {NULL}
    BY <1>0, <1>3, TagTypes
  <2>2. req.tag \in 0 .. NTags
    BY <1>0 DEF TypeOK, Tags
  <2>3. QED
    BY <1>0, <1>1, <1>3, <2>1, <2>2 DEF TypeOK
<1>5. Sections'
  BY <1>0, <1>1, <1>2 DEF Sections, InInsert, InSearch, InDestroy, GetPcs, DestroyPcs
<1>6. Ordered'
  BY <1>2 DEF Ordered
<1>7. Pointers'
  <2>1. Given(temp)'
    <3>1. PICK x : x = temp'
      OBVIOUS
    <3>2. Given(x)
      BY <1>0, <1>1, <1>3, <3>1 DEF Pointers
    <3>3. QED
      BY <1>1, <3>1, <3>2 DEF Given
  <2>2. QED
    BY <1>0, <1>1, <2>1 DEF Pointers, Given
<1>8. Lives'
  BY <1>1, <1>2, LivesSame
<1>9. Cached'
  <2>1. temp # NULL /\ node[temp].tag = req.tag => node[temp].state = "live"
    BY <1>0, <1>2, <1>3 DEF Lives
  <2>2. QED
    BY <1>0, <1>1, <1>2, <1>3, <2>1 DEF Cached
<1>10. QED
  BY <1>4, <1>5, <1>6, <1>7, <1>8, <1>9 DEF Sound

LEMMA ReceiveSound ==
  ASSUME Overlap = "orderly", Sound, NEW t \in Tags,
         RecvGet(t) \/ (MayKill(t) /\ RecvKill(t))
  PROVE  Sound'
<1>0. TypeOK /\ Sections /\ Pointers /\ Lives /\ Cached
  BY DEF Sound
<1>1. /\ UNCHANGED <<node, root, owner, apc, link, sink_tag, channel, channel_rc, rtemp, temp,
                     clink, ctag, served>>
      /\ spc = "recv" /\ t \notin killed
      /\ \/ /\ req' = [code |-> "GET", tag |-> t] /\ killed' = killed
            /\ spc' = IF clink # NULL /\ ctag = t THEN "serve" ELSE "s_lock"
         \/ /\ req' = [code |-> "KILL", tag |-> t] /\ killed' = killed \cup {t}
            /\ spc' = "d_lock"
            /\ \/ apc = "idle"
               \/ apc = "lock" /\ root # NULL /\ node[root].tag = t
  BY DEF RecvGet, RecvKill, MayKill, heap, app, locals, cache, chans, remote
<1>2. ~ Destroying
  BY <1>0, <1>1 DEF Sections, NoRequest, Destroying
<1>3. TypeOK'
  BY <1>0, <1>1 DEF TypeOK
<1>4. Sections'
  BY <1>0, <1>1 DEF Sections, InInsert, InSearch, InDestroy, GetPcs, DestroyPcs
<1>5. Ordered'
  BY <1>1 DEF Ordered, Destroying
<1>6. Pointers'
  BY <1>0, <1>1 DEF Pointers, Given
<1>7. Lives'
  BY <1>0, <1>1 DEF Lives, Destroying
<1>8. Cached'
  BY <1>0, <1>1, <1>2 DEF Cached, Destroying
<1>9. QED
  BY <1>3, <1>4, <1>5, <1>6, <1>7, <1>8 DEF Sound

LEMMA ServeSound ==
  ASSUME Sound, Serve
  PROVE  Sound'
<1>0. TypeOK /\ Sections /\ Pointers /\ Cached
  BY DEF Sound
<1>1. /\ UNCHANGED <<node, root, owner, apc, link, sink_tag, channel, channel_rc, rtemp, temp,
                     clink, ctag, killed>>
      /\ spc = "serve" /\ req' = NoRequest /\ spc' = "recv" /\ served' = served \cup {req.tag}
  BY DEF Serve, heap, app, locals, cache, chans
<1>2. ~ Destroying /\ ~ Destroying'
  BY <1>0, <1>1 DEF Sections, GetPcs, NoRequest, Destroying
<1>3. TypeOK'
  <2>1. req.tag \in Tags /\ NoRequest \in [code : {"NONE", "GET", "KILL"}, tag : Tags]
    BY <1>0 DEF TypeOK, NoRequest, Tags
  <2>2. QED
    BY <1>0, <1>1, <2>1 DEF TypeOK
<1>4. Sections'
  BY <1>0, <1>1 DEF Sections, InInsert, InSearch, InDestroy, GetPcs, DestroyPcs
<1>5. Ordered' /\ Pointers'
  BY <1>0, <1>1, <1>2 DEF Ordered, Pointers, Given
<1>6. Lives'
  BY <1>1, <1>2, LivesSame
<1>7. Cached'
  BY <1>0, <1>1, <1>2 DEF Cached
<1>8. QED
  BY <1>3, <1>4, <1>5, <1>6, <1>7 DEF Sound
(* One link is freed, its channel possibly with it                         *)
LEMMA FreedLives ==
  ASSUME Sound, Destroying, ~ Freeing, NEW d \in Address, node[d].tag = req.tag,
         node[d].state # "virgin", node'[d].state = "freed",
         \A a \in Address \ {d} : node'[a].state = node[a].state,
         \A a \in Address : node'[a].tag = node[a].tag, UNCHANGED <<sink_tag, killed>>,
         \A u \in Tags \ {req.tag} : channel'[u] = channel[u], ~ Destroying' \/ Freeing'
  PROVE  Lives'
<1>1. Lives /\ Sections /\ TypeOK
  BY DEF Sound
<1>2. node[d].state = "live"
  BY KilledLives
<1>3. \A a \in Address : node'[a].state = "freed" => node'[a].tag \in killed'
  <2>1. req.tag \in killed
    <3>1. spc \in DestroyPcs
      BY <1>1 DEF Destroying, Sections, NoRequest, TypeOK, GetPcs, DestroyPcs
    <3>2. QED
      BY <1>1, <3>1 DEF Sections
  <2>2. QED
    BY <1>1, <2>1 DEF Lives
<1>4. \A a \in Address : node'[a].state = "live" =>
        node'[a].tag < sink_tag' /\ channel'[node'[a].tag] = "live"
  <2>1. \A a \in Address : node'[a].state = "live" =>
          a # d /\ node[a].state = "live" /\ node[a].tag # req.tag /\ node[a].tag \in Tags
    BY <1>1, <1>2 DEF Lives, TypeOK
  <2>2. QED
    BY <1>1, <2>1 DEF Lives
<1>5. \A a, b \in Address :
        node'[a].state = "live" /\ node'[b].state = "live" /\ node'[a].tag = node'[b].tag => a = b
  BY <1>1 DEF Lives
<1>6. QED
  BY <1>3, <1>4, <1>5 DEF Lives

LEMMA DestroyTestSound ==
  ASSUME Sound, DestroyTest
  PROVE  Sound'
<1>0. TypeOK /\ Sections /\ Ordered /\ Pointers /\ Lives /\ Cached /\ node \in [Address -> NodeSet]
  BY TagTypes DEF Sound
<1>1. /\ spc = "d_test" /\ temp = rtemp /\ ~ Freeing /\ Destroying /\ req.tag \in killed
      /\ UNCHANGED <<root, owner, apc, link, sink_tag, req, rtemp, clink, ctag, served, killed>>
  BY <1>0 DEF DestroyTest, Crash, heap, app, locals, cache, remote, Pointers, Freeing, Sections,
              DestroyPcs, Destroying
<1>2. Destroying'
  BY <1>1 DEF Destroying
<1>3. CASE rtemp # NULL /\ node[rtemp].tag = req.tag
  <2>1. /\ temp' = node[rtemp].next
        /\ Destruct(req.tag, req.tag)
        /\ node' = [node EXCEPT ![rtemp].state = "freed"]
        /\ spc' = "d_relock"
    BY <1>3 DEF DestroyTest, Crash
  <2>2. rtemp \in Address /\ node[rtemp].state # "virgin" /\ Given(node[rtemp].next)
    BY <1>0, <1>3 DEF Pointers, Given
  <2>3. /\ node' \in [Address -> NodeSet] /\ node'[rtemp].state = "freed"
        /\ \A a \in Address \ {rtemp} : node'[a].state = node[a].state
        /\ \A a \in Address : node'[a].tag = node[a].tag /\ node'[a].next = node[a].next
    BY <1>0, <2>1, <2>2, FreeNode
  <2>4. Freeing'
    BY <2>1 DEF Freeing
  <2>5. /\ channel' \in [Tags -> {"none", "live", "freed"}]
        /\ channel_rc' \in [Tags -> 0 .. 2]
        /\ \A u \in Tags \ {req.tag} : channel'[u] = channel[u]
    <3>1. req.tag \in Tags
      BY <1>0 DEF TypeOK
    <3>2. QED
      BY <1>0, <2>1, <3>1, DestructOne
  <2>6. TypeOK'
    <3>1. temp' \in Address \cup {NULL}
      BY <1>0, <2>1, <2>2, TagTypes
    <3>2. QED
      BY <1>0, <1>1, <2>1, <2>3, <2>5, <3>1 DEF TypeOK, NodeSet
  <2>7. Sections'
    BY <1>0, <1>1, <2>1 DEF Sections, InInsert, InSearch, InDestroy, GetPcs, DestroyPcs
  <2>8. Ordered'
    BY <2>1 DEF Ordered, KillsRoot
  <2>9. Pointers'
    <3>1. \A x : Given(x) => (x # NULL => x \in Address /\ node'[x].state # "virgin")
      BY <2>3 DEF Given
    <3>2. /\ Given(root)' /\ Given(rtemp)' /\ Given(temp)'
          /\ \A a \in Address : Given(node[a].next)'
          /\ apc' # "idle" => link' # NULL /\ Given(link)'
      BY <1>0, <1>1, <2>1, <2>2, <2>3, <3>1 DEF Pointers, Given
    <3>3. QED
      BY <2>1, <3>2 DEF Pointers
  <2>10. Lives'
    BY <1>1, <1>3, <2>2, <2>3, <2>4, <2>5, FreedLives
  <2>11. Cached'
    BY <1>2, <2>1 DEF Cached
  <2>12. QED
    BY <2>6, <2>7, <2>8, <2>9, <2>10, <2>11 DEF Sound
<1>4. CASE ~ (rtemp # NULL /\ node[rtemp].tag = req.tag)
  <2>1. /\ \/ rtemp = NULL /\ spc' = "crashed"
           \/ rtemp # NULL /\ spc' = "d_scan"
        /\ UNCHANGED <<node, channel, channel_rc, temp>>
    BY <1>4 DEF DestroyTest, Crash, heap, locals, chans
  <2>2. ~ Freeing'
    BY <2>1 DEF Freeing
  <2>3. TypeOK'
    BY <1>0, <1>1, <2>1 DEF TypeOK
  <2>4. Sections'
    BY <1>0, <1>1, <2>1 DEF Sections, InInsert, InSearch, InDestroy, GetPcs, DestroyPcs
  <2>5. Ordered'
    BY <1>0, <1>1, <1>4, <2>1 DEF Ordered, KillsRoot
  <2>6. Pointers'
    BY <1>0, <1>1, <2>1 DEF Pointers, Given
  <2>7. Lives'
    BY <1>1, <2>1, LivesSame
  <2>8. Cached'
    BY <1>2, <2>1 DEF Cached
  <2>9. QED
    BY <2>3, <2>4, <2>5, <2>6, <2>7, <2>8 DEF Sound
<1>5. QED
  BY <1>3, <1>4

LEMMA RelinkSound ==
  ASSUME Sound, Relink
  PROVE  Sound'
<1>0. TypeOK /\ Sections /\ Pointers /\ Lives /\ node \in [Address -> NodeSet]
  BY TagTypes DEF Sound
<1>1. /\ UNCHANGED <<sink_tag, apc, link, rtemp, temp, ctag, channel, channel_rc, served, killed>>
      /\ spc = "d_relink" /\ spc' = "recv" /\ owner' = "none" /\ clink' = NULL
      /\ req' = NoRequest
  BY DEF Relink, KillDone, app, chans, remote
<1>2. ~ Destroying' /\ ~ InInsert
  BY <1>0, <1>1 DEF Destroying, NoRequest, Sections, InDestroy
<1>3. temp \in Address \cup {NULL} /\ Given(temp)
  BY <1>0 DEF TypeOK, Pointers
<1>4. /\ node' \in [Address -> NodeSet] /\ root' \in {root, temp}
      /\ \A a \in Address : node'[a].tag = node[a].tag /\ node'[a].state = node[a].state
      /\ \A a \in Address : node'[a].next \in {node[a].next, temp}
  <2>1. CASE rtemp = root
    <3>1. root' = temp /\ node' = node
      BY <2>1 DEF Relink
    <3>2. QED
      BY <1>0, <3>1
  <2>2. CASE rtemp # root
    <3>1. root' = root /\ \E a \in Visited(root, rtemp) : node' = [node EXCEPT ![a].next = temp]
      BY <2>2 DEF Relink
    <3>2. PICK a \in Visited(root, rtemp) : node' = [node EXCEPT ![a].next = temp]
      BY <3>1
    <3>3. a \in Address
      BY DEF Visited
    <3>4. QED
      BY <1>0, <1>3, <3>1, <3>2, <3>3, RedirectNode
  <2>3. QED
    BY <2>1, <2>2
<1>5. TypeOK'
  <2>1. NoRequest \in [code : {"NONE", "GET", "KILL"}, tag : Tags]
    BY DEF NoRequest, Tags
  <2>2. QED
    BY <1>0, <1>1, <1>3, <1>4, <2>1 DEF TypeOK, NodeSet
<1>6. Sections'
  BY <1>0, <1>1, <1>2 DEF Sections, InInsert, InSearch, InDestroy, GetPcs, DestroyPcs
<1>7. Ordered'
  BY <1>2 DEF Ordered
<1>8. Pointers'
  <2>1. \A x : Given(x) => (x # NULL => x \in Address /\ node'[x].state # "virgin")
    BY <1>4 DEF Given
  <2>2. /\ Given(root)' /\ Given(rtemp)' /\ Given(temp)'
        /\ \A a \in Address : Given(node[a].next)'
        /\ apc' # "idle" => link' # NULL /\ Given(link)'
    BY <1>0, <1>1, <1>3, <1>4, <2>1 DEF Pointers, Given
  <2>3. QED
    BY <1>1, <2>2 DEF Pointers
<1>9. Lives'
  BY <1>1, <1>2, <1>4, LivesSame
<1>10. Cached'
  BY <1>1 DEF Cached
<1>11. QED
  BY <1>5, <1>6, <1>7, <1>8, <1>9, <1>10 DEF Sound

LEMMA DestroyStepSound ==
  ASSUME Sound, DestroyStep
  PROVE  Sound'
<1>0. TypeOK /\ Sections /\ Ordered /\ Pointers /\ Lives /\ Cached
  BY DEF Sound
<1>1. /\ spc = "d_scan" /\ temp \in Address /\ Given(node[temp].next)
      /\ ~ Freeing /\ Destroying /\ req.tag \in killed
  BY <1>0 DEF DestroyStep, Pointers, Given, Freeing, Destroying, Sections, DestroyPcs
<1>2. PICK nxt : nxt = node[temp].next
  OBVIOUS
<1>3. /\ UNCHANGED <<node, root, owner, apc, link, sink_tag, channel, channel_rc, req, rtemp,
                     clink, ctag, served, killed>>
      /\ \/ spc' = "crashed" /\ temp' = temp
         \/ nxt # NULL /\ node[nxt].tag = req.tag /\ spc' = "d_unlink" /\ temp' = temp
         \/ nxt # NULL /\ spc' \in {"d_miss", "d_scan"} /\ temp' = nxt
  BY <1>2 DEF DestroyStep, Crash, heap, app, locals, cache, chans, remote
<1>4. ~ Freeing' /\ Destroying'
  BY <1>1, <1>3 DEF Freeing, Destroying
<1>5. TypeOK'
  <2>1. nxt \in Address \cup {NULL}
    BY <1>0, <1>1, <1>2, TagTypes
  <2>2. QED
    BY <1>0, <1>3, <2>1 DEF TypeOK
<1>6. Sections'
  BY <1>0, <1>1, <1>3 DEF Sections, InInsert, InSearch, InDestroy, GetPcs, DestroyPcs
<1>7. Ordered'
  <2>1. apc = "idle"
    BY <1>0, <1>1 DEF Ordered, KillsRoot
  <2>2. QED
    BY <1>3, <2>1 DEF Ordered
<1>8. Pointers'
  <2>1. \A x : Given(x) => (x # NULL => x \in Address /\ node'[x].state # "virgin")
    BY <1>3 DEF Given
  <2>2. Given(temp)' /\ Given(nxt)
    BY <1>0, <1>1, <1>2, <1>3, <2>1 DEF Pointers, Given
  <2>3. /\ Given(root)' /\ Given(rtemp)' /\ \A a \in Address : Given(node[a].next)'
        /\ apc' # "idle" => link' # NULL /\ Given(link)'
    BY <1>0, <1>3, <2>1 DEF Pointers, Given
  <2>4. /\ spc' \in {"d_scan", "d_unlink"} => temp' # NULL
        /\ spc' = "d_unlink" => node'[temp'].next # NULL /\ node'[node'[temp'].next].tag = req'.tag
        /\ spc' # "d_test"
    BY <1>0, <1>1, <1>2, <1>3 DEF Pointers
  <2>5. QED
    BY <2>2, <2>3, <2>4 DEF Pointers
<1>9. Lives'
  BY <1>1, <1>3, LivesSame
<1>10. Cached'
  BY <1>3, <1>4 DEF Cached
<1>11. QED
  BY <1>5, <1>6, <1>7, <1>8, <1>9, <1>10 DEF Sound

LEMMA UnlinkSound ==
  ASSUME Sound, Unlink
  PROVE  Sound'
<1>0. TypeOK /\ Sections /\ Ordered /\ Pointers /\ Lives /\ node \in [Address -> NodeSet]
  BY TagTypes DEF Sound
<1>1. PICK d : d = node[temp].next
  OBVIOUS
<1>2. /\ UNCHANGED <<root, sink_tag, apc, link, rtemp, temp, ctag, served, killed>>
      /\ spc = "d_unlink" /\ spc' = "recv" /\ owner' = "none" /\ clink' = NULL
      /\ req' = NoRequest
      /\ node' = [node EXCEPT ![temp].next = node[d].next, ![d].state = "freed"]
      /\ Destruct(node[temp].tag, node[d].tag)
  BY <1>1 DEF Unlink, KillDone, app, remote
<1>3. ~ Freeing /\ Destroying /\ ~ Destroying' /\ apc = "idle"
  BY <1>0, <1>2 DEF Freeing, Destroying, Sections, DestroyPcs, NoRequest, Ordered, KillsRoot
<1>4. /\ temp \in Address /\ d \in Address /\ node[d].tag = req.tag
      /\ node[d].state # "virgin" /\ Given(node[d].next)
  <2>1. temp \in Address
    BY <1>0, <1>2 DEF Pointers, Given
  <2>2. d # NULL /\ Given(d) /\ node[d].tag = req.tag
    BY <1>0, <1>1, <1>2, <2>1 DEF Pointers
  <2>3. QED
    BY <1>0, <2>1, <2>2 DEF Pointers, Given
<1>5. /\ node' \in [Address -> NodeSet]
      /\ \A a \in Address : node'[a].tag = node[a].tag
      /\ \A a \in Address : node'[a].next \in {node[a].next, node[d].next}
      /\ node'[d].state = "freed"
      /\ \A a \in Address \ {d} : node'[a].state = node[a].state
  <2>1. \A a \in Address : node[a] \in [state : {"virgin", "live", "freed"}, tag : Tags,
                                        next : Address \cup {NULL}]
    BY <1>0 DEF NodeSet
  <2>2. node[d].next \in Address \cup {NULL}
    BY <1>0, <1>4, TagTypes
  <2>3. CASE d # temp
    <3>1. PICK m : m = [node[temp] EXCEPT !.next = node[d].next]
      OBVIOUS
    <3>2. PICK n : n = [node[d] EXCEPT !.state = "freed"]
      OBVIOUS
    <3>3. /\ m \in NodeSet /\ m.next = node[d].next /\ m.tag = node[temp].tag
          /\ m.state = node[temp].state
      BY <1>4, <2>1, <2>2, <3>1 DEF NodeSet
    <3>4. n \in NodeSet /\ n.state = "freed" /\ n.tag = node[d].tag /\ n.next = node[d].next
      BY <1>4, <2>1, <3>2 DEF NodeSet
    <3>5. node' = [node EXCEPT ![temp] = m, ![d] = n]
      BY <1>0, <1>2, <1>4, <2>3, <3>1, <3>2
    <3>6. QED
      BY <1>0, <1>4, <2>3, <3>3, <3>4, <3>5
  <2>4. CASE d = temp
    <3>1. PICK n : n = [node[d] EXCEPT !.next = node[d].next, !.state = "freed"]
      OBVIOUS
    <3>2. n \in NodeSet /\ n.state = "freed" /\ n.tag = node[d].tag /\ n.next = node[d].next
      BY <1>4, <2>1, <2>2, <3>1 DEF NodeSet
    <3>3. node' = [node EXCEPT ![d] = n]
      BY <1>0, <1>2, <1>4, <2>4, <3>1
    <3>4. QED
      BY <1>0, <1>4, <3>2, <3>3
  <2>5. QED
    BY <2>3, <2>4
<1>6. /\ channel' \in [Tags -> {"none", "live", "freed"}]
      /\ channel_rc' \in [Tags -> 0 .. 2]
      /\ \A u \in Tags \ {req.tag} : channel'[u] = channel[u]
  <2>1. PICK r \in Tags, t \in Tags : t = req.tag /\ Destruct(r, t)
    BY <1>0, <1>2, <1>4 DEF NodeSet
  <2>2. QED
    BY <1>0, <2>1, DestructOne
<1>7. TypeOK'
  <2>1. NoRequest \in [code : {"NONE", "GET", "KILL"}, tag : Tags]
    BY DEF NoRequest, Tags
  <2>2. QED
    BY <1>0, <1>2, <1>5, <1>6, <2>1 DEF TypeOK, NodeSet
<1>8. Sections'
  BY <1>0, <1>2, <1>3 DEF Sections, InInsert, InSearch, InDestroy, GetPcs, DestroyPcs
<1>9. Ordered'
  BY <1>3 DEF Ordered
<1>10. Pointers'
  <2>1. \A x : Given(x) => (x # NULL => x \in Address /\ node'[x].state # "virgin")
    BY <1>5 DEF Given
  <2>2. Given(root)' /\ Given(rtemp)' /\ Given(temp)'
    BY <1>0, <1>2, <2>1 DEF Pointers, Given
  <2>3. ASSUME NEW a \in Address
        PROVE  Given(node[a].next)'
    <3>1. PICK x : x = node'[a].next
      OBVIOUS
    <3>2. Given(x)
      BY <1>0, <1>4, <1>5, <3>1 DEF Pointers
    <3>3. QED
      BY <2>1, <3>1, <3>2 DEF Given
  <2>4. QED
    BY <1>2, <1>3, <2>2, <2>3 DEF Pointers
<1>11. Lives'
  BY <1>2, <1>3, <1>4, <1>5, <1>6, FreedLives
<1>12. Cached'
  BY <1>2 DEF Cached
<1>13. QED
  BY <1>7, <1>8, <1>9, <1>10, <1>11, <1>12 DEF Sound

LEMMA StepSound ==
  ASSUME Overlap = "orderly", Sound, [Next]_vars
  PROVE  Sound'
<1>1. CASE (MayInsert /\ CreateLink) \/ Insert
  BY <1>1, CreateLinkSound, InsertSound
<1>2. CASE Service
  BY <1>2, ServeSound, LockSound, ReadRootSound, SearchStepSound, DestroyTestSound, RelinkSound,
     DestroyStepSound, UnlinkSound DEF Service
<1>3. CASE SpuriousWakeup
  BY <1>3, LockSound
<1>4. ASSUME NEW t \in Tags, RecvGet(t) \/ (MayKill(t) /\ RecvKill(t))
      PROVE  Sound'
  BY <1>4, ReceiveSound
<1>5. CASE UNCHANGED vars
  <2>1. TypeOK' /\ Sections' /\ Ordered'
    BY <1>5 DEF vars, Sound, TypeOK, Sections, InInsert, InSearch, InDestroy, Ordered, Destroying,
                KillsRoot
  <2>2. Pointers' /\ Lives' /\ Cached'
    BY <1>5 DEF vars, Sound, Pointers, Given, Lives, Cached, Destroying, Freeing
  <2>3. QED
    BY <2>1, <2>2 DEF Sound
<1>6. QED
  BY <1>1, <1>2, <1>3, <1>4, <1>5 DEF Next

(* Nodes are freed by the KILL of their tag only, whatever order links are *)
(* created, looked up and destroyed in                                     *)
THEOREM Soundness ==
  ASSUME Overlap = "orderly"
  PROVE  Spec => []Sound
<1>1. Sound /\ [Next]_vars => Sound'
  BY StepSound
<1>2. QED
  BY InitSound, <1>1, PTL DEF Spec

(* TypeOK: every variable of the two threads stays in range                *)
THEOREM TypeCorrect ==
  ASSUME Overlap = "orderly"
  PROVE  Spec => []TypeOK
<1>1. Sound => TypeOK
  BY DEF Sound
<1>2. QED
  BY Soundness, <1>1, PTL

(* ServedFromLiveLink: the link that answers a GET, cached or not, is      *)
(* allocated, has the tag of the request and a live channel                *)
THEOREM ServedLive ==
  ASSUME Overlap = "orderly"
  PROVE  Spec => []ServedFromLiveLink
<1>1. Sound => ServedFromLiveLink
  <2>1. SUFFICES ASSUME Sound, spc = "serve"
                 PROVE  /\ clink # NULL /\ node[clink].state = "live"
                        /\ node[clink].tag = req.tag /\ channel[req.tag] = "live"
    BY DEF ServedFromLiveLink
  <2>2. Sections /\ Cached /\ Lives
    BY <2>1 DEF Sound
  <2>3. ~ Destroying
    BY <2>1, <2>2 DEF Destroying, Sections, GetPcs
  <2>4. clink \in Address /\ clink # NULL /\ node[clink].state = "live" /\ node[clink].tag = req.tag
    BY <2>1, <2>2, <2>3 DEF Cached
  <2>5. QED
    BY <2>2, <2>4 DEF Lives
<1>2. QED
  BY Soundness, <1>1, PTL

(***************************************************************************)
(* What breaks mutual exclusion.  Nothing is assumed of the order in which *)
(* links are created, used and destroyed: with the one step named here     *)
(* kept out, the mutex protects what it should.                            *)
(***************************************************************************)

(* ltab.c:196 unlocks the mutex while an insertion holds it *)
ForeignUnlock == owner = "app" /\ Unlink

(* The mutex is held by the thread that is between lock and unlock *)
Held == /\ owner = "app" <=> InInsert
        /\ owner = "svc" <=> InSearch \/ InDestroy

(* A step of either thread leaves the mutex with who is in its section,    *)
(* unless it is the unlock of ltab.c:196 during an insertion               *)
LEMMA HeldStep ==
  ASSUME Held, [Next]_vars, [~ ForeignUnlock]_vars
  PROVE  Held'
<1>0. /\ owner = "app" <=> InInsert
      /\ owner = "svc" <=> InSearch \/ InDestroy
  BY DEF Held
<1>1. CASE CreateLink
  BY <1>0, <1>1 DEF Held, InInsert, InSearch, InDestroy, CreateLink
<1>2. CASE Insert
  BY <1>0, <1>2 DEF Held, InInsert, InSearch, InDestroy, Insert, InsertLock, InsertNext,
                    InsertRoot, InsertSignal, InsertUnlock
<1>3. CASE Service
  <2>1. CASE Serve \/ SearchStep \/ DestroyStep \/ DestroyTest
    BY <1>0, <2>1 DEF Held, InInsert, InSearch, InDestroy, Serve, SearchStep, DestroyStep,
                      DestroyTest, Crash, app
  <2>2. CASE Lock
    BY <1>0, <2>2 DEF Held, InInsert, InSearch, InDestroy, Lock, app
  <2>3. CASE ReadRoot \/ CheckRoot \/ CondWait
    BY <1>0, <2>3 DEF Held, InInsert, InSearch, InDestroy, ReadRoot, CheckRoot, CondWait, app
  <2>4. CASE Relink
    BY <1>0, <2>4 DEF Held, InInsert, InSearch, InDestroy, Relink, KillDone, app
  <2>5. CASE Unlink
    <3>1. owner # "app" \/ UNCHANGED vars
      BY <2>5 DEF ForeignUnlock
    <3>2. QED
      BY <1>0, <2>5, <3>1 DEF Held, InInsert, InSearch, InDestroy, Unlink, KillDone, app, vars
  <2>6. QED
    BY <1>3, <2>1, <2>2, <2>3, <2>4, <2>5 DEF Service
<1>4. CASE SpuriousWakeup
  BY <1>0, <1>4 DEF Held, InInsert, InSearch, InDestroy, SpuriousWakeup, app
<1>5. ASSUME NEW t \in Tags, RecvGet(t) \/ RecvKill(t)
      PROVE  Held'
  BY <1>0, <1>5 DEF Held, InInsert, InSearch, InDestroy, RecvGet, RecvKill, app
<1>6. CASE UNCHANGED vars
  BY <1>0, <1>6 DEF Held, InInsert, InSearch, InDestroy, vars
<1>7. QED
  BY <1>1, <1>2, <1>3, <1>4, <1>5, <1>6 DEF Next

(* MutualExclusion: no two threads are between lock and unlock at once, in *)
(* any program, as long as ltab.c:196 never unlocks the mutex that an      *)
(* insertion holds.  Run links_inner has a program in which it does.       *)
THEOREM OnlyForeignUnlock ==
  Spec /\ [][~ ForeignUnlock]_vars => []MutualExclusion
<1>1. Init => Held
  BY DEF Init, Held, InInsert, InSearch, InDestroy
<1>2. Held /\ [Next]_vars /\ [~ ForeignUnlock]_vars => Held'
  BY HeldStep
<1>3. Held => MutualExclusion
  BY DEF Held, MutualExclusion
<1>4. QED
  BY <1>1, <1>2, <1>3, PTL DEF Spec

(* And a program that keeps an insertion from running beside a KILL of an  *)
(* older link never takes that step                                        *)
THEOREM OrderlyUnlocks ==
  ASSUME Overlap = "orderly"
  PROVE  Spec => [][~ ForeignUnlock]_vars
<1>1. Sound => ~ ForeignUnlock
  <2>1. SUFFICES ASSUME Sound, owner = "app", spc = "d_unlink"
                 PROVE  FALSE
    BY DEF ForeignUnlock, Unlink
  <2>2. InInsert /\ Destroying
    BY <2>1 DEF Sound, Sections, Destroying, DestroyPcs, GetPcs
  <2>3. QED
    BY <2>1, <2>2 DEF Sound, Ordered, KillsRoot, InInsert
<1>2. QED
  BY Soundness, <1>1, PTL
=============================================================================
