------------------------------ MODULE LinkTable ------------------------------
(***************************************************************************)
(* One entry of the table of links of libdsys/ltab.c: the list of the      *)
(* links to one remote process, with its mutex and condition variable.     *)
(* Two threads use it: the computation thread inserts a link when the      *)
(* application creates a channel (__bc_link_insert), the service thread of *)
(* that remote looks a link up for a GET (__bc_link_search) and removes    *)
(* it for a KILL (__bc_link_destroy), remembering the last link it found.  *)
(*                                                                         *)
(* Links are nodes of a heap, so that a node can be read after it was      *)
(* freed and its address handed out again.  The mutex has an explicit      *)
(* owner, since one path unlocks it without holding it.  Every access of   *)
(* the shared list is a step of its own; what the service thread does with *)
(* its own pointers between two of them goes with the access before.       *)
(***************************************************************************)
EXTENDS Naturals, FiniteSets

CONSTANTS NTags,        \* channels created in all, with tags 0 .. NTags - 1
          Address,      \* blocks malloc can return
          Shared,       \* tags whose channel has a second link, in another entry
          EarlyReuse,   \* malloc may return the block of a KILL in progress
          KillAfterGet, \* a link is destroyed only after a GET on it was served
          Overlap       \* which KILLs may run beside an insertion, see MayKill

NULL == "NULL"
Tags == 0 .. NTags - 1

ASSUME LinkAssumption == /\ NTags \in Nat \ {0}
                         /\ NULL \notin Address
                         /\ Shared \subseteq Tags
                         /\ EarlyReuse \in BOOLEAN /\ KillAfterGet \in BOOLEAN
                         /\ Overlap \in {"orderly", "free"}

VARIABLES node,     \* the heap: for each address a link, and whether it is allocated
          root,     \* ltab[rank].dummy.next
          owner,    \* who holds ltab[rank].lock
          sink_tag, \* the tag of the next link
          apc,      \* where the computation thread is in __bc_link_insert
          link,     \* its local link
          spc,      \* where the service thread is
          req,      \* the request it serves
          rtemp,    \* its copy of the root (dummy in search, rtemp in destroy)
          temp,     \* its local temp
          clink,    \* the cached link
          ctag,     \* its tag
          channel,  \* state of the channel of each tag
          channel_rc, \* the reference count of each channel
          served,   \* tags a GET was answered for
          killed    \* tags a KILL was sent for

heap    == <<node, root>>
app     == <<sink_tag, apc, link>>
cache   == <<clink, ctag>>
locals  == <<rtemp, temp>>
chans   == <<channel, channel_rc>>
remote  == <<served, killed>>
vars    == <<node, root, owner, sink_tag, apc, link, spc, req, rtemp, temp, clink,
             ctag, channel, channel_rc, served, killed>>

NoRequest == [code |-> "NONE", tag |-> 0]
Blank     == [state |-> "virgin", tag |-> 0, next |-> NULL]

Init == /\ node = [a \in Address |-> Blank]
        /\ root = NULL
        /\ owner = "none"
        /\ sink_tag = 0
        /\ apc = "idle" /\ link = NULL
        /\ spc = "recv" /\ req = NoRequest
        /\ rtemp = NULL /\ temp = NULL
        /\ clink = NULL /\ ctag = NTags   \* 9999 in the code: no tag in use
        /\ channel = [t \in Tags |-> "none"]
        /\ channel_rc = [t \in Tags |-> 0]
        /\ served = {} /\ killed = {}

(***************************************************************************)
(* The computation thread: bc_sink_create, then __bc_link_insert.          *)
(***************************************************************************)
InInsert  == apc \in {"next", "root", "signal", "unlock"}
Destroying == req.code = "KILL"

(* malloc(bc_link_t), and the fields the new link gets before the lock;    *)
(* before it, with the macro that draws the tag evaluated twice            *)
CreateLinkTwoTags ==
  /\ apc = "idle"
  /\ sink_tag < NTags
  /\ \E a \in Address :
       /\ node[a].state = "virgin"
       /\ node' = [node EXCEPT ![a].state = "live", ![a].tag = sink_tag]
       /\ link' = a
  /\ channel' = [channel EXCEPT ![sink_tag] = "live"]
  /\ sink_tag' = sink_tag + 2
  /\ apc' = "lock"
  /\ UNCHANGED <<root, owner, channel_rc, spc, req, locals, cache, remote>>
CreateLink ==
  /\ apc = "idle"
  /\ sink_tag < NTags
  /\ \E a \in Address :
       /\ \/ node[a].state = "virgin"
          \/ node[a].state = "freed" /\ (EarlyReuse \/ ~ Destroying)
       /\ node' = [node EXCEPT ![a].state = "live", ![a].tag = sink_tag]
       /\ link' = a
  /\ channel' = [channel EXCEPT ![sink_tag] = "live"]
  /\ channel_rc' = [channel_rc EXCEPT ![sink_tag] = IF sink_tag \in Shared THEN 2 ELSE 0]
  /\ sink_tag' = sink_tag + 1
  /\ apc' = "lock"
  /\ UNCHANGED <<root, owner, spc, req, locals, cache, remote>>

InsertWithoutLock == /\ apc = "lock"
                     /\ apc' = "next"
                     /\ UNCHANGED <<heap, owner, sink_tag, link, spc, req, locals, cache,
                                    chans, remote>>
InsertLock == /\ apc = "lock"
              /\ owner = "none"
              /\ owner' = "app"
              /\ apc' = "next"
              /\ UNCHANGED <<heap, sink_tag, link, spc, req, locals, cache, chans, remote>>

InsertNext == /\ apc = "next"
              /\ node' = [node EXCEPT ![link].next = root]
              /\ apc' = "root"
              /\ UNCHANGED <<root, owner, sink_tag, link, spc, req, locals, cache, chans, remote>>

InsertRoot == /\ apc = "root"
              /\ root' = link
              /\ apc' = "signal"
              /\ UNCHANGED <<node, owner, sink_tag, link, spc, req, locals, cache, chans, remote>>

InsertSignal == /\ apc = "signal"
                /\ spc' = CASE spc = "s_wait" -> "s_wake"
                            [] spc = "d_wait" -> "d_wake"
                            [] OTHER -> spc
                /\ apc' = "unlock"
                /\ UNCHANGED <<heap, owner, sink_tag, link, req, locals, cache, chans, remote>>

InsertUnlock == /\ apc = "unlock"
                /\ owner' = "none"
                /\ apc' = "idle"
                /\ link' = NULL
                /\ UNCHANGED <<heap, sink_tag, spc, req, locals, cache, chans, remote>>

(***************************************************************************)
(* The service thread: the next request of the remote process.             *)
(***************************************************************************)
RecvGetAnyCached(t) ==
              /\ spc = "recv"
              /\ t \notin killed
              /\ req' = [code |-> "GET", tag |-> t]
              /\ spc' = IF clink # NULL THEN "serve" ELSE "s_lock"
              /\ UNCHANGED <<heap, owner, app, locals, cache, chans, remote>>
RecvGet(t) == /\ spc = "recv"
              /\ t \notin killed
              /\ req' = [code |-> "GET", tag |-> t]
              /\ spc' = IF clink # NULL /\ ctag = t THEN "serve" ELSE "s_lock"
              /\ UNCHANGED <<heap, owner, app, locals, cache, chans, remote>>

RecvKill(t) == /\ spc = "recv"
               /\ t \notin killed
               /\ req' = [code |-> "KILL", tag |-> t]
               /\ killed' = killed \cup {t}
               /\ spc' = "d_lock"
               /\ UNCHANGED <<heap, owner, app, locals, cache, chans, served>>

(* The role's send interface, called with the link found *)
Serve == /\ spc = "serve"
         /\ served' = served \cup {req.tag}
         /\ req' = NoRequest
         /\ spc' = "recv"
         /\ UNCHANGED <<heap, owner, app, locals, cache, chans, killed>>

(* Taking the mutex, on entry or again after bc_cond_wait *)
Lock == \E step \in {<<"s_lock", "s_root">>, <<"s_miss", "s_check">>, <<"s_wake", "s_root">>,
                     <<"d_lock", "d_root">>, <<"d_miss", "d_check">>, <<"d_wake", "d_root">>,
                     <<"d_relock", "d_relink">>} :
          /\ spc = step[1]
          /\ owner = "none"
          /\ owner' = "svc"
          /\ spc' = step[2]
          /\ UNCHANGED <<heap, app, req, locals, cache, chans, remote>>

(* Copying the root and unlocking *)
ReadRoot == /\ \/ spc = "s_root" /\ spc' = "s_scan"
               \/ spc = "d_root" /\ spc' = "d_test"
            /\ rtemp' = root
            /\ temp' = root
            /\ owner' = "none"
            /\ UNCHANGED <<heap, app, req, cache, chans, remote>>

(* The loop of __bc_link_search over the list, without the lock *)
SearchStep ==
  /\ spc = "s_scan"
  /\ \/ /\ temp = NULL
        /\ spc' = "s_miss"
        /\ UNCHANGED <<temp, cache>>
     \/ /\ temp # NULL
        /\ node[temp].tag = req.tag
        /\ clink' = temp
        /\ ctag' = req.tag
        /\ spc' = "serve"
        /\ UNCHANGED temp
     \/ /\ temp # NULL
        /\ node[temp].tag # req.tag
        /\ temp' = node[temp].next
        /\ UNCHANGED <<spc, cache>>
  /\ UNCHANGED <<heap, owner, app, req, rtemp, chans, remote>>

(* Not found: start over if the root has changed, else wait; before it,    *)
(* without looking at the root                                             *)
CheckNothing == /\ \/ spc = "s_check" /\ spc' = "s_block"
                   \/ spc = "d_check" /\ spc' = "d_block"
                /\ UNCHANGED <<heap, owner, app, req, locals, cache, chans, remote>>
CheckRoot == /\ \/ spc = "s_check" /\ spc' = IF rtemp # root THEN "s_root" ELSE "s_block"
                \/ spc = "d_check" /\ spc' = IF rtemp # root THEN "d_root" ELSE "d_block"
             /\ UNCHANGED <<heap, owner, app, req, locals, cache, chans, remote>>

CondWait == /\ \/ spc = "s_block" /\ spc' = "s_wait"
               \/ spc = "d_block" /\ spc' = "d_wait"
            /\ owner' = "none"
            /\ UNCHANGED <<heap, app, req, locals, cache, chans, remote>>

SpuriousWakeup == /\ \/ spc = "s_wait" /\ spc' = "s_wake"
                     \/ spc = "d_wait" /\ spc' = "d_wake"
                  /\ UNCHANGED <<heap, owner, app, req, locals, cache, chans, remote>>

(* bc_iface[role of r's channel].d(channel of t): a pipe frees its channel *)
(* at once, any other role lowers the count, which is not set for a pipe   *)
Destruct(r, t) ==
  IF r \notin Shared
    THEN channel' = [channel EXCEPT ![t] = "freed"] /\ UNCHANGED channel_rc
    ELSE /\ channel_rc' = [channel_rc EXCEPT ![t] = IF @ = 0 THEN 0 ELSE @ - 1]
         /\ channel' = [channel EXCEPT ![t] = IF channel_rc[t] = 1 THEN "freed" ELSE @]

(* A null pointer is read *)
Crash == /\ spc' = "crashed"
         /\ UNCHANGED <<heap, owner, app, req, locals, cache, chans, remote>>

(* rtemp->tag == tag: the root is freed before it is unlinked *)
DestroyTest ==
  /\ spc = "d_test"
  /\ \/ rtemp = NULL /\ Crash
     \/ /\ rtemp # NULL
        /\ node[rtemp].tag = req.tag
        /\ temp' = node[rtemp].next
        /\ Destruct(node[rtemp].tag, node[rtemp].tag)
        /\ node' = [node EXCEPT ![rtemp].state = "freed"]
        /\ spc' = "d_relock"
        /\ UNCHANGED <<root, owner, app, req, rtemp, cache, remote>>
     \/ /\ rtemp # NULL
        /\ node[rtemp].tag # req.tag
        /\ spc' = "d_scan"
        /\ UNCHANGED <<heap, owner, app, req, locals, cache, chans, remote>>

(* The end of a KILL: unlock, and forget the cached link *)
KillDone == /\ owner' = "none"
            /\ clink' = NULL
            /\ req' = NoRequest
            /\ spc' = "recv"
            /\ UNCHANGED <<app, rtemp, temp, ctag, remote>>

(* The nodes the list that starts at a visits up to the node stop: those   *)
(* in every set that holds a and, with a node, the next one                *)
Closed(S, stop)  == \A b \in S \ {NULL, stop} : node[b].next \in S
Visited(a, stop) == {b \in Address \ {stop} :
                       \A S \in SUBSET (Address \cup {NULL}) : a \in S /\ Closed(S, stop) => b \in S}

(* The freed root is unlinked, wherever insertions have left it; before    *)
(* it, one link too far                                                    *)
RelinkSkips ==
  /\ spc = "d_relink"
  /\ rtemp = root
  /\ root' = IF temp = NULL THEN NULL ELSE node[temp].next
  /\ UNCHANGED <<node, chans>>
  /\ KillDone
Relink ==
  /\ spc = "d_relink"
  /\ \/ /\ rtemp = root
        /\ root' = temp
        /\ UNCHANGED node
     \/ /\ rtemp # root
        /\ \E a \in Visited(root, rtemp) :
             /\ node[a].next = rtemp
             /\ node' = [node EXCEPT ![a].next = temp]
        /\ UNCHANGED root
  /\ UNCHANGED chans
  /\ KillDone

(* while (temp->next->tag != tag), and the wait when the end is reached *)
DestroyStep ==
  LET nxt == node[temp].next
  IN  /\ spc = "d_scan"
      /\ \/ nxt = NULL /\ Crash
         \/ /\ nxt # NULL
            /\ node[nxt].tag = req.tag
            /\ spc' = "d_unlink"
            /\ UNCHANGED <<heap, owner, app, req, locals, cache, chans, remote>>
         \/ /\ nxt # NULL
            /\ node[nxt].tag # req.tag
            /\ temp' = nxt
            /\ spc' = IF node[nxt].next = NULL THEN "d_miss" ELSE "d_scan"
            /\ UNCHANGED <<heap, owner, app, req, rtemp, cache, chans, remote>>

(* An inner link is unlinked without the lock, its channel destroyed by    *)
(* the role of the link before it, and the mutex released all the same     *)
Unlink ==
  LET dummy == node[temp].next
  IN  /\ spc = "d_unlink"
      /\ node' = [node EXCEPT ![temp].next = node[dummy].next, ![dummy].state = "freed"]
      /\ Destruct(node[temp].tag, node[dummy].tag)
      /\ UNCHANGED root
      /\ KillDone

Service == \/ Serve \/ Lock \/ ReadRoot \/ SearchStep \/ CheckRoot \/ CondWait
           \/ DestroyTest \/ Relink \/ DestroyStep \/ Unlink

(***************************************************************************)
(* What the two programs that use the entry do when, which is no part of   *)
(* the library: the actions above have no such guards, and Next joins them *)
(* to these.  KillAfterGet: a channel is destroyed by a process only after *)
(* it got something through it.  Overlap = "orderly": an insertion runs    *)
(* beside a KILL only once that has found its link at the root; "free": no *)
(* restriction.                                                            *)
(***************************************************************************)
KillsRoot  == \/ spc = "d_test" /\ rtemp # NULL /\ node[rtemp].tag = req.tag
              \/ spc \in {"d_relock", "d_relink"}
MayInsert  == Overlap = "orderly" /\ Destroying => KillsRoot
MayKill(t) == /\ KillAfterGet => t \in served
              /\ Overlap = "orderly" => \/ apc = "idle"
                                        \/ apc = "lock" /\ root # NULL /\ node[root].tag = t

Insert == \/ MayInsert /\ InsertLock
          \/ InsertNext \/ InsertRoot \/ InsertSignal \/ InsertUnlock

Next == \/ MayInsert /\ CreateLink
        \/ Insert \/ Service \/ SpuriousWakeup
        \/ \E t \in Tags : RecvGet(t) \/ (MayKill(t) /\ RecvKill(t))

Spec == Init /\ [][Next]_vars

(* Both threads go on once they are in the library; a thread that waits    *)
(* for the mutex gets it.                                                  *)
FairSpec == Spec /\ WF_vars(Insert) /\ WF_vars(Service)

-----------------------------------------------------------------------------
(* The links in the list, but for the one that is freed and still linked *)
Listed == {node[a].tag : a \in Visited(root, NULL) \
                                 IF spc \in {"d_relock", "d_relink"} THEN {rtemp} ELSE {}}

(* Every variable stays in range, and no null pointer is read *)
TypeOK ==
  /\ node \in [Address -> [state : {"virgin", "live", "freed"}, tag : Tags,
                           next : Address \cup {NULL}]]
  /\ {root, link, rtemp, temp, clink} \subseteq Address \cup {NULL}
  /\ owner \in {"none", "app", "svc"}
  /\ sink_tag \in 0 .. NTags /\ ctag \in 0 .. NTags
  /\ apc \in {"idle", "lock", "next", "root", "signal", "unlock"}
  /\ spc \in {"recv", "serve", "s_lock", "s_root", "s_scan", "s_miss", "s_check", "s_block",
              "s_wait", "s_wake", "d_lock", "d_root", "d_test", "d_relock", "d_relink",
              "d_scan", "d_miss", "d_check", "d_block", "d_wait", "d_wake", "d_unlink",
              "crashed"}
  /\ req \in [code : {"NONE", "GET", "KILL"}, tag : Tags]
  /\ channel \in [Tags -> {"none", "live", "freed"}]
  /\ channel_rc \in [Tags -> 0 .. 2]
  /\ served \subseteq Tags /\ killed \subseteq Tags

NoCrash == spc # "crashed"

InSearch  == spc \in {"s_root", "s_check", "s_block"}
InDestroy == spc \in {"d_root", "d_relink", "d_check", "d_block"}

(* The sections between lock and unlock of the two threads exclude each    *)
(* other: "Don't allow access to the linked list dummy during insertion"   *)
(* (ltab.c:94-97).                                                         *)
MutualExclusion == ~ (InInsert /\ (InSearch \/ InDestroy))

(* Both together: no thread follows a pointer to nothing, and none is in   *)
(* the list while another one changes it under the lock.                   *)
AccessSafe == NoCrash /\ MutualExclusion

(* A request is answered from a link that is allocated, carries its tag    *)
(* and has a live channel, also when the link comes from the service       *)
(* thread's cache.                                                         *)
ServedFromLiveLink ==
  spc = "serve" => /\ clink # NULL
                   /\ node[clink].state = "live"
                   /\ node[clink].tag = req.tag
                   /\ channel[req.tag] = "live"

(* A channel with links to several consumers is not freed while another    *)
(* consumer's link is left ("if I am the last one depending", ltab.c:155). *)
SharedSurvives == \A t \in Shared : channel[t] # "freed"

(* The list implements the directory: whatever the interleaving, an        *)
(* insertion adds one link, a KILL takes one away, and no link is lost.    *)
Directory == INSTANCE LinkDirectory WITH
               links   <- Listed,
               request <- req

DirectorySpec == Directory!Spec

(* Between requests and insertions the list holds the links inserted and   *)
(* not destroyed, no more and no fewer ("Check if root is still valid",    *)
(* ltab.c:159).                                                            *)
LinksKept == apc = "idle" /\ spc = "recv" => Listed = (0 .. sink_tag - 1) \ killed

(* A GET for a link that was inserted is served: the service thread cannot *)
(* sleep past the insertion (ltab.c:127-133).                              *)
GetServed == \A t \in Tags :
               (req.code = "GET" /\ req.tag = t /\ t \in Listed) ~> req.code # "GET"
=============================================================================
