------------------------------ MODULE Channels ------------------------------
(***************************************************************************)
(* Who frees what: the branching channels of libdsys/branch.c with the     *)
(* reference counts they live by.  One process is modelled: its            *)
(* computation thread, which creates and destroys channels, data types and *)
(* process lists, and its service threads, one per remote process, which   *)
(* run the role's destructor when a consumer sends a KILL.                 *)
(*                                                                         *)
(* A channel block is pointed to by the branching channel and by one link  *)
(* per consumer, and freed with the last link; the branching channel is    *)
(* destroyed by the application, before or after.  A data type is counted  *)
(* under its lock by the application, every branching channel and every    *)
(* channel block; a process list by the application and the branching      *)
(* channels.  The lists of links are LinkTable's: here an entry of the     *)
(* table is the set of its links.                                          *)
(***************************************************************************)
EXTENDS Naturals, FiniteSets

CONSTANTS Remote,       \* the other processes
          Dtype,        \* custom data types
          Plist,        \* custom process lists
          Members,      \* the processes of each list, when it is created
          Block,        \* blocks malloc can return for a channel
          NChan,        \* branching channels created in all
          OneKill,      \* KILLs of the same channel are served one after another
          EarlyReuse    \* malloc may return a block some branching channel points to

NoBlock == "none"
Bc == 1 .. NChan

ASSUME ChannelAssumption == /\ IsFiniteSet(Remote) /\ IsFiniteSet(Block)
                            /\ NoBlock \notin Block
                            /\ Dtype \cap Plist = {}
                            /\ Members \in [Plist -> (SUBSET Remote) \ {{}}]
                            /\ NChan \in Nat
                            /\ OneKill \in BOOLEAN /\ EarlyReuse \in BOOLEAN

VARIABLES dtype_rc,  \* the count of each data type; it is freed at 0
          plist_rc,  \* the count of each process list; it is freed at 0
          members,   \* what is written in each process list
          held,      \* data types and lists the application has not destroyed
          created,   \* branching channels created so far
          bc,        \* the branching channels
          channel,   \* the channel blocks
          entry,     \* for each remote, the channels its entry has links to
          inserting, \* remotes for which the new channel has no link yet
          kill       \* for each remote, the KILL its service thread runs

refs  == <<dtype_rc, plist_rc, held>>
links == <<entry, inserting>>
vars  == <<dtype_rc, plist_rc, members, held, created, bc, channel,
           entry, inserting, kill>>

NoChannel == [state |-> "virgin", role |-> "none", dtype |-> "none", rc |-> 0]
NoBc      == [state |-> "none", mode |-> "none", plist |-> "none", tags |-> {},
              block |-> NoBlock, made_of |-> "none"]
NoKill    == [pc |-> "idle", block |-> NoBlock, rc |-> 0]

Init == /\ dtype_rc = [d \in Dtype |-> 1]
        /\ plist_rc = [p \in Plist |-> 1]
        /\ members = Members
        /\ held = Dtype \cup Plist
        /\ created = 0
        /\ bc = [b \in Bc |-> NoBc]
        /\ channel = [a \in Block |-> NoChannel]
        /\ entry = [r \in Remote |-> {}]
        /\ inserting = {}
        /\ kill = [r \in Remote |-> NoKill]

(***************************************************************************)
(* The computation thread.  It is in one library call at a time; only the  *)
(* insertion of the links can be seen half done by the service threads.    *)
(***************************************************************************)
Idle    == inserting = {}
Live(b) == bc[b].state = "live"

(* malloc(bc_channel_t) *)
Fresh(a) == /\ channel[a].state # "live"
            /\ EarlyReuse \/ \A b \in Bc : Live(b) => bc[b].block # a

(* The references a sink takes on its data type: the channel's and its own; *)
(* before it, the channel's forgotten                                      *)
SinkRefsOwn(d) == dtype_rc' = [dtype_rc EXCEPT ![d] = @ + 1]
SinkRefs(d)    == dtype_rc' = [dtype_rc EXCEPT ![d] = @ + 2]

(* c->rc = pl->count; before it, the last index of the list *)
LastIndex(p) == Cardinality(members[p]) - 1
Count(p)     == Cardinality(members[p])

(* The bc_chan_t; its tags are drawn one for each entry of the list, and    *)
(* made_of, which the code does not keep, is the data type it was made of  *)
NewBc(mode, p, d, a) ==
  /\ created < NChan
  /\ created' = created + 1
  /\ bc' = [bc EXCEPT ![created + 1] =
                [state |-> "live", mode |-> mode, plist |-> p, tags |-> members[p],
                 block |-> a, made_of |-> d]]
  /\ plist_rc' = [plist_rc EXCEPT ![p] = @ + 1]

(* bc_sink_create up to __bc_link_insert.  A pipe has one consumer and no   *)
(* count.                                                                  *)
CreateSink(p, d, role) ==
  /\ Idle
  /\ {p, d} \subseteq held
  /\ role = "pipe" => Count(p) = 1
  /\ \E a \in Block :
       /\ Fresh(a)
       /\ channel' = [channel EXCEPT ![a] =
                        [state |-> "live", role |-> role, dtype |-> d,
                         rc |-> IF role = "pipe" THEN 0 ELSE Count(p)]]
       /\ NewBc("producer", p, d, a)
  /\ SinkRefs(d)
  /\ inserting' = members[p]
  /\ UNCHANGED <<members, held, entry, kill>>

(* One turn of the loop of __bc_link_insert *)
InsertLink(r) ==
  /\ r \in inserting
  /\ entry' = [entry EXCEPT ![r] = @ \cup {bc[created].block}]
  /\ inserting' = inserting \ {r}
  /\ UNCHANGED <<refs, members, created, bc, channel, kill>>

(* bc_src_create: a channel block without queue or links *)
CreateSource(p, d) ==
  /\ Idle
  /\ {p, d} \subseteq held
  /\ \E a \in Block :
       /\ Fresh(a)
       /\ channel' = [channel EXCEPT ![a] = [state |-> "live", role |-> "source",
                                             dtype |-> d, rc |-> 0]]
       /\ NewBc("consumer", p, d, a)
  /\ dtype_rc' = [dtype_rc EXCEPT ![d] = @ + 1]
  /\ UNCHANGED <<members, held, links, kill>>

(* bc_chan_destroy.  A consumer's channel block is freed here, a           *)
(* producer's with its last link; either way the data type is read from    *)
(* the block, which may have been freed by then; before it, the list's     *)
(* reference kept                                                          *)
DestroyChanKeepsList(b) ==
  LET a == bc[b].block
  IN  /\ Idle
      /\ Live(b)
      /\ channel' = IF bc[b].mode = "consumer"
                      THEN [channel EXCEPT ![a].state = "freed"] ELSE channel
      /\ dtype_rc' = [dtype_rc EXCEPT ![channel[a].dtype] = @ - 1]
      /\ bc' = [bc EXCEPT ![b] = [NoBc EXCEPT !.state = "freed"]]
      /\ UNCHANGED <<plist_rc, members, held, created, links, kill>>
DestroyChan(b) ==
  LET a == bc[b].block
  IN  /\ Idle
      /\ Live(b)
      /\ channel' = IF bc[b].mode = "consumer"
                      THEN [channel EXCEPT ![a].state = "freed"] ELSE channel
      /\ dtype_rc' = [dtype_rc EXCEPT ![channel[a].dtype] = @ - 1]
      /\ plist_rc' = [plist_rc EXCEPT ![bc[b].plist] = @ - 1]
      /\ bc' = [bc EXCEPT ![b] = [NoBc EXCEPT !.state = "freed"]]
      /\ UNCHANGED <<members, held, created, links, kill>>

(* bc_dtype_destroy and bc_plist_destroy by the application *)
DestroyDtype(d) ==
  /\ Idle
  /\ d \in held
  /\ held' = held \ {d}
  /\ dtype_rc' = [dtype_rc EXCEPT ![d] = @ - 1]
  /\ UNCHANGED <<plist_rc, members, created, bc, channel, links, kill>>

DestroyPlist(p) ==
  /\ Idle
  /\ p \in held
  /\ held' = held \ {p}
  /\ plist_rc' = [plist_rc EXCEPT ![p] = @ - 1]
  /\ UNCHANGED <<dtype_rc, members, created, bc, channel, links, kill>>

(* bc_plist_set on an entry that has its value: refused while the list is   *)
(* in use                                                                  *)
InUse(p)      == plist_rc[p] > 1

SetPlist(p, old, new) ==
  /\ Idle
  /\ p \in held
  /\ old \in members[p] /\ new \notin members[p]
  /\ ~ InUse(p)
  /\ members' = [members EXCEPT ![p] = (@ \ {old}) \cup {new}]
  /\ UNCHANGED <<refs, created, bc, channel, links, kill>>

(***************************************************************************)
(* The service threads: a KILL for a link that is there.  The link leaves  *)
(* the entry with the first step; only its own service thread reads it.    *)
(***************************************************************************)
(* The end of a destructor: the queue, the reference on the data type and  *)
(* the block are given up                                                  *)
Free(a) == /\ channel' = [channel EXCEPT ![a].state = "freed"]
           /\ dtype_rc' = [dtype_rc EXCEPT ![channel[a].dtype] = @ - 1]

Unlinked(r, link) == /\ kill[r].pc = "idle"
                     /\ link \in entry[r]
                     /\ entry' = [entry EXCEPT ![r] = @ \ {link}]

(* __bc_d_pipe *)
KillPipe(r) ==
  \E link \in entry[r] :
    /\ channel[link].role = "pipe"
    /\ Unlinked(r, link)
    /\ Free(link)
    /\ UNCHANGED <<plist_rc, held, members, created, bc, inserting, kill>>

(* __bc_d_replicate, __bc_d_spread, __bc_d_farmn: c->rc-- without a lock   *)
(* is a read and a write, and the test may use what was written or read    *)
(* the count again                                                         *)
KillRead(r) ==
  \E link \in entry[r] :
    /\ channel[link].role = "shared"
    /\ OneKill => \A o \in Remote : kill[o].block # link
    /\ Unlinked(r, link)
    /\ kill' = [kill EXCEPT ![r] = [pc |-> "write", block |-> link,
                                    rc |-> channel[link].rc]]
    /\ UNCHANGED <<refs, members, created, bc, channel, inserting>>

KillWriteTwice(r) ==
  /\ kill[r].pc = "write"
  /\ channel' = [channel EXCEPT ![kill[r].block].rc = kill[r].rc - 2]
  /\ kill' = [kill EXCEPT ![r].pc = "test", ![r].rc = @ - 2]
  /\ UNCHANGED <<refs, members, created, bc, links>>
KillWrite(r) ==
  /\ kill[r].pc = "write"
  /\ channel' = [channel EXCEPT ![kill[r].block].rc = kill[r].rc - 1]
  /\ kill' = [kill EXCEPT ![r].pc = "test", ![r].rc = @ - 1]
  /\ UNCHANGED <<refs, members, created, bc, links>>

KillTest(r) ==
  /\ kill[r].pc = "test"
  /\ \E rc \in {kill[r].rc, channel[kill[r].block].rc} :
       \/ rc = 0 /\ Free(kill[r].block)
       \/ rc # 0 /\ UNCHANGED <<channel, dtype_rc>>
  /\ kill' = [kill EXCEPT ![r] = NoKill]
  /\ UNCHANGED <<plist_rc, held, members, created, bc, links>>

Next ==
  \/ \E p \in Plist, d \in Dtype : \/ \E role \in {"pipe", "shared"} : CreateSink(p, d, role)
                                   \/ CreateSource(p, d)
  \/ \E b \in Bc : DestroyChan(b)
  \/ \E d \in Dtype : DestroyDtype(d)
  \/ \E p \in Plist : DestroyPlist(p) \/ \E old, new \in Remote : SetPlist(p, old, new)
  \/ \E r \in Remote : InsertLink(r) \/ KillPipe(r) \/ KillRead(r) \/ KillWrite(r) \/ KillTest(r)

Spec == Init /\ [][Next]_vars

-----------------------------------------------------------------------------
(* Every variable stays in range: no count is lowered below zero (the      *)
(* counts of branch.c, dtype.c and plist.c).                               *)
TypeOK ==
  /\ dtype_rc \in [Dtype -> Nat] /\ plist_rc \in [Plist -> Nat]
  /\ members \in [Plist -> SUBSET Remote]
  /\ held \subseteq Dtype \cup Plist
  /\ created \in 0 .. NChan
  /\ \A b \in 1 .. created : bc[b].state = "freed" \/
                             /\ bc[b].mode \in {"producer", "consumer"}
                             /\ bc[b].plist \in Plist /\ bc[b].made_of \in Dtype
                             /\ bc[b].block \in Block
                             /\ bc[b].tags \subseteq Remote
  /\ \A a \in Block : channel[a].state # "virgin" =>
       channel[a] \in [state : {"live", "freed"}, role : {"pipe", "shared", "source"},
                       dtype : Dtype, rc : 0 .. Cardinality(Remote)]
  /\ entry \in [Remote -> SUBSET Block]
  /\ inserting \subseteq Remote
  /\ kill \in [Remote -> [pc : {"idle", "write", "test"}, block : Block \cup {NoBlock},
                          rc : 0 .. Cardinality(Remote)]]

(* The count of a data type is the number of its users: the application,   *)
(* the branching channels made of it and the channel blocks with links     *)
(* (dtype.c:120-130).  It is freed when the last of them lets go, neither  *)
(* before nor never, although application and service threads let go in    *)
(* any order and a branching channel finds its data type through a block   *)
(* that may be gone.                                                       *)
DtypeCounted ==
  \A d \in Dtype :
    dtype_rc[d] =   Cardinality(held \cap {d})
                  + Cardinality({b \in Bc : Live(b) /\ bc[b].made_of = d})
                  + Cardinality({a \in Block : /\ channel[a].state = "live"
                                               /\ channel[a].role # "source"
                                               /\ channel[a].dtype = d})

(* A channel block outlives the links to it: what a GET, a KILL in         *)
(* progress and the insertion of the remaining links read of it has not    *)
(* been freed ("A channel is shared by the branching channel and the link  *)
(* in the lookup table", branch.h:63).                                     *)
ChannelOutlivesLinks ==
  /\ \A r \in Remote : \A link \in entry[r] : channel[link].state = "live"
  /\ \A r \in Remote : kill[r].pc # "idle" => channel[kill[r].block].state = "live"
  /\ ~ Idle => channel[bc[created].block].state = "live"

(* While a branching channel is in use its tags go with the processes of   *)
(* its list, entry by entry (branch.c:150, 219 and 300-302 index both):    *)
(* resetting an entry is refused as long as any channel depends on the     *)
(* list, even when the application has destroyed other channels on it.     *)
TagsMatchList == \A b \in Bc : Live(b) => bc[b].tags = members[bc[b].plist]

(* Both together: what a channel is reached by, from the links and from    *)
(* its branching channel, is what it was created with.                     *)
ChannelsReached == ChannelOutlivesLinks /\ TagsMatchList

(* When the application has destroyed what it created and the consumers    *)
(* have killed their links, nothing is left allocated: the last one to go  *)
(* frees the channel (ltab.c:155).                                         *)
NothingLeft ==
  /\ held = {} /\ Idle
  /\ \A b \in Bc : ~ Live(b)
  /\ \A r \in Remote : entry[r] = {} /\ kill[r].pc = "idle"
  => /\ \A d \in Dtype : dtype_rc[d] = 0
     /\ \A p \in Plist : plist_rc[p] = 0
     /\ \A a \in Block : channel[a].state # "live"
=============================================================================
