--------------------------- MODULE ChannelsProofs ---------------------------
(***************************************************************************)
(* Proofs about who frees what (libdsys/branch.c, dtype.c, plist.c and the *)
(* destructors of the roles), for any remote processes, data types,        *)
(* process lists and blocks, and any number of channels.                   *)
(*                                                                         *)
(* What holds of the process lists needs nothing else.  What holds of the  *)
(* channel blocks and data types needs the two conditions of the run: the  *)
(* KILLs of one channel are served one after another, and malloc does not  *)
(* return a block that a branching channel still points to.                *)
(***************************************************************************)
EXTENDS Channels, FiniteSetTheorems, TLAPS

USE ChannelAssumption

LiveBc  == [state : {"live"}, mode : {"producer", "consumer"}, plist : Plist,
            tags : SUBSET Remote, block : Block, made_of : Dtype]
FreedBc == [NoBc EXCEPT !.state = "freed"]

(* The branching channels that depend on a process list                    *)
DependOn(p) == {b \in Bc : Live(b) /\ bc[b].plist = p}

ListTypes == /\ plist_rc \in [Plist -> Nat]
             /\ members \in [Plist -> (SUBSET Remote) \ {{}}]
             /\ held \subseteq Dtype \cup Plist
             /\ created \in 0 .. NChan
             /\ bc \in [Bc -> LiveBc \cup {NoBc, FreedBc}]
             /\ \A b \in Bc : bc[b] = NoBc <=> b > created

(* A process list is counted by the application and by what depends on it  *)
PlistCounted ==
  \A p \in Plist : plist_rc[p] = Cardinality(held \cap {p}) + Cardinality(DependOn(p))

ListInv == ListTypes /\ PlistCounted /\ TagsMatchList

-----------------------------------------------------------------------------
LiveChannel == [state : {"live", "freed"}, role : {"pipe", "shared", "source"},
                dtype : Dtype, rc : 0 .. Cardinality(Remote)]
Killing     == [pc : {"write", "test"}, block : Block, rc : 0 .. Cardinality(Remote)]

BlockTypes == /\ channel \in [Block -> LiveChannel \cup {NoChannel}]
              /\ entry \in [Remote -> SUBSET Block]
              /\ inserting \in SUBSET Remote
              /\ kill \in [Remote -> Killing \cup {NoKill}]

(* The remotes that have, or are to get, a link to a channel block         *)
NewLinks(a) == {r \in inserting : bc[created].block = a}
Users(a)    == {r \in Remote : a \in entry[r]} \cup NewLinks(a)

(* A link that is gone and still counted                                   *)
Owed(a) == IF \E r \in Remote : kill[r].pc = "write" /\ kill[r].block = a THEN 1 ELSE 0

(* A branching channel finds in its block, live or not, the data type it   *)
(* was made of, and shares the block with no other                         *)
BcBlocks ==
  /\ \A b \in Bc : Live(b) =>
       /\ channel[bc[b].block].state # "virgin"
       /\ channel[bc[b].block].dtype = bc[b].made_of
       /\ bc[b].mode = "consumer" <=> channel[bc[b].block].role = "source"
       /\ bc[b].mode = "consumer" => channel[bc[b].block].state = "live"
  /\ \A b, o \in Bc : Live(b) /\ Live(o) /\ bc[b].block = bc[o].block => b = o

SourceOwned == \A a \in Block : channel[a].state = "live" /\ channel[a].role = "source" =>
                 \E b \in Bc : Live(b) /\ bc[b].block = a

Inserting == inserting # {} => /\ created \in Bc /\ Live(created)
                               /\ \A r \in inserting : bc[created].block \notin entry[r]

(* A live channel has a user, a pipe exactly one; a shared one counts them *)
UsersCounted ==
  \A a \in Block :
    /\ channel[a].state # "live" \/ channel[a].role = "source" => Users(a) = {}
    /\ channel[a].state = "live" /\ channel[a].role = "pipe" =>
         \E r \in Remote : Users(a) = {r}
    /\ channel[a].state = "live" /\ channel[a].role = "shared" =>
         /\ channel[a].rc = Cardinality(Users(a)) + Owed(a)
         /\ Users(a) # {} \/ \E r \in Remote : kill[r].block = a

(* A KILL in progress is the only one on its channel, which is there, and  *)
(* what it read or wrote is still the count                                *)
KillsAlone ==
  /\ \A r \in Remote : kill[r] # NoKill =>
       /\ channel[kill[r].block].state = "live"
       /\ channel[kill[r].block].role = "shared"
       /\ channel[kill[r].block].rc = kill[r].rc
  /\ \A r, o \in Remote : kill[r] # NoKill /\ kill[o].block = kill[r].block => r = o

ChannelInv == /\ BlockTypes /\ BcBlocks /\ SourceOwned /\ Inserting
              /\ UsersCounted /\ KillsAlone

DtypeInv == dtype_rc \in [Dtype -> Nat] /\ DtypeCounted

Inv == ListInv /\ ChannelInv /\ DtypeInv

-----------------------------------------------------------------------------
(* One element more or less                                                *)
LEMMA OneMore ==
  ASSUME NEW S, IsFiniteSet(S), NEW x, x \notin S, NEW T, T = S \cup {x}
  PROVE  IsFiniteSet(T) /\ Cardinality(T) = Cardinality(S) + 1
BY FS_AddElement

LEMMA OneLess ==
  ASSUME NEW S, IsFiniteSet(S), NEW x, x \in S, NEW T, T = S \ {x}
  PROVE  /\ IsFiniteSet(T) /\ Cardinality(T) \in Nat
         /\ Cardinality(S) = Cardinality(T) + 1
<1>1. IsFiniteSet(T) /\ x \notin T /\ S = T \cup {x}
  BY FS_RemoveElement
<1>2. QED
  BY <1>1, OneMore, FS_CardinalityType

(* What the application holds of one thing is it or nothing                *)
LEMMA HeldCard ==
  ASSUME NEW x
  PROVE  Cardinality(held \cap {x}) = IF x \in held THEN 1 ELSE 0
<1>1. CASE x \in held
  <2>1. held \cap {x} = {x}
    BY <1>1
  <2>2. QED
    BY <1>1, <2>1, FS_Singleton
<1>2. CASE x \notin held
  <2>1. held \cap {x} = {}
    BY <1>2
  <2>2. QED
    BY <1>2, <2>1, FS_EmptySet
<1>3. QED
  BY <1>1, <1>2

(* There are finitely many branching channels                              *)
LEMMA DependFinite ==
  ASSUME NEW p
  PROVE  /\ IsFiniteSet(DependOn(p)) /\ Cardinality(DependOn(p)) \in Nat
         /\ Cardinality(DependOn(p)) = 0 <=> DependOn(p) = {}
<1>1. IsFiniteSet(Bc)
  BY FS_Interval DEF Bc
<1>2. IsFiniteSet(DependOn(p))
  BY <1>1, FS_Subset DEF DependOn
<1>3. QED
  BY <1>2, FS_CardinalityType, FS_EmptySet

-----------------------------------------------------------------------------
(* At the start nothing depends on a list but the application              *)
LEMMA InitList == Init => ListInv
<1> SUFFICES ASSUME Init
             PROVE  ListInv
  OBVIOUS
<1>1. ListTypes
  BY DEF Init, ListTypes, Bc
<1>2. \A b \in Bc : ~ Live(b)
  BY DEF Init, Live, NoBc
<1>3. PlistCounted
  <2>1. SUFFICES ASSUME NEW p \in Plist
                 PROVE  plist_rc[p] = Cardinality(held \cap {p}) + Cardinality(DependOn(p))
    BY DEF PlistCounted
  <2>2. DependOn(p) = {}
    BY <1>2 DEF DependOn
  <2>3. Cardinality(held \cap {p}) = 1
    BY HeldCard DEF Init
  <2>4. Cardinality(DependOn(p)) = 0 /\ plist_rc[p] = 1
    BY <2>2, FS_EmptySet DEF Init
  <2>5. QED
    BY <2>3, <2>4
<1>4. QED
  BY <1>1, <1>2, <1>3 DEF ListInv, TagsMatchList

(* Creating a channel adds one that depends on the list                    *)
LEMMA NewBcList ==
  ASSUME ListInv, NEW mode \in {"producer", "consumer"}, NEW p \in Plist, NEW d \in Dtype,
         NEW a \in Block, NewBc(mode, p, d, a), UNCHANGED <<members, held>>
  PROVE  ListInv'
<1>0. ListTypes /\ PlistCounted /\ TagsMatchList
  BY DEF ListInv
<1>1. /\ created + 1 \in Bc /\ created' = created + 1 /\ created' \in 0 .. NChan
      /\ ~ Live(created + 1)
  BY <1>0 DEF NewBc, ListTypes, Bc, Live, NoBc
<1>2. /\ bc' = [bc EXCEPT ![created + 1] =
                  [state |-> "live", mode |-> mode, plist |-> p, tags |-> members[p],
                   block |-> a, made_of |-> d]]
      /\ plist_rc' = [plist_rc EXCEPT ![p] = @ + 1]
  BY DEF NewBc
<1>3. ListTypes'
  <2>1. bc'[created + 1] \in LiveBc /\ bc'[created + 1] # NoBc
    BY <1>0, <1>1, <1>2 DEF ListTypes, LiveBc, NoBc
  <2>2. \A b \in Bc : b # created + 1 => bc'[b] = bc[b]
    BY <1>0, <1>2 DEF ListTypes
  <2>3. \A b \in Bc : bc'[b] \in LiveBc \cup {NoBc, FreedBc}
    BY <1>0, <2>1, <2>2 DEF ListTypes
  <2>4. bc' \in [Bc -> LiveBc \cup {NoBc, FreedBc}]
    BY <1>0, <1>2, <2>3 DEF ListTypes
  <2>5. \A b \in Bc : bc'[b] = NoBc <=> b > created'
    BY <1>0, <1>1, <2>1, <2>2 DEF ListTypes, Bc
  <2>6. plist_rc' \in [Plist -> Nat]
    BY <1>0, <1>2 DEF ListTypes
  <2>7. QED
    BY <1>0, <1>1, <2>4, <2>5, <2>6 DEF ListTypes
<1>4. \A b \in Bc : /\ b # created + 1 => bc'[b] = bc[b] /\ (Live(b)' <=> Live(b))
                    /\ b = created + 1 => /\ Live(b)' /\ bc'[b].plist = p
                                          /\ bc'[b].tags = members[p]
  BY <1>0, <1>2 DEF ListTypes, Live
<1>5. PlistCounted'
  <2>1. SUFFICES ASSUME NEW q \in Plist
                 PROVE  plist_rc'[q] = Cardinality(held' \cap {q}) + Cardinality(DependOn(q)')
    BY DEF PlistCounted
  <2>2. held' \cap {q} = held \cap {q}
    OBVIOUS
  <2>3. CASE q = p
    <3>1. DependOn(q)' = DependOn(q) \cup {created + 1} /\ created + 1 \notin DependOn(q)
      BY <1>1, <1>4, <2>3 DEF DependOn
    <3>2. Cardinality(DependOn(q)') = Cardinality(DependOn(q)) + 1
      BY <3>1, DependFinite, OneMore
    <3>3. plist_rc'[q] = plist_rc[q] + 1
      BY <1>0, <1>2, <2>3 DEF ListTypes
    <3>4. plist_rc[q] = Cardinality(held \cap {q}) + Cardinality(DependOn(q))
      BY <1>0 DEF PlistCounted
    <3>5. QED
      BY <2>2, <3>2, <3>3, <3>4, HeldCard, DependFinite
  <2>4. CASE q # p
    <3>1. DependOn(q)' = DependOn(q)
      BY <1>1, <1>4, <2>4 DEF DependOn
    <3>2. plist_rc'[q] = plist_rc[q]
      BY <1>0, <1>2, <2>4 DEF ListTypes
    <3>3. QED
      BY <1>0, <2>2, <3>1, <3>2 DEF PlistCounted
  <2>5. QED
    BY <2>3, <2>4
<1>6. TagsMatchList'
  BY <1>0, <1>4 DEF TagsMatchList
<1>7. QED
  BY <1>3, <1>5, <1>6 DEF ListInv

(* Destroying a channel takes its reference away                           *)
LEMMA DestroyChanList ==
  ASSUME ListInv, NEW b \in Bc, DestroyChan(b)
  PROVE  ListInv'
<1>0. ListTypes /\ PlistCounted /\ TagsMatchList
  BY DEF ListInv
<1>1. PICK p \in Plist : p = bc[b].plist
  BY <1>0 DEF DestroyChan, ListTypes, LiveBc, Live, NoBc, FreedBc
<1>2. /\ bc' = [bc EXCEPT ![b] = FreedBc] /\ Live(b)
      /\ plist_rc' = [plist_rc EXCEPT ![p] = @ - 1]
      /\ UNCHANGED <<members, held, created>>
  BY <1>1 DEF DestroyChan, FreedBc
<1>3. \A o \in Bc : /\ o # b => bc'[o] = bc[o] /\ (Live(o)' <=> Live(o))
                    /\ o = b => bc'[o] = FreedBc /\ ~ Live(o)'
  BY <1>0, <1>2 DEF ListTypes, Live, FreedBc, NoBc
<1>4. /\ Cardinality(DependOn(p)') \in Nat
      /\ Cardinality(DependOn(p)) = Cardinality(DependOn(p)') + 1
  <2>1. b \in DependOn(p) /\ DependOn(p)' = DependOn(p) \ {b}
    BY <1>1, <1>2, <1>3 DEF DependOn
  <2>2. QED
    BY <2>1, DependFinite, OneLess
<1>5. plist_rc[p] = Cardinality(held \cap {p}) + Cardinality(DependOn(p))
  BY <1>0 DEF PlistCounted
<1>6. plist_rc[p] - 1 \in Nat
  BY <1>4, <1>5, HeldCard
<1>7. ListTypes'
  <2>1. plist_rc' \in [Plist -> Nat]
    BY <1>0, <1>2, <1>6 DEF ListTypes
  <2>2. bc' \in [Bc -> LiveBc \cup {NoBc, FreedBc}]
    BY <1>0, <1>2 DEF ListTypes
  <2>3. bc[b] # NoBc /\ FreedBc # NoBc
    BY <1>2 DEF Live, FreedBc, NoBc
  <2>4. QED
    BY <1>0, <1>2, <1>3, <2>1, <2>2, <2>3 DEF ListTypes
<1>8. PlistCounted'
  <2>1. SUFFICES ASSUME NEW q \in Plist
                 PROVE  plist_rc'[q] = Cardinality(held' \cap {q}) + Cardinality(DependOn(q)')
    BY DEF PlistCounted
  <2>2. CASE q = p
    <3>1. plist_rc'[q] = plist_rc[q] - 1 /\ held' \cap {q} = held \cap {q}
      BY <1>0, <1>2, <2>2 DEF ListTypes
    <3>2. QED
      BY <1>4, <1>5, <2>2, <3>1, HeldCard
  <2>3. CASE q # p
    <3>1. DependOn(q)' = DependOn(q)
      BY <1>1, <1>3, <2>3 DEF DependOn
    <3>2. plist_rc'[q] = plist_rc[q] /\ held' \cap {q} = held \cap {q}
      BY <1>0, <1>2, <2>3 DEF ListTypes
    <3>3. QED
      BY <1>0, <3>1, <3>2 DEF PlistCounted
  <2>4. QED
    BY <2>2, <2>3
<1>9. TagsMatchList'
  BY <1>0, <1>2, <1>3 DEF TagsMatchList
<1>10. QED
  BY <1>7, <1>8, <1>9 DEF ListInv

(* The list is set only while no channel depends on it                     *)
LEMMA SetPlistList ==
  ASSUME ListInv, NEW p \in Plist, NEW old \in Remote, NEW new \in Remote,
         SetPlist(p, old, new)
  PROVE  ListInv'
<1>0. ListTypes /\ PlistCounted /\ TagsMatchList
  BY DEF ListInv
<1>1. /\ members' = [members EXCEPT ![p] = (@ \ {old}) \cup {new}]
      /\ UNCHANGED <<plist_rc, held, created, bc>>
      /\ p \in held /\ ~ plist_rc[p] > 1
  BY DEF SetPlist, InUse, refs
<1>2. DependOn(p) = {}
  <2>1. plist_rc[p] = 1 + Cardinality(DependOn(p))
    BY <1>0, <1>1, HeldCard DEF PlistCounted
  <2>2. QED
    BY <1>1, <2>1, DependFinite
<1>3. \A b \in Bc : Live(b) => bc[b].plist # p /\ bc[b].plist \in Plist
  BY <1>0, <1>2 DEF DependOn, ListTypes, LiveBc, Live, NoBc, FreedBc
<1>4. ListTypes'
  BY <1>0, <1>1 DEF ListTypes
<1>5. PlistCounted'
  <2>1. \A q \in Plist : DependOn(q)' = DependOn(q)
    BY <1>1 DEF DependOn, Live
  <2>2. QED
    BY <1>0, <1>1, <2>1 DEF PlistCounted
<1>6. TagsMatchList'
  BY <1>0, <1>1, <1>3 DEF TagsMatchList, ListTypes, Live
<1>7. QED
  BY <1>4, <1>5, <1>6 DEF ListInv

(* The application lets a list or a data type go                           *)
LEMMA LetGoList ==
  ASSUME ListInv, NEW x \in held, held' = held \ {x},
         plist_rc' = IF x \in Plist THEN [plist_rc EXCEPT ![x] = @ - 1] ELSE plist_rc,
         UNCHANGED <<members, created, bc>>
  PROVE  ListInv'
<1>0. ListTypes /\ PlistCounted /\ TagsMatchList
  BY DEF ListInv
<1>1. ASSUME NEW q \in Plist
      PROVE  /\ DependOn(q)' = DependOn(q)
             /\ plist_rc[q] = Cardinality(held \cap {q}) + Cardinality(DependOn(q))
             /\ plist_rc'[q] = IF q = x THEN plist_rc[q] - 1 ELSE plist_rc[q]
             /\ held' \cap {q} = IF q = x THEN {} ELSE held \cap {q}
  BY <1>0 DEF PlistCounted, DependOn, Live, ListTypes
<1>2. \A q \in Plist : plist_rc'[q] = Cardinality(held' \cap {q}) + Cardinality(DependOn(q)')
                       /\ plist_rc'[q] \in Nat
  <2>1. TAKE q \in Plist
  <2>2. CASE q = x
    <3>1. Cardinality(held' \cap {q}) = 0
      BY <1>1, <2>2, FS_EmptySet
    <3>2. Cardinality(held \cap {q}) = 1
      BY <2>2, HeldCard
    <3>3. Cardinality(DependOn(q)) \in Nat
      BY DependFinite
    <3>4. QED
      BY <1>1, <2>2, <3>1, <3>2, <3>3
  <2>3. CASE q # x
    BY <1>0, <1>1, <2>3 DEF ListTypes
  <2>4. QED
    BY <2>2, <2>3
<1>3. PlistCounted'
  BY <1>2 DEF PlistCounted
<1>4. plist_rc' \in [Plist -> Nat]
  BY <1>0, <1>2 DEF ListTypes
<1>5. ListTypes' /\ TagsMatchList'
  BY <1>0, <1>4 DEF ListTypes, TagsMatchList, Live
<1>6. QED
  BY <1>3, <1>5 DEF ListInv

(* Steps that leave the lists and the branching channels alone             *)
LEMMA SameList ==
  ASSUME ListInv, UNCHANGED <<plist_rc, members, held, created, bc>>
  PROVE  ListInv'
BY DEF ListInv, ListTypes, PlistCounted, TagsMatchList, DependOn, Live

LEMMA StepList == ListInv /\ [Next]_vars => ListInv'
<1> SUFFICES ASSUME ListInv, [Next]_vars
             PROVE  ListInv'
  OBVIOUS
<1>1. ASSUME NEW p \in Plist, NEW d \in Dtype, NEW role \in {"pipe", "shared"},
             CreateSink(p, d, role)
      PROVE  ListInv'
  BY <1>1, NewBcList DEF CreateSink
<1>2. ASSUME NEW p \in Plist, NEW d \in Dtype, CreateSource(p, d)
      PROVE  ListInv'
  BY <1>2, NewBcList DEF CreateSource
<1>3. ASSUME NEW b \in Bc, DestroyChan(b)
      PROVE  ListInv'
  BY <1>3, DestroyChanList
<1>4. ASSUME NEW d \in Dtype, DestroyDtype(d)
      PROVE  ListInv'
  <2>1. d \notin Plist
    OBVIOUS
  <2>2. QED
    BY <1>4, <2>1, LetGoList DEF DestroyDtype
<1>5. ASSUME NEW p \in Plist, DestroyPlist(p)
      PROVE  ListInv'
  BY <1>5, LetGoList DEF DestroyPlist
<1>6. ASSUME NEW p \in Plist, NEW old \in Remote, NEW new \in Remote, SetPlist(p, old, new)
      PROVE  ListInv'
  BY <1>6, SetPlistList
<1>7. ASSUME NEW r \in Remote,
             InsertLink(r) \/ KillPipe(r) \/ KillRead(r) \/ KillWrite(r) \/ KillTest(r)
      PROVE  ListInv'
  <2>1. UNCHANGED <<plist_rc, members, held, created, bc>>
    BY <1>7 DEF InsertLink, KillPipe, KillRead, KillWrite, KillTest, refs
  <2>2. QED
    BY <2>1, SameList
<1>8. CASE UNCHANGED vars
  BY <1>8, SameList DEF vars
<1>9. QED
  BY <1>1, <1>2, <1>3, <1>4, <1>5, <1>6, <1>7, <1>8 DEF Next

(* Whatever the blocks malloc returns and however KILLs race, the lists    *)
(* are counted right, and the tags of a channel in use go with its list.   *)
THEOREM ListsCounted == Spec => []ListInv
BY InitList, StepList, PTL DEF Spec

(* The tags part of it is what branch.c indexes by                         *)
THEOREM TagsFollowList == Spec => []TagsMatchList
<1>1. ListInv => TagsMatchList
  BY DEF ListInv
<1>2. QED
  BY <1>1, ListsCounted, PTL

-----------------------------------------------------------------------------
(* A set of remotes is finite                                              *)
LEMMA RemoteSets ==
  ASSUME NEW S \in SUBSET Remote
  PROVE  /\ IsFiniteSet(S)
         /\ Cardinality(S) \in 0 .. Cardinality(Remote)
         /\ Cardinality(S) = 0 <=> S = {}
<1>1. IsFiniteSet(S) /\ Cardinality(S) <= Cardinality(Remote)
  BY FS_Subset
<1>2. Cardinality(S) \in Nat /\ Cardinality(Remote) \in Nat
  BY <1>1, FS_CardinalityType
<1>3. QED
  BY <1>1, <1>2, FS_EmptySet

LEMMA UsersType ==
  ASSUME BlockTypes, NEW a
  PROVE  Users(a) \in SUBSET Remote
BY DEF BlockTypes, Users, NewLinks

(* What a branching channel in use consists of                             *)
LEMMA LiveTypes ==
  ASSUME ListInv, NEW b \in Bc, Live(b)
  PROVE  /\ bc[b].block \in Block /\ bc[b].made_of \in Dtype
         /\ bc[b].mode \in {"producer", "consumer"}
BY DEF ListInv, ListTypes, LiveBc, Live, NoBc, FreedBc

(* A block that is not free for malloc has no user and no KILL             *)
LEMMA FreshUnused ==
  ASSUME ~ EarlyReuse, ListInv, ChannelInv, NEW a \in Block, Fresh(a)
  PROVE  /\ channel[a].state # "live"
         /\ \A b \in Bc : Live(b) => bc[b].block # a
         /\ Users(a) = {}
         /\ \A r \in Remote : kill[r] # NoKill => kill[r].block # a
BY DEF Fresh, ChannelInv, UsersCounted, KillsAlone

(* A step that leaves the KILLs alone leaves what they owe                 *)
LEMMA OwedSame ==
  ASSUME kill' = kill, NEW a
  PROVE  Owed(a)' = Owed(a)
BY DEF Owed

(* A link is taken out of its entry                                        *)
LEMMA LinkTaken ==
  ASSUME ListInv, ChannelInv, NEW r \in Remote, NEW link \in entry[r],
         entry' = [entry EXCEPT ![r] = @ \ {link}], UNCHANGED <<bc, created, inserting>>
  PROVE  /\ link \in Block /\ channel[link].state = "live" /\ channel[link].role # "source"
         /\ r \in Users(link) /\ Users(link)' = Users(link) \ {r}
         /\ \A x \in Block \ {link} : Users(x)' = Users(x)
         /\ Inserting'
         /\ entry' \in [Remote -> SUBSET Block]
<1>0. BlockTypes /\ Inserting /\ UsersCounted
  BY DEF ChannelInv
<1>1. link \in Block /\ r \in Users(link)
  BY <1>0 DEF BlockTypes, Users
<1>2. channel[link].state = "live" /\ channel[link].role # "source"
  BY <1>0, <1>1 DEF UsersCounted
<1>3. \A o \in Remote : entry'[o] = IF o = r THEN entry[o] \ {link} ELSE entry[o]
  BY <1>0 DEF BlockTypes
<1>4. \A x : NewLinks(x)' = NewLinks(x)
  BY DEF NewLinks
<1>5. r \notin NewLinks(link)
  BY <1>0 DEF NewLinks, Inserting
<1>6. Users(link)' = Users(link) \ {r}
  BY <1>3, <1>4, <1>5 DEF Users
<1>7. \A x \in Block \ {link} : Users(x)' = Users(x)
  BY <1>3, <1>4 DEF Users
<1>8. Inserting'
  BY <1>0, <1>3 DEF Inserting, Live, BlockTypes
<1>9. entry' \in [Remote -> SUBSET Block]
  BY <1>0 DEF BlockTypes
<1>10. QED
  BY <1>1, <1>2, <1>6, <1>7, <1>8, <1>9

-----------------------------------------------------------------------------
(* Before any channel is created                                           *)
LEMMA InitChannel == Init => ChannelInv
<1> SUFFICES ASSUME Init
             PROVE  ChannelInv
  OBVIOUS
<1>1. /\ channel = [a \in Block |-> NoChannel] /\ bc = [b \in Bc |-> NoBc]
      /\ entry = [r \in Remote |-> {}] /\ inserting = {}
      /\ kill = [r \in Remote |-> NoKill]
  BY DEF Init
<1>2. BlockTypes
  BY <1>1 DEF BlockTypes
<1>3. \A b \in Bc : ~ Live(b)
  BY <1>1 DEF Live, NoBc
<1>4. \A a \in Block : channel[a].state = "virgin" /\ Users(a) = {}
  BY <1>1 DEF NoChannel, Users, NewLinks
<1>5. \A r \in Remote : kill[r] = NoKill
  BY <1>1
<1>6. BcBlocks /\ SourceOwned /\ Inserting /\ UsersCounted /\ KillsAlone
  BY <1>1, <1>3, <1>4, <1>5 DEF BcBlocks, SourceOwned, Inserting, UsersCounted, KillsAlone
<1>7. QED
  BY <1>2, <1>6 DEF ChannelInv

(* A new branching channel in a fresh block; the block is a source without *)
(* links, or a sink whose links are about to be inserted                   *)
LEMMA CreateChannel ==
  ASSUME ~ EarlyReuse, ListInv, ChannelInv, Idle, NEW p \in Plist, NEW d \in Dtype,
         NEW a \in Block, Fresh(a),
         NEW mode \in {"producer", "consumer"}, NewBc(mode, p, d, a),
         NEW role \in {"pipe", "shared", "source"}, NEW n \in 0 .. Cardinality(Remote),
         channel' = [channel EXCEPT ![a] = [state |-> "live", role |-> role, dtype |-> d,
                                            rc |-> n]],
         mode = "consumer" <=> role = "source",
         inserting' = IF role = "source" THEN inserting ELSE members[p],
         role = "pipe" => Cardinality(members[p]) = 1,
         role = "shared" => n = Cardinality(members[p]),
         UNCHANGED <<entry, kill>>
  PROVE  ChannelInv'
<1>0. /\ BlockTypes /\ BcBlocks /\ SourceOwned /\ Inserting /\ UsersCounted /\ KillsAlone
      /\ inserting = {}
  BY DEF ChannelInv, Idle
<1>1. /\ channel[a].state # "live" /\ Users(a) = {}
      /\ \A b \in Bc : Live(b) => bc[b].block # a
      /\ \A r \in Remote : kill[r] # NoKill => kill[r].block # a
  BY FreshUnused
<1>2. /\ created + 1 \in Bc /\ created' = created + 1 /\ ~ Live(created + 1)
      /\ bc \in [Bc -> LiveBc \cup {NoBc, FreedBc}]
  <2>1. ListTypes /\ created < NChan /\ created' = created + 1
    BY DEF ListInv, NewBc
  <2>2. created + 1 \in Bc
    BY <2>1 DEF ListTypes, Bc
  <2>3. bc[created + 1] = NoBc
    BY <2>1, <2>2 DEF ListTypes, Bc
  <2>4. QED
    BY <2>1, <2>2, <2>3 DEF ListTypes, Live, NoBc
<1>3. PICK m \in Bc : m = created + 1
  BY <1>2
<1>4. \A b \in Bc :
        /\ b # m => bc'[b] = bc[b] /\ (Live(b)' <=> Live(b))
        /\ b = m => /\ Live(b)' /\ bc'[b].block = a /\ bc'[b].mode = mode
                    /\ bc'[b].made_of = d
  BY <1>2, <1>3 DEF NewBc, Live
<1>5. created' = m /\ ~ Live(m)
  BY <1>2, <1>3
<1>6. \A x \in Block :
        channel'[x] = IF x = a THEN [state |-> "live", role |-> role, dtype |-> d, rc |-> n]
                      ELSE channel[x]
  BY <1>0 DEF BlockTypes
<1>7. members[p] \in SUBSET Remote /\ members[p] # {}
  BY DEF ListInv, ListTypes
<1>8. \A x \in Block : Users(x)' = IF x = a THEN inserting' ELSE Users(x)
  <2>1. TAKE x \in Block
  <2>2. bc'[created'].block = a
    BY <1>4, <1>5
  <2>3. Users(x) = {r \in Remote : x \in entry[r]}
    BY <1>0 DEF Users, NewLinks
  <2>4. Users(x)' = {r \in Remote : x \in entry[r]} \cup {r \in inserting' : a = x}
    BY <2>2 DEF Users, NewLinks
  <2>5. QED
    BY <1>1, <2>3, <2>4
<1>9. BlockTypes'
  <2>1. channel' \in [Block -> LiveChannel \cup {NoChannel}]
    BY <1>0 DEF BlockTypes, LiveChannel
  <2>2. QED
    BY <1>0, <1>7, <2>1 DEF BlockTypes
<1>10. BcBlocks'
  <2>1. \A b \in Bc \ {m} : Live(b)' => Live(b) /\ bc'[b] = bc[b] /\ bc[b].block \in Block
                                       /\ channel'[bc[b].block] = channel[bc[b].block]
                                       /\ bc[b].block # a
    BY <1>1, <1>4, <1>6, LiveTypes
  <2>2. \A b \in Bc : Live(b)' =>
          /\ channel'[bc'[b].block].state # "virgin"
          /\ channel'[bc'[b].block].dtype = bc'[b].made_of
          /\ bc'[b].mode = "consumer" <=> channel'[bc'[b].block].role = "source"
          /\ bc'[b].mode = "consumer" => channel'[bc'[b].block].state = "live"
    <3>1. TAKE b \in Bc
    <3>2. CASE b = m
      BY <1>4, <1>6, <3>2
    <3>3. CASE b # m
      BY <1>0, <2>1, <3>3 DEF BcBlocks
    <3>4. QED
      BY <3>2, <3>3
  <2>3. \A b, o \in Bc : Live(b)' /\ Live(o)' /\ bc'[b].block = bc'[o].block => b = o
    BY <1>0, <1>4, <2>1 DEF BcBlocks
  <2>4. QED
    BY <2>2, <2>3 DEF BcBlocks
<1>11. SourceOwned'
  <2>1. SUFFICES ASSUME NEW x \in Block, channel'[x].state = "live",
                        channel'[x].role = "source"
                 PROVE  \E b \in Bc : Live(b)' /\ bc'[b].block = x
    BY DEF SourceOwned
  <2>2. CASE x = a
    BY <1>4, <2>2
  <2>3. CASE x # a
    <3>1. PICK b \in Bc : Live(b) /\ bc[b].block = x
      BY <1>0, <1>6, <2>1, <2>3 DEF SourceOwned
    <3>2. QED
      BY <1>4, <1>5, <3>1
  <2>4. QED
    BY <2>2, <2>3
<1>12. Inserting'
  <2>1. \A r \in inserting' : r \in Remote /\ a \notin entry[r]
    BY <1>0, <1>1, <1>7 DEF Users
  <2>2. bc'[created'].block = a /\ Live(m)'
    BY <1>4, <1>5
  <2>3. QED
    BY <1>5, <2>1, <2>2 DEF Inserting
<1>13. UsersCounted'
  <2>1. SUFFICES ASSUME NEW x \in Block
                 PROVE  /\ channel'[x].state # "live" \/ channel'[x].role = "source"
                             => Users(x)' = {}
                        /\ channel'[x].state = "live" /\ channel'[x].role = "pipe" =>
                             \E r \in Remote : Users(x)' = {r}
                        /\ channel'[x].state = "live" /\ channel'[x].role = "shared" =>
                             /\ channel'[x].rc = Cardinality(Users(x)') + Owed(x)'
                             /\ Users(x)' # {} \/ \E r \in Remote : kill'[r].block = x
    BY DEF UsersCounted
  <2>2. CASE x = a
    <3>1. role = "pipe" => \E r \in Remote : members[p] = {r}
      <4>1. IsFiniteSet(members[p])
        BY <1>7, RemoteSets
      <4>2. QED
        BY <1>7, <4>1, FS_Singleton
    <3>2. Owed(x)' = 0
      <4>1. \A r \in Remote : kill[r].pc = "write" => kill[r].block # x
        BY <1>1, <2>2 DEF NoKill
      <4>2. QED
        BY <4>1 DEF Owed
    <3>3. /\ channel'[x].state = "live" /\ channel'[x].role = role /\ channel'[x].rc = n
          /\ Users(x)' = inserting'
      BY <1>6, <1>8, <2>2
    <3>4. CASE role = "source"
      BY <1>0, <3>3, <3>4
    <3>5. CASE role = "pipe"
      BY <3>1, <3>3, <3>5
    <3>6. CASE role = "shared"
      <4>1. inserting' = members[p] /\ n = Cardinality(members[p]) /\ n + 0 = n
        BY <3>6, <1>7, RemoteSets
      <4>2. QED
        BY <1>7, <3>2, <3>3, <3>6, <4>1
    <3>7. QED
      BY <3>4, <3>5, <3>6
  <2>3. CASE x # a
    <3>1. Owed(x)' = Owed(x) /\ Users(x)' = Users(x) /\ channel'[x] = channel[x]
      BY <1>6, <1>8, <2>3, OwedSame
    <3>2. QED
      BY <1>0, <3>1 DEF UsersCounted
  <2>4. QED
    BY <2>2, <2>3
<1>14. KillsAlone'
  <2>1. \A r \in Remote : kill[r] # NoKill => kill[r].block \in Block /\ kill[r].block # a
    BY <1>0, <1>1 DEF BlockTypes, Killing
  <2>2. QED
    BY <1>0, <1>6, <2>1 DEF KillsAlone
<1>15. QED
  BY <1>9, <1>10, <1>11, <1>12, <1>13, <1>14 DEF ChannelInv

(* A link is inserted: the channel has the same users                      *)
LEMMA InsertLinkChannel ==
  ASSUME ListInv, ChannelInv, NEW r \in Remote, InsertLink(r)
  PROVE  ChannelInv'
<1>0. /\ BlockTypes /\ BcBlocks /\ SourceOwned /\ Inserting /\ UsersCounted /\ KillsAlone
  BY DEF ChannelInv
<1>1. /\ r \in inserting /\ inserting' = inserting \ {r}
      /\ entry' = [entry EXCEPT ![r] = @ \cup {bc[created].block}]
      /\ UNCHANGED <<created, bc, channel, kill>>
  BY DEF InsertLink
<1>2. created \in Bc /\ Live(created) /\ bc[created].block \in Block
  BY <1>0, <1>1, LiveTypes DEF Inserting
<1>3. \A o \in Remote :
        entry'[o] = IF o = r THEN entry[o] \cup {bc[created].block} ELSE entry[o]
  BY <1>0, <1>1 DEF BlockTypes
<1>4. \A x \in Block : Users(x)' = Users(x)
  BY <1>0, <1>1, <1>3 DEF Users, NewLinks, BlockTypes
<1>5. BlockTypes'
  BY <1>0, <1>1, <1>2 DEF BlockTypes
<1>6. BcBlocks' /\ SourceOwned' /\ KillsAlone'
  BY <1>0, <1>1 DEF BcBlocks, SourceOwned, KillsAlone, Live
<1>7. Inserting'
  BY <1>0, <1>1, <1>2, <1>3 DEF Inserting, Live, BlockTypes
<1>8. UsersCounted'
  BY <1>0, <1>1, <1>4, OwedSame DEF UsersCounted
<1>9. QED
  BY <1>5, <1>6, <1>7, <1>8 DEF ChannelInv

(* The application destroys a branching channel: the block of a source     *)
(* goes with it, that of a sink stays for its links                        *)
LEMMA DestroyChannel ==
  ASSUME ListInv, ChannelInv, NEW b \in Bc, DestroyChan(b)
  PROVE  ChannelInv'
<1>0. /\ BlockTypes /\ BcBlocks /\ SourceOwned /\ Inserting /\ UsersCounted /\ KillsAlone
  BY DEF ChannelInv
<1>1. PICK a \in Block : a = bc[b].block
  BY LiveTypes DEF DestroyChan
<1>2. /\ inserting = {} /\ Live(b) /\ bc' = [bc EXCEPT ![b] = FreedBc]
      /\ channel' = IF bc[b].mode = "consumer"
                      THEN [channel EXCEPT ![a].state = "freed"] ELSE channel
      /\ UNCHANGED <<created, entry, inserting, kill>>
  BY <1>1 DEF DestroyChan, Idle, links, FreedBc
<1>3. \A o \in Bc : /\ o # b => bc'[o] = bc[o] /\ (Live(o)' <=> Live(o))
                    /\ o = b => ~ Live(o)'
  <2>1. bc \in [Bc -> LiveBc \cup {NoBc, FreedBc}]
    BY DEF ListInv, ListTypes
  <2>2. QED
    BY <1>2, <2>1 DEF Live, FreedBc, NoBc
<1>4. bc[b].mode = "consumer" <=> channel[a].role = "source"
  BY <1>0, <1>1, <1>2 DEF BcBlocks
<1>5. \A x \in Block : /\ x # a => channel'[x] = channel[x]
                       /\ channel'[x].role = channel[x].role
                       /\ channel[x].role # "source" => channel'[x] = channel[x]
                       /\ channel'[x].state = "live" => channel'[x] = channel[x]
  <2>1. CASE bc[b].mode = "consumer"
    <3>1. channel[a] \in LiveChannel
      BY <1>0, <1>1, <1>2 DEF BlockTypes, BcBlocks, NoChannel
    <3>2. channel' = [channel EXCEPT ![a].state = "freed"]
      BY <1>2, <2>1
    <3>3. \A x \in Block : x # a => channel'[x] = channel[x]
      BY <1>0, <3>2 DEF BlockTypes
    <3>4. channel'[a].state = "freed" /\ channel'[a].role = channel[a].role
      BY <1>0, <3>1, <3>2 DEF BlockTypes, LiveChannel
    <3>5. QED
      BY <1>4, <2>1, <3>3, <3>4
  <2>2. CASE bc[b].mode # "consumer"
    BY <1>2, <2>2
  <2>3. QED
    BY <2>1, <2>2
<1>6. BlockTypes'
  <2>1. channel' \in [Block -> LiveChannel \cup {NoChannel}]
    <3>1. channel[a] \in LiveChannel
      BY <1>0, <1>1, <1>2 DEF BlockTypes, BcBlocks, NoChannel
    <3>2. [channel[a] EXCEPT !.state = "freed"] \in LiveChannel
      BY <3>1 DEF LiveChannel
    <3>3. QED
      BY <1>0, <1>2, <3>2 DEF BlockTypes
  <2>2. QED
    BY <1>0, <1>2, <2>1 DEF BlockTypes
<1>7. BcBlocks'
  <2>1. \A o \in Bc : Live(o)' => /\ o # b /\ Live(o) /\ bc'[o] = bc[o]
                                  /\ bc[o].block \in Block /\ bc[o].block # a
    BY <1>0, <1>1, <1>2, <1>3, LiveTypes DEF BcBlocks
  <2>2. \A o \in Bc : Live(o)' => channel'[bc[o].block] = channel[bc[o].block]
    BY <1>5, <2>1
  <2>3. QED
    BY <1>0, <2>1, <2>2 DEF BcBlocks
<1>8. SourceOwned'
  <2>1. SUFFICES ASSUME NEW x \in Block, channel'[x].state = "live",
                        channel'[x].role = "source"
                 PROVE  \E o \in Bc : Live(o)' /\ bc'[o].block = x
    BY DEF SourceOwned
  <2>2. channel[x].state = "live" /\ channel[x].role = "source"
    BY <1>5, <2>1
  <2>3. PICK o \in Bc : Live(o) /\ bc[o].block = x
    BY <1>0, <2>2 DEF SourceOwned
  <2>4. o # b
    <3>1. SUFFICES ASSUME o = b
                   PROVE  FALSE
      OBVIOUS
    <3>2. x = a /\ bc[b].mode = "consumer"
      BY <1>1, <1>4, <2>2, <2>3, <3>1
    <3>3. channel'[a].state = "freed"
      BY <1>0, <1>2, <3>2 DEF BlockTypes
    <3>4. QED
      BY <2>1, <3>2, <3>3
  <2>5. QED
    BY <1>3, <2>3, <2>4
<1>9. Inserting'
  BY <1>2 DEF Inserting
<1>10. UsersCounted'
  <2>1. \A x \in Block : Users(x)' = Users(x) /\ Owed(x)' = Owed(x)
    BY <1>2, OwedSame DEF Users, NewLinks
  <2>2. \A x \in Block : channel[x].role = "source" => Users(x) = {}
    BY <1>0 DEF UsersCounted
  <2>3. SUFFICES ASSUME NEW x \in Block
                 PROVE  /\ channel'[x].state # "live" \/ channel'[x].role = "source"
                             => Users(x) = {}
                        /\ channel'[x].state = "live" /\ channel'[x].role = "pipe" =>
                             \E r \in Remote : Users(x) = {r}
                        /\ channel'[x].state = "live" /\ channel'[x].role = "shared" =>
                             /\ channel'[x].rc = Cardinality(Users(x)) + Owed(x)
                             /\ Users(x) # {} \/ \E r \in Remote : kill[r].block = x
    BY <1>2, <2>1 DEF UsersCounted
  <2>4. CASE channel[x].role = "source"
    BY <1>5, <2>2, <2>4
  <2>5. CASE channel[x].role # "source"
    <3>1. channel'[x] = channel[x]
      BY <1>5, <2>5
    <3>2. QED
      BY <1>0, <3>1 DEF UsersCounted
  <2>6. QED
    BY <2>4, <2>5
<1>11. KillsAlone'
  <2>1. \A r \in Remote : kill[r] # NoKill => /\ kill[r].block \in Block
                                              /\ channel[kill[r].block].role = "shared"
    BY <1>0 DEF BlockTypes, Killing, KillsAlone
  <2>2. \A r \in Remote : kill[r] # NoKill =>
                            channel'[kill[r].block] = channel[kill[r].block]
    BY <1>5, <2>1
  <2>3. \A r \in Remote : kill[r] # NoKill =>
          /\ channel[kill[r].block].state = "live"
          /\ channel[kill[r].block].role = "shared"
          /\ channel[kill[r].block].rc = kill[r].rc
    BY <1>0 DEF KillsAlone
  <2>4. kill' = kill
    BY <1>2
  <2>5. \A r, o \in Remote : kill'[r] # NoKill /\ kill'[o].block = kill'[r].block => r = o
    BY <1>0, <2>4 DEF KillsAlone
  <2>6. \A r \in Remote : kill'[r] # NoKill =>
          /\ channel'[kill'[r].block].state = "live"
          /\ channel'[kill'[r].block].role = "shared"
          /\ channel'[kill'[r].block].rc = kill'[r].rc
    BY <2>2, <2>3, <2>4
  <2>7. QED
    BY <2>5, <2>6 DEF KillsAlone
<1>12. QED
  BY <1>6, <1>7, <1>8, <1>9, <1>10, <1>11 DEF ChannelInv

-----------------------------------------------------------------------------
(* A block that is no source changes, but for its role and data type: what *)
(* the branching channels see of it stays                                  *)
LEMMA SinkChanged ==
  ASSUME ListInv, ChannelInv, NEW a \in Block, channel[a].state = "live",
         channel[a].role # "source", NEW s \in {"live", "freed"},
         NEW n \in 0 .. Cardinality(Remote),
         channel' = [channel EXCEPT ![a].state = s, ![a].rc = n], UNCHANGED bc
  PROVE  /\ channel' \in [Block -> LiveChannel \cup {NoChannel}]
         /\ \A x \in Block \ {a} : channel'[x] = channel[x]
         /\ channel'[a].state = s /\ channel'[a].rc = n
         /\ channel'[a].role = channel[a].role /\ channel'[a].dtype = channel[a].dtype
         /\ BcBlocks' /\ SourceOwned'
<1>0. BlockTypes /\ BcBlocks /\ SourceOwned
  BY DEF ChannelInv
<1>1. channel[a] \in LiveChannel
  BY <1>0 DEF BlockTypes, NoChannel
<1>2. /\ channel'[a].state = s /\ channel'[a].rc = n
      /\ channel'[a].role = channel[a].role /\ channel'[a].dtype = channel[a].dtype
  BY <1>0, <1>1 DEF BlockTypes, LiveChannel
<1>3. \A x \in Block \ {a} : channel'[x] = channel[x]
  BY <1>0 DEF BlockTypes
<1>4. channel' \in [Block -> LiveChannel \cup {NoChannel}]
  <2>1. [channel[a] EXCEPT !.state = s, !.rc = n] \in LiveChannel
    BY <1>1 DEF LiveChannel
  <2>2. QED
    BY <1>0, <2>1 DEF BlockTypes
<1>5. BcBlocks'
  <2>1. SUFFICES ASSUME NEW b \in Bc, Live(b)
                 PROVE  /\ channel'[bc[b].block].state # "virgin"
                        /\ channel'[bc[b].block].dtype = bc[b].made_of
                        /\ bc[b].mode = "consumer" <=> channel'[bc[b].block].role = "source"
                        /\ bc[b].mode = "consumer" => channel'[bc[b].block].state = "live"
    BY <1>0 DEF BcBlocks, Live
  <2>2. /\ channel[bc[b].block].state # "virgin"
        /\ channel[bc[b].block].dtype = bc[b].made_of
        /\ bc[b].mode = "consumer" <=> channel[bc[b].block].role = "source"
        /\ bc[b].mode = "consumer" => channel[bc[b].block].state = "live"
    BY <1>0, <2>1 DEF BcBlocks
  <2>3. CASE bc[b].block = a
    BY <1>2, <2>2, <2>3
  <2>4. CASE bc[b].block # a
    <3>1. channel'[bc[b].block] = channel[bc[b].block]
      BY <1>3, <2>1, <2>4, LiveTypes
    <3>2. QED
      BY <2>2, <3>1
  <2>5. QED
    BY <2>3, <2>4
<1>6. SourceOwned'
  <2>1. SUFFICES ASSUME NEW x \in Block, channel'[x].state = "live",
                        channel'[x].role = "source"
                 PROVE  \E b \in Bc : Live(b) /\ bc[b].block = x
    BY DEF SourceOwned, Live
  <2>2. x # a
    BY <1>2, <2>1
  <2>3. channel'[x] = channel[x]
    BY <1>3, <2>2
  <2>4. QED
    BY <1>0, <2>1, <2>3 DEF SourceOwned
<1>7. QED
  BY <1>2, <1>3, <1>4, <1>5, <1>6

(* What is freed keeps its count                                           *)
LEMMA FreeIs ==
  ASSUME BlockTypes, NEW a \in Block, channel[a].state = "live",
         channel' = [channel EXCEPT ![a].state = "freed"]
  PROVE  /\ channel[a].rc \in 0 .. Cardinality(Remote)
         /\ channel' = [channel EXCEPT ![a].state = "freed", ![a].rc = channel[a].rc]
<1>1. channel[a] \in LiveChannel
  BY DEF BlockTypes, NoChannel
<1>2. [channel[a] EXCEPT !.state = "freed"]
        = [channel[a] EXCEPT !.state = "freed", !.rc = channel[a].rc]
  BY <1>1 DEF LiveChannel
<1>3. channel[a].rc \in 0 .. Cardinality(Remote)
  BY <1>1 DEF LiveChannel
<1>4. QED
  BY <1>2, <1>3 DEF BlockTypes

(* What is counted stays alive                                             *)
LEMMA CountIs ==
  ASSUME BlockTypes, NEW a \in Block, channel[a].state = "live", NEW n,
         channel' = [channel EXCEPT ![a].rc = n]
  PROVE  channel' = [channel EXCEPT ![a].state = "live", ![a].rc = n]
<1>1. channel[a] \in LiveChannel
  BY DEF BlockTypes, NoChannel
<1>2. [channel[a] EXCEPT !.rc = n] = [channel[a] EXCEPT !.state = "live", !.rc = n]
  BY <1>1 DEF LiveChannel
<1>3. QED
  BY <1>2 DEF BlockTypes

(* A pipe goes with its one link                                           *)
LEMMA KillPipeChannel ==
  ASSUME ListInv, ChannelInv, NEW r \in Remote, KillPipe(r)
  PROVE  ChannelInv'
<1>0. /\ BlockTypes /\ BcBlocks /\ SourceOwned /\ Inserting /\ UsersCounted /\ KillsAlone
  BY DEF ChannelInv
<1>1. PICK a \in entry[r] : /\ channel[a].role = "pipe"
                            /\ entry' = [entry EXCEPT ![r] = @ \ {a}]
                            /\ channel' = [channel EXCEPT ![a].state = "freed"]
  BY DEF KillPipe, Unlinked, Free
<1>2. UNCHANGED <<created, bc, inserting, kill>>
  BY DEF KillPipe
<1>3. /\ a \in Block /\ channel[a].state = "live" /\ channel[a].role # "source"
      /\ r \in Users(a) /\ Users(a)' = Users(a) \ {r}
      /\ \A x \in Block \ {a} : Users(x)' = Users(x)
      /\ Inserting' /\ entry' \in [Remote -> SUBSET Block]
  BY <1>1, <1>2, LinkTaken
<1>4. PICK n \in 0 .. Cardinality(Remote) :
        channel' = [channel EXCEPT ![a].state = "freed", ![a].rc = n]
  BY <1>0, <1>1, <1>3, FreeIs
<1>5. /\ channel' \in [Block -> LiveChannel \cup {NoChannel}]
      /\ \A x \in Block \ {a} : channel'[x] = channel[x]
      /\ channel'[a].state = "freed"
      /\ BcBlocks' /\ SourceOwned'
  BY <1>2, <1>3, <1>4, SinkChanged
<1>6. BlockTypes'
  BY <1>0, <1>2, <1>3, <1>5 DEF BlockTypes
<1>7. UsersCounted'
  <2>1. SUFFICES ASSUME NEW x \in Block
                 PROVE  /\ channel'[x].state # "live" \/ channel'[x].role = "source"
                             => Users(x)' = {}
                        /\ channel'[x].state = "live" /\ channel'[x].role = "pipe" =>
                             \E o \in Remote : Users(x)' = {o}
                        /\ channel'[x].state = "live" /\ channel'[x].role = "shared" =>
                             /\ channel'[x].rc = Cardinality(Users(x)') + Owed(x)'
                             /\ Users(x)' # {} \/ \E o \in Remote : kill'[o].block = x
    BY DEF UsersCounted
  <2>2. CASE x = a
    <3>1. \E o \in Remote : Users(a) = {o}
      BY <1>0, <1>1, <1>3 DEF UsersCounted
    <3>2. Users(a)' = {}
      BY <1>3, <3>1
    <3>3. QED
      BY <1>5, <2>2, <3>2
  <2>3. CASE x # a
    <3>1. channel'[x] = channel[x] /\ Users(x)' = Users(x) /\ Owed(x)' = Owed(x)
      BY <1>2, <1>3, <1>5, <2>3, OwedSame
    <3>2. QED
      BY <1>0, <1>2, <3>1 DEF UsersCounted
  <2>4. QED
    BY <2>2, <2>3
<1>8. KillsAlone'
  <2>1. \A o \in Remote : kill[o] # NoKill => kill[o].block \in Block /\ kill[o].block # a
    BY <1>0, <1>1 DEF BlockTypes, Killing, KillsAlone
  <2>2. \A o \in Remote : kill[o] # NoKill =>
                            channel'[kill[o].block] = channel[kill[o].block]
    BY <1>5, <2>1
  <2>3. QED
    BY <1>0, <1>2, <2>2 DEF KillsAlone
<1>9. QED
  BY <1>3, <1>5, <1>6, <1>7, <1>8 DEF ChannelInv

(* A KILL of a shared channel begins: the link is gone, and owed           *)
LEMMA KillReadChannel ==
  ASSUME OneKill, ListInv, ChannelInv, NEW r \in Remote, KillRead(r)
  PROVE  ChannelInv'
<1>0. /\ BlockTypes /\ BcBlocks /\ SourceOwned /\ Inserting /\ UsersCounted /\ KillsAlone
  BY DEF ChannelInv
<1>1. PICK a \in entry[r] :
        /\ channel[a].role = "shared"
        /\ \A o \in Remote : kill[o].block # a
        /\ entry' = [entry EXCEPT ![r] = @ \ {a}]
        /\ kill' = [kill EXCEPT ![r] = [pc |-> "write", block |-> a, rc |-> channel[a].rc]]
  BY DEF KillRead, Unlinked
<1>2. UNCHANGED <<created, bc, channel, inserting>> /\ kill[r].pc = "idle"
  BY DEF KillRead, Unlinked
<1>3. /\ a \in Block /\ channel[a].state = "live"
      /\ r \in Users(a) /\ Users(a)' = Users(a) \ {r}
      /\ \A x \in Block \ {a} : Users(x)' = Users(x)
      /\ Inserting' /\ entry' \in [Remote -> SUBSET Block]
  BY <1>1, <1>2, LinkTaken
<1>4. channel[a].rc \in 0 .. Cardinality(Remote)
  BY <1>0, <1>3 DEF BlockTypes, LiveChannel, NoChannel
<1>5. \A o \in Remote : kill'[o] = IF o = r THEN [pc |-> "write", block |-> a,
                                                  rc |-> channel[a].rc]
                                   ELSE kill[o]
  BY <1>0, <1>1 DEF BlockTypes
<1>6. BlockTypes'
  <2>1. [pc |-> "write", block |-> a, rc |-> channel[a].rc] \in Killing
    BY <1>3, <1>4 DEF Killing
  <2>2. kill' \in [Remote -> Killing \cup {NoKill}]
    BY <1>0, <1>1, <2>1 DEF BlockTypes
  <2>3. QED
    BY <1>0, <1>2, <1>3, <2>2 DEF BlockTypes
<1>7. BcBlocks' /\ SourceOwned'
  BY <1>0, <1>2 DEF BcBlocks, SourceOwned, Live
<1>8. Owed(a) = 0 /\ Owed(a)' = 1 /\ \A x \in Block \ {a} : Owed(x)' = Owed(x)
  <2>1. Owed(a) = 0
    BY <1>1 DEF Owed
  <2>2. Owed(a)' = 1
    BY <1>5 DEF Owed
  <2>3. ASSUME NEW x \in Block \ {a}
        PROVE  Owed(x)' = Owed(x)
    <3>1. \A o \in Remote : kill'[o].pc = "write" /\ kill'[o].block = x
                              <=> kill[o].pc = "write" /\ kill[o].block = x
      BY <1>2, <1>5
    <3>2. QED
      BY <3>1 DEF Owed
  <2>4. QED
    BY <2>1, <2>2, <2>3
<1>9. UsersCounted'
  <2>1. SUFFICES ASSUME NEW x \in Block
                 PROVE  /\ channel[x].state # "live" \/ channel[x].role = "source"
                             => Users(x)' = {}
                        /\ channel[x].state = "live" /\ channel[x].role = "pipe" =>
                             \E o \in Remote : Users(x)' = {o}
                        /\ channel[x].state = "live" /\ channel[x].role = "shared" =>
                             /\ channel[x].rc = Cardinality(Users(x)') + Owed(x)'
                             /\ Users(x)' # {} \/ \E o \in Remote : kill'[o].block = x
    BY <1>2 DEF UsersCounted
  <2>2. CASE x = a
    <3>1. channel[a].rc = Cardinality(Users(a)) + 0
      BY <1>0, <1>1, <1>3, <1>8 DEF UsersCounted
    <3>2. IsFiniteSet(Users(a))
      BY <1>0, UsersType, RemoteSets
    <3>3. /\ Cardinality(Users(a)') \in Nat
          /\ Cardinality(Users(a)) = Cardinality(Users(a)') + 1
      BY <1>3, <3>2, OneLess
    <3>4. kill'[r].block = a
      BY <1>5
    <3>5. channel[a].rc = Cardinality(Users(a)') + 1
      BY <3>1, <3>3
    <3>6. QED
      BY <1>1, <1>3, <1>8, <2>2, <3>4, <3>5
  <2>3. CASE x # a
    <3>1. Users(x)' = Users(x) /\ Owed(x)' = Owed(x)
      BY <1>3, <1>8, <2>3
    <3>2. \A o \in Remote : kill[o].block = x => kill'[o].block = x
      BY <1>0, <1>2, <1>5 DEF BlockTypes, NoKill, Killing
    <3>3. QED
      BY <1>0, <3>1, <3>2 DEF UsersCounted
  <2>4. QED
    BY <2>2, <2>3
<1>10. KillsAlone'
  <2>1. \A o \in Remote : kill'[o] # NoKill =>
          /\ channel[kill'[o].block].state = "live"
          /\ channel[kill'[o].block].role = "shared"
          /\ channel[kill'[o].block].rc = kill'[o].rc
    BY <1>0, <1>1, <1>3, <1>5 DEF KillsAlone
  <2>2. a # NoBlock
    BY <1>3
  <2>3. ASSUME NEW o \in Remote, NEW q \in Remote, kill'[o] # NoKill,
               kill'[q].block = kill'[o].block
        PROVE  o = q
    BY <1>0, <1>1, <1>5, <2>3 DEF KillsAlone
  <2>4. QED
    BY <1>2, <2>1, <2>3 DEF KillsAlone
<1>11. QED
  BY <1>3, <1>6, <1>7, <1>9, <1>10 DEF ChannelInv

(* The count is lowered: what was owed is paid                             *)
LEMMA KillWriteChannel ==
  ASSUME ListInv, ChannelInv, NEW r \in Remote, KillWrite(r)
  PROVE  ChannelInv'
<1>0. /\ BlockTypes /\ BcBlocks /\ SourceOwned /\ Inserting /\ UsersCounted /\ KillsAlone
  BY DEF ChannelInv
<1>1. /\ kill[r].pc = "write" /\ kill[r] # NoKill /\ kill[r] \in Killing
      /\ UNCHANGED <<created, bc, entry, inserting>>
  BY <1>0 DEF KillWrite, BlockTypes, NoKill, links
<1>2. PICK a \in Block : a = kill[r].block
  BY <1>1 DEF Killing
<1>3. /\ channel[a].state = "live" /\ channel[a].role = "shared"
      /\ channel[a].rc = kill[r].rc
      /\ \A o \in Remote : kill[o].block = a => o = r
  BY <1>0, <1>1, <1>2 DEF KillsAlone
<1>4. /\ Owed(a) = 1
      /\ channel[a].rc = Cardinality(Users(a)) + 1
  <2>1. Owed(a) = 1
    BY <1>1, <1>2 DEF Owed
  <2>2. QED
    BY <1>0, <1>3, <2>1 DEF UsersCounted
<1>5. PICK n \in 0 .. Cardinality(Remote) : n = Cardinality(Users(a))
  BY <1>0, UsersType, RemoteSets
<1>6. /\ kill[r].rc - 1 = n
      /\ channel' = [channel EXCEPT ![a].rc = n]
      /\ kill' = [kill EXCEPT ![r].pc = "test", ![r].rc = n]
  <2>1. kill[r].rc - 1 = n
    BY <1>3, <1>4, <1>5
  <2>2. channel' = [channel EXCEPT ![a].rc = n]
    BY <1>2, <2>1 DEF KillWrite
  <2>3. kill' = [kill EXCEPT ![r].pc = "test", ![r].rc = @ - 1]
    BY DEF KillWrite
  <2>4. [kill[r] EXCEPT !.pc = "test", !.rc = @ - 1] = [kill[r] EXCEPT !.pc = "test", !.rc = n]
    BY <1>1, <2>1 DEF Killing
  <2>5. kill \in [Remote -> Killing \cup {NoKill}]
    BY <1>0 DEF BlockTypes
  <2>6. QED
    BY <2>1, <2>2, <2>3, <2>4, <2>5
<1>7. kill'[r] = [pc |-> "test", block |-> a, rc |-> n]
  BY <1>0, <1>1, <1>2, <1>6 DEF BlockTypes, Killing
<1>8. \A o \in Remote \ {r} : kill'[o] = kill[o]
  BY <1>0, <1>6 DEF BlockTypes
<1>9. /\ channel' \in [Block -> LiveChannel \cup {NoChannel}]
      /\ \A x \in Block \ {a} : channel'[x] = channel[x]
      /\ channel'[a].state = "live" /\ channel'[a].rc = n /\ channel'[a].role = "shared"
      /\ BcBlocks' /\ SourceOwned'
  <2>1. channel' = [channel EXCEPT ![a].state = "live", ![a].rc = n]
    BY <1>0, <1>3, <1>6, CountIs
  <2>2. QED
    BY <1>1, <1>3, <2>1, SinkChanged
<1>10. BlockTypes'
  <2>1. kill' \in [Remote -> Killing \cup {NoKill}]
    <3>1. kill'[r] \in Killing
      BY <1>7 DEF Killing
    <3>2. QED
      BY <1>0, <1>6, <1>8, <3>1 DEF BlockTypes
  <2>2. QED
    BY <1>0, <1>1, <1>9, <2>1 DEF BlockTypes
<1>11. Inserting'
  BY <1>0, <1>1 DEF Inserting, Live
<1>12. \A x \in Block : Users(x)' = Users(x)
  BY <1>1 DEF Users, NewLinks
<1>13. Owed(a)' = 0 /\ \A x \in Block \ {a} : Owed(x)' = Owed(x)
  <2>1. Owed(a)' = 0
    BY <1>3, <1>7, <1>8 DEF Owed
  <2>2. ASSUME NEW x \in Block \ {a}
        PROVE  Owed(x)' = Owed(x)
    <3>1. \A o \in Remote : kill'[o].pc = "write" /\ kill'[o].block = x
                              <=> kill[o].pc = "write" /\ kill[o].block = x
      BY <1>2, <1>7, <1>8
    <3>2. QED
      BY <3>1 DEF Owed
  <2>3. QED
    BY <2>1, <2>2
<1>14. \A o \in Remote : kill'[o].block = kill[o].block
  BY <1>2, <1>7, <1>8
<1>15. UsersCounted'
  <2>1. SUFFICES ASSUME NEW x \in Block
                 PROVE  /\ channel'[x].state # "live" \/ channel'[x].role = "source"
                             => Users(x) = {}
                        /\ channel'[x].state = "live" /\ channel'[x].role = "pipe" =>
                             \E o \in Remote : Users(x) = {o}
                        /\ channel'[x].state = "live" /\ channel'[x].role = "shared" =>
                             /\ channel'[x].rc = Cardinality(Users(x)) + Owed(x)'
                             /\ Users(x) # {} \/ \E o \in Remote : kill[o].block = x
    BY <1>12, <1>14 DEF UsersCounted
  <2>2. CASE x = a
    BY <1>2, <1>5, <1>9, <1>13, <2>2
  <2>3. CASE x # a
    <3>1. channel'[x] = channel[x] /\ Owed(x)' = Owed(x)
      BY <1>9, <1>13, <2>3
    <3>2. QED
      BY <1>0, <3>1 DEF UsersCounted
  <2>4. QED
    BY <2>2, <2>3
<1>16. KillsAlone'
  <2>1. ASSUME NEW o \in Remote, kill'[o] # NoKill
        PROVE  /\ channel'[kill'[o].block].state = "live"
               /\ channel'[kill'[o].block].role = "shared"
               /\ channel'[kill'[o].block].rc = kill'[o].rc
    <3>1. CASE o = r
      BY <1>7, <1>9, <3>1
    <3>2. CASE o # r
      <4>1. kill'[o] = kill[o] /\ kill[o] # NoKill /\ kill[o].block \in Block
        BY <1>0, <1>8, <2>1, <3>2 DEF BlockTypes, Killing
      <4>2. kill[o].block # a
        BY <1>3, <3>2
      <4>3. channel'[kill[o].block] = channel[kill[o].block]
        BY <1>9, <4>1, <4>2
      <4>4. QED
        BY <1>0, <4>1, <4>3 DEF KillsAlone
    <3>3. QED
      BY <3>1, <3>2
  <2>2. ASSUME NEW o \in Remote, NEW q \in Remote, kill'[o] # NoKill,
               kill'[q].block = kill'[o].block
        PROVE  o = q
    <3>1. kill[o] # NoKill
      BY <1>1, <1>8, <2>2
    <3>2. QED
      BY <1>0, <1>14, <2>2, <3>1 DEF KillsAlone
  <2>3. QED
    BY <2>1, <2>2 DEF KillsAlone
<1>17. QED
  BY <1>9, <1>10, <1>11, <1>15, <1>16 DEF ChannelInv

(* The count is tested: the channel goes with the last of its users, and   *)
(* only then                                                               *)
LEMMA KillTestChannel ==
  ASSUME ListInv, ChannelInv, NEW r \in Remote, KillTest(r)
  PROVE  /\ ChannelInv'
         /\ kill[r].block \in Block /\ channel[kill[r].block].state = "live"
         /\ channel[kill[r].block].role # "source"
<1>0. /\ BlockTypes /\ BcBlocks /\ SourceOwned /\ Inserting /\ UsersCounted /\ KillsAlone
  BY DEF ChannelInv
<1>1. /\ kill[r].pc = "test" /\ kill[r] # NoKill /\ kill[r] \in Killing
      /\ kill' = [kill EXCEPT ![r] = NoKill]
      /\ UNCHANGED <<created, bc, entry, inserting>>
  BY <1>0 DEF KillTest, BlockTypes, NoKill, links
<1>2. PICK a \in Block : a = kill[r].block
  BY <1>1 DEF Killing
<1>3. /\ channel[a].state = "live" /\ channel[a].role = "shared"
      /\ channel[a].rc = kill[r].rc
      /\ \A o \in Remote : kill[o].block = a => o = r
  BY <1>0, <1>1, <1>2 DEF KillsAlone
<1>4. \A o \in Remote : kill'[o] = IF o = r THEN NoKill ELSE kill[o]
  BY <1>0, <1>1 DEF BlockTypes
<1>5. channel[a].rc = 0 <=> Users(a) = {}
  <2>1. Owed(a) = 0
    BY <1>1, <1>3 DEF Owed
  <2>2. channel[a].rc = Cardinality(Users(a)) + 0
    BY <1>0, <1>3, <2>1 DEF UsersCounted
  <2>3. Users(a) \in SUBSET Remote
    BY <1>0, UsersType
  <2>4. QED
    BY <2>2, <2>3, RemoteSets
<1>6. \/ channel[a].rc = 0 /\ channel' = [channel EXCEPT ![a].state = "freed"]
      \/ channel[a].rc # 0 /\ channel' = channel
  BY <1>2, <1>3 DEF KillTest, Free
<1>7. \A x \in Block : Users(x)' = Users(x) /\ Owed(x)' = Owed(x)
  <2>1. \A x : Users(x)' = Users(x)
    BY <1>1 DEF Users, NewLinks
  <2>2. \A x, o : o \in Remote => (kill'[o].pc = "write" /\ kill'[o].block = x
                                     <=> kill[o].pc = "write" /\ kill[o].block = x)
    BY <1>1, <1>4 DEF NoKill
  <2>3. QED
    BY <2>1, <2>2 DEF Owed
<1>8. kill' \in [Remote -> Killing \cup {NoKill}]
  BY <1>0, <1>1 DEF BlockTypes
<1>9. Inserting'
  BY <1>0, <1>1 DEF Inserting, Live
<1>10. /\ channel' \in [Block -> LiveChannel \cup {NoChannel}]
       /\ \A x \in Block \ {a} : channel'[x] = channel[x]
       /\ \/ channel'[a] = channel[a] /\ Users(a) # {}
          \/ channel'[a].state = "freed" /\ Users(a) = {}
       /\ BcBlocks' /\ SourceOwned'
  <2>1. CASE channel[a].rc = 0
    <3>1. PICK n \in 0 .. Cardinality(Remote) :
            channel' = [channel EXCEPT ![a].state = "freed", ![a].rc = n]
      BY <1>0, <1>3, <1>6, <2>1, FreeIs
    <3>2. /\ channel' \in [Block -> LiveChannel \cup {NoChannel}]
          /\ \A x \in Block \ {a} : channel'[x] = channel[x]
          /\ channel'[a].state = "freed" /\ BcBlocks' /\ SourceOwned'
      BY <1>1, <1>3, <3>1, SinkChanged
    <3>3. QED
      BY <1>5, <2>1, <3>2
  <2>2. CASE channel[a].rc # 0
    <3>1. channel' = channel
      BY <1>6, <2>2
    <3>2. BcBlocks' /\ SourceOwned'
      BY <1>0, <1>1, <3>1 DEF BcBlocks, SourceOwned, Live
    <3>3. channel' \in [Block -> LiveChannel \cup {NoChannel}]
      BY <1>0, <3>1 DEF BlockTypes
    <3>4. Users(a) # {}
      BY <1>5, <2>2
    <3>5. QED
      BY <3>1, <3>2, <3>3, <3>4
  <2>3. QED
    BY <2>1, <2>2
<1>11. BlockTypes'
  BY <1>0, <1>1, <1>8, <1>10 DEF BlockTypes
<1>12. UsersCounted'
  <2>1. SUFFICES ASSUME NEW x \in Block
                 PROVE  /\ channel'[x].state # "live" \/ channel'[x].role = "source"
                             => Users(x) = {}
                        /\ channel'[x].state = "live" /\ channel'[x].role = "pipe" =>
                             \E o \in Remote : Users(x) = {o}
                        /\ channel'[x].state = "live" /\ channel'[x].role = "shared" =>
                             /\ channel'[x].rc = Cardinality(Users(x)) + Owed(x)
                             /\ Users(x) # {} \/ \E o \in Remote : kill'[o].block = x
    BY <1>7 DEF UsersCounted
  <2>2. CASE x = a
    BY <1>0, <1>3, <1>10, <2>2 DEF UsersCounted
  <2>3. CASE x # a
    <3>1. channel'[x] = channel[x]
      BY <1>10, <2>3
    <3>2. \A o \in Remote : kill[o].block = x => kill'[o].block = x
      BY <1>2, <1>4, <2>3
    <3>3. QED
      BY <1>0, <3>1, <3>2 DEF UsersCounted
  <2>4. QED
    BY <2>2, <2>3
<1>13. KillsAlone'
  <2>1. ASSUME NEW o \in Remote, kill'[o] # NoKill
        PROVE  /\ o # r /\ kill'[o] = kill[o] /\ kill[o] # NoKill
               /\ channel'[kill[o].block] = channel[kill[o].block]
    <3>1. o # r /\ kill'[o] = kill[o] /\ kill[o] # NoKill
      BY <1>4, <2>1
    <3>2. kill[o].block \in Block /\ kill[o].block # a
      BY <1>0, <1>3, <3>1 DEF BlockTypes, Killing
    <3>3. QED
      BY <1>10, <3>1, <3>2
  <2>2. ASSUME NEW o \in Remote, NEW q \in Remote, kill'[o] # NoKill,
               kill'[q].block = kill'[o].block
        PROVE  o = q
    <3>1. kill[o] # NoKill /\ kill[o].block \in Block /\ kill'[o] = kill[o]
      BY <1>0, <2>1, <2>2 DEF BlockTypes, Killing
    <3>2. kill'[q] = kill[q]
      BY <1>4, <2>2, <3>1 DEF NoKill
    <3>3. QED
      BY <1>0, <2>2, <3>1, <3>2 DEF KillsAlone
  <2>3. QED
    BY <1>0, <2>1, <2>2 DEF KillsAlone
<1>14. QED
  BY <1>2, <1>3, <1>9, <1>10, <1>11, <1>12, <1>13 DEF ChannelInv

-----------------------------------------------------------------------------
(* Every step keeps the links, their channels and the KILLs in order       *)
LEMMA StepChannel ==
  ASSUME OneKill, ~ EarlyReuse
  PROVE  ListInv /\ ChannelInv /\ [Next]_vars => ChannelInv'
<1> SUFFICES ASSUME ListInv, ChannelInv, [Next]_vars
             PROVE  ChannelInv'
  OBVIOUS
<1>1. ASSUME NEW p \in Plist, NEW d \in Dtype, NEW role \in {"pipe", "shared"},
             CreateSink(p, d, role)
      PROVE  ChannelInv'
  <2>1. PICK a \in Block :
          /\ Fresh(a)
          /\ channel' = [channel EXCEPT ![a] =
                           [state |-> "live", role |-> role, dtype |-> d,
                            rc |-> IF role = "pipe" THEN 0 ELSE Count(p)]]
          /\ NewBc("producer", p, d, a)
    BY <1>1 DEF CreateSink
  <2>2. members[p] \in SUBSET Remote
    BY DEF ListInv, ListTypes
  <2>3. PICK n \in 0 .. Cardinality(Remote) :
          n = IF role = "pipe" THEN 0 ELSE Cardinality(members[p])
    <3>1. Cardinality(Remote) \in Nat
      BY FS_CardinalityType
    <3>2. QED
      BY <2>2, <3>1, RemoteSets
  <2>4. /\ Idle /\ inserting' = members[p] /\ UNCHANGED <<entry, kill>>
        /\ role = "pipe" => Cardinality(members[p]) = 1
    BY <1>1 DEF CreateSink, Count
  <2>5. channel' = [channel EXCEPT ![a] = [state |-> "live", role |-> role, dtype |-> d,
                                           rc |-> n]]
    BY <2>1, <2>3 DEF Count
  <2>6. QED
    BY <2>1, <2>3, <2>4, <2>5, CreateChannel
<1>2. ASSUME NEW p \in Plist, NEW d \in Dtype, CreateSource(p, d)
      PROVE  ChannelInv'
  <2>1. PICK a \in Block :
          /\ Fresh(a)
          /\ channel' = [channel EXCEPT ![a] = [state |-> "live", role |-> "source",
                                                dtype |-> d, rc |-> 0]]
          /\ NewBc("consumer", p, d, a)
    BY <1>2 DEF CreateSource
  <2>2. 0 \in 0 .. Cardinality(Remote)
    BY FS_CardinalityType
  <2>3. Idle /\ UNCHANGED <<inserting, entry, kill>>
    BY <1>2 DEF CreateSource, links
  <2>4. QED
    BY <2>1, <2>2, <2>3, CreateChannel
<1>3. ASSUME NEW b \in Bc, DestroyChan(b)
      PROVE  ChannelInv'
  BY <1>3, DestroyChannel
<1>4. ASSUME NEW r \in Remote,
             InsertLink(r) \/ KillPipe(r) \/ KillRead(r) \/ KillWrite(r) \/ KillTest(r)
      PROVE  ChannelInv'
  BY <1>4, InsertLinkChannel, KillPipeChannel, KillReadChannel, KillWriteChannel,
     KillTestChannel
<1>5. CASE UNCHANGED <<created, bc, channel, entry, inserting, kill>>
  <2>1. BlockTypes' /\ BcBlocks' /\ SourceOwned' /\ Inserting' /\ KillsAlone'
    BY <1>5 DEF ChannelInv, BlockTypes, BcBlocks, SourceOwned, Inserting, KillsAlone, Live
  <2>2. \A a : Users(a)' = Users(a) /\ Owed(a)' = Owed(a)
    BY <1>5 DEF Users, NewLinks, Owed
  <2>3. UsersCounted'
    BY <1>5, <2>2 DEF ChannelInv, UsersCounted
  <2>4. QED
    BY <2>1, <2>3 DEF ChannelInv
<1>6. ASSUME NEW d \in Dtype, DestroyDtype(d)
      PROVE  ChannelInv'
  BY <1>5, <1>6 DEF DestroyDtype, links
<1>7. ASSUME NEW p \in Plist, DestroyPlist(p)
      PROVE  ChannelInv'
  BY <1>5, <1>7 DEF DestroyPlist, links
<1>8. ASSUME NEW p \in Plist, NEW old \in Remote, NEW new \in Remote, SetPlist(p, old, new)
      PROVE  ChannelInv'
  BY <1>5, <1>8 DEF SetPlist, links
<1>9. CASE UNCHANGED vars
  BY <1>5, <1>9 DEF vars
<1>10. QED
  BY <1>1, <1>2, <1>3, <1>4, <1>6, <1>7, <1>8, <1>9 DEF Next

-----------------------------------------------------------------------------
(* The users of a data type: branching channels and sinks                  *)
MadeOf(d)   == {b \in Bc : Live(b) /\ bc[b].made_of = d}
Counting(d) == {a \in Block : /\ channel[a].state = "live"
                              /\ channel[a].role # "source"
                              /\ channel[a].dtype = d}
DtypeUsers(d) == Cardinality(held \cap {d}) + Cardinality(MadeOf(d)) + Cardinality(Counting(d))

LEMMA DtypeSets ==
  ASSUME NEW d
  PROVE  /\ IsFiniteSet(MadeOf(d)) /\ Cardinality(MadeOf(d)) \in Nat
         /\ IsFiniteSet(Counting(d)) /\ Cardinality(Counting(d)) \in Nat
         /\ Cardinality(held \cap {d}) \in Nat
<1>1. IsFiniteSet(Bc)
  BY FS_Interval DEF Bc
<1>2. IsFiniteSet(MadeOf(d)) /\ IsFiniteSet(Counting(d))
  BY <1>1, FS_Subset DEF MadeOf, Counting
<1>3. QED
  BY <1>2, FS_CardinalityType, HeldCard

LEMMA DtypeIs ==
  /\ DtypeCounted <=> \A d \in Dtype : dtype_rc[d] = DtypeUsers(d)
  /\ DtypeCounted' <=> \A d \in Dtype : dtype_rc'[d] = DtypeUsers(d)'
BY DEF DtypeCounted, DtypeUsers, MadeOf, Counting

(* The counts are right again when one changes by as much as its users do  *)
LEMMA DtypeStep ==
  ASSUME DtypeInv, NEW d \in Dtype, NEW n, dtype_rc' = [dtype_rc EXCEPT ![d] = n],
         dtype_rc[d] = DtypeUsers(d) => n = DtypeUsers(d)' /\ n \in Nat,
         \A q \in Dtype \ {d} : DtypeUsers(q)' = DtypeUsers(q)
  PROVE  DtypeInv'
<1>1. \A q \in Dtype : dtype_rc[q] = DtypeUsers(q)
  BY DtypeIs DEF DtypeInv
<1>2. \A q \in Dtype : dtype_rc'[q] = DtypeUsers(q)' /\ dtype_rc'[q] \in Nat
  BY <1>1 DEF DtypeInv
<1>3. dtype_rc' \in [Dtype -> Nat]
  BY <1>2 DEF DtypeInv
<1>4. QED
  BY <1>2, <1>3, DtypeIs DEF DtypeInv

LEMMA DtypeSame ==
  ASSUME DtypeInv, UNCHANGED <<dtype_rc, bc>>,
         \A d \in Dtype : held' \cap {d} = held \cap {d},
         \A a \in Block : /\ channel'[a].state = channel[a].state
                          /\ channel'[a].role = channel[a].role
                          /\ channel'[a].dtype = channel[a].dtype
  PROVE  DtypeInv'
<1>1. \A d \in Dtype : DtypeUsers(d)' = DtypeUsers(d)
  BY DEF DtypeUsers, MadeOf, Counting, Live
<1>2. QED
  BY <1>1, DtypeIs DEF DtypeInv

(* Before any channel the application is the only user                     *)
LEMMA InitDtype == Init => DtypeInv
<1> SUFFICES ASSUME Init
             PROVE  DtypeInv
  OBVIOUS
<1>1. \A d \in Dtype : MadeOf(d) = {} /\ Counting(d) = {}
  BY DEF Init, MadeOf, Counting, Live, NoBc, NoChannel
<1>2. \A d \in Dtype : DtypeUsers(d) = 1
  <2>1. TAKE d \in Dtype
  <2>2. Cardinality(held \cap {d}) = 1
    BY HeldCard DEF Init
  <2>3. Cardinality(MadeOf(d)) = 0 /\ Cardinality(Counting(d)) = 0
    BY <1>1, FS_EmptySet
  <2>4. QED
    BY <2>2, <2>3 DEF DtypeUsers
<1>3. QED
  BY <1>2, DtypeIs DEF Init, DtypeInv

(* A source counts once, a sink twice                                      *)
LEMMA CreateDtype ==
  ASSUME ~ EarlyReuse, ListInv, ChannelInv, DtypeInv, NEW p \in Plist, NEW d \in Dtype,
         NEW a \in Block, Fresh(a), NEW mode, NewBc(mode, p, d, a),
         NEW role \in {"pipe", "shared", "source"}, NEW n,
         channel' = [channel EXCEPT ![a] = [state |-> "live", role |-> role, dtype |-> d,
                                            rc |-> n]],
         dtype_rc' = [dtype_rc EXCEPT ![d] = @ + (IF role = "source" THEN 1 ELSE 2)],
         held' = held
  PROVE  DtypeInv'
<1>1. channel[a].state # "live" /\ channel \in [Block -> LiveChannel \cup {NoChannel}]
  BY DEF Fresh, ChannelInv, BlockTypes
<1>2. PICK m \in Bc : /\ m = created + 1 /\ ~ Live(m)
                      /\ bc \in [Bc -> LiveBc \cup {NoBc, FreedBc}]
  <2>1. ListTypes /\ created < NChan
    BY DEF ListInv, NewBc
  <2>2. created + 1 \in Bc
    BY <2>1 DEF ListTypes, Bc
  <2>3. bc[created + 1] = NoBc
    BY <2>1, <2>2 DEF ListTypes, Bc
  <2>4. QED
    BY <2>1, <2>2, <2>3 DEF ListTypes, Live, NoBc
<1>3. \A b \in Bc : /\ b # m => bc'[b] = bc[b] /\ (Live(b)' <=> Live(b))
                    /\ b = m => Live(b)' /\ bc'[b].made_of = d
  BY <1>2 DEF NewBc, Live
<1>4. \A x \in Block :
        channel'[x] = IF x = a THEN [state |-> "live", role |-> role, dtype |-> d, rc |-> n]
                      ELSE channel[x]
  BY <1>1
<1>5. MadeOf(d)' = MadeOf(d) \cup {m} /\ m \notin MadeOf(d)
  BY <1>2, <1>3 DEF MadeOf
<1>6. Cardinality(MadeOf(d)') = Cardinality(MadeOf(d)) + 1
  BY <1>5, DtypeSets, OneMore
<1>7. Cardinality(Counting(d)')
        = Cardinality(Counting(d)) + (IF role = "source" THEN 0 ELSE 1)
  <2>1. CASE role = "source"
    <3>1. Counting(d)' = Counting(d)
      BY <1>1, <1>4, <2>1 DEF Counting
    <3>2. Cardinality(Counting(d)) \in Nat
      BY DtypeSets
    <3>3. QED
      BY <2>1, <3>1, <3>2
  <2>2. CASE role # "source"
    <3>1. Counting(d)' = Counting(d) \cup {a} /\ a \notin Counting(d)
      BY <1>1, <1>4, <2>2 DEF Counting
    <3>2. QED
      BY <2>2, <3>1, DtypeSets, OneMore
  <2>3. QED
    BY <2>1, <2>2
<1>8. \A q \in Dtype \ {d} : MadeOf(q)' = MadeOf(q) /\ Counting(q)' = Counting(q)
  BY <1>1, <1>2, <1>3, <1>4 DEF MadeOf, Counting
<1>9. PICK k \in {1, 2} : k = IF role = "source" THEN 1 ELSE 2
  OBVIOUS
<1>10. DtypeUsers(d)' = DtypeUsers(d) + k /\ DtypeUsers(d) \in Nat
  BY <1>6, <1>7, <1>9, DtypeSets DEF DtypeUsers
<1>11. \A q \in Dtype \ {d} : DtypeUsers(q)' = DtypeUsers(q)
  BY <1>8 DEF DtypeUsers
<1>12. dtype_rc' = [dtype_rc EXCEPT ![d] = dtype_rc[d] + k]
  BY <1>9
<1>13. dtype_rc[d] = DtypeUsers(d) => /\ dtype_rc[d] + k = DtypeUsers(d)'
                                      /\ dtype_rc[d] + k \in Nat
  BY <1>10
<1>14. QED
  BY <1>11, <1>12, <1>13, DtypeStep

(* A branching channel lets go of the data type it was made of, found      *)
(* through its block                                                       *)
LEMMA DestroyDtypeRef ==
  ASSUME ListInv, ChannelInv, DtypeInv, NEW b \in Bc, DestroyChan(b)
  PROVE  DtypeInv'
<1>1. /\ Live(b) /\ bc \in [Bc -> LiveBc \cup {NoBc, FreedBc}]
      /\ bc' = [bc EXCEPT ![b] = FreedBc] /\ held' = held
  BY DEF DestroyChan, ListInv, ListTypes, FreedBc
<1>2. PICK a \in Block : a = bc[b].block
  BY <1>1, LiveTypes
<1>3. PICK d \in Dtype : d = bc[b].made_of
  BY <1>1, LiveTypes
<1>4. /\ channel[a].dtype = d /\ channel[a].state # "virgin"
      /\ bc[b].mode = "consumer" => channel[a].role = "source"
      /\ channel \in [Block -> LiveChannel \cup {NoChannel}]
  BY <1>1, <1>2, <1>3 DEF ChannelInv, BcBlocks, BlockTypes
<1>5. \A x \in Block : \/ channel'[x] = channel[x]
                       \/ x = a /\ channel[a].role = "source" /\ channel'[a].role = "source"
  <2>1. channel[a] \in LiveChannel
    BY <1>4 DEF NoChannel
  <2>2. \/ channel' = [channel EXCEPT ![a].state = "freed"] /\ channel[a].role = "source"
        \/ channel' = channel
    BY <1>2, <1>4 DEF DestroyChan
  <2>3. QED
    BY <1>4, <2>1, <2>2 DEF LiveChannel
<1>6. \A q \in Dtype : Counting(q)' = Counting(q)
  BY <1>5 DEF Counting
<1>7. \A o \in Bc : /\ o # b => bc'[o] = bc[o] /\ (Live(o)' <=> Live(o))
                    /\ o = b => ~ Live(o)'
  BY <1>1 DEF Live, FreedBc, NoBc
<1>8. MadeOf(d)' = MadeOf(d) \ {b} /\ b \in MadeOf(d)
  BY <1>1, <1>3, <1>7 DEF MadeOf
<1>9. \A q \in Dtype \ {d} : MadeOf(q)' = MadeOf(q)
  BY <1>3, <1>7 DEF MadeOf
<1>10. /\ Cardinality(MadeOf(d)') \in Nat
       /\ Cardinality(MadeOf(d)) = Cardinality(MadeOf(d)') + 1
  BY <1>8, DtypeSets, OneLess
<1>11. DtypeUsers(d)' = DtypeUsers(d) - 1 /\ DtypeUsers(d) - 1 \in Nat
  BY <1>1, <1>6, <1>10, DtypeSets DEF DtypeUsers
<1>12. \A q \in Dtype \ {d} : DtypeUsers(q)' = DtypeUsers(q)
  BY <1>1, <1>6, <1>9 DEF DtypeUsers
<1>13. dtype_rc' = [dtype_rc EXCEPT ![d] = dtype_rc[d] - 1]
  BY <1>2, <1>4 DEF DestroyChan
<1>14. QED
  BY <1>11, <1>12, <1>13, DtypeStep

(* A freed channel lets go of its data type                                *)
LEMMA FreeDtype ==
  ASSUME ChannelInv, DtypeInv, NEW a \in Block, channel[a].state = "live",
         channel[a].role # "source", Free(a), UNCHANGED <<bc, held>>
  PROVE  DtypeInv'
<1>1. channel[a] \in LiveChannel /\ channel \in [Block -> LiveChannel \cup {NoChannel}]
  BY DEF ChannelInv, BlockTypes, NoChannel
<1>2. PICK d \in Dtype : d = channel[a].dtype
  BY <1>1 DEF LiveChannel
<1>3. channel'[a].state = "freed" /\ \A x \in Block \ {a} : channel'[x] = channel[x]
  BY <1>1 DEF Free, LiveChannel
<1>4. Counting(d)' = Counting(d) \ {a} /\ a \in Counting(d)
  BY <1>2, <1>3 DEF Counting
<1>5. \A q \in Dtype \ {d} : Counting(q)' = Counting(q)
  BY <1>2, <1>3 DEF Counting
<1>6. \A q \in Dtype : MadeOf(q)' = MadeOf(q)
  BY DEF MadeOf, Live
<1>7. /\ Cardinality(Counting(d)') \in Nat
      /\ Cardinality(Counting(d)) = Cardinality(Counting(d)') + 1
  BY <1>4, DtypeSets, OneLess
<1>8. DtypeUsers(d)' = DtypeUsers(d) - 1 /\ DtypeUsers(d) - 1 \in Nat
  BY <1>6, <1>7, DtypeSets DEF DtypeUsers
<1>9. \A q \in Dtype \ {d} : DtypeUsers(q)' = DtypeUsers(q)
  BY <1>5, <1>6 DEF DtypeUsers
<1>10. dtype_rc' = [dtype_rc EXCEPT ![d] = dtype_rc[d] - 1]
  BY <1>2 DEF Free
<1>11. QED
  BY <1>8, <1>9, <1>10, DtypeStep

(* The application lets go                                                 *)
LEMMA LetGoDtype ==
  ASSUME DtypeInv, NEW d \in Dtype, DestroyDtype(d)
  PROVE  DtypeInv'
<1>1. /\ d \in held /\ held' = held \ {d} /\ dtype_rc' = [dtype_rc EXCEPT ![d] = dtype_rc[d] - 1]
      /\ UNCHANGED <<bc, channel>>
  BY DEF DestroyDtype
<1>2. \A q : MadeOf(q)' = MadeOf(q) /\ Counting(q)' = Counting(q)
  BY <1>1 DEF MadeOf, Counting, Live
<1>3. Cardinality(held \cap {d}) = 1
  BY <1>1, HeldCard
<1>4. Cardinality(held' \cap {d}) = 0
  <2>1. held' \cap {d} = {}
    BY <1>1
  <2>2. QED
    BY <2>1, FS_EmptySet
<1>5. DtypeUsers(d)' = DtypeUsers(d) - 1 /\ DtypeUsers(d) - 1 \in Nat
  BY <1>2, <1>3, <1>4, DtypeSets DEF DtypeUsers
<1>6. \A q \in Dtype \ {d} : DtypeUsers(q)' = DtypeUsers(q)
  <2>1. \A q \in Dtype \ {d} : held' \cap {q} = held \cap {q}
    BY <1>1
  <2>2. QED
    BY <1>2, <2>1 DEF DtypeUsers
<1>7. QED
  BY <1>1, <1>5, <1>6, DtypeStep

LEMMA StepDtype ==
  ASSUME ~ EarlyReuse
  PROVE  ListInv /\ ChannelInv /\ DtypeInv /\ [Next]_vars => DtypeInv'
<1> SUFFICES ASSUME ListInv, ChannelInv, DtypeInv, [Next]_vars
             PROVE  DtypeInv'
  OBVIOUS
<1>1. ASSUME NEW p \in Plist, NEW d \in Dtype, NEW role \in {"pipe", "shared"},
             CreateSink(p, d, role)
      PROVE  DtypeInv'
  <2>1. PICK a \in Block, n \in {0, Count(p)} :
          /\ Fresh(a)
          /\ channel' = [channel EXCEPT ![a] = [state |-> "live", role |-> role,
                                                dtype |-> d, rc |-> n]]
          /\ NewBc("producer", p, d, a)
    BY <1>1 DEF CreateSink
  <2>2. /\ dtype_rc' = [dtype_rc EXCEPT ![d] = @ + (IF role = "source" THEN 1 ELSE 2)]
        /\ held' = held
    BY <1>1 DEF CreateSink, SinkRefs
  <2>3. QED
    BY <2>1, <2>2, CreateDtype
<1>2. ASSUME NEW p \in Plist, NEW d \in Dtype, CreateSource(p, d)
      PROVE  DtypeInv'
  <2>1. PICK a \in Block :
          /\ Fresh(a)
          /\ channel' = [channel EXCEPT ![a] = [state |-> "live", role |-> "source",
                                                dtype |-> d, rc |-> 0]]
          /\ NewBc("consumer", p, d, a)
    BY <1>2 DEF CreateSource
  <2>2. PICK role \in {"pipe", "shared", "source"} : role = "source"
    OBVIOUS
  <2>3. /\ dtype_rc' = [dtype_rc EXCEPT ![d] = @ + (IF role = "source" THEN 1 ELSE 2)]
        /\ held' = held
    BY <1>2, <2>2 DEF CreateSource
  <2>4. QED
    BY <2>1, <2>2, <2>3, CreateDtype
<1>3. ASSUME NEW b \in Bc, DestroyChan(b)
      PROVE  DtypeInv'
  BY <1>3, DestroyDtypeRef
<1>4. ASSUME NEW d \in Dtype, DestroyDtype(d)
      PROVE  DtypeInv'
  BY <1>4, LetGoDtype
<1>5. ASSUME NEW p \in Plist, DestroyPlist(p)
      PROVE  DtypeInv'
  <2>1. /\ \A d \in Dtype : held' \cap {d} = held \cap {d}
        /\ UNCHANGED <<dtype_rc, bc, channel>>
    BY <1>5 DEF DestroyPlist
  <2>2. QED
    BY <2>1, DtypeSame
<1>6. CASE UNCHANGED <<dtype_rc, bc, channel, held>>
  BY <1>6, DtypeSame
<1>7. ASSUME NEW r \in Remote, InsertLink(r) \/ KillRead(r)
      PROVE  DtypeInv'
  BY <1>6, <1>7 DEF InsertLink, KillRead, refs
<1>8. ASSUME NEW p \in Plist, NEW old \in Remote, NEW new \in Remote, SetPlist(p, old, new)
      PROVE  DtypeInv'
  BY <1>6, <1>8 DEF SetPlist, refs
<1>9. ASSUME NEW r \in Remote, KillPipe(r)
      PROVE  DtypeInv'
  <2>1. PICK a \in entry[r] : channel[a].role = "pipe" /\ Unlinked(r, a) /\ Free(a)
    BY <1>9 DEF KillPipe
  <2>2. UNCHANGED <<created, bc, inserting, held>>
    BY <1>9 DEF KillPipe
  <2>3. a \in Block /\ channel[a].state = "live" /\ channel[a].role # "source"
    BY <2>1, <2>2, LinkTaken DEF Unlinked
  <2>4. QED
    BY <2>1, <2>2, <2>3, FreeDtype
<1>10. ASSUME NEW r \in Remote, KillWrite(r)
       PROVE  DtypeInv'
  <2>1. /\ channel' = [channel EXCEPT ![kill[r].block].rc = kill[r].rc - 1]
        /\ UNCHANGED <<dtype_rc, bc, held>>
    BY <1>10 DEF KillWrite, refs
  <2>2. kill[r] # NoKill /\ kill[r] \in Killing
    BY <1>10 DEF KillWrite, ChannelInv, BlockTypes, NoKill
  <2>3. PICK a \in Block : a = kill[r].block
    BY <2>2 DEF Killing
  <2>4. /\ channel[a] \in LiveChannel
        /\ channel \in [Block -> LiveChannel \cup {NoChannel}]
    BY <2>2, <2>3 DEF ChannelInv, BlockTypes, KillsAlone, NoChannel
  <2>5. \A x \in Block : /\ channel'[x].state = channel[x].state
                         /\ channel'[x].role = channel[x].role
                         /\ channel'[x].dtype = channel[x].dtype
    BY <2>1, <2>3, <2>4 DEF LiveChannel
  <2>6. QED
    BY <2>1, <2>5, DtypeSame
<1>11. ASSUME NEW r \in Remote, KillTest(r)
       PROVE  DtypeInv'
  <2>1. UNCHANGED <<bc, held>>
    BY <1>11 DEF KillTest
  <2>2. CASE Free(kill[r].block)
    BY <1>11, <2>1, <2>2, KillTestChannel, FreeDtype
  <2>3. CASE UNCHANGED <<channel, dtype_rc>>
    BY <1>6, <2>1, <2>3
  <2>4. QED
    BY <1>11, <2>2, <2>3 DEF KillTest
<1>12. CASE UNCHANGED vars
  BY <1>6, <1>12 DEF vars
<1>13. QED
  BY <1>1, <1>2, <1>3, <1>4, <1>5, <1>7, <1>8, <1>9, <1>10, <1>11, <1>12 DEF Next

-----------------------------------------------------------------------------
(* The invariant, where the KILLs of one channel do not overlap and a      *)
(* block some branching channel points to is not handed out again          *)
THEOREM Invariance ==
  ASSUME OneKill, ~ EarlyReuse
  PROVE  Spec => []Inv
<1>1. Init => Inv
  BY InitList, InitChannel, InitDtype DEF Inv
<1>2. Inv /\ [Next]_vars => Inv'
  BY StepList, StepChannel, StepDtype DEF Inv
<1>3. QED
  BY <1>1, <1>2, PTL DEF Spec

(* Every variable stays in range, and no count falls below zero, however   *)
(* the application and the consumers let go.                               *)
THEOREM TypeCorrect ==
  ASSUME OneKill, ~ EarlyReuse
  PROVE  Spec => []TypeOK
<1>1. Inv => TypeOK
  <2> SUFFICES ASSUME Inv
               PROVE  TypeOK
    OBVIOUS
  <2>1. ListTypes /\ BlockTypes /\ dtype_rc \in [Dtype -> Nat]
    BY DEF Inv, ListInv, ChannelInv, DtypeInv
  <2>2. \A b \in 1 .. created : bc[b].state = "freed" \/
                                /\ bc[b].mode \in {"producer", "consumer"}
                                /\ bc[b].plist \in Plist /\ bc[b].made_of \in Dtype
                                /\ bc[b].block \in Block
                                /\ bc[b].tags \subseteq Remote
    <3>1. TAKE b \in 1 .. created
    <3>2. b \in Bc /\ ~ b > created
      BY <2>1 DEF ListTypes, Bc
    <3>3. bc[b] \in LiveBc \cup {FreedBc}
      BY <2>1, <3>2 DEF ListTypes
    <3>4. QED
      BY <3>3 DEF LiveBc, FreedBc, NoBc
  <2>3. \A a \in Block : channel[a].state # "virgin" =>
          channel[a] \in [state : {"live", "freed"}, role : {"pipe", "shared", "source"},
                          dtype : Dtype, rc : 0 .. Cardinality(Remote)]
    BY <2>1 DEF BlockTypes, LiveChannel, NoChannel
  <2>4. kill \in [Remote -> [pc : {"idle", "write", "test"}, block : Block \cup {NoBlock},
                             rc : 0 .. Cardinality(Remote)]]
    <3>1. NoKill \in [pc : {"idle", "write", "test"}, block : Block \cup {NoBlock},
                      rc : 0 .. Cardinality(Remote)]
      BY FS_CardinalityType DEF NoKill
    <3>2. QED
      BY <2>1, <3>1 DEF BlockTypes, Killing
  <2>5. QED
    BY <2>1, <2>2, <2>3, <2>4 DEF TypeOK, ListTypes, BlockTypes
<1>2. QED
  BY <1>1, Invariance, PTL

(* A data type is freed by the last of its users, neither before nor       *)
(* never, whatever the order in which application and service threads let  *)
(* go.                                                                     *)
THEOREM DtypesCounted ==
  ASSUME OneKill, ~ EarlyReuse
  PROVE  Spec => []DtypeCounted
<1>1. Inv => DtypeCounted
  BY DEF Inv, DtypeInv
<1>2. QED
  BY <1>1, Invariance, PTL

(* What a link, a KILL in progress, an insertion or a branching channel    *)
(* reads of its channel is there, and is what it was created with.         *)
THEOREM Reached ==
  ASSUME OneKill, ~ EarlyReuse
  PROVE  Spec => []ChannelsReached
<1>1. Inv => ChannelsReached
  <2> SUFFICES ASSUME Inv
               PROVE  ChannelsReached
    OBVIOUS
  <2>0. /\ BlockTypes /\ Inserting /\ UsersCounted /\ KillsAlone /\ TagsMatchList /\ ListInv
    BY DEF Inv, ListInv, ChannelInv
  <2>1. \A r \in Remote : \A link \in entry[r] : channel[link].state = "live"
    <3>1. TAKE r \in Remote
    <3>2. TAKE link \in entry[r]
    <3>3. link \in Block /\ r \in Users(link)
      BY <2>0 DEF BlockTypes, Users
    <3>4. QED
      BY <2>0, <3>3 DEF UsersCounted
  <2>2. \A r \in Remote : kill[r].pc # "idle" => channel[kill[r].block].state = "live"
    BY <2>0 DEF KillsAlone, NoKill
  <2>3. ~ Idle => channel[bc[created].block].state = "live"
    <3>1. SUFFICES ASSUME ~ Idle
                   PROVE  channel[bc[created].block].state = "live"
      OBVIOUS
    <3>2. bc[created].block \in Block
      BY <2>0, <3>1, LiveTypes DEF Idle, Inserting
    <3>3. Users(bc[created].block) # {}
      BY <3>1 DEF Idle, Users, NewLinks
    <3>4. QED
      BY <2>0, <3>2, <3>3 DEF UsersCounted
  <2>4. QED
    BY <2>0, <2>1, <2>2, <2>3 DEF ChannelsReached, ChannelOutlivesLinks
<1>2. QED
  BY <1>1, Invariance, PTL

(* When everything was destroyed and killed nothing is left allocated.     *)
THEOREM NothingIsLeft ==
  ASSUME OneKill, ~ EarlyReuse
  PROVE  Spec => []NothingLeft
<1>1. Inv => NothingLeft
  <2> SUFFICES ASSUME Inv, held = {}, Idle, \A b \in Bc : ~ Live(b),
                      \A r \in Remote : entry[r] = {} /\ kill[r].pc = "idle"
               PROVE  /\ \A d \in Dtype : dtype_rc[d] = 0
                      /\ \A p \in Plist : plist_rc[p] = 0
                      /\ \A a \in Block : channel[a].state # "live"
    BY DEF NothingLeft
  <2>0. /\ BlockTypes /\ SourceOwned /\ UsersCounted /\ PlistCounted /\ DtypeCounted
    BY DEF Inv, ListInv, ChannelInv, DtypeInv
  <2>1. \A a \in Block : Users(a) = {} /\ \A r \in Remote : kill[r].block # a
    BY <2>0 DEF Users, NewLinks, Idle, BlockTypes, Killing, NoKill
  <2>2. \A a \in Block : channel[a].state # "live"
    <3>1. TAKE a \in Block
    <3>2. SUFFICES ASSUME channel[a].state = "live"
                   PROVE  FALSE
      OBVIOUS
    <3>3. channel[a].role \in {"pipe", "shared", "source"}
      BY <2>0, <3>2 DEF BlockTypes, LiveChannel, NoChannel
    <3>4. channel[a].role # "source"
      BY <2>0, <3>2 DEF SourceOwned
    <3>5. QED
      BY <2>0, <2>1, <3>2, <3>3, <3>4 DEF UsersCounted
  <2>3. \A x : Cardinality(held \cap {x}) = 0
    BY HeldCard
  <2>4. \A p \in Plist : plist_rc[p] = 0
    <3>1. TAKE p \in Plist
    <3>2. Cardinality(DependOn(p)) = 0
      BY FS_EmptySet DEF DependOn
    <3>3. QED
      BY <2>0, <2>3, <3>2 DEF PlistCounted
  <2>5. \A d \in Dtype : dtype_rc[d] = 0
    <3>1. TAKE d \in Dtype
    <3>2. MadeOf(d) = {} /\ Counting(d) = {}
      BY <2>2 DEF MadeOf, Counting
    <3>3. Cardinality(MadeOf(d)) = 0 /\ Cardinality(Counting(d)) = 0
      BY <3>2, FS_EmptySet
    <3>4. QED
      BY <2>0, <2>3, <3>3, DtypeIs DEF DtypeUsers
  <2>6. QED
    BY <2>2, <2>4, <2>5
<1>2. QED
  BY <1>1, Invariance, PTL
=============================================================================
