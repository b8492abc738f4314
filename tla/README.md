# libdsys in TLA+

libdsys is a library for message-passing programs in C. Processes are started
by MPI, wire themselves together with TCP sockets, and exchange data through
*branching channels*: pipes, replicating, spreading and collecting channels,
farms and reductions. This directory holds the specifications of the library
and of the programs that come with it, the model-checking instances, and the
proofs.

Line numbers refer to `src/libdsys/` unless a path is given.

## 1. The system

### Processes, threads and connections

Every process runs

* the **computation thread**: the application and the library calls it makes;
* the **thread manager** (`threads.c:45-62`), created by `bc_init`;
* one **service thread** per other process (`threads.c:64-180`), created by the
  manager.

Each pair of processes shares two TCP connections, used in both directions: a
*request* socket and a *data* socket. A consumer pulls: `bc_get` writes a
request (code, tag, number of units) to the request socket; the service thread
of the producing process reads it, finds the channel by its tag, takes data out
of the channel's buffer and writes it to the data socket. The producer only
ever touches the buffer.

So the hard part of the library is inside one process: the computation thread
and the service threads share the channel buffers (`queue.c`), the table of
links (`ltab.c`), the reference counts of channels, and the thread manager's
counter. Between processes the hard parts are the set-up and the end.

### Components

| component | state | operations | used by |
|---|---|---|---|
| byte ring MC121 (`queue.c:68-232`) | block, free and data pointers, byte count, mutex, one condition variable | create, put, send | pipe, each target of MC12M |
| copying multicast MC12M (`queue.c:240-420`, `replicate.c`, `spread.c`) | a list of MC121 rings | create, put, send | replicate, spread |
| ring NMC121 (`queue.c:430-500`) | as MC121, written in place | create, put, send | no role uses it |
| replicating ring NMC12M (`queue.c:502-653`) | block, reference counter per unit, producer cursor; a cursor per link | create, put, send | replicaten, pipen |
| fan-out ring FARMN (`queue.c:654-850`) | block, reference counter per unit, producer and shared consumer cursor | create, put, send | farmn |
| table of links (`ltab.c`) | per remote process a list of links, mutex, condition variable | insert, search, destroy | channel creation, service threads |
| service thread (`threads.c`, `service.c`) | cached link and tag | GET, COND_GET, KILL, end of stream | |
| socket network (`sockets.c`) | listeners, socket list, static id | create, destroy | `bc_init`, `bc_final` |
| thread manager (`threads.c`, `base.c`) | nst | create, join | `bc_init`, `bc_final` |
| branching channels (`branch.c`, `iface.c`) | channel, tags, process list and data type with reference counts | create, put, commit, get, destroy | application |
| collecting gets (`collect.c`, `collect_any.c`) | start index of the poll | get, conditional get | gather, collect, collect_any |
| reductions (`reduce.c`) | none | fold of received arrays | reduce channels |
| process lists (`plist.c`) | sorted arrays with reference counts | union, intersection, difference ... | application, skeletons |
| data types, shared variables (`dtype.c`, `variable.c`) | reference counts | create, destroy | channels |
| skeletons (`iskel.c`) | none | build channels | application |
| examples, applications, benchmarks (`src/examples`, `src/perf`) | their data | sequences of library calls | |
| memory, errors, timing, MPI information | counters, texts, clocks | | everything |

### What is hard, and what would make it correct

* **Rings.** Wrap-around at the end of the block, in two pieces of code that
  must agree. One condition variable for both directions. A unit written by
  the application without the lock (`bc_var`, `queue.h:160`) while service
  threads read others. A reference counter that is never cleared
  (`queue.c:513,705`). *Correct:* each byte or unit arrives once, whole, in
  order, at whom it is for; nobody sleeps while what it waits for is there; a
  unit is never written while it can be read; a blocked producer is always
  waiting for somebody who can go on.
* **Table of links.** Searches run outside the lock, removals partly so; a
  freed node stays linked for a while. *Correct:* the list is a directory: no
  link is lost, a request waits for its link and then gets it, no freed memory
  is followed.
* **Set-up.** Connections overtake each other in the backlogs. *Correct:* each
  descriptor leads to the process it is filed under, and set-up ends.
* **End.** *Correct:* what was requested is served, no shared table is freed
  under a running thread, `bc_final` returns.
* **Channels.** A channel is shared by the application and the service threads of
  all its consumers; data types and process lists are shared by channels. They
  are counted, and let go of in any order. *Correct:* freed exactly once, after
  the last use.

* **Process lists.** Three counts kept by hand (owners, entries not yet set,
  length) and set operations written as loops over arrays. *Correct:* the counts
  say what they are for after any sequence of calls; a union is a union; and the
  list a channel drew its tags for is the one its destruction writes to.
* **Whole programs.** Tags are never exchanged: both ends of a channel count.
  Every program chooses its buffers, its roles and the order of its calls, and
  nothing checks that they fit those of the other processes. *Correct:* ends
  meet, no program blocks for ever, KILLs find their links, nothing is left over,
  and what is computed is right whatever the interleaving.

The list of hazards, line by line, with the properties that cover each one, is
in `PROJECT.json`.

## 2. The modules

| module | kind | what it is |
|---|---|---|
| `ByteStream` | abstract | a bounded FIFO stream of bytes with conditional and unconditional gets |
| `MC121Queue` | detailed | the byte ring; implements `ByteStream` |
| `MC121QueueProofs` | proofs | theorems about `MC121Queue` |
| `WorkQueue` | abstract | a bounded queue of units, each handed to one consumer |
| `FarmQueue` | detailed | the fan-out ring; implements `WorkQueue` |
| `FarmQueueProofs` | proofs | theorems about `FarmQueue` |
| `Multicast` | abstract | every unit to every consumer that stays |
| `NMC12MQueue` | detailed | the replicating ring; implements `Multicast` |
| `NMC12MQueueProofs` | proofs | theorems about `NMC12MQueue` |
| `LinkDirectory` | abstract | a set of tags with lookups that wait |
| `LinkTable` | detailed | one entry of the table of links, on a heap; implements `LinkDirectory` |
| `LinkTableProofs` | proofs | theorems about `LinkTable` |
| `Channels` | detailed | creation and destruction of branching channels, and the counts of channels, data types and process lists |
| `ChannelsProofs` | proofs | theorems about `Channels` |
| `SocketSetup` | detailed | `__bc_socket_network_create` in all processes |
| `SocketSetupProofs` | proofs | theorems about `SocketSetup` |
| `Shutdown` | detailed | thread manager, service threads and `bc_final` in all processes |
| `ShutdownProofs` | proofs | theorems about `Shutdown` |
| `ProcessLists` | detailed | the lists of one process, as made, combined, used and destroyed; the set operations against set theory |
| `ProcessListsProofs` | proofs | theorems about `ProcessLists` |
| `Programs` | programs | how a program is written: the calls of a process as a function of what it has received |
| `UsageExamples` | programs | `src/examples/usage` |
| `Skeletons`, `Gauss` | programs | `iskel.c`, `src/examples/skeletons`, and Gaussian elimination in its three forms |
| `Mandelbrot`, `Numeric`, `Transforms` | programs | `src/examples/common` |
| `Benchmarks` | programs | the library's side of `src/perf` |
| `Applications` | programs | all of them by name, with what each has to compute |
| `Reductions` | operators | what a get makes of the pieces it reads |
| `Network` | composition | processes, channels, links, tags, requests, data and service threads; runs the programs |
| `MC...` | instances | constants for TLC |

`PROJECT.json` maps each definition to its lines. In every detailed module some
definitions come in several forms, one after the other (`PutQKeepsEnd`,
`PutQ`): the last is the code, the ones before it are faults planted in the
code, that show that the property they are listed with would notice.

### MC121Queue

| code | model |
|---|---|
| `q->free_start`, `q->data_start` (pointers) | offsets in the block, `q->buff_end` is `Size` |
| `__bc_mc121_put` from lock to unlock | `PutDone`, or `PutWaits` up to `bc_cond_wait` |
| `__bc_putq_mc121`, with its two `memcpy` | `PutQ` |
| `__bc_mc121_send` | `SendDone`, `SendSorry`, `SendWaits`; `__bc_sendq_mc121` is `SendQ` |
| mutex, condition variable | `pc`: `lock` (wants the mutex), `wait` (in `bc_cond_wait`), `idle` |
| the bytes written to `d_fd` | `reply`: preamble and data of the answer to one request |

Both threads hold the mutex in one piece except for the wait, so a step is
everything between acquiring and releasing it. A signal moves the other thread
from `wait` to `lock`. `pthread_cond_wait` may return spuriously.

### FarmQueue and NMC12MQueue

The unit that `var` points to and the index `rcidx` are kept apart, as in the
code, where put advances the pointer before it waits and the index after that
(`queue.c:573-592`, `773-795`). `PutEnter` is put up to the end or the first
wait, `PutRecheck` one more pass of its loop. `Write` is the assignment to
`bc_var`, which takes no lock and is a step of its own. `rc[0]` starts as
anything, since the loop that clears the counters stops before it.

In `NMC12MQueue`, `CallPut` reads `channel->rc` before it takes the mutex, as
`replicate.c:111` does, and `Leave` lowers it (`replicate.c:101`). In
`FarmQueue` a get of several units is answered with one, as the code does
(`queue.c:830`); the instance asks for one.

### LinkTable

Here a critical section is *not* one step: the code reads the list outside the
lock, and one path releases a mutex it does not hold. So the mutex has an
explicit `owner`, the nodes live in a heap (`node`, with the state `freed`), and
every access to shared memory is a step. `apc` and `spc` name the place in
`__bc_link_insert`, `__bc_link_search` (`s_...`) and `__bc_link_destroy`
(`d_...`). `clink` and `ctag` are the cache of the service thread
(`threads.c:100`).

Three constants state what the environment does, because the code is not
correct in every environment:

* `EarlyReuse`: may `malloc` return the block of a link freed by a KILL that has
  not finished?
* `KillAfterGet`: does a process destroy its end of a channel only after it has
  received from it?
* `Overlap`: `"orderly"` lets an insertion run beside a KILL only when that has
  found its link at the root; `"free"` lets them run as they like.

The actions of the code (`CreateLink`, `InsertLock`, `RecvKill` and the rest) have only
the guards of the code. What the constants say stands apart, in `MayInsert` and
`MayKill` at the end of the module, and is added in `Insert` and `Next`. Section 5 tells
what happens in other environments; runs `links_inner` (any overlap) and
`network_refined` (a KILL before any get) show the two that matter most.

### Channels

`LinkTable` is about one list of links; here each list is only the set of its
links (`entry`), and the point is what the links share. `CreateSink` and
`CreateSource` are `bc_sink_create` and `bc_src_create`; the loop of
`__bc_link_insert` is one `InsertLink` per consumer, since a KILL may be served
in between. The destructors of the roles are alike: a pipe frees its channel at
once (`KillPipe`), all others lower `c->rc` without a lock, so that a read
(`KillRead`), a write (`KillWrite`) and the test (`KillTest`, of the written value
or of a second read, as the compiler likes) are steps of their own. The counts of
data types and lists are lowered under their locks: one step.

`channel` is a heap: `bc_chan_destroy` reads the data type out of a block that is
freed already, at `branch.c:309` for a consumer, with the last KILL for a
producer. Two constants state the environment: `OneKill`, the KILLs of one
channel are served one after another; `EarlyReuse`, `malloc` may return a block
to which a branching channel still points.

### SocketSetup

`connect` returns as soon as the connection is in the backlog of the listener,
so `Accept` and the id message of `SendId` are separate steps, and the accepting
process takes whoever is first. `id` is the one static variable
(`sockets.c:83`) that both the accepting and the connecting half write.

### Shutdown

The requests are only counted: what they do is in the other modules. `nst`,
the signal of the last service thread, the manager's single wait
(`threads.c:56`) and the join in `bc_final` are as in the code; `Spurious` names
the processes whose manager may wake without a signal.

### ProcessLists

A list is a record of the fields of `bc_plist_s` and two ghosts: `held`, whether
the application has still to destroy it, and `tags`, what a channel drew its tags
for. One action per call: create with ranks, create with all but some ranks,
create empty, set an entry, union, intersection, difference, divide, destroy, and
the creation and destruction of a channel that uses the list. The loops are folds
(`Picked` is the loop that copies the entries chosen, `Ascending` that over the ranks) that keep the code's boundaries and order (`IsectOf` counts
inclusions as the array `inclusion` does, `Flagged` marks as `bc_plist_diff` marks).
`bc_plist_create` never writes `valid`: the field is 0 or `Garbage` there, and a list
with garbage is refused by the set operations, as by the code.

`Careful` says that the application divides only complete lists, makes channels only
on complete lists, and puts no rank in a list twice. It is TRUE in the run; section 5
tells what happens without it. The code checks none of this: `bc_sink_create` draws a
tag for the "process" -1 of an unset entry from outside its table. `Use` is not
guarded either, but which tag comes out of foreign memory is not modelled further.
`IsElem` is `bc_plist_iselem`, which compares with `bc_rank` and not with what it is
asked for (`IsElementTests`, section 5).

### Network, and the programs on it

`Network` composes the library. It takes the rings as what the other modules show
them to be: `MC121Queue` implements a bounded stream with puts and gets that wait,
`FarmQueue` a bounded queue of which each unit goes to one consumer, `NMC12MQueue`
one in which each goes to all. So a ring is a queue here, with one capacity
kept from the detailed modules: MC121 holds `du` units, the rings written in place
`du - 1`, since the application holds one (`UnitFree`). In the code a put into the
latter marks its unit as full and then waits for the next one (`queue.c:579-597`,
`779-792`); `PutInPlace` waits first. To the consumers this is the same: send takes no
unit while the producer's index is on it (`queue.c:623`, `818`), and the index moves when
the put returns. The refinements of `WorkQueue` and `Multicast`, where a commit blocks
and then appends, are checked and proved with the code's order.

| code | model |
|---|---|
| `bc_sink_create`, `bc_src_create` | `SinkCreate`, `SourceCreate`: links in the order of creation, tags by counting |
| `bc_put`, `bc_commit` | `PutCopy`, one step per consumer of MC12M, each of which may block; `PutInPlace` |
| `bc_get` of pipes, collecting and reducing channels | `GetRequest`, all requests; `GetRead`, all answers, folded by `Combine` |
| `bc_get` of collect_any | `PollRequest`, `PollSorry`, `PollRead`, from the first producer on |
| `bc_chan_destroy` | `ChanDestroy`: a consumer sends KILLs, a producer nothing |
| service thread of `p` for `q` | `Serve(p, q)`: `ServeData`, `ServeSorry`, `ServeKill` |
| request and data sockets | the sequences `requests[p][q]` and `data[p][q]` |

A get of several units from a ring written in place is answered with one
(`Amount`). A GET whose link or data is missing makes the service thread wait, and
with it all later requests of that connection.

A program is a sequence of calls as a function of `h`, the results of the gets so far
(`Programs`), so that farming to whoever answers first, or stopping when an
error is small, is part of the model. The numbers are integers, or pairs of
integers: for Gauss the matrix is chosen so that divisions are exact, and the
Fourier transform takes its roots of unity from a table. `Applications` says for
each program what its gets must have returned in the end: a sorted list, the
product of the matrices, all work done once.

## 3. The runs

| run | instance | distinct states | shows |
|---|---|---|---|
| `mc121` | ring of 4 bytes, puts of 1-3, gets of 1-2 | 85 712 | lossless FIFO, no lost wakeup, no deadlock, puts and gets return |
| `farm` | 3 units, 2 consumers | 15 488 | each unit to one consumer, in order; never written while readable; no lost wakeup; commits return |
| `replicate` | 3 units, 2 consumers, one may leave | 89 080 | each unit to each consumer that stays |
| `links` | 3 links, 4 blocks, orderly | 85 533 | the list is a directory, lookups are served, and from a live link of their tag |
| `links_inner` | 4 links, any overlap | violated | a KILL unlocks the mutex of an insertion, and a link is lost |
| `sockets` | 4 processes | 11 866 | wired right, and set-up ends |
| `final` | 3 processes, one request on a connection, spurious wakeups at rank 0 | 297 860 | barrier, tables freed last, return |
| `channels` | 2 consumers, 3 channels, 2 blocks, 2 data types, 2 lists, one KILL of a channel at a time | 188 256 up to symmetry | all is freed once, after its last user |
| `channels_race` | 1 channel, KILLs at once | violated | a channel is freed never or twice |
| `plists` | 3 processes, 2 lists by hand and the optional ones, up to 3 entries | 25 545 up to symmetry | counts and set operations are right |
| `network` | 39 programs of 2 to 6 processes | 220 695 | ends meet, programs end, answers are right |
| `network_refined` | `mandelbrot_refined.c`, 2 workers | violated | a KILL may come before its link |

Some properties are conjunctions of named parts, each with its comment:
`RingInv` of the two unit rings is `RcCountsUnits` or `RcCountsReaders` (the counters
say who has still to read what) and `NoLostWakeup`; `Progress` says that blocked calls
return on both sides; `AccessSafe` is `NoCrash` and `MutualExclusion`; `Wired` that each
descriptor is right and that none is missing; `ChannelsReached` that channels outlive
their links and that a channel's tags match its list; `OrderlyEnds` that no put goes
into a ring whose consumers have gone, that KILLs find their links, and that nothing
is left over.

### Bounds, and why they are enough

* Ring of 4 bytes: a put of 3 and a get of 2 wrap both pointers in the middle of
  a transfer and exactly at the end, and `p + g <= Size + 1` holds with equality,
  so `NeverBothWait` is checked at its limit. Two byte values suffice to tell
  positions apart in contents that are compared as a whole. The theorems lift
  all of this to every size.
* Rings of 3 units, the smallest with a unit in the producer's hands, one full
  and one in between; two consumers, so that one can overtake the other.
* Three links make a root, an inner link and a last one; four blocks leave one
  to be handed out again, and a block that was freed may come back for a later tag.
  With three links an unlock from outside is possible when any overlap is, but no link
  is lost; `links_inner` has four.
* Four processes: rank 3 accepts from three that race, ranks 1 and 2 both
  accept and connect.
* Two consumers make a last one and one before it; three channels in two blocks
  let a block be used again, and two channels share a data type or a list. The
  instance takes data types and blocks as symmetric, which is sound here: they
  are compared for equality only, and no liveness is checked.
* Three processes at the end: each has two service threads, so the last one and
  one before it. `MaxRequests = 1` makes a request wait in the connection when
  the end of stream arrives.
* Process lists: three processes give lists of every relation (disjoint, nested,
  overlapping, equal) to each other and to the optional ones; `SetsAgree` takes
  operations of two and of three lists. Two lists by hand are those a division
  needs, or the two operands of an operation whose result is only looked at.
  The names of the lists are symmetric.
* Network: every program has the least number of processes that shows its shape
  (two for an exchange, three for one against many and for a first, inner and
  last stage, four for odd-even and the butterflies, six for a pipeline into a
  farm), few rounds (the second round meets what the first has left), and the
  buffers of the code, or buffers scaled as the data is: the pipeline over
  copying rings has 5 units for rows of 5, as it has 7 for rows of 7. A smaller
  buffer makes puts block that would not in the code, never the reverse.

Deadlock is checked in the ring runs, where an application can always write.
It is not in the others, since set-up and end are meant to stop, the links runs
end when all tags are used up and destroyed, or wait for a link that nobody will
create, and the channel, list and network runs end when all is destroyed. That
programs do not stop early is what `ProgramsEnd` says.

### Fairness

Weak fairness of the library code of each thread that can go on: a thread that
can take the mutex takes it in the end. Weak fairness is enough, although the
mutex comes and goes, since critical sections are single steps in the rings: the
step is enabled as long as the thread wants the mutex. In `LinkTable`, where
they are not, the mutex is free again and again only as far as the other thread
uses it finitely often: insertions are bounded by `NTags`. Nothing is assumed of
the application: the liveness properties name what they need of it (`PutReturns`, in
`Progress`, assumes that consumers keep asking, `FinalReturns` that all processes call
`bc_final`). No fairness is given to spurious wakeups.

In `Network` the computation thread of every process is weakly fair, and so is the
step of some service thread of the process. The second is implied by the fairness of
each service thread: `Serve(p, q)`, once enabled, stays so until a service thread
of `p` takes a step, since only a step of `Serve` takes requests or units away. The
programs need no more, and TLC checks one formula per process instead of
one per pair.

## 4. Proofs

Every safety property of the runs about the rings, the table of links, the
channels, set-up, end and the process lists is a theorem of the specification, for all values of the
constants under the assumptions named below; the runs show the same on their
instances. Each module of proofs has an inductive invariant, the theorem that it
is one (`Invariance`), and the properties as its consequences.

| module | theorems | from |
|---|---|---|
| `MC121QueueProofs` | `TypeOK`, `RingInv`, `NoLostWakeup`, `NeverBothWait`; implements `ByteStream` | positive sizes, some byte |
| `FarmQueueProofs` | `TypeOK`, `RingInv`, `NoWriteUnderRead`; implements `WorkQueue` | `Du` positive, gets of some units, some content |
| `NMC12MQueueProofs` | `TypeOK`, `RingInv`, `NoWriteUnderRead`; implements `Multicast` | `Du` positive, finitely many consumers of whom one stays |
| `LinkTableProofs` | `AccessSafe`; implements `LinkDirectory` | what run `links` assumes of the environment |
| | `TypeOK`, `ServedFromLiveLink` | `Overlap = "orderly"` only |
| | `MutualExclusion` (`OnlyForeignUnlock`) | no step is the unlock of `ltab.c:196` during an insertion |
| | no step is that (`OrderlyUnlocks`) | `Overlap = "orderly"` only |
| `ChannelsProofs` | list counts (`ListInv`), `TagsMatchList` | finite sets |
| | `TypeOK`, `DtypeCounted`, `ChannelsReached`, `NothingLeft` | and `OneKill`, no `EarlyReuse` |
| `SocketSetupProofs` | `TypeOK`, `Wired` | `Size` positive |
| `ShutdownProofs` | `TypeOK`, `DestroyedLast`, `FinalIsBarrier` | `Size` positive, any `Spurious` |
| `ProcessListsProofs` | counts of owners (`OwnersCorrect`), `UnionOfAny`, `IsectOfAny` | `Size` positive, finitely many lists |
| | `TypeOK`, `ListsConsistent`, `SetsAgree` | and `Careful` |

The assumptions on constants are the `ASSUME` of the modules (`SizeAssumption`,
`DuAssumption`, `ConsumersAssumption`, `LinkAssumption`, `ChannelAssumption`,
`ShutdownAssumption` and so on); TLC evaluates them in every run. Where a theorem has
a hypothesis on the environment (`Overlap`, `KillAfterGet`, `EarlyReuse`, `OneKill`,
`Careful`), it is because some of these properties fail without it, as section 5 tells.

**Byte ring.** `Inv == TypeOK /\ RingInv /\ NoLostWakeup /\ InCall`.
`InCall` is the strengthening: `TypeOK` allows an empty `local` at any time, but a
put needs that `local` holds the bytes of a put exactly while the producer is in
a call, and a send that `req` asks for an amount in `GetSizes` then. `PutQKeeps`
and `SendQKeeps` treat the two sides of the wrap. For the refinement, `PutQAppends` and
`SendQTakes` say what the two operations do to `Contents`, the bytes in the ring
seen as a sequence: one appends the bytes put, the other removes what it answers
with. `StepRefines` maps each action to one of `ByteStream` or to stuttering.

**Fan-out ring.** `Inv == TypeOK /\ RingInv /\ Pointers`. put moves the pointer of
`bc_var` before it waits and the index of the unit after, so the pointer is one unit
ahead exactly while a commit is under way: `Pointers`. With it the slot that a commit
leaves is the one whose counter it sets, and the unit handed to the application
is never one that waits to be sent.

**Replicating ring.** That a counter is never below the number of readers still to
come is true and not inductive. A consumer may leave at any time: it then counts in
the units that were committed before and not in those after, and a producer that
passes its cursor could take it out of a unit that never counted it. What is
inductive speaks of the past: for each slot there is a set of consumers, those
that the counter was set for, of whom it counts the ones that have still to read;
all attached consumers are in every set, and a younger unit counts nobody that an
older one does not (`Counted`). No variable holds these sets, so `CountersAccounted`
binds them by an existential quantifier, and the proof of each step names the new
ones.

**Table of links.** The two threads walk along a list that changes under them, so the
invariant must say what a walk will find without following it. Links are inserted
at the root with rising tags: the list is sorted, and each pointer leads to the
link with the next lower tag of those in the list (`Follows`). A link is in the list from
the assignment to the root until its KILL has relinked around it, freed or not in
between (`In`). `Killing` and `Searching` place the pointers of the service thread in
that order: the link of a KILL lies ahead of `temp`, and one that a get was
answered from stays. For the refinement the tags reached from the root have
to be those of the nodes in the list (`ListedTags`): that each node in the list is
reached is an induction along the list, carried out with the least-number
principle (`Least`), which follows from the well-foundedness of the natural numbers.

When a KILL may come before its GET, or the freed block may be handed out at once, the
list loses links and none of this is true. What is left is `Sound`, which speaks of
nodes only: no pointer leads to a block that was never allocated, a node is freed
by the KILL of its tag and no two live ones have the same tag, and the
cache of the service thread is a live node of the cached tag. That carries
`ServedFromLiveLink`. (TLC agrees on four links with early KILLs, early reuse and a shared
channel, in 4 109 249 states.)

The mutex alone is a matter of its own. In every environment, `"free"` overlaps
included, `OnlyForeignUnlock` says that what can bring both threads between lock and
unlock is one step only, `ForeignUnlock`: the service thread at `ltab.c:196` unlocks
while the insertion holds the mutex. Its invariant is `Held`, that the owner is who is in
its section. `OrderlyUnlocks` says that the step is never taken with orderly overlaps, and
run `links_inner` that it is taken with others.

**Channels.** The list counts need no hypothesis: they are taken under a lock. The
channel blocks do: `UsersCounted` says that the count of a shared channel is the number
of remotes that have or await a link to it, plus one while a KILL has removed
its link and not yet lowered the count (`Owed`); `KillsAlone` that a KILL in progress
is alone on its channel and that what it has read is still the count;
`BcBlocks` that the block of a branching channel, freed or not, still names its
data type, which is what `bc_chan_destroy` reads. `DtypeCounted` follows step by
step, since by `BcBlocks` the data type whose count goes down is the one whose
count went up.

**Set-up.** A process counts its accepts and does not know whose they are. The
invariant says how many calls each process has behind it (`TodoOf`), which connections
exist as a consequence (`EndsRight`, `BacklogRight`), and that every accept has wired
a process that was not wired before (`AcceptsCounted`). When a process is done, the
count equals the number of processes below it, so none is missing.

**End.** `NstCountsAlive` says which threads `nst` counts; `StreamEnded`, that a service
thread leaves its loop at the end of a stream it has read completely; `WokenByLast`,
`Joined` and `ClosedInFinal`, what a wakeup, a join and a closed connection tell about
the others. Put together, the table is freed after the last thread has gone.

**Process lists.** What the loops compute is the matter here, and a fold is defined
by recursion, over which this prover has no induction. The way around it takes three
steps. Over the subsets of an interval the recursive function of a fold exists
(`FoldExists`, by the least-number principle `Least`), so that the fold is what that
function says. On the intervals `1..i` it is the value of the fold after `i`
entries, a function of `i`, and what holds after `i` and is kept by entry
`i + 1` holds in the end (`FoldInduct`). Each loop has then its own invariant: after
`i` entries of the other lists `bc_plist_union` has those and the first list,
each once, and has moved nothing it had (`UnionIs`); `Picked` has the entries chosen
among the first `i`, in their order (`PickedIs`, `PickedIncreasing`); the complement
has all ranks below `s` that were not given (`GapsFilled`). What the set operations are
called follows: `UnionOfAny` and `IsectOfAny` for any number of lists (in `MatchesAll`
the loops of `bc_plist_isect` reach the number of lists exactly where all have the
rank), `DiffCorrect`, `ComplementCorrect`, and `DivideCorrect`, that the parts of an
equal division make the whole.

The invariant `IInv` has two halves. `Owned` holds for any application: the count is
the number of owners, one at least. `Tagged` and `Exact` need `Careful`: while a channel
uses the list its tags are the entries, since an entry that is set is only reset
without a channel, and a channel is only made on a list without unset ones; `valid` is
the number of unset entries, or garbage in a list that never had any; no
rank is in a list twice; and a list that has unset entries was made empty, so it
is at most `MaxCount` long - any other, having each rank once, is at most `Size` long.
`ListsConsistent` alone is not inductive: it allows garbage for the count of a list
with unset entries, and a channel on such a list, and a call that sets an entry there
breaks it.

Only model-checked:

* liveness (`Progress`, `GetServed`, `SetupEnds`, `FinalReturns`, `ProgramsEnd`), which is out
  of reach of the prover used here;
* `Network`: its properties (`TypeOK`, `EndsMeet`, `OrderlyEnds`, `AnswersRight`) are about
  the programs that run on it, finitely many, each with the answers it has to give.
  They hold because these programs use their channels in matching orders, which is
  not stated as a condition on programs, so there is no theorem about all of them.

No module of the project declares a RECURSIVE operator, so theorems about
any of them can be added.

## 5. Where code and comments disagree

Three runs end in a violation; each is a statement the repository makes about
itself that the code does not keep. The traces are TLC's, the statements are quoted in
`PROJECT.json`; the lines are:

* `channels_race`: `replicate.c:53` (and `farm.c:53`, `spread.c:63`) lowers `c->rc`
  without a lock that the service threads have in common.
* `links_inner`: `ltab.c:196` unlocks what line 144 unlocked before, and with it an
  insertion in progress. With three links both threads are then in their sections at once
  (`MutualExclusion` fails); with four the KILL of the root runs inside the insertion,
  which links the new link to a block that is free, and a link is lost. With five, the next
  insertion is handed that block while a KILL is between finding its link and
  unlinking it (`ltab.c:191-195`), the wrong node is freed, and a get is answered from a
  freed link: `ServedFromLiveLink` holds with `Overlap = "free"` up to four links
  and fails with five, which is why its theorem and its run have `Overlap = "orderly"`.
* `network_refined`: `src/examples/common/mandelbrot_refined.c:155` destroys the
  farmer's source when all rows are there. `bc_get` of collect_any polls from the first
  worker on each time (`collect_any.c:41`), so one worker may have done all rows
  before another has called `bc_sink_create`; its service thread then finds an
  empty list and reads through the null root (`ltab.c:152`).

The following are known, and not runs of their own. Where one names a run, it is
violated by the instance of that run with the constants named, and TLC finds it in a
minute or so; the others were seen in the code:

* `ltab.c:157` frees the root that 161 compares ("Check if root is still valid.", 159): when
  an insertion gets the same address in between, it is taken for the freed root and
  is lost. `links` with `EarlyReuse = TRUE` violates `LinksKept`.
* `ltab.c:194` takes the role from `temp`, the channel from `dummy`: with a pipe before
  a shared channel the pipe's destructor frees the latter at its first KILL ("if I am the
  last one depending", 155). `links` with `Shared <- FirstShared` violates `SharedSurvives`.
* `threads.c:56` waits once, outside a loop over `nst` ("Wait for the service threads to
  complete.", 55): after a spurious wakeup `bc_final` frees the tables under running
  service threads. `DestroyedLast` and `FinalIsBarrier` are stated for the processes
  outside `Spurious`; `TablesLast`, for all, is violated by `final`.
* `plist.c:65` compares with `bc_rank`, not with `rank` ("Is an element .", `plist.h:122`):
  `plists` violates `IsElementTests`. All callers in the repository ask for `bc_rank`
  (`iskel.c:42`, `223`, `274`, and `src/examples/skeletons/all2all.c:44`, `54`).
* `mandelbrot.c:164` and `mandel_farm.c:148` take `ceil` of an integer division: when the
  workers do not divide the rows, as 7 do not divide 4096 or 512, the last rows are
  never computed and stay as `calloc` made them. `MandelOk` asks for all rows; run
  `network` has a number of rows that the workers divide. With one more, as in the
  programs, `Apps = {"mandelbrot_odd"}` violates `AnswersRight`.
* `odd_even.c:110`: `bc_size / 2` rounds of two exchanges sort for an even number of
  processes only, and nothing checks that it is even: `Apps = {"odd_even3"}` violates
  `AnswersRight`.
* `mva.c:137`: a process goes by the smaller of its own error and the largest of the
  others. Two processes then agree when to stop; three need not, and whoever goes on
  waits for whoever has stopped: `Apps = {"mva3"}` violates `ProgramsEnd`.
* `coll_scatter.c:55`: only the root does the ten rounds that warm up, one message each,
  and the others answer every second message: all wait in the first.
  `Apps = {"scatter"}` violates `ProgramsEnd`.
* `replicate.c:101` lowers the channel's count when a consumer leaves, but not the
  counters of the units it has not read: the producer waits for a consumer that is gone.
  `replicate` violates `ReaderBlocks`.
* `branch.c:312` reads the data type from a freed channel block. If the block
  belongs to another channel by then, that channel's data type loses a
  reference: `channels` with `EarlyReuse = TRUE` violates `DtypeCounted` in five
  steps.
* A KILL that is served before its link exists reads a null pointer
  (`ltab.c:152`, or `176` when other links exist): `links` with
  `KillAfterGet = FALSE` violates `NoCrash`.
* With one buffer unit, producer and consumer of FARMN and NMC12M wait for each
  other: put waits for the counter of the unit it has just committed
  (`queue.c:792`, `596`), send for the producer to move on (`818`). `Progress` holds in
  the instances, which have three units, and fails with `Du = 1`.
* A get of several units from FARMN or NMC12M is answered with one
  (`queue.c:635`, `830`); the consumer waits for the rest.
* With one process there is no service thread to wake the manager
  (`threads.c:50-57`), and `bc_final` does not return.
* `coll_reduce.c:59` (`src/perf`, not built) begins with a get on both sides.
* `fft.c:231` adds the index of the bit to `step`, where its weight is meant; these
  agree up to 8 coefficients (the instance has 4). `fft_iperm.c:211` writes
  `plists[num_nodes]`, one past its array.
* `reduce.c:237` moves `temp`, which 240 frees.
* `src/examples/skeletons/pipeline.c:218` adds an index of ints to a `void **`: right
  with 4-byte pointers.
* `plist.c:102`: `bc_plist_create` does not write `valid`, so the set operations refuse
  its lists by chance. `plist.c:200` accepts the position `count`. Intersection and
  difference of lists in which a rank occurs twice are not what they are called, and
  the parts of an incomplete list are taken for valid, as is a list with unset entries
  by a channel: `plists` with `Careful = FALSE` violates `SetsAgree` and
  `ListsConsistent`.
* `bc_var` (`queue.h:160`) reads `vptr` through the layout of `bc_nmc121_s` whatever
  the ring is; the layouts agree where pointers have 4 bytes. The models describe
  that build.

## 6. Not modelled

* The destructors of NMC12M and FARMN, which look at `rc[1]` to `rc[du]` instead of
  `rc[0]` to `rc[du - 1]` (`queue.c:533`, `727`) before they free the ring: what they do
  depends on memory that is not theirs.
* NMC121: no role uses it.
* Partial reads and writes: `fdutils.c` loops until all bytes are through (and
  `service.c:45`, `64` would go wrong after a partial transfer); messages are atomic
  here.
* Failing sockets, failing `malloc`, processes that die: the library does not
  recover from them, so there is no behaviour to specify.
* In `Network`: the argument checks of `branch.c`, which only return errors; the
  locks and reference counts, which have their own modules; set-up and end,
  which have theirs. Lists made by `bc_plist_create` are taken as valid there.
* `src/perf/coll_reduce.c` (not built), the sides of the benchmarks that use MPI
  alone, `mpi_mva.c`, `pi_mpi.c`, the generators of input: they do not run the library.
* `bits.c` (one function that counts bits), `unique_shared.c` (not built), the memory
  manager, errors, timing, the reading of MPI variables, text formatting, build
  files: no interaction of parts.

## 7. Plan

1. **Core (done).** `MC121Queue` with proofs, `FarmQueue`, `NMC12MQueue`,
   `LinkTable`, `Channels`, `SocketSetup`, `Shutdown`.
2. **Composition and programs (done).** `Network` with dispatch, MC12M, collecting
   gets and reductions; the programs of the repository on it.
3. **Sequential algorithms (done).** `ProcessLists`, `Reductions`.
4. **Proofs (done).** The rings, the table of links, the channels, set-up, end and
   the process lists: every invariant and refinement of their runs. In `Network`
   what is worth stating for all values is said of all programs that use their
   channels in order; which these are has to be stated first.

Runs stay few: one passing run per module with a question of its own, and a violation
for the disagreements that bear on the assumptions of others.
