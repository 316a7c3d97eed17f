# Verification of vyatta-route-broker

The route broker takes route changes from one publisher, keeps the newest
message for each route, and hands them to clients (the kernel, dataplanes) that
each read at their own speed, most urgent routes first. `brokerd` feeds it from
the kernel's notifications and from zebra's FPM connection.

This directory holds TLA+ models of that code, the configurations that check
them with TLC on small instances, and proofs checked by TLAPS for instances of
any size. `PROJECT.json` maps each definition to the lines it models and lists
runs, mutants, hazards, findings and theorems.

    tlc -workers 2 -config RouteBroker.cfg MCRouteBroker
    tlapm RouteBrokerTheorems.tla

## The system and its parts

| part | source | state | operations | models |
|---|---|---|---|---|
| broker list | `broker/broker.c` | a list of objects and client cursors, an id per entry, a delete flag | add, update, delete, delete now, client create / delete / get data | `CircleQ`, `BrokerOps`, `Broker` |
| route table | `broker/route_broker.c` | one broker per priority, hash table by topic | publish (new, raised, updated, deleted), client create / delete / get data, show walk | `RouteBroker`, abstractly `RouteFeed` |
| threads and wakeups | `broker/route_broker.c` | mutex, `client_list`, a condition per client | publish and wake, show, wait with timeout, link and unlink of a client | `RouteBrokerSync` |
| dataplane control | `broker/route_broker_dp_ctrl.c` | table of dataplanes, each with its actor | CONNECT, KEEPALIVE, shutdown | `DpSessions` |
| dataplane data | `broker/route_broker_dp_data.c` | a socket (static!), an actor pipe | start, publish, retry, stop | `DpSessions` |
| kernel client | `broker/route_broker_kernel.c` | a thread | create, consume, cancel, join | a client of `RouteBrokerSync`; `Lifecycle` |
| start-up, shutdown | `object_broker_init_all`, `_shutdown_all` | the threads and brokers that exist | init, shutdown, `broker_delete` | `Lifecycle`, which extends `DpSessions` |
| topics | `broker/topic.c` | none | `route_topic` | `Rtnl` |
| brokerd | `daemon/broker_main.c`, `daemon/broker_process.c` | two sockets, place in `main` | connect, bind, filter, dump, poll, process | `Daemon`, `Rtnl` |
| FPM framing | `daemon/fpm.h`, `broker_process_fpm`, `process_nlmsg` | a buffer, an offset | receive, check, walk | `FpmStream` |
| netlink wrappers, configuration file, logging, test programs | | | | not modelled |

The publisher calls `object_broker_publish`; the library takes one mutex, changes
the lists and wakes the clients that have data. A client's thread calls
`route_broker_client_get_data` in a loop. The control thread starts one such
thread per dataplane and stops it when the dataplane connects again or the
broker shuts down.

What makes it hard: cursors are entries of the same list as the objects, and the
code decides some things by list position and others by id; deleted objects
live until the last reader has passed them; a route may move between lists while
clients are in the middle of both; `client_list` is changed without the mutex;
the data threads share a static socket; the kernel's thread is cancelled wherever it
is, also while it waits with the mutex; brokerd merges two streams that have no
order between them, one of which is a stream of bytes that it has to cut itself; it can
lose notifications and starts over on any error.

## The models

**CircleQ** gives `sys/queue.h` lists as sequences. **BrokerOps** gives every
operation of `broker.c` as an operator from a broker to a broker, so that
`Broker` (one broker under all sequences of calls) and `RouteBroker` (one broker
per priority) use the same text. A broker is a record of its list `list`, the
broker's `id`, the ids `eid` of objects and cursors, the flagged objects `del`.

**RouteBroker**: each action is a critical section of the mutex. `rib` is the
contents of each `struct rib_route`; a `NULL` message is a delete. The reference
count is implied: it is 1 while the route is in a list. `rib_route_delete`, which
takes the topic out of the hash table whichever route holds it, is `Unhashed`.
`table` (last published) and `view` (what a client has read) are history
variables. **RouteFeed** is the promise: a table, and for each client a set of
topics still to read; reading gives the newest.

**RouteBrokerSync** reduces the data to "how many changes has a client read" and
keeps the threads: insertions into and removals from `client_list` are the
separate memory accesses of the macros, and the walks that wake clients and that
show them take one entry at a time. `raced` is a history variable: whether the list
was used by two threads at once, and whether one of them was removing a client. A
removal after insertions that raced counts as one that raced: two clients that were
inserted before the same one both point to it, and only one of them is told when
that one goes.

**DpSessions** has the control thread and the data threads, with the waits of
`zactor_new`, `zstr_recv` and `zactor_destroy`. **Lifecycle** extends it with the
thread that starts and ends the library and the kernel's thread. The mutex is
`held` for good when that thread is cancelled in `pthread_cond_timedwait`, and
every step that takes the mutex needs it not to be.

**Rtnl** is the way of one message into the broker, as functions: `process_rtnl`'s
rewriting of scope, type and table, the priority, and the topic, a tuple of the
values that the code prints (as built with MPLS and without routing domains).
**Daemon** has kernel, zebra, the two sockets and `main`; the broker is reduced to
the level at which it holds each topic (`rib`), and a dataplane to the next hop it
has once it has applied, to an empty table, all that this process published (`fib`).
What a dataplane still has from before a restart of brokerd is its own concern and not
modelled. The dump reads IPv4 before IPv6 and completes, fails and ends the program,
or is cut short: `mnl_cb_run` returns an error, the loop ends as it does after the last
route, and `main` goes on. The history variable `missed` has the routes that were
skipped that way and that no notification has named since. **FpmStream** has the bytes of the FPM connection by their
positions, `recv` that returns any part of what is asked for, the header checks,
and the walk over the messages of a frame with lengths modulo `SizeT`.

Two constants separate what holds in general from what holds when an environment
behaves:

* `RaisedDeletes`: the topics that may be deleted at a more urgent priority than
  their route has. `Steady` are the others. The library accepts such deletes; brokerd
  does not make them for a destination that is announced with one protocol only
  (`DeletesNotRaised`; the destinations with two are `Mixed`).
* `EarlyRoutes`: do routes of other protocols change between `bind` and
  `SO_ATTACH_FILTER`?

Abstracted: the text of topics (no topic reaches `ROUTE_TOPIC_LEN`), allocation
failures (except for a dataplane session; a message that cannot be allocated
changes nothing), statistics, logging.

## Runs

Passing runs:

| run | instance | shows |
|---|---|---|
| `broker` | 3 objects, 2 clients, ids up to 5 | order of cursors and ids, no deleted object kept too long or freed unread, no change skipped |
| `route_broker` | 4 structures, 2 topics, one of them with raised deletes, 2 values, 2 priorities, 2 clients, ids up to 3 | lists, hash table and routes agree; urgent routes first; the show walk is complete; for the steady topic a sleeping client is in sync and `RouteFeed` is implemented |
| `route_broker_live` | 1 client, 2 topics, one with raised deletes | a client that keeps asking catches up with the steady topic; implements the fair `RouteFeed` |
| `sync` | publisher and show command, the kernel's client and a dataplane's that comes and goes, 3 changes | `client_list` is a ring, no wakeup is lost and no deleted client touched while it is not contended; insertions that race delay a client only |
| `lifecycle` | 1 dataplane, 2 threads, 2 requests queued, the kernel's client with up to 2 routes to read, with and without it | right endpoint, nobody unserved, control thread and shutdown never hang, nothing freed in use |
| `fpm_stream` | streams of up to 2 frames of 12 kinds, good and refused; frames up to 64 bytes, `SizeT` 256 | frames stay in step, the walk stays in the payload, each route once and in order |
| `daemon` | a connected route known to both sources, one that only the kernel has, a default route through either of two gateways, which the kernel also has, and a route without a topic; room for 2 notifications and 1 FPM message after the initial ones | converges through dump, overrun and restart, but for routes that a dump cut short left out, and so does a dataplane |

Violations, each about a sentence in the code (see `findings`):

| run | what happens |
|---|---|
| `hash_lost` | raised delete, addition, the first entry is freed: the live route is no longer in the hash table |
| `comes_back` | a route is deleted and published at a less urgent priority before all clients have read the deletion: it stays at the old one |
| `wake_deleted` | the publisher looks at a client whose cursors are freed |
| `shared_socket` | with two dataplanes a thread publishes on the other's socket, or on none |
| `no_kernel` | without a callback for the kernel, shutdown cancels a thread that was never created |

Other things met while modelling, which have no run of their own:

* A topic with raised deletes can have two routes at once, and a sleeping client can
  be out of sync for it: `HoldsTable` and `AsleepIsInSync` fail if they are
  stated for all topics.
* With no client connected the show walk ends at the first empty priority
  (`WalkCompleteWithClients` without its hypothesis).
* Two clients linked at once can lose one of the two from `client_list`:
  `NoLostWakeup` fails without `raced`. `CatchesUp` holds then because of the
  timeout; its mutant, a wait without one, breaks it.
* A cancelled kernel thread may leave the mutex locked. Shutdown still returns,
  since the control thread and its data threads have ended by then; the mutant that
  cancels first hangs. The client it leaves makes `broker_delete` return `-ENOTEMPTY`, so
  the brokers are then not freed, and `route_broker_destroy`'s result is ignored.
* With `EarlyRoutes = TRUE`, `Converged` fails: a stale zebra route stays.
* After a dump that is cut short brokerd runs on without the routes it did not
  come to, until the kernel changes them: `Converged` and `DataplaneFollows` fail in the
  instance of `daemon` if `missed` is left out of `AllGave`. With it they say that nothing
  else is missing and that nothing is stale.
* An ACCEPT that cannot be built or sent is not noticed: the session runs, KEEPALIVE is not
  answered as the dataplane is known, and one that connected again keeps an endpoint that is gone
  (`"gone"`, which `AcceptedIsServed` allows) until its next CONNECT.
* With a destination announced with two protocols (connected in the kernel, static
  in zebra), `DeletesNotRaised` fails without its exclusion of `Mixed`: brokerd then
  brings about the raised deletes of `hash_lost`. `Daemon` does not model what the
  library makes of them, so `Converged` and `DataplaneFollows` leave these topics out
  too; the instance has none. `Converged` is silent about a topic that only one of its
  two sources has.

`wake_deleted` only asks whether freed memory is reached; what the program does
afterwards is undefined, and the properties of `sync` say nothing once a removal has
raced. `ListIsRing` and `NoLostWakeup` also end with the first insertion that races; only
`WalksTouchLive` and `CatchesUp` go on after it. `ShutdownReturns` allows a crash without a
client for the kernel (`no_kernel`); with one, shutdown returns.

**Bounds.** Two clients are needed for one to overtake another, three objects for
one on each side of a cursor and one moving; the fourth structure in `route_broker`
is the second route that a raised delete makes. Two priorities are enough for a
route to be raised and lowered; the code treats neighbouring levels alike and
the proofs cover any number. `MaxId` bounds the changes in a behaviour: a history
of an addition, an update or a move, and a delete fits into it. Ids are 64 bits
wide and do not wrap in practice. `MaxInbox`, `MaxNl` and `MaxFpm` are socket
buffers; `MaxNl` is also what makes a notification get lost. What zebra sends when it
connects is not limited by `MaxFpm`, so the FPM socket still holds several messages.
Labels, multicast and cached routes are not in the instance of `daemon`; the theorems are
for any routes. In `sync` every client is
linked at the head, so the second client stands for any later one. In `fpm_stream`
nothing but the position is kept from one frame to the next, so that two frames show
what any number would. `lifecycle` has one dataplane because of the shared
socket: with two, `PublishesOnItsEndpoint` and `DoneMeansStopped` fail
(`shared_socket`); the other invariants of the sessions are proved for any number.
Deadlock is checked except where the program ends: `lifecycle`, `no_kernel`,
`shared_socket`, `fpm_stream`.

**Fairness.** Clients call `route_broker_client_get_data` in a loop: weak fairness
of that step. Getting the mutex is strongly fair: the POSIX mutex does not promise
it, but the publisher releases it between messages and the waiters are few. A
timed wait ends. In `Lifecycle` the threads run, but a send may
fail for ever and nobody has to publish or shut down; dataplanes keep sending KEEPALIVE,
as their protocol demands; `zloop` serves its two sockets in turn. In `Daemon` brokerd
and systemd run (`Restart=always`), and zebra connects. In `FpmStream` brokerd runs and
what zebra sends arrives, unless the connection ends.

**Symmetry** (of structures, clients and values; not of topics, which
`RaisedDeletes` tells apart) is used in `broker` and `route_broker`, never in a run
with a liveness property.

## Proofs

`BrokerOpsTheorems` has lemmas on the list operations and on each operation of
`broker.c`: what it does to the list, the ids and what clients have still to read,
and that it keeps `BrokerOK` (types, cursor order, no garbage).

`BrokerTheorems`, for any objects, clients and bound:

* The inductive invariant `IInv` is `BrokerOK(b)`, the type of the history
  variable and `BehindIsRead`. Cursor order is what is needed: without "a cursor's
  id separates the entries before and after it", neither the id comparison that
  frees objects nor the list walk that reads them could be shown to agree.
* `CursorsAlwaysInOrder`, `NothingEverLeftBehind`, `NoChangeSkipped`,
  `NoDeletionMissed`.

`RouteBrokerPublishTheorems` (what a message does) and `RouteBrokerTheorems`, for any
number of priorities, topics, values, structures and clients. The branches of
`object_broker_publish` are brought to one form: some routes of the topic leave the
lists (`gone`), at most one is put at the end of a level as unread (`add`), and every level
(`Level`), the routes and the hash table (`Rewritten`) change only in that. What follows is
proved from that form, once.

* `RouteBrokerSafe`: `SafeInv` (types, order in every broker, routes filed under
  their priority, live hash table, a cursor at every level), raised deletes
  included. It is inductive as it stands, one lemma per action.
* `NothingIsLost`, `SleepersAreInSync`: for the steady topics, whatever happens to the
  others, `SyncInv` adds that every route is hashed and the table is held (`HoldsTable`),
  and that a client has read what was published or has it pending. A sleeping client's ids equal
  the brokers', so by cursor order nothing is pending.
* `RouteBrokerImplementsFeed`: initial states map to initial states and each step to a
  step of the `RouteFeed` of the steady topics or to a stutter. A raised delete is a
  stutter: it must not disturb what the others have in lists, hash table and cursors.

That the topics are steady is needed: `hash_lost` shows what happens otherwise.

For all topics again: `UrgentIsFirst` (a read moves no cursor
but the one at the level it chose, and all levels before that were read to the end) and
`WalkIsComplete` (a connected client has a cursor at every level, so no list that
the walk comes to is empty).

`RouteBrokerSyncTheorems`, for any number of clients and changes:
`RouteBrokerSyncSafe`, the four invariants of `sync`. Its inductive invariant has

* `ListShape`: as long as no two threads used `client_list` at once it is a ring, or half way
  from one ring to the next, with the pointer that is still missing. A ring has no part
  that is closed without the head; that, and not a path, is what insertion and
  removal are shown to keep, since it needs no counting;
* `LeadsOn`: insertions that race lose clients from the list, but no pointer that is
  followed leads to one that was deleted;
* `ToWake`: a client that sleeps with data to read is ahead of the walk that wakes
  the clients: every set of entries that the walk cannot leave holds it.

`LifecycleTheorems`, for any number of dataplanes and threads:

* `NoThreadEscapes`, `EveryoneIsServed`: `DpInv` says that a thread exists exactly
  while one known dataplane owns it or the control thread waits for it, that only
  the awaited thread has `$TERM`, and what the control thread works on in each of its
  places.
* `SessionsInLibrary`: each step of the library is a step of `DpSessions` or a stutter.
* `OneDataplaneIsServed`: with a single dataplane (`SingleDataplane`), a data thread
  publishes on the socket whose endpoint it returned, and when the control thread is
  done nothing runs and nothing is open. `OneSocket` adds to `DpInv` that a session that is
  being closed was the only one and that the static variable is the open socket.
  The hypothesis is needed: `shared_socket` has two.
* `NothingFreedInUse`: `DpInv`, and that shutdown has come past the control thread only
  when it is done, and past the kernel's thread only when it is dead.

`DaemonTheorems`, for any routes, any room in the sockets, and any number of changes, lost
notifications, dumps that fail or are cut short, and restarts:

* `DaemonTypeOK`: types, together with `Polled` (a socket that is reported has
  something in it).
* `DaemonFollowsSources`: `Converged`, `DataplaneFollows` and `DeletesNotRaised`. The
  invariant has two parts. `Queues`: unless a notification was lost, the last message about a
  topic in a socket says what its source has now. `TopicOk`, for each topic: a
  dataplane forwards as a source says now or a message about it is in a socket; and if the broker
  does not have the topic, some source that may announce it does not have it, or has
  its message in a socket, or the dump has still to come to it, or was cut short before it
  did (`missed`). When both sockets are
  empty that is what the properties say. Hypotheses: `~ EarlyRoutes`, and `OneOwn`, the kernel
  has one route of its own to a destination; without the first `Converged` fails (above),
  and without the second a delete takes away the topic of a route that is still there
  (below).
* `DestinationsAreOnce`: `NoDuplicates`, which is about the rewriting alone. Hypotheses on what
  the sources give: the scope is universe, or link for the kernel's connected IPv4 routes
  (`KnownScopes`); the routes to a destination are in one table (`OneTable`; in two
  tables they are two routes and should have two topics).

`FpmStreamTheorems`, for any frames, any limit on their length and streams of any length:

* `WalkStaysInside`. The invariant `WalkInv` adds that the frame was accepted and that
  what remains of its payload is a whole number of words; that is why `fpm_msg_hdr_ok` must
  ask for alignment, since otherwise padding could be longer than what remains.
* `FpmTypeOK`: `buf` never overflows, whatever the headers say (`Reads`: how much is in
  it at each place of `broker_process_fpm`).
* `FramesAreKept`, when the header of an accepted frame gives its length (`HeadersRight`).
* `RoutesArePublishedInOrder`, when besides the messages that are read are padded
  (`Padded`): `InOrder` says between frames that all routes of the frames before were
  published, and during a walk also the ones before the message it is at.

Where frames and messages begin is a sum defined by recursion. That the sum exists,
and grows, is proved from the least number for which it would not.

The type invariants of `Broker`, `RouteBroker` and `Lifecycle` are parts of
`NoChangeSkipped`, `RouteBrokerSafe` and `LibraryTyped`; the runs of these modules do not
check them again.

The theorems rest on the named assumptions on the constants (`BrokerOps`, `Broker`, `RouteBroker`,
`RouteBrokerSync`, `DpSessions`, `Lifecycle`, `Daemon`, `FpmStream`), and on the hypotheses named
above where a theorem has one. The instances of the runs `lifecycle`, `daemon` and
`fpm_stream` satisfy these hypotheses.

Only model-checked: the liveness properties. Liveness under fairness and ENABLED are out of
the prover's reach. Every invariant and action property of a passing run is also proved.

## Not modelled

* The configuration file: two strings from an ini file, read once.
* Logging, the layout of the show output, statistics.
* The netlink wrappers, which pass calls on or copy and free messages.
* Allocation failure inside `route_broker_client_create`: the check there is of the
  array and never true, so the process faults at the next use of the cursor.
* A second start of the library after its shutdown. `broker_delete` frees a broker
  that stays linked in `broker_list_head`, which the next `broker_create` writes to.
* What the kernel does with a route it is given: a refused one is counted and
  dropped.
* How long a deleted route is kept for a dataplane that has gone without a word: there
  is no timeout on KEEPALIVE, and the models have no clock.
* Two kernel routes that differ only in metric or interface: they have one topic, and
  the delete of one deletes both. `Converged` is about topics.
* The test programs.
