# A verification of soros

soros lets processes share data: a *registry* grants them read and write
access to keys, and a process that may read a key fetches the data from another
process (the *holder*) directly. A second registry can follow the first and
take over its clients. This directory holds TLA+ modules of the system, the TLC
runs that check them and proofs checked by TLAPS. Paths below are relative to
the crate's directory; line numbers are those of the modelled commit.

## 1. The system

| Component | State | Operations | Modelled by |
|---|---|---|---|
| `AccessManager` (`src/access_manager.rs`) | `key_states`: a queue of pending requests, the readers, the writer and the creator of each key; the channel of granted accesses | `create`, `delete`, `read`, `write`, `release` | `KeyStates`, `AccessManager` |
| Messages (`src/protocol.rs`) | none | the requests and responses of the registry protocol | `Protocol` |
| `RegistryServer` (`src/registry_server.rs`) | the open connections and their ids, the id counter, its `AccessManager`, the stream of the backup and of the primary, the request counter | the event loop: accept, read a request, answer it, deliver the grants it caused, forward it to the backup; stop, exit | `RegistryServer` |
| `ProtocolClient` (`src/protocol_client.rs`) | a connection, the id the registry gave it, whether it is connected to the primary | `new`, `registry_create`, `_delete`, `_read`, `_write`, `_release`, `_read_sync`, `_write_sync`, `_await_*`, `_stop`, the switch to the secondary, `p2p_read` | `ProtocolClient`; `Failover` (`new`, the switch), `DataSharing` (`p2p_read`) |
| connections | bytes in flight | delivered in order, or lost when an end closes | `Streams` (external) |
| registry and clients | | | `RegistrySystem` |
| primary, secondary and clients | two registries, the second fed by the first | forwarding, switching | `Failover` |
| `DataStore`, `P2PServer` (`src/p2p_server.rs`) | each process's own copies of the data | create, write, get; serve a read of another process | `DataSharing` |
| `src/bin/client.rs` | none of its own | the programs `p2p_client1`, `p2p_client2` | `DataSharing` |
| `src/bin/server.rs`, the benchmark, `scripts` | none of their own | arguments, timing measurements | no |

How they interact. A process owns a `ProtocolClient`; a blocking call writes a
request on the connection and reads one message, or two when the first is `Wait`;
an asking call (`registry_read`) returns as soon as there is something to read,
and an awaiting call (`registry_await_read`) reads it.
The server is one thread over mio: it takes one readable connection at a time,
parses one read of at most 256 bytes as one request, calls the `AccessManager`,
writes the response, then empties the manager's channel and sends every grant to
the process it names, then, if it is the primary, writes the request to the
secondary. The manager never waits for anything: a request that cannot
be granted goes into the queue of its key, and the release of the last access of
the key serves the queue (a writer, or the longest prefix of readers).
The secondary carries out what it is forwarded as if it came from the client, so
each server keeps its own queue and hands out the queued accesses by itself. The
primary, as written, exits after the first request it has forwarded, to
demonstrate the failover.

What is hard, and therefore what the properties are about:

* **Sequences of calls on one key.** `read` looks at the front of the queue
  only, `delete` not at the queue at all, `handle_requesting` runs only in
  `release`; that they fit together is a matter of the shapes the queue can have.
* **Two hops.** The registry decides, the answer travels, the client acts; the
  release travels back. In between they disagree about who holds a key.
* **Calls that give up.** A call that times out withdraws nothing: its request is
  executed, and its answers are read by the next call.
* **Requests that arrive together** are read as one message and lost.
* **Failures in the middle.** A response that cannot be written, a holder
  whose connection is gone, a grant that cannot be sent: each leaves part of the
  work of a request undone.
* **Clients that disappear** stay registered and queued for ever.
* **One read per event.** mio's poll is edge-triggered and `handle_data` reads once,
  so a close that arrives together with a request is never handled.
* **A server that ends** is the end of the stream for its clients, which
  `receive_message` does not recognise: it reads in a loop.
* **Forwarding after the fact.** Clients have their answer before the secondary
  has the request; what fails in between, or reaches the secondary in one read
  with the next message, is kept from it.
* **Failover.** The same request is executed by both servers, or twice by the
  second; the ids the two give out differ.
* **Data beside the locks.** Data is fetched without the registry; only the
  accesses keep a new version from being written meanwhile, and nothing keeps a
  reader from asking for data that is not stored yet.

What makes each component correct:

* `AccessManager`: a writer excludes everybody; nobody overtakes a waiting
  request, nobody waits without cause; a waiter is notified exactly once, in
  order; keys with holders or waiters are not deleted; every request is served
  if holders release; the holder that is named has the data.
* `RegistryServer` with its clients: what a client believes it holds is
  registered for it, so the lock excludes as seen by its users and not
  only inside the registry; what is registered reaches the client; calls return.
* Failover: the secondary follows the primary; a client keeps its accesses and
  its identity.
* Data: a granted reader gets the data of the last writer; the programs end.

## 2. The modules

```
Protocol --> KeyStates --> AccessManager --> FairLock (refined)
         |          \        |
         |           \       v
         |            `-> RegistryServer --+--> RegistrySystem --> DataSharing
         `--> Streams ---^                 |
                     `--> ProtocolClient --+--> Failover
MCAccessManager, MCRegistrySystem, MCFailover, MCDataSharing: finite instances

KeyStatesProofs --> AccessManagerProofs --> AccessManagerRefinement
                |-> RegistryProofs --> FaultFreeProofs
                |                  `-> DataSharingProofs
                `-> FailoverProofs --> HandoverProofs
```

**`Protocol`** has the process and key identifiers, the types of request, the
response messages, `StopRequest`, and the two messages only servers exchange
(`ConnectionEstablished`, `Ack`). Key names and JSON text are abstracted to
model values.

**`KeyStates`** is `struct KeyState` and what the manager's methods do to one
entry, as operators on a record: the tests (`Accessed`, `ReadMustQueue`, `Holds`,
`HolderChoices`), and the changes (`Enqueue`, `RegisterReader`, `RegisterWriter`,
`HandleRequesting`, `AfterRelease`). `holder()` returns the first
element of a `HashSet`'s iteration, hence a set of choices.

**`AccessManager`** has the map `key_states`, the channel `access_granted`
and the value the last call returned, `reply`. The methods take `&mut self`, so a
call is one action: `Create`, `Delete`, `Read`, `Write`, `Release`, with a
disjunct for each way out of the method; `TryRecv` is the receiving end of the
channel. Anybody may call anything at any time.

**`FairLock`** is what the manager promises, without entries or holders: a
first-come-first-served lock per key. A request is appended to the queue of its
key; the front of the queue is admitted as soon as it is compatible with those who
hold the key, and nothing else is ever admitted; the admitted who had to wait are
notified in that order. `AccessManager` refines it (`ImplementsFairLock`); the
mapping forgets creators and holders, and an error becomes a refusal.

**`Streams`** are the connections, as both ends use them. A connection is
named by the id the registry gave it. It is external: `std::net` and mio are not
in the repository.

**`RegistryServer`** instantiates `AccessManager` on its own variables.
`HandleRequest` is `handle_data` with `handle_request` up to the response, one
step, as nothing the single thread does in between is visible from
outside. The loop over the grants that follows is one step a grant (`SendGrant`,
`SkipGrant`, `AbandonGrants`), because clients run between two deliveries, and
so is the end of the request (`FinishRequest`: forward it, count it, perhaps
exit);
`serving` says whose request it is, and no other event is handled
before it ends. `HandleCoalesced` is a read that returns several requests,
`HandleClose` a read of length zero, `HandleStop` the order to stop,
`HandleLostConnection` a connection whose id cannot be written, which ends the server,
`HandleForwarded` and `HandleForwardedCoalesced` reads of what the primary sends.
`HasBackup` says whether the server is a primary; `ExitAfter` is
the number of requests after which a primary exits, 1 in the code. `process` is
"ended" after an exit or when `bind` has returned, by an order to stop or by an
error of `handle_connection`. `backup_stream` and `primary_stream` are the two ends of the connection
between the servers: what has been written and not yet read.

**`ProtocolClient`** has the call each client is in, the access it has asked for
and not yet awaited (`asked`), and the accesses its calls
have returned `Ok` for (`held`); the last two are what the owner goes by: a client has
no such fields. A call is of a kind: `sync`, `ask` and `await` calls as above,
and `resent`, a sync call whose request has been sent again to
the secondary. `CallGranted`, `CallWaits`, `CallReturns`, `AskReturns`,
`AwaitPutOff` are the messages a call
can read, `CallTimesOut` the peek or the read that fails after 5 seconds.

**`RegistrySystem`** composes them: each action is one of the server's or of a
client's. Its server is an instance of `RegistryServer` that has no backup, and
clients that have nothing to switch to. A client is named by the id it gets. It
adds the assumption on owners (`MayCall`, `MayAwait`, under the constant
`Disciplined`) and the bounds. Its server never ends (`HandleStop` and
`HandleLostConnection` are steps of `Failover` only): nothing would come after it. The history variable `overlapped` has the clients that
made a call when they were not *in sync* (`InSync`): with a request or message of
theirs unread, a request of theirs queued, a grant for them in the server's channel, or
an access asked for and not yet awaited.

**`Failover`** has two instances of `RegistryServer`, `P` with a backup and `S`
without, on variables `p_...` and `s_...`, with one connection `forwards`
between them, and the clients' ends at either server, `AtP` and `AtS`. A client
knows its connection (`registry_stream`: which server, which token), its
`proc_id` and `is_primary`. `StartAtPrimary` and `StartAtSecondary` are
`ProtocolClient::new`, whose connection to the primary is accepted or refused.
`SwitchToSecondary` is `switch_to_secondary` with the request that is sent
again: the token is new, `proc_id` and `is_primary` stay. A peek or read at a
server that has ended either fails, when the reset has come, or returns 0 bytes
at once, and then `receive_message` never ends (`Spin`); which of the two is a
matter of timing and a nondeterministic choice. `GiveUp` is a call that returns
an error, with no server left or because it already was in its second read.
`LoseConnection` is another client that connects to a server and is gone before it
is told its id.
Four history variables: `images`, the primary's `key_states` at each message
on its way; `diverged`, set when one server carries out what the other is not
told of, or out of order; `abandoned`, clients that did not wait for the answer to a
request; `surplus`, clients something may have come to that answers no request of
theirs: they came to the secondary before it had dealt with all the primary had to
say, or it sent them an error after an answer (`BeingServed`).

**`DataSharing`** extends `RegistrySystem` with the two programs of
`bin/client.rs` that share data, `DataStore` and `P2PServer`. Each process is at
a `step` of its program; `RequestAt` gives the call it makes there and `After` where
it goes on, by what the call returned. One process, `Creator`, runs `p2p_client1`
(create the key, store the data, create again, write, release), every other one
`p2p_client2` (read, fetch the data from the creator, store a copy, release, delete).
The statements that touch a store (`StoreInitial`, `Update`, `Copy`) are actions
between the calls, as are the connection to the creator's `P2PServer` (`Fetch`) and
its answer (`HandleFetch`). The sleeps of the programs order nothing for certain
and are left out, so the runs have every order the sleeps could give and more;
the writer's sleep of 5 seconds while it holds the lock makes timeouts of the
others likely, and they are part of the run.

The `Bug...` operators are wrong variants of the operator after them: the
mutations a property must notice, listed in `PROJECT.json`.

## 3. The runs

| Run | Question | Result |
|---|---|---|
| `access_manager` | `AccessManager` alone, 3 processes, 1 key, any calls: types, `ExclusiveWriter`, `IdleMeansNoWaiters`, `ReadersWaitBehindWriter`, `GrantsNameCreator`, the refinement `ImplementsFairLock`; is every queued request served when holders release (`NoStarvation`)? | holds, 68,156 states |
| `read_holder` | is a reader sent to a process that has the data? | no, finding 1 |
| `registry_system` | 3 clients, any blocking calls, no faults: `ClientExclusion`, `NoLeakedAccess`, `GrantsReachWaiters` | holds, 32,042 states |
| `registry_liveness` | 2 clients whose owners follow the protocol, with calls that wait and calls that ask first: does every call return (`CallsReturn`)? | holds, 74,109 states |
| `registry_faults` | 3 clients that keep to the protocol, a timeout and a process that ends at any point: what remains true of two clients beside a third that has given up a call? `InSyncBeliefsAreTrue`, `InSyncExclusion` | holds, 715,450 states |
| `registry_timeout` | `ClientExclusion` when one call times out | violated, finding 2 |
| `registry_lost_grant` | `GrantsReachWaiters` when one process ends | violated, finding 3 |
| `registry_starvation` | `WaitersAreServed` when one process ends | violated, finding 4 |
| `failover` | two servers, 2 clients that keep to the protocol; 6 calls, or 4 and a timeout, or 3 and an order to stop or a lost connection: does the secondary follow (`MirrorIsPastPrimary`), do accesses survive the end of the primary (`HeldSurvivesExit`), and do two servers exclude as one (`ExclusionAcrossExit`)? | holds, 332,867 states |
| `failover_order` | two servers, 3 clients that change over in any order, 4 calls, no faults: `HeldSurvivesExit` and `ExclusionAcrossExit` beside a client whose id and token differ | holds, 575,825 states |
| `failover_ids` | `ClientExclusion` over both servers, no timeouts | violated, finding 5 |
| `data_sharing` | the programs of `bin/client.rs`, one creator and two readers, a timeout: do readers have the current data (`CopiesAreFresh`), does everybody finish (`ProgramsEnd`)? | holds, 181,639 states |

Each property of a passing run is violated by at least one of the listed
mutations under the same configuration.

### What the runs on failover and data show, and what they except

* `MirrorIsPastPrimary`: until a client uses the secondary, its `key_states` are
  exactly those the primary had when it forwarded the last message the secondary
  has read, although grants are handed out by each server on its own.
* `HeldSurvivesExit`: when the primary has ended and the secondary has read what
  was sent to it, every access a *reliable* client was told of is registered there,
  even those told before the request was forwarded.
* `ExclusionAcrossExit`: no two reliable clients believe in accesses that exclude one
  another, be they both with one server or one with each: the secondary grants from
  its copy while clients that have not switched hold what the primary gave them, or
  have yet to read that it did.
* All except `diverged`, which is true once
  1. the primary carries out a request and does not forward it, because its
     response is an error (a reader whose holder is gone is registered all the
     same) or cannot be written, a grant cannot be delivered, or the secondary
     is gone;
  2. the secondary loses messages that arrived together;
  3. the secondary carries out a client's request before it has read all the
     primary had to say (a client that switched early). Without this exception
     TLC finds, for instance, a read that is sent again and answered before a
     release that was forwarded, so the order of the two is not the primary's.
  The comment at `src/registry_server.rs:409` names a limit of this kind: the
  server is supposed to fail only between requests.
* `HeldSurvivesExit` and `ExclusionAcrossExit` also except clients in `abandoned`. They get there by
  switching while the server that has their request is running, which carries it
  out as well: from a slow primary, or from a slow *secondary*, since `is_primary`
  is never reset and a client may connect to the secondary again. A release carried
  out the second time takes away the access its client obtained in between.
  Other ways are a call that returns without an answer, and `registry_stop`, which
  waits for none.
* And they except clients in `surplus`. A client that waits at the primary is granted
  its access there, and once more by the secondary when that carries out the release
  the grant came of. Usually nobody has the token yet and the grant is skipped; but
  if the client has switched by then, with its release, it takes the grant for the
  answer to that, and the answer to that for the one to its next request. The grant
  may come as late as with the next request the secondary carries out: when the
  primary has gone, its answer to the forwarded release may fail, which leaves the
  grant in the channel. The histories need six calls, which `failover` has:
  without the exception TLC finds the property violated. The code says as much of
  itself: "Mirror server cannot manage reconstitution of pending requests"
  (`src/registry_server.rs:408`).
  The other way into `surplus` is an error. The secondary answers a client's
  release and then hands out the access to readers in the queue; if the holder it
  names to them has not come to the secondary, the address is not found
  (`src/registry_server.rs:390`) and `handle_error` (`:266`) writes an error to the
  client of the release, which takes it for the answer to its next request, a
  write that is queued and granted later, say. This takes more calls than the run
  has; it was found when the inductive invariant of section 5 did not hold without it.
* And they except clients that the secondary knows by another's id (`KeepsId`): a
  client that comes as the n-th gets the token n, goes on under the id the primary
  gave it, and what is granted to that id goes to another connection. A client is
  *reliable* (`Reliable`) if it is neither in `abandoned` nor in `surplus` and, once
  it has switched, its token is its id. The others are only excepted themselves: the
  properties are about the reliable ones beside them. `failover_order` has three
  clients for this: one that is known by another's connection, one that is not, and
  one with the primary still.
* Both hold only as long as everybody has started at the primary (`AllPrimary`): a
  client that starts at the secondary may get the id of another, and the two then
  free each other's accesses. This is finding 5.
* `CopiesAreFresh` excepts readers that went on after a call of theirs timed out, and
  all of them if the creator did
  (`overlapped`): `let _ = client.registry_create(..)` ignores the error, and the
  late answer is taken for that of the next call, as in finding 2.
* `ProgramsEnd` excepts runs with a timeout, and runs in which a reader asks for the
  data too early (`failed`). The second case is real: `registry_create` returns, and the key
  is readable, before `datastore.create` is called; the `P2PServer` then
  logs an error and answers nothing, and `p2p_read` has no timeout, so the reader
  keeps its access for ever.

### Bounds

* **Processes and keys.** One key: the entries of the map are
  independent, and the properties are per key; only the channel is shared
  between keys, and it is emptied before the next request is handled. Three
  processes are the fewest with a holder, a waiter in front and a waiter behind,
  or a writer and a batch of two readers; runs about one client's view of
  its own stream or about liveness, and the longer histories of two servers, use
  two. `registry_faults` has three, as a client that is no longer in sync must be
  beside two that are; the owners keep to the protocol there (the one that is no
  longer in sync to what it believes) and one call times out.
  Two clients that make any calls, with two timeouts (so that one is two answers
  behind) and an end, were checked while the models were written (1,360,658 states);
  with any calls, any number of clients and any faults the properties are the
  theorems `BeliefsAreTrue` and `ExclusionInSync`.
  A variant of `registry_system` with
  two keys and two clients was checked while the models were written and
  holds as well; it is not kept as a run.
* **`MaxOutstanding`** bounds the queue and the channel together. In
  `access_manager` it is 2: with three processes a writer waits behind readers,
  readers behind a writer, batches of two are served and batches end at a writer
  behind them. The safety properties and the refinement were also checked with 3, by
  symmetry (208,489 states), and are proved for any queue. In the
  other runs it is 12, which is never reached: blocking clients
  cannot have that much outstanding.
* **`MaxUnread`** bounds, when a client makes another call, what is unread on
  its connection or queued for it. A client that gives up no call has at most
  its current request outstanding, or a second one beside an access it has asked
  for, so without timeouts 3 does not restrict it. With
  timeouts, 2 still lets a second request be written before the first is
  read, so that coalescing happens, and lets a stale answer be read by a later call.
* **`Timeouts`, `Leaves`, `Stops`** are the number of calls that give up, of
  processes that end, and of orders to stop and lost connections. In `data_sharing` `Leaves` is 3, as every program ends.
* **`Asks`** lets owners use the calls that do not wait. It is set in
  `registry_liveness`, whose question they make harder: an owner that is told to
  wait releases what it has before it awaits the access, as `advanced_usage` of
  `bin/client.rs` does.
* **`Calls`** bounds the calls of all clients of a failover run together. Four are a
  create, two writes of which the second waits, and the release that serves it; six
  add the release of the second and another request, the fewest in which a second
  grant of the same access does harm.
* **`ExitAfter`** is 1 in the code, a demonstration: a primary that exits after the
  first request. `failover_ids` uses that value; in `failover` it is 4, so that the
  primary has queues, releases and grants before it exits, and 3 in
  `failover_order`: a create and two reads, so that two clients share an access.
  Orders to stop and lost connections end it, and the secondary, at any earlier point.
* **`ProcId`** in the failover runs is also the number of connections a server
  can accept, 3: all three clients, or two and one that connects again.
* **Symmetry** over processes is used in runs of invariants and of properties
  of single steps only, not with liveness. **`VIEW StateButReply`** leaves
  out `reply` in the registry's safety runs: there it is only used within the
  step that assigns it. **`VIEW StateView`** of `MCFailover` leaves out that, what a
  server that has ended cannot use any more, and history that no property
  looks at any more.
* **`CONSTRAINT OneFaultOrMoreCalls`** of the failover runs follows a history with a
  timeout for four calls, one with an order to stop or a lost connection for three
  (the fault comes before, between or after them), one without for six, two of them
  after the end of the primary. While the models were
  written, `HeldSurvivesExit` was also checked with 8 calls and no fault, and with 4
  calls and both; and the invariant of its proof with a primary that exits after
  three requests and four calls, one timeout and one order to stop, without `VIEW`.
* **`CONSTRAINT Undecided`** of the failover runs cuts behaviours after their first
  state in which `diverged` is true, somebody has started at the secondary, or the
  secondary serves alone and no client that has started is reliable: all are
  permanent, and the properties then hold by their exceptions. Only `TypeOK` loses
  states by it (it is proved).
* **`CONSTRAINT InSyncPairLeft`** of `registry_faults` cuts them likewise, once
  fewer than two clients are in sync and have not ended; **`ConnectedFirst`** has the
  clients connect before the first call, as it makes no difference when they do.
* **Deadlock** is checked for `AccessManager`. The registry system may really
  stop: a call that waits for an access its own client holds never returns. So
  may the pair of servers, when both have ended, and the programs, when they have.

### Fairness

* `AccessManager`: `WF(ReleaseHeld(p, k))`, which is the duty of the callers, and
  `WF(TryRecv)`: the server empties the channel in a loop after each request.
* `RegistrySystem`: `WF(HandleGrants)`, as the loop over the grants does not
  block; `SF(HandleData(p))`, as one `poll` returns every connection that is ready
  and the loop handles each of them, while between two polls the action is
  disabled (so weak fairness would not do; for closes it asks more than the
  edge-triggered poll gives, which matters to no passing run); `WF(ReadMessage(p))`, as a client in a
  call is blocked in a read. Strong fairness of the release of what is held and
  of `AwaitAccess`, because the owner may make other calls in between: both are the
  owner's to do. Nothing is assumed of the
  other calls, of timeouts or of processes that end.
* `DataSharing`: `WF(Progress)`, that something happens as long as something
  other than a timeout can. The programs are straight lines and every step
  uses up something, so there is no behaviour in which some parts run for ever and
  others starve, and nothing stronger is needed.
* `Failover` has safety properties only. A client that spins never returns, so
  "every call returns" is false there from the start.

## 4. Findings

1. **A first reader is told it is itself the holder** (`read_holder`). `read`
   registers the reader and then looks for a holder, and finds the reader it has
   just registered (`src/access_manager.rs:211`), although the holder is meant to
   know the data (`:64`, `src/protocol.rs:37`).
2. **Two clients believe they may write the same key** (`registry_timeout`). A
   call that gave up leaves its answer in the stream. The next call is a write
   whose request is queued, but it reads the late `Success` and returns `Ok`
   (`src/protocol_client.rs:314`). `registry_faults` shows the limit of the damage:
   a client for which nothing of an earlier call was under way whenever it made a
   call never believes in an access it does not have, whatever the others do; and
   the theorem `BeliefsAreTrue` shows it for any number of them.
3. **A grant to waiting readers is lost** (`registry_lost_grant`). It names the
   creator of the key as the holder; if the creator has disconnected, the
   conversion of its id to an address fails, which ends `handle_request`
   (`src/registry_server.rs:390`): the readers are registered, and none is told.
4. **A process that ends keeps its accesses** (`registry_starvation`).
   `remove_client` (`src/registry_server.rs:449`) does not tell the access manager,
   so those who wait behind it wait for ever, without any other fault. The
   counterexample is a fair behaviour: every event is handled, nothing is left to do.
5. **After a failover two processes have one id** (`failover_ids`). The secondary
   counts ids from 1 again (`src/registry_server.rs:189`; taking over the primary's
   counter is commented out at `:295`), and a client that switches keeps the id the
   primary gave (`src/protocol_client.rs:287`). A client that starts at the secondary
   before one of the primary has switched gets that one's id. In the counterexample
   both then read as process 1; the first one's release frees the access of both, and
   it is granted the write while the other still believes it may read. (With two more
   calls both believe they may write.) `src/protocol.rs:4` and `:54` call the id unique.

## 5. The proofs

Every theorem is about all values of the constants: any sets of processes and
keys, finite or not, any bounds on what is outstanding.

### The manager (`KeyStatesProofs`, `AccessManagerProofs`)

For every sequence of calls:

* `TypeCorrectness`: `Spec => []TypeOK`; in particular only reads and writes
  are queued, so that the `panic!` of `handle_requesting` is never reached;
* `WriterExclusion`: `Spec => []ExclusiveWriter`;
* `IdleKeysHaveNoWaiters`: `Spec => []IdleMeansNoWaiters`, the reason why
  `delete` need not look at the queue;
* `ReadersQueueBehindWriter`: `Spec => []ReadersWaitBehindWriter`, the reason why
  `read` need only look at the front of the queue;
* `QueueGrantsNameCreator`: `Spec => GrantsNameCreator`.

None of the three invariants is inductive without the others: a
writer is registered from the queue of an entry nobody accesses, so exclusion
needs to know when that happens; that the queue of such an entry is empty depends
on every release serving the front of the queue; and that readers are let in only
when nobody waits in front depends on what can be queued while there are
readers. `EntryInv` is their conjunction on one entry, and `IInv` says that
the state is well typed and that `EntryInv` holds of every entry of the map. `InitIInv` and
`StepIInv` prove it inductive, with one step per call; what each call does to an
entry is a lemma about an operator of `KeyStates` (`EnqueueKeepsInv`,
`RegisterReaderKeepsInv`, `RegisterWriterKeepsInv`, `AfterReleaseKeepsInv`), in
`KeyStatesProofs`, because the registry's proofs need it too. (It also has what
serving the front of a queue means for one process: `Cut`, `Joins` and the lemmas
`CutNone`, `JoinNone`, `JoinOnce`, `CutOrJoin` count how often the process is in the
queue and in the channel.) The
one with content is `HandleRequestingKeepsInv`: the batch that is served is the
longest prefix of reads, for which `ReadBatchPrefix` takes the least position that
holds no read (`LeastElement`, by well-founded induction).

### The manager implements the lock (`AccessManagerRefinement`)

`Refinement`: `Spec => ImplementsFairLock`. Each call of the manager is one step of
`FairLock`, and the proof names the number `n` of requests the lock admits in it:
none when the request is queued (`QueuedAdmitsNone`: neither it nor anyone in front
of it is compatible with the holders), one when it is granted at once (`AloneAdmitsOne`:
`IInv` says that then nobody waits), none when a reader leaves others behind
(`LeftoverAdmitsNone`), and `ServedCount` when the last access is released
(`ServeAdmits`: no more than that could be admitted either). `HoldingAfterRegister` and
`HoldingAfterSurrender` say that a call changes the accesses in force by just
the one it is about, `SetEntryBar` that other keys see nothing of it,
`NoticesOfGrants` that the grants are the notices, in queue order.

### The registry with faults (`RegistryProofs`)

For any number of clients, keys, timeouts and processes that end, with requests
lost to coalescing, grants skipped or abandoned and closes unhandled, with the
calls that wait and those that do not, and whether or not the owners keep to the
protocol:

* `RegistryTypes`: `Spec => []TypeOK`;
* `BeliefsAreTrue`: `Spec => []InSyncBeliefsAreTrue`;
* `ExclusionInSync`: `Spec => []InSyncExclusion`, from the former and the
  exclusion of readers and writers inside the registry (`EntryInv`).

The invariant is `RInv`. That a client believes only in registered accesses is not
inductive: a message in its stream may be about to make it believe in another one.
`OneThread` says that everything under way for a client that has always been in
sync (requests, places in queues, grants, messages, the call it is in, what it has
asked for) is of one request, of type `t` for key `k`, and that what grants it
an access, a grant in the channel or a message in the stream, is there only while
that access is registered; and that a client that is releasing `k` no longer
believes in an access to it. The last is why the registration cannot vanish under
a belief: only the client's own release ends it. The steps of the invariant are
those of `Next`, and for a request those of the manager (`CallGoes`, `CallReplies`,
then one lemma for each part of the state a call can change: `CallKeepsRegistered`,
`CallKeepsQueued`, `CallKeepsGrants`).

### The registry without faults (`FaultFreeProofs`)

Under the hypothesis `NoFaults` (no timeout, nobody ends, and only the calls
that wait), whatever the owners call, on any keys:

* `FaultFreeInvariance`: `Spec => []FInv`;
* `ClientsExcludeEachOther`: `Spec => []ClientExclusion`;
* `NoAccessLeaks`: `Spec => []NoLeakedAccess`;
* `EveryGrantArrives`: `Spec => []GrantsReachWaiters`.

Each is false with the faults (findings 2 and 3; a call that gives up leaves an
access behind it does not know of), so the hypothesis says what they depend on.
`FInv` adds to `RInv` that each client is at one of six stages, `Idle`, `Sent`,
`Answered`, `Waiting`, `Granted`, `Delivered`, in each of which exactly one thing
is under way for it, that what is registered is believed in or on its way there
or back (`Accounted`), and that every client that takes part stays connected, so
that no delivery of a grant fails (`Connected`). From the stages follows that a
client is in sync when it makes a call (`IdleInSync`): nobody is ever in
`overlapped`, and `ExclusionInSync` is about everybody. TLC checked `FInv` as an
invariant, with three clients on one key and with two clients on two keys, before
it was proved.

### The data (`DataSharingProofs`)

For any number of readers, any timeouts and any process that ends:

* `SharingTypes`: `SharingSpec => []DataTypeOK`;
* `CopiesStayFresh`: `SharingSpec => []CopiesAreFresh`.

`SInv` adds to `RInv` where each program is and what it has: a program is at a step
at which it uses the data only while its client believes in the access the step needs
(`Believes`), nobody is answered before the creator has stored its first value
(`NothingBeforeStore`), an answer comes once (`AnswersComeOnce`), and what has been answered or
copied is what the creator has (`Current`). The step with content is the creator's
`Update`: it believes in its write access, so by the exclusion of clients in sync
(`BeliefsExclude`) no reader that is in sync is fetching or has a copy it still relies on. The
first `datastore.create` is different: it happens without any access, and is
harmless because nobody can have been answered before. TLC checked `SInv` as an
invariant of `data_sharing`.

### Two servers (`FailoverProofs`)

For any number of clients, keys, calls, timeouts, orders to stop and lost connections,
whichever server ends when:

* `FailoverInvariance`: `Spec => []Inv`;
* `FailoverTypes`: `Spec => []TypeOK`;
* `MirrorIsFaithful`: `Spec => []MirrorIsPastPrimary`.

`MirrorIsPastPrimary` speaks of one end of the stream between the servers. Its
inductive form, `Replicates`, speaks of all of it: the secondary's map is the first
of `images`, each forwarded message makes of its image the next, and the last image
is the primary's map, or would be but for the one request that is served and not yet
forwarded. The argument is that what a message does to a map is determined by both
(`EffectOf`): the manager chooses only which holder it names in an answer
or wakes (`Goes`, proved of each server by `PrimaryCalls` and `SecondaryCalls`). So
the grants each server hands out by itself, delivered or not, change nothing in the
copy, and neither do the clients that come, switch or give up. What is left is what
`diverged` names: messages that are not forwarded, lost on the way, or overtaken by
a client's (`PrimaryRunsKeeps`, `MirrorKeeps`, `SecondaryRunsKeeps`). The
types need one thing besides: a primary that ends is serving nothing, and has counted
no further than `ExitAfter` (`EndsBetweenRequests`).

### The exit of the primary (`HandoverProofs`)

For any number of clients, keys, calls, timeouts, orders to stop and lost connections:

* `HandoverInvariance`: `Spec => []HInv`;
* `HeldSurvives`: `Spec => []HeldSurvivesExit`;
* `ExclusionSurvives`: `Spec => []ExclusionAcrossExit`.

The latter two have the hypotheses of the properties: no change was kept from the
secondary (`~ diverged`), nobody has started at it (`AllPrimary`), and they speak of
reliable clients (`Reliable`), whatever the others do and in whatever order the
clients switch. Finding 5 shows that `AllPrimary` is needed, section 3 the others.

Neither property is inductive: a message a client has yet to read may make it
believe in another access, and a request under way may change the map. `HInv` is
`Inv`, `EntryInv` of every entry of both maps, and, as long as everybody has
started at the primary:

* whose the ids and connections are (`Ids`), which requests may be unread at which
  connection (`Named`: at the secondary, only those of clients that have come to it),
  and that nothing is there of an id before it is given (`Fresh`);
* unless `diverged`, that every client in neither `abandoned` nor `surplus` is
  `Settled`: it is in a `Stage` of its call with the server it is with, if that is
  the primary or knows it by its own id.

`Stage` is one definition for both servers: it speaks of a map, a channel and two
streams. Exactly one thing is under way for the client (`Idle`, `Sent`, `Answered`,
`Told`; a grant that could not be sent leaves nothing), a message that may be taken
for a grant is there only while the access is registered, and what the client holds is
registered. The lemmas about a pass of a server's loop are of the same kind: `Carries`,
`Drops`, `Hands` and `Leaves` are what a pass can do to these variables, whichever
server's they are (`PrimaryPass`, `SecondaryPass`), and `LoopStage` takes
a client from stage to stage through any of them. The one pass it does not
cover is the error after an answer, which is why that is in `surplus`.

Between the servers lies the switch. A client at the primary is `Settled` only if,
once the primary has ended and all it said is read (`Handed`), the secondary has
what the primary had registered for it, and nothing queued for it that was not queued
there (`KeepsUp`). In the step that hands over, the maps are equal
(`EqualAtHandover`, from `Replicates`); after it, the secondary changes its map for
clients that have come, under other ids (`SecondaryKeepsUp`). A client
that switches is peeking, so no answer has been read, and as its stream is empty it is
`Sent` at the primary: its request was not read there, nothing is going to come
for it, and `KeepsUp` makes it `Sent` at the secondary (`SwitchSettles`). TLC checked
`HInv` as an invariant before it was proved; the first attempts failed and led to
the second part of `surplus`.

`HeldSurvives` reads off the stages; `ExclusionSurvives` adds that, before the handover
as after it, all these clients' accesses are registered in one map
(`HInvHolds`), the primary's or the secondary's, whose entries exclude
(`RegisteredExcludes`).

### Assumptions

`NoProc`, `NoEntry`, `NoCall` and `NoKey` are not processes, entries, calls
and keys (`NoProcAssumption`, `NoEntryAssumption`, `NoCallAssumption`,
`NoKeyAssumption`): they are the `None` of an `Option`, the absence from a map, and
"in no call". A client is named by the id it gets (`ClientsAreNamedByIds`).
`Timeouts` is a number (`BoundsAssumption`); nothing is assumed of the other bounds.
`DataSharing` has a creator among the processes, and a key (`CreatorAssumption`,
`KeyAssumption`). The primary of `Failover` handles at least one request
(`ExitAfterAssumption`; one in the code), and the token of the connection between
the servers is not the id of a client (`PrimaryTokenAssumption`: as long as fewer than
999 connections have been accepted, see section 6).

### Only model-checked

Liveness (`NoStarvation`, `CallsReturn`, `ProgramsEnd`) is out of the prover's reach, as it needs
fairness and `ENABLED`. Every invariant and every property of single steps of a passing
run is a theorem, and `ImplementsFairLock`, which states no fairness, with them.

## 6. Not modelled, and why

* **The fixed tokens.** The secondary is registered under token 999 and the
  primary under 1000; `id_counter` reaches both after about a thousand
  connections. A property would restate the arithmetic.
* **The first connection.** A server without backup takes its first connection
  for the primary's and never answers it (`src/registry_server.rs:175`). In
  `Failover` the primary has connected before clients come, and `RegistrySystem` is
  the same server once the primary has gone.
* **`DataStore::delete`** has no caller, and nobody asks the `P2PServer` of a
  reader (the programs replace the holder's address by the creator's).
  What the registry names as the holder is the subject of `GrantsNameCreator` and of
  finding 1.
* **`basic_usage` and `advanced_usage`** of `bin/client.rs` are not called by `main`. Their
  sequences of calls on one key are among those of `RegistrySystem`.
* **Two keys in the calls of one client.** A grant that is asked for and not
  awaited can then be taken for the answer of another call
  (`src/protocol_client.rs:270`, `:375`). With the one key of the runs an owner that keeps to
  the protocol cannot meet this, and a client that waits for a key it holds itself is excluded by
  `MayCall`.
* **`src/bin/server.rs`, the benchmark and the plot**: arguments, timing; the
  benchmark is written against an older interface.
* **Text and sockets.** JSON is not modelled. A message is written whole
  (the code writes a short message with `write_all`; a full socket buffer is left
  out). Requests that were written before the server reads may be read together; a client
  reads one message at a time: every response is longer than the 32 bytes that
  `receive_message` reads at once, so it never holds two whole ones.
  A client reads its id as soon as it is accepted, or is never heard of again
  (`LoseConnection`). When the secondary reads several forwarded messages at once, the
  last may be cut and its rest spoil the next read; the model loses whole messages only,
  after which the copy has diverged as well.
* **A write that fails.** `registry_send_request` then changes to the secondary even if
  there is an unread message in the old stream (`src/protocol_client.rs:313`);
  `SwitchToSecondary` does so only when there is none. Clients in neither `abandoned`
  nor `surplus` have none when they make a call, so this is about clients that the
  properties except anyway.
* **Refusals of `FairLock`.** Its state does not say which operation was called, so
  `Refuse` is always possible: the refinement does not show that an operation is refused
  only when it must be.

## 7. Plan

Done: the manager with its abstract lock, the registry over
connections with all calls of the client, two servers with failover, the data and the
programs that share it; the proofs of the manager, of its refinement, of the
registry with its clients, of the shared data, of the secondary as a copy and of the
exit of the primary. Open, in this order:

1. The start of a server without backup whose first connection is a client's.
2. Clients with two keys in `RegistrySystem`, for the grant that is asked for and taken
   for another call's answer.
3. What the clients in `surplus` may still rely on.
4. What holds beside clients that start at the secondary (`AllPrimary`).
