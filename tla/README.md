# Verification of the C Link SDK clients and the random number service

The repository is a collection of tools and demos around vendored libraries.
The program of its own weight in it is the C Link SDK under
`src/Demo/CLinkSDKQuickStarDemo`: an MQTT 3.1.1 / MQTT 5 client for devices, an
HTTP client, a POSIX port layer and a demo. This project models the MQTT client
(`core/aiot_mqtt_api.c`, called "the client" below) and the HTTP client
(`core/aiot_http_api.c`, `core/utils/core_http.c`) as their threads run them, checks
the models with TLC and proves the central invariants with TLAPS. Paths below
are relative to `src/Demo/CLinkSDKQuickStarDemo`; a bare `:1234` is a line of
`core/aiot_mqtt_api.c`. The second program is the random number service of
`src/Demo/SocketRandom` (`server.c`, `client.c`, `sm3_srand.c` below), a server with
epoll and a thread for every event.

## 1. Inventory

| Component | State it keeps | Operations | Status |
|---|---|---|---|
| QoS 1 publishing | `packet_id`, `pub_list`, `last_send_time` of each node, `server_receive_max`, `pub_mutex` | `_core_mqtt_pub`, `_core_mqtt_repub`, `_core_mqtt_puback_handler`, `_core_mqtt_subunsub` (draws identifiers) | `MqttPub`, `QoS1Delivery` |
| Connection lifecycle | `network_handle`, `data_mutex`, `send_mutex`, `recv_mutex`, `disconnect_api_called`, `has_connected`, `disconnected`, heartbeat and reconnect timers, `lost_times` | `aiot_mqtt_connect`, `aiot_mqtt_disconnect`, `aiot_mqtt_disconnect_with_prop`, `aiot_mqtt_recv`, `aiot_mqtt_process`, `_core_mqtt_reconnect`, `_core_mqtt_heartbeat` | `MqttSession` |
| API gate and destruction | `exec_enabled`, `exec_count`, the handle itself | every API function, `aiot_mqtt_deinit` | `MqttExec` |
| Topic aliases (MQTT 5) | `tx_topic_alias`, `tx_topic_alias_max`, `tx_topic_alias_list`, `rx_topic_alias_list`, `topic_alias_mutex` | `_core_mqtt_tx_topic_alias_process`, `_core_mqtt_process_topic_alias`, `_core_mqtt_topic_alias_list_remove_all` | `MqttAlias` |
| Receiving and dispatch | the incoming byte stream, `sub_list` with a handler list per topic, topic maps, `sub_mutex` | `aiot_mqtt_recv`, the handshake in `_core_mqtt_connect`, `_core_mqtt_sub`, `_core_mqtt_unsub`, `_core_mqtt_append_topic_map`, `_core_mqtt_remove_topic_map`, `_core_mqtt_pub_handler`, `_core_mqtt_puback_send` | `MqttRecv`, `MqttTopic` |
| Packet codec | none (pure) | remaining length, variable byte integers, properties | partly: the framing of what is received, in `MqttRecv` |
| HTTP client | `network_handle`, `session` (how far a response is read), `token`, `exec_enabled`, `exec_count`, the response on the caller's stack | `aiot_http_auth`, `aiot_http_send`, `aiot_http_recv`, `aiot_http_deinit`, `core_http_connect`, `core_http_send`, `core_http_recv`, `core_http_deinit` | `HttpClient` |
| Port layer | sockets, mutexes, the clock | `portfiles/aiot_port/posix_port.c` | partly: the results the client sees |
| Global state, authentication, log, strings, SHA-256, diagnosis | `core_global`'s counter of users | `core/utils/*` | not modelled |
| Random number service | epoll instance, descriptors, `mtx` and `ev`, `spin_mtx` and the generator's `V`, a detached thread for every event | `main`, `Create_connect`, `Conmmunication_mask`, `Epoll_Ctl_ADD`, `Epoll_Ctl_DEL`, `srand_sm3_generate`, the client's loop | `RandServer` |
| TLS adapter, mbedtls, nghttp2, miracl, other demos | - | - | not modelled |

**How they interact.** The application runs at least three threads against one
handle (`demos/mqtt_basic_demo.c`): a loop around `aiot_mqtt_process`
(heartbeats, resending), a loop around `aiot_mqtt_recv` (reading, dispatching,
reconnecting) and the threads that publish, subscribe, connect, disconnect and
finally destroy the handle. They share the handle's fields under five mutexes,
some fields without one (`exec_enabled`, the event flags, `lost_times`,
`tx_topic_alias`, the lists of aliases when they are emptied). Packets kept in
`pub_list` outlive the connection they were built for. The HTTP client is
independent of the MQTT client; it shares the port layer and the pattern of its gate.
The random number service shares nothing with the SDK: its threads meet in the table
of descriptors, in the epoll instance and in the generator.

**What is hard here.** Closing a connection under another thread's blocking
read or write; values read before mutexes are taken and used afterwards
(`disconnect_api_called`, `network_handle`); a PUBACK that overtakes the rest of
the publish call; identifiers and quotas of 16 bits; broken links, half-open
connections, lost heartbeats, clocks that step back; reading that stops in the
middle of a packet or of an HTTP header and goes on from there; answers that come
after the call that asked has given up; handlers that run from copies while the
list they came from changes; destruction while calls are under way; events that
are told once and carry a number that may by then belong to another connection.
`PROJECT.json` lists each of these hazards at its line with the
properties that watch it, or says why none does.

**What makes each component correct.**

* Publishing: an accepted message is delivered or still kept; identifiers in the
  list are unique; the resending pass is not undercut by a PUBACK; the quota
  stays in its range; every accepted message is finally acknowledged.
* Connection: no handle is closed under a reader or a writer; the mutexes are
  taken in one order; calls return; after any failure the client is back on line;
  events tell the truth.
* Gate: `aiot_mqtt_deinit` waits for every counted call that had not just passed the
  test of the flag; a handle it could not free stays; the gate drains;
  `aiot_mqtt_deinit` returns.
* Aliases: a packet is never read as another topic than its own, in either
  direction.
* Receiving: bytes from the middle of a packet are never taken for a packet; a
  message reaches exactly the handlers whose filter matches; what was acknowledged
  was handled; what the broker holds is handled in the end.
* HTTP: a token comes from one whole, successful answer; a body is delivered for the
  request it answers; the gate counts right; calls and `aiot_http_deinit` return.
* Random number service: the blocking `accept` finds a connection; no block is given to
  two clients; who waits is answered or learns that the connection is gone.

## 2. Modules and the code

Each component has a module, a small `MC_` module for TLC and a `_proofs` module;
`MqttRecv_proofs` builds on `MqttTopic_proofs`, the theory of the topic comparison.
An action is one critical section of the code, or one access to shared state
outside of any mutex; `PROJECT.json` maps every definition to its lines.
Definitions with a suffix such as `RecvRemove_Wrong` are plausible mistakes in
the definition that follows them, kept to show that a property notices them;
no specification uses them.

### MqttPub and QoS1Delivery

`pub_list` is a set of packets `[id, msg]`, where `msg` is the number of the
publish call and stands for topic and payload. `due` holds the messages for which
`repub_timeout_ms` has passed since `last_send_time` (the code never updates that
time when it resends, and neither does the model). `pub_mutex` is a variable
because `_core_mqtt_repub` keeps it across several writes. A publisher goes through
`idle`, `packet_id`, `insert`, `write`, then `close` after an error, or `flow_test`
and `flow_dec` with flow control, exactly in the order of `_core_mqtt_pub`: the
quota is tested at the start, decremented after the write, and tested outside of the
mutex that protects the decrement. The stream is two FIFO queues; it may be
`torn` (the broker cannot parse what follows a partial write) or `dead`. Writes
succeed, end short or fail as `_core_mqtt_write` reports it.

`QoS1Delivery` is the promise without threads or identifiers: accept once, deliver
any number of times, complete only what was delivered. `MqttPub` implements it with
`pending <- {node.msg : node \in pub_list}`.

### MqttSession

A thread holds a program: the list of internal procedures left of its API call
(`connect`, `close`, `read`, `notify_disconnect` ...). Each mutex is a variable
with an owner, each `lock` a step; `hold[t]` is the network handle that thread `t`
has passed into a blocking call of the port layer. `session` distinguishes the
half-open connection that a timeout during the handshake leaves (`:1278`) from
an established one, `alive` says whether the peer still answers. `lost_times++` in
the process thread is a load and a store (`:2829`), and events are emitted in steps
of their own because the flags are read and written without a mutex.
Writers are threads that publish or subscribe: for this module they are writes with
a close after an error, which the process thread performs as well.

### MqttExec

A call is `check` (read `exec_enabled`), `inc`, `body`, `dec`, and for publishing
and receiving a `tail` that still uses the handle after `_core_mqtt_exec_dec`.
`pub5` looks at quota and aliases before the check, `bare` functions have no guard;
`Functions` chooses the kinds a run has. A subscription that runs out of memory returns
without decrementing (`:3357`), counted by `leaks`. `aiot_mqtt_deinit` clears the flag,
polls, tests `exec_count` once more (`DeinitTest` or `DeinitFails`), and then frees in
three steps, for nothing but time is between the test and the frees: `handle` is `whole`,
`torn` from the first free on (`:2624`), `unlocked` once the mutexes are gone (`:2669`),
`freed`. `_core_mqtt_exec_inc` succeeds as long as the handle is there: a call that has
passed the test of `exec_enabled` counts itself and works beside the frees. `caught`
keeps the threads that stood at that place when the flag was cleared. `Stray(t)` says
that the next step of `t` uses memory that is gone; its outcome is undefined: the step is
done as if nothing had happened, or the program fails (`StrayStep`).

### MqttAlias

The two lists are sequences of `[topic, alias]`; `PrefixOf` gives the pairs of
topics of which one is a prefix of the other, because the code compares over the
length of the new topic only (`:2915`). `alias_id` is a number modulo
`AliasModulus` (2^16). Lookup, increment, store and insert are separate steps.
The broker keeps one table per connection for each direction. `aiot_mqtt_recv`
handles a packet in three steps, and another thread may connect in between. The
lists are emptied without their mutex; a walk that meets this ends as if it had
come before or after (a use of freed memory is listed as a hazard).

### MqttTopic and MqttRecv

`MqttTopic` holds the pure functions: a topic is a sequence of characters,
`topic_compare` is the loop of `_core_mqtt_topic_compare` as a recursive function (for
each index of the filter, the indices of the name from which the loop goes on to a
match), and `Matches` states the rule of MQTT level by level, independently
of the loop. `EmptyLastLevel` names the one case in which they differ.

`MqttRecv` is the receive thread, byte by byte. The stream (`wire`, `pos`) is a
sequence of packets and how much of the first one is read; the thread does not see
the boundaries, it keeps a header byte and a running length (`frame`) as the code
does. Bytes of a payload may have any value, for example the ones that look like a
header. `frame.at`, `frame.size` and `frame.msg` say which bytes were really taken,
for the properties and to look up the message's topic; the switch of
`aiot_mqtt_recv` does not use them. The handshake reads the CONNACK with the same
functions and leaves the handle open on some of its error paths (`:1309-1339`), so
the next `aiot_mqtt_recv` starts in the middle of a packet. `sub_list` is the set
`nodes` of its topics and the set `entries` of handler nodes; a user changes it in one
step (under `sub_mutex`) and writes the packet in another one. Dispatch is `puback`,
`search` (copy under `sub_mutex`), one `RunHandler` for each copy, `PubDone`. The
broker keeps QoS 1 messages until their PUBACK and sends them again on a new
connection. Only aiot_mqtt_recv connects here: `MqttSession` has the other callers.

### HttpClient

A response is a sequence of parts: status line, Content-Length, empty line, units of
the body. The client reads whatever comes next; `session` is `core_http_session_t`,
`total` the local variable that carries Content-Length from the header to the body.
`HeaderGivesUp` is the timeout (or too long a line, or no memory) in the header: what
was read is lost, the rest of a line stays as `junk` or, without its line end, as
`glue` that runs into the next line. The body is read in chunks of at most
`BufferMax`; a chunk can be dropped for lack of memory (`core/aiot_http_api.c:37`), and so can the
header line with the length, which then only `core_http_recv` knows
(`core/utils/core_http.c:389-399`); the call goes on and may succeed.
`behind` marks a connection on which a request was sent before the earlier answers
were read, `gaveup` a failed call and `dropped` a part dropped in this way since the last
request; the three exist for the properties only. `aiot_http_deinit`'s test of `exec_count`
and its frees are separate steps. `handle` goes from `whole` to `torn` (strings and token freed) to
`freed`, and a call that goes on with memory that is gone crashes.

### RandServer

`fdtable` is the process's table of descriptors, `registered`, `tag` and `ready` are the
epoll instance: what is in it, what the event carries (`ev.data.fd`), and on what
something has arrived since the last event (`EPOLLET`). `EpollWait` collects `evs`, the
main thread makes a thread of each (`Create`; `CreateFails` when `pthread_create` does,
whose result is not looked at). A thread is a record of its place, its descriptor and
the block in its `sendbuf`, 0 for the zeros `memset` leaves there. `Create_connect` is
`Accept`, `AddLock`, `AddCtl`; `Conmmunication_mask` is `Recv` until `EAGAIN`, with
`Generate` and `Generated` under `spin_mtx` for each piece, then `Send`; or `Del` and
`Close`, or `Close` alone. The two locks are separate steps because what they protect
(`ev`, `V`) is read and written by every thread. Blocks are numbers, so that a block
given out twice can be told. A client of `client.c` sends a length (`Lengths` units, of
which one `recv` takes `RecvMax`), waits for a block, and may end at any time. The
kernel is external: the lowest free number for `accept`, an event for what arrived
before `EPOLL_CTL_ADD`, `EPOLLIN` also for the end of the connection, a reset for a
block to a client that is gone, and `SIGPIPE` after it. `stranded`, `strayed` and
`dropped` are history, for the properties only.

## 3. Runs

| Run | Property | What it shows |
|---|---|---|
| `Pub_wrap` | `TypeOK`, `UniqueIds`, `RepubSafe`, `QuotaInRange` | four identifiers drawn out of two: the list stays unambiguous; the quota stays within its maximum |
| `Pub_live` | `NotLost`, `AtLeastOnce`, `EventuallyAcked` | with a broken link or a short write, and a clock that steps back: nothing accepted is lost, every message arrives and leaves the list; refinement of `QoS1Delivery` |
| `Pub_exceeded` | `ExceededMeansOutstanding` | **violated**: a PUBACK handled before `_core_mqtt_check_flow_dec` costs a credit for good |
| `Session_safe` | `TypeOK`, `NoUseAfterClose`, `NoWaitingCircle`, `CallsReturn` | a user that calls one of `aiot_mqtt_connect`, `aiot_mqtt_disconnect` and `aiot_mqtt_disconnect_with_prop`, beside the receive and the process thread, one failure: nothing is closed under a reader or writer, nobody waits in a circle, and every call returns |
| `Session_live` | `DisconnectEventTrue`, `Recovers` | the receive and the process thread, two failures of any kind: the session comes back, and DISCONNECT is not told of a live session |
| `Session_offline` | `StaysDisconnected` | **violated**: `aiot_mqtt_recv` may connect after `aiot_mqtt_disconnect` has returned |
| `Exec_safe` | `TypeOK`, `OnlyCaught`, `StaysDoomed`, `Drains`, `DeinitReturns` | three callers in four kinds of functions, one failed subscription, against `aiot_mqtt_deinit`: it does not wait only for calls that had just passed the test of the flag; a handle it failed to free stays so |
| `Exec_stray` | `NoUseAfterFree` | **violated**: a call that has passed the test of `exec_enabled` counts itself after the last test of `exec_count`, and works on the handle being freed |
| `Alias_safe` | `TypeOK`, `NeverWrongTopic`, `RxRightTopic` | two topics, two aliases, any number of reconnections, failed writes and resends |
| `Recv_all` | `TypeOK`, `FramesExact`, `CompareExact`, `DispatchExact`, `NothingSwallowed`, `SubscribedHasNode`, `EventuallyHandled` | messages of one to three length bytes, a user who changes `sub_list`, one failure anywhere: packets stay framed, handlers are called exactly, nothing acknowledged is swallowed, everything is handled in the end |
| `Http_all` | `TypeOK`, `GateExact`, `TokenWhole`, `ResponseBelongs`, `OwnConnection`, `OnlyStrays`, `CallsReturn`, `DeinitReturns` | two requests with bodies of up to two units, on a long connection or one for each, one failure or late answer, against `aiot_http_deinit` |
| `Rand_all` | `TypeOK`, `AcceptNeverBlocks`, `AnswersFresh`, `Served` | two clients and two requests, a server with two descriptors and two threads, one failure of `pthread_create`, `accept` or `malloc` |

The three violated properties are what a header of the client promises; the findings
in `PROJECT.json` quote the lines.

**Bounds.** `MaxAllocs` and `MaxPacketId` decide whether the counter wraps: equal
in `Pub_live` (the case `NotLost` is about), twice the identifiers in `Pub_wrap`,
where every identifier meets its predecessor. `MaxInFlight` 2 lets packets and
PUBACKs queue up and the stream run full. `FlowMax` 2 with a modulus of 8 reaches
zero, the clamp, and would show a wrap below zero. One fault is enough to lose an
acknowledgement, which makes the resent copy a duplicate; two in `Session_live`
allow a failure during the recovery from another. `MaxLost` is 0 or 1 because the
code only compares; `lost_times` is capped just above it. `Session_safe` and
`Session_live` have one network handle, whose memory the next connection gets again; the
theorems about the session hold for any number of handles, threads and calls. In
`Session_safe` one call of the user, whichever it is, meets every point of the two
other threads' calls, which are not bounded. Three callers in `Exec_safe` let one be caught,
one fail to subscribe and one come late; `plain` and `pub` are left out there because
`sub` and `recv` pass the gate as they do, with more ways out. `AliasModulus` 4 with
maxima 1 and 2 uses up the aliases and leaves one below the wrap. Reconnections,
resends, failures of memory and writes are not bounded in `MqttAlias`. In `MqttRecv`
the sizes 1, 128 and 16384 need one to three length bytes; two messages let the
reader run from one packet into the next, and one failure (which may hit the
handshake, any byte, an allocation or a PUBACK) is followed by a reconnection and a
resend. `CompareExact` takes all valid filters of up to six and all names of up to
four characters, enough for two wildcards with levels before, between and after
them. In `HttpClient` two requests are what one late answer needs to be taken for
another's; with bodies of two units and chunks of one or two a body is read in one
piece, in two, or in part. In `RandServer` two threads are what it takes for one to
close the number another one carries, for two to meet in the generator and for a
second block to follow the reset; with two descriptors for two clients a number is
given out again, and a request of two units that is read one at a time makes a thread
generate twice. (The inductive invariants of the proofs also hold in TLC with three
threads and requests of one and three units.) Symmetry is used only for the safety
run of `MqttAlias`, over topics.

`Exec_safe`, `Http_all` and `Rand_all` switch the deadlock check off: after
`aiot_mqtt_deinit` or `aiot_http_deinit` has freed the handle nobody calls any more and
the model stops, as the program does; the random number server stops when its clients
are gone, or with `SIGPIPE`. In the other runs a deadlock would be an error.

**Fairness.** The demo's loops (`demos/mqtt_basic_demo.c:115-144`) call
`aiot_mqtt_process` and `aiot_mqtt_recv` for ever, so each thread is scheduled again
and again: weak fairness for the steps of a call, strong fairness where a step needs
a mutex that others take and release (the process thread sleeps between two calls, so
no mutex is held most of the time). `Session_safe` assumes no more than that
(`RunsOnSpec`): its calls return without a timer, an answer or another thread's call.
Where something has to happen after that, timers expire, a live peer's answer arrives
and the broker reads its stream. Nobody is obliged to start a call or to break a link.
One assumption is about time: from some point on, a thread whose write or read has
failed reaches its close before another thread has opened the next connection. It
needs microseconds where the other one needs a TCP and MQTT handshake; without the
assumption the late close would end fresh connections for ever (`:3119` closes
whatever is open). In `MqttRecv` the receive thread goes on and a broker that serves
a connection sends again what was not acknowledged. In `HttpClient` a call that was
made goes on, and the clock goes on: strong fairness for `TimeUp`, because the loop
around `core_http_recv` looks at the time in every round (`core/aiot_http_api.c:484`);
nothing is assumed of the server. In `RandServer` every thread of the server runs, and a
client takes what has arrived; no client is obliged to connect, to ask or to close. Weak
fairness is enough although threads compete for the two locks, because a lock is held
for a few steps only and the requests are bounded.

## 4. Proofs

All theorems hold for every value of the constants that satisfies the named
assumptions of the module, in particular for any number of threads. Most of the
properties are not inductive as they stand; the last column names the inductive
invariant and what it adds.

| Module | Theorem | Argument |
|---|---|---|
| `MqttPub_proofs` | `TypeCorrect` | directly inductive, one case for each thread |
| | `UniqueIdsAlways` | inductive with the types: only `PubInsert` adds a node, and it looks for the identifier under the same mutex |
| | `RepubSafeAlways` | `ProcessInv`: while the pass runs the mutex is taken, and removal needs it free |
| | `QuotaInRangeOnePublisher` | `QuotaInv`: a publisher that has passed the unguarded test finds at least one credit, which only another publisher could take |
| | `NotLostWithoutWrap` | `DeliveryInv`: serial numbers and identifiers coincide while nothing has wrapped, so every PUBACK on its way or in the receiver's hands names a message the broker has |
| | `ImplementsDelivery` | from the same invariant: each step maps to `Accept`, `Deliver`, `Complete` or a stutter |
| | `ExceededWithoutOverlap` | `CreditInv`: no more credits are missing than packets in the list whose call is over and whose PUBACK is not being handled, see below |
| `MqttSession_proofs` | `SessionTypeCorrect` | the thread programs stay sequences of procedures |
| | `NoUseAfterCloseAlways` | `MutexInv`: whoever is in the port layer owns the mutex of its direction, and whoever closes or connects owns both |
| | `LockOrderAlways` | `MutexInv`: which mutexes a thread may own is determined by the head of its program |
| | `NoWaitingCircleAlways` | from `MutexInv`: the owner of a mutex waits only for a later one, so a set of waiting threads has no owner of `recv_mutex`, then none of `send_mutex`, then none of `data_mutex` |
| | `DisconnectEventTrueAlways` | `ProgramInv` (which programs the receive thread can be in) and `EventInv` (what each point of a call of `aiot_mqtt_recv` knows), see below |
| | `StaysDisconnectedWithoutReconnect` | `QuietInv`: without reconnection only the user's program dials; `OfflineInv`: from the close within `aiot_mqtt_disconnect` on the handle is NULL, and only closers are left |
| `MqttExec_proofs` | `ExecTypeCorrect` | `CountInv`: `exec_count` is at least the cardinality of the counted callers plus the lost counts, one caller at a time |
| | `OnlyCaughtAlways`, `StrayWays` | `CaughtInv`: with the flag cleared only caught threads are on their way into the count; a passed test finds nobody counted (`CountInv`), so after it only they are in it |
| | `StaysDoomedAlways` | a lost count keeps `exec_count` above 0 at every test (`CountInv`), and an error leaves the flag cleared (`FlagInv`), which nothing sets again |
| | `NoUseAfterFreeOrderly` | `OrderlyInv`: while `aiot_mqtt_deinit` runs only counted calls are left, and after its last test none |
| `MqttAlias_proofs` | `AliasTypeCorrect` | with `PacketTyped`: a publisher past its call holds a packet |
| | `NeverWrongTopicOnePublisher` | `TxInv`: there is an assignment `owner` of one topic to each alias ever given out that the list, the kept packets, the publisher and the broker's table all agree with; the counter never goes back, so the assignment only grows |
| | `RxRightTopicAlways` | `RxInv`: every binding of the client is one the broker announced on this connection |
| `MqttTopic_proofs` | `CompareDecides` | induction over the suffixes of the filter, see below |
| `MqttRecv_proofs` | `CompareExactAlways` | `CompareDecides` for the filters and names of the model |
| | `RecvTypeCorrect`, `NothingSwallowedAlways`, `SubscribedHasNodeOneUser` | with what `found`, `copies` and a pending packet mean at each place of the two threads |
| | `FramesExactAlways` | `FramesInvariant`: while a packet is read, the place in the stream is the header's place plus what was counted, and the running length is the encoder's value so far; what a failed handshake leaves is a rest of a CONNACK, which the switch does not know |
| | `DispatchExactAlways` | with `CompareDecides`: what was copied under `sub_mutex` is run or still to run; later registrations are `fresh` |
| `HttpClient_proofs` | `HttpTypeCorrect` | `CallInv`: a length from this call's header meets a session in which nothing is read yet |
| | `GateExactAlways` | `GateInv`, one case for each place at which a call ends |
| | `OnlyStraysAlways` | `StrayInv`: with `exec_count` 0 the caller is outside, and the closed gate lets in only who had read it open |
| | `TimedOutKeepsHandle` | `LeakInv`: a count that was lost is in `exec_count` when `aiot_http_deinit` tests it |
| | `NobodyInsideShut` | `ShutInv`: with the flag cleared nobody stands between the test and the count, so with `exec_count` 0 the caller is outside and stays there |
| | `OwnConnectionAlways` | `OwnInv`: what is in the stream, owed by the server and collected by the call all belongs to the last request while the connection is not behind |
| | `TokenWholeAlways`, `ResponseBelongsAlways` | `AnswerInv`, see below |
| `RandServer_proofs` | `RandTypes` | inductive, a step for each action |
| | `AcceptNeverBlocksAlways` | `AcceptInv`: the backlog is as long as the threads in `accept`, the listener's event on its way and the stranded connections together |
| | `AnswersFreshAlways` | `LockInv` (who holds which lock, and that events carry their own descriptor), `BlockInv` (a block is with one thread or one client), `PlaceInv` (a connection has one number or one place in the backlog); and until `strayed`: `CarryInv` (a free number is carried by nobody), `StepInv` (a connection whose client is there has one event or one thread, with something to read or a block to send), `ClientInv` (what a client may find) |

**The events of the connection.** `DisconnectEventTrue` speaks of the moments between
two calls of `aiot_mqtt_recv`, and says nothing about the way from one to the next.
`EventInv` follows the call: whoever is about to tell DISCONNECT has seen the session
gone or `lost_times` above its limit; whoever waits for a packet after DISCONNECT has no
session, because `recv_lost` leads to `read` only below the limit or after a new
connection, so a packet that resets `lost_times` cannot make the event false; a session
opened after DISCONNECT is followed by its own event before the call ends; and without
reconnection there is no session at all. The other threads preserve this because they
only close the session and count heartbeats. That they never lower `lost_times`, although
`lost_times++` loads and stores without a mutex, is a part of the invariant: the loaded
value is at least the stored one, since only the receive thread resets it.

**The comparison of topics.** `CompareDecides` says that the loop of
`_core_mqtt_topic_compare`, which walks two indices and looks at single characters,
decides MQTT's rule, which speaks of levels, for filters and names of any length over
any characters. The library states induction with an operator as a parameter, so
`Induction` states it with a set of naturals instead, from the least member of the
complement (`WFMin`). `CompareExists` and `CompareUnfolds` show that the recursive
function exists and unfolds: a function is built for each stage by induction, so the
`CHOOSE` behind the definition has something to choose. `Levels` and `Level` are about
whole topics and the loop is at a suffix, so a group of lemmas says how the slashes and
the levels of a topic change when its first character is taken away (`NoLevels`,
`SlashLevels`, `LetterLevels`). The induction is over the suffixes of the filter, from
the empty one back: at each index the loop's choice is one of those recurrences read
backwards (`CompareStep`), for a letter, a slash, a `+` and a `#`. A valid filter is
needed because the loop takes `+` and `#` for wildcards wherever they stand.

**The answers of the HTTP server.** Neither property says anything about a response that
is still being read, so `AnswerInv` follows one from the stream to the caller.
`StreamInv`: the parts of an answer stand in the stream in order and without a gap, up to
the answer's end or a lost connection. `BodyInv`: where the session says that a body goes
on, the next part of the stream is the next unit of a body of that length. `HeaderInv`: the
status and the length a call has read fit the part that comes next. `ContentInv`: a
call that has collected as many units as were read has collected units 1, 2, ... of one
body (`Chain`); this is how `aiot_http_auth`, which compares the lengths, notices what was
dropped for lack of memory. `GaveInv`: unless a call gave up or a part was dropped, what
was collected is what was read, by one call. The proof also showed that two arms of a `CASE` in `Kind` had
overlapped; TLC takes the first, TLA+ leaves the choice open. They are disjoint now.
TLC checks `AnswerInv` on the requests of `Http_all` with bodies of three units
and two failures (7,631,833 states), and `EventInv` with a publishing thread and four
failures (709,589 states).

**What the violations do not touch.** Each of the three findings is a race, and for each
a theorem says under which condition it cannot happen. `StrayWays` lists the ways to a
handle that is being freed: an unguarded function, a publish before its guard, the rest of
a call after `_core_mqtt_exec_dec`, a call made when the handle is gone, and the way of
`Exec_stray`, a caught thread. `NoUseAfterFreeOrderly`: all of them need
a call that is not counted when `aiot_mqtt_deinit` enters, that begins later, or that uses
the handle after its count; for an application without those (`Orderly`) no function, not
even an unguarded one, works on a handle being freed. The demo stops its loops, sleeps for
a second, calls `aiot_mqtt_deinit` and joins its threads only then
(`demos/mqtt_basic_demo.c:274-292`): it is orderly if the second is enough.
`ExceededWithoutOverlap`: `Pub_exceeded` needs a PUBACK that is handled while the call that
publishes its packet is under way (`NoOverlap` excludes it); otherwise a quota of 0 means
that at least `FlowMax` packets wait, whatever is lost, resent or acknowledged twice,
also when identifiers wrap and when several publishers have decremented the quota below
zero (`CreditInv` reads a quota above `FlowMax` as negative). `StaysDisconnectedWithoutReconnect`:
`Session_offline` needs reconnection to be on. The HTTP client's gate has the same window as
the first one; `NobodyInsideShut` says that it is the only one there. TLC confirms the first with two threads
(2,780 states), with the invariant of the gate for three threads in all six kinds of
functions (1,981,026 states), and the second, with its invariant, with two publishers, wrapping identifiers
and a limit of 1 (20,510,662 states).

Hypotheses beyond the modules' assumptions are stated in the theorems and are needed.
`QuotaInRange` asks for one publisher; two can both pass the test with one credit
left and wrap the quota. `NotLost` asks that identifiers have not wrapped.
`NeverWrongTopic` asks for one publisher (two read the counter before either stores
it), topics of which none is a prefix of another, and a maximum below 65535 (else
`alias_id` wraps to 0 and passes the test); `RxRightTopic` asks that only
`aiot_mqtt_recv` connects and that the broker does not rebind an alias.
`SubscribedHasNode` asks for one user thread. `DisconnectEventTrue` asks that no user
thread connects or disconnects beside `aiot_mqtt_recv`: the event is told without a mutex,
so a DISCONNECT that the receive thread was about to tell can follow the CONNECT of
`aiot_mqtt_connect`. `StaysDisconnected`, which `Session_offline` violates, holds without
reconnection, for one thread that uses `aiot_mqtt_connect` and `aiot_mqtt_disconnect`
(`aiot_mqtt_disconnect_with_prop` returns without closing when its packet is not sent, and
of two threads one may connect while the other disconnects). TLC finds a counterexample when any one
of these is dropped. `TopicAssumption` of `MqttRecv` says no more than that filters and
names are sequences of characters.

**Only model-checked:** the liveness properties (`EventuallyAcked`, `Recovers`,
`CallsReturn`, `Drains`, `DeinitReturns`, `EventuallyHandled`, `Served`), because the proof
system does not reason about fairness; and the violations. Every other property of the passing runs is the
statement of a theorem.

## 5. Behaviour worth knowing

Seen in the models, or met while writing them:

* A packet that is due is resent in every pass, without an interval (`:1587`).
* After lost heartbeats a failing reconnection is repeated at once (`:3543`).
* `lost_times` is not reset by `aiot_mqtt_connect` (`:2716`).
* An application can see RECONNECT without a DISCONNECT before it (`:3517`,
  `:1726`), and DISCONNECT as the last event of a live session when it calls
  `aiot_mqtt_connect` in parallel to `aiot_mqtt_recv` (`:66`).
* A subscription that runs out of memory makes every later `aiot_mqtt_deinit` time
  out, and a timed-out `aiot_mqtt_deinit` leaves the instance disabled (`:3357`).
* The callback for CONNACK runs under three mutexes (`:1034`).
* All matching handlers run for a message; `core/aiot_mqtt_api.h:22-28` says that the
  search stops at the first match. `DispatchExact` states the code's rule
  (`:2089-2116`) and does not hold of the header's.
* A wildcard does not match an empty last level (`/a/+` against `/a/`).
* A handler can run after the unsubscription of its topic has returned (`:2109`).
* When `aiot_http_recv` runs out of time it does not leave `exec_count`
  (`core/aiot_http_api.c:505`): every later `aiot_http_deinit` times out and leaves the
  instance disabled. It does not free what it has collected either.
* On a long connection an answer that comes too late is delivered for the next
  request, and the connection stays one answer behind until it is closed.
* A chunk dropped for lack of memory makes `aiot_http_recv` deliver a shortened body
  with `STATE_SUCCESS` (`core/aiot_http_api.c:510-523`), where `core/aiot_http_api.h:271`
  promises the complete body; `ResponseBelongs` excludes it (`dropped`).
  `aiot_http_auth` compares the lengths and notices.
* `core_http_deinit` waits without a limit, and its result is ignored
  (`core/utils/core_http.c:632`, `core/aiot_http_api.c:572`).
* After `aiot_mqtt_disconnect_with_prop` has failed the connection stays open and is
  not reopened when it breaks later (`:3221`).
* A QoS 1 packet that carries an alias in place of its topic is kept for resending
  although the broker may not know the alias: the binding is made before the packet that
  announces it exists (`:2932`), and a reconnection empties both tables (`:1252`). Such a
  packet is resent until it is acknowledged, and never as another topic.
* The alias lists are freed without `topic_alias_mutex` while others may walk them
  (`:1252`).
* The random number server accepts one connection for an event (`server.c:91`): of
  clients that connect together all but one wait until further clients connect.
* When a client closes while its request is served, two threads may carry its
  descriptor: the number can be closed twice (`server.c:136`, `:144`), the second time
  under a new client that was given it; a thread that finds nothing to read there sends
  32 zero bytes nobody asked for (`server.c:188`).
* A second block sent to a client that is gone ends the server: `SIGPIPE` is not ignored.
* `srand_sm3_reseed` does not free its buffer (`sm3_srand.c:115`), and as
  `srand_sm3_init` is never called it runs for every block.

## 6. Not modelled

* Byte layouts of outgoing packets, MQTT 5 properties, authentication strings, hashing
  and logging: formatting without control that the properties above depend on.
* TLS and the vendored libraries (mbedtls, nghttp2, miracl: by far most of the lines of
  the repository): third-party code; its failures appear as failures of establishing,
  sending and receiving.
* Application callbacks: they run between steps and are assumed to return.
* `aiot_mqtt_setopt`, `aiot_http_setopt`: they assign configuration that the models take
  as constants (the topic map options, which change `sub_list`, are modelled).
* `core_global`'s counter of users (`core/utils/core_global.c:13`) with two handles.
* Two threads that send and receive on one HTTP handle at the same time: they would
  share `session` and `core_userdata`, which the code does not protect.
* Two threads in `aiot_mqtt_deinit` or `aiot_http_deinit` at once, or a call after it has
  returned.
* In `RandServer`: SIGINT of the server, the moment between `accept` and `fcntl` in which
  a socket blocks (nobody reads from it before it is in the epoll instance), the failures
  of `socket`, `bind` and `listen`, which end the program, and the two variants of the
  client that are compiled out.
* The SM2/SM3/SM4 and big-number code of the other demos: out of TLC's reach. The
  remaining demos are exercises of a few lines around one library call.

## 7. Plan

1. An abstract specification of the connection that `MqttSession` implements.
2. Composition of `MqttRecv` and `MqttSession`: `aiot_mqtt_connect` in a user thread while
   `aiot_mqtt_recv` reads.
3. Port layer: partial sends and reads with deadlines, closing a socket that was never
   opened (`posix_port.c:57-67`, `:608-633`).
4. `core_global` with two handles that are initialised and freed at the same time.
