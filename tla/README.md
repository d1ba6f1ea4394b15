# A verification development for the moomoo Python SDK

The SDK (`src/moomoo`) is a client of OpenD, a gateway process that speaks a
request/reply/push protocol over TCP. A program opens an `OpenQuoteContext` or
an `OpenTradeContext`, calls its methods from threads of its own, and hands it
handlers for pushed data. The context reconnects by itself. All of its
difficulty is in the concurrency of four kinds of threads: the user's, the
network thread (one per process), short-lived reconnect timers, and one push
thread per session.

This directory holds TLA+ modules for the parts of the SDK whose correctness
depends on that concurrency, TLC configurations that check them on small
instances, and TLAPS proofs of their safety for every instance.

Contents: 1 inventory · 2 plan · 3 modules and the code · 4 runs · 5 fairness ·
6 disagreements between code and text · 7 proofs · 8 what is not modelled ·
9 running it

## 1. Inventory

### Components, their state and their operations

| Component | State | Operations | Hard behaviour |
|---|---|---|---|
| **Connection life cycle**, `common/open_context_base.py` (`OpenContextBase`) | `_status`, `_auto_reconnect`, `_conn_id`, `_opend_conn_id`, `_reconnect_timer`, `_callback_executor`, all under `_lock` | constructor, `close`, `_wait_reconnect`, `_reconnect`, `_init_connect_sync`, `_connect_sync`, `_handle_init_connect_rsp`, callbacks `on_connect`, `on_disconnect` | the lock is released between the steps of a connecting thread; a timer that has fired cannot be cancelled; every step can meet a status somebody else has set |
| **Requests**, same file (`ReqInfo`, `sync_query_processor`, `_query_async`, `on_recv`, `on_tick`) | `_req_map`, one `ReqInfo` per request, serial numbers | send, reply, 12 s check of the tick, 20 s wait of the caller, `_pop_all_req_info` | four ways to end a request race; the caller reads its `ReqInfo` without the lock |
| **Network thread**, `common/network_manager.py` (`NetManager`) | `_req_queue`, connection table, sockets, write buffers, selector | `connect`, `send`, `close` (enqueue), `poll`, `do_connect`, `do_send`, `_on_read`, `_on_write`, `_check_connect_timeout`, `_tick` | work is queued and may find its connection gone; callbacks run on this thread and may raise |
| **Framing**, `common/utils.py` (`parse_rsp`, `_joint_head`), `_recv_buf` | receive buffer | cut frames, check the digest, decrypt | partial frames, bad frames, a buffer that outlives its connection |
| **Push delivery**, `common/callback_executor.py`, `common/handler_context.py` | a queue and a thread per session, the table of handlers | `packet_callback`, `run`, `close` | the old thread may still deliver while the new session's does |
| **Session registry**, `common/conn_mng.py` (`FutuConnMng`) | connection id to user id and key | add, remove, encrypt, decrypt | entries outliving the session |
| **Subscriptions**, `quote/open_quote_context.py` (`SubRecord`) | `subMap`: (subtype, flavour) to codes | `subscribe`, `unsubscribe`, `unsubscribe_all`, `on_api_socket_reconnected` | no lock over query and record, so that calls of two threads cross; the resubscription of a session runs outside the lock, in many queries, while the users go on |
| **Quote queries**, `quote/*.py` | paging keys inside one call | about ninety queries | each is a call of *Requests* and a conversion; history klines are paged |
| **Trade context**, `trade/*.py` | account list cache, unlock password, subscribed accounts | orders, account queries, `on_api_socket_reconnected` | unlock and account push have to be repeated on every session |
| **Account web application**, `examples/account_web` | a cached watchlist in a file, HTTP handlers | sync, export, profit calculations | two synchronisations over one temporary file |

Left aside: generated protocol messages (`common/pb`), tables of constants, the
code generators and analysis scripts under `tools`, logging, demo scripts, the
browser front end, packaging.

### How they interact

- The context calls `NetManager.connect/send/close`, which only enqueue; the
  network thread calls `on_connect`, `on_disconnect`, `on_recv` and `on_tick`
  back, each of which takes the context's lock.
- A reconnect timer runs `_reconnect` on a thread of its own: it enqueues a
  connect, waits for the event of its `ConnectInfo`, sends InitConnect, waits
  for its `ReqInfo`, sets READY and calls `on_api_socket_reconnected`.
- Users' threads enter requests into `_req_map` under the lock, then wait on the
  `ReqInfo`'s event without it.
- `on_recv` hands pushes to the push executor, which calls the handlers.

### What makes each correct

- *Life cycle*: one reconnection at a time; a context that is not closed always
  has somebody working on its connection, and comes back; no socket is left
  behind; after `close()` nothing is opened and everything is shut.
- *Requests*: every call whose request was sent returns, once, with the reply or
  an error; nothing is executed twice; an entry never outlives its session.
- *Subscriptions*: the record is consistent; a reconnection restores what the
  gateway has subscribed to what the record says.
- *Network thread*: a connection is a stream of bytes in the order of the calls;
  no work and no rest of a packet is forgotten.
- *Framing*: the frames cut are the frames sent, however the bytes arrive.
- *Push delivery*: order is kept within a session; a session's thread sees that
  session's pushes, and an old thread does not go on beside the new one.
- *Trade*: a call is about the account it names, whatever refreshes the list
  meanwhile; an order the gateway has answered is reported as it was answered; a
  new session is unlocked and pushes the accounts the old one did.
- *Web application*: the cache file is whole or old, never torn; the realised
  profit balances with what was paid, received and is still held.

## 2. Plan

Done, in the order of importance:

1. `OpenContext`: the life cycle and the network thread together, since every
   property relates the two. Proofs in `OpenContextProofs`.
2. `QueryPromise` (abstract) and `Requests` (detailed, implements it). Proofs in
   `RequestsProofs`.
3. `Session` (abstract): what the modules above the life cycle may rely on.
   `Requests` takes the steps of its session from it, and `OpenContext`
   implements it.
4. `Subscriptions`, over the interface of `Requests`. Proofs in
   `SubscriptionsProofs`.
5. `ByteStream` (abstract) and `SendPath` (detailed, implements it): from a
   caller's `send()` to the socket. Proofs in `SendPathProofs`.
6. `PushDelivery`: the other direction, from the gateway's bytes over the receive
   buffer and the push threads to the handlers, over sessions that are replaced.
   Proofs in `PushDeliveryProofs`. Both are run by `MCTransport`.
7. `TradeContext`: the account list, the choice of accounts, unlocking and account
   push over sessions. Proofs in `TradeContextProofs`.
8. `WatchlistCache` and `RealizedPl` of the web application, with proofs in
   `AccountWebProofs`. `MCAccounts` runs them with `TradeContext`.

Every invariant and every action property of the passing runs is also proved, and
so are the three refinements (`KeepsSession`, `KeepsPromise`, `KeepsOrder`), some
under hypotheses that section 7 gives. Left, in this order: the registration of
handlers while pushes are being delivered; the paging of history klines against a
reference definition; `close()` of a synchronous context, whose stray connections
`NoneLeftBehind` leaves out.

Composition: `OpenContext` composes context and network thread. `Session` stands
between it and `Requests`: `OpenContext` implements it (`KeepsSession`, proved as
`SessionRefined`), and every step of the session in `Requests` is one of it, with
what it does to the requests. `NoLostWakeup` in the one and `Disconnect` in the
other are the two sides of `_pop_all_req_info`. `Subscriptions` and `TradeContext`
need less, that a session comes up and goes down, and keep a count of sessions of
their own. `PushDelivery` reduces the life cycle to what its path can see of it:
which connection stands, the status that decides whether bytes and pushes are
taken, and when an executor is closed and replaced. `Requests` takes for granted that what is sent on one
session arrives in order, which is `KeepsOrder` of `SendPath`.

## 3. Modules and the code

An action is one region under the context's lock, or one piece of work of the
network thread with the callback it makes. The network thread alone touches the
sockets, the connection table and the selector, so nothing can be observed
between its work and its callback. Where the code reads without the lock, the
steps are separate.

### OpenContext

| Variable | Code |
|---|---|
| `status`, `auto`, `connId`, `opendId`, `timer`, `executor` | `_status`, `_auto_reconnect`, `_conn_id`, `_opend_conn_id`, `_reconnect_timer`, `_callback_executor` |
| `registry` | keys of `FutuConnMng.All_Conn_Dict` |
| `reqMap`, `rsp` | InitConnect's entries of `_req_map` and their `ReqInfo` |
| `pc`, `myConn`, `mySent` | where each connecting thread (the constructor or a timer) is, and what it waits for |
| `conn`, `info`, `nextConn`, `queue`, `inbox` | the network manager's connections, `ConnectInfo` events, next id, work queue; requests at the gateway |

Actions: `CtorStart`, `TimerFire`, `Reconnect`, `InitConnectSync`, `ConnectSync`,
`ConnectDone`, `SendInitConnect`, `ResponseDone`, `ResponseTimeout`,
`HandleInitConnectRsp`, `ReconnectFailed` are the regions a connecting thread
goes through; `Close` is the user; `NetConnect`, `NetSend`, `NetClose` are the
queued work, `NetConnected`, `NetConnectFail`, `NetDisconnect`, `NetInitRsp` the
events of the selector. The `TypeError` that an immediate outcome of
`sock.connect` causes (section 6) is in `DoConnect`: the context is not told.

`Callbacks` says how `on_api_socket_reconnected` may end. What it does belongs to
`Subscriptions` and `TradeContext`. If it returns, the thread has nothing more to do
with this state, and `HandleInitConnectRsp` is its last step. If it raises
(`open_trade_context.py:42` may), the thread goes on to the failure branch of
`_reconnect` at any later time, when the session may have been lost and replaced;
from the constructor the exception reaches the user, who has no context then.

Abstractions. A request is named by its thread and connection. Serial numbers do not
wrap. `start()`/`stop()` and the handler table do not touch this state.

### Session

The session as the threads above the connection see it: `status`, with every
status on the way to READY folded into DOWN; `trying`, a thread is on its way
through `_init_connect_sync`; `link`, the connection `_conn_id` names while it
stands; `ended`, those that stand no more. `Try` is a thread entering
`_init_connect_sync`, `Connect` and `Refuse` are the outcomes of
`do_connect` and the branches of `on_connect`, `Grant` and `Abandon` those of
`_handle_init_connect_rsp` and the failure branch of `_reconnect`, `Lose` is
`on_disconnect`, `Close` the user.

The mapping from `OpenContext` leaves out what nobody sees: a thread that waits for
an event that is never set is not trying (`Stuck`, finding 2), and a connection
that the failure branch has asked to be closed no longer stands (`Given`), for the
context will not be told when it is. READY does not promise a connection: `Grant` is
applied whatever has happened since the reply was fetched, and may find the
connection lost or the context closed (finding 3).

### Requests and QueryPromise

`status`, `auto`, `trying`, `link` and `ended` are those of `Session`. A step of it
that calls `_pop_all_req_info` is `Disconnect`; one that leaves the requests alone,
a failed connect among them, is `SessionStep`.

`phase` is where the calling thread is inside `sync_query_processor`; `reqMap`
is `_req_map`; `err`, `rsp`, `event` are the fields of `ReqInfo`; `stage` is how
far `_handle_recv` has got in filling one in, for the caller reads it without
the lock; `packed` is the connection id the packet was packed with and `sentOn`
the connection an entry was sent on, if there was any; `wire`, `replies`,
`executed` are the gateway.
`OnTick(S, K)` is the whole of `on_tick`: it times out the requests of `S` and
sends the keep-alive of `K`.
`GiveUp` may be taken whenever the context is not READY, because the loop's exit
needs CLOSED, a status that every failed connect passes through, or the limit
the user has set.

`QueryPromise` is what a caller is promised: a call returns once; an answer
means that the gateway carried the request out; it never carries it out twice.
An error leaves open whether it did. `Requests` implements it by mapping the
phases to "idle", "pending" and the two results.

### Subscriptions

`record` is `SubRecord.subMap`, an absent key being the empty set. A *flavour* is
the triple (is_orderbook_detail, extended_time, session). `gateway` is what OpenD
has subscribed on the present connection, and what of it it pushes, which the SDK
never reads. `req`, `call` follow the one query each thread has under way: any
number of threads of the user, and one for every session opened, which takes its
list under the lock (`Snapshot`) and then subscribes query by query (`Resubscribe`,
`Send`, `Serve`, `Finish`). `Subscribe` and `Unsubscribe` are a call up to its
query; no lock is held from there to its end. Between the reply and the record there
is a step, as in the code. `unsubscribe()` of some stocks goes on to its second
request (`Unpush`), which is sent if there is a session and waited for by nobody
(`ServeUnpush`); without a session the call returns RET_ERROR although the first
query has succeeded. `push` in a call is subscribe_push; is_first_push, one push at
the time of the subscription, changes nothing that is kept and is left out.

`SubList` groups subtypes by the *list* of their codes: two sets with the same
members may be listed in different orders, hence `Orders`. The resubscription
takes its queries in any order, where the code takes that of a dictionary.
OpenD forgets the subscriptions of a connection when it ends (external). Nothing is
assumed of the order in which it serves requests that are under way at once.

### SendPath and ByteStream

`work` is `_req_queue`, `pipe` and `putting` are the control sockets (a byte that
was written; callers between the queue and the pipe), `draining` is the network
thread in `poll`'s loop over the queue; `writeBuf` is `Connection.writebuf` and
`watch` whether EVENT_WRITE is asked for; `state` is `ConnStatus`. A byte is its
place among those handed over for its connection, so that order, loss and
doubling are all visible. `DoSend` and `OnWrite` let the socket take any number
of bytes. A connection whose socket fails is closed where the code does so: in a
direct send and in `Lose`. `CloseConn` is `NetManager.close`, of any connection that
is not closed yet; more than `MaxCloses` of one are not queued at a time. One
`NetManager` serves all contexts of the process,
hence several connections over one queue.

`ByteStream` is the promise: a socket takes the bytes of its connection in the
order in which they were handed over, until it is closed.

### PushDelivery

`sent` is what the gateway has sent, `wire` the bytes on the way, `recvBuf` is
`_recv_buf`. A packet is its number and a byte the number of its packet and its
place there. A read (`OnRecv`) takes any number of bytes and holds the lock until
`AwaitBytes` (NOT_ENOUGH_DATA); `CutPacket` is one round of the loop of
`_handle_recv`, with `Cuts` (`parse_rsp` finding a whole packet), `Valid` (digest
and key) and `Handle`. If the front of the buffer is no head, its length field
holds anything (`Garbage`). `queue`, `quit`, `pc`, `hand` are the executors: one
for each session, started by `CloseExecutor(TRUE)`; `Get` is `run`, `Check` is
`packet_callback` with the `_proc_run` of `recv_func`, `Call` the handler.
`Connect`, `ConnectFail`, `HandleInitConnectRsp`, `Disconnect`, `Close` are the
life cycle as this path sees it; a refused InitConnect is in `OpenContext`. The
table of handlers is not modelled: every push has one, and always the same.
`given`, `shown`, `late` and `dirty` are history.

### TradeContext

`lastAcc` is `__last_acc_list`, `ctxUnlock` is `_ctx_unlock`; neither has a lock,
so an action is what happens between two accesses to them: `Reset`,
`AppendRecord`, `CopyList` are the loop of `get_acc_list`; `Recall` and `Unpack`
the two reads of `_ctx_unlock` in `on_api_socket_reconnected`; `CheckAccId`,
`DefaultAccId`, `AskUnlock`, `Remember` are `unlock_trade`; `CheckAccSubPush` and
`SubAccPush` end it. Every public method about an account is an operator that
says which checks it makes (`Checked`, `About`), and goes on through the choice of
the account to its query (`MakeQuery`) and, for an order, its reply (`OrderReply`)
and the `Lookup`. The gateway may have accepted an order whose reply is late or lost:
`placed` is "accepted" from the query on and "answered" from the reply.
`gUnlocked` and `gPush` are the session at OpenD (external). An account is its
place in the reply. `mixed` and `calm` are history: another thread wrote the list
this one is filling; threads have been active at once or a query has failed.
`misreported` is history too: what a call returned of its order was not so.

### WatchlistCache and RealizedPl

A file is what a name refers to, apart from the name: `os.replace` moves the name
and leaves readers with the file they opened. `content` is written in parts,
each where the thread's last one ended, also if another thread has emptied the
file meanwhile (`Hole`). `Crash` is the server being stopped and started.

`RealizedPl` goes through the deals row by row: `Buy`, `Sell` and `Skip` are the
branches of the loop, `FeeAlloc` the spreading of an order's fee. Decimals are
fractions here, which do not round. `book` is the independent account of what was
bought, paid and received that `Balanced` compares with.

## 4. Runs

| Run | Bounds | What it shows |
|---|---|---|
| `context_safety` | sync and async construction, 2 timers, 3 connections, queue 3, 2 faults, every outcome of connect, InitConnect and `on_api_socket_reconnected`, timers that fire at any time | `TypeOK`; never two live timers (`OneTimer`); a waiting context has one (`WaitHasTimer`); no InitConnect waiter is lost (`NoLostWakeup`); CLOSED at rest only by the user, with the push thread told to quit (`ClosedForGood`); nothing is opened after `close()` (`NoConnectAfterClose`) |
| `context_live` | async, 2 timers, 7 connections, queue 4, 3 faults, `on_api_socket_reconnected` returns | no socket is left open and forgotten: before `close()` there is only the one `_conn_id` names, after it none whose closing is not queued (`NoStrayConnection`); somebody always sees to the connection (`Attended`); `Session` is implemented (`KeepsSession`); the session comes back (`Reconnects`); `close()` finishes (`CloseCompletes`) |
| `context_refused` | as above with a refusal | *violated*: finding 1 |
| `context_unreachable` | as above with an immediate error | *violated*: finding 2 |
| `context_closed` | async, 2 faults | *violated*: finding 3 |
| `requests` | 2 callers, 1 keep-alive, 2 connections, a gateway that may fall silent | entries belong to the connection that stands, or to none (`EntriesCurrent`); every waiter can be found (`WaiterReachable`); whoever is woken without an error has the reply (`WokenWithReply`); `QueryPromise` is implemented (`KeepsPromise`); every call whose request was sent returns (`CallsReturn`); every entry expires (`EntriesExpire`) |
| `requests_dead` | same | *violated*: finding 4 |
| `requests_packet` | same, gateway alive | *violated*: finding 5 |
| `subscriptions` | 2 user threads, 2 codes, 2 kline subtypes, 1 other, 2 flavours, quota 2, 4 kinds of call, 2 calls, 2 sessions, 1 fault | the record has one flavour per subtype and code (`OneFlavour`); the resubscription plan covers it exactly, within the quota (`PlanCoversRecord`); at rest the gateway has what the record says, with the exceptions below, which a reconnection at rest ends (`InSync`) |
| `subscriptions_failed` | same | *violated*: finding 6 |
| `transport`, side "send" | 2 connections, 2 callers, packets of 2 bytes, 4 bytes for each connection, 1 close of each queued at a time | work is announced (`WorkAnnounced`); what the socket did not take is waited for (`RestWatched`); `ByteStream` is implemented (`KeepsOrder`); all is sent or the connection is closed (`AllSent`) |
| `transport`, side "push" | heads of 2 bytes, bodies of 1, 2 sessions, 3 packets, 3 executors, with and without encryption | handlers see pushes in order and none twice (`ShownInOrder`); a session that began with an empty buffer loses no byte (`StreamIntact`) and its thread has only its own pushes (`OwnSession`); a dismissed thread calls one more handler at most (`OneLate`); push threads empty their queues or end (`ThreadsKeepUp`) |
| `accounts`, "trade" | 2 user threads, 3 setups, 3 ways to name an account, 2 sessions, 3 threads in all, 2 calls | a call is about the account it names (`OwnAccounts`, `RightAccount`); an order that was answered is reported OK, and none that was not accepted (`OrderReported`); a new session is what the last one was (`Restored`) |
| `accounts`, "cache" | 3 synchronisations, 2 readers, payloads of 2 parts | the cache and what is read of it are whole (`CacheWhole`, `ReaderWhole`) |
| `accounts`, "profit" | 3 deals of 2 orders, quantities 0, 1, 3, prices 1, 2, fees 0, 1 | the books balance (`Balanced`) |

Why the bounds are enough. Two timers are one that has fired and cannot be
stopped and its successor, the overlap every race here needs; with fewer threads
free than the code would start, an action waits, and a run with three timers
explores no new kind of overlap. Three connections let a connection, the one
that replaces it and a late event of either meet. Seven in `context_live` is
more than three faults can use up, so that liveness is never lost to the bound:
each fault costs at most one connection, beyond the first. `MaxQueue` is never
what stops a thread in these runs for the same reason. `KeepsSession` is checked
there, where connects stay pending and InitConnect is granted; that it holds
whatever they come to is proved. Two sessions, or the two connections of
`requests`, let everything an ended session leaves behind meet the next. In `subscriptions` the
quota of 2 with two kline subtypes slices two codes into two queries, and the
calls, made by one thread or by two, overlap in codes, subtypes and flavours: one
subscribes without push, and a subscription and an unsubscription have no type of a
stock in common and may overlap undisturbed.

One close of a connection queued at a time (another may follow when it is done) is
what the minutes of a run allow: a second beside it is one more piece of work that
finds nothing in the table, and the safety properties are proved for any number.
Four bytes in packets of two are a direct send, a rest in the buffer and a packet
behind it. Heads of two and bodies of one let a read end inside a head, between
head and body, and between packets; three packets are an answer to InitConnect in
each of two sessions and a push in either, or an answer and two pushes in one (that
order, sessions and lateness hold for any number is proved). Three executors are the
first, its successor, and one after a failed attempt.

In `accounts` two calls and two sessions bring every pair of threads together that
can share the list; the accounts include one of another firm, which is left out of
the count an index makes, one without a market, and two in one environment. Two
synchronisations overlap and a third follows. Three deals are a purchase, a partial
sale and one that sells more than is held. Users and readers are interchangeable
(SYMMETRY; the run has no liveness property).

The components of `transport` and of `accounts` share no state; each is explored
with the others at rest, which loses none of their behaviours.

`Prompt` in the `context_live` and violation runs says that a runnable thread
takes its step before a timer (6 seconds) fires; the safety run does without.

`CHECK_DEADLOCK FALSE` throughout: a closed context and a program that has made
its calls stop; and where a bound ends a behaviour (bytes, packets, sessions, calls)
there is nothing to do either.

### InSync and its history variable

`InSync` says that, at rest, the gateway has subscribed what the record says, in its
flavour, and pushes it if it was last subscribed with push (`mute` has the rest),
*unless* something of a list has happened since the last reconnection at rest, which
`disturbed` records (`Disturbing`, `Contended`): a call has overlapped a
reconnection or the end of a session; two calls about the same type of a stock, or a
call and the second request of an earlier `unsubscribe()` about one, have
overlapped; a resubscription has outlived its session; a query has failed. The
exceptions are real and not repaired by the code until the next reconnection:

- two threads on one session, no query of which fails: `subscribe` is served,
  another thread's `unsubscribe` drops the record and is served, and the first
  records: the stock is in the record and not subscribed;
- the second request of `unsubscribe`, which nobody waits for, is served after a
  later `subscribe` of the same stock: it is recorded, subscribed, and not pushed;
- `subscribe` succeeds, the connection is lost and replaced, the snapshot is
  taken, and only then does the user's thread record the subscription: it is in
  the record, and not at the gateway;
- `unsubscribe` drops the record and asks the gateway while a resubscription,
  working from an older snapshot, has that subscription under way: if the gateway
  serves the unsubscription between serving the subscription and its being
  recorded, the record has what the gateway does not push. (In another order it
  is subscribed and recorded again: the two agree, against the user's wish.)
- a query whose reply came too late was carried out, and is not recorded.

A reconnection at rest restores agreement. What the run shows, and `GatewayInSync`
proves, is that this list is complete for the calls as modelled, and that such a
reconnection ends what it excuses; calls of several threads about different stocks
may overlap at will. Overlap is more than the code needs to go wrong: many
overlapping calls end in agreement all the same. A reconnection pushes everything it
subscribes, also what the user has subscribed with subscribe_push=False (`Snapshot`
empties `mute`): record and gateway agree then, against the user's wish. That an
unsubscription the user was told of stays in force is a property of its own, which
the overlap with a resubscription breaks.

### OrderReported

What `place_order` returns can be relied on as far as a reply goes. RET_OK means that
the gateway has accepted the order. An order whose acceptance was answered is never
reported as an error, whatever its lookup comes to. RET_ERROR does not mean that there
is no order: the gateway may have accepted it and the reply been late or lost with the
session (`open_trade_context.py:589-591`). The model has that behaviour
(`OrderReply`), and the property says nothing against it. It is about contexts
with a market; section 6 has the exception that one without may raise.

## 5. Fairness

- `context_live`: weak fairness of every thread's next step (threads run, a timer
  that is armed fires), of the network thread's queue, of a pending connect (it
  ends in 20 seconds, `_check_connect_timeout`), and of the gateway's answer to
  InitConnect. The last is the environment's good will, and the faults, which
  are bounded, are where it is withheld.
- `transport`: weak fairness of the network thread's loop over pipe, queue and
  receive buffer, of a caller on its way from the queue to the pipe, of a push
  thread (the user's handlers return), and of a socket with room for a byte while
  EVENT_WRITE is asked for (the peer reads, or the connection is lost).
- `requests`: weak fairness of a waiting caller, of the network thread finishing
  a reply and the closing of a connection that `close()` has asked for (the life
  cycle's part of it is `CloseCompletes`), and of the tick reaching each entry.
  Nothing is assumed of the gateway or of connects.

## 6. Disagreements between the code and its text

1. **One refused InitConnect ends reconnection** (`context_refused`, `Attended`).
   In `_reconnect` the status is still CONNECTED when InitConnect is refused or
   times out, so `_wait_reconnect` declines
   (`common/open_context_base.py:706`). No timer is set, the connection is
   closed without a callback, and the context stays CONNECTED to nothing. Line
   86 calls `_reconnect_interval` "重试连接的间隔", the interval of retries.
2. **A connect that fails at once blocks its thread for ever**
   (`context_unreachable`, `Reconnects`). `network_manager.py:233` (and 224, for
   an immediate success) calls `on_connect` with one argument of two; the
   `TypeError` is swallowed and the event is never set; the wait has no limit.
3. **close() is not final** (`context_closed`, `ClosedIsFinal`).
   `_handle_init_connect_rsp` (`open_context_base.py:697`) sets READY whatever
   the status has become. The doc of `close()` says "关闭上下文对象".
4. **A dead peer is noticed and kept** (`requests_dead`, `DeadPeerDropped`).
   `on_tick` calls `self.close(reason=CloseReason.KeepAliveFail)`; both context
   classes override `close(self)`; `_tick` swallows the `TypeError`. And since
   that call comes first in the handler, the tick does nothing else from then on
   either: requests are then ended by the 20 s wait of their callers alone.
5. **A packet names the wrong connection** (`requests_packet`,
   `PacketNamesConnection`). The packet is packed once, before the loop that
   waits for READY (`open_context_base.py:281`). `Common.proto:30` defines the
   id in it as that of the current connection.
6. **A failed resubscription is ignored** (`subscriptions_failed`,
   `FailedSessionClosed`). `open_quote_context.py:119-122` say "reconnect" and
   "close connect and retry!!"; the caller logs and returns RET_OK.

Met while modelling, without a run of their own:

- The constructor's loop (synchronous mode) opens a new connection after a
  refused InitConnect and does not close the one before
  (`open_context_base.py:96-104`). With `Modes` "sync", `NoStrayConnection`
  fails; and since `on_disconnect` and `on_connect` do not compare `conn_id`, the
  end of the stray connection is taken for the end of the live one. This is why
  `context_live` is asynchronous.
- An exception of `on_api_socket_reconnected` after READY ends in the failure branch
  of `_reconnect` (`open_context_base.py:735-745`), which closes the present
  connection without telling the context and sets a timer. It may come at any later
  time, and `_conn_id` be that of another connection then, at which another thread is
  at work. With `Callbacks` "raises" TLC finds `NoStrayConnection` violated: the next
  connection is begun while the closing of the last is still queued, and a loss of
  that one is taken for one of the new. Then two attempts run beside each other, and
  `Attended` is violated when both fail with the status CONNECTED, as in finding 1.
  What `context_safety` checks holds all the same. This is why `context_live` has a
  callback that returns.
- `close()` during CONNECTING closes the socket through the queue, and
  `_do_close` tells the context of a disconnect, not of a failed connect: a
  thread waiting in `_connect_sync` stays there. `close()` itself completes.
- The resubscription passes `is_first_push` and `subscribe_push` as True: the
  record does not keep them, and a stock subscribed without push is pushed after
  a reconnection.
- `place_order` returns RET_ERROR for an order the gateway has accepted if the reply
  is late or lost: a caller that repeats it may place it twice.
- `unsubscribe()` returns RET_ERROR if the session is lost between its first query,
  which has succeeded, and its second request.
- `_recv_buf` is not emptied when a connection is replaced. Half a packet of the
  old session stands in front of the first of the new one: the digest fails, and
  packets of the new session, the reply to InitConnect among them, go with it.
  `StreamIntact` and `OwnSession` therefore speak of sessions that began with an
  empty buffer (`~dirty`); `ShownInOrder` holds regardless.
- With encryption, a push that arrives after the reply to InitConnect and before
  the connecting thread has taken the key from it cannot be decrypted and is
  dropped (`utils.py:679`). `StreamIntact` leaves encrypted connections out.
- `send()` writes to a blocking control socket while its caller holds the
  context's lock, which the network thread takes in its callbacks: were the pipe
  ever full, the two would wait for each other. The model has a pipe without
  bound.
- `get_acc_list` rebuilds the shared list in place (`open_trade_context.py:84`). A
  rebuild that another thread starts meanwhile empties it or doubles records, and
  `acc_index` names another account, or none; and `unlock_trade` on a half-built
  list says "No one available account!", or subscribes the accounts it has so far.
  `OwnAccounts` holds nevertheless: no call crosses over to another environment.
- A lock by the user while a connecting thread unlocks the new session is undone
  by it; and between the two reads of `_ctx_unlock` (lines 41-42) it raises a
  `TypeError` there, which ends the session.
- A context for any market raises an `IndexError` at line 597 after the order was
  accepted, if the account has no market.
- `__is_acc_sub_push` is never set: nobody calls `on_async_sub_acc_push`.
- Two synchronisations of the watchlist write the same temporary file: one fails
  with `FileNotFoundError`, and the cache may be torn until the next.

## 7. Proofs

All are for every value of the constants that the modules' `ASSUME` admits,
which TLC evaluates in the runs.

- `OpenContextProofs`. `TypeCorrect`, `OneTimerFires`, `WaitingHasTimer`,
  `WaiterIsListed` (`NoLostWakeup`) and `CloseStopsConnecting`
  (`NoConnectAfterClose`), from one inductive invariant `IInv`. It adds to those
  properties: `HasConnId` (a connecting or connected context names its
  connection, without which the request of `SendInitConnect` has no type),
  `HasSent` (a waiting thread knows the connection of its request, without which
  waking "all of `_req_map`" cannot be seen to wake it) and `CloseSettled` (after
  `close()` the status is never START or WAIT_RECONNECT again; `ConnectSync`
  needs START, so nothing is opened). The constructor's part of `CloseSettled` is
  needed because it writes START without the lock.
  `OnlyALateReplyReopens` says how far `close()` is final although `ClosedIsFinal`
  is violated (finding 3): no step but a late `_handle_init_connect_rsp` takes a
  closed context out of CLOSED.

  `ClosedByTheUser` (`ClosedForGood`) extends it to `CInv`: a thread that has found
  the connection it waits for not yet made has its work in the queue or a socket
  behind it, and a CLOSED status has somebody who will see to it (`ClosedSeenTo`):
  the thread whose attempt failed, as long as the context is to reconnect.

  All of these hold whatever `on_api_socket_reconnected` does.

  `SessionRefined` (`KeepsSession`) and `NoneLeftBehind` (`NoStrayConnection`)
  assume `Modes \subseteq {"async"}` and `Steady` (`Prompt`, and a callback that
  returns), and nothing of connects and replies. Both rest on `LInv`, which says that a timer is set only when no
  connection stands (`TimerLast`) and that a thread still at work on a connection
  that may come to something is the only one (`OneBusy`), so that a new connection
  is begun only when none is left (`DownEmpty`). For `SessionRefined`, `SInv` adds
  what an attempt is to those who see the session alone: nobody is connecting in a
  READY context (`ReadyRests`) or beside a connection that was given up
  (`GivenRests`), a connection that is not made yet is the attempt of a status on
  the way to READY or CLOSING (`AttemptSeen`), and connections are opened in order
  (`Opened`). For `NoneLeftBehind`, `DInv` adds that after `close()` whatever is
  alive has its closing queued (`Doomed`) and that the work of opening a connection
  is in the queue before the work of closing it (`ConnectFirst`), since the network
  thread passes over a request to close what it has not opened. The hypotheses
  are needed: TLC finds stray connections in synchronous mode (the constructor's
  loop, section 6), with timers that overtake a thread that can run, and with a
  callback that raises.

  `NeverGivenUp` (`Attended`) assumes `Benign`: besides these, that a connect does
  not end inside `sock.connect` and that InitConnect, if it is answered, is
  accepted. Connects may still fail and connections be lost at any time. A
  refusal makes the property false (`context_refused`, section 6). With an
  immediate outcome of a connect it holds for a bad reason: the thread that waits
  for ever counts as seeing to the context (`context_unreachable`); the hypothesis
  leaves that out rather than claim it. The invariant `AInv` lists the phases of a
  context that is to reconnect: it serves, waits for its timer, starts, connects,
  has InitConnect under way, or has failed and is about to set its timer.
- `RequestsProofs`. `TypeCorrect`, `EntriesStayCurrent`, `WaiterIsReachable`,
  `WokenFindsReply` and `Refinement` (`KeepsPromise`). The
  session is any that `Session` allows, those `OpenContext` never shows
  included; `SessionRefined` says that it shows no other. The
  invariant adds `InfoOrder`, in what order the fields of a `ReqInfo` change
  while its entry is in the map, in the hands of `_handle_recv`, and after; and
  `Passage`, that a request goes through the gateway once.
- `SubscriptionsProofs`. `RecordSeparates` (`OneFlavour`): only `SubRecord.sub`
  and `unsub` change the record, and each keeps a code in one flavour per
  subtype, whatever the arguments; the two lemmas say so of the operators.
  `SubscriptionsType` (`TypeOK`). `PlanAlwaysCoversRecord` (`PlanCoversRecord`):
  slicing a list of codes by the quota loses none and repeats none, for any list,
  and the groups of subtypes by their lists put each subtype in one.
  `GatewayInSync` (`InSync`): the invariant `SyncInv` says of a session nothing has
  disturbed that its resubscription and the users are not at work at once
  (`OneAtWork`), that what threads and second requests are at work on is apart, that the former asks only for what the record holds
  (`AllCovered`), and, code by code, how record and gateway may differ while a query
  is under way (`Agree`): an unsubscription leaves the record first, a subscription
  enters it last, and the rest is what the resubscription has still to ask for.
- `SendPathProofs`. `WorkIsAnnounced`, `RestIsWatched`, and `Refinement`
  (`KeepsOrder`): the send path implements `ByteStream`. The invariant says that
  for each connection the bytes its socket has taken, its write buffer and the
  packets in the queue are, one behind the other, the numbers from 1 to `handed`,
  as long as it stands; then a packet may go to the socket directly only because
  the buffer is empty. `SequenceFacts` has the facts about cutting and joining
  sequences that this and the next need.
- `PushDeliveryProofs`. `HandlersInOrder` (`ShownInOrder`), `OwnSessionOnly`,
  `OneLateAtMost`, `NothingLost` (`StreamIntact`). The invariant `PushInv`: bytes
  are in the order in which they were sent, in the buffer and behind it on the way
  (`BytesInOrder`); whatever a thread has shown, holds or has queued was sent
  before all of them (`Sorted`, `Ahead`). A packet that passes the digest is
  whole, so that what is left in the buffer was sent later (`WholePacket`), and it
  goes behind everything queued. `Ranked` and `Lately` follow the threads: every
  one but the last was told to quit, and looks at that before it takes another
  item. `StreamInv`, for `NothingLost`, takes buffer and wire as one sequence
  (`PacketsWhole`): where one packet ends the next begins, whatever the reads;
  less than a packet is in the buffer between them (`Cutting`); and the push
  thread has been given what is no longer coming (`GivenAll`).
  `BothDirections` says that a behaviour of `MCTransport` is one of either path, so
  that what is proved of each is true of the two together; with it
  `TransportTypeCorrect`, the `TypeOK` of the run.
- `TradeContextProofs`. `CallsOwnAccounts`, `ListStaysIntact`,
  `IndexFindsAccount`, `OrdersReported`, `SessionsRestored` (`Restored`). The
  invariant says of each thread what its place in the code knows of the account it
  has chosen, and of the shared list that, whoever has written it, it holds kept
  accounts only; that the place of a record in an intact list is its rank among
  the kept ones of its environment is a lemma about cardinalities (`RankIsPlace`).
  `SessionInv`, for `SessionsRestored`, follows the one active thread of a session
  without mishaps: what of the list, the lock and the subscribed accounts is as
  the last session had it, at each place in the code. `ListStaysIntact`
  (`ListIntact`) is what `IndexFindsAccount` rests on and is not run by itself.
  `EachOnItsOwn` and `AccountsTypeCorrect` are to `MCAccounts` what
  `BothDirections` and `TransportTypeCorrect` are to `MCTransport`.
- `AccountWebProofs`. `CacheIsWhole`, `ReadersReadWhole`: the file of a name
  that was given up is settled, since nobody has it open for writing any more,
  unless another synchronisation ran beside the one that moved it.
  `BooksBalance` (`Balanced`), for quantities, prices and fees that are any integers.
  Each branch of the loop is one identity between fractions (`BuyBalance`,
  `SellBalance`, `FeeTurns`, `FeeBalance`), proved over a common denominator. That
  equal fractions are the same pair needs that lowest terms are unique
  (`LowestIsUnique`), and `Fraction` takes the greatest common divisor with `CHOOSE`,
  so that it exists is shown first (`Greatest`). The sum over the deals of an order
  is a recursion over finite sets; that it is an integer is shown by refuting the
  smallest set for which it is not (`SumsExist`, `SumIsWhole`), which needs no
  theorem with an operator parameter.

Only model-checked is liveness, which is out of the prover's reach: `Reconnects`,
`CloseCompletes`, `CallsReturn`, `EntriesExpire`, `AllSent`, `ThreadsKeepUp`.
`NoStrayConnection`, `KeepsSession` and `Attended` are proved, and checked, only
under the hypotheses given above: outside these they are false or, for an immediate
outcome of a connect, `Attended` is true for the wrong reason. Rounding is outside
the model of `RealizedPl`, and so outside the theorem: the code's decimals of 28
digits balance up to that rounding.

## 8. What is not modelled, and why

Most of the repository's lines are generated protocol messages, tables of
constants and conversions between messages and tables of data: they hold no state
and meet nothing that happens at the same time. Ninety queries of the quote
context are one call of `Requests` each, with such a conversion; the paging of
history klines is the only one that keeps anything between requests, in local
variables. Quote push handlers unpack a message and call the user. Of the web
application the two parts that keep or compute something are modelled; the other
endpoints return the answer of one or more queries. JSON bodies, which OpenD does
not use by default, are left out: one that cannot be parsed stays in the buffer
(`utils.py:584`). Making and stopping the network thread, the registration of
handlers, and `_close_all` are not modelled.

Late execution of a request by OpenD, after the caller's time-out
and after later requests of the same connection, is excluded: it serves a
connection in order. Only the second request of `unsubscribe()`, for which nobody
waits, may be served at any time. Contents of replies, error texts and encryption are data no
property depends on. Serial numbers wrap after 4294967295 requests of a process,
beyond any run. The generated messages, constants, code generators, analysis
scripts, demos, logging and the browser front end have no behaviour of the
system in them.

## 9. Running it

    tlc -workers 2 -config Requests.cfg MCRequests
    tlc -workers 2 -config Transport.cfg MCTransport
    tlapm RequestsProofs.tla

`PROJECT.json` lists every run with its module and configuration, the mutants
that show each property can fail, and the source lines of every definition.
