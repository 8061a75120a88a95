# A TLA+ model of vulcan-gate

vulcan-gate is a gateway between game clients, which hold one TCP connection
each, and backend services, which it reaches over gRPC streams. This directory
models the part of it where goroutines, connections and servers meet: the life
of a connection, its session, the server that accepts and stops connections,
their registry, the shared route table, the tunnels to the backends, the pooled
buffers that connections are read into, and the TCP client of the same package.
TLC checks the models on small instances; TLAPS proves the safety properties, two
refinements and, from what `ENABLED` means, most of the liveness properties for all
values of the constants.

## The system

| Component | State it keeps | Operations | Module |
|---|---|---|---|
| Worker (`pkg/net/internal/worker.go`) | reply channel, flags of the write loop, session, countdown, stop state | Start, Run (four goroutines), Stop, Push, read, write | `Worker`, `WorkerLife`; the handshake also in `Session` |
| Tunnel holder (`pkg/net/internal/tunnel.go`) | tunnels by type and object | find, create, stop | `Worker` (ReadPack, Release), `Tunnel` (HolderStops) |
| TCP server (`pkg/net/tcp/server/server.go`) | id generator, buckets, listener | accept, serve, work, Disconnect, Push, PushGroup, Broadcast, stop | `Server`; what `work` and the pushes do also in `Worker`, `Registry`, `RouteTable` |
| Buckets (`pkg/net/internal/buckets.go`) | workers by id, in locked buckets; users to ids, in a map of its own | Put, Del, GetByUID, GetByUIDs, Walk | `Registry` |
| Route table (`app/gate/internal/router/routetable.go`, `server/tcp.go`) | in Redis: the gate of each user | AddRouteTable (GetSet), DelRouteTable (DelIfSame) | `RouteTable` |
| Tunnel (`app/gate/internal/intra/net/tunnels/tunnel.go`, `player/`, `room/`) | csChan, a gRPC stream, stop state | Forward, csLoop, scLoop, stop | `Tunnel`, `TunnelLife` |
| Message pools (`tunnels/player/pool.go`, `room/pool.go`) | free messages | get, put | `Tunnel` |
| Client service (`app/gate/internal/intra/net/service`) | none of its own; uses the session's indexes | Auth, Handle | `Session` (keys and indexes), `Worker` (tunnels) |
| Buffer pool (`pkg/net/internal/bufreader/pool.go`) | free buffers by size class, a table from sizes to classes | NewSyncPool, Alloc, Free, Size | `SyncPool`, `BufReader` |
| Reader (`pkg/net/internal/bufreader/reader.go`) | a pooled buffer with the window r..w | NewReader, ReadFull, ReadByte, Close | `BufReader` |
| Session (`pkg/net/session.go`, `internal/crypto.go`) | the key in use, two packet indexes | NewSession, IncreaseCSIndex, IncreaseSCIndex, encrypt, decrypt | `Session` |
| TCP client (`pkg/net/tcp/client/client.go`) | a reader, a receive channel, stop state | Start, receive, readPackLoop, stop, Receive | `Client` |

`PROJECT.json` lists the remaining parts (configuration, wiring, logging,
encryption, generated code) with the reason why they are left out.

How they interact: `Server.accept` gives each connection an id and a goroutine
in `Server.work`, which performs the handshake, puts the worker into its bucket,
adds the user's route and runs the worker; its deferred calls take the worker
out of its bucket, stop it and remove the route, in this order. The worker's
read loop finds or opens a tunnel for each packet and hands it over with
`Forward`. The tunnel's loops carry packets to the backend's stream and what
comes back to `Worker.Push`, whose channel the worker's write loop empties.
When a player tunnel ends it sets the worker's countdown, which a tick of the
worker watches: it looks at the time, and stops the worker in its next statement.
Every worker reads its connection through a reader of its own;
all readers take their buffers from one pool. `Server.Stop` walks the buckets
twice, to ask the workers to stop and to wait for them; it leaves the listener
open, which the end of the application's context closes by a deadline.

What is hard about it: the check of a stop flag and the send on a channel are
two steps; loops end on different signals (the write loop only when its channel
is closed, the receive loop only when its stream breaks); the order of deferred
calls matters; a lookup by user is two reads of two structures; a user may be
connected twice, on one gate or on two; a Redis command that has timed out may
still be carried out; a buffer that a reader has outgrown is at once another's;
a stop walks over connections that come and go; the handshake switches keys while
packs are under way; a client hands out windows of a buffer that it compacts,
goes on filling and outgrows, and closes it under a read.

## The modules

* `Stopper` - the `Stoppable` that worker, tunnel and server embed. It belongs to
  another repository, so it is modelled from its use: `TriggerStop` asks,
  `DoStop` runs the stop function, `IsStopping` and `Stopping` hold from then
  on. Whether they already hold once a stop has been asked for cannot be told
  from here: `StoppingOnTrigger` leaves both open, and the proofs hold for both.
* `Worker` - one connection. `serve` is the control point of `Server.work`,
  `group` those of the four goroutines of `Worker.Run`. Every pushed pack is
  named by its pushing goroutine. The worker's tunnels follow the life cycle of
  `TunnelLife`. The tick is two steps, the look at the expiry time (`TickExpires`)
  and the stop (`TickFires`), since a player tunnel may be opened between them. A
  write may fail at any time (the filter, the encryption, the connection), and it
  may never return while the deadline is ahead.
* `WorkerLife` - what the server relies on of a connection: `Server.work` goes one way
  from the handshake over `Put` and `Del` to the end of `Stop`, and a worker that has
  been in its bucket may be asked to stop at any time, even after it has left.
  `Worker` implements it (`life`, `ImplementsLife`), `Server` uses it.
* `Server` - the accept loops, `serve`, the two walks of `Stop`, `Disconnect` and the
  listener's deadline, over connections that live as `WorkerLife` says. A walk takes
  the snapshot of one bucket and goes through it while connections come and go.
* `Session` - one connection from the handshake on, gate and client. A pack is
  known by the key it was written with, a packet also by its index and message.
  The gate's counters do not overflow, the packet's index is an int32 of
  `-Half..Half-1`. The client is not in the repository: it counts from the index
  that the handshake gave it, and may send its last packet again.
* `Registry` - connections, buckets and `uidWidMap`. `put` and `del` are two steps
  each, with the bucket locked between them, because readers of `uidWidMap` do
  not take that lock. `Push`, `PushGroup` and a walk over the buckets run
  alongside; a finder is in the one or the other.
* `RouteTable` - connections on several gates. A call is three steps: it is sent,
  Redis carries it out, the answer arrives. Each can be late, lost or overtaken.
* `TunnelLife` - what a worker relies on of a tunnel: live, ended, stopping,
  closed, and when a packet may be taken or refused.
* `Tunnel` - one tunnel in detail: `Forward` as check, transform and send; the
  three goroutines; the stop sequence; the pooled messages with their contents.
  A push to the worker either fails in the compression, which is logged and the
  loop goes on, or comes to `Session()`. It implements `TunnelLife` under the
  mapping `Life` at its end.
* `SyncPool` - the size classes and the lookup table of the buffer pool as functions
  of its three parameters, with 8-bit entries, filled in the order of the code:
  a class overwrites the last entry of the one before it. `pool_test.go` expects
  smaller classes (`Size(minSize) = minSize`) than `NewSyncPool` makes, whose first
  class has twice the minimum; the module follows `pool.go`.
* `BufReader` - several readers over that pool. Alloc hands out a new buffer or any
  free one of the class, since `sync.Pool` promises no more; free buffers may be
  collected at any time. Growing is two steps, because another reader can take
  the old buffer before the first goes on. What is written in a buffer is given
  by whose bytes they are and which byte is at its beginning. A buffer that is
  too short for the slice taken of it makes the call panic. Each reader is used by
  one goroutine, as a worker's is; the TCP client, which closes its reader under a
  read of another goroutine, is outside this module and in `Client`.
* `Client` - the TCP client: `receive` with its two goroutines, `read` and the reader
  under it, the windows in the channel, and `stop`, which the stop request or the
  end of `receive` runs. The stream is a row of numbered units, one for the length
  of a pack and `Body` for what follows, and arrives in pieces of any size; the
  buffer is compacted, filled again and replaced by a larger one as in `ReadFull`.
  `Close` races with `ReadFull`. It is two steps: it gives the buffer to the pool
  (`CloseFrees`) and lets go of it (`CloseClears`). A read that meets it may end in
  an error or a recovered panic (`RacedEnds`), wait (`RacedWaits`), or return a window
  of a buffer that may be another reader's (`RacedReturns`). A growth that began
  before it gives the old buffer to the pool a second time (`twice`), or puts a new
  buffer into the closed reader, which is read on until it has to grow again
  (`GrowRaces`). After `CloseFrees` the model no longer follows which bytes the
  buffer holds.

The modules named `MC...` give the constants values for TLC. Definitions marked "Mutant" above a definition are that definition with a
plausible mistake; they are not part of the specification and serve to see that
each property notices one.

Abstracted: bytes, compression and packet fields other than the index (a packet
that is refused for another reason is `ReadFails`); ciphers (a pack can be read with
the key it was written with, and with no other); time (a deadline or timeout passes at
any moment; an expiry time is "set and passed"); log lines. Undelivered packets
of a client, connections and packets per tunnel are bounded by `MaxInbox`,
`MaxWid` and `MaxPackets`; the bytes of a connection and the sizes a buffer may
grow to by `MaxStream` and `Powers`; messages and repetitions of a client and packs in
flight by `MaxMsgs`, `MaxRepeats` and `MaxFlight`; the server's connections by
`MaxConns`; the units from the client's peer by `MaxUnits`, which also bounds the
windows that a read returns once `Close` has begun.

## The runs

| Run | Checks | Instance |
|---|---|---|
| `worker` | Stop acts when the loops are gone; packs stay in order; the tick stops a worker for an ended player tunnel only, or against one opened after its look; the end of a player tunnel is not forgotten; a found worker is live; `WorkerLife` is implemented | 3 pushers, channel of 2, 2 player tunnels |
| `worker_live` | a dead writer ends the worker; pushes return once the worker's context is done; the handshake ends; a stop request frees a read loop held by a stalled backend | 2 pushers, channel of 1, 1 room tunnel |
| `registry` | a lookup finds a worker of the user asked for; no entry outlives its worker; a broadcast reaches all who stay; an entry is lost only to a connection of the same user; a nil worker means that one left | 2 users, 3 connections, 2 buckets (two connections in one), 1 Push or PushGroup |
| `route` | cleanup spares other gates; no route is left behind | 3 connections, 2 users, 2 gates |
| `tunnel` | types; packets in order and intact; one owner per message; loops end before the channel is closed; a tunnel winds down; `Forward` returns; `TunnelLife` is implemented | channel of 2, 4 messages, 6 packets |
| `reader` | types; windows in bounds, with room for what is awaited; one owner per buffer; every connection yields its own bytes in order; no buffer is too short | 2 readers, 3 buffers, classes of 4, 6, 8 and 8 bytes, reads of 1 and 5 bytes, 6 bytes per connection |
| `session` | gate and client use the same key for every pack; a message passes once and in order; a refused index means a repetition or the wrap | indexes of 4 bits, 10 messages, 2 repetitions, 3 packs in flight, with and without encryption |
| `server` | one accept per loop after the stop has begun; the stop misses no worker; Stop returns; the accept loops end | 2 accept loops, 2 connections, 2 buckets |
| `client` | packs in order, and whole when they are returned; the reader is closed under the loop, and a buffer freed twice, only on request; a stop request closes the channel; `receive` ends | channel of 2, packs of 1 + 2 units, first buffer of 2 units, 4 packs |

Type correctness is an invariant of the runs `tunnel` and `reader`. For all modules it is
a theorem (`TypeCorrect`) for every value of the constants.

Why the bounds are enough to be of interest: three packs in a channel of two
queue behind each other, one of them in the writer's hand, and with a stalled writer
the channel is full; a channel of one blocks the second of two senders; one of two
player tunnels ends, or is opened, while the other's end is counted down; two connections of one user are a reconnect, and three put two workers
in one bucket; three connections over two gates let a user move to another gate
and back; with four messages and six packets each message is used again while
others are under way (one held by `Forward`, two queued, one being sent); a
reader that starts with 4 bytes grows to 8, which the pool takes back and hands
to the other reader, and to 16, which it does not keep. The gate's own sizes are
checked apart, by the assumption `GateSizesFit` in `MCWorker`: of buffers of 4096
bytes and the powers of two up to 65536 none is ever filed where it would be too
short for another (`SizesFit` of `SyncPool`, from which `AllocsFit` concludes that no
`Alloc` panics). The same assumption records that this depends on the sizes:
readers that start with 12288 bytes would leave buffers of 14336 bytes where a
reader that grows to 16384 finds them, and `Alloc` would panic. Ten messages pass
the wrap of a 4-bit index, which is message 2^31 of the code. Two buckets with a
connection each let one come or go before and after the walk has passed its
bucket. A pack of three units comes in up to three pieces; a buffer of two units
cannot hold a body together with what is unread and grows to four, where the first
units of the next pack come with the rest of this one and are compacted over the
windows that wait in the channel of two. The theorems cover any number of finders, buckets,
loops and connections, and any width of the index.
Users, gates, connections, pushers, readers and buffers are symmetric in the safety runs; the runs
with liveness properties use no symmetry. Deadlock is not checked: connections,
tunnels, servers and clients end, and an ended one has nothing left to do. In
`reader` it is.

Three further runs check what a comment or an error of the repository says, and
TLC finds a behaviour of the code that contradicts it. The entries under
`findings` in `PROJECT.json` quote the lines.

| Run | Claim | What happens |
|---|---|---|
| `worker_tunnel` | the worker is closed when the player tunnel is | The tick ends the group's context, but the write loop waits on the reply channel, which is closed only after it has returned. |
| `tunnel_gate` | a failed push is logged and the loop goes on | `Session()` of the player and room tunnels calls itself without end. |
| `client_window` | the slice of `ReadFull` is used before the next read | The window waits in the channel while the loop reads on; compaction and the next fill overwrite it. |

Some behaviour that a reader of the code may not expect contradicts no line of it.
The models contain it, and a property says how far it goes:

* A push that has passed the `IsStopping` check panics when Stop closes the channel
  before its send (`PushPanics`). It can only be one that found the worker before
  `del` (`FoundWorkerIsLive`).
* A client that sends and does not read holds the write loop in `conn.Write`, for each
  packet it sends extends the deadline of the pending write too, and behind it every
  goroutine that pushes to the full channel. Once the worker's context is done they
  get away, by the send, or by an error or a panic of the closed channel
  (`PushReturns`).
* A tick that has read the expiry time stops the worker although a player tunnel was
  opened since. It does so against no tunnel that was there when it looked
  (`TickStopsForEndedTunnel`).
* The old connection's `del` removes the entry that a new connection of the same
  user has put, and the user is not found while online. Nobody else's `del` does
  that (`EntryLostOnlyToOwnUser`).
* `GetByUIDs` collects a nil worker when a member leaves between its two reads, and
  `PushGroup` calls `Push` on it; for a user whose worker has not left it does not
  (`NilMeansLeft`).
* `DelIfSame` cannot tell two connections of a user to one gate apart: the old one's
  cleanup deletes the new one's route. A connection to another gate is safe
  (`CleanupSparesOtherGates`).
* A stalled backend holds the worker's read loop beyond its deadline; a stop request
  frees it (`StalledForwardEnds`).
* After `Stop` has begun each accept loop may still take one connection, which
  nobody asks to stop (`OneLateAcceptPerLoop`).
* A connection of 2^31 encrypted packets is refused (`RefusedOnlyAtWrap`). Without
  encryption the index is not checked, and a repeated packet passes again.
* A client that is asked to stop leaves its connection open: its read loop, blocked
  in a read, stays until more bytes come or the peer or the context ends, and what
  arrives is written to a buffer that is back in the pool. A stop in the middle of a
  growth can give one buffer to the pool twice. Neither happens without a request
  (`ClosedUnderLoopOnlyOnRequest`).

`tunnel_gate` shapes `Tunnel`: in the code as it is, the first message of a backend
that the compression does not refuse ends the process, so `TunnelWindsDown` and `ForwardReturns` say "or the gate is
down", and the pushes in `Worker` are those of the server's own `Push` methods.
`Tunnel.Forward` has the same gap between check and send as `Worker.Push`
(`ForwardPanics`); the recovery middleware turns its panic into an error of the
read loop, and `ImplementsLife` includes that this happens to a stopping tunnel only.

### Fairness

Weak fairness of each goroutine's own steps: Go schedules a goroutine that can
run. In `Worker`, a deadline that is not extended passes, `conn.Write` returns once the
deadline has passed and is not assumed to return before (`WriterRuns`), and the tunnel that the read
loop is forwarding to ends once the context its stream was opened with is done; that
is how a gRPC stream behaves. In `Server` and `Client` the goroutine of `SetDeadlineWithContext` runs once the
context is done, and `WaitStopped` returns after its timeout at the latest. `ReceiveEnds`
of `Client` names its own assumption, that the user goes on receiving. Its read loop takes every step that needs no more bytes (`LoopRuns`); that
bytes come is not assumed. Nothing is assumed of a client, of a backend (it may never send, never
take a packet, never end its stream), or of anyone's wish to push or to stop.

## The proofs

For all values of the constants, from the named assumptions in the modules only:

* `WorkerProofs`: `TypeCorrect`, `StopIsQuiet`, `FoundIsLive`,
  `TickIsJustified`, `EndIsRemembered`, `RepliesKeepOrder`, and the refinement
  `WorkerImplementsLife`. That Stop acts on a quiet worker
  follows from where `Server.work` stands: `GroupInv` says that the goroutines
  have all exited, or never started, from the end of `Run` on; `EffectInv` and
  `PhaseInv` say at which points of `work` the channel can be closed, the
  connection released and the stop begun. The order of packs needs `RepliesInv`,
  which adds what is in the writer's hand to the statement; `wire \o inHand \o
  replyChan = accepted` is kept by four lemmas on concatenation. The tick needs
  `SetInv`, that an expiry time is set only for a player tunnel that is over, and the
  history `reopened`, which marks an opening between the tick's look and its stop. The
  refinement maps the
  control point of `Server.work` to the stage of the life; `ListedInv` says that
  between `Put` and `Del` the worker is in its bucket and counts as one that has
  been there.
* `RegistryProofs`: `TypeCorrect`, `EntriesAreFresh`, `LookupsFindOwner`,
  `BroadcastsReachStayers`, `EntriesAreLostToOwnUser`, `NilWorkersHaveLeft`.
  `EntryInv` ties an entry of `uidWidMap`, the bucket
  and the connection's control point together; `FoundInv` says of what a finder
  has loaded what `EntryInv` said of the entry when it was read, which no later
  step can undo since ids are not used again; `WalkInv` says that the workers
  that stayed and whose buckets have been passed have been reached.
* `RouteTableProofs`: `TypeCorrect`, `CleanupSpares`, `NoRouteLeftBehind`.
  `CommandInv` relates the commands under way to the control points of their
  connections; `WitnessInv` names, for each route, the connection that will
  still remove it.
* `TunnelProofs`: `TypeCorrect`, `LoopsEnd`, `MessagesHaveOneOwner`, `PacketsKeepOrder`, and
  `TunnelImplementsLife`, the refinement. The step
  lemma needs to know when the channel is closed (`ClosedInv`), that a stop
  begins after the group has ended (`GroupInv`, `PhaseInv`), and that the holder
  asks for a stop only when no `Forward` is under way (`TriggerInv`): with
  `StoppingOnTrigger`, a `Forward` could otherwise be refused by a live tunnel.
  Order and ownership go together (`MsgInv`): a message that is put back or taken
  from the pool is in no other place (`PlaceInv`), so writing in it changes no packet
  under way; `OrderInv` states the order packet by packet, and `HandInv` that the
  held message carries the packet it was made for.
* `BufReaderProofs`: `TypeCorrect`, `WindowsInBounds`, `BuffersHaveOneOwner`,
  `ReadersKeepStream`, for any pool, sizes and number of readers, from
  `ReaderAssumption` (the first size is not zero: `ReadByte` on an empty buffer has no
  room). The invariant is the three properties and `Local`: a reader that is open has a
  buffer of at least one byte, and two different ones exactly while it swaps them.
  Nothing is needed of the classes or of capacities, since a buffer that is too short
  is not used. `AllocsFit`: if the sizes fit each other (`Fitting`), no buffer is too
  short; `HeldFit` and `PooledFit` say for which size a buffer was made. Whether they
  fit depends on the sizes, as `FiledOneHigher` shows: a buffer that was made for a
  class is filed one class higher. TLC evaluates `Fitting` for the instance of the run
  (`InstanceFits`) and its two parts for the gate's pool (`GateSizesFit`). The facts
  about classes and the table are inductions over the class number, which
  the proofs do with least counterexamples (`LeastElement`).
* `SessionProofs`: `TypeCorrect`, `KeysAlwaysAgree`, `MessagesPassOnce`, `RefusalMeansWrap`, for
  every width of the index, from `HalfAssumption` and `KeyAssumption`. The invariant
  follows the packets in flight: `Phase` says who has got how far in the handshake,
  `KeyInv` with which key each pack on its way was written, `Chain` (with
  encryption, or without repetitions) that the messages under way continue those
  that have passed, each the same as the one before or the next, and `Count` that a
  packet's index is its message's number until the wrap and, with encryption, the
  gate's counter one more than the number of messages that have passed.
* `ServerProofs`: `TypeCorrect`, `LateAcceptsAreBounded`, `StopReachesEverybody`. `LateInv`: a loop
  that has taken a connection since the stop began is not about to take another.
  `WalkInv`: of the workers that were present, those of the buckets walked so far
  have been asked (and in the second walk waited for) unless they have left, and
  no worker that has left comes back (`LifeInv`). `ConnectionsFollowLife`: whatever
  loops, walks, `Disconnect` and the stop do, a step changes one connection at most, as
  it arrives or as `WorkerLife` allows; in particular a worker is asked to stop only
  if it has been in its bucket, which `Worker` assumes of the server, while
  `WorkerImplementsLife` shows what the server assumes of the worker. The snapshot of
  a walk needs `SeenInv`. `StopIsBounded`: each step of the two walks lowers a number,
  the buckets and workers that at most remain, and no other step of a server that is
  being stopped changes it.
* `ClientProofs`: `TypeCorrect`, `PacksAlwaysInOrder`, `LoopIsClosedOnRequest`, for every
  size of packs, pieces, buffers and channel. `UnreadInv` says that, while the reader
  is open, the unread cells hold the units that follow those `ReadFull` has returned
  (`Consumed`: the packs received, queued and in hand, and a length whose body is
  still to come), up to the last that arrived; every compaction, growth and fill
  keeps it. `HandInv` says when the loop holds a window, `StopInv` how far the stop
  has come and that it began on request or after the loop had ended.

What must happen is proved from the fair specification, by chains of steps each of
which stays enabled until it is taken:

| Theorem | Property | Why the next step is always possible |
|---|---|---|
| `WindsDown`, `ForwardEnds` (`TunnelProofs`) | `TunnelWindsDown`, `ForwardReturns` | A broken stream ends scLoop, whose end cancels the group; the other goroutines see that, and the stop goes through its steps (`WindInv`). A `Forward` is refused by then, or panics on the closed csChan. |
| `HandshakeIsBounded`, `StalledForwardIsLeft`, `WriterEndsAll` (`WorkerProofs`) | `HandshakeEnds`, `StalledForwardEnds`, `WriterEndsWorker` | A deadline passes or a pack is there; a stop request cancels the group, which ends the tunnel that `Forward` waits for; the group's loops leave one by one, and `Server.work` goes on to its end (`LiveInv`, `ServePath`). |
| `PusherGetsAway` (`WorkerProofs`) | `PushReturns`, for each pusher | Once the context is done the read loop leaves and nothing extends the deadline. Then a write fails and the worker goes on to close the channel, on which a waiting send panics; or the write loop has emptied the channel, and there is room. |
| `StopReachesChannel` (`ClientProofs`) | `StopClosesChannel` | The watch goroutine sees the request and runs the stop, or `receive` has come to it first (`CloseInv`). |
| `LoopsEnd` (`ServerProofs`) | `AcceptLoopsEnd` | The listener expires, which wakes `AcceptTCP`, and the loop sees that the context is done. |

The provers cannot compute `ENABLED`. These theorems therefore have the hypothesis
`[]StepsEnabled`: under the guards that it lists, which are those of the actions, the
fair steps are enabled. `StepsEnabled` stands after `FairSpec` in `Tunnel`, `Worker`,
`Client` and `Server`; `PusherGetsAway` has the same of its pusher, `PushEnabled`. They
are statements about the actions only. No configuration here lists them; with
`INVARIANT StepsEnabled` added to those of `tunnel`, `worker_live`, `client` and `server`
TLC finds it true in all states, and likewise `PushEnabled` of every pusher.

Only model-checked: `StopReturns` of `Server` and `ReceiveEnds` of `Client`, and of
`PushReturns` the formula over all pushers at once (the theorem is for each pusher).
`StopReturns` and `ReceiveEnds` need an induction over a number that grows with the
constants: the workers of the buckets, the packs in the buffer. Leads-to by induction
takes a temporal formula as a parameter, which the provers cannot instantiate. For
`StopReturns` the decreasing number is proved (`StopIsBounded`); that a decreasing
natural number comes to an end is what is left to TLC.

## Not modelled

* Generated code. `src/gen/` and the files `*.pb.go`, `*.pb.validate.go` are about nine
  tenths of the repository's lines: protocol buffer messages with their accessors
  and validators, and gRPC stubs. They hold no state and take no decision of
  their own; a model of them would restate the schema. For that reason the share
  of all lines that the modules cover is small, while of the hand-written Go code
  outside tests, some 3900 lines, somewhat less than two fifths is translated. The
  modules go where goroutines, connections or servers share state; the rest of the
  hand-written code is listed below.
* Configuration, wiring, the command, the construction of the gRPC, HTTP, etcd and
  health servers and of the backend clients: built once from the configuration,
  before anything runs concurrently.
* Logging and metadata middleware: no state. The push service's methods are stubs.
* Ciphers and compression, and the loading of keys: library calls without state,
  present as success or failure.
* The pool of client packets: each use is a get and a put in one function.
* The player route. `OnStop` of a player tunnel asks the player route table for a
  delayed deletion (`DelDelay`) under the user's colour and id, while the holder keys
  tunnels by the packet's object: one connection can open several player tunnels,
  and the first to stop asks for the deletion of the route they share. When that
  route is added, and what `DelDelay` does if it is added again before the delay is
  over, is decided in a library outside this repository, so `Tunnel` has `OnStop` as one
  step of the stop and no route. The room route table is only constructed here.
* A connection whose socket options cannot be set is left open by `serve`
  (`leaked` in `Server`); the finalizer that closes it some time is outside the model.
* A composition of `Worker` with the detailed `Tunnel`: the worker uses `TunnelLife`,
  which `Tunnel` is proved to implement, and the server `WorkerLife`, which `Worker`
  is proved to implement and the server to follow. The detailed modules have not been put together in one run.
