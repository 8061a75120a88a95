-------------------------------- MODULE Client -------------------------------
(***************************************************************************)
(* The TCP client: the goroutine of receive, the two goroutines of its     *)
(* group, the reader with the windows of its buffer that travel through    *)
(* receivePackChan, and the stop that either end may run.                  *)
(*                                                                         *)
(* The connection carries numbered units: each pack is one unit for its    *)
(* length and Body units for its body, and the units arrive in pieces of   *)
(* any size.  The client does not copy a pack: what it sends on the        *)
(* channel is a window of the reader's buffer, which ReadFull compacts,    *)
(* fills again and replaces by a larger one.                               *)
(*                                                                         *)
(* Stop closes the reader and the channel, but not the connection: a read  *)
(* that waits for bytes ends with bytes, with the peer, or with the        *)
(* context's deadline.  Close races with ReadFull.  From Close's Free on   *)
(* the buffer belongs to the pool and any other reader may write to it, so *)
(* that a ReadFull may find any length and any bytes: it returns a window, *)
(* waits, or ends in an error or a panic that RunSafe recovers.  A growth  *)
(* that was under way frees the buffer a second time, or puts a new buffer *)
(* into the closed reader, which is then read on.                          *)
(* Send writes to the connection and changes nothing here.                 *)
(***************************************************************************)
EXTENDS Integers, Sequences

CONSTANTS
  ChanSize,    \* 1024 in the code
  InitialSize, \* units that fit the first buffer
  Extras,      \* by how much a new buffer may exceed what is needed
  Body,        \* units of a pack's body
  MaxUnits     \* bound: units that arrive

ASSUME ClientAssumption ==
  /\ ChanSize \in Nat \ {0} /\ InitialSize \in Nat \ {0} /\ Body \in Nat \ {0}
  /\ Extras \subseteq Nat /\ Extras # {} /\ MaxUnits \in Nat

VARIABLES
  arrived,       \* units read from the connection
  eof,           \* the peer has closed or reset the connection
  ctxDone,       \* the context given to Start is done
  expired,       \* SetDeadlineWithContext has set the connection's deadline
  triggered,     \* TriggerStop has been called
  buf, size, r, w, \* the reader: the unit in each cell, the size, the two positions
  gen,           \* history: how often the buffer was replaced
  reader,        \* "open", "freed" and "closed" by Close, "revived" by a growth
  twice,         \* history: a buffer was given to the pool twice
  part,          \* what read is after: the length or the body
  loop,          \* control point of readPackLoop
  hand,          \* the window that readPackLoop is about to send
  chan,          \* receivePackChan
  chanClosed,
  watch,         \* control point of the group's other goroutine
  main,          \* control point of receive
  stop,          \* control point of the DoStop of stop
  last,          \* history: how many packs the user has received
  spoiled        \* history: a received window did not hold its pack any more

bufVars    == <<arrived, buf, size, r, w, gen>>
readerVars == <<reader, twice>>
loopVars   == <<part, loop>>
chanVars   == <<hand, chan, chanClosed>>
ctrlVars   == <<watch, main, stop>>
envVars    == <<eof, ctxDone, expired, triggered>>
userVars   == <<last, spoiled>>
vars == <<bufVars, readerVars, loopVars, chanVars, ctrlVars, envVars, userVars>>

Cells(n) == 0..(n - 1)
Need     == IF part = "len" THEN 1 ELSE Body
Unread   == w - r
\* A window of the current buffer; late is one that is handed out after Close
\* has begun.
Window(s, u) == [gen |-> gen, slot |-> s, first |-> u, late |-> FALSE]
LateWindow   == [gen |-> gen, slot |-> 0, first |-> 0, late |-> TRUE]
Intact(v)    == \A j \in Cells(Body) : buf[v.slot + j] = v.first + j

\* NewClient, and Start once the connection is made.
Init ==
  /\ arrived = 0 /\ eof = FALSE /\ ctxDone = FALSE /\ expired = FALSE /\ triggered = FALSE
  /\ size = InitialSize /\ buf = [c \in Cells(InitialSize) |-> 0] /\ r = 0 /\ w = 0 /\ gen = 0
  /\ reader = "open" /\ twice = FALSE /\ part = "len" /\ loop = "call"
  /\ hand = <<>> /\ chan = <<>> /\ chanClosed = FALSE
  /\ watch = "running" /\ main = "wait" /\ stop = "live" /\ last = 0 /\ spoiled = FALSE

------------------------------------------------------------------------------
(* ReadFull of the open reader, as read calls it: the length, then the body. *)

\* The unread units, moved to the beginning of a buffer b of s cells.
Moved(b, s) == [c \in Cells(s) |-> IF c < Unread THEN buf[r + c] ELSE b[c]]

\* The length is there.
LenReturns ==
  /\ loop \in {"call", "wait"} /\ part = "len" /\ reader = "open" /\ Unread >= Need
  /\ loop' = "call" /\ part' = "body" /\ r' = r + 1
  /\ UNCHANGED <<arrived, buf, size, w, gen, readerVars, chanVars, ctrlVars, envVars, userVars>>

\* The body is there: its window is what read returns.
BodyReturns ==
  /\ loop \in {"call", "wait"} /\ part = "body" /\ reader = "open" /\ Unread >= Need
  /\ loop' = "send" /\ part' = "len" /\ hand' = <<Window(r, buf[r])>> /\ r' = r + Body
  /\ UNCHANGED <<arrived, buf, size, w, gen, readerVars, chan, chanClosed, ctrlVars, envVars, userVars>>

\* The length is negative: ErrBufReaderSize.
LenRefused ==
  /\ loop = "call" /\ part = "body"
  /\ loop' = "exited"
  /\ UNCHANGED <<bufVars, readerVars, part, chanVars, ctrlVars, envVars, userVars>>

\* Mutant: the unread units stay where they are.
CompactsInPlace ==
  /\ loop = "call" /\ reader = "open" /\ Unread < Need /\ Need + Unread <= size
  /\ loop' = "wait" /\ w' = Unread /\ r' = 0
  /\ UNCHANGED <<arrived, buf, size, gen, readerVars, part, chanVars, ctrlVars, envVars, userVars>>

\* There is room: the unread units move to the beginning.
Compacts ==
  /\ loop = "call" /\ reader = "open" /\ Unread < Need /\ Need + Unread <= size
  /\ loop' = "wait" /\ buf' = Moved(buf, size) /\ w' = Unread /\ r' = 0
  /\ UNCHANGED <<arrived, size, gen, readerVars, part, chanVars, ctrlVars, envVars, userVars>>

\* There is no room, and the reader was not closed when line 85 looked.
GrowBegins ==
  /\ loop = "call" /\ reader = "open" /\ Unread < Need /\ Need + Unread > size
  /\ loop' = "grow"
  /\ UNCHANGED <<bufVars, readerVars, part, chanVars, ctrlVars, envVars, userVars>>

\* A buffer from the pool takes the unread units and the place of the old one.
GrowEnds(x) ==
  /\ loop = "grow" /\ reader = "open"
  /\ size' = Need + Unread + x /\ buf' = Moved([c \in Cells(size') |-> 0], size')
  /\ loop' = "wait" /\ w' = Unread /\ r' = 0 /\ gen' = gen + 1
  /\ UNCHANGED <<arrived, readerVars, part, chanVars, ctrlVars, envVars, userVars>>

\* The connection delivers k units.
Deliver(k) ==
  /\ loop = "wait" /\ reader = "open" /\ Unread < Need /\ ~expired
  /\ arrived + k <= MaxUnits /\ w + k <= size
  /\ buf' = [c \in Cells(size) |-> IF c \in w..(w + k - 1) THEN arrived + (c - w) + 1 ELSE buf[c]]
  /\ w' = w + k /\ arrived' = arrived + k
  /\ UNCHANGED <<size, r, gen, readerVars, loopVars, chanVars, ctrlVars, envVars, userVars>>

\* The peer is gone, or the deadline has passed.
ReadFails ==
  /\ loop = "wait" /\ (eof \/ expired)
  /\ loop' = "exited"
  /\ UNCHANGED <<bufVars, readerVars, part, chanVars, ctrlVars, envVars, userVars>>

------------------------------------------------------------------------------
(* ReadFull while Close runs or after it. *)

\* The buffer is nil or too small, or a position does not fit it any more.
RacedEnds ==
  /\ loop \in {"call", "grow", "wait"} /\ reader # "open"
  /\ loop' = "exited"
  /\ UNCHANGED <<bufVars, readerVars, part, chanVars, ctrlVars, envVars, userVars>>

\* The buffer that ReadFull finds has room, and it waits for more.
RacedWaits ==
  /\ loop = "call" /\ reader \in {"freed", "revived"}
  /\ loop' = "wait"
  /\ UNCHANGED <<bufVars, readerVars, part, chanVars, ctrlVars, envVars, userVars>>

\* ReadFull returns what its buffer holds by then.
RacedReturns ==
  /\ loop \in {"call", "wait"} /\ reader \in {"freed", "revived"} /\ arrived < MaxUnits
  /\ arrived' = arrived + 1
  /\ \/ part = "len"  /\ part' = "body" /\ loop' = "call" /\ UNCHANGED hand
     \/ part = "body" /\ part' = "len"  /\ loop' = "send" /\ hand' = <<LateWindow>>
  /\ UNCHANGED <<buf, size, r, w, gen, readerVars, chan, chanClosed, ctrlVars, envVars, userVars>>

\* The growth that began before Close: both give the old buffer to the pool,
\* unless Close has set it to nil before; then the new one stays in the reader.
GrowRaces ==
  /\ loop = "grow" /\ reader \in {"freed", "closed"}
  /\ \/ reader = "freed" /\ twice' = TRUE /\ UNCHANGED reader
     \/ reader = "closed" /\ twice' \in {twice, TRUE} /\ reader' = "revived"
  /\ loop' = "wait"
  /\ UNCHANGED <<bufVars, part, chanVars, ctrlVars, envVars, userVars>>

------------------------------------------------------------------------------
(* The send of readPackLoop. *)

\* The send waits while the channel is full.
LoopSends ==
  /\ loop = "send" /\ ~chanClosed /\ Len(chan) < ChanSize
  /\ loop' = "call" /\ chan' = chan \o hand /\ hand' = <<>>
  /\ UNCHANGED <<bufVars, readerVars, part, chanClosed, ctrlVars, envVars, userVars>>

\* Also a send that waits panics when the channel is closed.
SendPanics ==
  /\ loop = "send" /\ chanClosed
  /\ loop' = "exited" /\ hand' = <<>>
  /\ UNCHANGED <<bufVars, readerVars, part, chan, chanClosed, ctrlVars, envVars, userVars>>

------------------------------------------------------------------------------
(* receive and stop. *)

\* Whoever calls stop first runs it.
BeginStop == stop' = IF stop = "live" THEN "reader" ELSE stop

\* Mutant: the goroutine leaves without stopping the client.
WatchStopsNot ==
  /\ watch = "running" /\ triggered
  /\ watch' = "exited"
  /\ UNCHANGED <<bufVars, readerVars, loopVars, chanVars, main, stop, envVars, userVars>>

\* The stop request reaches the group's other goroutine.
WatchStops ==
  /\ watch = "running" /\ triggered
  /\ watch' = "stopping" /\ BeginStop
  /\ UNCHANGED <<bufVars, readerVars, loopVars, chanVars, main, envVars, userVars>>

\* It returns after stop, or when the group's context is done.
WatchExits ==
  /\ \/ watch = "stopping" /\ stop = "done"
     \/ watch = "running" /\ (ctxDone \/ loop = "exited")
  /\ watch' = "exited"
  /\ UNCHANGED <<bufVars, readerVars, loopVars, chanVars, main, stop, envVars, userVars>>

\* Mutant: receive does not wait for readPackLoop.
MainStopsEarly ==
  /\ main = "wait" /\ watch = "exited"
  /\ main' = "stop" /\ BeginStop
  /\ UNCHANGED <<bufVars, readerVars, loopVars, chanVars, watch, envVars, userVars>>

\* eg.Wait returns; the deferred stop.
MainStops ==
  /\ main = "wait" /\ watch = "exited" /\ loop = "exited"
  /\ main' = "stop" /\ BeginStop
  /\ UNCHANGED <<bufVars, readerVars, loopVars, chanVars, watch, envVars, userVars>>

MainEnds ==
  /\ main = "stop" /\ stop = "done"
  /\ main' = "done"
  /\ UNCHANGED <<bufVars, readerVars, loopVars, chanVars, watch, stop, envVars, userVars>>

\* Close: the reader is marked and its buffer goes back to the pool, where
\* nothing is known of what it holds.
CloseFrees ==
  /\ stop = "reader"
  /\ stop' = "clear" /\ reader' = "freed" /\ buf' = [c \in Cells(size) |-> 0]
  /\ UNCHANGED <<arrived, size, r, w, gen, twice, loopVars, chanVars, watch, main, envVars, userVars>>

\* Then the reader lets go of the buffer.
CloseClears ==
  /\ stop = "clear"
  /\ stop' = "chan" /\ reader' = "closed" /\ r' = 0 /\ w' = 0
  /\ UNCHANGED <<arrived, buf, size, gen, twice, loopVars, chanVars, watch, main, envVars, userVars>>

CloseChan ==
  /\ stop = "chan"
  /\ stop' = "done" /\ chanClosed' = TRUE
  /\ UNCHANGED <<bufVars, readerVars, loopVars, hand, chan, watch, main, envVars, userVars>>

------------------------------------------------------------------------------
(* The user of the client, the peer and the context. *)

\* The user looks at the bytes of the window it receives; spoiled says nothing
\* of windows whose buffer went back to the pool.
Receive ==
  /\ chan # <<>>
  /\ chan' = Tail(chan) /\ last' = last + 1
  /\ spoiled' = (spoiled \/ (Head(chan).gen = gen /\ reader = "open" /\ ~Intact(Head(chan))))
  /\ UNCHANGED <<bufVars, readerVars, loopVars, hand, chanClosed, ctrlVars, envVars>>

TriggerStop ==
  /\ ~triggered /\ triggered' = TRUE
  /\ UNCHANGED <<bufVars, readerVars, loopVars, chanVars, ctrlVars, eof, ctxDone, expired, userVars>>

PeerCloses ==
  /\ ~eof /\ eof' = TRUE
  /\ UNCHANGED <<bufVars, readerVars, loopVars, chanVars, ctrlVars, ctxDone, expired, triggered, userVars>>

ContextDone ==
  /\ ~ctxDone /\ ctxDone' = TRUE
  /\ UNCHANGED <<bufVars, readerVars, loopVars, chanVars, ctrlVars, eof, expired, triggered, userVars>>

\* Mutant: the connection is not tied to the context.
ConnExpiresNever ==
  /\ FALSE /\ expired' = TRUE
  /\ UNCHANGED <<bufVars, readerVars, loopVars, chanVars, ctrlVars, eof, ctxDone, triggered, userVars>>

ConnExpires ==
  /\ ctxDone /\ ~expired /\ expired' = TRUE
  /\ UNCHANGED <<bufVars, readerVars, loopVars, chanVars, ctrlVars, eof, ctxDone, triggered, userVars>>

------------------------------------------------------------------------------
\* What readPackLoop does without more bytes from the peer.
LoopRuns ==
  \/ LenReturns \/ BodyReturns \/ LenRefused \/ Compacts \/ GrowBegins
  \/ \E x \in Extras : GrowEnds(x)
  \/ ReadFails \/ LoopSends \/ SendPanics \/ GrowRaces
  \/ loop = "call" /\ (RacedEnds \/ RacedWaits \/ RacedReturns)
\* What it does with them.
LoopReads ==
  \/ \E k \in 1..size : Deliver(k)
  \/ loop # "call" /\ (RacedEnds \/ RacedReturns)
WatchStep == WatchStops \/ WatchExits
MainStep  == MainStops \/ MainEnds
StopStep  == CloseFrees \/ CloseClears \/ CloseChan

Next ==
  \/ LoopRuns \/ LoopReads \/ WatchStep \/ MainStep \/ StopStep
  \/ Receive \/ TriggerStop \/ PeerCloses \/ ContextDone \/ ConnExpires

Spec == Init /\ [][Next]_vars

\* The client's goroutines run.  Nothing is assumed of the peer, of the user
\* or of the context: a read may wait for ever.
FairSpec ==
  /\ Spec /\ WF_vars(LoopRuns) /\ WF_vars(WatchStep) /\ WF_vars(MainStep)
  /\ WF_vars(StopStep) /\ WF_vars(ConnExpires)

\* When the steps towards a stop can be taken, as the guards say.  It holds in
\* every state; the proofs take it as a hypothesis, for the provers cannot
\* compute ENABLED.
StepsEnabled ==
  /\ watch = "running" /\ triggered => ENABLED <<WatchStep>>_vars
  /\ main = "wait" /\ watch = "exited" /\ loop = "exited" => ENABLED <<MainStep>>_vars
  /\ stop \in {"reader", "clear", "chan"} => ENABLED <<StopStep>>_vars

------------------------------------------------------------------------------
(* Properties. *)

Windows == [gen : Nat, slot : Nat, first : Nat, late : BOOLEAN]

TypeOK ==
  /\ arrived \in Nat /\ gen \in Nat /\ last \in Nat /\ size \in Nat
  /\ eof \in BOOLEAN /\ ctxDone \in BOOLEAN /\ expired \in BOOLEAN /\ triggered \in BOOLEAN
  /\ twice \in BOOLEAN /\ chanClosed \in BOOLEAN /\ spoiled \in BOOLEAN
  /\ buf \in [Cells(size) -> Nat] /\ r \in 0..size /\ w \in 0..size
  /\ reader \in {"open", "freed", "closed", "revived"} /\ part \in {"len", "body"}
  /\ loop \in {"call", "grow", "wait", "send", "exited"}
  /\ hand \in Seq(Windows) /\ chan \in Seq(Windows) /\ Len(chan) <= ChanSize
  /\ watch \in {"running", "stopping", "exited"} /\ main \in {"wait", "stop", "done"}
  /\ stop \in {"live", "reader", "clear", "chan", "done"}

\* The first unit of the m-th pack's body, in the peer's stream.
FirstUnit(m) == (m - 1) * (Body + 1) + 2

\* The packs in the channel and in the loop's hand are those that follow the
\* last one received, in the peer's order, and the one in hand is whole:
\* whatever pieces the stream comes in, through compactions, refills and growth
\* of the buffer and a full channel, no byte is lost, repeated or taken for
\* another.  What ReadFull returns once Close has begun is excepted.
PacksInOrder ==
  /\ \A i \in DOMAIN chan : chan[i].late \/ chan[i].first = FirstUnit(last + i)
  /\ \A i \in DOMAIN hand : hand[i].late \/ hand[i].first = FirstUnit(last + Len(chan) + i)
  /\ loop = "send" /\ reader = "open" => Intact(hand[1])

\* The reader is closed or the channel is closed under a running readPackLoop,
\* and a buffer goes to the pool twice, only if someone has asked the client to
\* stop: the stop that ends receive comes after the loop.
ClosedUnderLoopOnlyOnRequest ==
  twice \/ ((reader # "open" \/ chanClosed) /\ loop # "exited") => triggered

\* A stop request closes the channel, whatever the peer and the user do, as
\* long as the context is not done: the user's range over it ends.
StopClosesChannel == triggered ~> (chanClosed \/ ctxDone)

\* When the peer or the context ends and the user goes on receiving, receive
\* returns, and with it all goroutines of the client.
ReceiveEnds == WF_vars(Receive) => ((eof \/ ctxDone) ~> main = "done")

\* reader.go:69: "It's safe to use the result slice before the next call to
\* any Read method": the user of Receive gets the pack that was read.
ReceivedPackIsIntact == ~spoiled
==============================================================================
