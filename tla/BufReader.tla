------------------------------ MODULE BufReader ------------------------------
(***************************************************************************)
(* Readers of connections over the pooled buffers they share.              *)
(*                                                                         *)
(* A reader's buffer holds a run of its connection's bytes between r and   *)
(* w.  What is written in a buffer is given by whose bytes they are, and   *)
(* which byte of that connection is at the buffer's first position.  A     *)
(* slice of a buffer that is handed out keeps the buffer's capacity.       *)
(* A reader is used by one goroutine, as a worker's is; it does not read   *)
(* again after an error (readPackLoop) and closes the reader once.         *)
(* Reading from a closed reader and closing it again return errors and     *)
(* change nothing.                                                         *)
(***************************************************************************)
EXTENDS SyncPool

CONSTANTS
  Readers,
  Bufs,        \* names for the buffers in memory
  NoBuf,
  InitialSize, \* conf.ReaderBufSize
  Slack,       \* 128 in the code
  Powers,      \* bound: the powers of two that a buffer may grow to
  Reads,       \* the sizes that are asked for
  MaxStream    \* bound: bytes a connection delivers

\* The sizes that a reader asks the pool for.
AllocSizes == {InitialSize} \union (Powers \ {0})

\* They fit each other, and the table's bytes hold every class.
Fitting == ClassCount <= 256 /\ SizesFit(AllocSizes)

ASSUME ReaderAssumption ==
  /\ NoBuf \notin Bufs /\ InitialSize \in Nat \ {0} /\ Slack \in Nat
  /\ Powers \subseteq Nat /\ Reads \subseteq Nat \ {0} /\ MaxStream \in Nat

VARIABLES
  cap,     \* capacity of each buffer
  classes, \* the free buffers of each class
  content, \* what is written in each buffer
  rd       \* the readers

vars == <<cap, classes, content, rd>>

Points == {"none", "idle", "swap", "reading", "failed", "panicked", "closed"}

Closed(pc) == [pc |-> pc, buf |-> NoBuf, old |-> NoBuf, len |-> 0, r |-> 0, w |-> 0,
               want |-> 0, got |-> 0, pos |-> 0]

\* The name of a buffer that is not in memory, or not written yet.
Blank == [of |-> NoBuf, at |-> 0]

Init ==
  /\ cap = [b \in Bufs |-> 0] /\ classes = [k \in Classes |-> {}]
  /\ content = [b \in Bufs |-> Blank]
  /\ rd = [q \in Readers |-> Closed("none")]

At(q, pc)  == rd[q].pc = pc
Unread(q)  == rd[q].w - rd[q].r
Becomes(q, new) == rd' = [rd EXCEPT ![q] = new]
Owned      == {rd[q].buf : q \in Readers} \union {rd[q].old : q \in Readers}
Pooled     == UNION {classes[k] : k \in Classes}
NextPowerOfTwo(n, p) == p >= n /\ \A o \in Powers : o >= n => p <= o

------------------------------------------------------------------------------
(* SyncPool.Alloc and SyncPool.Free. *)

\* A new buffer, or one of the class that the table names.
Alloc(b, size) ==
  \/ /\ b \in Bufs \ (Owned \union Pooled)
     /\ cap' = [cap EXCEPT ![b] = Capacity(size)] /\ UNCHANGED classes
  \/ /\ size \in 1..MaxSize
     /\ \E k \in Classes : /\ k = SizeLookup(size) /\ b \in classes[k]
                          /\ classes' = [classes EXCEPT ![k] = @ \ {b}]
     /\ UNCHANGED cap

\* The memory of b is collected.
Collect(b) ==
  cap' = [cap EXCEPT ![b] = 0] /\ content' = [content EXCEPT ![b] = Blank]

\* What is written in a buffer stays there in the pool.
Free(b) ==
  \/ /\ cap[b] <= MaxSize
     /\ classes' = [classes EXCEPT ![SizeLookup(cap[b])] = @ \union {b}]
     /\ UNCHANGED <<cap, content>>
  \/ /\ cap[b] > MaxSize
     /\ Collect(b) /\ UNCHANGED classes

\* sync.Pool gives up buffers at a garbage collection.
Drop(k, b) ==
  /\ b \in classes[k]
  /\ classes' = [classes EXCEPT ![k] = @ \ {b}]
  /\ Collect(b) /\ UNCHANGED rd

------------------------------------------------------------------------------
(* Reader. *)

\* A buffer that is too short for the slice that Alloc takes of it panics.
NewReader(q) ==
  /\ rd[q].pc \in {"none", "closed"}
  /\ \E b \in Bufs :
       /\ Alloc(b, InitialSize)
       /\ Becomes(q, IF cap'[b] < InitialSize THEN Closed("panicked")
                     ELSE [Closed("idle") EXCEPT !.buf = b, !.len = InitialSize])
  /\ UNCHANGED content

\* ReadFull and ReadByte from what is in the buffer.
ReadBuffered(q, n) ==
  /\ At(q, "idle") /\ Unread(q) >= n
  /\ Becomes(q, [rd[q] EXCEPT !.r = @ + n, !.got = @ + n])
  /\ UNCHANGED <<cap, classes, content>>

\* Mutant: only the missing bytes are counted.
NeededMissing(q, n) == n - Unread(q)

Needed(q, n) == n + Unread(q)

\* Mutant: w is set from the bytes that are missing.
CompactMissing(q, n) ==
  /\ At(q, "idle") /\ Unread(q) < n /\ Needed(q, n) <= rd[q].len
  /\ Becomes(q, [rd[q] EXCEPT !.pc = "reading", !.want = n, !.r = 0, !.w = Unread(q) - n])
  /\ content' = [content EXCEPT ![rd[q].buf].at = @ + rd[q].r]
  /\ UNCHANGED <<cap, classes>>

\* ReadFull moves what is unread to the buffer's beginning.
Compact(q, n) ==
  /\ At(q, "idle") /\ Unread(q) < n /\ Needed(q, n) <= rd[q].len
  /\ Becomes(q, [rd[q] EXCEPT !.pc = "reading", !.want = n, !.r = 0, !.w = Unread(q)])
  /\ content' = [content EXCEPT ![rd[q].buf].at = @ + rd[q].r]
  /\ UNCHANGED <<cap, classes>>

\* ReadFull takes a larger buffer and copies what is unread.
Grow(q, n) ==
  /\ At(q, "idle") /\ Unread(q) < n /\ Needed(q, n) > rd[q].len
  /\ \E size \in Powers, b \in Bufs :
       /\ NextPowerOfTwo(Needed(q, n) + Slack, size) /\ Alloc(b, size)
       /\ Becomes(q, IF cap'[b] < size THEN [rd[q] EXCEPT !.pc = "panicked"]
                     ELSE [rd[q] EXCEPT !.pc = "swap", !.want = n, !.r = 0, !.w = Unread(q),
                                        !.buf = b, !.old = rd[q].buf, !.len = size])
       /\ content' = [content EXCEPT ![b] = [content[rd[q].buf] EXCEPT !.at = @ + rd[q].r]]

\* Mutant: the new buffer is freed for the old one.
FreeOldNew(q) ==
  /\ At(q, "swap") /\ Free(rd[q].buf)
  /\ Becomes(q, [rd[q] EXCEPT !.pc = "reading", !.old = NoBuf])

FreeOld(q) ==
  /\ At(q, "swap") /\ Free(rd[q].old)
  /\ Becomes(q, [rd[q] EXCEPT !.pc = "reading", !.old = NoBuf])

\* ReadByte on an empty buffer starts again when it has come to the end.
ReadByte(q) ==
  /\ At(q, "idle") /\ Unread(q) = 0
  /\ LET start == IF rd[q].w = rd[q].len THEN 0 ELSE rd[q].w
     IN  Becomes(q, [rd[q] EXCEPT !.pc = "reading", !.want = 1, !.r = start, !.w = start])
  /\ UNCHANGED <<cap, classes, content>>

\* Mutant: w is moved by the bytes asked for, not by the bytes read.
DeliverAsked(q, k) ==
  LET missing == rd[q].want - Unread(q)
  IN  /\ At(q, "reading") /\ k \in missing..(rd[q].len - rd[q].w)
      /\ rd[q].pos + k <= MaxStream
      /\ content' = [content EXCEPT ![rd[q].buf] = [of |-> q, at |-> rd[q].pos - rd[q].w]]
      /\ Becomes(q, [rd[q] EXCEPT !.pc = "idle", !.w = @ + missing, !.pos = @ + k,
                                  !.r = @ + rd[q].want, !.got = @ + rd[q].want])
      /\ UNCHANGED <<cap, classes>>

\* readAtLeast gets k bytes, what is missing or more, and the read returns.
Deliver(q, k) ==
  /\ At(q, "reading") /\ k \in (rd[q].want - Unread(q))..(rd[q].len - rd[q].w)
  /\ rd[q].pos + k <= MaxStream
  /\ content' = [content EXCEPT ![rd[q].buf] = [of |-> q, at |-> rd[q].pos - rd[q].w]]
  /\ Becomes(q, [rd[q] EXCEPT !.pc = "idle", !.w = @ + k, !.pos = @ + k,
                              !.r = @ + rd[q].want, !.got = @ + rd[q].want])
  /\ UNCHANGED <<cap, classes>>

\* The connection ends, runs into its deadline, or the buffer has no room.
ReadFails(q) ==
  /\ At(q, "reading")
  /\ Becomes(q, [rd[q] EXCEPT !.pc = "failed"])
  /\ UNCHANGED <<cap, classes, content>>

\* By the goroutine that reads.  The TCP client closes its reader under a read
\* of another goroutine; that is in Client.
Close(q) ==
  /\ rd[q].pc \in {"idle", "failed", "panicked"} /\ rd[q].buf # NoBuf
  /\ Free(rd[q].buf) /\ Becomes(q, Closed("closed"))

------------------------------------------------------------------------------
ReaderStep(q) ==
  \/ NewReader(q) \/ FreeOld(q) \/ ReadByte(q) \/ ReadFails(q) \/ Close(q)
  \/ \E n \in Reads : ReadBuffered(q, n) \/ Compact(q, n) \/ Grow(q, n)
  \/ \E k \in 1..MaxStream : Deliver(q, k)

Next ==
  \/ \E q \in Readers : ReaderStep(q)
  \/ \E k \in Classes, b \in Bufs : Drop(k, b)

Spec == Init /\ [][Next]_vars

------------------------------------------------------------------------------
(* Properties. *)

TypeOK ==
  /\ cap \in [Bufs -> Nat] /\ classes \in [Classes -> SUBSET Bufs]
  /\ content \in [Bufs -> [of : Readers \union {NoBuf}, at : Int]]
  /\ rd \in [Readers -> [pc : Points, buf : Bufs \union {NoBuf}, old : Bufs \union {NoBuf},
                         len : Nat, r : Nat, w : Nat, want : Nat, got : Nat, pos : Nat]]

\* r and w stay in the buffer and in their order, through buffered reads,
\* compaction and growth, and a read that waits for bytes has room for them:
\* readAtLeast never ends with ErrShortBuffer.
WindowInBounds ==
  \A q \in Readers :
    /\ rd[q].r <= rd[q].w /\ rd[q].w <= rd[q].len
    /\ rd[q].pc \in {"swap", "reading"} => rd[q].want + rd[q].r <= rd[q].len

\* A buffer belongs to one reader, or to one class of free buffers: no two
\* connections ever read into the same memory.
BufferHasOneOwner ==
  /\ \A q, p \in Readers : q # p =>
       {rd[q].buf, rd[q].old} \intersect {rd[p].buf, rd[p].old} \subseteq {NoBuf}
  /\ Owned \intersect Pooled = {}
  /\ \A j, k \in Classes : j # k => classes[j] \intersect classes[k] = {}

\* reader.go:69: ReadFull returns the next bytes of the reader's own
\* connection, none left out, repeated or replaced by another connection's,
\* and they are safe to use until the reader is called again.
ReadsOwnStream ==
  \A q \in Readers : rd[q].pc \in {"idle", "swap", "reading"} =>
    /\ rd[q].pos - rd[q].got = Unread(q)
    /\ (At(q, "idle") /\ rd[q].got > 0) \/ Unread(q) > 0 =>
         content[rd[q].buf] = [of |-> q, at |-> rd[q].pos - rd[q].w]

\* pool.go:79: Alloc hands out a slice of the size asked for, whatever buffers
\* have been freed before; it does not panic.
AllocFits == \A q \in Readers : ~At(q, "panicked")
==============================================================================
