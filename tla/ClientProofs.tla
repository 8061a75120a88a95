---------------------------- MODULE ClientProofs -----------------------------
(***************************************************************************)
(* That the client passes every pack on, whole and in order, closes under  *)
(* a running loop only on request, and closes its channel on request, for  *)
(* every size of channel, buffer and pack.                                 *)
(***************************************************************************)
EXTENDS Client, TLAPS

------------------------------------------------------------------------------
(* The inductive invariant. *)

\* The loop holds a window exactly while it is at the send; the next pack then
\* begins with its length.
HandInv ==
  /\ loop = "send" => Len(hand) = 1 /\ part = "len"
  /\ loop # "send" => hand = <<>>

\* The units of n packs; how many packs and how many units ReadFull has returned.
Units(n) == n * (Body + 1)
Done     == last + Len(chan) + Len(hand)
Consumed == Units(Done) + (IF part = "body" THEN 1 ELSE 0)

\* While the reader is open, the unread cells hold the units that follow those
\* returned, in order, up to the last that arrived.
UnreadInv ==
  reader = "open" =>
    /\ r <= w /\ arrived = Consumed + (w - r)
    /\ \A c \in Cells(size) : r <= c /\ c < w => buf[c] = Consumed + (c - r) + 1

\* How far stop has come, and who may have begun it.
StopInv ==
  /\ reader # "open" => stop \in {"clear", "chan", "done"}
  /\ stop \in {"clear", "chan", "done"} => reader # "open"
  /\ chanClosed => stop = "done"
  /\ stop # "live" /\ loop # "exited" => triggered
  /\ twice => triggered

Inv == TypeOK /\ HandInv /\ PacksInOrder /\ UnreadInv /\ StopInv

------------------------------------------------------------------------------
(* Arithmetic and sequences. *)

\* Where the units of a pack are in the stream.
LEMMA UnitsFacts ==
  ASSUME NEW n \in Nat
  PROVE  /\ Units(n) \in Nat /\ Units(n + 1) = Units(n) + Body + 1
         /\ FirstUnit(n + 1) = Units(n) + 2
<1>1. Body \in Nat
  BY ClientAssumption
<1>2. (n + 1) - 1 = n
  OBVIOUS
<1>3. n * (Body + 1) \in Nat /\ (n + 1) * (Body + 1) = n * (Body + 1) + Body + 1
  BY <1>1
<1> QED BY <1>2, <1>3 DEF Units, FirstUnit

\* What Head and Tail of a nonempty sequence are.
LEMMA TailFacts ==
  ASSUME NEW S, NEW s \in Seq(S), s # <<>>
  PROVE  /\ Head(s) \in S /\ Head(s) = s[1] /\ Tail(s) \in Seq(S) /\ Len(s) \in Nat /\ Len(s) >= 1
         /\ Len(Tail(s)) = Len(s) - 1
         /\ \A i \in DOMAIN Tail(s) : i + 1 \in DOMAIN s /\ Tail(s)[i] = s[i + 1]
OBVIOUS

\* What a sequence with one more element is.
LEMMA ConcatFacts ==
  ASSUME NEW S, NEW s \in Seq(S), NEW t \in Seq(S)
  PROVE  /\ s \o t \in Seq(S) /\ Len(s \o t) = Len(s) + Len(t)
         /\ \A i \in DOMAIN (s \o t) :
              \/ i \in DOMAIN s /\ (s \o t)[i] = s[i]
              \/ i - Len(s) \in DOMAIN t /\ (s \o t)[i] = t[i - Len(s)]
OBVIOUS

\* The one element of a sequence of length one.
LEMMA OneFacts ==
  ASSUME NEW S, NEW v \in S
  PROVE  /\ <<v>> \in Seq(S) /\ Len(<<v>>) = 1 /\ DOMAIN <<v>> = {1} /\ <<v>>[1] = v
OBVIOUS

\* A window's fields.
LEMMA WindowFacts ==
  ASSUME NEW s \in Nat, NEW u \in Nat, gen \in Nat
  PROVE  /\ Window(s, u) \in Windows /\ Window(s, u).slot = s /\ Window(s, u).first = u
         /\ LateWindow \in Windows /\ LateWindow.late
BY DEF Window, LateWindow, Windows

\* How many packs have been returned is a number, and so are their units.
LEMMA ConsumedFacts ==
  ASSUME TypeOK
  PROVE  /\ Len(chan) \in Nat /\ Len(hand) \in Nat /\ last \in Nat /\ Done \in Nat
         /\ Units(Done) \in Nat /\ Consumed \in Nat
<1>1. Len(chan) \in Nat /\ Len(hand) \in Nat /\ last \in Nat
  <2>1. chan \in Seq(Windows) /\ hand \in Seq(Windows) /\ last \in Nat
    BY DEF TypeOK
  <2>2. \A q \in Seq(Windows) : Len(q) \in Nat
    OBVIOUS
  <2> QED BY <2>1, <2>2
<1>2. Done \in Nat
  BY <1>1 DEF Done
<1>3. Units(Done) \in Nat
  BY <1>2, UnitsFacts
<1> QED BY <1>1, <1>2, <1>3 DEF Consumed

------------------------------------------------------------------------------
(* Preservation. *)

\* The client starts with nothing read.
LEMMA InitInv == Init => Inv
<1> SUFFICES ASSUME Init PROVE Inv
  OBVIOUS
<1>0. InitialSize \in Nat /\ ChanSize \in Nat /\ Body \in Nat
  BY ClientAssumption
<1>1. TypeOK
  <2>1. <<>> \in Seq(Windows) /\ Len(<<>>) = 0
    OBVIOUS
  <2>2. size \in Nat /\ buf \in [Cells(size) -> Nat] /\ r \in 0..size /\ w \in 0..size
    BY <1>0 DEF Init
  <2>3. hand \in Seq(Windows) /\ chan \in Seq(Windows) /\ Len(chan) <= ChanSize
    BY <2>1, <1>0 DEF Init
  <2> QED BY <2>2, <2>3 DEF Init, TypeOK
<1>2. HandInv /\ PacksInOrder /\ StopInv
  BY DEF Init, HandInv, PacksInOrder, StopInv
<1>3. UnreadInv
  <2>1. Done = 0
    BY DEF Init, Done
  <2>2. Units(0) = 0
    BY <1>0 DEF Units
  <2>3. Consumed = 0 /\ arrived = 0 /\ r = 0 /\ w = 0
    BY <2>1, <2>2 DEF Init, Consumed
  <2> QED BY <1>0, <2>3 DEF Init, UnreadInv, Cells
<1> QED BY <1>1, <1>2, <1>3 DEF Inv

\* The length is returned.
LEMMA LenStep == Inv /\ LenReturns => Inv'
<1> SUFFICES ASSUME Inv, LenReturns PROVE Inv'
  OBVIOUS
<1> USE DEF LenReturns, envVars, userVars, ctrlVars, chanVars, readerVars
<1>1. TypeOK /\ r \in 0..size /\ w \in 0..size /\ size \in Nat /\ w - r >= 1
  BY DEF Inv, TypeOK, Need, Unread
<1>2. Consumed \in Nat /\ Consumed' = Consumed + 1
  <2>1. Consumed = Units(Done) /\ Units(Done) \in Nat
    BY <1>1, ConsumedFacts DEF Consumed
  <2>2. Done' = Done
    BY DEF Done
  <2>3. Consumed' = Units(Done) + 1
    BY <2>2 DEF Consumed, Units
  <2> QED BY <2>1, <2>3
<1>3. TypeOK'
  <2>1. r' \in 0..size
    BY <1>1
  <2> QED BY <2>1, <1>1 DEF TypeOK
<1>4. HandInv' /\ StopInv'
  BY DEF Inv, HandInv, StopInv
<1>5. PacksInOrder'
  BY DEF Inv, PacksInOrder
<1>6. UnreadInv'
  <2>1. r <= w /\ arrived = Consumed + (w - r)
    BY DEF Inv, UnreadInv
  <2>2. \A c \in Cells(size) : r <= c /\ c < w => buf[c] = Consumed + (c - r) + 1
    BY DEF Inv, UnreadInv
  <2>3. r' = r + 1 /\ r' <= w /\ arrived = Consumed' + (w - r')
    BY <1>1, <1>2, <2>1
  <2>4. \A c \in Cells(size) : r' <= c /\ c < w => buf[c] = Consumed' + (c - r') + 1
    BY <1>1, <1>2, <2>2, <2>3 DEF Cells
  <2> QED BY <2>3, <2>4 DEF UnreadInv
<1> QED BY <1>3, <1>4, <1>5, <1>6 DEF Inv

\* The body is returned: its cells hold the pack's units.
LEMMA BodyStep == Inv /\ BodyReturns => Inv'
<1> SUFFICES ASSUME Inv, BodyReturns PROVE Inv'
  OBVIOUS
<1> USE DEF BodyReturns, envVars, userVars, ctrlVars, readerVars
<1>1. /\ TypeOK /\ r \in 0..size /\ w \in 0..size /\ size \in Nat /\ Body \in Nat /\ Body >= 1
      /\ w - r >= Body /\ gen \in Nat
  BY ClientAssumption DEF Inv, TypeOK, Need, Unread
<1>2. /\ r <= w /\ arrived = Consumed + (w - r)
      /\ \A c \in Cells(size) : r <= c /\ c < w => buf[c] = Consumed + (c - r) + 1
  BY DEF Inv, UnreadInv
<1>3. /\ last \in Nat /\ Len(chan) \in Nat /\ Done \in Nat /\ Done = last + Len(chan)
      /\ Units(Done) \in Nat /\ Consumed = Units(Done) + 1
  <2>1. Len(hand) = 0
    BY DEF Inv, HandInv
  <2> QED BY <2>1, <1>1, ConsumedFacts DEF Consumed, Done
<1>4. r \in Cells(size) /\ r \in Nat /\ buf[r] \in Nat /\ buf[r] = Units(Done) + 2
  <2>1. r \in Cells(size) /\ r \in Nat /\ r < w
    BY <1>1 DEF Cells
  <2>2. buf[r] \in Nat /\ buf[r] = Consumed + (r - r) + 1
    BY <2>1, <1>1, <1>2 DEF TypeOK
  <2> QED BY <2>1, <2>2, <1>3
<1>5. PICK v : v = Window(r, buf[r])
  OBVIOUS
<1>6. v \in Windows /\ v.slot = r /\ v.first = Units(Done) + 2
  BY <1>1, <1>4, <1>5, WindowFacts
<1>7. hand' \in Seq(Windows) /\ Len(hand') = 1 /\ DOMAIN hand' = {1} /\ hand'[1] = v
  BY <1>5, <1>6, OneFacts
<1>8. Consumed' = Consumed + Body /\ Consumed \in Nat
  <2>1. Done' = Done + 1
    BY <1>3, <1>7 DEF Done
  <2>2. Consumed' = Units(Done + 1)
    <3>1. Units(Done + 1) \in Nat
      BY <1>3, UnitsFacts
    <3>2. Consumed' = Units(Done + 1) + 0
      BY <2>1 DEF Consumed, Units
    <3> QED BY <3>1, <3>2
  <2>3. Units(Done + 1) = Units(Done) + Body + 1
    BY <1>3, UnitsFacts
  <2> QED BY <2>2, <2>3, <1>1, <1>3
<1>9. TypeOK'
  <2>1. r' \in 0..size
    BY <1>1
  <2> QED BY <2>1, <1>1, <1>7 DEF TypeOK
<1>10. HandInv' /\ StopInv'
  BY <1>7 DEF Inv, HandInv, StopInv
<1>11. PacksInOrder'
  <2>1. \A i \in DOMAIN chan : chan[i].late \/ chan[i].first = FirstUnit(last + i)
    BY DEF Inv, PacksInOrder
  <2>2. v.first = FirstUnit(last + Len(chan) + 1)
    BY <1>3, <1>6, UnitsFacts
  <2>3. \A j \in Cells(Body) : buf[v.slot + j] = v.first + j
    <3> SUFFICES ASSUME NEW j \in Cells(Body) PROVE buf[v.slot + j] = v.first + j
      OBVIOUS
    <3>1. j \in Int /\ r + j \in Cells(size) /\ r <= r + j /\ r + j < w
      BY <1>1 DEF Cells
    <3>2. buf[r + j] = Consumed + ((r + j) - r) + 1
      BY <3>1, <1>2
    <3> QED BY <3>1, <3>2, <1>1, <1>3, <1>6
  <2>4. Intact(hand[1])'
    BY <2>3, <1>7 DEF Intact
  <2> QED BY <2>1, <2>2, <2>4, <1>7 DEF PacksInOrder, FirstUnit
<1>12. UnreadInv'
  <2>1. r' = r + Body /\ r' <= w /\ arrived = Consumed' + (w - r')
    BY <1>1, <1>2, <1>8
  <2>2. \A c \in Cells(size) : r' <= c /\ c < w => buf[c] = Consumed' + (c - r') + 1
    BY <1>1, <1>2, <1>8, <2>1 DEF Cells
  <2> QED BY <2>1, <2>2 DEF UnreadInv
<1> QED BY <1>9, <1>10, <1>11, <1>12 DEF Inv

\* The unread units move to the beginning of the buffer, or of a larger one.
LEMMA MoveStep ==
  ASSUME Inv, loop \in {"call", "grow"}, reader = "open", size' \in Nat, Unread <= size',
         NEW b \in [Cells(size') -> Nat], buf' = Moved(b, size'), w' = Unread, r' = 0,
         gen' \in Nat, loop' \in {"call", "wait"},
         UNCHANGED <<arrived, readerVars, part, chanVars, ctrlVars, envVars, userVars>>
  PROVE  Inv'
<1> USE DEF envVars, userVars, ctrlVars, chanVars, readerVars
<1>1. TypeOK /\ r \in 0..size /\ w \in 0..size /\ size \in Nat /\ r <= w
  BY DEF Inv, TypeOK, UnreadInv
<1>2. \A c \in Cells(size') : c < Unread => r + c \in Cells(size) /\ r <= r + c /\ r + c < w
  BY <1>1 DEF Cells, Unread
<1>3. buf' \in [Cells(size') -> Nat]
  <2>1. \A c \in Cells(size') : c < Unread => buf[r + c] \in Nat
    BY <1>1, <1>2 DEF TypeOK
  <2> QED BY <2>1 DEF Moved
<1>4. TypeOK'
  <2>1. r' \in 0..size' /\ w' \in 0..size'
    BY <1>1 DEF Unread
  <2> QED BY <2>1, <1>1, <1>3 DEF TypeOK
<1>5. HandInv' /\ StopInv'
  BY DEF Inv, HandInv, StopInv
<1>6. PacksInOrder'
  BY DEF Inv, PacksInOrder
<1>7. Consumed' = Consumed /\ Consumed \in Nat
  BY <1>1, ConsumedFacts DEF Consumed, Units, Done
<1>8. UnreadInv'
  <2>1. arrived = Consumed + (w - r)
    BY DEF Inv, UnreadInv
  <2>2. r' <= w' /\ arrived' = Consumed' + (w' - r')
    BY <2>1, <1>1, <1>7 DEF Unread
  <2>3. ASSUME NEW c \in Cells(size'), r' <= c, c < w' PROVE buf'[c] = Consumed' + (c - r') + 1
    <3>1. c \in Int /\ c < Unread
      BY <2>3, <1>1 DEF Cells
    <3>2. buf'[c] = buf[r + c]
      BY <3>1 DEF Moved
    <3>3. buf[r + c] = Consumed + ((r + c) - r) + 1
      BY <3>1, <1>2 DEF Inv, UnreadInv
    <3> QED BY <3>1, <3>2, <3>3, <1>1, <1>7
  <2> QED BY <2>2, <2>3 DEF UnreadInv
<1> QED BY <1>4, <1>5, <1>6, <1>8 DEF Inv

\* Compaction and growth.
LEMMA RoomStep == Inv /\ (Compacts \/ \E x \in Extras : GrowEnds(x)) => Inv'
<1> SUFFICES ASSUME Inv, Compacts \/ \E x \in Extras : GrowEnds(x) PROVE Inv'
  OBVIOUS
<1>1. /\ size \in Nat /\ buf \in [Cells(size) -> Nat] /\ gen \in Nat /\ Need \in Nat
      /\ r \in 0..size /\ w \in 0..size /\ (reader = "open" => r <= w)
  BY ClientAssumption DEF Inv, TypeOK, UnreadInv, Need
<1>2. CASE Compacts
  <2>1. size' = size /\ size' \in Nat /\ Unread <= size' /\ gen' \in Nat
    BY <1>1, <1>2 DEF Compacts, Unread
  <2>2. buf' = Moved(buf, size') /\ buf \in [Cells(size') -> Nat]
    BY <1>1, <1>2, <2>1 DEF Compacts
  <2>3. loop \in {"call", "grow"} /\ reader = "open" /\ w' = Unread /\ r' = 0 /\ loop' \in {"call", "wait"}
    BY <1>2 DEF Compacts
  <2>4. UNCHANGED <<arrived, readerVars, part, chanVars, ctrlVars, envVars, userVars>>
    BY <1>2 DEF Compacts
  <2> QED BY <2>1, <2>2, <2>3, <2>4, MoveStep
<1>3. CASE \E x \in Extras : GrowEnds(x)
  <2> PICK x \in Extras : GrowEnds(x)
    BY <1>3
  <2>0. x \in Nat
    BY ClientAssumption
  <2>1. size' \in Nat /\ Unread <= size' /\ gen' \in Nat
    BY <1>1, <2>0 DEF GrowEnds, Unread
  <2>2. PICK b : b = [c \in Cells(size') |-> 0]
    OBVIOUS
  <2>3. buf' = Moved(b, size') /\ b \in [Cells(size') -> Nat]
    BY <2>2 DEF GrowEnds
  <2>4. loop \in {"call", "grow"} /\ reader = "open" /\ w' = Unread /\ r' = 0 /\ loop' \in {"call", "wait"}
    BY DEF GrowEnds
  <2>5. UNCHANGED <<arrived, readerVars, part, chanVars, ctrlVars, envVars, userVars>>
    BY DEF GrowEnds
  <2> QED BY <2>1, <2>3, <2>4, <2>5, MoveStep
<1> QED BY <1>2, <1>3

\* The units that arrive follow the unread ones.
LEMMA DeliverStep == ASSUME NEW k \in 1..size PROVE Inv /\ Deliver(k) => Inv'
<1> SUFFICES ASSUME Inv, Deliver(k) PROVE Inv'
  OBVIOUS
<1> USE DEF Deliver, envVars, userVars, ctrlVars, chanVars, readerVars, loopVars
<1>1. /\ TypeOK /\ r \in 0..size /\ w \in 0..size /\ size \in Nat /\ r <= w /\ arrived \in Nat
      /\ arrived = Consumed + (w - r) /\ k \in Nat
  BY DEF Inv, TypeOK, UnreadInv
<1>2. Consumed' = Consumed /\ Consumed \in Nat
  BY <1>1, ConsumedFacts DEF Consumed, Units, Done
<1>3. buf' \in [Cells(size) -> Nat]
  <2>1. \A c \in Cells(size) : buf[c] \in Nat /\ (c \in w..(w + k - 1) => arrived + (c - w) + 1 \in Nat)
    BY <1>1 DEF TypeOK, Cells
  <2> QED BY <2>1
<1>4. TypeOK'
  <2>1. w' \in 0..size /\ arrived' \in Nat
    BY <1>1
  <2> QED BY <2>1, <1>1, <1>3 DEF TypeOK
<1>5. HandInv' /\ StopInv' /\ PacksInOrder'
  BY DEF Inv, HandInv, StopInv, PacksInOrder
<1>6. UnreadInv'
  <2>1. r' <= w' /\ arrived' = Consumed' + (w' - r')
    BY <1>1, <1>2
  <2>2. ASSUME NEW c \in Cells(size), r <= c, c < w + k PROVE buf'[c] = Consumed + (c - r) + 1
    <3>0. c \in Int
      BY <1>1 DEF Cells
    <3>1. CASE c < w
      <4>1. buf'[c] = buf[c]
        BY <3>0, <3>1, <1>1
      <4> QED BY <4>1, <3>1, <2>2 DEF Inv, UnreadInv
    <3>2. CASE c >= w
      <4>1. c \in w..(w + k - 1)
        BY <3>0, <3>2, <2>2, <1>1
      <4>2. buf'[c] = arrived + (c - w) + 1
        BY <4>1
      <4> QED BY <4>2, <3>0, <1>1, <1>2
    <3> QED BY <3>0, <3>1, <3>2, <1>1
  <2> QED BY <2>1, <2>2, <1>2 DEF UnreadInv
<1> QED BY <1>4, <1>5, <1>6 DEF Inv

\* The window in hand becomes the channel's last.
LEMMA SendStep == Inv /\ LoopSends => Inv'
<1> SUFFICES ASSUME Inv, LoopSends PROVE Inv'
  OBVIOUS
<1> USE DEF LoopSends, envVars, userVars, ctrlVars, readerVars, bufVars
<1>1. TypeOK /\ Len(hand) = 1 /\ hand \in Seq(Windows) /\ chan \in Seq(Windows) /\ Len(chan) \in Nat
  BY DEF Inv, TypeOK, HandInv
<1>2. /\ chan' \in Seq(Windows) /\ Len(chan') = Len(chan) + 1
      /\ \A i \in DOMAIN chan' :
           \/ i \in DOMAIN chan /\ chan'[i] = chan[i]
           \/ i - Len(chan) \in DOMAIN hand /\ chan'[i] = hand[i - Len(chan)]
  <2>1. chan' = chan \o hand
    OBVIOUS
  <2> HIDE DEF LoopSends
  <2>2. /\ chan \o hand \in Seq(Windows) /\ Len(chan \o hand) = Len(chan) + Len(hand)
        /\ \A i \in DOMAIN (chan \o hand) :
             \/ i \in DOMAIN chan /\ (chan \o hand)[i] = chan[i]
             \/ i - Len(chan) \in DOMAIN hand /\ (chan \o hand)[i] = hand[i - Len(chan)]
    BY <1>1, ConcatFacts
  <2> QED BY <2>1, <2>2, <1>1, Zenon
<1>3. hand' = <<>> /\ Len(hand') = 0 /\ hand' \in Seq(Windows) /\ DOMAIN hand' = {}
  OBVIOUS
<1>4. TypeOK'
  BY <1>1, <1>2, <1>3, ClientAssumption DEF TypeOK
<1>5. HandInv' /\ StopInv'
  BY <1>3 DEF Inv, HandInv, StopInv
<1>6. PacksInOrder'
  <2>1. ASSUME NEW i \in DOMAIN chan' PROVE chan'[i].late \/ chan'[i].first = FirstUnit(last + i)
    <3>0. i \in Int /\ last \in Nat
      BY <1>1, <1>2 DEF TypeOK
    <3>1. CASE i \in DOMAIN chan /\ chan'[i] = chan[i]
      BY <3>1 DEF Inv, PacksInOrder
    <3>2. CASE i - Len(chan) \in DOMAIN hand /\ chan'[i] = hand[i - Len(chan)]
      <4>1. \/ hand[i - Len(chan)].late
            \/ hand[i - Len(chan)].first = FirstUnit(last + Len(chan) + (i - Len(chan)))
        BY <3>2 DEF Inv, PacksInOrder
      <4>2. last + Len(chan) + (i - Len(chan)) = last + i
        BY <3>0, <1>1
      <4> QED BY <4>1, <4>2, <3>2
    <3> QED BY <3>1, <3>2, <1>2
  <2> QED BY <2>1, <1>3 DEF PacksInOrder, FirstUnit
<1>7. UnreadInv'
  <2>1. Done' = Done
    BY <1>1, <1>2, <1>3, ConsumedFacts DEF Done
  <2>2. Consumed' = Consumed
    BY <2>1 DEF Consumed, Units
  <2> QED BY <2>2 DEF Inv, UnreadInv
<1> QED BY <1>4, <1>5, <1>6, <1>7 DEF Inv

\* The user takes the channel's first window.
LEMMA ReceiveStep == Inv /\ Receive => Inv'
<1> SUFFICES ASSUME Inv, Receive PROVE Inv'
  OBVIOUS
<1> USE DEF Receive, envVars, ctrlVars, readerVars, bufVars, loopVars
<1>1. TypeOK /\ chan \in Seq(Windows) /\ chan # <<>> /\ last \in Nat /\ last' = last + 1
  BY DEF Inv, TypeOK
<1>2. /\ chan' \in Seq(Windows) /\ Len(chan) \in Nat /\ Len(chan') = Len(chan) - 1
      /\ \A i \in DOMAIN chan' : i + 1 \in DOMAIN chan /\ chan'[i] = chan[i + 1]
  BY <1>1, TailFacts
<1>3. last' + Len(chan') = last + Len(chan)
  BY <1>1, <1>2
<1>4. TypeOK'
  <2>1. Len(chan') <= ChanSize
    BY <1>1, <1>2, ClientAssumption DEF TypeOK
  <2>2. last' \in Nat /\ spoiled' \in BOOLEAN
    BY <1>1 DEF TypeOK
  <2> HIDE DEF Windows
  <2> QED BY <2>1, <2>2, <1>1, <1>2 DEF TypeOK
<1>5. HandInv' /\ StopInv'
  BY DEF Inv, HandInv, StopInv
<1>6. PacksInOrder'
  <2>1. ASSUME NEW i \in DOMAIN chan' PROVE chan'[i].late \/ chan'[i].first = FirstUnit(last' + i)
    <3>1. i + 1 \in DOMAIN chan /\ chan'[i] = chan[i + 1] /\ i \in Int
      BY <1>2
    <3>2. chan[i + 1].late \/ chan[i + 1].first = FirstUnit(last + (i + 1))
      BY <3>1 DEF Inv, PacksInOrder
    <3>3. last + (i + 1) = last' + i
      BY <3>1, <1>1
    <3> QED BY <3>1, <3>2, <3>3
  <2>2. ASSUME NEW i \in DOMAIN hand
        PROVE  hand[i].late \/ hand[i].first = FirstUnit(last' + Len(chan') + i)
    BY <1>3 DEF Inv, PacksInOrder
  <2>3. loop' = "send" /\ reader' = "open" => Intact(hand[1])'
    BY DEF Inv, PacksInOrder, Intact
  <2> QED BY <2>1, <2>2, <2>3 DEF PacksInOrder, FirstUnit
<1>7. UnreadInv'
  <2>1. Done' = Done
    BY <1>3 DEF Done
  <2>2. Consumed' = Consumed
    BY <2>1 DEF Consumed, Units
  <2> QED BY <2>2 DEF Inv, UnreadInv
<1> QED BY <1>4, <1>5, <1>6, <1>7 DEF Inv

\* What ReadFull returns while Close runs or after it says nothing of packs.
LEMMA RacedStep == Inv /\ RacedReturns => Inv'
<1> SUFFICES ASSUME Inv, RacedReturns PROVE Inv'
  OBVIOUS
<1> USE DEF RacedReturns, envVars, userVars, ctrlVars, readerVars
<1>1. TypeOK /\ reader # "open" /\ reader' # "open" /\ arrived' \in Nat /\ gen \in Nat
  BY DEF Inv, TypeOK
<1>2. \/ part' = "body" /\ loop' = "call" /\ hand' = hand
      \/ part' = "len" /\ loop' = "send" /\ hand' = <<LateWindow>>
  OBVIOUS
<1>3. LateWindow \in Windows /\ LateWindow.late
  BY <1>1, WindowFacts
<1>4. hand = <<>>
  BY DEF Inv, HandInv
<1>5. /\ hand' \in Seq(Windows)
      /\ loop' = "send" => Len(hand') = 1
      /\ loop' # "send" => hand' = <<>>
      /\ \A i \in DOMAIN hand' : hand'[i].late
  <2>1. CASE hand' = hand /\ loop' = "call"
    BY <2>1, <1>1, <1>4 DEF TypeOK
  <2>2. CASE hand' = <<LateWindow>> /\ loop' = "send"
    BY <2>2, <1>3, OneFacts
  <2> QED BY <2>1, <2>2, <1>2
<1>6. TypeOK'
  BY <1>1, <1>2, <1>5 DEF TypeOK
<1>7. HandInv' /\ StopInv' /\ UnreadInv'
  BY <1>1, <1>2, <1>5 DEF Inv, HandInv, StopInv, UnreadInv
<1>8. PacksInOrder'
  BY <1>1, <1>5 DEF Inv, PacksInOrder
<1> QED BY <1>6, <1>7, <1>8 DEF Inv

\* The steps of the read loop that only move its control point, or end it.
LEMMA LoopMovesStep ==
  Inv /\ (LenRefused \/ GrowBegins \/ ReadFails \/ RacedEnds \/ RacedWaits \/ GrowRaces) => Inv'
<1> SUFFICES ASSUME Inv, LenRefused \/ GrowBegins \/ ReadFails \/ RacedEnds \/ RacedWaits \/ GrowRaces
             PROVE  Inv'
  OBVIOUS
<1> USE DEF envVars, userVars, ctrlVars, readerVars, chanVars, bufVars
<1>1. /\ UNCHANGED <<bufVars, part, chanVars, ctrlVars, envVars, userVars>>
      /\ loop \in {"call", "grow", "wait"} /\ loop' \in {"grow", "wait", "exited"}
      /\ \/ reader' = reader /\ twice' = twice
         \/ /\ reader \in {"freed", "closed"} /\ reader' \in {"freed", "revived"}
            /\ twice' \in {twice, TRUE}
  BY DEF LenRefused, GrowBegins, ReadFails, RacedEnds, RacedWaits, GrowRaces
<1>2. reader' = "open" => reader = "open"
  BY <1>1
<1>3. TypeOK'
  <2>1. twice \in BOOLEAN
    BY DEF Inv, TypeOK
  <2>2. twice' \in BOOLEAN
    BY <1>1, <2>1, Zenon
  <2>3. reader' \in {"open", "freed", "closed", "revived"}
    BY <1>1 DEF Inv, TypeOK
  <2> QED BY <1>1, <2>2, <2>3 DEF Inv, TypeOK
<1>4. HandInv' /\ PacksInOrder'
  BY <1>1 DEF Inv, HandInv, PacksInOrder
<1>5. UnreadInv'
  <2>1. Consumed' = Consumed
    BY <1>1 DEF Consumed, Units, Done
  <2> QED BY <2>1, <1>1, <1>2 DEF Inv, UnreadInv
<1>6. StopInv'
  <2>1. stop # "live" => triggered
    BY <1>1 DEF Inv, StopInv
  <2>2. reader # "open" => triggered
    BY <2>1 DEF Inv, StopInv
  <2>3. twice' => triggered
    <3>1. CASE twice' = twice
      BY <3>1 DEF Inv, StopInv
    <3>2. CASE reader \in {"freed", "closed"}
      BY <3>2, <2>2
    <3> QED BY <3>1, <3>2, <1>1
  <2>4. reader' # "open" <=> reader # "open"
    BY <1>1
  <2> QED BY <1>1, <2>1, <2>3, <2>4 DEF Inv, StopInv
<1> QED BY <1>3, <1>4, <1>5, <1>6 DEF Inv

\* The window in hand is dropped when the channel is closed.
LEMMA SendPanicsStep == Inv /\ SendPanics => Inv'
<1> SUFFICES ASSUME Inv, SendPanics PROVE Inv'
  OBVIOUS
<1> USE DEF SendPanics, envVars, userVars, ctrlVars, readerVars, bufVars
<1>1. hand' = <<>> /\ hand' \in Seq(Windows) /\ DOMAIN hand' = {}
  OBVIOUS
<1>2. TypeOK' /\ HandInv' /\ StopInv'
  BY <1>1 DEF Inv, TypeOK, HandInv, StopInv
<1>3. PacksInOrder' /\ UnreadInv'
  BY <1>1 DEF Inv, PacksInOrder, UnreadInv, StopInv
<1> QED BY <1>2, <1>3 DEF Inv

\* The two goroutines that may stop the client, and the stop.
LEMMA StopsStep ==
  Inv /\ (WatchStep \/ MainStep \/ StopStep) => Inv'
<1> SUFFICES ASSUME Inv, WatchStep \/ MainStep \/ StopStep PROVE Inv'
  OBVIOUS
<1> USE DEF envVars, userVars, readerVars, chanVars, bufVars, loopVars
<1>1. CASE WatchStep \/ MainStep
  <2>1. /\ UNCHANGED <<bufVars, readerVars, loopVars, chanVars, envVars, userVars>>
        /\ watch' \in {watch, "stopping", "exited"} /\ main' \in {main, "stop", "done"}
        /\ \/ stop' = stop
           \/ stop = "live" /\ stop' = "reader" /\ (triggered \/ loop = "exited")
    BY <1>1 DEF WatchStep, WatchStops, WatchExits, MainStep, MainStops, MainEnds, BeginStop
  <2>2. TypeOK' /\ HandInv'
    BY <2>1 DEF Inv, TypeOK, HandInv
  <2>3. PacksInOrder'
    BY <2>1 DEF Inv, PacksInOrder, Intact
  <2>4. UnreadInv'
    <3>1. Consumed' = Consumed
      BY <2>1 DEF Consumed, Units, Done
    <3> QED BY <2>1, <3>1 DEF Inv, UnreadInv
  <2>5. StopInv'
    BY <2>1 DEF Inv, StopInv, TypeOK
  <2> QED BY <2>2, <2>3, <2>4, <2>5 DEF Inv
<1>2. CASE CloseFrees
  <2>1. TypeOK'
    <3>1. buf' \in [Cells(size) -> Nat]
      BY <1>2 DEF CloseFrees
    <3> QED BY <1>2, <3>1 DEF Inv, CloseFrees, TypeOK
  <2>2. HandInv' /\ PacksInOrder' /\ UnreadInv' /\ StopInv'
    BY <1>2 DEF Inv, CloseFrees, HandInv, PacksInOrder, UnreadInv, StopInv
  <2> QED BY <2>1, <2>2 DEF Inv
<1>3. CASE CloseClears
  <2>1. TypeOK'
    <3>1. size \in Nat /\ 0 \in 0..size
      BY DEF Inv, TypeOK
    <3> QED BY <1>3, <3>1 DEF Inv, CloseClears, TypeOK
  <2>2. HandInv' /\ PacksInOrder' /\ UnreadInv' /\ StopInv'
    BY <1>3 DEF Inv, CloseClears, HandInv, PacksInOrder, UnreadInv, StopInv
  <2> QED BY <2>1, <2>2 DEF Inv
<1>4. CASE CloseChan
  <2>1. TypeOK' /\ HandInv'
    BY <1>4 DEF Inv, CloseChan, TypeOK, HandInv
  <2>2. PacksInOrder' /\ UnreadInv' /\ StopInv'
    BY <1>4 DEF Inv, CloseChan, PacksInOrder, UnreadInv, StopInv
  <2> QED BY <2>1, <2>2 DEF Inv
<1> QED BY <1>1, <1>2, <1>3, <1>4 DEF StopStep

\* The peer, the context, the stop request, and stuttering.
LEMMA OutsideStep ==
  Inv /\ (TriggerStop \/ PeerCloses \/ ContextDone \/ ConnExpires \/ UNCHANGED vars) => Inv'
<1> SUFFICES ASSUME Inv, TriggerStop \/ PeerCloses \/ ContextDone \/ ConnExpires \/ UNCHANGED vars
             PROVE  Inv'
  OBVIOUS
<1> USE DEF envVars, userVars, readerVars, chanVars, ctrlVars, bufVars, loopVars
<1>1. /\ UNCHANGED <<bufVars, readerVars, loopVars, chanVars, ctrlVars, userVars>>
      /\ (triggered => triggered')
  BY DEF TriggerStop, PeerCloses, ContextDone, ConnExpires, vars
<1>2. TypeOK'
  <2>1. eof' \in BOOLEAN /\ ctxDone' \in BOOLEAN /\ expired' \in BOOLEAN /\ triggered' \in BOOLEAN
    BY DEF Inv, TypeOK, TriggerStop, PeerCloses, ContextDone, ConnExpires, vars
  <2> QED BY <2>1, <1>1 DEF Inv, TypeOK
<1>3. HandInv' /\ StopInv'
  BY <1>1 DEF Inv, HandInv, StopInv
<1>4. PacksInOrder'
  BY <1>1 DEF Inv, PacksInOrder, Intact
<1>5. UnreadInv'
  <2>1. Consumed' = Consumed
    BY <1>1 DEF Consumed, Units, Done
  <2> QED BY <1>1, <2>1 DEF Inv, UnreadInv
<1> QED BY <1>2, <1>3, <1>4, <1>5 DEF Inv

------------------------------------------------------------------------------
(* The theorems. *)

\* The inductive invariant holds in every state of the client.
THEOREM Invariance == Spec => []Inv
<1>1. Inv /\ [Next]_vars => Inv'
  <2> SUFFICES ASSUME Inv, [Next]_vars PROVE Inv'
    OBVIOUS
  <2>1. CASE LoopRuns
    BY <2>1, LenStep, BodyStep, RoomStep, SendStep, SendPanicsStep, LoopMovesStep, RacedStep
    DEF LoopRuns
  <2>2. CASE LoopReads
    BY <2>2, DeliverStep, LoopMovesStep, RacedStep DEF LoopReads
  <2>3. CASE WatchStep \/ MainStep \/ StopStep
    BY <2>3, StopsStep
  <2>4. CASE Receive
    BY <2>4, ReceiveStep
  <2> QED BY <2>1, <2>2, <2>3, <2>4, OutsideStep DEF Next
<1> QED BY <1>1, InitInv, PTL DEF Spec

\* All variables of the reader, the channel and the goroutines keep their types.
THEOREM TypeCorrect == Spec => []TypeOK
<1>1. Inv => TypeOK
  BY DEF Inv
<1> QED BY <1>1, Invariance, PTL

\* read finds every pack whole and readPackLoop passes the packs on in order,
\* for packs, pieces and buffers of every size.
THEOREM PacksAlwaysInOrder == Spec => []PacksInOrder
<1>1. Inv => PacksInOrder
  BY DEF Inv
<1> QED BY <1>1, Invariance, PTL

\* stop takes the reader and the channel from a running loop, and a growth
\* frees a buffer again, only on request.
THEOREM LoopIsClosedOnRequest == Spec => []ClosedUnderLoopOnlyOnRequest
<1>1. Inv => ClosedUnderLoopOnlyOnRequest
  BY DEF Inv, StopInv, ClosedUnderLoopOnlyOnRequest
<1> QED BY <1>1, Invariance, PTL

------------------------------------------------------------------------------
(* What must happen. *)

\* How far stop has come, and who is to begin it.
CloseInv ==
  /\ watch \in {"running", "stopping", "exited"} /\ main \in {"wait", "stop", "done"}
  /\ stop \in {"live", "reader", "clear", "chan", "done"}
  /\ stop = "done" => chanClosed
  /\ watch = "stopping" \/ main # "wait" => stop # "live"
  /\ watch = "exited" /\ stop = "live" => loop = "exited" \/ ctxDone

\* Every step keeps CloseInv, the stop request, and the stages of stop.
LEMMA CloseStep ==
  CloseInv /\ [Next]_vars =>
    /\ CloseInv' /\ (triggered => triggered') /\ (ctxDone => ctxDone')
    /\ watch # "running" => watch' # "running"
    /\ stop = "reader" => stop' \in {"reader", "clear"}
    /\ stop = "clear" => stop' \in {"clear", "chan"}
    /\ stop = "chan" => stop' \in {"chan", "done"}
<1> SUFFICES ASSUME CloseInv, [Next]_vars
             PROVE  /\ CloseInv' /\ (triggered => triggered') /\ (ctxDone => ctxDone')
                    /\ watch # "running" => watch' # "running"
                    /\ stop = "reader" => stop' \in {"reader", "clear"}
                    /\ stop = "clear" => stop' \in {"clear", "chan"}
                    /\ stop = "chan" => stop' \in {"chan", "done"}
  OBVIOUS
<1> USE DEF CloseInv, ctrlVars, chanVars, envVars, readerVars, loopVars
<1>1. CASE LoopRuns \/ LoopReads
  <2>1. /\ UNCHANGED <<chanClosed, ctrlVars, envVars>>
        /\ loop = "exited" => loop' = "exited"
    BY <1>1 DEF LoopRuns, LoopReads, LenReturns, BodyReturns, LenRefused, Compacts, GrowBegins,
       GrowEnds, Deliver, ReadFails, RacedEnds, RacedWaits, RacedReturns, GrowRaces, LoopSends,
       SendPanics
  <2> QED BY <2>1
<1>2. CASE WatchStep
  BY <1>2 DEF WatchStep, WatchStops, WatchExits, BeginStop
<1>3. CASE MainStep
  BY <1>3 DEF MainStep, MainStops, MainEnds, BeginStop
<1>4. CASE StopStep
  BY <1>4 DEF StopStep, CloseFrees, CloseClears, CloseChan
<1>5. CASE Receive \/ TriggerStop \/ PeerCloses \/ ContextDone \/ ConnExpires
  BY <1>5 DEF Receive, TriggerStop, PeerCloses, ContextDone, ConnExpires
<1>6. CASE UNCHANGED vars
  BY <1>6 DEF vars
<1> QED
  BY <1>1, <1>2, <1>3, <1>4, <1>5, <1>6 DEF Next

\* A stop request closes the channel: the group's other goroutine runs stop,
\* or leaves it to the end of receive because readPackLoop has returned.
THEOREM StopReachesChannel == []StepsEnabled /\ FairSpec => StopClosesChannel
<1> DEFINE Q == chanClosed \/ ctxDone
           W == triggered /\ watch = "running" /\ ~ctxDone
           M == watch = "exited" /\ loop = "exited" /\ main = "wait" /\ stop = "live"
           R == stop = "reader"
           F == stop = "clear"
           C == stop = "chan"
<1>1. Init => CloseInv
  BY DEF Init, CloseInv
<1>2. CloseInv /\ [Next]_vars => CloseInv'
  BY CloseStep
<1>3. CloseInv /\ triggered => W \/ M \/ R \/ F \/ C \/ Q
  BY DEF CloseInv
<1>4. CloseInv /\ triggered /\ [Next]_vars => triggered'
  BY CloseStep
<1>5. CloseInv /\ W /\ <<WatchStep>>_vars => ~W'
  BY DEF WatchStep, WatchStops, WatchExits
<1>6. CloseInv /\ ~W /\ triggered /\ [Next]_vars => ~W'
  BY CloseStep
<1>7. CloseInv /\ M /\ <<MainStep>>_vars => ~M'
  BY DEF MainStep, MainStops, MainEnds, BeginStop
<1>8. CloseInv /\ R /\ [Next]_vars => R' \/ F'
  BY CloseStep
<1>9. CloseInv /\ F /\ [Next]_vars => F' \/ C'
  BY CloseStep
<1>10. CloseInv /\ F /\ <<StopStep>>_vars => ~F'
  BY DEF StopStep, CloseFrees, CloseClears, CloseChan
<1>11. CloseInv /\ C /\ [Next]_vars => C' \/ Q'
  BY CloseStep DEF CloseInv
<1>12. CloseInv /\ R /\ <<StopStep>>_vars => ~R'
  BY DEF StopStep, CloseFrees, CloseClears, CloseChan
<1>13. CloseInv /\ C /\ <<StopStep>>_vars => ~C'
  BY DEF StopStep, CloseFrees, CloseClears, CloseChan
<1>14. StepsEnabled /\ W => ENABLED <<WatchStep>>_vars
  BY DEF StepsEnabled
<1>15. StepsEnabled /\ M => ENABLED <<MainStep>>_vars
  BY DEF StepsEnabled
<1>16. StepsEnabled /\ (R \/ F \/ C) => ENABLED <<StopStep>>_vars
  BY DEF StepsEnabled
<1> HIDE DEF W, M, R, F, C
<1> QED
  BY <1>1, <1>2, <1>3, <1>4, <1>5, <1>6, <1>7, <1>8, <1>9, <1>10, <1>11, <1>12, <1>13, <1>14,
     <1>15, <1>16, PTL DEF FairSpec, Spec, StopClosesChannel
==============================================================================
