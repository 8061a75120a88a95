---------------------------- MODULE SessionProofs ----------------------------
(***************************************************************************)
(* Proofs about Session, for every width of the packet's index and for any *)
(* number of messages and repetitions.                                     *)
(*                                                                         *)
(* KeysAgree needs to know where the two ends are in the handshake (Phase) *)
(* and which key every pack on its way is under (KeyInv).  PassedOnce and  *)
(* RefusedOnlyAtWrap rest on Count, which ties the indexes on the wire and *)
(* in the two counters to the messages, and on Chain: the packets on their *)
(* way continue what has been passed on, message by message.               *)
(***************************************************************************)
EXTENDS Session, TLAPS

SKey == IF encrypted THEN Key ELSE NoKey

Phase ==
  /\ client.at = "new" => worker \in {"handshake", "failed"} /\ down = <<>>
  /\ worker \in {"handshake", "reply"} =>
       client.at # "open" /\ down = <<>> /\ session.key = NoKey
  /\ worker = "reply" => client.at = "await"
  /\ worker \in {"handshake", "reply", "set"} => passed = <<>>
  /\ worker \in {"set", "open"} /\ client.at = "await" => down # <<>>
  /\ client.at # "open" => client.key = NoKey /\ up = <<>> /\ msgs = 0

KeyInv ==
  /\ reply.key = made.key
  /\ worker \in {"open", "refused"} => session.key = made.key
  /\ (client.at = "open" \/ down # <<>> \/ worker \in {"reply", "set", "open", "refused"})
       => made.key = SKey /\ reply.start = 1
  /\ client.at = "await" /\ down # <<>> => down[1] = NoKey
  /\ client.at = "await" => \A i \in 2..Len(down) : down[i] = made.key
  /\ client.at = "open" => /\ client.key = made.key
                           /\ \A i \in 1..Len(down) : down[i] = made.key
                           /\ \A i \in 1..Len(up) : up[i].key = made.key

Count ==
  /\ worker \in {"reply", "set"} => made.cs = 1
  /\ worker \in {"open", "refused"} /\ IsCrypto(session) =>
       session.cs = Len(passed) + 1 /\ session.cs <= Half
  /\ client.at = "open" => /\ msgs + 1 < Half => client.index = msgs + 1
                           /\ msgs + 1 = Half => client.index = -Half
  /\ \A i \in 1..Len(up) : up[i].msg < Half => up[i].index = up[i].msg

\* The message that may follow message m.
Nexts(m) == IF repeats = 0 THEN {m + 1} ELSE {m, m + 1}

Chain ==
  encrypted \/ repeats = 0 =>
    /\ \A i \in 1..Len(passed) : passed[i] = i
    /\ worker \in {"handshake", "reply", "set", "open"} =>
         /\ up = <<>> => msgs = Len(passed)
         /\ up # <<>> => up[1].msg \in Nexts(Len(passed)) /\ up[Len(up)].msg = msgs
         /\ \A i \in 1..(Len(up) - 1) : up[i + 1].msg \in Nexts(up[i].msg)

Inv == TypeOK /\ Phase /\ KeyInv /\ Count /\ Chain /\ RefusedOnlyAtWrap

\* A small number is converted to an int32 without loss.
LEMMA SmallToInt32 ==
  ASSUME NEW n \in 0..(Half - 1)
  PROVE  ToInt32(n) = n
<1>1. n + Half \in 0..(2 * Half - 1) /\ 2 * Half \in Nat /\ 2 * Half > 0
  BY HalfAssumption
<1>2. \A a, b \in Nat : b > 0 /\ a < b => a % b = a
  OBVIOUS
<1>. QED
  BY <1>1, <1>2, HalfAssumption DEF ToInt32

\* What Tail leaves of a sequence.
LEMMA TailFacts ==
  ASSUME NEW S, NEW s \in Seq(S), s # <<>>
  PROVE  /\ Tail(s) \in Seq(S) /\ Len(s) \in Nat /\ Len(s) >= 1 /\ Len(Tail(s)) = Len(s) - 1
         /\ \A i \in 1..(Len(s) - 1) : Tail(s)[i] = s[i + 1]
         /\ Head(s) = s[1] /\ s[1] \in S /\ (Tail(s) = <<>> <=> Len(s) = 1)
<1>1. Len(s) \in Nat /\ Len(s) >= 1 /\ s[1] \in S
  OBVIOUS
<1>2. Tail(s) \in Seq(S) /\ Len(Tail(s)) = Len(s) - 1
  OBVIOUS
<1>3. \A i \in 1..(Len(s) - 1) : Tail(s)[i] = s[i + 1]
  OBVIOUS
<1>4. Head(s) = s[1]
  OBVIOUS
<1>5. Tail(s) = <<>> <=> Len(Tail(s)) = 0
  <2>1. \A t \in Seq(S) : t = <<>> <=> Len(t) = 0
    OBVIOUS
  <2>. QED
    BY <1>2, <2>1
<1>. QED
  BY <1>1, <1>2, <1>3, <1>4, <1>5

\* What Append adds to a sequence.
LEMMA AppendFacts ==
  ASSUME NEW S, NEW s \in Seq(S), NEW e \in S
  PROVE  /\ Append(s, e) \in Seq(S) /\ Len(s) \in Nat /\ Len(Append(s, e)) = Len(s) + 1
         /\ \A i \in 1..Len(s) : Append(s, e)[i] = s[i]
         /\ Append(s, e)[Len(s) + 1] = e /\ Append(s, e) # <<>>
         /\ (s = <<>> <=> Len(s) = 0)
OBVIOUS


\* Auth preserves the invariant.
LEMMA AuthInv ==
  ASSUME Inv, Auth
  PROVE  Inv'
<1>. USE HalfAssumption, KeyAssumption DEF Inv, Auth, clientVars
<1>0. /\ made' = [key |-> SKey, cs |-> 1, sc |-> 2]
      /\ reply' = [key |-> SKey, start |-> 1, index |-> 2] /\ SKey \in Keys /\ SKey' = SKey
  <2>1. ToInt32(1) = 1 /\ ToInt32(2) = 2
    BY SmallToInt32
  <2>2. SKey \in Keys /\ SKey' = SKey
    BY DEF SKey, Keys
  <2>3. NewSession = [key |-> SKey, cs |-> 0, sc |-> 1]
    BY DEF NewSession, SKey
  <2>4. IncreaseSCIndex(IncreaseCSIndex(NewSession)) = [key |-> SKey, cs |-> 1, sc |-> 2]
    <3>1. IncreaseCSIndex(NewSession) = [key |-> SKey, cs |-> 1, sc |-> 1]
      BY <2>3, 0 + 1 = 1 DEF IncreaseCSIndex
    <3>. QED
      BY <3>1, 1 + 1 = 2 DEF IncreaseSCIndex
  <2>. QED
    BY <2>1, <2>2, <2>4
<1>1. TypeOK'
  BY <1>0 DEF TypeOK, Keys, Int32, Sessions, Packets
<1>2. Phase'
  BY <1>0 DEF Phase, TypeOK, Keys, Int32, Sessions, Packets
<1>3. KeyInv'
  BY <1>0 DEF KeyInv, Phase, TypeOK, Keys, Int32, Sessions, Packets
<1>4. Count'
  BY <1>0 DEF Count, Phase, IsCrypto, TypeOK, Keys, Int32, Sessions, Packets
<1>5. Chain'
  BY <1>0 DEF Chain, Nexts, Phase, TypeOK, Keys, Int32, Sessions, Packets
<1>6. RefusedOnlyAtWrap'
  BY <1>0 DEF RefusedOnlyAtWrap, TypeOK, Keys, Int32, Sessions, Packets
<1>. QED
  BY <1>1, <1>2, <1>3, <1>4, <1>5, <1>6

\* HandshakeFails preserves the invariant.
LEMMA HandshakeFailsInv ==
  ASSUME Inv, HandshakeFails
  PROVE  Inv'
<1>. USE HalfAssumption, KeyAssumption DEF Inv, HandshakeFails, clientVars
<1>0. SKey' = SKey
  BY DEF SKey
<1>1. TypeOK'
  BY <1>0 DEF TypeOK, Keys, Int32, Sessions, Packets
<1>2. Phase'
  BY <1>0 DEF Phase, TypeOK, Keys, Int32, Sessions, Packets
<1>3. KeyInv'
  BY <1>0 DEF KeyInv, Phase, TypeOK, Keys, Int32, Sessions, Packets
<1>4. Count'
  BY <1>0 DEF Count, Phase, IsCrypto, TypeOK, Keys, Int32, Sessions, Packets
<1>5. Chain'
  BY <1>0 DEF Chain, Nexts, Phase, TypeOK, Keys, Int32, Sessions, Packets
<1>6. RefusedOnlyAtWrap'
  BY <1>0 DEF RefusedOnlyAtWrap, TypeOK, Keys, Int32, Sessions, Packets
<1>. QED
  BY <1>1, <1>2, <1>3, <1>4, <1>5, <1>6

\* WriteReply preserves the invariant.
LEMMA WriteReplyInv ==
  ASSUME Inv, WriteReply
  PROVE  Inv'
<1>. USE HalfAssumption, KeyAssumption DEF Inv, WriteReply, clientVars
<1>0. /\ SKey' = SKey /\ Len(down') = Len(down) + 1 /\ down' # <<>>
      /\ \A i \in 1..Len(down) : down'[i] = down[i]
      /\ down'[Len(down) + 1] = session.key
  BY DEF SKey, TypeOK
<1>1. TypeOK'
  BY <1>0 DEF TypeOK, Keys, Int32, Sessions, Packets
<1>2. Phase'
  BY <1>0 DEF Phase, TypeOK, Keys, Int32, Sessions, Packets
<1>3. KeyInv'
  BY <1>0 DEF KeyInv, Phase, TypeOK, Keys, Int32, Sessions, Packets
<1>4. Count'
  BY <1>0 DEF Count, Phase, IsCrypto, TypeOK, Keys, Int32, Sessions, Packets
<1>5. Chain'
  BY <1>0 DEF Chain, Nexts, Phase, TypeOK, Keys, Int32, Sessions, Packets
<1>6. RefusedOnlyAtWrap'
  BY <1>0 DEF RefusedOnlyAtWrap, TypeOK, Keys, Int32, Sessions, Packets
<1>. QED
  BY <1>1, <1>2, <1>3, <1>4, <1>5, <1>6

\* SetSession preserves the invariant.
LEMMA SetSessionInv ==
  ASSUME Inv, SetSession
  PROVE  Inv'
<1>. USE HalfAssumption, KeyAssumption DEF Inv, SetSession, clientVars
<1>0. SKey' = SKey
  BY DEF SKey
<1>1. TypeOK'
  BY <1>0 DEF TypeOK, Keys, Int32, Sessions, Packets
<1>2. Phase'
  BY <1>0 DEF Phase, TypeOK, Keys, Int32, Sessions, Packets
<1>3. KeyInv'
  BY <1>0 DEF KeyInv, Phase, TypeOK, Keys, Int32, Sessions, Packets
<1>4. Count'
  BY <1>0 DEF Count, Phase, IsCrypto, TypeOK, Keys, Int32, Sessions, Packets
<1>5. Chain'
  BY <1>0 DEF Chain, Nexts, Phase, TypeOK, Keys, Int32, Sessions, Packets
<1>6. RefusedOnlyAtWrap'
  BY <1>0 DEF RefusedOnlyAtWrap, TypeOK, Keys, Int32, Sessions, Packets
<1>. QED
  BY <1>1, <1>2, <1>3, <1>4, <1>5, <1>6

\* Handle preserves the invariant.
LEMMA HandleInv ==
  ASSUME Inv, Handle
  PROVE  Inv'
<1>. USE HalfAssumption, KeyAssumption DEF Inv, Handle, clientVars
<1>0. /\ SKey' = SKey /\ up \in Seq(Packets) /\ up[1] \in Packets
      /\ Len(up) \in Nat /\ Len(up) >= 1 /\ up' \in Seq(Packets) /\ Len(up') = Len(up) - 1
      /\ \A i \in 1..(Len(up) - 1) : up'[i] = up[i + 1]
      /\ Head(up) = up[1] /\ (up' = <<>> <=> Len(up) = 1)
  BY TailFacts DEF SKey, TypeOK
<1>p. /\ passed \in Seq(Nat) /\ passed' \in Seq(Nat) /\ Len(passed) \in Nat
      /\ Len(passed') = Len(passed) + 1 /\ passed'[Len(passed) + 1] = up[1].msg
      /\ \A i \in 1..Len(passed) : passed'[i] = passed[i]
  BY <1>0, AppendFacts DEF TypeOK, Packets
<1>s. /\ session' \in Sessions /\ session'.key = session.key
      /\ IsCrypto(session) => session'.cs = session.cs + 1 /\ session.cs = up[1].index
      /\ (IsCrypto(session') <=> IsCrypto(session)) /\ session.cs \in Nat
  <2>1. session.cs \in Nat /\ session.cs + 1 \in Nat
    BY DEF TypeOK, Sessions
  <2>2. CASE IsCrypto(session)
    BY <1>0, <2>1, <2>2 DEF TypeOK, Sessions, Checked, Indexed, IncreaseCSIndex, IsCrypto
  <2>3. CASE ~IsCrypto(session)
    BY <2>1, <2>3 DEF TypeOK, Checked, IsCrypto
  <2>. QED
    BY <2>2, <2>3
<1>. HIDE DEF Handle
<1>n. up[1].msg \in Nat /\ up[1].index \in Int /\ up[1].index <= Half - 1
  BY <1>0 DEF Packets, Int32
<1>m. /\ worker = "open" /\ worker' = "open" /\ client.at = "open"
      /\ UNCHANGED <<encrypted, made, reply, client, msgs, repeats, down>>
  <2>1. client.at \in {"new", "await", "open"}
    BY DEF TypeOK
  <2>. QED
    BY <2>1 DEF Handle, clientVars, Phase
<1>1. TypeOK'
  BY <1>0, <1>p, <1>s DEF TypeOK, Handle
<1>2. Phase'
  BY <1>m DEF Phase
<1>3. KeyInv'
  <2>1. \A i \in 1..Len(up') : up'[i].key = made.key
    BY <1>0, <1>m DEF KeyInv
  <2>. QED
    BY <1>0, <1>s, <1>m, <2>1 DEF KeyInv
<1>4. Count'
  <2>1. IsCrypto(session) => session'.cs = Len(passed') + 1 /\ session'.cs <= Half
    BY <1>p, <1>s, <1>n, <1>m DEF Count
  <2>2. \A i \in 1..Len(up') : up'[i].msg < Half => up'[i].index = up'[i].msg
    BY <1>0 DEF Count
  <2>. QED
    BY <1>s, <1>m, <2>1, <2>2 DEF Count
<1>5. Chain'
  <2>. SUFFICES ASSUME encrypted \/ repeats = 0
                PROVE  /\ \A i \in 1..Len(passed') : passed'[i] = i
                       /\ up' = <<>> => msgs = Len(passed')
                       /\ up' # <<>> => /\ up'[1].msg \in Nexts(Len(passed'))
                                         /\ up'[Len(up')].msg = msgs
                       /\ \A i \in 1..(Len(up') - 1) : up'[i + 1].msg \in Nexts(up'[i].msg)
    BY <1>m DEF Chain, Nexts
  <2>1. /\ \A i \in 1..Len(passed) : passed[i] = i
        /\ up[1].msg \in Nexts(Len(passed)) /\ up[Len(up)].msg = msgs
        /\ \A i \in 1..(Len(up) - 1) : up[i + 1].msg \in Nexts(up[i].msg)
    BY <1>0, <1>m DEF Chain
  <2>2. up[1].msg = Len(passed) + 1
    <3>1. CASE repeats = 0
      BY <2>1, <3>1 DEF Nexts
    <3>2. CASE encrypted
      <4>1. IsCrypto(session) /\ session.cs = up[1].index /\ session.cs = Len(passed) + 1
        BY <1>s, <1>m, <3>2 DEF KeyInv, SKey, IsCrypto, Count
      <4>2. up[1].msg < Half => up[1].index = up[1].msg
        BY <1>0 DEF Count
      <4>3. up[1].msg = Len(passed) \/ up[1].msg = Len(passed) + 1
        BY <2>1 DEF Nexts
      <4>. QED
        BY <1>p, <1>n, <4>1, <4>2, <4>3
    <3>. QED
      BY <3>1, <3>2
  <2>3. \A i \in 1..Len(passed') : passed'[i] = i
    <3>1. ASSUME NEW i \in 1..Len(passed') PROVE passed'[i] = i
      <4>1. i \in 1..Len(passed) \/ i = Len(passed) + 1
        BY <1>p
      <4>. QED
        BY <1>p, <2>1, <2>2, <4>1
    <3>. QED
      BY <3>1
  <2>4. up' = <<>> => msgs = Len(passed')
    BY <1>0, <1>p, <2>1, <2>2
  <2>5. up' # <<>> => up'[1].msg \in Nexts(Len(passed')) /\ up'[Len(up')].msg = msgs
    <3>. SUFFICES ASSUME Len(up) > 1
                  PROVE  up'[1].msg \in Nexts(Len(passed')) /\ up'[Len(up')].msg = msgs
      BY <1>0
    <3>1. up'[1] = up[2] /\ up[2].msg \in Nexts(up[1].msg)
      <4>1. up'[1] = up[1 + 1] /\ up[1 + 1].msg \in Nexts(up[1].msg)
        BY <1>0, <2>1
      <4>. QED
        BY <4>1
    <3>2. up'[Len(up')] = up[Len(up)]
      BY <1>0
    <3>. QED
      BY <1>p, <2>1, <2>2, <3>1, <3>2
  <2>6. ASSUME NEW i \in 1..(Len(up') - 1)
        PROVE  up'[i + 1].msg \in Nexts(up'[i].msg)
    <3>1. up'[i + 1] = up[(i + 1) + 1] /\ up'[i] = up[i + 1]
      BY <1>0
    <3>. QED
      BY <1>0, <2>1, <3>1
  <2>. QED
    BY <2>3, <2>4, <2>5, <2>6
<1>6. RefusedOnlyAtWrap'
  BY <1>m DEF RefusedOnlyAtWrap
<1>. QED
  BY <1>1, <1>2, <1>3, <1>4, <1>5, <1>6

\* HandleRefuses preserves the invariant.
LEMMA HandleRefusesInv ==
  ASSUME Inv, HandleRefuses
  PROVE  Inv'
<1>. USE HalfAssumption, KeyAssumption DEF Inv, HandleRefuses, clientVars
<1>0. /\ SKey' = SKey /\ up \in Seq(Packets) /\ up[1] \in Packets
      /\ Len(up) \in Nat /\ Len(up) >= 1 /\ up' \in Seq(Packets) /\ Len(up') = Len(up) - 1
      /\ \A i \in 1..(Len(up) - 1) : up'[i] = up[i + 1]
      /\ Head(up) = up[1] /\ (up' = <<>> <=> Len(up) = 1)
  BY TailFacts DEF SKey, TypeOK
<1>1. TypeOK'
  BY <1>0 DEF TypeOK
<1>2. Phase'
  BY <1>0 DEF Phase
<1>3. KeyInv'
  BY <1>0 DEF KeyInv
<1>4. Count'
  BY <1>0 DEF Count, IsCrypto
<1>5. Chain'
  BY DEF Chain
<1>6. RefusedOnlyAtWrap'
  <2>. SUFFICES ASSUME repeats = 0
                PROVE  session.cs = Half
    BY DEF RefusedOnlyAtWrap, TypeOK
  <2>1. up[1].msg \in Nat /\ up[1].index \in Int /\ Len(passed) \in Nat /\ session.cs \in Nat
    <3>1. up[1].msg \in Nat /\ up[1].index \in Int
      <4>1. up[1] \in Packets
        BY <1>0
      <4>. HIDE DEF Inv, HandleRefuses
      <4>. QED
        BY <4>1 DEF Packets, Int32
    <3>2. Len(passed) \in Nat /\ session.cs \in Nat
      BY DEF TypeOK, Sessions
    <3>. QED
      BY <3>1, <3>2
  <2>2. session.cs = Len(passed) + 1 /\ session.cs <= Half /\ session.cs # up[1].index
    BY <1>0 DEF Count, Indexed
  <2>3. up[1].msg = Len(passed) + 1
    BY <1>0 DEF Chain, Nexts
  <2>4. up[1].msg < Half => up[1].index = up[1].msg
    BY <1>0 DEF Count
  <2>. QED
    BY <2>1, <2>2, <2>3, <2>4
<1>. QED
  BY <1>1, <1>2, <1>3, <1>4, <1>5, <1>6

\* ReadFails preserves the invariant.
LEMMA ReadFailsInv ==
  ASSUME Inv, ReadFails
  PROVE  Inv'
<1>. USE HalfAssumption, KeyAssumption DEF Inv, ReadFails, clientVars
<1>0. SKey' = SKey
  BY DEF SKey
<1>1. TypeOK'
  BY <1>0 DEF TypeOK, Keys, Int32, Sessions, Packets
<1>2. Phase'
  BY <1>0 DEF Phase, TypeOK, Keys, Int32, Sessions, Packets
<1>3. KeyInv'
  BY <1>0 DEF KeyInv, Phase, TypeOK, Keys, Int32, Sessions, Packets
<1>4. Count'
  BY <1>0 DEF Count, Phase, IsCrypto, TypeOK, Keys, Int32, Sessions, Packets
<1>5. Chain'
  BY <1>0 DEF Chain, Nexts, Phase, TypeOK, Keys, Int32, Sessions, Packets
<1>6. RefusedOnlyAtWrap'
  BY <1>0 DEF RefusedOnlyAtWrap, TypeOK, Keys, Int32, Sessions, Packets
<1>. QED
  BY <1>1, <1>2, <1>3, <1>4, <1>5, <1>6

\* WritePack preserves the invariant.
LEMMA WritePackInv ==
  ASSUME Inv, WritePack
  PROVE  Inv'
<1>. USE HalfAssumption, KeyAssumption DEF Inv, WritePack, clientVars
<1>0. /\ SKey' = SKey /\ Len(down') = Len(down) + 1 /\ down' # <<>>
      /\ \A i \in 1..Len(down) : down'[i] = down[i]
      /\ down'[Len(down) + 1] = session.key
  BY DEF SKey, TypeOK
<1>1. TypeOK'
  BY <1>0 DEF TypeOK, Keys, Int32, Sessions, Packets
<1>2. Phase'
  BY <1>0 DEF Phase, TypeOK, Keys, Int32, Sessions, Packets
<1>3. KeyInv'
  <2>1. session.key = made.key /\ client.at # "new"
    BY DEF KeyInv, Phase
  <2>2. down \in Seq(Keys) /\ Len(down) \in Nat /\ (client.at = "await" => Len(down) >= 1)
    BY DEF Phase, TypeOK
  <2>3. client.at = "await" => down'[1] = NoKey /\ \A i \in 2..Len(down') : down'[i] = made.key
    BY <1>0, <2>1, <2>2 DEF KeyInv, Phase
  <2>4. client.at = "open" => \A i \in 1..Len(down') : down'[i] = made.key
    BY <1>0, <2>1, <2>2 DEF KeyInv
  <2>. QED
    BY <1>0, <2>1, <2>3, <2>4 DEF KeyInv
<1>4. Count'
  BY <1>0 DEF Count, Phase, IsCrypto, TypeOK, Keys, Int32, Sessions, Packets
<1>5. Chain'
  BY <1>0 DEF Chain, Nexts, Phase, TypeOK, Keys, Int32, Sessions, Packets
<1>6. RefusedOnlyAtWrap'
  BY <1>0 DEF RefusedOnlyAtWrap, TypeOK, Keys, Int32, Sessions, Packets
<1>. QED
  BY <1>1, <1>2, <1>3, <1>4, <1>5, <1>6

\* ClientHandshakes preserves the invariant.
LEMMA ClientHandshakesInv ==
  ASSUME Inv, ClientHandshakes
  PROVE  Inv'
<1>. USE HalfAssumption, KeyAssumption DEF Inv, ClientHandshakes, clientVars
<1>0. SKey' = SKey
  BY DEF SKey
<1>1. TypeOK'
  BY <1>0 DEF TypeOK, Keys, Int32, Sessions, Packets
<1>2. Phase'
  BY <1>0 DEF Phase, TypeOK, Keys, Int32, Sessions, Packets
<1>3. KeyInv'
  BY <1>0 DEF KeyInv, Phase, TypeOK, Keys, Int32, Sessions, Packets
<1>4. Count'
  BY <1>0 DEF Count, Phase, IsCrypto, TypeOK, Keys, Int32, Sessions, Packets
<1>5. Chain'
  BY <1>0 DEF Chain, Nexts, Phase, TypeOK, Keys, Int32, Sessions, Packets
<1>6. RefusedOnlyAtWrap'
  BY <1>0 DEF RefusedOnlyAtWrap, TypeOK, Keys, Int32, Sessions, Packets
<1>. QED
  BY <1>1, <1>2, <1>3, <1>4, <1>5, <1>6

\* ClientOpens preserves the invariant.
LEMMA ClientOpensInv ==
  ASSUME Inv, ClientOpens
  PROVE  Inv'
<1>. USE HalfAssumption, KeyAssumption DEF Inv, ClientOpens, clientVars
<1>0. /\ SKey' = SKey /\ Len(down') = Len(down) - 1
      /\ \A i \in 1..Len(down') : down'[i] = down[i + 1]
      /\ Head(down) = down[1]
  BY DEF SKey, TypeOK
<1>1. TypeOK'
  BY <1>0 DEF TypeOK, Keys, Int32, Sessions, Packets
<1>2. Phase'
  BY <1>0 DEF Phase, TypeOK, Keys, Int32, Sessions, Packets
<1>3. KeyInv'
  BY <1>0 DEF KeyInv, Phase, TypeOK, Keys, Int32, Sessions, Packets
<1>4. Count'
  <2>1. client'.index = 1 /\ msgs = 0
    BY DEF KeyInv, Phase
  <2>. QED
    BY <2>1 DEF Count, IsCrypto
<1>5. Chain'
  BY <1>0 DEF Chain, Nexts, Phase, TypeOK, Keys, Int32, Sessions, Packets
<1>6. RefusedOnlyAtWrap'
  BY <1>0 DEF RefusedOnlyAtWrap, TypeOK, Keys, Int32, Sessions, Packets
<1>. QED
  BY <1>1, <1>2, <1>3, <1>4, <1>5, <1>6

\* ClientReads preserves the invariant.
LEMMA ClientReadsInv ==
  ASSUME Inv, ClientReads
  PROVE  Inv'
<1>. USE HalfAssumption, KeyAssumption DEF Inv, ClientReads, clientVars
<1>0. /\ SKey' = SKey /\ Len(down') = Len(down) - 1
      /\ \A i \in 1..Len(down') : down'[i] = down[i + 1]
      /\ Head(down) = down[1]
  BY DEF SKey, TypeOK
<1>1. TypeOK'
  BY <1>0 DEF TypeOK, Keys, Int32, Sessions, Packets
<1>2. Phase'
  BY <1>0 DEF Phase, TypeOK, Keys, Int32, Sessions, Packets
<1>3. KeyInv'
  BY <1>0 DEF KeyInv, Phase, TypeOK, Keys, Int32, Sessions, Packets
<1>4. Count'
  BY <1>0 DEF Count, Phase, IsCrypto, TypeOK, Keys, Int32, Sessions, Packets
<1>5. Chain'
  BY <1>0 DEF Chain, Nexts, Phase, TypeOK, Keys, Int32, Sessions, Packets
<1>6. RefusedOnlyAtWrap'
  BY <1>0 DEF RefusedOnlyAtWrap, TypeOK, Keys, Int32, Sessions, Packets
<1>. QED
  BY <1>1, <1>2, <1>3, <1>4, <1>5, <1>6

\* ClientSends preserves the invariant.
LEMMA ClientSendsInv ==
  ASSUME Inv, ClientSends
  PROVE  Inv'
<1>. USE HalfAssumption, KeyAssumption DEF Inv, ClientSends, clientVars
<1>x. client.index \in Int32
  BY DEF TypeOK
<1>i. Inc32(client.index) \in Int32
  BY <1>x DEF Int32, Inc32
<1>0. /\ SKey' = SKey /\ up \in Seq(Packets) /\ up' \in Seq(Packets) /\ Len(up) \in Nat
      /\ Len(up') = Len(up) + 1 /\ (up = <<>> <=> Len(up) = 0) /\ up' # <<>>
      /\ \A i \in 1..Len(up) : up'[i] = up[i]
      /\ up'[Len(up) + 1] = [key |-> client.key, index |-> client.index, msg |-> msgs + 1]
  <2>1. [key |-> client.key, index |-> client.index, msg |-> msgs + 1] \in Packets
    BY <1>x DEF TypeOK, Packets
  <2>. QED
    BY <2>1, AppendFacts DEF SKey, TypeOK
<1>t. msgs \in Nat /\ repeats \in Nat /\ Len(passed) \in Nat /\ client.at = "open"
  BY DEF TypeOK
<1>c. /\ client' \in [at : {"new", "await", "open"}, key : Keys, index : Int32]
      /\ client'.at = "open" /\ client'.key = client.key /\ client'.index = Inc32(client.index)
  BY <1>i DEF TypeOK
<1>1. TypeOK'
  BY <1>0, <1>c, <1>t DEF TypeOK
<1>2. Phase'
  BY <1>c, <1>t DEF Phase
<1>3. KeyInv'
  <2>1. \A i \in 1..Len(up') : up'[i].key = made.key
    BY <1>0, <1>t DEF KeyInv
  <2>. QED
    BY <1>0, <1>c, <1>t, <2>1 DEF KeyInv
<1>4. Count'
  <2>1. client.index \in Int /\ (msgs + 1 < Half => client.index = msgs + 1)
    BY <1>x, <1>t DEF Count, Int32
  <2>2. /\ msgs' + 1 < Half => Inc32(client.index) = msgs' + 1
        /\ msgs' + 1 = Half => Inc32(client.index) = -Half
    BY <1>t, <2>1 DEF Inc32
  <2>3. \A i \in 1..Len(up') : up'[i].msg < Half => up'[i].index = up'[i].msg
    BY <1>0, <2>1 DEF Count
  <2>. QED
    BY <1>c, <2>2, <2>3 DEF Count, IsCrypto
<1>5. Chain'
  <2>. DEFINE N(m) == IF repeats' = 0 THEN {m + 1} ELSE {m, m + 1}
  <2>. SUFFICES ASSUME encrypted \/ repeats' = 0, worker \in {"set", "open"}
                PROVE  /\ up'[1].msg \in N(Len(passed)) /\ up'[Len(up')].msg = msgs'
                       /\ \A i \in 1..(Len(up') - 1) : up'[i + 1].msg \in N(up'[i].msg)
    <3>1. /\ encrypted' = encrypted /\ passed' = passed /\ worker' = worker
          /\ repeats' = 0 => repeats = 0
      BY <1>t
    <3>2. worker \notin {"handshake", "reply"}
      BY <1>t DEF Phase
    <3>3. encrypted \/ repeats' = 0 => \A i \in 1..Len(passed) : passed[i] = i
      BY <3>1 DEF Chain
    <3>4. CASE ~(encrypted \/ repeats' = 0)
      BY <3>1, <3>4 DEF Chain
    <3>5. CASE (encrypted \/ repeats' = 0) /\ worker \notin {"set", "open"}
      BY <3>1, <3>2, <3>3, <3>5 DEF Chain
    <3>6. CASE (encrypted \/ repeats' = 0) /\ worker \in {"set", "open"}
      <4>1. /\ up'[1].msg \in N(Len(passed)) /\ up'[Len(up')].msg = msgs'
            /\ \A i \in 1..(Len(up') - 1) : up'[i + 1].msg \in N(up'[i].msg)
        BY <3>6
      <4>. QED
        BY <1>0, <3>1, <3>3, <3>6, <4>1 DEF Chain, Nexts
    <3>. QED
      BY <3>4, <3>5, <3>6
  <2>1. /\ up = <<>> => msgs = Len(passed)
        /\ up # <<>> => up[1].msg \in Nexts(Len(passed)) /\ up[Len(up)].msg = msgs
        /\ \A i \in 1..(Len(up) - 1) : up[i + 1].msg \in Nexts(up[i].msg)
    BY <1>t DEF Chain
  <2>2. up'[Len(up) + 1].msg = msgs' /\ msgs + 1 \in {msgs + 1}
    BY <1>0, <1>t
  <2>3. \A m : Nexts(m) \subseteq N(m)
    BY <1>t DEF Nexts
  <2>4. CASE up = <<>>
    BY <1>0, <2>1, <2>2, <2>4 DEF Nexts
  <2>5. CASE up # <<>>
    <3>1. up'[1] = up[1] /\ up'[Len(up)] = up[Len(up)]
      BY <1>0, <2>5
    <3>2. ASSUME NEW i \in 1..(Len(up') - 1)
          PROVE  up'[i + 1].msg \in N(up'[i].msg)
      <4>1. CASE i = Len(up)
        BY <1>0, <2>1, <2>2, <2>5, <3>1, <4>1 DEF Nexts
      <4>2. CASE i < Len(up)
        <5>1. up'[i + 1] = up[i + 1] /\ up'[i] = up[i] /\ i \in 1..(Len(up) - 1)
          BY <1>0, <4>2
        <5>2. up[i + 1].msg \in Nexts(up[i].msg)
          BY <2>1, <5>1
        <5>. QED
          BY <1>t, <5>1, <5>2 DEF Nexts
      <4>. QED
        BY <1>0, <4>1, <4>2
    <3>3. up'[1].msg \in N(Len(passed))
      BY <1>t, <2>1, <2>5, <3>1 DEF Nexts
    <3>. QED
      BY <1>0, <2>2, <3>2, <3>3
  <2>. QED
    BY <2>4, <2>5
<1>6. RefusedOnlyAtWrap'
  BY <1>t DEF RefusedOnlyAtWrap
<1>. QED
  BY <1>1, <1>2, <1>3, <1>4, <1>5, <1>6

\* ClientRepeats preserves the invariant.
LEMMA ClientRepeatsInv ==
  ASSUME Inv, ClientRepeats
  PROVE  Inv'
<1>. USE HalfAssumption, KeyAssumption DEF Inv, ClientRepeats, clientVars
<1>i. Dec32(client.index) \in Int32
  BY DEF TypeOK, Int32, Dec32
<1>0. /\ SKey' = SKey /\ up \in Seq(Packets) /\ up' \in Seq(Packets) /\ Len(up) \in Nat
      /\ Len(up') = Len(up) + 1 /\ (up = <<>> <=> Len(up) = 0) /\ up' # <<>>
      /\ \A i \in 1..Len(up) : up'[i] = up[i]
      /\ up'[Len(up) + 1] = [key |-> client.key, index |-> Dec32(client.index), msg |-> msgs]
  <2>1. [key |-> client.key, index |-> Dec32(client.index), msg |-> msgs] \in Packets
    BY <1>i DEF TypeOK, Packets
  <2>. QED
    BY <2>1, AppendFacts DEF SKey, TypeOK
<1>t. msgs \in Nat /\ repeats \in Nat /\ Len(passed) \in Nat /\ client.at = "open"
  BY DEF TypeOK
<1>1. TypeOK'
  BY <1>0, <1>t DEF TypeOK
<1>2. Phase'
  BY <1>t DEF Phase
<1>3. KeyInv'
  <2>1. \A i \in 1..Len(up') : up'[i].key = made.key
    BY <1>0, <1>t DEF KeyInv
  <2>. QED
    BY <1>0, <1>t, <2>1 DEF KeyInv
<1>4. Count'
  <2>1. /\ client.index \in Int
        /\ msgs + 1 < Half => client.index = msgs + 1
        /\ msgs + 1 = Half => client.index = -Half
    BY <1>t DEF Count, TypeOK, Int32
  <2>2. msgs < Half => Dec32(client.index) = msgs
    BY <1>t, <2>1 DEF Dec32
  <2>3. \A i \in 1..Len(up') : up'[i].msg < Half => up'[i].index = up'[i].msg
    BY <1>0, <2>2 DEF Count
  <2>. QED
    BY <1>t, <2>3 DEF Count, IsCrypto
<1>5. Chain'
  <2>. DEFINE N(m) == IF repeats' = 0 THEN {m + 1} ELSE {m, m + 1}
  <2>. SUFFICES ASSUME encrypted \/ repeats' = 0, worker \in {"set", "open"}
                PROVE  /\ up'[1].msg \in N(Len(passed)) /\ up'[Len(up')].msg = msgs'
                       /\ \A i \in 1..(Len(up') - 1) : up'[i + 1].msg \in N(up'[i].msg)
    <3>1. /\ encrypted' = encrypted /\ passed' = passed /\ worker' = worker
          /\ repeats' = 0 => repeats = 0
      BY <1>t
    <3>2. worker \notin {"handshake", "reply"}
      BY <1>t DEF Phase
    <3>3. encrypted \/ repeats' = 0 => \A i \in 1..Len(passed) : passed[i] = i
      BY <3>1 DEF Chain
    <3>4. CASE ~(encrypted \/ repeats' = 0)
      BY <3>1, <3>4 DEF Chain
    <3>5. CASE (encrypted \/ repeats' = 0) /\ worker \notin {"set", "open"}
      BY <3>1, <3>2, <3>3, <3>5 DEF Chain
    <3>6. CASE (encrypted \/ repeats' = 0) /\ worker \in {"set", "open"}
      <4>1. /\ up'[1].msg \in N(Len(passed)) /\ up'[Len(up')].msg = msgs'
            /\ \A i \in 1..(Len(up') - 1) : up'[i + 1].msg \in N(up'[i].msg)
        BY <3>6
      <4>. QED
        BY <1>0, <3>1, <3>3, <3>6, <4>1 DEF Chain, Nexts
    <3>. QED
      BY <3>4, <3>5, <3>6
  <2>1. /\ up = <<>> => msgs = Len(passed)
        /\ up # <<>> => up[1].msg \in Nexts(Len(passed)) /\ up[Len(up)].msg = msgs
        /\ \A i \in 1..(Len(up) - 1) : up[i + 1].msg \in Nexts(up[i].msg)
    BY <1>t DEF Chain
  <2>2. up'[Len(up) + 1].msg = msgs' /\ msgs' \in N(msgs)
    BY <1>0, <1>t DEF Nexts
  <2>3. \A m : Nexts(m) \subseteq N(m)
    BY <1>t DEF Nexts
  <2>4. CASE up = <<>>
    BY <1>0, <2>1, <2>2, <2>4 DEF Nexts
  <2>5. CASE up # <<>>
    <3>1. up'[1] = up[1] /\ up'[Len(up)] = up[Len(up)]
      BY <1>0, <2>5
    <3>2. ASSUME NEW i \in 1..(Len(up') - 1)
          PROVE  up'[i + 1].msg \in N(up'[i].msg)
      <4>1. CASE i = Len(up)
        BY <1>0, <2>1, <2>2, <2>5, <3>1, <4>1 DEF Nexts
      <4>2. CASE i < Len(up)
        <5>1. up'[i + 1] = up[i + 1] /\ up'[i] = up[i] /\ i \in 1..(Len(up) - 1)
          BY <1>0, <4>2
        <5>2. up[i + 1].msg \in Nexts(up[i].msg)
          BY <2>1, <5>1
        <5>. QED
          BY <1>t, <5>1, <5>2 DEF Nexts
      <4>. QED
        BY <1>0, <4>1, <4>2
    <3>3. up'[1].msg \in N(Len(passed))
      BY <1>t, <2>1, <2>5, <3>1 DEF Nexts
    <3>. QED
      BY <1>0, <2>2, <3>2, <3>3
  <2>. QED
    BY <2>4, <2>5
<1>6. RefusedOnlyAtWrap'
  BY <1>t DEF RefusedOnlyAtWrap
<1>. QED
  BY <1>1, <1>2, <1>3, <1>4, <1>5, <1>6

\* The inductive invariant holds in every state of Session.
THEOREM Invariance == Spec => []Inv
<1>1. Init => Inv
  <2>. SUFFICES ASSUME Init PROVE Inv
    OBVIOUS
  <2>. USE HalfAssumption DEF Init, DefaultSession
  <2>1. TypeOK
    BY DEF TypeOK, Keys, Int32, Sessions, Packets
  <2>2. Phase /\ KeyInv /\ Count /\ Chain /\ RefusedOnlyAtWrap
    BY DEF Phase, KeyInv, Count, Chain, RefusedOnlyAtWrap
  <2>. QED
    BY <2>1, <2>2 DEF Inv
<1>2. Inv /\ [Next]_vars => Inv'
  <2>. SUFFICES ASSUME Inv, [Next]_vars PROVE Inv'
    OBVIOUS
  <2>1. CASE GateStep
    BY <2>1, AuthInv, HandshakeFailsInv, WriteReplyInv, SetSessionInv, HandleInv,
       HandleRefusesInv, ReadFailsInv, WritePackInv DEF GateStep
  <2>2. CASE ClientStep
    BY <2>2, ClientHandshakesInv, ClientOpensInv, ClientReadsInv, ClientSendsInv,
       ClientRepeatsInv DEF ClientStep
  <2>3. CASE UNCHANGED vars
    <3>. USE <2>3 DEF vars, Inv
    <3>1. TypeOK'
      BY DEF TypeOK
    <3>2. Phase' /\ RefusedOnlyAtWrap'
      BY DEF Phase, RefusedOnlyAtWrap
    <3>3. KeyInv' /\ Count'
      BY DEF KeyInv, SKey, Count, IsCrypto
    <3>4. Chain'
      BY DEF Chain, Nexts
    <3>. QED
      BY <3>1, <3>2, <3>3, <3>4
  <2>. QED
    BY <2>1, <2>2, <2>3 DEF Next
<1>. QED
  BY <1>1, <1>2, PTL DEF Spec

\* All variables of the gate's session, the packs in flight and the client keep their types.
THEOREM TypeCorrect == Spec => []TypeOK
<1>1. Inv => TypeOK
  BY DEF Inv
<1> QED BY <1>1, Invariance, PTL

\* The two ends of a connection agree on the key of every pack, across the
\* handshake's switch to encryption.
THEOREM KeysAlwaysAgree == Spec => []KeysAgree
<1>1. Inv => KeysAgree
  <2>. SUFFICES ASSUME Inv PROVE KeysAgree
    OBVIOUS
  <2>1. worker = "open" => \A i \in DOMAIN up : up[i].key = session.key
    <3>1. up \in Seq(Packets) /\ DOMAIN up = 1..Len(up) /\ client.at \in {"new", "await", "open"}
      BY DEF Inv, TypeOK
    <3>. QED
      BY <3>1 DEF Inv, Phase, KeyInv
  <2>2. down # <<>> => Head(down) = client.key
    <3>1. down # <<>> => Head(down) = down[1] /\ 1 \in 1..Len(down)
      BY DEF Inv, TypeOK
    <3>2. client.at \in {"new", "await", "open"}
      BY DEF Inv, TypeOK
    <3>. QED
      BY <3>1, <3>2 DEF Inv, Phase, KeyInv
  <2>. QED
    BY <2>1, <2>2 DEF KeysAgree
<1>. QED
  BY <1>1, Invariance, PTL

\* service.handle passes a message on once, whatever the client repeats.
THEOREM MessagesPassOnce == Spec => []PassedOnce
<1>1. Inv => PassedOnce
  <2>. SUFFICES ASSUME Inv, encrypted \/ repeats = 0
                PROVE  passed = [i \in 1..Len(passed) |-> i]
    BY DEF PassedOnce
  <2>1. passed \in Seq(Nat) /\ \A i \in 1..Len(passed) : passed[i] = i
    BY DEF Inv, TypeOK, Chain
  <2>. QED
    BY <2>1
<1>. QED
  BY <1>1, Invariance, PTL

\* A client that follows the protocol is refused at message 2^31 at the
\* earliest, for every width of the index.
THEOREM RefusalMeansWrap == Spec => []RefusedOnlyAtWrap
<1>1. Inv => RefusedOnlyAtWrap
  BY DEF Inv
<1>. QED
  BY <1>1, Invariance, PTL
==============================================================================
