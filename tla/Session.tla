------------------------------- MODULE Session -------------------------------
(***************************************************************************)
(* The session of one connection: the handshake that makes it (Auth, then  *)
(* the reply, then the assignment of w.session), the switch from plain to  *)
(* encrypted packs, and the index that service.handle checks on every      *)
(* packet of the client.                                                   *)
(*                                                                         *)
(* The gate counts in 64 bits, which are not exhausted; a packet carries   *)
(* an int32, one of -Half .. Half-1.  A pack is known by the key it is     *)
(* encrypted with, a packet also by its index and by the number of the     *)
(* message in it.  The RSA layer of the two handshake packets is inside    *)
(* Auth on the one side and in the client on the other, and is left out.   *)
(* The client numbers its packets from StartIndex on, as the check wants   *)
(* it; it may also send its last packet again.                             *)
(***************************************************************************)
EXTENDS Integers, Sequences

CONSTANTS
  Half,       \* 2^31: the first number that an int32 does not hold
  Key, NoKey, \* the key of this session; packs in plain
  MaxMsgs,    \* bound: messages of the client
  MaxRepeats, \* bound: packets the client sends again
  MaxFlight   \* bound: packs on their way, in either direction

ASSUME HalfAssumption == Half \in Nat /\ Half > 2
ASSUME KeyAssumption == Key # NoKey
ASSUME BoundAssumption == {MaxMsgs, MaxRepeats, MaxFlight} \subseteq Nat

VARIABLES
  encrypted, \* label.Encrypted of this deployment
  worker,    \* control point of the serve goroutine and of the read loop
  session,   \* w.session
  made,      \* the session Auth has made
  reply,     \* the contents of the handshake's reply
  client,    \* the client's own view
  up, down,  \* packs on their way to the gate and to the client
  msgs,      \* messages the client has sent
  repeats,   \* packets the client has sent again
  passed     \* history: the messages passed on to a tunnel

vars == <<encrypted, worker, session, made, reply, client, up, down, msgs, repeats, passed>>
clientVars == <<client, msgs, repeats>>

Keys  == {Key, NoKey}
Int32 == -Half..(Half - 1)

\* int32(n).
ToInt32(n) == ((n + Half) % (2 * Half)) - Half

\* The next and the previous int32.
Inc32(i) == IF i = Half - 1 THEN -Half ELSE i + 1

Dec32(i) == IF i = -Half THEN Half - 1 ELSE i - 1

\* DefaultSession: no encryption.
DefaultSession == [key |-> NoKey, cs |-> 0, sc |-> 1]

\* NewSession of s.auth: a fresh key, used if the deployment encrypts.
NewSession == [key |-> IF encrypted THEN Key ELSE NoKey, cs |-> 0, sc |-> 1]

IncreaseCSIndex(s) == [s EXCEPT !.cs = @ + 1]
IncreaseSCIndex(s) == [s EXCEPT !.sc = @ + 1]
IsCrypto(s) == s.key # NoKey

Init ==
  /\ encrypted \in BOOLEAN
  /\ worker = "handshake" /\ session = DefaultSession /\ made = DefaultSession
  /\ reply = [key |-> NoKey, start |-> 0, index |-> 0]
  /\ client = [at |-> "new", key |-> NoKey, index |-> 0]
  /\ up = <<>> /\ down = <<>> /\ msgs = 0 /\ repeats = 0 /\ passed = <<>>

------------------------------------------------------------------------------
(* The handshake, in Worker.Start. *)

\* Mutant: the index is increased after it has been read for the reply.
AuthReadsFirst ==
  /\ worker = "handshake" /\ client.at = "await"
  /\ LET s == IncreaseSCIndex(IncreaseCSIndex(NewSession))
     IN  /\ made' = s
         /\ reply' = [key |-> s.key, start |-> ToInt32(NewSession.cs), index |-> ToInt32(s.sc)]
  /\ worker' = "reply"
  /\ UNCHANGED <<encrypted, session, clientVars, up, down, passed>>

\* The handshake packet is read in plain; its token is good.
Auth ==
  /\ worker = "handshake" /\ client.at = "await"
  /\ LET s == IncreaseSCIndex(IncreaseCSIndex(NewSession))
     IN  /\ made' = s
         /\ reply' = [key |-> s.key, start |-> ToInt32(s.cs), index |-> ToInt32(s.sc)]
  /\ worker' = "reply"
  /\ UNCHANGED <<encrypted, session, clientVars, up, down, passed>>

\* No packet in time, one that cannot be decoded, a token that is empty,
\* forged or expired, or a reply that cannot be written.
HandshakeFails ==
  /\ worker \in {"handshake", "reply"}
  /\ worker' = "failed"
  /\ UNCHANGED <<encrypted, session, made, reply, clientVars, up, down, passed>>

\* Mutant: the session is set before the reply is written.
WriteReplySwapped ==
  /\ worker = "reply"
  /\ down' = Append(down, made.key) /\ worker' = "set"
  /\ UNCHANGED <<encrypted, session, made, reply, clientVars, up, passed>>

\* write encrypts with w.session, which is still the default one.
WriteReply ==
  /\ worker = "reply"
  /\ down' = Append(down, session.key) /\ worker' = "set"
  /\ UNCHANGED <<encrypted, session, made, reply, clientVars, up, passed>>

SetSession ==
  /\ worker = "set"
  /\ session' = made /\ worker' = "open"
  /\ UNCHANGED <<encrypted, made, reply, clientVars, up, down, passed>>

------------------------------------------------------------------------------
(* The read loop and the write loop. *)

Readable(p) == p.key = session.key
Indexed(p)  == IsCrypto(session) => session.cs = p.index

\* The session after the index check.
Checked == IF IsCrypto(session) THEN IncreaseCSIndex(session) ELSE session

\* Mutant: the index is not compared.
HandleUnchecked ==
  /\ worker = "open" /\ up # <<>> /\ Readable(Head(up))
  /\ up' = Tail(up) /\ session' = Checked
  /\ passed' = Append(passed, Head(up).msg)
  /\ UNCHANGED <<encrypted, worker, made, reply, clientVars, down>>

\* read decrypts with w.session; handle checks the index and forwards.
Handle ==
  /\ worker = "open" /\ up # <<>> /\ Readable(Head(up)) /\ Indexed(Head(up))
  /\ up' = Tail(up) /\ session' = Checked
  /\ passed' = Append(passed, Head(up).msg)
  /\ UNCHANGED <<encrypted, worker, made, reply, clientVars, down>>

\* "csindex validation failed", which ends the connection.
HandleRefuses ==
  /\ worker = "open" /\ up # <<>> /\ Readable(Head(up)) /\ ~Indexed(Head(up))
  /\ up' = Tail(up) /\ worker' = "refused"
  /\ UNCHANGED <<encrypted, session, made, reply, clientVars, down, passed>>

\* Decryption or decoding fails, there is no tunnel, or the connection breaks.
ReadFails ==
  /\ worker = "open"
  /\ worker' = "failed"
  /\ UNCHANGED <<encrypted, session, made, reply, clientVars, up, down, passed>>

\* The write loop writes a pushed pack.
WritePack ==
  /\ worker = "open" /\ Len(down) < MaxFlight
  /\ down' = Append(down, session.key)
  /\ UNCHANGED <<encrypted, worker, session, made, reply, clientVars, up, passed>>

------------------------------------------------------------------------------
(* The client. *)

ClientHandshakes ==
  /\ client.at = "new"
  /\ client' = [client EXCEPT !.at = "await"]
  /\ UNCHANGED <<encrypted, worker, session, made, reply, up, down, msgs, repeats, passed>>

\* The first pack is the handshake's reply.
ClientOpens ==
  /\ client.at = "await" /\ down # <<>> /\ Head(down) = client.key
  /\ client' = [at |-> "open", key |-> reply.key, index |-> reply.start]
  /\ down' = Tail(down)
  /\ UNCHANGED <<encrypted, worker, session, made, reply, up, msgs, repeats, passed>>

ClientReads ==
  /\ client.at = "open" /\ down # <<>> /\ Head(down) = client.key
  /\ down' = Tail(down)
  /\ UNCHANGED <<encrypted, worker, session, made, reply, clientVars, up, passed>>

ClientSends ==
  /\ client.at = "open" /\ msgs < MaxMsgs /\ Len(up) < MaxFlight
  /\ up' = Append(up, [key |-> client.key, index |-> client.index, msg |-> msgs + 1])
  /\ client' = [client EXCEPT !.index = Inc32(@)] /\ msgs' = msgs + 1
  /\ UNCHANGED <<encrypted, worker, session, made, reply, down, repeats, passed>>

\* The client does not know whether its last packet arrived.
ClientRepeats ==
  /\ client.at = "open" /\ msgs > 0 /\ repeats < MaxRepeats /\ Len(up) < MaxFlight
  /\ up' = Append(up, [key |-> client.key, index |-> Dec32(client.index), msg |-> msgs])
  /\ repeats' = repeats + 1
  /\ UNCHANGED <<encrypted, worker, session, made, reply, client, down, msgs, passed>>

------------------------------------------------------------------------------
GateStep ==
  \/ Auth \/ HandshakeFails \/ WriteReply \/ SetSession
  \/ Handle \/ HandleRefuses \/ ReadFails \/ WritePack
ClientStep == ClientHandshakes \/ ClientOpens \/ ClientReads \/ ClientSends \/ ClientRepeats

Next == GateStep \/ ClientStep

Spec == Init /\ [][Next]_vars

------------------------------------------------------------------------------
(* Properties. *)

Sessions == [key : Keys, cs : Nat, sc : Nat]
Packets  == [key : Keys, index : Int32, msg : Nat]

TypeOK ==
  /\ encrypted \in BOOLEAN
  /\ worker \in {"handshake", "reply", "set", "open", "refused", "failed"}
  /\ session \in Sessions /\ made \in Sessions
  /\ reply \in [key : Keys, start : Int32, index : Int32]
  /\ client \in [at : {"new", "await", "open"}, key : Keys, index : Int32]
  /\ up \in Seq(Packets) /\ down \in Seq(Keys)
  /\ msgs \in Nat /\ repeats \in Nat /\ passed \in Seq(Nat)

\* Each side reads a pack with the key the other wrote it with, across the
\* switch to encryption in the handshake: the reply is written before the
\* session is set, the client may answer before it is set, and pushes may
\* overtake nothing.
KeysAgree ==
  /\ worker = "open" => \A i \in DOMAIN up : up[i].key = session.key
  /\ down # <<>> => Head(down) = client.key

\* With encryption a message that the client sends twice is passed on once;
\* in every deployment the messages of a client that repeats none are passed
\* on in order, without a gap.
PassedOnce ==
  encrypted \/ repeats = 0 => passed = [i \in 1..Len(passed) |-> i]

\* A client that counts as the handshake told it to is refused for its index
\* only at message 2^31, which an int32 no longer holds.
RefusedOnlyAtWrap ==
  worker = "refused" => repeats > 0 \/ session.cs = Half
==============================================================================
