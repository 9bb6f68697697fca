----------------------------- MODULE FfiSession -----------------------------
(***************************************************************************)
(* The C ABI of a session (crates/openlock-ffi/src/lib.rs).  A handle      *)
(* keeps the event and the reply of a received packet until the caller     *)
(* takes them; the other calls write their packet to the caller's buffer.  *)
(* A buffer is large enough for what the call has to say, or too short.    *)
(*                                                                         *)
(* MAX_EVENT_SIZE leaves room for any event of a packet that fits          *)
(* MAX_MESSAGE_SIZE, so the encoding of an event does not fail here.       *)
(***************************************************************************)
EXTENDS Session

CONSTANT NoPeer

VARIABLES
  handle,     \* the OpenLockSession of every name: inner, events, output
  freed,      \* the handles the caller has freed
  network,    \* every packet a caller was given
  taken       \* history: the events each caller was given

vars == <<handle, freed, network, taken>>

Clients == {n \in Names : Roles[n] = "initiator"}
Devices == {n \in Names : Roles[n] = "responder"}
Buffers == {"short", "enough"}

(* openlock_session_initiator, openlock_session_responder                  *)
Init ==
  /\ handle = [n \in Names |-> [inner |-> NewSession(n), events |-> <<>>, output |-> {}]]
  /\ freed = {}
  /\ network = {}
  /\ taken = [n \in Names |-> <<>>]

Alive(n) == n \notin freed

-----------------------------------------------------------------------------
(* Mutant: the session writes before the size of the buffer is known.      *)
CopiesAfterWrite(n, buffer, written, packets) ==
  /\ handle' = [handle EXCEPT ![n].inner = written]
  /\ network' = network \cup (IF buffer = "enough" THEN packets ELSE {})
  /\ UNCHANGED <<freed, taken>>

(* The calls that size their packet first: a short buffer changes nothing. *)
Copies(n, buffer, written, packets) ==
  /\ buffer = "enough"
  /\ handle' = [handle EXCEPT ![n].inner = written]
  /\ network' = network \cup packets
  /\ UNCHANGED <<freed, taken>>

Start(n, buffer) ==
  LET s == handle[n].inner IN
  /\ Alive(n) /\ CanStart(s)
  /\ Copies(n, buffer, Started(s), IF CanWrite(s.channel) THEN {HandshakePacket(s)} ELSE {})

Send(n, command, buffer) ==
  LET s == handle[n].inner IN
  /\ Alive(n) /\ CanSend(s, command)
  /\ Copies(n, buffer, Sent(s, command), {Packet(s, "Request", s.next_request, command)})

Respond(n, id, r, buffer) ==
  LET s == handle[n].inner IN
  /\ Alive(n) /\ CanRespond(s, id, r)
  /\ Copies(n, buffer, Responded(s, id), {Packet(s, "Response", id, r)})

-----------------------------------------------------------------------------
(* receive and the calls that drain it.                                    *)

Busy(h) == h.output # {} \/ h.events # <<>>

(* event_bytes: the kind, the request id, the peer and the body.           *)
EventOf(s, p) ==
  LET body == p.payload.body
      peer == Peer(Accepts(s, p).channel)
  IN CASE p.kind = "Handshake" -> [kind |-> 1, id |-> 0, peer |-> peer, body |-> NoValue]
       [] p.kind = "Request" -> [kind |-> 2, id |-> p.id, peer |-> peer, body |-> body.value]
       [] p.kind = "Response" -> [kind |-> 3, id |-> p.id, peer |-> NoPeer, body |-> body.value]

Receive(n, p) ==
  LET h == handle[n]
      queued == IF Receivable(h.inner, p) THEN <<EventOf(h.inner, p)>> ELSE <<>>
  IN /\ Alive(n) /\ ~Busy(h)
     /\ handle' = [handle EXCEPT ![n] = [inner |-> Received(h.inner, p), events |-> h.events \o queued,
                                         output |-> Reply(h.inner, p)]]
     /\ UNCHANGED <<freed, network, taken>>

(* Mutant: the reply that was taken stays in the handle.                   *)
TakeOutputKept(n, buffer) ==
  LET h == handle[n] IN
  /\ Alive(n) /\ h.output # {}
  /\ buffer = "enough"
  /\ network' = network \cup h.output
  /\ UNCHANGED <<handle, freed, taken>>

TakeOutput(n, buffer) ==
  LET h == handle[n] IN
  /\ Alive(n) /\ h.output # {}
  /\ buffer = "enough"
  /\ network' = network \cup h.output
  /\ handle' = [handle EXCEPT ![n].output = {}]
  /\ UNCHANGED <<freed, taken>>

TakeEvent(n, buffer) ==
  LET h == handle[n] IN
  /\ Alive(n) /\ h.events # <<>>
  /\ buffer = "enough"
  /\ taken' = [taken EXCEPT ![n] = Append(@, Head(h.events))]
  /\ handle' = [handle EXCEPT ![n].events = Tail(@)]
  /\ UNCHANGED <<freed, network>>

(* What was not taken is lost with the handle; its record stays here only  *)
(* for the refinement below.                                               *)
Free(n) ==
  /\ Alive(n)
  /\ freed' = freed \cup {n}
  /\ UNCHANGED <<handle, network, taken>>
-----------------------------------------------------------------------------
(* The callers pass on what they were given; the transport may lose,       *)
(* repeat, reorder, misdeliver and damage it.                              *)
Next ==
  \/ \E n \in Names, buffer \in Buffers :
       \/ Start(n, buffer) \/ TakeOutput(n, buffer) \/ TakeEvent(n, buffer)
       \/ \E command \in Commands : Send(n, command, buffer)
       \/ \E id \in Ids, r \in Responses : Respond(n, id, r, buffer)
  \/ \E n \in Names : Free(n) \/ \E p \in Arriving(handle[n].inner, network) : Receive(n, p)

Spec == Init /\ [][Next]_vars

(* Callers that drain what receive left, deliver the packets in their turn *)
(* and answer every request they took.                                     *)
LiveSpec ==
  /\ Spec
  /\ \A n \in Names :
       /\ WF_vars(TakeOutput(n, "enough")) /\ WF_vars(TakeEvent(n, "enough"))
       /\ WF_vars(\E p \in network : CanRead(handle[n].inner.channel, p.payload) /\ Receive(n, p))
       /\ \A id \in Ids : WF_vars(\E r \in Responses : Respond(n, id, r, "enough"))

-----------------------------------------------------------------------------
(* Properties.                                                             *)

(* All events of a session, taken or waiting, and what they say.           *)
Events(n) == taken[n] \o handle[n].events
OfKind(n, kind) == SelectSeq(Events(n), LAMBDA e : e.kind = kind)
PeerOf(n) == LET q == OfKind(n, 1) IN IF q = <<>> THEN NoPeer ELSE q[1].peer
Inner(n) == IF Alive(n) THEN handle[n].inner ELSE CloseSession(handle[n].inner)

Net == INSTANCE SessionNetwork WITH
  session <- [n \in Names |-> Inner(n)],
  network <- network \cup UNION {handle[n].output : n \in Names},
  peer <- [n \in Names |-> PeerOf(n)],
  served <- [d \in Devices |-> LET q == OfKind(d, 2) IN [i \in DOMAIN q |-> q[i].body]],
  received <- [c \in Clients |-> LET q == OfKind(c, 3) IN
                 [i \in DOMAIN q |-> [id |-> q[i].id, response |-> q[i].body]]]

(* The C ABI is the session layer: whatever buffers and draining order the *)
(* caller chooses, no packet and no event is lost, repeated or reordered   *)
(* on its way through the handle.                                          *)
ImplementsSessions == Net!Spec

(* The two tables of pending requests agree while events and replies wait  *)
(* in the handles (send, respond, receive_inner).                          *)
PendingAgree == Net!PendingAgree

(* Two well-behaved callers never make the sessions close on each other,   *)
(* even with both tables full and whatever order they drain in.            *)
InTurnIsAccepted == Net!InTurnIsAccepted

(* The answer to every request reaches the caller that asked, unless one   *)
(* of the ends closes or is freed: no order of draining leaves a handle    *)
(* that receives nothing more.                                             *)
AnswersReachCaller ==
  \A c \in Clients, d \in Devices : \A id \in Ids :
    (PeerOf(c) = d /\ id \in Waiting(Inner(c)))
      ~> \/ \E i \in 1..Len(taken[c]) : taken[c][i].kind = 3 /\ taken[c][i].id = id
         \/ \E n \in {c, d} : Inner(n).channel.state = "Closed"
=============================================================================
