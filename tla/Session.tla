------------------------------- MODULE Session -------------------------------
(***************************************************************************)
(* Session (crates/openlock-protocol/src/lib.rs): one end of an encrypted  *)
(* request/response channel, as operators from a session record to the     *)
(* next.  A command is an opcode with an argument, a response an opcode    *)
(* with a result; a capability mask is the set of opcodes it holds.        *)
(* Objects too large to encode are refused before anything changes and are *)
(* not enumerated.                                                         *)
(***************************************************************************)
EXTENDS NoiseChannel, FiniteSets

CONSTANTS
  Commands,               \* commands the client may send, [op, arg]
  Results,                \* results the device may answer with
  Capabilities,           \* capability mask of each session
  MAX_PENDING_REQUESTS,   \* 1024
  MaxRequestId            \* u32::MAX

Opcodes == {c.op : c \in Commands}
Responses == [op : Opcodes, result : Results]
Kinds == {"Handshake", "Request", "Response"}
Ids == 0..MaxRequestId
NoValue == [op |-> "None"]

ASSUME SessionAssumption ==
  /\ Roles \in [DOMAIN Roles -> {"initiator", "responder"}]
  /\ Capabilities \in [DOMAIN Roles -> SUBSET Opcodes \ {{}}]
  /\ MAX_PENDING_REQUESTS \in Nat \ {0} /\ MaxRequestId \in Nat \ {0}

(* pending_requests maps the ids waiting for an answer to their opcodes.   *)
Sessions ==
  [started : BOOLEAN, next_request : Ids, last_request_id : Ids,
   pending_requests : UNION {[S -> Opcodes] : S \in SUBSET Ids}, channel : Channel]

NewSession(n) ==
  [started |-> FALSE, next_request |-> 1, last_request_id |-> 0,
   pending_requests |-> [i \in {} |-> {}], channel |-> NewChannel(n)]

Role(s) == Roles[s.channel.name]
Mask(s) == Capabilities[s.channel.name]
Waiting(s) == DOMAIN s.pending_requests

Insert(f, i, op) == [j \in DOMAIN f \cup {i} |-> IF j = i THEN op ELSE f[j]]
Remove(f, i) == [j \in DOMAIN f \ {i} |-> f[j]]

CloseSession(s) ==
  [s EXCEPT !.channel = CloseChannel(@), !.pending_requests = [i \in {} |-> {}]]

-----------------------------------------------------------------------------
(* Packets.  The outer header repeats what the authenticated body says.    *)

HandshakePacket(s) ==
  [kind |-> "Handshake", id |-> 0, mask |-> {}, payload |-> Ciphertext(s.channel, NoValue)]

Packet(s, kind, id, value) ==
  [kind |-> kind, id |-> id, mask |-> Mask(s),
   payload |-> Ciphertext(s.channel,
                          [kind |-> kind, id |-> id, mask |-> Mask(s), value |-> value])]

(* Packet::validate                                                        *)
ValidPacket(p) ==
  IF p.kind = "Handshake" THEN p.id = 0 /\ p.mask = {} ELSE p.id # 0 /\ p.mask # {}

-----------------------------------------------------------------------------
(* start, send and respond.                                                *)

CanStart(s) == Role(s) = "initiator" /\ ~s.started
Started(s) ==
  [s EXCEPT !.started = TRUE, !.channel = IF CanWrite(@) THEN Written(@) ELSE @]

(* Mutant: the counter of ids may run over.                                *)
CanSendAnyId(s, c) ==
  /\ Role(s) = "initiator" /\ is_transport(s.channel)
  /\ c.op \in Mask(s)
  /\ Cardinality(Waiting(s)) < MAX_PENDING_REQUESTS

(* send: request_size makes the same checks first.  The last id is never   *)
(* used: the counter must be able to move on.                              *)
CanSend(s, c) ==
  /\ Role(s) = "initiator" /\ is_transport(s.channel)
  /\ c.op \in Mask(s)
  /\ Cardinality(Waiting(s)) < MAX_PENDING_REQUESTS
  /\ s.next_request < MaxRequestId
Sent(s, c) ==
  [s EXCEPT !.next_request = @ + 1, !.channel = Written(@),
            !.pending_requests = Insert(@, s.next_request, c.op)]

(* Mutant: the answer fits some request that is waiting.                   *)
CanRespondToAny(s, id, r) ==
  /\ Role(s) = "responder" /\ is_transport(s.channel)
  /\ id \in Waiting(s) /\ \E i \in Waiting(s) : s.pending_requests[i] = r.op
  /\ r.op \in Mask(s)

CanRespond(s, id, r) ==
  /\ Role(s) = "responder" /\ is_transport(s.channel)
  /\ id \in Waiting(s) /\ s.pending_requests[id] = r.op
  /\ r.op \in Mask(s)

(* Mutant: the answered request stays pending.                             *)
RespondedStillPending(s, id) == [s EXCEPT !.channel = Written(@)]

Responded(s, id) ==
  [s EXCEPT !.channel = Written(@), !.pending_requests = Remove(@, id)]

-----------------------------------------------------------------------------
(* receive.                                                                *)

(* The checks on the outer header, made before anything is decrypted.      *)
Expects(s, p) ==
  /\ ValidPacket(p)
  /\ s.started = (p.kind # "Handshake" \/ Role(s) = "initiator")
  /\ p.kind = "Request" => Role(s) = "responder" /\ p.id > s.last_request_id
  /\ p.kind = "Response" => Role(s) = "initiator" /\ p.id \in Waiting(s)
  /\ p.kind # "Handshake" => is_transport(s.channel)

Authenticates(s, p) ==
  /\ CanRead(s.channel, p.payload)
  /\ LET b == p.payload.body IN
     IF p.kind = "Handshake" THEN b = NoValue
     ELSE b # NoValue /\ b.kind = p.kind /\ b.id = p.id /\ b.mask = p.mask

(* Mutant: the device's table is one smaller than the client's.            *)
AdmitsOneLess(s, p) ==
  LET v == p.payload.body.value IN
  /\ p.kind = "Request" => /\ v.op \in p.mask /\ v.op \in Mask(s)
                           /\ Cardinality(Waiting(s)) < MAX_PENDING_REQUESTS - 1
  /\ p.kind = "Response" => v.op = s.pending_requests[p.id] /\ v.op \in p.mask

(* What the body must be, given what this end supports and waits for.      *)
Admits(s, p) ==
  LET v == p.payload.body.value IN
  /\ p.kind = "Request" => /\ v.op \in p.mask /\ v.op \in Mask(s)
                           /\ Cardinality(Waiting(s)) < MAX_PENDING_REQUESTS
  /\ p.kind = "Response" => v.op = s.pending_requests[p.id] /\ v.op \in p.mask

Receivable(s, p) == Expects(s, p) /\ Authenticates(s, p) /\ Admits(s, p)

(* The session after a packet that is accepted; the responder has already  *)
(* written its half of the handshake.                                      *)
Handshaken(s, p) ==
  LET r == [s EXCEPT !.started = TRUE, !.channel = Read(@, p.payload)] IN
  IF Role(s) = "responder" THEN [r EXCEPT !.channel = Written(@)] ELSE r

Requested(s, p) ==
  [s EXCEPT !.channel = Read(@, p.payload), !.last_request_id = p.id,
            !.pending_requests = Insert(@, p.id, p.payload.body.value.op)]

Answered(s, p) ==
  [s EXCEPT !.channel = Read(@, p.payload), !.pending_requests = Remove(@, p.id)]

Accepts(s, p) ==
  CASE p.kind = "Handshake" -> Handshaken(s, p)
    [] p.kind = "Request" -> Requested(s, p)
    [] p.kind = "Response" -> Answered(s, p)

(* receive: an error of any kind closes the session.                       *)
Received(s, p) == IF Receivable(s, p) THEN Accepts(s, p) ELSE CloseSession(s)

(* The responder's reply to a handshake message.                           *)
Reply(s, p) ==
  IF Receivable(s, p) /\ p.kind = "Handshake" /\ Role(s) = "responder"
  THEN {HandshakePacket([s EXCEPT !.channel = Read(@, p.payload)])} ELSE {}

-----------------------------------------------------------------------------
(* The transport below (external).                                         *)

(* A packet damaged on its way: one field of the header, or the payload.   *)
Damaged(p) ==
  {[p EXCEPT !.kind = k] : k \in Kinds} \cup {[p EXCEPT !.id = i] : i \in Ids}
    \cup {[p EXCEPT !.mask = m] : m \in SUBSET Opcodes} \cup {[p EXCEPT !.payload.transcript = <<>>]}

(* What may arrive at a session when these packets have been sent.  All    *)
(* packets it refuses have one effect, so one stands for them.             *)
Arriving(s, packets) ==
  LET all == packets \cup UNION {Damaged(p) : p \in packets}
      good == {p \in all : Receivable(s, p)}
  IN good \cup (IF good = all THEN {} ELSE {CHOOSE p \in all : p \notin good})
=============================================================================
