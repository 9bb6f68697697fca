--------------------------- MODULE SessionNetwork ---------------------------
(***************************************************************************)
(* Client and device sessions over a network that loses, delays, repeats,  *)
(* reorders, misdelivers and damages packets: any packet ever sent may     *)
(* reach any session at any time, any number of times, or never.           *)
(*                                                                         *)
(* A new connection is a new session at each end, so several sessions of   *)
(* one client also stand for its reconnections.                            *)
(***************************************************************************)
EXTENDS Session

CONSTANT NoPeer

VARIABLES
  session,        \* the Session of every name
  network,        \* every packet ever sent
  peer,           \* history: the peer of each HandshakeComplete event
  served,         \* history: the commands of the Request events of each device session
  received        \* history: the Response events of each client session

vars == <<session, network, peer, served, received>>

Clients == {n \in Names : Roles[n] = "initiator"}
Devices == {n \in Names : Roles[n] = "responder"}

Init ==
  /\ session = [n \in Names |-> NewSession(n)]
  /\ network = {}
  /\ peer = [n \in Names |-> NoPeer]
  /\ served = [d \in Devices |-> <<>>]
  /\ received = [c \in Clients |-> <<>>]

-----------------------------------------------------------------------------
(* What the applications do.                                               *)

(* start on a session closed before it began sends nothing, yet counts.    *)
Start(c) ==
  LET s == session[c] IN
  /\ CanStart(s)
  /\ session' = [session EXCEPT ![c] = Started(s)]
  /\ network' = network \cup (IF CanWrite(s.channel) THEN {HandshakePacket(s)} ELSE {})
  /\ UNCHANGED <<peer, served, received>>

Send(c, command) ==
  LET s == session[c] IN
  /\ CanSend(s, command)
  /\ session' = [session EXCEPT ![c] = Sent(s, command)]
  /\ network' = network \cup {Packet(s, "Request", s.next_request, command)}
  /\ UNCHANGED <<peer, served, received>>

Respond(d, id, r) ==
  LET s == session[d] IN
  /\ CanRespond(s, id, r)
  /\ session' = [session EXCEPT ![d] = Responded(s, id)]
  /\ network' = network \cup {Packet(s, "Response", id, r)}
  /\ UNCHANGED <<peer, served, received>>

(* The connection is lost, or the host ends the session.                   *)
Close(n) ==
  /\ session[n].channel.state # "Closed"
  /\ session' = [session EXCEPT ![n] = CloseSession(@)]
  /\ UNCHANGED <<network, peer, served, received>>

-----------------------------------------------------------------------------
(* receive, with the events it hands to the application.                   *)

Deliver(n, p) ==
  LET s == session[n]
      ok == Receivable(s, p)
      body == p.payload.body
  IN /\ session' = [session EXCEPT ![n] = Received(s, p)]
     /\ network' = network \cup Reply(s, p)
     /\ peer' = IF ok /\ p.kind = "Handshake"
                THEN [peer EXCEPT ![n] = Peer(session'[n].channel)] ELSE peer
     /\ served' = IF ok /\ p.kind = "Request"
                  THEN [served EXCEPT ![n] = Append(@, body.value)] ELSE served
     /\ received' = IF ok /\ p.kind = "Response"
                    THEN [received EXCEPT ![n] = Append(@, [id |-> p.id, response |-> body.value])]
                    ELSE received

Next ==
  \/ \E c \in Clients : Start(c) \/ \E command \in Commands : Send(c, command)
  \/ \E d \in Devices, id \in Ids, r \in Responses : Respond(d, id, r)
  \/ \E n \in Names : Close(n)
  \/ \E n \in Names : \E p \in Arriving(session[n], network) : Deliver(n, p)

Spec == Init /\ [][Next]_vars

-----------------------------------------------------------------------------
(* Properties.                                                             *)

(* Every session keeps a value of its type, at any point of a connection.  *)
TypeOK ==
  /\ session \in [Names -> Sessions]
  /\ peer \in [Names -> Names \cup {NoPeer}]
  /\ \A d \in Devices : served[d] \in Seq(Commands)
  /\ \A c \in Clients : received[c] \in Seq([id : Ids, response : Responses])

IsOpen(n) == session[n].channel.state # "Closed"

(* A request the device still has to answer is one the client still waits  *)
(* for, with the same opcode, as long as the client has not closed: no     *)
(* loss or repetition of packets makes the two tables disagree             *)
(* (receive_inner, send, respond).                                         *)
PendingAgree ==
  \A c \in Clients, d \in Devices :
    peer[c] = d /\ peer[d] = c /\ IsOpen(c) =>
      \A id \in Waiting(session[d]) :
        /\ id \in Waiting(session[c])
        /\ session[c].pending_requests[id] = session[d].pending_requests[id]

(* Two well-behaved ends never close on each other: a packet that arrives  *)
(* whole and in its turn is accepted, even with both tables full, unless   *)
(* it asks for what the device does not offer.                             *)
InTurnIsAccepted ==
  \A n \in Names, p \in network :
    /\ IsOpen(n) /\ CanRead(session[n].channel, p.payload)
    /\ p.kind = "Request" => p.payload.body.value.op \in Capabilities[n]
    => Receivable(session[n], p)

-----------------------------------------------------------------------------
(* The abstract channel these sessions implement.  What was asked and      *)
(* answered is what the network carries, in the order of the nonces.       *)

Carried(n, kind) ==
  {p \in network : p.kind = kind /\ p.payload.from = n}
InOrder(n, kind) ==
  LET S == Carried(n, kind) IN
  [i \in 1..Cardinality(S) |-> CHOOSE p \in S : p.payload.nonce = i]

Promise ==
  INSTANCE RequestChannel WITH
    Window <- MAX_PENDING_REQUESTS,
    open <- {n \in Names : IsOpen(n)},
    asked <- [c \in Clients |-> LET q == InOrder(c, "Request") IN
                [i \in DOMAIN q |-> q[i].payload.body.value]],
    answered <- [d \in Devices |-> LET q == InOrder(d, "Response") IN
                  [i \in DOMAIN q |-> [id |-> q[i].id, response |-> q[i].payload.body.value]]]

(* Sessions implement RequestChannel over this network: in order, at most  *)
(* once, unaltered, matched to its request, and nothing after a close      *)
(* (Session::receive, send, respond).                                      *)
KeepsPromise == Promise!Spec
=============================================================================
