--------------------------- MODULE RequestChannel ---------------------------
(***************************************************************************)
(* What a pair of sessions promises to the application, whatever happens   *)
(* to packets: a device session serves a client's requests in the order    *)
(* they were asked, none twice and none altered; a client receives the     *)
(* device's answers in the order they were given, each to a request it     *)
(* asked and of the kind it asked; and an end that closed does nothing     *)
(* more.  Either end may stop being served at any time.                    *)
(*                                                                         *)
(* The id of a request is its place in the sequence of its session.        *)
(***************************************************************************)
EXTENDS Naturals, Sequences

CONSTANTS Clients, Devices, NoPeer, Commands, Responses, Window

VARIABLES
  open,           \* the sessions that have not closed
  peer,           \* whom a session talks to, once its handshake is complete
  asked,          \* commands sent by each client
  served,         \* commands delivered to each device
  answered,       \* answers given by each device, [id, response]
  received        \* answers delivered to each client

channelVars == <<open, peer, asked, served, answered, received>>

Init ==
  /\ open = Clients \cup Devices
  /\ peer = [s \in Clients \cup Devices |-> NoPeer]
  /\ asked = [c \in Clients |-> <<>>]
  /\ served = [d \in Devices |-> <<>>]
  /\ answered = [d \in Devices |-> <<>>]
  /\ received = [c \in Clients |-> <<>>]

(* The device completes its side first; several of its sessions may have   *)
(* heard of one client, and the client joins one of them.                  *)
Meet(d, c) ==
  /\ d \in open /\ peer[d] = NoPeer
  /\ peer' = [peer EXCEPT ![d] = c]
  /\ UNCHANGED <<open, asked, served, answered, received>>

Join(c, d) ==
  /\ c \in open /\ peer[c] = NoPeer /\ peer[d] = c
  /\ peer' = [peer EXCEPT ![c] = d]
  /\ UNCHANGED <<open, asked, served, answered, received>>

Ask(c, command) ==
  /\ c \in open /\ peer[c] # NoPeer
  /\ Len(asked[c]) - Len(received[c]) < Window
  /\ asked' = [asked EXCEPT ![c] = Append(@, command)]
  /\ UNCHANGED <<open, peer, served, answered, received>>

Serve(d) ==
  /\ d \in open
  /\ \E c \in Clients :
       /\ peer[d] = c /\ peer[c] = d
       /\ Len(served[d]) < Len(asked[c])
       /\ served' = [served EXCEPT ![d] = Append(@, asked[c][Len(@) + 1])]
  /\ UNCHANGED <<open, peer, asked, answered, received>>

Answer(d, id, r) ==
  /\ d \in open
  /\ id \in 1..Len(served[d]) /\ served[d][id].op = r.op
  /\ \A i \in 1..Len(answered[d]) : answered[d][i].id # id
  /\ answered' = [answered EXCEPT ![d] = Append(@, [id |-> id, response |-> r])]
  /\ UNCHANGED <<open, peer, asked, served, received>>

Receive(c) ==
  /\ c \in open
  /\ \E d \in Devices :
       /\ peer[c] = d
       /\ Len(received[c]) < Len(answered[d])
       /\ received' = [received EXCEPT ![c] = Append(@, answered[d][Len(@) + 1])]
  /\ UNCHANGED <<open, peer, asked, served, answered>>

Close(s) ==
  /\ open' = open \ {s}
  /\ UNCHANGED <<peer, asked, served, answered, received>>

Next ==
  \/ \E c \in Clients, d \in Devices : Meet(d, c) \/ Join(c, d)
  \/ \E c \in Clients, command \in Commands : Ask(c, command)
  \/ \E d \in Devices : Serve(d) \/ \E id \in 1..Len(served[d]), r \in Responses : Answer(d, id, r)
  \/ \E c \in Clients : Receive(c)
  \/ \E s \in Clients \cup Devices : Close(s)

Spec == Init /\ [][Next]_channelVars
=============================================================================
