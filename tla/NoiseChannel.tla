---------------------------- MODULE NoiseChannel ----------------------------
(***************************************************************************)
(* One end of a Noise channel (crates/openlock-crypto/src/noise.rs).  The  *)
(* cipher is a library; what it promises is external: a handshake message  *)
(* can be read only by an end whose transcript it continues, a transport   *)
(* message only by the other end of the same transcript and only as the    *)
(* next one.                                                               *)
(*                                                                         *)
(* A transcript names the ephemeral keys exchanged so far.  Every end has  *)
(* an ephemeral key of its own, the name of its session.                   *)
(***************************************************************************)
EXTENDS Naturals, Sequences

CONSTANT Roles    \* the role, "initiator" or "responder", of every session name

States == {"Handshake", "Transport", "Closed"}
Names == DOMAIN Roles
Channel == [name : Names, state : States, transcript : Seq(Names), sent : Nat, read : Nat]

(* initiator, responder                                                    *)
NewChannel(n) ==
  [name |-> n, state |-> "Handshake", transcript |-> <<>>, sent |-> 0, read |-> 0]

is_transport(ch) == ch.state = "Transport"
CloseChannel(ch) == [ch EXCEPT !.state = "Closed", !.transcript = <<>>, !.sent = 0, !.read = 0]

(* Handshake messages alternate; the initiator begins.                     *)
Writes(ch) == Roles[ch.name] = IF Len(ch.transcript) = 0 THEN "initiator" ELSE "responder"

finish_handshake(ch) ==
  IF ch.state = "Handshake" /\ Len(ch.transcript) = 2 THEN [ch EXCEPT !.state = "Transport"]
  ELSE ch

(* write: the message, and the channel after it.  Only in turn, and not    *)
(* once closed.                                                            *)
CanWrite(ch) == ch.state = "Transport" \/ (ch.state = "Handshake" /\ Writes(ch))

Ciphertext(ch, body) ==
  IF ch.state = "Handshake"
  THEN [transcript |-> Append(ch.transcript, ch.name), from |-> ch.name, nonce |-> 0, body |-> body]
  ELSE [transcript |-> ch.transcript, from |-> ch.name, nonce |-> ch.sent + 1, body |-> body]

Written(ch) ==
  IF ch.state = "Handshake"
  THEN finish_handshake([ch EXCEPT !.transcript = Append(@, ch.name)])
  ELSE [ch EXCEPT !.sent = @ + 1]

(* read: what the library accepts.  Anything else closes the channel.      *)
CanRead(ch, msg) ==
  /\ Roles[msg.from] # Roles[ch.name]
  /\ \/ /\ ch.state = "Handshake" /\ ~Writes(ch)
        /\ msg.nonce = 0
        /\ msg.transcript = Append(ch.transcript, msg.from)
     \/ /\ ch.state = "Transport"
        /\ msg.transcript = ch.transcript /\ msg.nonce = ch.read + 1

Read(ch, msg) ==
  IF ch.state = "Handshake" THEN finish_handshake([ch EXCEPT !.transcript = msg.transcript])
  ELSE [ch EXCEPT !.read = @ + 1]

(* peer_static: the other end, once a message of it has been read.         *)
Peer(ch) ==
  CHOOSE n \in Names : n # ch.name /\ \E i \in 1..Len(ch.transcript) : ch.transcript[i] = n
=============================================================================
