------------------------------ MODULE FrameLink ------------------------------
(***************************************************************************)
(* One direction of a connection: a sender whose codec cuts messages into  *)
(* frames, a link that carries them in order unless something goes wrong,  *)
(* and a receiver whose codec puts them together.  When the connection is  *)
(* lost the frames under way are lost with it and the hosts reset their    *)
(* codecs; the sender's numbering goes on.                                 *)
(*                                                                         *)
(* The codec is given by the constants, as FrameCodec is a trait.          *)
(***************************************************************************)
EXTENDS Naturals, Sequences, SequencesExt

CONSTANTS
  NewCodec, CanEncode(_), Frames(_, _), Encoded(_, _), Push(_, _), Reset(_), SetMtu(_, _),
  Mtus,           \* what a connection may negotiate
  Messages,       \* messages the sender may send
  Foreign,        \* frames no sender of this connection made
  Tolerated,      \* the faults after which a message is still whole or not delivered
  MaxMessages,    \* messages per connection; fewer than there are message ids
  MaxFaults       \* faults per connection

VARIABLES
  sender, receiver,   \* the two codecs
  mtu,                \* what the hosts have negotiated
  link,               \* frames under way, in order
  carried,            \* history: frames sent over this connection
  sent, delivered,    \* history: messages sent over and got from this connection
  refused,            \* history: a push of this connection has failed
  faults              \* what has gone wrong on this connection

vars == <<sender, receiver, mtu, link, carried, sent, delivered, refused, faults>>

Init ==
  /\ mtu \in Mtus
  /\ sender = SetMtu(NewCodec, mtu) /\ receiver = SetMtu(NewCodec, mtu)
  /\ link = <<>> /\ carried = {} /\ sent = <<>> /\ delivered = <<>>
  /\ refused = FALSE /\ faults = <<>>

Send(m) ==
  /\ CanEncode(m) /\ Len(sent) < MaxMessages
  /\ sender' = Encoded(sender, m)
  /\ link' = link \o Frames(sender, m)
  /\ carried' = carried \cup Range(Frames(sender, m))
  /\ sent' = Append(sent, m)
  /\ UNCHANGED <<receiver, mtu, delivered, refused, faults>>

Arrive ==
  /\ link # <<>>
  /\ LET pushed == Push(receiver, Head(link)) IN
     /\ receiver' = pushed.codec
     /\ delivered' = IF pushed.message = <<>> THEN delivered ELSE Append(delivered, pushed.message)
     /\ refused' = (refused \/ ~pushed.ok)
  /\ link' = Tail(link)
  /\ UNCHANGED <<sender, mtu, carried, sent, faults>>

(* The hosts agree on a larger MTU while frames are under way.             *)
Negotiate(n) ==
  /\ n > mtu
  /\ mtu' = n
  /\ sender' = SetMtu(sender, n) /\ receiver' = SetMtu(receiver, n)
  /\ UNCHANGED <<link, carried, sent, delivered, refused, faults>>

Goes(fault, frames) ==
  /\ Len(faults) < MaxFaults
  /\ faults' = Append(faults, fault)
  /\ link' = frames
  /\ UNCHANGED <<sender, receiver, mtu, carried, sent, delivered, refused>>

Lose(i) == Goes("lost", RemoveAt(link, i))
Repeat(f) == Goes("repeated", Append(link, f))
Overtake(i) == i > 1 /\ Goes("reordered", <<link[i]>> \o RemoveAt(link, i))
Intrude(f) == Goes("foreign", <<f>> \o link)

(* The connection is lost, and another begins.                             *)
Reconnect(n) ==
  /\ mtu' = n
  /\ sender' = SetMtu(Reset(sender), n) /\ receiver' = SetMtu(Reset(receiver), n)
  /\ link' = <<>> /\ carried' = {} /\ sent' = <<>> /\ delivered' = <<>>
  /\ refused' = FALSE /\ faults' = <<>>

Next ==
  \/ \E m \in Messages : Send(m)
  \/ Arrive
  \/ \E n \in Mtus : Negotiate(n) \/ Reconnect(n)
  \/ \E i \in 1..Len(link) : Lose(i) \/ Overtake(i)
  \/ \E f \in carried : Repeat(f)
  \/ \E f \in Foreign : Intrude(f)

Spec == Init /\ [][Next]_vars

-----------------------------------------------------------------------------
(* Properties.                                                             *)

(* Whatever the receiver gets was sent over this connection, whole and     *)
(* unmixed, after every fault the codec is meant to stand (push, encode).  *)
MessagesAreWhole ==
  Range(faults) \subseteq Tolerated => Range(delivered) \subseteq Range(sent)

(* A connection on which nothing goes wrong delivers every message, in     *)
(* order and once, and refuses no frame, whatever happened on connections  *)
(* before it: a reset leaves nothing behind (push, reset, set_mtu).        *)
CleanConnectionDelivers ==
  faults = <<>> =>
    /\ IsPrefix(delivered, sent) /\ ~refused
    /\ link = <<>> => delivered = sent
=============================================================================
