----------------------------- MODULE SocketLayer -----------------------------
(***************************************************************************)
(* The part of the operating system that src/communication/ uses: the      *)
(* descriptor table of the process and stream sockets of one address.      *)
(* This is external code, modelled from the calls made to it and from what *)
(* they may answer.  A layer is a record                                   *)
(*   files    the socket behind every descriptor, NoSocket for a free one, *)
(*            OtherFile for one that is no socket of this program part     *)
(*   sockets  all sockets ever made, by number                             *)
(* and a socket is a record                                                *)
(*   state    "fresh", "connecting", "connected", "listening" or "stopped" *)
(*   shut     whether it was shut down                                     *)
(*   peer     the socket at the other end of the connection                *)
(*   inbox    the bytes that arrived and were not received                 *)
(*   backlog  the connections of a listening socket nobody accepted yet    *)
(***************************************************************************)
EXTENDS Integers, SequencesExt

CONSTANTS
  Descriptors,   \* descriptors the process may have open at a time
  Foreign,       \* sets of descriptors that other parts of it may hold
  Capacity,      \* bytes that fit between two ends of a connection
  Backlog,       \* connections that wait for accept, 4 in listen(2)'s call
  MaxSockets     \* bound: sockets a behaviour makes

ASSUME LayerAssumption ==
  /\ Descriptors \subseteq Nat /\ Foreign \subseteq SUBSET Descriptors
  /\ Capacity \in Nat \ {0} /\ Backlog \in Nat \ {0} /\ MaxSockets \in Nat

NoSocket  == 0
OtherFile == MaxSockets + 1

EmptyLayer(foreign) ==
  [files   |-> [d \in Descriptors |-> IF d \in foreign THEN OtherFile ELSE NoSocket],
   sockets |-> <<>>]

NewSocket(state, peer) ==
  [state |-> state, shut |-> FALSE, peer |-> peer, inbox |-> <<>>,
   backlog |-> <<>>]

FreeDescriptors(layer) == {d \in Descriptors : layer.files[d] = NoSocket}

IsTableFull(layer) == FreeDescriptors(layer) = {}

(* The least descriptor not in use is the next one. *)
NextDescriptor(layer) ==
  CHOOSE d \in FreeDescriptors(layer) : \A f \in FreeDescriptors(layer) : d <= f

MayMakeSocket(layer) == Len(layer.sockets) < MaxSockets

(* socket(2) on a table that is not full. *)
WithSocket(layer, state) ==
  [files   |-> [layer.files EXCEPT ![NextDescriptor(layer)] =
                                     Len(layer.sockets) + 1],
   sockets |-> Append(layer.sockets, NewSocket(state, NoSocket))]

Numbers(layer) == DOMAIN layer.sockets

Listening(layer) == {s \in Numbers(layer) : layer.sockets[s].state = "listening"}

(***************************************************************************)
(* The address answers a socket that is connecting: the other end is made  *)
(* and waits to be accepted, or the connection is refused.  Nothing        *)
(* answers when the queue is full, or when the address does not exist.     *)
(***************************************************************************)
Answered(layer, s, l) ==
  LET other    == Len(layer.sockets) + 1
      caller   == [layer.sockets[s] EXCEPT !.state = "connected", !.peer = other]
      listener == [layer.sockets[l] EXCEPT !.backlog = Append(@, other)]
  IN  [layer EXCEPT !.sockets =
         Append([@ EXCEPT ![s] = caller, ![l] = listener],
                NewSocket("connected", s))]

Refused(layer, s) == [layer EXCEPT !.sockets[s].state = "fresh"]

(* accept(2) takes the first connection of the queue. *)
WithAccepted(layer, l) ==
  [files   |-> [layer.files EXCEPT ![NextDescriptor(layer)] =
                                     Head(layer.sockets[l].backlog)],
   sockets |-> [layer.sockets EXCEPT ![l].backlog = Tail(@)]]

(***************************************************************************)
(* shutdown(2) of both directions.  A listening socket drops the           *)
(* connections that wait, a connecting one gives up.  A fresh one answers  *)
(* ENOTCONN; whether it stays shut when it is connected later depends on   *)
(* the system.                                                             *)
(***************************************************************************)
ShutDown(layer, dead) ==
  [layer EXCEPT !.sockets =
     [s \in DOMAIN @ |-> IF s \in dead THEN [@[s] EXCEPT !.shut = TRUE] ELSE @[s]]]

Stopped(layer, s) ==
  [layer EXCEPT !.sockets[s].state = "stopped", !.sockets[s].backlog = <<>>]

AfterShutdown(layer, s) ==
  LET socket == layer.sockets[s]
  IN  CASE socket.state = "listening" ->
             {Stopped(ShutDown(layer, ToSet(socket.backlog)), s)}
        [] socket.state = "connecting" -> {Refused(layer, s)}
        [] socket.state = "fresh"      -> {layer, ShutDown(layer, {s})}
        [] OTHER                       -> {ShutDown(layer, {s})}

(* close(2) of a descriptor whose socket was shut down before. *)
WithoutFile(layer, d) == [layer EXCEPT !.files[d] = NoSocket]

(* The bytes of an ended connection are gone, or its first ones arrived. *)
HasEnded(layer, s) ==
  layer.sockets[s].shut \/ layer.sockets[layer.sockets[s].peer].shut

Room(layer, s) == Capacity - Len(layer.sockets[layer.sockets[s].peer].inbox)

WithBytes(layer, s, bytes) ==
  [layer EXCEPT !.sockets[layer.sockets[s].peer].inbox = @ \o bytes]

WithoutBytes(layer, s, n) ==
  [layer EXCEPT !.sockets[s].inbox = SubSeq(@, n + 1, Len(@))]
=============================================================================
