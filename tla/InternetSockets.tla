--------------------------- MODULE InternetSockets ---------------------------
(***************************************************************************)
(* internet_socket_listener and internet_socket_connection over the socket *)
(* layer of the operating system, used by the threads of a program the way *)
(* the integration tests and the socket example use them.                  *)
(*                                                                         *)
(* Both classes keep a descriptor, socket_, and a flag: is_listening_ or   *)
(* is_connected_.  A call reads the flag and then enters the system, so    *)
(* another thread may close the object in between.  One thread at a time   *)
(* connects, sends, receives or accepts on an object, close and stop come  *)
(* from any thread ("This will immediately stop any call on that           *)
(* connection"), and an object is destroyed when nobody is in a call on    *)
(* it.                                                                     *)
(*                                                                         *)
(* Bytes are numbered in the order the program hands them to send.         *)
(***************************************************************************)
EXTENDS SocketLayer

CONSTANTS
  Threads,       \* the program's threads
  Listeners,     \* internet_socket_listener objects at a time
  Connections,   \* internet_socket_connection objects at a time
  NoObject,      \* what a thread outside of a call works on
  MessageSize,   \* bytes handed to one call of send
  MaxBytes       \* bound: bytes handed to send on one connection

ASSUME SocketsAssumption ==
  /\ Listeners \cap Connections = {} /\ NoObject \notin Listeners \cup Connections
  /\ MessageSize \in Nat \ {0} /\ MaxBytes \in Nat

VARIABLES
  layer,    \* the operating system's descriptors and sockets
  object,   \* the objects' members, with one name for the two flags
  op,       \* the call a thread is in, and the bytes it has still to send
  sent,     \* history: bytes handed to send, by socket
  got,      \* history: the buffer receive extended, by socket
  leaked,   \* history: descriptors that no object was made for
  killed    \* whether a signal ended the process

vars == <<layer, object, op, sent, got, leaked, killed>>

Objects == Listeners \cup Connections

NotThere == [exists |-> FALSE, flag |-> FALSE, socket_ |-> 0]

NewObject(flag, descriptor) ==
  [exists |-> TRUE, flag |-> flag, socket_ |-> descriptor]

Idle == [pc |-> "idle", on |-> NoObject, rest |-> <<>>]

Init ==
  /\ \E foreign \in Foreign : layer = EmptyLayer(foreign)
  /\ object = [o \in Objects |-> NotThere]
  /\ op = [t \in Threads |-> Idle]
  /\ sent = [s \in 1 .. MaxSockets |-> 0]
  /\ got = [s \in 1 .. MaxSockets |-> <<>>]
  /\ leaked = {}
  /\ killed = FALSE

-----------------------------------------------------------------------------
SocketOf(o) == layer.files[object[o].socket_]
Socket(o)   == layer.sockets[SocketOf(o)]

Callers(o) == {t \in Threads : op[t].on = o}

IsIdle(t) == ~killed /\ op[t].pc = "idle"

MayCall(t, o) ==
  /\ IsIdle(t)
  /\ object[o].exists
  /\ \A u \in Callers(o) : op[u].pc = "close"

In(t, pc) == ~killed /\ op[t].pc = pc

Enter(t, pc, o)  == op' = [op EXCEPT ![t] = [pc |-> pc, on |-> o, rest |-> <<>>]]
Return(t)        == op' = [op EXCEPT ![t] = Idle]

-----------------------------------------------------------------------------
(***************************************************************************)
(* listen: the descriptor stays open when the host is no address, or when  *)
(* bind or listen fails because another socket listens there already.      *)
(***************************************************************************)
Listen(t, l, valid) ==
  /\ IsIdle(t)
  /\ ~object[l].exists
  /\ MayMakeSocket(layer) /\ ~IsTableFull(layer)
  /\ \/ /\ valid /\ Listening(layer) = {}
        /\ layer' = WithSocket(layer, "listening")
        /\ object' = [object EXCEPT ![l] =
                        NewObject(TRUE, NextDescriptor(layer))]
        /\ UNCHANGED leaked
     \/ /\ ~valid \/ Listening(layer) # {}
        /\ layer' = WithSocket(layer, "fresh")
        /\ leaked' = leaked \cup {NextDescriptor(layer)}
        /\ UNCHANGED object
  /\ UNCHANGED <<op, sent, got, killed>>

(***************************************************************************)
(* internet_socket_connection::create: no object for a host that is no     *)
(* address, and the descriptor stays open.  Which of the model's names a   *)
(* new object gets makes no difference.                                    *)
(***************************************************************************)
FreeConnections == {c \in Connections : ~object[c].exists}

NewConnection(flag) ==
  LET c == CHOOSE c \in FreeConnections : TRUE
  IN  [object EXCEPT ![c] = NewObject(flag, NextDescriptor(layer))]

Create(t, valid) ==
  /\ IsIdle(t)
  /\ FreeConnections # {}
  /\ MayMakeSocket(layer) /\ ~IsTableFull(layer)
  /\ layer' = WithSocket(layer, "fresh")
  /\ \/ /\ valid
        /\ object' = NewConnection(FALSE)
        /\ UNCHANGED leaked
     \/ /\ ~valid
        /\ leaked' = leaked \cup {NextDescriptor(layer)}
        /\ UNCHANGED object
  /\ UNCHANGED <<op, sent, got, killed>>

-----------------------------------------------------------------------------
(* close and stop: the flag first, so that no call starts any more, ... *)
StartClose(t, o) ==
  /\ IsIdle(t)
  /\ object[o].exists
  /\ object' = [object EXCEPT ![o].flag = FALSE]
  /\ Enter(t, "close", o)
  /\ UNCHANGED <<layer, sent, got, leaked, killed>>

(* Mutants: closing only sets the flag, or releases the descriptor at once. *)
NoShutdown(d)  == layer' = layer
CloseAtOnce(d) == layer' = WithoutFile(ShutDown(layer, {layer.files[d]}), d)

Shutdown(d) == layer' \in AfterShutdown(layer, layer.files[d])

(* ... then the socket, which ends the calls that did. *)
FinishClose(t) ==
  /\ In(t, "close")
  /\ Shutdown(object[op[t].on].socket_)
  /\ Return(t)
  /\ UNCHANGED <<object, sent, got, leaked, killed>>

(* The destructors: close or stop, and the descriptor is released. *)
Destroy(t, o) ==
  /\ IsIdle(t)
  /\ object[o].exists
  /\ Callers(o) = {}
  /\ \E after \in AfterShutdown(layer, SocketOf(o)) :
       layer' = WithoutFile(after, object[o].socket_)
  /\ object' = [object EXCEPT ![o] = NotThere]
  /\ UNCHANGED <<op, sent, got, leaked, killed>>

-----------------------------------------------------------------------------
(* Mutant: EINTR is taken for a failure. *)
GiveUp(t, pc) ==
  /\ In(t, pc)
  /\ Return(t)
  /\ UNCHANGED <<layer, object, sent, got, leaked, killed>>

(***************************************************************************)
(* A call the system interrupted is made again: the loops of               *)
(* accept_signal_safe, send_signal_safe and receive_signal_safe.           *)
(***************************************************************************)
Interrupted(t, pc) == In(t, pc) /\ UNCHANGED vars

(* accept returns null at once when the listener was stopped. *)
StartAccept(t, l) ==
  /\ MayCall(t, l)
  /\ object[l].flag
  /\ Enter(t, "accept", l)
  /\ UNCHANGED <<layer, object, sent, got, leaked, killed>>

Accept(t) ==
  LET l == op[t].on
  IN  /\ In(t, "accept")
      /\ Socket(l).backlog # <<>>
      /\ ~IsTableFull(layer)
      /\ FreeConnections # {}
      /\ object' = NewConnection(TRUE)
      /\ layer' = WithAccepted(layer, SocketOf(l))
      /\ Return(t)
      /\ UNCHANGED <<sent, got, leaked, killed>>

(* accept(2) fails on a stopped socket and on a full descriptor table. *)
FailsToAccept(t) ==
  In(t, "accept") /\ (Socket(op[t].on).state = "stopped" \/ IsTableFull(layer))

AcceptNothing(t) ==
  /\ FailsToAccept(t)
  /\ Return(t)
  /\ UNCHANGED <<layer, object, sent, got, leaked, killed>>

-----------------------------------------------------------------------------
(* connect returns false at once on a connection that is connected. *)
StartConnect(t, c) ==
  /\ MayCall(t, c)
  /\ ~object[c].flag
  /\ Enter(t, "connect", c)
  /\ UNCHANGED <<layer, object, sent, got, leaked, killed>>

(* connect(2) starts on a fresh socket, and fails on any other one. *)
EnterConnect(t) ==
  LET c == op[t].on
  IN  /\ In(t, "connect")
      /\ Socket(c).state = "fresh"
      /\ layer' = [layer EXCEPT !.sockets[SocketOf(c)].state = "connecting"]
      /\ op' = [op EXCEPT ![t].pc = "connecting"]
      /\ UNCHANGED <<object, sent, got, leaked, killed>>

(* Interrupted, it goes on in the background while poll waits for it. *)
InterruptConnect(t) ==
  /\ In(t, "connecting")
  /\ op' = [op EXCEPT ![t].pc = "poll"]
  /\ UNCHANGED <<layer, object, sent, got, leaked, killed>>

(* Mutant: being writable is taken for being connected. *)
IsWritable(t) ==
  \/ op[t].pc = "poll"
  \/ op[t].pc = "connecting" /\ Socket(op[t].on).state = "connected"

(* What connect(2) or, after an interruption, the error option tells. *)
HasConnected(t) ==
  op[t].pc \in {"connecting", "poll"} /\ Socket(op[t].on).state = "connected"

ReturnsFromConnect(t) ==
  /\ ~killed
  /\ \/ op[t].pc \in {"connecting", "poll"} /\ Socket(op[t].on).state # "connecting"
     \/ op[t].pc = "connect" /\ Socket(op[t].on).state # "fresh"

Connect(t) ==
  /\ ReturnsFromConnect(t)
  /\ HasConnected(t)
  /\ object' = [object EXCEPT ![op[t].on].flag = TRUE]
  /\ Return(t)
  /\ UNCHANGED <<layer, sent, got, leaked, killed>>

(* A connect that failed closes the connection. *)
FailConnect(t) ==
  /\ ReturnsFromConnect(t)
  /\ ~HasConnected(t)
  /\ object' = [object EXCEPT ![op[t].on].flag = FALSE]
  /\ op' = [op EXCEPT ![t].pc = "close"]
  /\ UNCHANGED <<layer, sent, got, leaked, killed>>

-----------------------------------------------------------------------------
(* receive returns false at once when the connection is not connected. *)
StartReceive(t, c) ==
  /\ MayCall(t, c)
  /\ object[c].flag
  /\ Enter(t, "receive", c)
  /\ UNCHANGED <<layer, object, sent, got, leaked, killed>>

(* The buffer is shortened to what was received. *)
Receive(t) ==
  LET s == SocketOf(op[t].on)
      inbox == layer.sockets[s].inbox
  IN  /\ In(t, "receive")
      /\ \E n \in DOMAIN inbox :
           /\ got' = [got EXCEPT ![s] = @ \o SubSeq(inbox, 1, n)]
           /\ layer' = WithoutBytes(layer, s, n)
      /\ Return(t)
      /\ UNCHANGED <<object, sent, leaked, killed>>

(* recv(2) returns 0 or fails: the end of the connection. *)
ReceiveNothing(t) ==
  /\ In(t, "receive")
  /\ HasEnded(layer, SocketOf(op[t].on))
  /\ Return(t)
  /\ UNCHANGED <<layer, object, sent, got, leaked, killed>>

-----------------------------------------------------------------------------
(* send returns false at once when the connection is not connected. *)
StartSend(t, c) ==
  LET s == SocketOf(c)
  IN  /\ MayCall(t, c)
      /\ object[c].flag
      /\ sent[s] + MessageSize <= MaxBytes
      /\ op' = [op EXCEPT ![t] =
                  [pc |-> "send", on |-> c,
                   rest |-> [i \in 1 .. MessageSize |-> sent[s] + i]]]
      /\ sent' = [sent EXCEPT ![s] = @ + MessageSize]
      /\ UNCHANGED <<layer, object, got, leaked, killed>>

(* Mutant: every round starts at the front of the data. *)
SameStart(rest, n) == SubSeq(rest, 1, Len(rest) - n)

(* p and block_size of the next round. *)
RestAfter(rest, n) == SubSeq(rest, n + 1, Len(rest))

(***************************************************************************)
(* A round of the loop: the system takes as much as there is room for.  It *)
(* may also take bytes for a connection the other side has ended.          *)
(***************************************************************************)
SendSome(t) ==
  LET s == SocketOf(op[t].on)
      rest == op[t].rest
      others == layer.sockets[layer.sockets[s].peer]
  IN  /\ In(t, "send")
      /\ ~layer.sockets[s].shut
      /\ \E n \in DOMAIN rest :
           /\ \/ /\ ~others.shut
                 /\ n <= Room(layer, s)
                 /\ layer' = WithBytes(layer, s, SubSeq(rest, 1, n))
              \/ /\ others.shut
                 /\ layer' = layer
           /\ IF RestAfter(rest, n) = <<>>
              THEN Return(t)
              ELSE op' = [op EXCEPT ![t].rest = RestAfter(rest, n)]
      /\ UNCHANGED <<object, sent, got, leaked, killed>>

(***************************************************************************)
(* send(2) on an ended connection raises SIGPIPE, for its flags are 0.     *)
(* Only in a program that ignores the signal it returns, and send false.   *)
(***************************************************************************)
SendNothing(t) ==
  /\ In(t, "send")
  /\ HasEnded(layer, SocketOf(op[t].on))
  /\ \/ killed' = TRUE /\ UNCHANGED op
     \/ killed' = FALSE /\ Return(t)
  /\ UNCHANGED <<layer, object, sent, got, leaked>>

-----------------------------------------------------------------------------
(* What the network does: it answers, and it loses the end of a stream     *)
(* that the sender did not wait for.                                       *)
Answer(s) ==
  /\ ~killed
  /\ layer.sockets[s].state = "connecting"
  /\ \/ \E l \in Listening(layer) :
          /\ Len(layer.sockets[l].backlog) < Backlog
          /\ MayMakeSocket(layer)
          /\ layer' = Answered(layer, s, l)
     \/ Listening(layer) = {} /\ layer' = Refused(layer, s)
  /\ UNCHANGED <<object, op, sent, got, leaked, killed>>

LoseBytes(s) ==
  /\ ~killed
  /\ layer.sockets[s].state = "connected"
  /\ layer.sockets[s].inbox # <<>>
  /\ HasEnded(layer, s)
  /\ layer' = [layer EXCEPT !.sockets[s].inbox = <<>>]
  /\ UNCHANGED <<object, op, sent, got, leaked, killed>>

Network == \E s \in Numbers(layer) : Answer(s) \/ LoseBytes(s)

Step(t) ==
  \/ FinishClose(t)
  \/ Accept(t) \/ AcceptNothing(t)
  \/ EnterConnect(t) \/ Connect(t) \/ FailConnect(t)
  \/ Receive(t) \/ ReceiveNothing(t)
  \/ SendSome(t) \/ SendNothing(t)

Call(t) ==
  \/ \E l \in Listeners : StartAccept(t, l)
                          \/ \E valid \in BOOLEAN : Listen(t, l, valid)
  \/ \E valid \in BOOLEAN : Create(t, valid)
  \/ \E c \in Connections :
       \/ StartConnect(t, c) \/ StartReceive(t, c) \/ StartSend(t, c)
  \/ \E o \in Objects : StartClose(t, o) \/ Destroy(t, o)

Signal(t) ==
  InterruptConnect(t) \/ \E pc \in {"accept", "receive", "send"} : Interrupted(t, pc)

Next == Network \/ \E t \in Threads : Step(t) \/ Call(t) \/ Signal(t)

Spec == Init /\ [][Next]_vars

(* A thread in a call gets on as soon as the system lets it. *)
FairSpec == Spec /\ \A t \in Threads : WF_vars(Step(t))

-----------------------------------------------------------------------------
(* What the layer, the objects and the calls may be. *)
TypeOK ==
  /\ layer.files \in [Descriptors -> 0 .. OtherFile]
  /\ layer.sockets \in Seq(
       [state   : {"fresh", "connecting", "connected", "listening", "stopped"},
        shut    : BOOLEAN,
        peer    : 0 .. MaxSockets,
        inbox   : Seq(Nat),
        backlog : Seq(1 .. MaxSockets)])
  /\ Len(layer.sockets) <= MaxSockets
  /\ object \in [Objects -> [exists : BOOLEAN, flag : BOOLEAN,
                             socket_ : Descriptors \cup {0}]]
  /\ op \in [Threads -> [pc : {"idle", "close", "accept", "connect",
                               "connecting", "poll", "receive", "send"},
                         on : Objects \cup {NoObject}, rest : Seq(Nat)]]
  /\ sent \in [1 .. MaxSockets -> 0 .. MaxBytes]
  /\ got \in [1 .. MaxSockets -> Seq(Nat)]
  /\ leaked \subseteq Descriptors
  /\ killed \in BOOLEAN

Existing == {o \in Objects : object[o].exists}

(***************************************************************************)
(* Every open descriptor belongs to one object, or is one that a failed    *)
(* listen or create left behind: the close in a destructor, whose result   *)
(* the code asserts, neither fails nor releases the descriptor of another  *)
(* object that was given the number meanwhile.                             *)
(***************************************************************************)
DescriptorsAreOwned ==
  /\ {d \in Descriptors : layer.files[d] \notin {NoSocket, OtherFile}}
       = leaked \cup {object[o].socket_ : o \in Existing}
  /\ \A o \in Existing : /\ object[o].socket_ \notin leaked
                         /\ \A q \in Existing \ {o} :
                              object[q].socket_ # object[o].socket_

(***************************************************************************)
(* The flags do not promise more than the sockets hold: is_connected_ of a *)
(* socket the system connected, is_listening_ of one that listens,         *)
(* whatever the threads that call connect, close and stop do meanwhile.    *)
(***************************************************************************)
FlagsAreTrue ==
  /\ \A c \in Existing \cap Connections :
       object[c].flag => Socket(c).state = "connected"
  /\ \A l \in Existing \cap Listeners :
       object[l].flag => Socket(l).state = "listening"

(***************************************************************************)
(* What receive appended to the buffer of one end is a beginning of what   *)
(* the other end was given to send, and as long as neither end is closed   *)
(* nothing is missing between the two but what the running call has still  *)
(* to send: each part of a partial send follows the one before.            *)
(***************************************************************************)
Count(n) == [i \in 1 .. n |-> i]

Unsent(s) ==
  LET senders == {t \in Threads : op[t].pc = "send" /\ SocketOf(op[t].on) = s}
  IN  IF senders = {} THEN <<>> ELSE op[CHOOSE t \in senders : TRUE].rest

StreamsAreIntact ==
  \A s \in Numbers(layer) : layer.sockets[s].state = "connected" =>
    LET other == layer.sockets[s].peer
    IN  /\ IsPrefix(got[other], Count(sent[s]))
        /\ HasEnded(layer, s)
           \/ got[other] \o layer.sockets[other].inbox \o Unsent(s)
                = Count(sent[s])

(***************************************************************************)
(* "False means, that the connection were closed": receive does not return *)
(* empty-handed from a connection both sides hold open, a signal           *)
(* notwithstanding.  Likewise send returns from such a connection with     *)
(* nothing left over, its last bytes handed to the other side, and accept  *)
(* returns null only from a listener that tells it is stopped              *)
(* (EXPECT_FALSE(listnr->listening()) after a null from accept), or when   *)
(* there is no descriptor left.                                            *)
(***************************************************************************)
Returns(t, pc) == op[t].pc = pc /\ op'[t].pc = "idle"

OnlyClosedCallsFail ==
  [][\A t \in Threads :
       LET o == op[t].on
           s == SocketOf(o)
       IN  /\ Returns(t, "receive") /\ UNCHANGED got => HasEnded(layer, s)
           /\ Returns(t, "send") =>
                HasEnded(layer, s) \/ layer' = WithBytes(layer, s, op[t].rest)
           /\ Returns(t, "accept") /\ UNCHANGED object
                => ~object[o].flag \/ IsTableFull(layer)]_vars

(***************************************************************************)
(* "This will immediately stop any call on that connection", and stop any  *)
(* one on that listener: the thread that sends, receives, accepts or waits *)
(* for the other side's answer returns.  A connect that has not entered    *)
(* the system yet is not stopped.  Or the program ends: where send should  *)
(* return false (communication.hpp) the code lets SIGPIPE end the process, *)
(* unless the program ignores that signal (see the README).                *)
(***************************************************************************)
Blocked(t) == op[t].pc \in {"accept", "connecting", "poll", "receive", "send"}

CloseStopsCalls ==
  \A t, u \in Threads :
    (/\ Blocked(t) /\ In(u, "close") /\ op[u].on = op[t].on)
      ~> (killed \/ ~Blocked(t))
=============================================================================
