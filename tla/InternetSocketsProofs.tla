------------------------ MODULE InternetSocketsProofs ------------------------
(***************************************************************************)
(* The safety of listeners and connections for every number of threads,    *)
(* objects, descriptors and bytes.                                         *)
(*                                                                         *)
(* The inductive invariant has one part about the operating system's       *)
(* layer alone, one for each of the three places that refer to it, the     *)
(* objects, the calls and the flags, and one about the bytes between the   *)
(* two ends of a connection.                                               *)
(***************************************************************************)
EXTENDS InternetSockets, SequenceTheorems, WellFoundedInduction, TLAPS

States == {"fresh", "connecting", "connected", "listening", "stopped"}

Sockets == [state   : States,
            shut    : BOOLEAN,
            peer    : 0 .. MaxSockets,
            inbox   : Seq(Nat),
            backlog : Seq(1 .. MaxSockets)]

-----------------------------------------------------------------------------
(* The layer.                                                              *)

(* A descriptor stands for one socket, and a socket has one descriptor. *)
FilesOK(L) ==
  /\ L.files \in [Descriptors -> 0 .. OtherFile]
  /\ \A d \in Descriptors : L.files[d] \in {NoSocket, OtherFile} \cup Numbers(L)
  /\ \A d, e \in Descriptors :
       L.files[d] = L.files[e] /\ L.files[d] \in Numbers(L) => d = e

SocketsOK(L) ==
  L.sockets \in Seq(Sockets) /\ Len(L.sockets) <= MaxSockets

(* The two ends of a connection name each other; only they hold bytes. *)
PeersOK(L) ==
  \A s \in Numbers(L) :
    IF L.sockets[s].state = "connected"
    THEN /\ L.sockets[s].peer \in Numbers(L) \ {s}
         /\ L.sockets[L.sockets[s].peer].state = "connected"
         /\ L.sockets[L.sockets[s].peer].peer = s
    ELSE L.sockets[s].inbox = <<>>

(* What waits to be accepted waits once, connected and without descriptor. *)
BacklogsOK(L) ==
  /\ \A l \in Numbers(L) : \A i \in DOMAIN L.sockets[l].backlog :
       /\ L.sockets[l].backlog[i] \in Numbers(L)
       /\ L.sockets[L.sockets[l].backlog[i]].state = "connected"
       /\ \A d \in Descriptors : L.files[d] # L.sockets[l].backlog[i]
  /\ \A l, m \in Numbers(L) :
       \A i \in DOMAIN L.sockets[l].backlog, j \in DOMAIN L.sockets[m].backlog :
         L.sockets[l].backlog[i] = L.sockets[m].backlog[j] => l = m /\ i = j

LayerOK(L) ==
  /\ L = [files |-> L.files, sockets |-> L.sockets]
  /\ SocketsOK(L)
  /\ FilesOK(L)
  /\ PeersOK(L)
  /\ BacklogsOK(L)

-----------------------------------------------------------------------------
(* Those who refer to the layer.                                           *)

Members == [exists : BOOLEAN, flag : BOOLEAN, socket_ : Descriptors \cup {0}]

Points == {"idle", "close", "accept", "connect", "connecting", "poll",
           "receive", "send"}

Calls == [pc : Points, on : Objects \cup {NoObject}, rest : Seq(Nat)]

VariablesOK ==
  /\ object \in [Objects -> Members]
  /\ op \in [Threads -> Calls]
  /\ sent \in [1 .. MaxSockets -> 0 .. MaxBytes]
  /\ got \in [1 .. MaxSockets -> Seq(Nat)]
  /\ leaked \subseteq Descriptors
  /\ killed \in BOOLEAN

(* Every object has a descriptor to itself, which names a socket. *)
ObjectsOK ==
  /\ \A o \in Existing :
       /\ object[o].socket_ \in Descriptors \ leaked
       /\ SocketOf(o) \in Numbers(layer)
  /\ \A o, q \in Existing : object[o].socket_ = object[q].socket_ => o = q
  /\ \A d \in leaked : layer.files[d] \in Numbers(layer)
  /\ \A d \in Descriptors : layer.files[d] \in Numbers(layer) =>
       d \in leaked \/ \E o \in Existing : object[o].socket_ = d

Communicating == {"connect", "connecting", "poll", "receive", "send"}

(* A thread in a call works on an object, and is the only one but those *)
(* that close it. *)
ThreadOK(t) ==
  IF op[t].pc = "idle"
  THEN op[t].on = NoObject
  ELSE /\ op[t].on \in Existing
       /\ op[t].pc = "accept" => op[t].on \in Listeners
       /\ op[t].pc \in Communicating => op[t].on \in Connections
       /\ op[t].pc \in {"receive", "send"} => Socket(op[t].on).state = "connected"
       /\ op[t].pc = "close" /\ op[t].on \in Listeners => ~object[op[t].on].flag

OpsOK ==
  /\ \A t \in Threads : ThreadOK(t)
  /\ \A t, u \in Threads :
       {op[t].pc, op[u].pc} \cap {"idle", "close"} = {} /\ op[t].on = op[u].on
         => t = u

-----------------------------------------------------------------------------
(* The bytes.                                                              *)

Interval(a, n) == [i \in 1 .. n |-> a + i]

Connected(s) == s \in Numbers(layer) /\ layer.sockets[s].state = "connected"

Sends(t, s) == op[t].pc = "send" /\ SocketOf(op[t].on) = s

Received(s) == got[layer.sockets[s].peer]
Arrived(s)  == layer.sockets[layer.sockets[s].peer].inbox

(* Nothing was sent or received where there is no connection. *)
SilenceOK ==
  \A s \in 1 .. MaxSockets : ~Connected(s) => sent[s] = 0 /\ got[s] = <<>>

(***************************************************************************)
(* Of the bytes 1 to sent[s], the other side has received the first, those *)
(* after them arrived, and while the connection is open the running call   *)
(* of send has the rest.                                                   *)
(***************************************************************************)
StreamOK(s) ==
  LET g == Len(Received(s))
      a == Len(Arrived(s))
  IN  /\ Received(s) = Interval(0, g)
      /\ Arrived(s) = Interval(g, a)
      /\ g + a <= sent[s]
      /\ \A t \in Threads : Sends(t, s) =>
           LET r == Len(op[t].rest)
           IN  /\ r <= sent[s]
               /\ op[t].rest = Interval(sent[s] - r, r)
               /\ ~HasEnded(layer, s) => g + a + r = sent[s]
      /\ (\A t \in Threads : ~Sends(t, s)) /\ ~HasEnded(layer, s) =>
           g + a = sent[s]

StreamsOK == SilenceOK /\ \A s \in Numbers(layer) : Connected(s) => StreamOK(s)

IInv ==
  /\ VariablesOK
  /\ LayerOK(layer)
  /\ ObjectsOK
  /\ OpsOK
  /\ FlagsAreTrue
  /\ StreamsOK

-----------------------------------------------------------------------------
(* Facts about the layer.                                                  *)

(***************************************************************************)
(* Most calls make no socket and give out no descriptor, and connect       *)
(* nothing: M is L after such a call.                                      *)
(***************************************************************************)
Resembles(M, L) ==
  /\ M = [files |-> M.files, sockets |-> M.sockets]
  /\ SocketsOK(M)
  /\ Len(M.sockets) = Len(L.sockets)
  /\ M.files \in [Descriptors -> 0 .. OtherFile]
  /\ \A d \in Descriptors : M.files[d] \in {L.files[d], NoSocket}
  /\ \A s \in Numbers(L) :
       /\ M.sockets[s].peer = L.sockets[s].peer
       /\ M.sockets[s].state = "connected" <=> L.sockets[s].state = "connected"
       /\ M.sockets[s].backlog \in {L.sockets[s].backlog, <<>>}
       /\ L.sockets[s].state # "connected" => M.sockets[s].inbox = <<>>

LEMMA NumbersAre ==
  ASSUME NEW L, SocketsOK(L)
  PROVE  /\ Len(L.sockets) \in 0 .. MaxSockets
         /\ Numbers(L) = 1 .. Len(L.sockets)
         /\ Numbers(L) \subseteq 1 .. MaxSockets
         /\ \A s \in Numbers(L) : L.sockets[s] \in Sockets
         /\ NoSocket \notin Numbers(L) /\ OtherFile \notin Numbers(L)
         /\ MaxSockets \in Nat
  BY LayerAssumption DEF SocketsOK, Numbers, NoSocket, OtherFile

LEMMA ResemblingOK ==
  ASSUME NEW L, NEW M, LayerOK(L), Resembles(M, L)
  PROVE  LayerOK(M) /\ Numbers(M) = Numbers(L)
<1>1. /\ Numbers(M) = Numbers(L)
      /\ NoSocket \notin Numbers(L) /\ OtherFile \notin Numbers(L)
  BY NumbersAre DEF LayerOK, Resembles
<1>2. FilesOK(M)
  BY <1>1 DEF LayerOK, Resembles, FilesOK
<1>3. PeersOK(M)
  BY <1>1 DEF LayerOK, Resembles, PeersOK
<1>4. BacklogsOK(M)
  <2>1. \A l \in Numbers(L) : \A i \in DOMAIN M.sockets[l].backlog :
          /\ i \in DOMAIN L.sockets[l].backlog
          /\ M.sockets[l].backlog[i] = L.sockets[l].backlog[i]
    BY DEF Resembles
  <2>2. \A l \in Numbers(L) : \A i \in DOMAIN L.sockets[l].backlog :
          \A d \in Descriptors : M.files[d] # L.sockets[l].backlog[i]
    BY <1>1 DEF LayerOK, Resembles, BacklogsOK
  <2>3. QED
    BY <1>1, <2>1, <2>2 DEF LayerOK, Resembles, BacklogsOK
<1>5. QED
  BY <1>1, <1>2, <1>3, <1>4 DEF LayerOK, Resembles

(* One socket changes, without being connected by it. *)
Changes(M, L, s, socket) ==
  /\ M = [files |-> M.files, sockets |-> M.sockets]
  /\ M.files = L.files
  /\ M.sockets = [L.sockets EXCEPT ![s] = socket]

Suits(L, s, socket) ==
  /\ socket \in Sockets
  /\ socket.peer = L.sockets[s].peer
  /\ socket.state = "connected" <=> L.sockets[s].state = "connected"
  /\ socket.backlog \in {L.sockets[s].backlog, <<>>}
  /\ L.sockets[s].state # "connected" => socket.inbox = <<>>

LEMMA SocketChanges ==
  ASSUME NEW L, LayerOK(L), NEW s \in Numbers(L), NEW socket, NEW M,
         Changes(M, L, s, socket), Suits(L, s, socket)
  PROVE  /\ Resembles(M, L)
         /\ M.files = L.files
         /\ M.sockets[s] = socket
         /\ \A u \in Numbers(L) \ {s} : M.sockets[u] = L.sockets[u]
<1>1. SocketsOK(L) /\ s \in 1 .. Len(L.sockets)
  BY NumbersAre DEF LayerOK
<1>2. /\ M.sockets[s] = socket
      /\ \A u \in Numbers(L) \ {s} : M.sockets[u] = L.sockets[u]
      /\ M.sockets \in Seq(Sockets)
      /\ Len(M.sockets) = Len(L.sockets)
  BY <1>1 DEF SocketsOK, Numbers, Changes, Suits
<1>3. Resembles(M, L)
  BY <1>1, <1>2
  DEF Resembles, LayerOK, SocketsOK, FilesOK, PeersOK, Changes, Suits
<1>4. QED
  BY <1>2, <1>3 DEF Changes

LEMMA FunctionIsSequence ==
  ASSUME NEW S, NEW n \in Nat, NEW f \in [1 .. n -> S]
  PROVE  f \in Seq(S) /\ Len(f) = n
<1>1. f \in Seq(S)
  BY SeqDef
<1>2. QED
  BY <1>1, LenProperties

(* shutdown(2) sets the flag of some sockets and leaves the rest. *)
LEMMA ShutDownOK ==
  ASSUME NEW L, LayerOK(L), NEW dead, NEW M, M = ShutDown(L, dead)
  PROVE  /\ Resembles(M, L)
         /\ M.files = L.files
         /\ \A s \in Numbers(L) :
              /\ M.sockets[s].peer = L.sockets[s].peer
              /\ M.sockets[s].state = L.sockets[s].state
              /\ M.sockets[s].backlog = L.sockets[s].backlog
              /\ M.sockets[s].inbox = L.sockets[s].inbox
              /\ M.sockets[s].shut <=> L.sockets[s].shut \/ s \in dead
<1>1. /\ M = [files |-> M.files, sockets |-> M.sockets]
      /\ M.files = L.files
      /\ M.sockets = [s \in DOMAIN L.sockets |->
                        IF s \in dead THEN [L.sockets[s] EXCEPT !.shut = TRUE]
                                      ELSE L.sockets[s]]
  BY DEF LayerOK, ShutDown
<1>2. /\ SocketsOK(L)
      /\ DOMAIN L.sockets = 1 .. Len(L.sockets)
      /\ Len(L.sockets) \in Nat
      /\ \A s \in Numbers(L) : L.sockets[s] \in Sockets
  BY NumbersAre DEF LayerOK, Numbers
<1>3. \A s \in Numbers(L) :
        /\ M.sockets[s] \in Sockets
        /\ M.sockets[s].peer = L.sockets[s].peer
        /\ M.sockets[s].state = L.sockets[s].state
        /\ M.sockets[s].backlog = L.sockets[s].backlog
        /\ M.sockets[s].inbox = L.sockets[s].inbox
        /\ M.sockets[s].shut <=> L.sockets[s].shut \/ s \in dead
  <2> TAKE s \in Numbers(L)
  <2>1. CASE s \in dead
    <3>1. M.sockets[s] = [L.sockets[s] EXCEPT !.shut = TRUE]
      BY <1>1, <2>1 DEF Numbers
    <3>2. QED
      BY <1>2, <2>1, <3>1 DEF Sockets
  <2>2. CASE s \notin dead
    <3>1. M.sockets[s] = L.sockets[s]
      BY <1>1, <2>2 DEF Numbers
    <3>2. QED
      BY <1>2, <2>2, <3>1
  <2>3. QED
    BY <2>1, <2>2
<1>4. M.sockets \in [1 .. Len(L.sockets) -> Sockets]
  BY <1>1, <1>2, <1>3 DEF Numbers
<1>5. M.sockets \in Seq(Sockets) /\ Len(M.sockets) = Len(L.sockets)
  BY <1>2, <1>4, FunctionIsSequence
<1>6. Resembles(M, L)
  BY <1>1, <1>2, <1>3, <1>5 DEF Resembles, LayerOK, SocketsOK, FilesOK, PeersOK
<1>7. QED
  BY <1>1, <1>3, <1>6

LEMMA StopListening ==
  ASSUME NEW L, LayerOK(L), NEW s \in Numbers(L),
         L.sockets[s].state = "listening",
         NEW M, M = Stopped(L, s)
  PROVE  /\ Resembles(M, L)
         /\ M.files = L.files
         /\ M.sockets[s].shut = L.sockets[s].shut
         /\ M.sockets[s].inbox = L.sockets[s].inbox
         /\ \A u \in Numbers(L) \ {s} : M.sockets[u] = L.sockets[u]
<1> DEFINE socket == [L.sockets[s] EXCEPT !.state = "stopped", !.backlog = <<>>]
<1>1. L.sockets[s] \in Sockets
  BY NumbersAre DEF LayerOK
<1>2. /\ socket \in Sockets /\ socket.state = "stopped"
      /\ socket.backlog = <<>> /\ socket.peer = L.sockets[s].peer
      /\ socket.inbox = L.sockets[s].inbox /\ socket.shut = L.sockets[s].shut
  BY <1>1, EmptySeq DEF Sockets, States
<1>3. Changes(M, L, s, socket)
  BY <1>1 DEF LayerOK, Sockets, Stopped, Changes
<1>4. L.sockets[s].inbox = <<>>
  BY DEF LayerOK, PeersOK
<1> HIDE DEF socket
<1>5. Suits(L, s, socket)
  BY <1>2, <1>4 DEF Suits
<1>6. /\ Resembles(M, L)
      /\ M.files = L.files
      /\ M.sockets[s] = socket
      /\ \A u \in Numbers(L) \ {s} : M.sockets[u] = L.sockets[u]
  BY <1>3, <1>5, SocketChanges
<1>7. QED
  BY <1>2, <1>6

(***************************************************************************)
(* After a shutdown of a socket nothing but flags has changed on what is   *)
(* connected, and no other socket listens less than it did.                *)
(***************************************************************************)
LEMMA AfterShutdownOK ==
  ASSUME NEW L, LayerOK(L), NEW s \in Numbers(L),
         NEW M \in AfterShutdown(L, s)
  PROVE  /\ Resembles(M, L)
         /\ M.files = L.files
         /\ \A u \in Numbers(L) :
              /\ L.sockets[u].shut => M.sockets[u].shut
              /\ M.sockets[u].inbox = L.sockets[u].inbox
              /\ u # s => M.sockets[u].state = L.sockets[u].state
<1>1. L.sockets[s] \in Sockets /\ SocketsOK(L)
  BY NumbersAre DEF LayerOK
<1>2. CASE L.sockets[s].state = "listening"
  <2>1. PICK K :
          /\ K = ShutDown(L, ToSet(L.sockets[s].backlog))
          /\ M = Stopped(K, s)
    BY <1>2 DEF AfterShutdown
  <2>2. /\ Resembles(K, L)
        /\ K.files = L.files
        /\ \A u \in Numbers(L) :
             /\ K.sockets[u].state = L.sockets[u].state
             /\ K.sockets[u].inbox = L.sockets[u].inbox
             /\ L.sockets[u].shut => K.sockets[u].shut
    <3>1. K = ShutDown(L, ToSet(L.sockets[s].backlog))
      BY <2>1
    <3>2. QED
      BY <3>1, ShutDownOK
  <2>3. LayerOK(K) /\ Numbers(K) = Numbers(L)
    BY <2>2, ResemblingOK
  <2>4. /\ Resembles(M, K)
        /\ M.files = K.files
        /\ M.sockets[s].shut = K.sockets[s].shut
        /\ M.sockets[s].inbox = K.sockets[s].inbox
        /\ \A u \in Numbers(K) \ {s} : M.sockets[u] = K.sockets[u]
    <3>1. /\ LayerOK(K) /\ s \in Numbers(K)
          /\ K.sockets[s].state = "listening"
      BY <1>2, <2>2, <2>3
    <3>2. M = Stopped(K, s)
      BY <2>1
    <3>3. QED
      BY <3>1, <3>2, StopListening
  <2>5. Resembles(M, L)
    BY <2>2, <2>3, <2>4 DEF Resembles
  <2>6. QED
    BY <2>2, <2>3, <2>4, <2>5
<1>3. CASE L.sockets[s].state = "connecting"
  <2> DEFINE socket == [L.sockets[s] EXCEPT !.state = "fresh"]
  <2>1. /\ socket \in Sockets /\ socket.state = "fresh"
        /\ socket.peer = L.sockets[s].peer /\ socket.inbox = L.sockets[s].inbox
        /\ socket.shut = L.sockets[s].shut /\ socket.backlog = L.sockets[s].backlog
    BY <1>1 DEF Sockets, States
  <2>2. Changes(M, L, s, socket)
    BY <1>3 DEF AfterShutdown, Refused, LayerOK, Changes
  <2>3. L.sockets[s].inbox = <<>>
    BY <1>3 DEF LayerOK, PeersOK
  <2> HIDE DEF socket
  <2>4. Suits(L, s, socket)
    BY <1>3, <2>1, <2>3 DEF Suits
  <2>5. /\ Resembles(M, L)
        /\ M.files = L.files
        /\ M.sockets[s] = socket
        /\ \A u \in Numbers(L) \ {s} : M.sockets[u] = L.sockets[u]
    BY <2>2, <2>4, SocketChanges
  <2>6. QED
    BY <2>1, <2>5
<1>4. CASE L.sockets[s].state \notin {"listening", "connecting"}
  <2>1. M = L \/ M = ShutDown(L, {s})
    BY <1>4 DEF AfterShutdown
  <2>2. CASE M = L
    <3>1. Resembles(L, L)
      BY DEF Resembles, LayerOK, FilesOK, PeersOK
    <3>2. QED
      BY <2>2, <3>1
  <2>3. CASE M = ShutDown(L, {s})
    <3>1. /\ Resembles(M, L)
          /\ M.files = L.files
          /\ \A u \in Numbers(L) :
               /\ M.sockets[u].state = L.sockets[u].state
               /\ M.sockets[u].inbox = L.sockets[u].inbox
               /\ L.sockets[u].shut => M.sockets[u].shut
      BY <2>3, ShutDownOK
    <3>2. QED
      BY <3>1
  <2>4. QED
    BY <2>1, <2>2, <2>3
<1>5. QED
  BY <1>2, <1>3, <1>4

(***************************************************************************)
(* What every step keeps: no socket is lost, opened again or disconnected, *)
(* and bytes are only where there was a connection before.                 *)
(***************************************************************************)
Grows(M, L) ==
  /\ LayerOK(M)
  /\ Numbers(L) \subseteq Numbers(M)
  /\ \A s \in Numbers(L) :
       /\ L.sockets[s].shut => M.sockets[s].shut
       /\ L.sockets[s].state = "connected" =>
            /\ M.sockets[s].state = "connected"
            /\ M.sockets[s].peer = L.sockets[s].peer
       /\ L.sockets[s].state # "connected" => M.sockets[s].inbox = <<>>
  /\ \A s \in Numbers(M) \ Numbers(L) : M.sockets[s].inbox = <<>>

LEMMA ResemblingGrows ==
  ASSUME NEW L, LayerOK(L), NEW M, Resembles(M, L),
         \A s \in Numbers(L) : L.sockets[s].shut => M.sockets[s].shut
  PROVE  Grows(M, L) /\ Numbers(M) = Numbers(L)
<1>1. LayerOK(M) /\ Numbers(M) = Numbers(L)
  BY ResemblingOK
<1>2. QED
  BY <1>1 DEF Grows, Resembles

LEMMA GrowsAgain ==
  ASSUME NEW L, LayerOK(L), NEW K, NEW M, Grows(K, L), Grows(M, K),
         \A s \in Numbers(K) : K.sockets[s].inbox = <<>> => M.sockets[s].inbox = <<>>
  PROVE  Grows(M, L)
  BY DEF Grows

(* The table gives out the least free descriptor. *)
LEMMA NextIsFree ==
  ASSUME NEW L, ~IsTableFull(L)
  PROVE  NextDescriptor(L) \in Descriptors /\ L.files[NextDescriptor(L)] = NoSocket
<1> DEFINE S == FreeDescriptors(L)
<1>1. S \subseteq Nat /\ S # {}
  BY LayerAssumption DEF FreeDescriptors, IsTableFull
<1>2. PICK i \in S : \A j \in S : ~(<<j, i>> \in OpToRel(<, Nat))
  BY <1>1, NatLessThanWellFounded, WFMin, Zenon
<1>3. \A j \in S : ~(j < i)
  BY <1>1, <1>2 DEF OpToRel
<1>4. \A j \in S : i <= j
  BY <1>1, <1>3
<1>5. NextDescriptor(L) \in S
  BY <1>4 DEF NextDescriptor
<1>6. QED
  BY <1>5 DEF FreeDescriptors

(* A free descriptor is given to socket x, which had none. *)
Opens(M, L, x) ==
  /\ x \in Numbers(M)
  /\ \A d \in Descriptors : L.files[d] # x
  /\ M.files = [L.files EXCEPT ![NextDescriptor(L)] = x]

(* The sockets that were there are as they were. *)
SameSockets(M, L) == \A s \in Numbers(L) : M.sockets[s] = L.sockets[s]

LEMMA WithSocketOK ==
  ASSUME NEW L, LayerOK(L), MayMakeSocket(L), ~IsTableFull(L),
         NEW state \in {"fresh", "listening"}, NEW M, M = WithSocket(L, state)
  PROVE  /\ Grows(M, L)
         /\ Opens(M, L, Len(L.sockets) + 1)
         /\ SameSockets(M, L)
         /\ Numbers(M) = Numbers(L) \cup {Len(L.sockets) + 1}
         /\ Len(L.sockets) + 1 \notin Numbers(L)
         /\ M.sockets[Len(L.sockets) + 1].state = state
<1> DEFINE n == Len(L.sockets) + 1
           new == NewSocket(state, NoSocket)
           next == NextDescriptor(L)
<1>1. /\ SocketsOK(L) /\ Len(L.sockets) \in Nat /\ n \in 1 .. MaxSockets
      /\ Numbers(L) = 1 .. Len(L.sockets)
      /\ MaxSockets \in Nat
  BY NumbersAre DEF LayerOK, MayMakeSocket
<1>2. new \in Sockets /\ new.state = state /\ new.inbox = <<>> /\ new.backlog = <<>>
  BY <1>1, EmptySeq DEF NewSocket, Sockets, States, NoSocket
<1>3. /\ M = [files |-> M.files, sockets |-> M.sockets]
      /\ M.files = [L.files EXCEPT ![next] = n]
      /\ M.sockets = Append(L.sockets, new)
  BY DEF WithSocket
<1>4. next \in Descriptors /\ L.files[next] = NoSocket
  BY NextIsFree
<1> HIDE DEF new, next
<1>5. /\ M.sockets \in Seq(Sockets)
      /\ Len(M.sockets) = n
      /\ M.sockets[n] = new
      /\ \A s \in Numbers(L) : M.sockets[s] = L.sockets[s]
      /\ Numbers(M) = Numbers(L) \cup {n} /\ n \notin Numbers(L)
  <2>1. L.sockets \in Seq(Sockets)
    BY <1>1 DEF SocketsOK
  <2>2. /\ Append(L.sockets, new) \in Seq(Sockets)
        /\ Len(Append(L.sockets, new)) = Len(L.sockets) + 1
        /\ \A i \in 1 .. Len(L.sockets) : Append(L.sockets, new)[i] = L.sockets[i]
        /\ Append(L.sockets, new)[Len(L.sockets) + 1] = new
    BY <1>2, <2>1, AppendProperties
  <2>3. DOMAIN M.sockets = 1 .. n
    BY <1>3, <2>2, LenProperties
  <2>4. QED
    BY <1>1, <1>3, <2>2, <2>3 DEF Numbers
<1>6. SocketsOK(M)
  BY <1>1, <1>5 DEF SocketsOK
<1>7. Opens(M, L, n)
  BY <1>1, <1>3, <1>5 DEF Opens, LayerOK, FilesOK, NoSocket, OtherFile, next
<1>8. FilesOK(M)
  BY <1>1, <1>3, <1>4, <1>5 DEF LayerOK, FilesOK, NoSocket, OtherFile
<1>9. PeersOK(M)
  BY <1>2, <1>5 DEF LayerOK, PeersOK
<1>10. BacklogsOK(M)
  <2>1. \A l \in Numbers(M) : \A i \in DOMAIN M.sockets[l].backlog :
          /\ l \in Numbers(L) /\ i \in DOMAIN L.sockets[l].backlog
          /\ M.sockets[l].backlog[i] = L.sockets[l].backlog[i]
    BY <1>2, <1>5
  <2>2. \A d \in Descriptors : M.files[d] \in {L.files[d], n}
    BY <1>3 DEF LayerOK, FilesOK
  <2>3. QED
    BY <1>5, <2>1, <2>2 DEF LayerOK, BacklogsOK
<1>11. Grows(M, L)
  BY <1>2, <1>3, <1>5, <1>6, <1>8, <1>9, <1>10, ZenonT(60) DEF Grows, LayerOK, PeersOK
<1>12. QED
  BY <1>2, <1>5, <1>7, <1>11 DEF SameSockets

LEMMA QueueFacts ==
  ASSUME NEW S, NEW queue \in Seq(S), queue # <<>>
  PROVE  /\ Head(queue) = queue[1] /\ Tail(queue) \in Seq(S)
         /\ DOMAIN queue = 1 .. Len(queue) /\ Len(queue) \in Nat \ {0}
         /\ DOMAIN Tail(queue) = 1 .. Len(queue) - 1
         /\ \A i \in 1 .. Len(queue) - 1 : Tail(queue)[i] = queue[i + 1]
<1>1. Len(queue) \in Nat \ {0}
  BY EmptySeq
<1>2. /\ Tail(queue) \in Seq(S) /\ Len(Tail(queue)) = Len(queue) - 1
      /\ \A i \in 1 .. Len(Tail(queue)) : Tail(queue)[i] = queue[i + 1]
  BY HeadTailProperties
<1>3. DOMAIN Tail(queue) = 1 .. Len(queue) - 1 /\ DOMAIN queue = 1 .. Len(queue)
  BY <1>2, LenProperties
<1>4. Head(queue) = queue[1]
  OBVIOUS
<1>5. QED
  BY <1>1, <1>2, <1>3, <1>4

LEMMA AcceptedOK ==
  ASSUME NEW L, LayerOK(L), ~IsTableFull(L), NEW l \in Numbers(L),
         L.sockets[l].backlog # <<>>, NEW M, M = WithAccepted(L, l)
  PROVE  /\ Grows(M, L)
         /\ Opens(M, L, Head(L.sockets[l].backlog))
         /\ Numbers(M) = Numbers(L)
         /\ M.sockets[Head(L.sockets[l].backlog)].state = "connected"
         /\ \A s \in Numbers(L) :
              /\ M.sockets[s].state = L.sockets[s].state
              /\ M.sockets[s].shut = L.sockets[s].shut
              /\ M.sockets[s].peer = L.sockets[s].peer
              /\ M.sockets[s].inbox = L.sockets[s].inbox
<1> DEFINE queue == L.sockets[l].backlog
           socket == [L.sockets[l] EXCEPT !.backlog = Tail(@)]
           next == NextDescriptor(L)
           x == Head(queue)
<1>1. /\ SocketsOK(L) /\ l \in 1 .. Len(L.sockets)
      /\ L.sockets[l] \in Sockets
      /\ \A s \in Numbers(L) : L.sockets[s] \in Sockets
  BY NumbersAre DEF LayerOK
<1>2. queue \in Seq(1 .. MaxSockets) /\ queue # <<>>
  BY <1>1 DEF Sockets
<1>3. /\ x = queue[1] /\ Tail(queue) \in Seq(1 .. MaxSockets)
      /\ DOMAIN queue = 1 .. Len(queue) /\ Len(queue) \in Nat \ {0}
      /\ DOMAIN Tail(queue) = 1 .. Len(queue) - 1
      /\ \A i \in 1 .. Len(queue) - 1 : Tail(queue)[i] = queue[i + 1]
  BY <1>2, QueueFacts
<1>4. /\ socket \in Sockets /\ socket.backlog = Tail(queue)
      /\ socket.state = L.sockets[l].state /\ socket.shut = L.sockets[l].shut
      /\ socket.peer = L.sockets[l].peer /\ socket.inbox = L.sockets[l].inbox
  BY <1>1, <1>3 DEF Sockets
<1>5. /\ M = [files |-> M.files, sockets |-> M.sockets]
      /\ M.files = [L.files EXCEPT ![next] = x]
      /\ M.sockets = [L.sockets EXCEPT ![l] = socket]
  BY DEF WithAccepted
<1>6. next \in Descriptors /\ L.files[next] = NoSocket
  BY NextIsFree
<1> HIDE DEF socket, next
<1>7. /\ M.sockets \in Seq(Sockets) /\ Len(M.sockets) = Len(L.sockets)
      /\ M.sockets[l] = socket
      /\ \A s \in Numbers(L) \ {l} : M.sockets[s] = L.sockets[s]
      /\ Numbers(M) = Numbers(L)
  BY <1>1, <1>4, <1>5 DEF SocketsOK, Numbers
<1>8. SocketsOK(M)
  BY <1>1, <1>7 DEF SocketsOK
<1>9. /\ x \in Numbers(L) /\ L.sockets[x].state = "connected"
      /\ \A d \in Descriptors : L.files[d] # x
  BY <1>3 DEF LayerOK, BacklogsOK
<1>10. Opens(M, L, x)
  BY <1>5, <1>7, <1>9 DEF Opens, next
<1>11. \A s \in Numbers(L) :
         /\ M.sockets[s].state = L.sockets[s].state
         /\ M.sockets[s].shut = L.sockets[s].shut
         /\ M.sockets[s].peer = L.sockets[s].peer
         /\ M.sockets[s].inbox = L.sockets[s].inbox
  BY <1>4, <1>7
<1>12. FilesOK(M)
  BY <1>1, <1>5, <1>6, <1>7, <1>9, NumbersAre
  DEF LayerOK, FilesOK, NoSocket, OtherFile
<1>13. PeersOK(M)
  BY <1>7, <1>11 DEF LayerOK, PeersOK
<1>14. BacklogsOK(M)
  <2> DEFINE before(m, i) == IF m = l THEN i + 1 ELSE i
  <2>1. \A m \in Numbers(L) : \A i \in DOMAIN M.sockets[m].backlog :
          /\ before(m, i) \in DOMAIN L.sockets[m].backlog
          /\ M.sockets[m].backlog[i] = L.sockets[m].backlog[before(m, i)]
          /\ L.sockets[m].backlog[before(m, i)] # x
    <3> TAKE m \in Numbers(L)
    <3> TAKE i \in DOMAIN M.sockets[m].backlog
    <3>1. CASE m = l
      <4>1. i \in 1 .. Len(queue) - 1
        BY <1>3, <1>4, <1>7, <3>1
      <4>2. i + 1 \in DOMAIN queue /\ Tail(queue)[i] = queue[i + 1]
        BY <1>3, <4>1
      <4>3. queue[i + 1] # queue[1]
        BY <1>3, <4>1, <4>2 DEF LayerOK, BacklogsOK
      <4>4. QED
        BY <1>3, <1>4, <1>7, <3>1, <4>2, <4>3
    <3>2. CASE m # l
      <4>1. M.sockets[m].backlog = L.sockets[m].backlog
        BY <1>7, <3>2
      <4>2. L.sockets[m].backlog[i] # queue[1]
        BY <1>3, <3>2, <4>1 DEF LayerOK, BacklogsOK
      <4>3. QED
        BY <1>3, <3>2, <4>1, <4>2
    <3>3. QED
      BY <3>1, <3>2
  <2>2. \A m, k \in Numbers(L) :
          \A i \in DOMAIN M.sockets[m].backlog, j \in DOMAIN M.sockets[k].backlog :
            before(m, i) = before(k, j) /\ m = k => i = j
    <3>1. \A m \in Numbers(L) : \A i \in DOMAIN M.sockets[m].backlog : i \in Int
      <4> TAKE m \in Numbers(L)
      <4>1. M.sockets[m].backlog \in Seq(1 .. MaxSockets)
        BY <1>1, <1>4, <1>7 DEF Sockets
      <4>2. QED
        BY <4>1
    <3>2. QED
      BY <3>1
  <2> HIDE DEF before
  <2>3. \A d \in Descriptors : M.files[d] \in {L.files[d], x}
    BY <1>5 DEF LayerOK, FilesOK
  <2>4. \A m \in Numbers(M) : \A i \in DOMAIN M.sockets[m].backlog :
          /\ M.sockets[m].backlog[i] \in Numbers(M)
          /\ M.sockets[M.sockets[m].backlog[i]].state = "connected"
          /\ \A d \in Descriptors : M.files[d] # M.sockets[m].backlog[i]
    BY <1>7, <1>11, <2>1, <2>3 DEF LayerOK, BacklogsOK
  <2>5. QED
    BY <1>7, <2>1, <2>2, <2>4 DEF LayerOK, BacklogsOK
<1>15. Grows(M, L)
  BY <1>5, <1>7, <1>8, <1>11, <1>12, <1>13, <1>14 DEF Grows, LayerOK, PeersOK
<1>16. QED
  BY <1>7, <1>9, <1>10, <1>11, <1>15

LEMMA AnsweredOK ==
  ASSUME NEW L, LayerOK(L), MayMakeSocket(L),
         NEW s \in Numbers(L), L.sockets[s].state = "connecting",
         NEW l \in Listening(L), NEW M, M = Answered(L, s, l)
  PROVE  /\ Grows(M, L)
         /\ M.files = L.files
         /\ \A u \in Numbers(L) : u # s => /\ M.sockets[u].state = L.sockets[u].state
                                         /\ M.sockets[u].inbox = L.sockets[u].inbox
<1> DEFINE n == Len(L.sockets) + 1
           new == NewSocket("connected", s)
           caller == [L.sockets[s] EXCEPT !.state = "connected", !.peer = n]
           listener == [L.sockets[l] EXCEPT !.backlog = Append(@, n)]
           queue == L.sockets[l].backlog
           before == [L.sockets EXCEPT ![s] = caller, ![l] = listener]
<1>1. /\ SocketsOK(L) /\ Len(L.sockets) \in Nat /\ n \in 1 .. MaxSockets
      /\ Numbers(L) = 1 .. Len(L.sockets)
      /\ MaxSockets \in Nat
      /\ \A u \in Numbers(L) : L.sockets[u] \in Sockets
      /\ n \notin Numbers(L)
  BY NumbersAre DEF LayerOK, MayMakeSocket
<1>2. /\ l \in Numbers(L) /\ L.sockets[l].state = "listening" /\ l # s
  BY DEF Listening
<1> HIDE DEF n
<1>3. /\ new \in Sockets /\ new.state = "connected" /\ new.peer = s
      /\ new.inbox = <<>> /\ new.backlog = <<>>
  BY <1>1, EmptySeq DEF NewSocket, Sockets, States
<1>4. /\ caller \in Sockets /\ caller.state = "connected" /\ caller.peer = n
      /\ caller.shut = L.sockets[s].shut
      /\ caller.inbox = <<>> /\ caller.backlog = L.sockets[s].backlog
  <2>1. L.sockets[s].inbox = <<>>
    BY DEF LayerOK, PeersOK
  <2>2. L.sockets[s] \in Sockets /\ n \in 0 .. MaxSockets
    BY <1>1
  <2>3. QED
    BY <2>1, <2>2 DEF Sockets, States
<1>5. /\ queue \in Seq(1 .. MaxSockets)
      /\ Append(queue, n) \in Seq(1 .. MaxSockets)
      /\ DOMAIN queue = 1 .. Len(queue) /\ Len(queue) \in Nat
      /\ DOMAIN Append(queue, n) = 1 .. Len(queue) + 1
      /\ \A i \in 1 .. Len(queue) : Append(queue, n)[i] = queue[i]
      /\ Append(queue, n)[Len(queue) + 1] = n
  <2>1. queue \in Seq(1 .. MaxSockets)
    BY <1>1, <1>2 DEF Sockets
  <2> HIDE DEF queue
  <2>2. /\ Append(queue, n) \in Seq(1 .. MaxSockets)
        /\ Len(Append(queue, n)) = Len(queue) + 1
        /\ \A i \in 1 .. Len(queue) : Append(queue, n)[i] = queue[i]
        /\ Append(queue, n)[Len(queue) + 1] = n
    BY <1>1, <2>1, AppendProperties
  <2>3. /\ DOMAIN queue = 1 .. Len(queue) /\ Len(queue) \in Nat
        /\ DOMAIN Append(queue, n) = 1 .. Len(queue) + 1
    BY <2>1, <2>2, LenProperties
  <2>4. QED
    BY <2>1, <2>2, <2>3
<1>6. /\ listener \in Sockets /\ listener.state = "listening"
      /\ listener.backlog = Append(queue, n)
      /\ listener.shut = L.sockets[l].shut
      /\ listener.peer = L.sockets[l].peer /\ listener.inbox = <<>>
  <2>1. L.sockets[l].inbox = <<>>
    BY <1>2 DEF LayerOK, PeersOK
  <2>2. QED
    BY <1>1, <1>2, <1>5, <2>1 DEF Sockets
<1>7. /\ M = [files |-> M.files, sockets |-> M.sockets]
      /\ M.files = L.files
      /\ M.sockets = Append(before, new)
  BY DEF Answered, LayerOK, n
<1> HIDE DEF new, caller, listener, queue
<1>8. /\ before \in Seq(Sockets) /\ Len(before) = Len(L.sockets)
      /\ before[s] = caller /\ before[l] = listener
      /\ \A u \in Numbers(L) \ {s, l} : before[u] = L.sockets[u]
  BY <1>1, <1>2, <1>4, <1>6 DEF SocketsOK, Numbers
<1> HIDE DEF before
<1>9. /\ M.sockets \in Seq(Sockets)
      /\ Len(M.sockets) = n
      /\ M.sockets[n] = new /\ M.sockets[s] = caller /\ M.sockets[l] = listener
      /\ \A u \in Numbers(L) \ {s, l} : M.sockets[u] = L.sockets[u]
      /\ Numbers(M) = Numbers(L) \cup {n}
  <2>1. /\ Append(before, new) \in Seq(Sockets)
        /\ Len(Append(before, new)) = Len(before) + 1
        /\ \A i \in 1 .. Len(before) : Append(before, new)[i] = before[i]
        /\ Append(before, new)[Len(before) + 1] = new
    BY <1>3, <1>8, AppendProperties
  <2>2. DOMAIN M.sockets = 1 .. n
    BY <1>7, <1>8, <2>1, LenProperties DEF n
  <2>3. QED
    BY <1>1, <1>2, <1>7, <1>8, <2>1, <2>2 DEF Numbers, n
<1>10. SocketsOK(M)
  BY <1>1, <1>9 DEF SocketsOK
<1>11. FilesOK(M)
  BY <1>1, <1>7, <1>9, NumbersAre, SMTT(60) DEF LayerOK, FilesOK, NoSocket, OtherFile
<1>12. \A u \in Numbers(L) : u # s =>
         /\ M.sockets[u].state = L.sockets[u].state
         /\ M.sockets[u].peer = L.sockets[u].peer
         /\ M.sockets[u].shut = L.sockets[u].shut
         /\ M.sockets[u].inbox = L.sockets[u].inbox
  <2>1. L.sockets[l].inbox = <<>>
    BY <1>2 DEF LayerOK, PeersOK
  <2>2. QED
    BY <1>2, <1>6, <1>9, <2>1
<1>13. PeersOK(M)
  <2>1. /\ M.sockets[n].state = "connected" /\ M.sockets[n].peer = s
        /\ M.sockets[s].state = "connected" /\ M.sockets[s].peer = n
        /\ s # n
    BY <1>1, <1>3, <1>4, <1>9
  <2>2. \A u \in Numbers(L) : u # s =>
          IF M.sockets[u].state = "connected"
          THEN /\ M.sockets[u].peer \in Numbers(L) \ {u, s}
               /\ M.sockets[M.sockets[u].peer].state = "connected"
               /\ M.sockets[M.sockets[u].peer].peer = u
          ELSE M.sockets[u].inbox = <<>>
    BY <1>12 DEF LayerOK, PeersOK
  <2>3. QED
    BY <1>9, <2>1, <2>2 DEF PeersOK
<1>14. BacklogsOK(M)
  <2>1. \A d \in Descriptors : L.files[d] # n
    BY <1>1, NumbersAre DEF LayerOK, FilesOK, NoSocket, OtherFile
  <2>2. \A m \in Numbers(M) : \A i \in DOMAIN M.sockets[m].backlog :
          \/ /\ m \in Numbers(L) /\ i \in DOMAIN L.sockets[m].backlog
             /\ M.sockets[m].backlog[i] = L.sockets[m].backlog[i]
             /\ M.sockets[m].backlog[i] # n
          \/ /\ m = l /\ i = Len(queue) + 1
             /\ M.sockets[m].backlog[i] = n
    <3> TAKE m \in Numbers(M)
    <3> TAKE i \in DOMAIN M.sockets[m].backlog
    <3>1. CASE m = n
      BY <1>3, <1>9, <3>1
    <3>2. CASE m = l
      <4>1. i \in 1 .. Len(queue) + 1 /\ M.sockets[m].backlog = Append(queue, n)
        BY <1>5, <1>6, <1>9, <3>2
      <4>2. CASE i = Len(queue) + 1
        BY <1>5, <3>2, <4>1, <4>2
      <4>3. CASE i # Len(queue) + 1
        <5>1. i \in DOMAIN queue /\ M.sockets[m].backlog[i] = queue[i]
          BY <1>5, <4>1, <4>3
        <5>2. queue[i] \in Numbers(L)
          BY <1>2, <5>1 DEF LayerOK, BacklogsOK, queue
        <5>3. QED
          BY <1>1, <1>2, <3>2, <5>1, <5>2 DEF queue
      <4>4. QED
        BY <4>2, <4>3
    <3>3. CASE m \notin {n, l}
      <4>1. m \in Numbers(L) /\ M.sockets[m].backlog = L.sockets[m].backlog
        BY <1>4, <1>9, <3>3
      <4>2. L.sockets[m].backlog[i] \in Numbers(L)
        BY <4>1 DEF LayerOK, BacklogsOK
      <4>3. QED
        BY <1>1, <4>1, <4>2
    <3>4. QED
      BY <3>1, <3>2, <3>3
  <2>3. \A u \in Numbers(L) :
          L.sockets[u].state = "connected" => M.sockets[u].state = "connected"
    BY <1>4, <1>9, <1>12
  <2>4. M.sockets[n].state = "connected"
    BY <1>3, <1>9
  <2>5. \A m \in Numbers(M) : \A i \in DOMAIN M.sockets[m].backlog :
          /\ M.sockets[m].backlog[i] \in Numbers(M)
          /\ M.sockets[M.sockets[m].backlog[i]].state = "connected"
          /\ \A d \in Descriptors : M.files[d] # M.sockets[m].backlog[i]
    <3> TAKE m \in Numbers(M)
    <3> TAKE i \in DOMAIN M.sockets[m].backlog
    <3>1. CASE M.sockets[m].backlog[i] = n
      BY <1>7, <1>9, <2>1, <2>4, <3>1
    <3>2. CASE M.sockets[m].backlog[i] # n
      <4>1. /\ m \in Numbers(L) /\ i \in DOMAIN L.sockets[m].backlog
            /\ M.sockets[m].backlog[i] = L.sockets[m].backlog[i]
        BY <2>2, <3>2
      <4>2. /\ L.sockets[m].backlog[i] \in Numbers(L)
            /\ L.sockets[L.sockets[m].backlog[i]].state = "connected"
            /\ \A d \in Descriptors : L.files[d] # L.sockets[m].backlog[i]
        BY <4>1 DEF LayerOK, BacklogsOK
      <4>3. QED
        BY <1>7, <1>9, <2>3, <4>1, <4>2
    <3>3. QED
      BY <3>1, <3>2
  <2>6. \A m, k \in Numbers(M) :
          \A i \in DOMAIN M.sockets[m].backlog, j \in DOMAIN M.sockets[k].backlog :
            M.sockets[m].backlog[i] = M.sockets[k].backlog[j] => m = k /\ i = j
    BY <2>2 DEF LayerOK, BacklogsOK
  <2>7. QED
    BY <2>5, <2>6 DEF BacklogsOK
<1>15. LayerOK(M)
  BY <1>7, <1>10, <1>11, <1>13, <1>14 DEF LayerOK
<1>16. Grows(M, L)
  <2>1. \A u \in Numbers(L) :
          L.sockets[u].state # "connected" => L.sockets[u].inbox = <<>>
    BY DEF LayerOK, PeersOK
  <2>2. QED
    BY <1>3, <1>4, <1>9, <1>12, <1>15, <2>1 DEF Grows
<1>17. QED
  BY <1>7, <1>12, <1>16

(* connect(2) starts or is refused. *)
SetsState(M, L, s, state) ==
  Changes(M, L, s, [L.sockets[s] EXCEPT !.state = state])

LEMMA StateChanges ==
  ASSUME NEW L, LayerOK(L), NEW s \in Numbers(L),
         L.sockets[s].state \in {"fresh", "connecting"},
         NEW state \in {"fresh", "connecting"}, NEW M, SetsState(M, L, s, state)
  PROVE  /\ Grows(M, L)
         /\ Numbers(M) = Numbers(L)
         /\ M.files = L.files
         /\ \A u \in Numbers(L) : u # s => M.sockets[u].state = L.sockets[u].state
<1> DEFINE socket == [L.sockets[s] EXCEPT !.state = state]
<1>1. L.sockets[s] \in Sockets
  BY NumbersAre DEF LayerOK
<1>2. /\ socket \in Sockets /\ socket.state = state
      /\ socket.backlog = L.sockets[s].backlog /\ socket.peer = L.sockets[s].peer
      /\ socket.inbox = L.sockets[s].inbox /\ socket.shut = L.sockets[s].shut
  BY <1>1 DEF Sockets, States
<1>3. Changes(M, L, s, socket)
  BY DEF SetsState
<1>4. L.sockets[s].inbox = <<>>
  BY DEF LayerOK, PeersOK
<1> HIDE DEF socket
<1>5. Suits(L, s, socket)
  BY <1>2, <1>4 DEF Suits
<1>6. /\ Resembles(M, L)
      /\ M.files = L.files
      /\ M.sockets[s] = socket
      /\ \A u \in Numbers(L) \ {s} : M.sockets[u] = L.sockets[u]
  BY <1>3, <1>5, SocketChanges
<1>7. \A u \in Numbers(L) : L.sockets[u].shut => M.sockets[u].shut
  BY <1>2, <1>6
<1>8. QED
  BY <1>6, <1>7, ResemblingGrows

(* Bytes arrive, are received or are lost. *)
SetsInbox(M, L, s, inbox) ==
  Changes(M, L, s, [L.sockets[s] EXCEPT !.inbox = inbox])

LEMMA InboxChanges ==
  ASSUME NEW L, LayerOK(L), NEW s \in Numbers(L),
         L.sockets[s].state = "connected",
         NEW inbox \in Seq(Nat), NEW M, SetsInbox(M, L, s, inbox)
  PROVE  /\ Grows(M, L)
         /\ Numbers(M) = Numbers(L)
         /\ M.files = L.files
         /\ M.sockets[s].inbox = inbox
         /\ \A u \in Numbers(L) :
              /\ u # s => M.sockets[u].inbox = L.sockets[u].inbox
              /\ M.sockets[u].state = L.sockets[u].state
              /\ M.sockets[u].peer = L.sockets[u].peer
              /\ M.sockets[u].shut = L.sockets[u].shut
<1> DEFINE socket == [L.sockets[s] EXCEPT !.inbox = inbox]
<1>1. L.sockets[s] \in Sockets
  BY NumbersAre DEF LayerOK
<1>2. /\ socket \in Sockets /\ socket.state = L.sockets[s].state
      /\ socket.backlog = L.sockets[s].backlog /\ socket.peer = L.sockets[s].peer
      /\ socket.inbox = inbox /\ socket.shut = L.sockets[s].shut
  BY <1>1 DEF Sockets, States
<1>3. Changes(M, L, s, socket)
  BY DEF SetsInbox
<1> HIDE DEF socket
<1>4. Suits(L, s, socket)
  BY <1>2 DEF Suits
<1>5. /\ Resembles(M, L)
      /\ M.files = L.files
      /\ M.sockets[s] = socket
      /\ \A u \in Numbers(L) \ {s} : M.sockets[u] = L.sockets[u]
  BY <1>3, <1>4, SocketChanges
<1>6. \A u \in Numbers(L) :
        /\ u # s => M.sockets[u].inbox = L.sockets[u].inbox
        /\ M.sockets[u].state = L.sockets[u].state
        /\ M.sockets[u].peer = L.sockets[u].peer
        /\ M.sockets[u].shut = L.sockets[u].shut
  BY <1>2, <1>5
<1>7. Grows(M, L) /\ Numbers(M) = Numbers(L)
  BY <1>5, <1>6, ResemblingGrows
<1>8. QED
  BY <1>2, <1>5, <1>6, <1>7

LEMMA ShutdownGrows ==
  ASSUME NEW L, LayerOK(L), NEW s \in Numbers(L), NEW M \in AfterShutdown(L, s)
  PROVE  /\ Grows(M, L)
         /\ Numbers(M) = Numbers(L)
         /\ M.files = L.files
         /\ \A u \in Numbers(L) : M.sockets[u].inbox = L.sockets[u].inbox
         /\ \A u \in Numbers(L) : u # s => M.sockets[u].state = L.sockets[u].state
<1>1. /\ Resembles(M, L)
      /\ M.files = L.files
      /\ \A u \in Numbers(L) :
           /\ L.sockets[u].shut => M.sockets[u].shut
           /\ M.sockets[u].inbox = L.sockets[u].inbox
           /\ u # s => M.sockets[u].state = L.sockets[u].state
  BY AfterShutdownOK
<1>2. Grows(M, L) /\ Numbers(M) = Numbers(L)
  BY <1>1, ResemblingGrows
<1>3. QED
  BY <1>1, <1>2

LEMMA WithoutFileOK ==
  ASSUME NEW L, LayerOK(L), NEW d \in Descriptors, NEW M, M = WithoutFile(L, d)
  PROVE  /\ Grows(M, L)
         /\ Numbers(M) = Numbers(L)
         /\ M.sockets = L.sockets
         /\ M.files = [L.files EXCEPT ![d] = NoSocket]
<1>1. /\ M = [files |-> M.files, sockets |-> M.sockets]
      /\ M.sockets = L.sockets
      /\ M.files = [L.files EXCEPT ![d] = NoSocket]
  BY DEF WithoutFile, LayerOK
<1>2. M.files \in [Descriptors -> 0 .. OtherFile]
      /\ \A e \in Descriptors : M.files[e] \in {L.files[e], NoSocket}
  BY <1>1, LayerAssumption DEF LayerOK, FilesOK, NoSocket, OtherFile
<1>3. \A s \in Numbers(L) :
        L.sockets[s].state # "connected" => M.sockets[s].inbox = <<>>
  BY <1>1 DEF LayerOK, PeersOK
<1>4. SocketsOK(M)
  BY <1>1 DEF LayerOK, SocketsOK
<1>5. Resembles(M, L)
  BY <1>1, <1>2, <1>3, <1>4 DEF Resembles
<1>6. Grows(M, L) /\ Numbers(M) = Numbers(L)
  BY <1>1, <1>5, ResemblingGrows
<1>7. QED
  BY <1>1, <1>6

-----------------------------------------------------------------------------
(* Who refers to the layer, after a step.                                  *)

LEMMA ObjectsKept ==
  ASSUME LayerOK(layer), ObjectsOK,
         Grows(layer', layer), layer'.files = layer.files, UNCHANGED leaked,
         \A o \in Objects : /\ object'[o].exists <=> object[o].exists
                            /\ object'[o].socket_ = object[o].socket_
  PROVE  /\ ObjectsOK'
         /\ Existing' = Existing
         /\ \A o \in Existing : SocketOf(o)' = SocketOf(o)
<1>1. Existing' = Existing
  BY DEF Existing
<1>2. \A o \in Existing : SocketOf(o)' = SocketOf(o)
  BY DEF Existing, SocketOf
<1>3. \A d \in Descriptors :
        layer'.files[d] \in Numbers(layer') => layer.files[d] \in Numbers(layer)
  BY NumbersAre DEF LayerOK, FilesOK, Grows
<1>4. \A o \in Existing : SocketOf(o)' \in Numbers(layer)'
  BY <1>2 DEF ObjectsOK, Grows
<1>5. \A o \in Existing : object'[o].socket_ = object[o].socket_
  BY DEF Existing
<1>6. ObjectsOK'
  <2>1. \A o \in Existing : object'[o].socket_ \in Descriptors \ leaked
    BY <1>5 DEF ObjectsOK
  <2>2. \A o, q \in Existing : object'[o].socket_ = object'[q].socket_ => o = q
    BY <1>5 DEF ObjectsOK
  <2>3. \A d \in leaked : layer'.files[d] \in Numbers(layer')
    BY DEF ObjectsOK, Grows
  <2>4. \A d \in Descriptors : layer'.files[d] \in Numbers(layer') =>
          d \in leaked \/ \E o \in Existing : object'[o].socket_ = d
    BY <1>3, <1>5 DEF ObjectsOK
  <2>5. QED
    BY <1>1, <1>4, <2>1, <2>2, <2>3, <2>4 DEF ObjectsOK
<1>7. QED
  BY <1>1, <1>2, <1>6

(* A new descriptor belongs to nobody. *)
LEMMA NextIsNobodys ==
  ASSUME LayerOK(layer), ObjectsOK, ~IsTableFull(layer)
  PROVE  /\ NextDescriptor(layer) \in Descriptors \ leaked
         /\ \A o \in Existing : object[o].socket_ # NextDescriptor(layer)
<1>1. /\ NextDescriptor(layer) \in Descriptors
      /\ layer.files[NextDescriptor(layer)] = NoSocket
  BY NextIsFree
<1>2. NoSocket \notin Numbers(layer)
  BY NumbersAre DEF LayerOK
<1>3. QED
  BY <1>1, <1>2 DEF ObjectsOK, SocketOf

LEMMA FilesAfterOpening ==
  ASSUME NEW x, LayerOK(layer), ~IsTableFull(layer), Grows(layer', layer),
         Opens(layer', layer, x)
  PROVE  /\ layer'.files[NextDescriptor(layer)] = x
         /\ x \in Numbers(layer')
         /\ \A d \in Descriptors \ {NextDescriptor(layer)} :
              /\ layer'.files[d] = layer.files[d]
              /\ layer'.files[d] \in Numbers(layer') =>
                   layer.files[d] \in Numbers(layer)
<1>1. NextDescriptor(layer) \in Descriptors
  BY NextIsFree
<1>2. NoSocket \notin Numbers(layer') /\ OtherFile \notin Numbers(layer')
  BY NumbersAre DEF Grows, LayerOK
<1>3. QED
  BY <1>1, <1>2 DEF LayerOK, FilesOK, Opens

LEMMA ObjectMade ==
  ASSUME LayerOK(layer), VariablesOK, ObjectsOK, ~IsTableFull(layer),
         NEW x, Grows(layer', layer), Opens(layer', layer, x),
         NEW o \in Objects, ~object[o].exists, NEW flag \in BOOLEAN,
         object' = [object EXCEPT ![o] = NewObject(flag, NextDescriptor(layer))],
         UNCHANGED leaked
  PROVE  /\ ObjectsOK'
         /\ Existing' = Existing \cup {o} /\ o \notin Existing
         /\ SocketOf(o)' = x
         /\ object'[o].flag = flag
         /\ \A q \in Existing : /\ SocketOf(q)' = SocketOf(q)
                                /\ object'[q] = object[q]
<1> DEFINE next == NextDescriptor(layer)
<1>1. /\ next \in Descriptors \ leaked
      /\ \A q \in Existing : object[q].socket_ # next
  BY NextIsNobodys
<1>2. /\ layer'.files[next] = x /\ x \in Numbers(layer')
      /\ \A d \in Descriptors \ {next} :
           /\ layer'.files[d] = layer.files[d]
           /\ layer'.files[d] \in Numbers(layer') => layer.files[d] \in Numbers(layer)
  BY FilesAfterOpening
<1> HIDE DEF next
<1>3. /\ object'[o].exists /\ object'[o].flag = flag /\ object'[o].socket_ = next
      /\ \A q \in Objects \ {o} : object'[q] = object[q]
  BY DEF VariablesOK, NewObject, next
<1>4. Existing' = Existing \cup {o} /\ o \notin Existing
  BY <1>3 DEF Existing
<1>5. \A q \in Existing : object'[q] = object[q]
  BY <1>3, <1>4 DEF Existing
<1>6. SocketOf(o)' = x /\ \A q \in Existing : SocketOf(q)' = SocketOf(q)
  BY <1>1, <1>2, <1>3, <1>5 DEF SocketOf, ObjectsOK
<1>7. ObjectsOK'
  <2>1. \A q \in Existing' : /\ object'[q].socket_ \in Descriptors \ leaked
                             /\ SocketOf(q)' \in Numbers(layer)'
    BY <1>1, <1>2, <1>3, <1>4, <1>5, <1>6 DEF ObjectsOK, Grows
  <2>2. \A q, r \in Existing' : object'[q].socket_ = object'[r].socket_ => q = r
    BY <1>1, <1>3, <1>4, <1>5 DEF ObjectsOK
  <2>3. \A d \in leaked : layer'.files[d] \in Numbers(layer')
    BY <1>1, <1>2 DEF ObjectsOK, Grows, VariablesOK
  <2>4. \A d \in Descriptors : layer'.files[d] \in Numbers(layer') =>
          d \in leaked \/ \E q \in Existing' : object'[q].socket_ = d
    <3> TAKE d \in Descriptors
    <3>1. CASE d = next
      BY <1>3, <1>4, <3>1
    <3>2. CASE d # next
      BY <1>2, <1>4, <1>5, <3>2 DEF ObjectsOK
    <3>3. QED
      BY <3>1, <3>2
  <2>5. QED
    BY <2>1, <2>2, <2>3, <2>4 DEF ObjectsOK
<1>8. QED
  BY <1>3, <1>4, <1>5, <1>6, <1>7

LEMMA DescriptorLeaked ==
  ASSUME LayerOK(layer), VariablesOK, ObjectsOK, ~IsTableFull(layer),
         NEW x, Grows(layer', layer), Opens(layer', layer, x),
         UNCHANGED object, leaked' = leaked \cup {NextDescriptor(layer)}
  PROVE  /\ ObjectsOK'
         /\ leaked' \subseteq Descriptors
         /\ Existing' = Existing
         /\ \A q \in Existing : SocketOf(q)' = SocketOf(q)
<1> DEFINE next == NextDescriptor(layer)
<1>1. /\ next \in Descriptors \ leaked
      /\ \A q \in Existing : object[q].socket_ # next
  BY NextIsNobodys
<1>2. /\ layer'.files[next] = x /\ x \in Numbers(layer')
      /\ \A d \in Descriptors \ {next} :
           /\ layer'.files[d] = layer.files[d]
           /\ layer'.files[d] \in Numbers(layer') => layer.files[d] \in Numbers(layer)
  BY FilesAfterOpening
<1> HIDE DEF next
<1>3. leaked' = leaked \cup {next} /\ leaked' \subseteq Descriptors
  BY <1>1 DEF VariablesOK, next
<1>4. Existing' = Existing
  BY DEF Existing
<1>5. \A q \in Existing : SocketOf(q)' = SocketOf(q)
  BY <1>1, <1>2 DEF SocketOf, ObjectsOK
<1>6. ObjectsOK'
  <2>1. \A q \in Existing : /\ object[q].socket_ \in Descriptors \ leaked'
                            /\ SocketOf(q)' \in Numbers(layer)'
    BY <1>1, <1>3, <1>5 DEF ObjectsOK, Grows
  <2>2. \A d \in leaked' : layer'.files[d] \in Numbers(layer')
    BY <1>1, <1>2, <1>3 DEF ObjectsOK, Grows, VariablesOK
  <2>3. \A d \in Descriptors : layer'.files[d] \in Numbers(layer') =>
          d \in leaked' \/ \E q \in Existing : object[q].socket_ = d
    BY <1>2, <1>3 DEF ObjectsOK
  <2>4. QED
    BY <1>4, <2>1, <2>2, <2>3 DEF ObjectsOK
<1>7. QED
  BY <1>3, <1>4, <1>5, <1>6

LEMMA ObjectDestroyed ==
  ASSUME LayerOK(layer), VariablesOK, ObjectsOK, NEW o \in Existing,
         Grows(layer', layer), Numbers(layer') = Numbers(layer),
         layer'.files = [layer.files EXCEPT ![object[o].socket_] = NoSocket],
         object' = [object EXCEPT ![o] = NotThere],
         UNCHANGED leaked
  PROVE  /\ ObjectsOK'
         /\ Existing' = Existing \ {o}
         /\ \A q \in Existing \ {o} : /\ SocketOf(q)' = SocketOf(q)
                                      /\ object'[q] = object[q]
<1> DEFINE d == object[o].socket_
<1>1. d \in Descriptors \ leaked /\ \A q \in Existing \ {o} : object[q].socket_ # d
  BY DEF ObjectsOK
<1>2. layer'.files[d] = NoSocket /\ NoSocket \notin Numbers(layer')
  BY <1>1, NumbersAre DEF LayerOK, FilesOK
<1>3. \A e \in Descriptors \ {d} : layer'.files[e] = layer.files[e]
  BY <1>1 DEF LayerOK, FilesOK
<1>4. /\ ~object'[o].exists
      /\ \A q \in Objects \ {o} : object'[q] = object[q]
  BY DEF VariablesOK, NotThere, Existing
<1> HIDE DEF d
<1>5. Existing' = Existing \ {o}
  BY <1>4 DEF Existing
<1>6. \A q \in Existing \ {o} : object'[q] = object[q]
  BY <1>4 DEF Existing
<1>7. \A q \in Existing \ {o} : SocketOf(q)' = SocketOf(q)
  BY <1>1, <1>3, <1>6 DEF SocketOf, ObjectsOK
<1>8. ObjectsOK'
  <2>1. \A q \in Existing \ {o} : /\ object'[q].socket_ \in Descriptors \ leaked
                                  /\ SocketOf(q)' \in Numbers(layer)'
    BY <1>6, <1>7 DEF ObjectsOK
  <2>2. \A q, r \in Existing \ {o} : object'[q].socket_ = object'[r].socket_ => q = r
    BY <1>6 DEF ObjectsOK
  <2>3. \A e \in leaked : layer'.files[e] \in Numbers(layer')
    BY <1>1, <1>3 DEF ObjectsOK, VariablesOK
  <2>4. \A e \in Descriptors : layer'.files[e] \in Numbers(layer') =>
          e \in leaked \/ \E q \in Existing \ {o} : object'[q].socket_ = e
    <3> TAKE e \in Descriptors
    <3>1. CASE e = d
      BY <1>2, <3>1
    <3>2. CASE e # d
      BY <1>3, <1>6, <3>2 DEF ObjectsOK, d
    <3>3. QED
      BY <3>1, <3>2
  <2>5. QED
    BY <1>5, <2>1, <2>2, <2>3, <2>4 DEF ObjectsOK
<1>9. QED
  BY <1>5, <1>6, <1>7, <1>8

(* Who is in a call and stays there is not disturbed by others. *)
OpsUndisturbed ==
  /\ \A t \in Threads : op[t].pc # "idle" => op[t].on \in Existing'
  /\ \A o \in Existing : o \in Existing' => SocketOf(o)' = SocketOf(o)
  /\ \A l \in Existing \cap Listeners :
       l \in Existing' /\ object'[l].flag => object[l].flag

LEMMA OpsKept ==
  ASSUME ObjectsOK, OpsOK, Grows(layer', layer), OpsUndisturbed
  PROVE  \A t \in Threads : op'[t] = op[t] => ThreadOK(t)'
<1> SUFFICES ASSUME NEW t \in Threads, op'[t] = op[t] PROVE ThreadOK(t)'
  OBVIOUS
<1>1. CASE op[t].pc = "idle"
  BY <1>1 DEF OpsOK, ThreadOK
<1>2. CASE op[t].pc # "idle"
  <2> DEFINE o == op[t].on
  <2>1. o \in Existing /\ o \in Existing' /\ SocketOf(o)' = SocketOf(o)
    BY <1>2 DEF OpsOK, ThreadOK, OpsUndisturbed
  <2>2. Socket(o).state = "connected" => Socket(op[t].on)'.state = "connected"
    BY <2>1 DEF ObjectsOK, Socket, Grows
  <2>3. QED
    BY <1>2, <2>1, <2>2 DEF OpsOK, ThreadOK, OpsUndisturbed
<1>3. QED
  BY <1>1, <1>2

(* One thread makes a step. *)
LEMMA OpsStep ==
  ASSUME OpsOK, NEW t \in Threads,
         \A u \in Threads \ {t} : op'[u] = op[u],
         \A u \in Threads : op'[u] = op[u] => ThreadOK(u)',
         ThreadOK(t)',
         \/ op'[t].pc \in {"idle", "close"}
         \/ op'[t].on = op[t].on /\ op[t].pc \notin {"idle", "close"}
         \/ \A u \in Callers(op'[t].on) : op[u].pc = "close"
  PROVE  OpsOK'
<1>1. \A u \in Threads : ThreadOK(u)'
  OBVIOUS
<1>2. ASSUME NEW u \in Threads \ {t}, op'[t].pc \notin {"idle", "close"},
             op'[u].pc \notin {"idle", "close"}, op'[u].on = op'[t].on
      PROVE  FALSE
  <2>1. op[u].pc \notin {"idle", "close"} /\ op[u].on = op'[t].on
    BY <1>2
  <2>2. u \in Callers(op'[t].on)
    BY <2>1 DEF Callers
  <2>3. op'[t].on = op[t].on /\ op[t].pc \notin {"idle", "close"}
    BY <1>2, <2>1, <2>2
  <2>4. QED
    BY <2>1, <2>3 DEF OpsOK
<1>3. ASSUME NEW u \in Threads, NEW v \in Threads,
             {op'[u].pc, op'[v].pc} \cap {"idle", "close"} = {},
             op'[u].on = op'[v].on
      PROVE  u = v
  <2>1. op'[u].pc \notin {"idle", "close"} /\ op'[v].pc \notin {"idle", "close"}
    BY <1>3
  <2>2. CASE u # t /\ v # t
    <3>1. op'[u] = op[u] /\ op'[v] = op[v]
      BY <2>2
    <3>2. QED
      BY <1>3, <3>1 DEF OpsOK
  <2>3. QED
    BY <1>2, <1>3, <2>1, <2>2
<1>4. QED
  BY <1>1, <1>3 DEF OpsOK

LEMMA FlagsKept ==
  ASSUME ObjectsOK, FlagsAreTrue, Grows(layer', layer),
         \A o \in Existing : o \in Existing' => SocketOf(o)' = SocketOf(o),
         \A c \in Existing' \cap Connections : object'[c].flag =>
           \/ c \in Existing /\ object[c].flag
           \/ Socket(c)'.state = "connected",
         \A l \in Existing' \cap Listeners : object'[l].flag =>
           \/ /\ l \in Existing /\ object[l].flag
              /\ Socket(l).state = "listening" => Socket(l)'.state = "listening"
           \/ Socket(l)'.state = "listening"
  PROVE  FlagsAreTrue'
<1>1. ASSUME NEW c \in Existing' \cap Connections, object'[c].flag
      PROVE  Socket(c)'.state = "connected"
  <2>1. CASE c \in Existing /\ object[c].flag
    <3>1. Socket(c).state = "connected" /\ SocketOf(c) \in Numbers(layer)
      BY <1>1, <2>1 DEF FlagsAreTrue, ObjectsOK
    <3>2. QED
      BY <1>1, <2>1, <3>1 DEF Grows, Socket
  <2>2. QED
    BY <1>1, <2>1
<1>2. ASSUME NEW l \in Existing' \cap Listeners, object'[l].flag
      PROVE  Socket(l)'.state = "listening"
  BY <1>2 DEF FlagsAreTrue
<1>3. QED
  BY <1>1, <1>2 DEF FlagsAreTrue

-----------------------------------------------------------------------------
(* The bytes between the ends of a connection, after a step.               *)

LEMMA IntervalIs ==
  ASSUME NEW a \in Nat, NEW n \in Nat
  PROVE  /\ Interval(a, n) \in Seq(Nat)
         /\ Len(Interval(a, n)) = n
         /\ \A i \in 1 .. n : Interval(a, n)[i] = a + i
         /\ n = 0 => Interval(a, n) = <<>>
<1>1. Interval(a, n) \in [1 .. n -> Nat]
  BY DEF Interval
<1>2. Interval(a, n) \in Seq(Nat) /\ Len(Interval(a, n)) = n
  BY <1>1, FunctionIsSequence
<1>3. \A i \in 1 .. n : Interval(a, n)[i] = a + i
  BY DEF Interval
<1>4. n = 0 => Interval(a, n) = <<>>
  BY <1>2, EmptySeq
<1>5. QED
  BY <1>2, <1>3, <1>4

LEMMA IntervalJoins ==
  ASSUME NEW a \in Nat, NEW n \in Nat, NEW m \in Nat
  PROVE  Interval(a, n) \o Interval(a + n, m) = Interval(a, n + m)
<1> DEFINE left == Interval(a, n)
           right == Interval(a + n, m)
           all == Interval(a, n + m)
<1>1. /\ left \in Seq(Nat) /\ Len(left) = n /\ \A i \in 1 .. n : left[i] = a + i
      /\ right \in Seq(Nat) /\ Len(right) = m
      /\ \A i \in 1 .. m : right[i] = a + n + i
      /\ all \in Seq(Nat) /\ Len(all) = n + m
      /\ \A i \in 1 .. n + m : all[i] = a + i
  <2>1. a + n \in Nat /\ n + m \in Nat
    OBVIOUS
  <2>2. left \in Seq(Nat) /\ Len(left) = n /\ \A i \in 1 .. n : left[i] = a + i
    BY IntervalIs
  <2>3. /\ right \in Seq(Nat) /\ Len(right) = m
        /\ \A i \in 1 .. m : right[i] = a + n + i
    BY <2>1, IntervalIs
  <2>4. /\ all \in Seq(Nat) /\ Len(all) = n + m
        /\ \A i \in 1 .. n + m : all[i] = a + i
    BY <2>1, IntervalIs
  <2>5. QED
    BY <2>2, <2>3, <2>4
<1> HIDE DEF left, right, all
<1>2. /\ left \o right \in Seq(Nat) /\ Len(left \o right) = n + m
      /\ \A i \in 1 .. n + m :
           (left \o right)[i] = IF i <= n THEN left[i] ELSE right[i - n]
  BY <1>1, ConcatProperties, ZenonT(60)
<1>3. ASSUME NEW i \in 1 .. n + m PROVE (left \o right)[i] = all[i]
  <2>1. CASE i <= n
    BY <1>1, <1>2, <2>1
  <2>2. CASE ~(i <= n)
    <3>1. i - n \in 1 .. m /\ a + n + (i - n) = a + i
      BY <2>2
    <3>2. right[i - n] = a + i
      BY <1>1, <3>1
    <3>3. QED
      BY <1>1, <1>2, <2>2, <3>2
  <2>3. QED
    BY <2>1, <2>2
<1>4. left \o right = all
  BY <1>1, <1>2, <1>3, SeqEqual
<1>5. QED
  BY <1>4 DEF left, right, all

LEMMA IntervalParts ==
  ASSUME NEW a \in Nat, NEW m \in Nat, NEW n \in 0 .. m
  PROVE  /\ SubSeq(Interval(a, m), 1, n) = Interval(a, n)
         /\ SubSeq(Interval(a, m), n + 1, m) = Interval(a + n, m - n)
<1> DEFINE all == Interval(a, m)
           left == Interval(a, n)
           right == Interval(a + n, m - n)
           first == SubSeq(all, 1, n)
           second == SubSeq(all, n + 1, m)
<1>1. /\ left \in Seq(Nat) /\ Len(left) = n /\ \A i \in 1 .. n : left[i] = a + i
      /\ right \in Seq(Nat) /\ Len(right) = m - n
      /\ \A i \in 1 .. m - n : right[i] = a + n + i
      /\ all \in Seq(Nat) /\ Len(all) = m /\ \A i \in 1 .. m : all[i] = a + i
  <2>1. a + n \in Nat /\ m - n \in Nat /\ n \in Nat
    OBVIOUS
  <2>2. left \in Seq(Nat) /\ Len(left) = n /\ \A i \in 1 .. n : left[i] = a + i
    BY <2>1, IntervalIs
  <2>3. /\ right \in Seq(Nat) /\ Len(right) = m - n
        /\ \A i \in 1 .. m - n : right[i] = a + n + i
    BY <2>1, IntervalIs
  <2>4. all \in Seq(Nat) /\ Len(all) = m /\ \A i \in 1 .. m : all[i] = a + i
    BY IntervalIs
  <2>5. QED
    BY <2>2, <2>3, <2>4
<1> HIDE DEF left, right, all
<1>2. \A i \in 1 .. n : all[i] \in Nat
  BY <1>1
<1>3. /\ first \in Seq(Nat) /\ Len(first) = IF 1 <= n THEN n - 1 + 1 ELSE 0
      /\ \A i \in 1 .. n - 1 + 1 : first[i] = all[1 + i - 1]
  BY <1>2, SubSeqProperties
<1>4. \A i \in n + 1 .. m : all[i] \in Nat
  BY <1>1
<1>5. /\ second \in Seq(Nat)
      /\ Len(second) = IF n + 1 <= m THEN m - (n + 1) + 1 ELSE 0
      /\ \A i \in 1 .. m - (n + 1) + 1 : second[i] = all[n + 1 + i - 1]
  BY <1>4, SubSeqProperties
<1> HIDE DEF first, second
<1>6. Len(first) = n /\ \A i \in 1 .. n : first[i] = left[i]
  BY <1>1, <1>3, SMTT(60)
<1>7. Len(second) = m - n /\ \A i \in 1 .. m - n : second[i] = right[i]
  BY <1>1, <1>5
<1>8. first = left
  BY <1>1, <1>3, <1>6, SeqEqual
<1>9. second = right
  BY <1>1, <1>5, <1>7, SeqEqual
<1>10. QED
  BY <1>8, <1>9 DEF left, right, all, first, second

(* What is connected after a step has its peer as before, or is new. *)
LEMMA ConnectedAfter ==
  ASSUME LayerOK(layer), Grows(layer', layer), NEW s \in Numbers(layer'),
         layer'.sockets[s].state = "connected"
  PROVE  LET p == layer'.sockets[s].peer
         IN  /\ p \in Numbers(layer') \ {s} /\ layer'.sockets[p].peer = s
             /\ Connected(s) =>
                  Connected(p) /\ p = layer.sockets[s].peer /\ layer.sockets[p].peer = s
             /\ ~Connected(s) =>
                  ~Connected(p) /\ layer'.sockets[p].inbox = <<>>
<1> DEFINE p == layer'.sockets[s].peer
<1>1. /\ p \in Numbers(layer') \ {s} /\ layer'.sockets[p].peer = s
      /\ layer'.sockets[p].state = "connected"
  BY DEF Grows, LayerOK, PeersOK
<1>2. Connected(s) =>
        Connected(p) /\ p = layer.sockets[s].peer /\ layer.sockets[p].peer = s
  BY DEF Grows, LayerOK, PeersOK, Connected
<1>3. Connected(p) => Connected(s)
  BY <1>1 DEF Grows, LayerOK, PeersOK, Connected
<1>4. ~Connected(p) => layer'.sockets[p].inbox = <<>>
  BY <1>1 DEF Grows, Connected
<1>5. QED
  BY <1>1, <1>2, <1>3, <1>4

(* Ended connections stay ended, on both sides. *)
LEMMA EndedStays ==
  ASSUME LayerOK(layer), Grows(layer', layer), NEW s, Connected(s)
  PROVE  /\ HasEnded(layer, s) => HasEnded(layer', s)
         /\ HasEnded(layer, s) <=> HasEnded(layer, layer.sockets[s].peer)
  BY DEF Grows, LayerOK, PeersOK, Connected, HasEnded

(* A call of send goes on with the same bytes, or the connection has ended. *)
SendersKept ==
  \A t \in Threads, s \in Numbers(layer') :
    /\ Sends(t, s)' => Sends(t, s) /\ op'[t].rest = op[t].rest
    /\ Sends(t, s) => Sends(t, s)' \/ HasEnded(layer', s)

InboxesKept ==
  \A s \in Numbers(layer) : layer.sockets[s].state = "connected" =>
    \/ layer'.sockets[s].inbox = layer.sockets[s].inbox
    \/ layer'.sockets[s].inbox = <<>> /\ HasEnded(layer, s)

LEMMA SendersAreConnected ==
  ASSUME ObjectsOK, OpsOK, NEW t \in Threads, NEW s, Sends(t, s)
  PROVE  Connected(s)
  BY DEF OpsOK, ThreadOK, ObjectsOK, Sends, Connected, Socket

LEMMA StreamTypes ==
  ASSUME LayerOK(layer), VariablesOK, NEW s, Connected(s)
  PROVE  /\ s \in 1 .. MaxSockets
         /\ Connected(layer.sockets[s].peer)
         /\ layer.sockets[s].peer \in 1 .. MaxSockets
         /\ layer.sockets[layer.sockets[s].peer].peer = s
         /\ sent[s] \in Nat
         /\ Received(s) \in Seq(Nat)
         /\ Arrived(s) \in Seq(Nat)
<1> DEFINE p == layer.sockets[s].peer
<1>1. Connected(p) /\ p \in Numbers(layer) /\ layer.sockets[p].peer = s
  BY DEF Connected, LayerOK, PeersOK
<1>2. p \in 1 .. MaxSockets /\ s \in 1 .. MaxSockets /\ layer.sockets[p] \in Sockets
  BY <1>1, NumbersAre DEF Connected, LayerOK
<1> HIDE DEF p
<1>3. layer.sockets[p].inbox \in Seq(Nat)
  BY <1>2 DEF Sockets
<1>4. got[p] \in Seq(Nat) /\ sent[s] \in 0 .. MaxBytes
  BY <1>2 DEF VariablesOK
<1>5. sent[s] \in Nat
  BY <1>4
<1>6. QED
  BY <1>1, <1>2, <1>3, <1>4, <1>5 DEF Received, Arrived, p

LEMMA StreamsKept ==
  ASSUME LayerOK(layer), VariablesOK, ObjectsOK, OpsOK, StreamsOK,
         Grows(layer', layer), UNCHANGED <<sent, got>>,
         SendersKept, InboxesKept
  PROVE  StreamsOK'
<1>1. SilenceOK'
  <2>1. \A s : Connected(s) => Connected(s)'
    BY DEF Connected, Grows
  <2>2. QED
    BY <2>1 DEF StreamsOK, SilenceOK
<1>2. ASSUME NEW s \in Numbers(layer'), Connected(s)'
      PROVE  StreamOK(s)'
  <2> DEFINE p == layer'.sockets[s].peer
  <2>1. /\ p \in Numbers(layer')
        /\ Connected(s) =>
             Connected(p) /\ p = layer.sockets[s].peer /\ layer.sockets[p].peer = s
        /\ ~Connected(s) => ~Connected(p) /\ layer'.sockets[p].inbox = <<>>
    BY <1>2, ConnectedAfter DEF Connected
  <2>2. p \in 1 .. MaxSockets /\ s \in 1 .. MaxSockets
    BY <2>1, NumbersAre DEF Grows, LayerOK
  <2>3. Received(s)' = got[p] /\ Arrived(s)' = layer'.sockets[p].inbox
    BY DEF Received, Arrived
  <2>4. CASE ~Connected(s)
    <3>1. sent[s] = 0 /\ got[p] = <<>> /\ layer'.sockets[p].inbox = <<>>
      BY <2>1, <2>2, <2>4 DEF StreamsOK, SilenceOK
    <3>2. \A t \in Threads : ~Sends(t, s)'
      BY <2>4, SendersAreConnected DEF SendersKept
    <3>3. Interval(0, 0) = <<>> /\ Len(<<>>) = 0
      BY IntervalIs
    <3>4. /\ Received(s)' = <<>> /\ Arrived(s)' = <<>> /\ sent'[s] = 0
      BY <2>3, <3>1
    <3>5. QED
      BY <3>2, <3>3, <3>4 DEF StreamOK
  <2>5. CASE Connected(s)
    <3>1. Connected(p) /\ p = layer.sockets[s].peer
      BY <2>1, <2>5
    <3>2. StreamOK(s) /\ s \in Numbers(layer)
      BY <2>5 DEF StreamsOK, Connected
    <3>3. /\ Received(s)' = Received(s)
          /\ \/ Arrived(s)' = Arrived(s)
             \/ Arrived(s)' = <<>> /\ HasEnded(layer, s)
      BY <2>3, <2>5, <3>1, EndedStays DEF Received, Arrived, InboxesKept, Connected
    <3>4. HasEnded(layer, s) => HasEnded(layer', s)
      BY <2>5, EndedStays
    <3>5. \A t \in Threads :
            /\ Sends(t, s)' => Sends(t, s) /\ op'[t].rest = op[t].rest
            /\ Sends(t, s) => Sends(t, s)' \/ HasEnded(layer', s)
      BY DEF SendersKept
    <3>6. got[p] \in Seq(Nat) /\ Len(Received(s)) \in Nat /\ sent[s] \in Nat
      BY <2>2, <3>1, SocketsAssumption DEF Received, VariablesOK
    <3>7. CASE Arrived(s)' = Arrived(s)
      BY <3>2, <3>3, <3>4, <3>5, <3>7 DEF StreamOK
    <3>8. CASE Arrived(s)' = <<>> /\ HasEnded(layer, s)
      <4>1. Arrived(s) \in Seq(Nat)
        BY <2>5, StreamTypes
      <4>2. Len(Arrived(s)) \in Nat
        BY <4>1
      <4>3. Interval(Len(Received(s)), 0) = <<>> /\ Len(<<>>) = 0
        BY <3>6, IntervalIs
      <4>4. Len(Received(s)) + 0 <= sent[s]
        BY <3>2, <3>6, <4>2 DEF StreamOK
      <4>5. HasEnded(layer', s)
        BY <3>4, <3>8
      <4>6. QED
        BY <3>2, <3>3, <3>5, <3>8, <4>3, <4>4, <4>5 DEF StreamOK
    <3>9. QED
      BY <3>3, <3>7, <3>8
  <2>6. QED
    BY <2>4, <2>5
<1>3. QED
  BY <1>1, <1>2 DEF StreamsOK

LEMMA SendersStay ==
  ASSUME ObjectsOK, OpsOK, OpsUndisturbed,
         \A t \in Threads :
           \/ op'[t] = op[t]
           \/ /\ op'[t].pc # "send"
              /\ op[t].pc = "send" => HasEnded(layer', SocketOf(op[t].on))
  PROVE  SendersKept
<1> SUFFICES ASSUME NEW t \in Threads, NEW s \in Numbers(layer')
             PROVE  /\ Sends(t, s)' => Sends(t, s) /\ op'[t].rest = op[t].rest
                    /\ Sends(t, s) => Sends(t, s)' \/ HasEnded(layer', s)
  BY DEF SendersKept
<1>1. CASE op'[t] = op[t]
  <2>1. op[t].pc = "send" => SocketOf(op[t].on)' = SocketOf(op[t].on)
    <3>1. op[t].pc = "send" => op[t].on \in Existing /\ op[t].on \in Existing'
      BY DEF OpsOK, ThreadOK, OpsUndisturbed
    <3>2. op[t].pc = "send" =>
            layer'.files[object'[op[t].on].socket_] = SocketOf(op[t].on)
      BY <3>1 DEF OpsUndisturbed, SocketOf
    <3>3. QED
      BY <1>1, <3>2 DEF SocketOf
  <2>2. QED
    BY <1>1, <2>1 DEF Sends
<1>2. CASE /\ op'[t].pc # "send"
           /\ op[t].pc = "send" => HasEnded(layer', SocketOf(op[t].on))
  BY <1>2 DEF Sends
<1>3. QED
  BY <1>1, <1>2

-----------------------------------------------------------------------------
(* Every step keeps the invariant.                                         *)

(* A thread may enter the call it is in after the step. *)
Entitled(t) ==
  \/ op'[t].pc \in {"idle", "close"}
  \/ op'[t].on = op[t].on /\ op[t].pc \notin {"idle", "close"}
  \/ \A u \in Callers(op'[t].on) : op[u].pc = "close"

(* A step of one thread that changes a flag at most. *)
LEMMA QuietStep ==
  ASSUME IInv, NEW t \in Threads,
         UNCHANGED <<layer, sent, got, leaked>>, VariablesOK',
         \A u \in Threads \ {t} : op'[u] = op[u],
         op'[t].pc # "send",
         op[t].pc = "send" => HasEnded(layer, SocketOf(op[t].on)),
         ThreadOK(t)', Entitled(t),
         \A o \in Objects :
           /\ object'[o].exists <=> object[o].exists
           /\ object'[o].socket_ = object[o].socket_
           /\ object'[o].flag =>
                \/ object[o].flag
                \/ o \in Connections /\ Socket(o).state = "connected"
  PROVE  IInv'
<1>1. LayerOK(layer) /\ VariablesOK /\ ObjectsOK /\ OpsOK /\ FlagsAreTrue /\ StreamsOK
  BY DEF IInv
<1>2. layer' = layer /\ sent' = sent /\ got' = got /\ leaked' = leaked
  OBVIOUS
<1>3. Grows(layer', layer)
  BY <1>1, <1>2 DEF Grows, LayerOK, PeersOK
<1>4. /\ ObjectsOK'
      /\ Existing' = Existing
      /\ \A o \in Existing : SocketOf(o)' = SocketOf(o)
  BY <1>1, <1>2, <1>3, ObjectsKept
<1>5. \A o \in Existing : o \in Objects
  BY DEF Existing
<1>6. OpsUndisturbed
  <2>1. \A u \in Threads : op[u].pc # "idle" => op[u].on \in Existing
    BY <1>1 DEF OpsOK, ThreadOK
  <2>2. \A l \in Listeners : l \notin Connections
    BY SocketsAssumption
  <2>3. QED
    BY <1>4, <1>5, <2>1, <2>2 DEF OpsUndisturbed
<1>7. OpsOK'
  <2>1. \A u \in Threads : op'[u] = op[u] => ThreadOK(u)'
    BY <1>1, <1>3, <1>6, OpsKept
  <2>2. QED
    BY <1>1, <2>1, OpsStep DEF Entitled
<1>8. FlagsAreTrue'
  <2>1. \A o \in Existing : Socket(o)' = Socket(o)
    BY <1>2, <1>4 DEF Socket
  <2>2. \A c \in Existing' \cap Connections : object'[c].flag =>
          \/ c \in Existing /\ object[c].flag
          \/ Socket(c)'.state = "connected"
    BY <1>4, <1>5, <2>1
  <2>3. \A l \in Existing' \cap Listeners : object'[l].flag =>
          l \in Existing /\ object[l].flag /\ Socket(l)' = Socket(l)
    BY <1>4, <1>5, <2>1, SocketsAssumption
  <2>4. QED
    BY <1>1, <1>3, <1>4, <2>2, <2>3, FlagsKept
<1>9. StreamsOK'
  <2>1. SendersKept
    BY <1>1, <1>2, <1>6, SendersStay
  <2>2. InboxesKept
    BY <1>2 DEF InboxesKept
  <2>3. QED
    BY <1>1, <1>2, <1>3, <2>1, <2>2, StreamsKept
<1>10. QED
  BY <1>1, <1>2, <1>4, <1>7, <1>8, <1>9 DEF IInv

LEMMA EntersCall ==
  ASSUME VariablesOK, NEW t \in Threads, NEW pc \in Points, NEW o \in Objects,
         Enter(t, pc, o)
  PROVE  /\ op' \in [Threads -> Calls]
         /\ op'[t].pc = pc /\ op'[t].on = o
         /\ \A u \in Threads \ {t} : op'[u] = op[u]
<1> DEFINE call == [pc |-> pc, on |-> o, rest |-> <<>>]
<1>1. call \in Calls /\ call.pc = pc /\ call.on = o
  BY EmptySeq DEF Calls
<1>2. op' = [op EXCEPT ![t] = call]
  BY DEF Enter
<1> HIDE DEF call
<1>3. QED
  BY <1>1, <1>2 DEF VariablesOK

LEMMA ReturnsFromCall ==
  ASSUME VariablesOK, NEW t \in Threads, Return(t)
  PROVE  /\ op' \in [Threads -> Calls]
         /\ op'[t].pc = "idle" /\ op'[t].on = NoObject
         /\ \A u \in Threads \ {t} : op'[u] = op[u]
<1>1. Idle \in Calls /\ Idle.pc = "idle" /\ Idle.on = NoObject
  BY EmptySeq DEF Calls, Points, Idle
<1>2. op' = [op EXCEPT ![t] = Idle]
  BY DEF Return
<1>3. QED
  BY <1>1, <1>2 DEF VariablesOK

LEMMA MovesOn ==
  ASSUME VariablesOK, NEW t \in Threads, NEW pc \in Points,
         op' = [op EXCEPT ![t].pc = pc]
  PROVE  /\ op' \in [Threads -> Calls]
         /\ op'[t].pc = pc /\ op'[t].on = op[t].on
         /\ \A u \in Threads \ {t} : op'[u] = op[u]
<1> DEFINE call == [op[t] EXCEPT !.pc = pc]
<1>1. op[t] \in Calls
  BY DEF VariablesOK
<1>2. call \in Calls /\ call.pc = pc /\ call.on = op[t].on
  BY <1>1 DEF Calls
<1>3. op' = [op EXCEPT ![t] = call]
  BY DEF VariablesOK
<1> HIDE DEF call
<1>4. QED
  BY <1>2, <1>3 DEF VariablesOK

LEMMA SetsFlag ==
  ASSUME VariablesOK, NEW o \in Objects, NEW flag \in BOOLEAN,
         object' = [object EXCEPT ![o].flag = flag]
  PROVE  /\ object' \in [Objects -> Members]
         /\ object'[o].flag = flag
         /\ \A q \in Objects \ {o} : object'[q] = object[q]
         /\ \A q \in Objects : /\ object'[q].exists <=> object[q].exists
                               /\ object'[q].socket_ = object[q].socket_
<1> DEFINE members == [object[o] EXCEPT !.flag = flag]
<1>1. object[o] \in Members
  BY DEF VariablesOK
<1>2. /\ members \in Members /\ members.flag = flag
      /\ members.exists = object[o].exists /\ members.socket_ = object[o].socket_
  BY <1>1 DEF Members
<1>3. object' = [object EXCEPT ![o] = members]
  BY DEF VariablesOK
<1> HIDE DEF members
<1>4. /\ object' \in [Objects -> Members] /\ object'[o] = members
      /\ \A q \in Objects \ {o} : object'[q] = object[q]
  BY <1>2, <1>3 DEF VariablesOK
<1>5. QED
  BY <1>2, <1>4

LEMMA NothingChanges ==
  ASSUME IInv, UNCHANGED <<layer, object, op, sent, got, leaked>>,
         killed' \in BOOLEAN
  PROVE  IInv'
<1>1. VariablesOK' /\ LayerOK(layer)'
  BY DEF IInv, VariablesOK
<1>2. Existing' = Existing /\ \A o : SocketOf(o)' = SocketOf(o) /\ Socket(o)' = Socket(o)
  BY DEF Existing, SocketOf, Socket
<1>3. ObjectsOK'
  BY <1>2 DEF IInv, ObjectsOK
<1>4. OpsOK'
  <2>1. \A t \in Threads : Socket(op[t].on)' = Socket(op[t].on)
    BY DEF Socket, SocketOf
  <2>2. QED
    BY <1>2, <2>1 DEF IInv, OpsOK, ThreadOK
<1>5. FlagsAreTrue'
  BY <1>2 DEF IInv, FlagsAreTrue
<1>6. StreamsOK'
  <2>1. \A t, s : Sends(t, s)' <=> Sends(t, s)
    BY DEF Sends, SocketOf
  <2>2. \A s : Connected(s)' <=> Connected(s)
    BY DEF Connected
  <2>3. \A s : Received(s)' = Received(s) /\ Arrived(s)' = Arrived(s)
    BY DEF Received, Arrived
  <2>4. \A s : StreamOK(s)' <=> StreamOK(s)
    BY <2>1, <2>3 DEF StreamOK
  <2>5. QED
    BY <2>2, <2>4 DEF IInv, StreamsOK, SilenceOK
<1>7. QED
  BY <1>1, <1>3, <1>4, <1>5, <1>6 DEF IInv

LEMMA OnlyEnters ==
  ASSUME IInv, NEW t \in Threads, NEW o \in Objects, MayCall(t, o),
         NEW pc \in {"accept", "connect", "receive"}, Enter(t, pc, o),
         pc = "accept" => o \in Listeners,
         pc # "accept" => o \in Connections,
         pc = "receive" => object[o].flag,
         UNCHANGED <<layer, object, sent, got, leaked, killed>>
  PROVE  IInv'
<1>1. VariablesOK /\ FlagsAreTrue
  BY DEF IInv
<1>2. /\ op' \in [Threads -> Calls]
      /\ op'[t].pc = pc /\ op'[t].on = o
      /\ \A u \in Threads \ {t} : op'[u] = op[u]
  BY <1>1, EntersCall DEF Points
<1>3. VariablesOK'
  BY <1>1, <1>2 DEF VariablesOK
<1>4. op[t].pc = "idle" /\ o \in Existing /\ \A u \in Callers(o) : op[u].pc = "close"
  BY DEF MayCall, IsIdle, Existing
<1>5. pc = "receive" => Socket(o).state = "connected"
  BY <1>1, <1>4 DEF FlagsAreTrue
<1>6. ThreadOK(t)'
  <2>1. o \in Existing' /\ layer'.sockets[SocketOf(o)'] = Socket(o)
    BY <1>4 DEF Existing, Socket, SocketOf
  <2>2. Socket(op[t].on)' = Socket(o)
    BY <1>2, <2>1 DEF Socket, SocketOf
  <2>3. QED
    BY <1>2, <1>5, <2>1, <2>2 DEF ThreadOK, Communicating
<1>7. Entitled(t)
  BY <1>2, <1>4 DEF Entitled
<1>8. QED
  BY <1>2, <1>3, <1>4, <1>6, <1>7, QuietStep

LEMMA OnlyReturns ==
  ASSUME IInv, NEW t \in Threads, Return(t),
         op[t].pc = "send" => HasEnded(layer, SocketOf(op[t].on)),
         UNCHANGED <<layer, object, sent, got, leaked>>, killed' \in BOOLEAN
  PROVE  IInv'
<1>1. VariablesOK
  BY DEF IInv
<1>2. /\ op' \in [Threads -> Calls]
      /\ op'[t].pc = "idle" /\ op'[t].on = NoObject
      /\ \A u \in Threads \ {t} : op'[u] = op[u]
  BY <1>1, ReturnsFromCall
<1>3. VariablesOK'
  BY <1>1, <1>2 DEF VariablesOK
<1>4. ThreadOK(t)' /\ Entitled(t)
  BY <1>2 DEF ThreadOK, Entitled
<1>5. QED
  BY <1>2, <1>3, <1>4, QuietStep

LEMMA CloseStarts ==
  ASSUME IInv, NEW t \in Threads, NEW o \in Objects, StartClose(t, o)
  PROVE  IInv'
<1>1. VariablesOK
  BY DEF IInv
<1>2. /\ op' \in [Threads -> Calls]
      /\ op'[t].pc = "close" /\ op'[t].on = o
      /\ \A u \in Threads \ {t} : op'[u] = op[u]
  BY <1>1, EntersCall DEF Points, StartClose
<1>3. /\ object' \in [Objects -> Members]
      /\ object'[o].flag = FALSE
      /\ \A q \in Objects \ {o} : object'[q] = object[q]
      /\ \A q \in Objects : /\ object'[q].exists <=> object[q].exists
                            /\ object'[q].socket_ = object[q].socket_
  BY <1>1, SetsFlag DEF StartClose
<1>4. UNCHANGED <<layer, sent, got, leaked, killed>> /\ op[t].pc = "idle"
  BY DEF StartClose, IsIdle
<1>5. VariablesOK'
  BY <1>1, <1>2, <1>3, <1>4 DEF VariablesOK
<1>6. ThreadOK(t)'
  BY <1>2, <1>3 DEF ThreadOK, Existing, StartClose, Communicating
<1>7. Entitled(t)
  BY <1>2 DEF Entitled
<1>8. \A q \in Objects : object'[q].flag => object[q].flag
  BY <1>3
<1>9. QED
  BY <1>2, <1>3, <1>4, <1>5, <1>6, <1>7, <1>8, QuietStep

LEMMA ConnectIsInterrupted ==
  ASSUME IInv, NEW t \in Threads, InterruptConnect(t)
  PROVE  IInv'
<1>1. VariablesOK /\ OpsOK
  BY DEF IInv
<1>2. op' = [op EXCEPT ![t].pc = "poll"] /\ op[t].pc = "connecting"
      /\ UNCHANGED <<layer, object, sent, got, leaked, killed>>
  BY DEF InterruptConnect, In
<1>3. /\ op' \in [Threads -> Calls]
      /\ op'[t].pc = "poll" /\ op'[t].on = op[t].on
      /\ \A u \in Threads \ {t} : op'[u] = op[u]
  BY <1>1, <1>2, MovesOn DEF Points
<1>4. VariablesOK'
  BY <1>1, <1>2, <1>3 DEF VariablesOK
<1>5. ThreadOK(t)' /\ Entitled(t)
  BY <1>1, <1>2, <1>3 DEF OpsOK, ThreadOK, Entitled, Communicating, Existing
<1>6. QED
  BY <1>2, <1>3, <1>4, <1>5, QuietStep

(* connect is successful or fails, and the flag tells which. *)
LEMMA ConnectReturns ==
  ASSUME IInv, NEW t \in Threads, Connect(t) \/ FailConnect(t)
  PROVE  IInv'
<1> DEFINE c == op[t].on
<1>1. VariablesOK /\ OpsOK
  BY DEF IInv
<1>2. /\ op[t].pc \in {"connect", "connecting", "poll"}
      /\ UNCHANGED <<layer, sent, got, leaked, killed>>
  BY DEF Connect, FailConnect, ReturnsFromConnect
<1>3. c \in Existing /\ c \in Connections /\ c \in Objects
  BY <1>1, <1>2 DEF OpsOK, ThreadOK, Communicating, Existing
<1>4. c \notin Listeners
  BY <1>3, SocketsAssumption
<1>5. PICK flag \in BOOLEAN :
        /\ object' = [object EXCEPT ![c].flag = flag]
        /\ flag => Socket(c).state = "connected"
  BY DEF Connect, FailConnect, HasConnected
<1>6. /\ object' \in [Objects -> Members]
      /\ object'[c].flag = flag
      /\ \A q \in Objects \ {c} : object'[q] = object[q]
      /\ \A q \in Objects : /\ object'[q].exists <=> object[q].exists
                            /\ object'[q].socket_ = object[q].socket_
  BY <1>1, <1>3, <1>5, SetsFlag
<1>7. /\ op' \in [Threads -> Calls]
      /\ \/ op'[t].pc = "idle" /\ op'[t].on = NoObject
         \/ op'[t].pc = "close" /\ op'[t].on = c
      /\ \A u \in Threads \ {t} : op'[u] = op[u]
  <2>1. CASE Connect(t)
    BY <1>1, <2>1, ReturnsFromCall DEF Connect
  <2>2. CASE FailConnect(t)
    <3>1. op' = [op EXCEPT ![t].pc = "close"]
      BY <2>2 DEF FailConnect
    <3>2. QED
      BY <1>1, <3>1, MovesOn DEF Points
  <2>3. QED
    BY <2>1, <2>2
<1>8. VariablesOK'
  BY <1>1, <1>2, <1>6, <1>7 DEF VariablesOK
<1>9. Entitled(t) /\ op'[t].pc # "send"
  BY <1>7 DEF Entitled
<1>10. ThreadOK(t)'
  <2>1. c \in Existing'
    BY <1>3, <1>6 DEF Existing
  <2>2. QED
    BY <1>4, <1>7, <2>1 DEF ThreadOK, Communicating
<1>11. \A o \in Objects : object'[o].flag =>
         \/ object[o].flag
         \/ o \in Connections /\ Socket(o).state = "connected"
  BY <1>3, <1>5, <1>6
<1>12. QED
  BY <1>2, <1>6, <1>7, <1>8, <1>9, <1>10, <1>11, QuietStep

(***************************************************************************)
(* A step that changes the layer leaves alone those that are in a call,    *)
(* and the flags of the objects that were there.                           *)
(***************************************************************************)
ObjectsUndisturbed ==
  /\ \A t \in Threads : op[t].pc # "idle" => op[t].on \in Existing'
  /\ \A o \in Existing : o \in Existing' =>
       /\ SocketOf(o)' = SocketOf(o)
       /\ object'[o].flag => object[o].flag
  /\ \A l \in Existing \cap Listeners :
       l \in Existing' /\ object'[l].flag /\ Socket(l).state = "listening"
         => Socket(l)'.state = "listening"
  /\ \A o \in Existing' \ Existing : object'[o].flag =>
       /\ o \in Connections => Socket(o)'.state = "connected"
       /\ o \in Listeners => Socket(o)'.state = "listening"

OneMoves ==
  \/ UNCHANGED op
  \/ \E t \in Threads : /\ \A u \in Threads \ {t} : op'[u] = op[u]
                        /\ ThreadOK(t)'
                        /\ Entitled(t)

LEMMA PartsKept ==
  ASSUME IInv, Grows(layer', layer), ObjectsUndisturbed, OneMoves
  PROVE  OpsOK' /\ FlagsAreTrue' /\ OpsUndisturbed
<1>1. ObjectsOK /\ OpsOK /\ FlagsAreTrue
  BY DEF IInv
<1>2. OpsUndisturbed
  BY DEF ObjectsUndisturbed, OpsUndisturbed
<1>3. \A u \in Threads : op'[u] = op[u] => ThreadOK(u)'
  BY <1>1, <1>2, OpsKept
<1>4. OpsOK'
  <2>1. CASE UNCHANGED op
    BY <1>1, <1>3, <2>1 DEF OpsOK
  <2>2. CASE \E t \in Threads : /\ \A u \in Threads \ {t} : op'[u] = op[u]
                                /\ ThreadOK(t)'
                                /\ Entitled(t)
    <3>1. PICK t \in Threads : /\ \A u \in Threads \ {t} : op'[u] = op[u]
                               /\ ThreadOK(t)'
                               /\ Entitled(t)
      BY <2>2
    <3>2. QED
      BY <1>1, <1>3, <3>1, OpsStep DEF Entitled
  <2>3. QED
    BY <2>1, <2>2 DEF OneMoves
<1>5. FlagsAreTrue'
  <2>1. \A o \in Existing : o \in Existing' => SocketOf(o)' = SocketOf(o)
    BY DEF ObjectsUndisturbed
  <2>2. \A c \in Existing' \cap Connections : object'[c].flag =>
          \/ c \in Existing /\ object[c].flag
          \/ Socket(c)'.state = "connected"
    BY DEF ObjectsUndisturbed
  <2>3. \A l \in Existing' \cap Listeners : object'[l].flag =>
          \/ /\ l \in Existing /\ object[l].flag
             /\ Socket(l).state = "listening" => Socket(l)'.state = "listening"
          \/ Socket(l)'.state = "listening"
    BY DEF ObjectsUndisturbed
  <2>4. QED
    BY <1>1, <2>1, <2>2, <2>3, FlagsKept
<1>6. QED
  BY <1>2, <1>4, <1>5

LEMMA LayerStep ==
  ASSUME IInv, Grows(layer', layer), VariablesOK', ObjectsOK',
         ObjectsUndisturbed, OneMoves,
         UNCHANGED <<sent, got>>, InboxesKept,
         \A t \in Threads :
           op'[t] = op[t] \/ (op'[t].pc # "send" /\ op[t].pc # "send")
  PROVE  IInv'
<1>1. LayerOK(layer) /\ VariablesOK /\ ObjectsOK /\ OpsOK /\ FlagsAreTrue /\ StreamsOK
  BY DEF IInv
<1>2. OpsOK' /\ FlagsAreTrue' /\ OpsUndisturbed
  BY PartsKept
<1>3. SendersKept
  BY <1>1, <1>2, SendersStay
<1>4. StreamsOK'
  BY <1>1, <1>3, StreamsKept
<1>5. LayerOK(layer)'
  BY DEF Grows
<1>6. QED
  BY <1>2, <1>4, <1>5 DEF IInv

LEMMA NewSocketKeepsInboxes ==
  ASSUME SameSockets(layer', layer)
  PROVE  InboxesKept
  BY DEF SameSockets, InboxesKept

LEMMA CalledExist ==
  ASSUME IInv
  PROVE  \A t \in Threads : op[t].pc # "idle" => op[t].on \in Existing
  BY DEF IInv, OpsOK, ThreadOK

LEMMA NewObjectKeeps ==
  ASSUME IInv, ~IsTableFull(layer),
         NEW x, Grows(layer', layer), Opens(layer', layer, x),
         NEW o \in Objects, ~object[o].exists, NEW flag \in BOOLEAN,
         object' = [object EXCEPT ![o] = NewObject(flag, NextDescriptor(layer))],
         \A s \in Numbers(layer) : layer'.sockets[s].state = layer.sockets[s].state,
         flag /\ o \in Connections => layer'.sockets[x].state = "connected",
         flag /\ o \in Listeners => layer'.sockets[x].state = "listening",
         op' \in [Threads -> Calls], OneMoves, InboxesKept,
         \A t \in Threads :
           op'[t] = op[t] \/ (op'[t].pc # "send" /\ op[t].pc # "send"),
         UNCHANGED <<sent, got, leaked, killed>>
  PROVE  IInv'
<1>1. LayerOK(layer) /\ VariablesOK /\ ObjectsOK
  BY DEF IInv
<1>2. /\ ObjectsOK'
      /\ Existing' = Existing \cup {o} /\ o \notin Existing
      /\ SocketOf(o)' = x
      /\ object'[o].flag = flag
      /\ \A q \in Existing : /\ SocketOf(q)' = SocketOf(q)
                             /\ object'[q] = object[q]
  BY <1>1, ObjectMade
<1>3. VariablesOK'
  <2>1. NewObject(flag, NextDescriptor(layer)) \in Members
    BY NextIsFree DEF NewObject, Members
  <2>2. QED
    BY <1>1, <2>1 DEF VariablesOK
<1>4. \A q \in Existing : Socket(q)'.state = Socket(q).state
  BY <1>1, <1>2 DEF ObjectsOK, Socket
<1>5. Socket(o)'.state = layer'.sockets[x].state
  BY <1>2 DEF Socket
<1>6. ObjectsUndisturbed
  BY <1>2, <1>4, <1>5, CalledExist DEF ObjectsUndisturbed
<1>7. QED
  BY <1>2, <1>3, <1>6, LayerStep

(* A socket that no object is made for. *)
LEMMA LeakKeeps ==
  ASSUME IInv, MayMakeSocket(layer), ~IsTableFull(layer),
         layer' = WithSocket(layer, "fresh"),
         leaked' = leaked \cup {NextDescriptor(layer)},
         UNCHANGED <<object, op, sent, got, killed>>
  PROVE  IInv'
<1> DEFINE n == Len(layer.sockets) + 1
<1>1. LayerOK(layer) /\ VariablesOK /\ ObjectsOK
  BY DEF IInv
<1>2. Grows(layer', layer) /\ Opens(layer', layer, n) /\ SameSockets(layer', layer)
  BY <1>1, WithSocketOK
<1> HIDE DEF n
<1>3. /\ ObjectsOK' /\ leaked' \subseteq Descriptors
      /\ Existing' = Existing
      /\ \A q \in Existing : SocketOf(q)' = SocketOf(q)
  BY <1>1, <1>2, DescriptorLeaked
<1>4. VariablesOK'
  BY <1>1, <1>3 DEF VariablesOK
<1>5. \A q \in Existing : Socket(q)'.state = Socket(q).state
  BY <1>1, <1>2, <1>3 DEF ObjectsOK, SameSockets, Socket
<1>6. ObjectsUndisturbed
  BY <1>3, <1>5, CalledExist DEF ObjectsUndisturbed
<1>7. QED
  BY <1>2, <1>3, <1>4, <1>6, NewSocketKeepsInboxes, LayerStep DEF OneMoves

LEMMA ListenKeeps ==
  ASSUME IInv, NEW t \in Threads, NEW l \in Listeners, NEW valid \in BOOLEAN,
         Listen(t, l, valid)
  PROVE  IInv'
<1> DEFINE n == Len(layer.sockets) + 1
<1>1. LayerOK(layer) /\ VariablesOK
  BY DEF IInv
<1>2. /\ ~object[l].exists /\ MayMakeSocket(layer) /\ ~IsTableFull(layer)
      /\ UNCHANGED <<op, sent, got, killed>> /\ l \in Objects
      /\ l \notin Connections
  BY SocketsAssumption DEF Listen, Objects
<1>3. CASE /\ layer' = WithSocket(layer, "listening")
           /\ object' = [object EXCEPT ![l] = NewObject(TRUE, NextDescriptor(layer))]
           /\ UNCHANGED leaked
  <2>1. /\ Grows(layer', layer) /\ Opens(layer', layer, n)
        /\ SameSockets(layer', layer) /\ layer'.sockets[n].state = "listening"
    BY <1>1, <1>2, <1>3, WithSocketOK
  <2> HIDE DEF n
  <2>2. \A s \in Numbers(layer) : layer'.sockets[s].state = layer.sockets[s].state
    BY <2>1 DEF SameSockets
  <2>3. op' \in [Threads -> Calls] /\ OneMoves /\ InboxesKept
    BY <1>1, <1>2, <2>1, NewSocketKeepsInboxes DEF OneMoves, VariablesOK
  <2>4. QED
    BY <1>2, <1>3, <2>1, <2>2, <2>3, NewObjectKeeps
<1>4. CASE /\ layer' = WithSocket(layer, "fresh")
           /\ leaked' = leaked \cup {NextDescriptor(layer)}
           /\ UNCHANGED object
  BY <1>2, <1>4, LeakKeeps
<1>5. QED
  BY <1>3, <1>4 DEF Listen

(* The model's name for a new connection object. *)
LEMMA NewConnectionIs ==
  ASSUME NEW flag \in BOOLEAN, FreeConnections # {}
  PROVE  \E c \in Connections :
           /\ ~object[c].exists /\ c \in Objects /\ c \notin Listeners
           /\ NewConnection(flag)
                = [object EXCEPT ![c] = NewObject(flag, NextDescriptor(layer))]
<1> DEFINE c == CHOOSE c \in FreeConnections : TRUE
<1>1. c \in FreeConnections
  OBVIOUS
<1>2. NewConnection(flag) = [object EXCEPT ![c] = NewObject(flag, NextDescriptor(layer))]
  BY DEF NewConnection
<1> HIDE DEF c
<1>3. QED
  BY <1>1, <1>2, SocketsAssumption DEF FreeConnections, Objects

LEMMA CreateKeeps ==
  ASSUME IInv, NEW t \in Threads, NEW valid \in BOOLEAN, Create(t, valid)
  PROVE  IInv'
<1> DEFINE n == Len(layer.sockets) + 1
<1>1. LayerOK(layer) /\ VariablesOK
  BY DEF IInv
<1>2. /\ FreeConnections # {} /\ MayMakeSocket(layer) /\ ~IsTableFull(layer)
      /\ layer' = WithSocket(layer, "fresh")
      /\ UNCHANGED <<op, sent, got, killed>>
  BY DEF Create
<1>3. CASE object' = NewConnection(FALSE) /\ UNCHANGED leaked
  <2>1. Grows(layer', layer) /\ Opens(layer', layer, n) /\ SameSockets(layer', layer)
    BY <1>1, <1>2, WithSocketOK
  <2> HIDE DEF n
  <2>2. PICK c \in Connections :
          /\ ~object[c].exists /\ c \in Objects
          /\ object' = [object EXCEPT ![c] = NewObject(FALSE, NextDescriptor(layer))]
    BY <1>2, <1>3, NewConnectionIs
  <2>3. \A s \in Numbers(layer) : layer'.sockets[s].state = layer.sockets[s].state
    BY <2>1 DEF SameSockets
  <2>4. op' \in [Threads -> Calls] /\ OneMoves /\ InboxesKept
    BY <1>1, <1>2, <2>1, NewSocketKeepsInboxes DEF OneMoves, VariablesOK
  <2>5. QED
    BY <1>2, <1>3, <2>1, <2>2, <2>3, <2>4, NewObjectKeeps
<1>4. CASE leaked' = leaked \cup {NextDescriptor(layer)} /\ UNCHANGED object
  BY <1>2, <1>4, LeakKeeps
<1>5. QED
  BY <1>3, <1>4 DEF Create

LEMMA AcceptKeeps ==
  ASSUME IInv, NEW t \in Threads, Accept(t)
  PROVE  IInv'
<1> DEFINE l == op[t].on
           s == SocketOf(l)
           x == Head(layer.sockets[s].backlog)
<1>1. LayerOK(layer) /\ VariablesOK /\ ObjectsOK /\ OpsOK
  BY DEF IInv
<1>2. /\ op[t].pc = "accept" /\ layer.sockets[s].backlog # <<>>
      /\ ~IsTableFull(layer) /\ FreeConnections # {}
      /\ object' = NewConnection(TRUE) /\ layer' = WithAccepted(layer, s)
      /\ Return(t) /\ UNCHANGED <<sent, got, leaked, killed>>
  BY DEF Accept, In, Socket
<1>3. l \in Existing /\ s \in Numbers(layer)
  BY <1>1, <1>2 DEF OpsOK, ThreadOK, ObjectsOK
<1> HIDE DEF s
<1>4. /\ Grows(layer', layer)
      /\ Opens(layer', layer, x)
      /\ layer'.sockets[x].state = "connected"
      /\ \A u \in Numbers(layer) :
           /\ layer'.sockets[u].state = layer.sockets[u].state
           /\ layer'.sockets[u].inbox = layer.sockets[u].inbox
  BY <1>1, <1>2, <1>3, AcceptedOK
<1> HIDE DEF x
<1>5. PICK c \in Connections :
        /\ ~object[c].exists /\ c \in Objects /\ c \notin Listeners
        /\ object' = [object EXCEPT ![c] = NewObject(TRUE, NextDescriptor(layer))]
  BY <1>2, NewConnectionIs
<1>6. /\ op' \in [Threads -> Calls]
      /\ op'[t].pc = "idle" /\ op'[t].on = NoObject
      /\ \A u \in Threads \ {t} : op'[u] = op[u]
  BY <1>1, <1>2, ReturnsFromCall
<1>7. ThreadOK(t)' /\ Entitled(t)
  BY <1>6 DEF ThreadOK, Entitled
<1>8. OneMoves /\ InboxesKept
  BY <1>4, <1>6, <1>7 DEF OneMoves, InboxesKept
<1>9. \A u \in Threads :
        op'[u] = op[u] \/ (op'[u].pc # "send" /\ op[u].pc # "send")
  BY <1>2, <1>6
<1>10. QED
  BY <1>2, <1>4, <1>5, <1>6, <1>8, <1>9, NewObjectKeeps

LEMMA SocketsAreDistinct ==
  ASSUME LayerOK(layer), ObjectsOK, NEW o \in Existing, NEW q \in Existing,
         SocketOf(o) = SocketOf(q)
  PROVE  o = q
  BY DEF ObjectsOK, LayerOK, FilesOK, SocketOf

(* A step of the layer with the same objects, descriptors and histories. *)
LEMMA SocketStep ==
  ASSUME IInv, Grows(layer', layer), layer'.files = layer.files,
         UNCHANGED <<object, sent, got, leaked, killed>>,
         op' \in [Threads -> Calls], OneMoves, InboxesKept,
         \A t \in Threads :
           op'[t] = op[t] \/ (op'[t].pc # "send" /\ op[t].pc # "send"),
         \A l \in Existing \cap Listeners :
           object[l].flag /\ Socket(l).state = "listening"
             => layer'.sockets[SocketOf(l)].state = "listening"
  PROVE  IInv'
<1>1. LayerOK(layer) /\ VariablesOK /\ ObjectsOK
  BY DEF IInv
<1>2. /\ ObjectsOK' /\ Existing' = Existing
      /\ \A o \in Existing : SocketOf(o)' = SocketOf(o)
  BY <1>1, ObjectsKept
<1>3. VariablesOK'
  BY <1>1 DEF VariablesOK
<1>4. \A l \in Existing : Socket(l)' = layer'.sockets[SocketOf(l)]
  BY <1>2 DEF Socket
<1>5. ObjectsUndisturbed
  BY <1>2, <1>4, CalledExist DEF ObjectsUndisturbed
<1>6. QED
  BY <1>2, <1>3, <1>5, LayerStep

LEMMA CloseFinishes ==
  ASSUME IInv, NEW t \in Threads, FinishClose(t)
  PROVE  IInv'
<1> DEFINE o == op[t].on
           s == SocketOf(o)
<1>1. LayerOK(layer) /\ VariablesOK /\ ObjectsOK /\ OpsOK
  BY DEF IInv
<1>2. /\ op[t].pc = "close" /\ layer' \in AfterShutdown(layer, s) /\ Return(t)
      /\ UNCHANGED <<object, sent, got, leaked, killed>>
  BY DEF FinishClose, In, Shutdown, SocketOf
<1>3. /\ o \in Existing /\ s \in Numbers(layer)
      /\ o \in Listeners => ~object[o].flag
  BY <1>1, <1>2 DEF OpsOK, ThreadOK, ObjectsOK
<1>4. \A q \in Existing : SocketOf(q) = s => q = o
  BY <1>1, <1>3, SocketsAreDistinct
<1> HIDE DEF s
<1>5. /\ Grows(layer', layer)
      /\ layer'.files = layer.files
      /\ \A u \in Numbers(layer) : layer'.sockets[u].inbox = layer.sockets[u].inbox
      /\ \A u \in Numbers(layer) :
           u # s => layer'.sockets[u].state = layer.sockets[u].state
  BY <1>1, <1>2, <1>3, ShutdownGrows
<1>6. /\ op' \in [Threads -> Calls]
      /\ op'[t].pc = "idle" /\ op'[t].on = NoObject
      /\ \A u \in Threads \ {t} : op'[u] = op[u]
  BY <1>1, <1>2, ReturnsFromCall
<1>7. ThreadOK(t)' /\ Entitled(t)
  BY <1>6 DEF ThreadOK, Entitled
<1>8. OneMoves /\ InboxesKept
  BY <1>5, <1>6, <1>7 DEF OneMoves, InboxesKept
<1>9. \A l \in Existing \cap Listeners :
        object[l].flag /\ Socket(l).state = "listening"
          => layer'.sockets[SocketOf(l)].state = "listening"
  BY <1>1, <1>3, <1>4, <1>5 DEF ObjectsOK, Socket
<1>10. \A u \in Threads :
         op'[u] = op[u] \/ (op'[u].pc # "send" /\ op[u].pc # "send")
  BY <1>2, <1>6
<1>11. QED
  BY <1>2, <1>5, <1>6, <1>8, <1>9, <1>10, SocketStep

LEMMA DestroyKeeps ==
  ASSUME IInv, NEW t \in Threads, NEW o \in Objects, Destroy(t, o)
  PROVE  IInv'
<1> DEFINE s == SocketOf(o)
<1>1. LayerOK(layer) /\ VariablesOK /\ ObjectsOK /\ OpsOK
  BY DEF IInv
<1>2. /\ o \in Existing /\ Callers(o) = {}
      /\ object' = [object EXCEPT ![o] = NotThere]
      /\ UNCHANGED <<op, sent, got, leaked, killed>>
  BY DEF Destroy, Existing
<1>3. s \in Numbers(layer) /\ object[o].socket_ \in Descriptors
  BY <1>1, <1>2 DEF ObjectsOK
<1>4. \A q \in Existing : SocketOf(q) = s => q = o
  BY <1>1, <1>2, SocketsAreDistinct
<1>5. PICK after \in AfterShutdown(layer, s) :
        layer' = WithoutFile(after, object[o].socket_)
  BY DEF Destroy
<1> HIDE DEF s
<1>6. /\ Grows(after, layer) /\ Numbers(after) = Numbers(layer)
      /\ after.files = layer.files
      /\ \A u \in Numbers(layer) : after.sockets[u].inbox = layer.sockets[u].inbox
      /\ \A u \in Numbers(layer) :
           u # s => after.sockets[u].state = layer.sockets[u].state
  BY <1>1, <1>3, ShutdownGrows
<1>7. LayerOK(after)
  BY <1>6 DEF Grows
<1>8. /\ Grows(layer', after) /\ Numbers(layer') = Numbers(after)
      /\ layer'.sockets = after.sockets
      /\ layer'.files = [after.files EXCEPT ![object[o].socket_] = NoSocket]
  BY <1>3, <1>5, <1>7, WithoutFileOK
<1>9. Grows(layer', layer)
  BY <1>1, <1>6, <1>8, GrowsAgain
<1>10. /\ ObjectsOK' /\ Existing' = Existing \ {o}
       /\ \A q \in Existing \ {o} : /\ SocketOf(q)' = SocketOf(q)
                                    /\ object'[q] = object[q]
  <2>1. Numbers(layer') = Numbers(layer)
    BY <1>6, <1>8
  <2>2. layer'.files = [layer.files EXCEPT ![object[o].socket_] = NoSocket]
    BY <1>6, <1>8
  <2>3. QED
    BY <1>1, <1>2, <1>9, <2>1, <2>2, ObjectDestroyed
<1>11. VariablesOK'
  <2>1. NotThere \in Members
    BY DEF NotThere, Members
  <2>2. QED
    BY <1>1, <1>2, <2>1 DEF VariablesOK
<1>12. InboxesKept
  BY <1>6, <1>8 DEF InboxesKept
<1>13. ObjectsUndisturbed
  <2>1. \A u \in Threads : op[u].pc # "idle" => op[u].on \in Existing \ {o}
    BY <1>2, CalledExist DEF Callers
  <2>2. \A l \in Existing \ {o} : Socket(l)'.state = Socket(l).state
    BY <1>1, <1>4, <1>6, <1>8, <1>10 DEF ObjectsOK, Socket
  <2>3. QED
    BY <1>10, <2>1, <2>2 DEF ObjectsUndisturbed
<1>14. QED
  BY <1>2, <1>9, <1>10, <1>11, <1>12, <1>13, LayerStep DEF OneMoves

LEMMA ConnectEnters ==
  ASSUME IInv, NEW t \in Threads, EnterConnect(t)
  PROVE  IInv'
<1> DEFINE c == op[t].on
           s == SocketOf(c)
<1>1. LayerOK(layer) /\ VariablesOK /\ ObjectsOK /\ OpsOK
  BY DEF IInv
<1>2. /\ op[t].pc = "connect" /\ layer.sockets[s].state = "fresh"
      /\ layer' = [layer EXCEPT !.sockets[s].state = "connecting"]
      /\ op' = [op EXCEPT ![t].pc = "connecting"]
      /\ UNCHANGED <<object, sent, got, leaked, killed>>
  BY DEF EnterConnect, In, Socket
<1>3. c \in Existing /\ c \in Connections /\ s \in Numbers(layer)
  BY <1>1, <1>2 DEF OpsOK, ThreadOK, ObjectsOK, Communicating
<1> HIDE DEF s
<1>4. SetsState(layer', layer, s, "connecting")
  BY <1>1, <1>2 DEF SetsState, Changes, LayerOK
<1>5. /\ Grows(layer', layer)
      /\ layer'.files = layer.files
      /\ \A u \in Numbers(layer) :
           u # s => layer'.sockets[u].state = layer.sockets[u].state
  BY <1>1, <1>2, <1>3, <1>4, StateChanges
<1>6. /\ op' \in [Threads -> Calls]
      /\ op'[t].pc = "connecting" /\ op'[t].on = c
      /\ \A u \in Threads \ {t} : op'[u] = op[u]
  BY <1>1, <1>2, MovesOn DEF Points
<1>7. ThreadOK(t)' /\ Entitled(t)
  <2>1. Existing' = Existing
    BY <1>2 DEF Existing
  <2>2. QED
    BY <1>2, <1>3, <1>6, <2>1 DEF ThreadOK, Entitled, Communicating
<1>8. InboxesKept
  <2>1. \A u \in Numbers(layer) : u # s => layer'.sockets[u] = layer.sockets[u]
    BY <1>1, <1>2 DEF LayerOK
  <2>2. QED
    BY <1>2, <2>1 DEF InboxesKept
<1>9. OneMoves
  BY <1>6, <1>7 DEF OneMoves
<1>10. \A l \in Existing \cap Listeners :
         object[l].flag /\ Socket(l).state = "listening"
           => layer'.sockets[SocketOf(l)].state = "listening"
  BY <1>1, <1>2, <1>5 DEF ObjectsOK, Socket
<1>11. \A u \in Threads :
         op'[u] = op[u] \/ (op'[u].pc # "send" /\ op[u].pc # "send")
  BY <1>2, <1>6
<1>12. QED
  BY <1>2, <1>5, <1>6, <1>8, <1>9, <1>10, <1>11, SocketStep

LEMMA AnswerKeeps ==
  ASSUME IInv, NEW s \in Numbers(layer), Answer(s)
  PROVE  IInv'
<1>1. LayerOK(layer) /\ VariablesOK /\ ObjectsOK
  BY DEF IInv
<1>2. /\ layer.sockets[s].state = "connecting"
      /\ UNCHANGED <<object, op, sent, got, leaked, killed>>
  BY DEF Answer
<1>3. /\ Grows(layer', layer)
      /\ layer'.files = layer.files
      /\ \A u \in Numbers(layer) : u # s =>
           /\ layer'.sockets[u].state = layer.sockets[u].state
           /\ layer'.sockets[u].inbox = layer.sockets[u].inbox
  <2>1. CASE \E l \in Listening(layer) :
               MayMakeSocket(layer) /\ layer' = Answered(layer, s, l)
    BY <1>1, <1>2, <2>1, AnsweredOK
  <2>2. CASE layer' = Refused(layer, s)
    <3>1. SetsState(layer', layer, s, "fresh")
      BY <1>1, <2>2 DEF SetsState, Changes, LayerOK, Refused
    <3>2. /\ Grows(layer', layer)
          /\ layer'.files = layer.files
          /\ \A u \in Numbers(layer) :
               u # s => layer'.sockets[u].state = layer.sockets[u].state
      BY <1>1, <1>2, <3>1, StateChanges
    <3>3. \A u \in Numbers(layer) : u # s => layer'.sockets[u] = layer.sockets[u]
      BY <1>1, <2>2 DEF LayerOK, Refused
    <3>4. QED
      BY <3>2, <3>3
  <2>3. QED
    BY <2>1, <2>2 DEF Answer
<1>4. op' \in [Threads -> Calls] /\ OneMoves
  BY <1>1, <1>2 DEF VariablesOK, OneMoves
<1>5. InboxesKept
  BY <1>2, <1>3 DEF InboxesKept
<1>6. \A l \in Existing \cap Listeners :
        object[l].flag /\ Socket(l).state = "listening"
          => layer'.sockets[SocketOf(l)].state = "listening"
  BY <1>1, <1>2, <1>3 DEF ObjectsOK, Socket
<1>7. QED
  BY <1>2, <1>3, <1>4, <1>5, <1>6, SocketStep

LEMMA LossKeeps ==
  ASSUME IInv, NEW s \in Numbers(layer), LoseBytes(s)
  PROVE  IInv'
<1>1. LayerOK(layer) /\ VariablesOK /\ ObjectsOK
  BY DEF IInv
<1>2. /\ layer.sockets[s].state = "connected" /\ HasEnded(layer, s)
      /\ UNCHANGED <<object, op, sent, got, leaked, killed>>
  BY DEF LoseBytes
<1> DEFINE nothing == <<>>
<1>3. SetsInbox(layer', layer, s, nothing) /\ nothing \in Seq(Nat)
  BY <1>1, EmptySeq DEF LoseBytes, SetsInbox, Changes, LayerOK
<1> HIDE DEF nothing
<1>4. /\ Grows(layer', layer)
      /\ layer'.files = layer.files
      /\ layer'.sockets[s].inbox = nothing
      /\ \A u \in Numbers(layer) :
           /\ u # s => layer'.sockets[u].inbox = layer.sockets[u].inbox
           /\ layer'.sockets[u].state = layer.sockets[u].state
  BY <1>1, <1>2, <1>3, InboxChanges
<1>5. op' \in [Threads -> Calls] /\ OneMoves
  BY <1>1, <1>2 DEF VariablesOK, OneMoves
<1>6. InboxesKept
  BY <1>2, <1>4 DEF InboxesKept, nothing
<1>7. \A l \in Existing \cap Listeners :
        object[l].flag /\ Socket(l).state = "listening"
          => layer'.sockets[SocketOf(l)].state = "listening"
  BY <1>1, <1>4 DEF ObjectsOK, Socket
<1>8. QED
  BY <1>2, <1>4, <1>5, <1>6, <1>7, SocketStep

-----------------------------------------------------------------------------
(* The steps that move bytes.                                              *)

LEMMA StreamStays ==
  ASSUME NEW q, StreamOK(q),
         Received(q)' = Received(q), Arrived(q)' = Arrived(q), sent'[q] = sent[q],
         HasEnded(layer, q) => HasEnded(layer', q),
         \A t \in Threads : /\ Sends(t, q)' <=> Sends(t, q)
                            /\ Sends(t, q) => op'[t].rest = op[t].rest
  PROVE  StreamOK(q)'
  BY DEF StreamOK

(* Only the bytes between the ends of connections and in a call change. *)
LEMMA ByteStep ==
  ASSUME IInv, Grows(layer', layer), layer'.files = layer.files,
         \A s \in Numbers(layer) : layer'.sockets[s].state = layer.sockets[s].state,
         UNCHANGED <<object, leaked, killed>>, VariablesOK', OneMoves, StreamsOK'
  PROVE  IInv'
<1>1. LayerOK(layer) /\ VariablesOK /\ ObjectsOK
  BY DEF IInv
<1>2. /\ ObjectsOK' /\ Existing' = Existing
      /\ \A o \in Existing : SocketOf(o)' = SocketOf(o)
  BY <1>1, ObjectsKept
<1>3. \A l \in Existing : Socket(l)'.state = Socket(l).state
  BY <1>1, <1>2 DEF ObjectsOK, Socket
<1>4. ObjectsUndisturbed
  BY <1>2, <1>3, CalledExist DEF ObjectsUndisturbed
<1>5. OpsOK' /\ FlagsAreTrue'
  BY <1>4, PartsKept
<1>6. LayerOK(layer)'
  BY DEF Grows
<1>7. QED
  BY <1>2, <1>5, <1>6 DEF IInv

(* One call of send at a time on a connection. *)
LEMMA OneSender ==
  ASSUME IInv, NEW t \in Threads, NEW u \in Threads, NEW s,
         Sends(t, s), Sends(u, s)
  PROVE  t = u
<1>1. LayerOK(layer) /\ ObjectsOK /\ OpsOK
  BY DEF IInv
<1>2. /\ op[t].pc = "send" /\ op[u].pc = "send"
      /\ op[t].on \in Existing /\ op[u].on \in Existing
      /\ SocketOf(op[t].on) = SocketOf(op[u].on)
  BY <1>1 DEF Sends, OpsOK, ThreadOK
<1>3. op[t].on = op[u].on
  BY <1>1, <1>2, SocketsAreDistinct
<1>4. QED
  BY <1>1, <1>2, <1>3 DEF OpsOK

(* Where a socket is connected, after a step that connects nothing. *)
LEMMA SameConnections ==
  ASSUME LayerOK(layer), Grows(layer', layer), Numbers(layer') = Numbers(layer),
         \A s \in Numbers(layer) : layer'.sockets[s].state = layer.sockets[s].state
  PROVE  \A s : /\ Connected(s)' <=> Connected(s)
                /\ Connected(s) => layer'.sockets[s].peer = layer.sockets[s].peer
  BY DEF Connected, Grows

LEMMA ReceiveKeeps ==
  ASSUME IInv, NEW t \in Threads, Receive(t)
  PROVE  IInv'
<1>1. LayerOK(layer) /\ VariablesOK /\ ObjectsOK /\ OpsOK /\ StreamsOK
  BY DEF IInv
<1>2. /\ op[t].pc = "receive" /\ Return(t)
      /\ UNCHANGED <<object, sent, leaked, killed>>
  BY DEF Receive, In
<1>3. PICK s : s = SocketOf(op[t].on)
  OBVIOUS
<1>4. PICK inbox : inbox = layer.sockets[s].inbox
  OBVIOUS
<1>5. PICK n \in DOMAIN inbox :
        /\ got' = [got EXCEPT ![s] = @ \o SubSeq(inbox, 1, n)]
        /\ layer' = WithoutBytes(layer, s, n)
  BY <1>3, <1>4 DEF Receive
<1>6. Connected(s)
  BY <1>1, <1>2, <1>3 DEF OpsOK, ThreadOK, ObjectsOK, Socket, Connected
<1>7. PICK p : p = layer.sockets[s].peer
  OBVIOUS
<1>8. /\ s \in 1 .. MaxSockets /\ s \in Numbers(layer)
      /\ Connected(p) /\ p \in Numbers(layer)
      /\ layer.sockets[p].peer = s /\ p \in 1 .. MaxSockets
  BY <1>1, <1>6, <1>7, StreamTypes DEF Connected
<1>9. Received(p) = got[s] /\ Arrived(p) = inbox /\ StreamOK(p)
  BY <1>1, <1>4, <1>8 DEF Received, Arrived, StreamsOK
<1>10. PICK g \in Nat, a \in Nat :
         /\ g = Len(got[s]) /\ got[s] = Interval(0, g)
         /\ a = Len(inbox) /\ inbox = Interval(g, a)
         /\ inbox \in Seq(Nat) /\ g + a <= sent[p] /\ sent[p] \in Nat
  <2>1. got[s] \in Seq(Nat) /\ inbox \in Seq(Nat) /\ sent[p] \in Nat
    BY <1>1, <1>8, <1>9, StreamTypes
  <2>2. Len(got[s]) \in Nat /\ Len(inbox) \in Nat
    BY <2>1, LenProperties
  <2>3. /\ got[s] = Interval(0, Len(got[s]))
        /\ inbox = Interval(Len(got[s]), Len(inbox))
        /\ Len(got[s]) + Len(inbox) <= sent[p]
    BY <1>9 DEF StreamOK
  <2>4. QED
    BY <2>1, <2>2, <2>3
<1>11. /\ n \in 1 .. a /\ n \in 0 .. a /\ n \in Nat
       /\ g + n \in Nat /\ a - n \in Nat /\ g + n + (a - n) = g + a
  <2>1. n \in 1 .. a
    BY <1>10, LenProperties
  <2>2. QED
    BY <2>1
<1> DEFINE first == SubSeq(inbox, 1, n)
           rest == SubSeq(inbox, n + 1, Len(inbox))
<1>12. first = Interval(g, n) /\ rest = Interval(g + n, a - n)
  <2>1. /\ SubSeq(Interval(g, a), 1, n) = Interval(g, n)
        /\ SubSeq(Interval(g, a), n + 1, a) = Interval(g + n, a - n)
    BY <1>11, IntervalParts
  <2>2. QED
    BY <1>10, <2>1
<1> HIDE DEF first, rest
<1>13. /\ got[s] \o first = Interval(0, g + n)
       /\ Interval(0, g + n) \in Seq(Nat) /\ Len(Interval(0, g + n)) = g + n
       /\ rest \in Seq(Nat) /\ Len(rest) = a - n
  <2>1. Interval(0, g) \o Interval(0 + g, n) = Interval(0, g + n)
    BY <1>11, IntervalJoins
  <2>2. /\ Interval(0, g + n) \in Seq(Nat) /\ Len(Interval(0, g + n)) = g + n
        /\ Interval(g + n, a - n) \in Seq(Nat) /\ Len(Interval(g + n, a - n)) = a - n
    BY <1>11, IntervalIs
  <2>3. 0 + g = g
    OBVIOUS
  <2>4. QED
    BY <1>10, <1>12, <2>1, <2>2, <2>3
<1>14. /\ got'[s] = Interval(0, g + n)
       /\ \A u \in 1 .. MaxSockets : u # s => got'[u] = got[u]
       /\ got' \in [1 .. MaxSockets -> Seq(Nat)]
  BY <1>1, <1>5, <1>8, <1>13 DEF VariablesOK, first
<1>15. SetsInbox(layer', layer, s, rest)
  BY <1>1, <1>4, <1>5 DEF SetsInbox, Changes, LayerOK, WithoutBytes, rest
<1>16. /\ Grows(layer', layer)
       /\ Numbers(layer') = Numbers(layer)
       /\ layer'.files = layer.files
       /\ layer'.sockets[s].inbox = rest
       /\ \A u \in Numbers(layer) :
            /\ u # s => layer'.sockets[u].inbox = layer.sockets[u].inbox
            /\ layer'.sockets[u].state = layer.sockets[u].state
            /\ layer'.sockets[u].peer = layer.sockets[u].peer
            /\ layer'.sockets[u].shut = layer.sockets[u].shut
  BY <1>1, <1>6, <1>8, <1>13, <1>15, InboxChanges DEF Connected
<1>17. /\ op' \in [Threads -> Calls]
       /\ op'[t].pc = "idle" /\ op'[t].on = NoObject
       /\ \A u \in Threads \ {t} : op'[u] = op[u]
  BY <1>1, <1>2, ReturnsFromCall
<1>18. VariablesOK'
  BY <1>1, <1>2, <1>14, <1>17 DEF VariablesOK
<1>19. OneMoves
  BY <1>17 DEF OneMoves, ThreadOK, Entitled
<1>20. \A u : Connected(u)' <=> Connected(u)
  BY <1>1, <1>16, SameConnections
<1>21. \A u \in Threads : \A q :
         /\ Sends(u, q)' <=> Sends(u, q)
         /\ Sends(u, q) => op'[u].rest = op[u].rest
  BY <1>2, <1>16, <1>17 DEF Sends, SocketOf
<1>22. \A q \in Numbers(layer) : Connected(q) =>
         (HasEnded(layer', q) <=> HasEnded(layer, q))
  BY <1>1, <1>16 DEF HasEnded, Connected, LayerOK, PeersOK
<1>23. StreamOK(p)'
  <2>1. Received(p)' = Interval(0, g + n) /\ Arrived(p)' = Interval(g + n, a - n)
    BY <1>8, <1>12, <1>14, <1>16 DEF Received, Arrived
  <2>2. Len(Received(p)') = g + n /\ Len(Arrived(p)') = a - n
    BY <1>12, <1>13, <2>1
  <2>3. HasEnded(layer', p) <=> HasEnded(layer, p)
    BY <1>8, <1>22
  <2>4. \A u \in Threads : /\ Sends(u, p)' <=> Sends(u, p)
                           /\ Sends(u, p) => op'[u].rest = op[u].rest
    BY <1>21
  <2>5. Len(Received(p)) = g /\ Len(Arrived(p)) = a /\ sent'[p] = sent[p]
    BY <1>2, <1>9, <1>10
  <2>6. g + n + (a - n) = g + a /\ g + a <= sent[p]
    BY <1>10, <1>11
  <2>7. QED
    BY <1>9, <2>1, <2>2, <2>3, <2>4, <2>5, <2>6 DEF StreamOK
<1>24. ASSUME NEW q \in Numbers(layer), Connected(q), q # p PROVE StreamOK(q)'
  <2>1. /\ layer.sockets[q].peer # s /\ layer.sockets[q].peer \in Numbers(layer)
        /\ layer.sockets[q].peer \in 1 .. MaxSockets
    BY <1>1, <1>7, <1>24, StreamTypes DEF Connected
  <2>2. Received(q)' = Received(q) /\ Arrived(q)' = Arrived(q)
    BY <1>14, <1>16, <2>1 DEF Received, Arrived
  <2>3. StreamOK(q) /\ sent'[q] = sent[q]
    BY <1>1, <1>2, <1>24 DEF StreamsOK
  <2>4. HasEnded(layer, q) => HasEnded(layer', q)
    BY <1>22, <1>24
  <2>5. \A u \in Threads : /\ Sends(u, q)' <=> Sends(u, q)
                           /\ Sends(u, q) => op'[u].rest = op[u].rest
    BY <1>21
  <2>6. QED
    BY <2>2, <2>3, <2>4, <2>5, StreamStays
<1>25. SilenceOK'
  BY <1>1, <1>2, <1>6, <1>14, <1>20 DEF StreamsOK, SilenceOK
<1>26. StreamsOK'
  <2>1. \A q \in Numbers(layer) : Connected(q) => StreamOK(q)'
    BY <1>23, <1>24
  <2>2. \A q \in Numbers(layer') : Connected(q)' => StreamOK(q)'
    BY <1>16, <1>20, <2>1
  <2>3. QED
    BY <1>25, <2>2 DEF StreamsOK
<1>27. QED
  BY <1>2, <1>16, <1>18, <1>19, <1>26, ByteStep

(***************************************************************************)
(* The streams of the connections that a sender's step does not touch, and *)
(* the silence where there is no connection.                               *)
(***************************************************************************)
LEMMA OtherStreamsStay ==
  ASSUME IInv, NEW s, Connected(s), UNCHANGED got,
         Grows(layer', layer), Numbers(layer') = Numbers(layer),
         \A u \in Numbers(layer) :
           /\ u # layer.sockets[s].peer =>
                layer'.sockets[u].inbox = layer.sockets[u].inbox
           /\ layer'.sockets[u].state = layer.sockets[u].state,
         \A u \in 1 .. MaxSockets : u # s => sent'[u] = sent[u],
         \A t \in Threads : \A q : q # s =>
           /\ Sends(t, q)' <=> Sends(t, q)
           /\ Sends(t, q) => op'[t].rest = op[t].rest,
         StreamOK(s)'
  PROVE  StreamsOK'
<1>1. LayerOK(layer) /\ VariablesOK /\ StreamsOK
  BY DEF IInv
<1>2. \A u : /\ Connected(u)' <=> Connected(u)
             /\ Connected(u) => layer'.sockets[u].peer = layer.sockets[u].peer
  BY <1>1, SameConnections
<1>3. ASSUME NEW q \in Numbers(layer), Connected(q), q # s PROVE StreamOK(q)'
  <2>1. /\ layer.sockets[q].peer # layer.sockets[s].peer
        /\ layer.sockets[q].peer \in Numbers(layer)
        /\ q \in 1 .. MaxSockets
    <3>1. /\ layer.sockets[layer.sockets[q].peer].peer = q
          /\ layer.sockets[q].peer \in Numbers(layer)
          /\ q \in 1 .. MaxSockets
      BY <1>1, <1>3, StreamTypes DEF Connected
    <3>2. layer.sockets[layer.sockets[s].peer].peer = s
      BY <1>1, StreamTypes
    <3>3. QED
      BY <1>3, <3>1, <3>2
  <2>2. Received(q)' = Received(q) /\ Arrived(q)' = Arrived(q)
    BY <1>2, <1>3, <2>1 DEF Received, Arrived
  <2>3. StreamOK(q) /\ sent'[q] = sent[q]
    BY <1>1, <1>3, <2>1 DEF StreamsOK
  <2>4. HasEnded(layer, q) => HasEnded(layer', q)
    BY <1>1, <1>3, EndedStays
  <2>5. \A t \in Threads : /\ Sends(t, q)' <=> Sends(t, q)
                           /\ Sends(t, q) => op'[t].rest = op[t].rest
    BY <1>3
  <2>6. QED
    BY <2>2, <2>3, <2>4, <2>5, StreamStays
<1>4. SilenceOK'
  BY <1>1, <1>2 DEF StreamsOK, SilenceOK
<1>5. \A q \in Numbers(layer') : Connected(q)' => StreamOK(q)'
  BY <1>2, <1>3
<1>6. QED
  BY <1>4, <1>5 DEF StreamsOK

LEMMA SendStarts ==
  ASSUME IInv, NEW t \in Threads, NEW c \in Connections, StartSend(t, c)
  PROVE  IInv'
<1>1. LayerOK(layer) /\ VariablesOK /\ ObjectsOK /\ OpsOK /\ StreamsOK /\ FlagsAreTrue
  BY DEF IInv
<1>2. PICK s : s = SocketOf(c)
  OBVIOUS
<1>3. /\ MayCall(t, c) /\ object[c].flag
      /\ sent[s] + MessageSize <= MaxBytes
      /\ sent' = [sent EXCEPT ![s] = @ + MessageSize]
      /\ UNCHANGED <<layer, object, got, leaked, killed>>
  BY <1>2 DEF StartSend
<1>4. /\ op[t].pc = "idle" /\ c \in Existing
      /\ \A u \in Callers(c) : op[u].pc = "close"
  BY <1>3 DEF MayCall, IsIdle, Existing, Objects
<1>5. Connected(s) /\ Socket(c).state = "connected"
  BY <1>1, <1>2, <1>3, <1>4 DEF FlagsAreTrue, ObjectsOK, Socket, Connected
<1>6. s \in 1 .. MaxSockets /\ sent[s] \in Nat /\ MessageSize \in Nat \ {0}
  BY <1>1, <1>5, StreamTypes, SocketsAssumption
<1>7. PICK b : b = sent[s]
  OBVIOUS
<1>8. PICK call : call = [pc |-> "send", on |-> c, rest |-> Interval(b, MessageSize)]
  OBVIOUS
<1>9. op' = [op EXCEPT ![t] = call]
  BY <1>2, <1>7, <1>8 DEF StartSend, Interval
<1>10. /\ Interval(b, MessageSize) \in Seq(Nat)
       /\ Len(Interval(b, MessageSize)) = MessageSize
  BY <1>6, <1>7, IntervalIs
<1>11. /\ call \in Calls /\ call.pc = "send" /\ call.on = c
       /\ call.rest = Interval(b, MessageSize)
  BY <1>8, <1>10 DEF Calls, Points, Objects
<1>12. /\ op' \in [Threads -> Calls] /\ op'[t] = call
       /\ \A u \in Threads \ {t} : op'[u] = op[u]
  BY <1>1, <1>9, <1>11 DEF VariablesOK
<1>13. /\ sent' \in [1 .. MaxSockets -> 0 .. MaxBytes]
       /\ sent'[s] = b + MessageSize
       /\ \A u \in 1 .. MaxSockets : u # s => sent'[u] = sent[u]
  BY <1>1, <1>3, <1>6, <1>7, SocketsAssumption DEF VariablesOK
<1>14. VariablesOK'
  BY <1>1, <1>3, <1>12, <1>13 DEF VariablesOK
<1>15. ThreadOK(t)' /\ Entitled(t)
  <2>1. c \in Existing'
    BY <1>3, <1>4 DEF Existing
  <2>2. Socket(op[t].on)' = Socket(c)
    BY <1>3, <1>11, <1>12 DEF Socket, SocketOf
  <2>3. QED
    BY <1>4, <1>5, <1>11, <1>12, <2>1, <2>2 DEF ThreadOK, Entitled, Communicating
<1>16. OneMoves
  BY <1>12, <1>15 DEF OneMoves
<1>17. /\ Grows(layer', layer) /\ layer' = layer
  BY <1>1, <1>3 DEF Grows, LayerOK, PeersOK
<1>18. \A u \in Threads \ {t} : \A q :
         /\ Sends(u, q)' <=> Sends(u, q)
         /\ Sends(u, q) => op'[u].rest = op[u].rest
  BY <1>3, <1>12 DEF Sends, SocketOf
<1>19. \A q : ~Sends(t, q) /\ (Sends(t, q)' => q = s)
  BY <1>2, <1>3, <1>4, <1>11, <1>12 DEF Sends, SocketOf
<1>20. \A u \in Threads : ~Sends(u, s)
  <2> SUFFICES ASSUME NEW u \in Threads, Sends(u, s) PROVE FALSE
    OBVIOUS
  <2>1. op[u].pc = "send" /\ op[u].on \in Existing /\ SocketOf(op[u].on) = s
    BY <1>1 DEF Sends, OpsOK, ThreadOK
  <2>2. op[u].on = c
    BY <1>1, <1>2, <1>4, <2>1, SocketsAreDistinct
  <2>3. QED
    BY <1>4, <2>1, <2>2 DEF Callers
<1>21. StreamOK(s)'
  <2>1. StreamOK(s) /\ s \in Numbers(layer)
    BY <1>1, <1>5 DEF StreamsOK, Connected
  <2>2. Received(s)' = Received(s) /\ Arrived(s)' = Arrived(s)
    BY <1>3 DEF Received, Arrived
  <2>3. PICK g \in Nat, a \in Nat : g = Len(Received(s)) /\ a = Len(Arrived(s))
    BY <1>1, <1>5, StreamTypes, LenProperties
  <2>4. /\ Received(s)' = Interval(0, g) /\ Arrived(s)' = Interval(g, a)
        /\ g + a <= b /\ (~HasEnded(layer, s) => g + a = b)
    BY <1>7, <1>20, <2>1, <2>2, <2>3 DEF StreamOK
  <2>5. HasEnded(layer', s) <=> HasEnded(layer, s)
    BY <1>17
  <2>6. \A u \in Threads : Sends(u, s)' => u = t
    BY <1>18, <1>20
  <2>7. /\ Len(op'[t].rest) = MessageSize
        /\ op'[t].rest = Interval(b, MessageSize)
    BY <1>10, <1>11, <1>12
  <2>8. /\ g + a <= b + MessageSize /\ MessageSize <= b + MessageSize
        /\ ~HasEnded(layer, s) => g + a + MessageSize = b + MessageSize
    BY <1>6, <1>7, <2>4
  <2>9. \A u \in Threads : Sends(u, s)' =>
          /\ Len(op'[u].rest) <= sent'[s]
          /\ op'[u].rest = Interval(sent'[s] - Len(op'[u].rest), Len(op'[u].rest))
          /\ ~HasEnded(layer', s) => g + a + Len(op'[u].rest) = sent'[s]
    <3>1. sent'[s] - MessageSize = b
      BY <1>6, <1>7, <1>13
    <3>2. /\ Len(op'[t].rest) <= sent'[s]
          /\ op'[t].rest = Interval(sent'[s] - Len(op'[t].rest), Len(op'[t].rest))
          /\ ~HasEnded(layer', s) => g + a + Len(op'[t].rest) = sent'[s]
      BY <1>13, <2>5, <2>7, <2>8, <3>1
    <3>3. QED
      BY <2>6, <3>2
  <2>10. Sends(t, s)'
    BY <1>2, <1>3, <1>11, <1>12 DEF Sends, SocketOf
  <2>11. g + a <= sent'[s] /\ Len(Received(s)') = g /\ Len(Arrived(s)') = a
    BY <1>13, <2>2, <2>3, <2>8
  <2>12. QED
    BY <2>4, <2>9, <2>10, <2>11 DEF StreamOK
<1>22. \A u \in Threads : \A q : q # s =>
         /\ Sends(u, q)' <=> Sends(u, q)
         /\ Sends(u, q) => op'[u].rest = op[u].rest
  BY <1>18, <1>19
<1>23. StreamsOK'
  BY <1>3, <1>5, <1>13, <1>17, <1>21, <1>22, OtherStreamsStay
<1>24. QED
  BY <1>3, <1>14, <1>16, <1>17, <1>23, ByteStep

LEMMA SendSomeKeeps ==
  ASSUME IInv, NEW t \in Threads, SendSome(t)
  PROVE  IInv'
<1>1. LayerOK(layer) /\ VariablesOK /\ ObjectsOK /\ OpsOK /\ StreamsOK
  BY DEF IInv
<1>2. PICK c : c = op[t].on
  OBVIOUS
<1>3. PICK s : s = SocketOf(c)
  OBVIOUS
<1>4. PICK p : p = layer.sockets[s].peer
  OBVIOUS
<1>5. PICK rest : rest = op[t].rest
  OBVIOUS
<1>6. /\ op[t].pc = "send" /\ ~layer.sockets[s].shut
      /\ UNCHANGED <<object, sent, got, leaked, killed>>
  BY <1>2, <1>3 DEF SendSome, In
<1>7. PICK n \in DOMAIN rest :
        /\ \/ /\ ~layer.sockets[p].shut
              /\ layer' = WithBytes(layer, s, SubSeq(rest, 1, n))
           \/ /\ layer.sockets[p].shut
              /\ layer' = layer
        /\ IF RestAfter(rest, n) = <<>>
           THEN Return(t)
           ELSE op' = [op EXCEPT ![t].rest = RestAfter(rest, n)]
  BY <1>2, <1>3, <1>4, <1>5 DEF SendSome
<1>8. /\ c \in Existing /\ c \in Connections /\ Connected(s)
      /\ Socket(c).state = "connected" /\ Sends(t, s)
  BY <1>1, <1>2, <1>3, <1>6
  DEF OpsOK, ThreadOK, ObjectsOK, Socket, Connected, Communicating, Sends
<1>9. /\ s \in 1 .. MaxSockets /\ s \in Numbers(layer)
      /\ Connected(p) /\ p \in Numbers(layer)
      /\ layer.sockets[p].peer = s
  BY <1>1, <1>4, <1>8, StreamTypes DEF Connected
<1>10. PICK g \in Nat, a \in Nat, r \in Nat, b \in Nat :
         /\ g = Len(Received(s)) /\ Received(s) = Interval(0, g)
         /\ a = Len(Arrived(s)) /\ Arrived(s) = Interval(g, a)
         /\ r = Len(rest) /\ rest = Interval(b - r, r) /\ rest \in Seq(Nat)
         /\ b = sent[s] /\ r <= b /\ g + a <= b
         /\ ~HasEnded(layer, s) => g + a + r = b
  <2>1. op[t] \in Calls
    BY <1>1 DEF VariablesOK
  <2>2. rest \in Seq(Nat) /\ Len(rest) \in Nat
    BY <1>5, <2>1 DEF Calls
  <2>3. /\ Len(Received(s)) \in Nat /\ Len(Arrived(s)) \in Nat /\ sent[s] \in Nat
    BY <1>1, <1>8, StreamTypes, LenProperties
  <2>4. StreamOK(s)
    BY <1>1, <1>8, <1>9 DEF StreamsOK
  <2>5. /\ Received(s) = Interval(0, Len(Received(s)))
        /\ Arrived(s) = Interval(Len(Received(s)), Len(Arrived(s)))
        /\ Len(rest) <= sent[s]
        /\ rest = Interval(sent[s] - Len(rest), Len(rest))
        /\ Len(Received(s)) + Len(Arrived(s)) <= sent[s]
        /\ ~HasEnded(layer, s) =>
             Len(Received(s)) + Len(Arrived(s)) + Len(rest) = sent[s]
    BY <1>5, <1>8, <2>4 DEF StreamOK
  <2>6. QED
    BY <2>2, <2>3, <2>5
<1>11. /\ n \in 1 .. r /\ n \in 0 .. r /\ n \in Nat /\ r - n \in Nat
       /\ b - r \in Nat /\ b - r + n = b - (r - n) /\ b - (r - n) \in Nat
       /\ r <= b /\ g + a <= b /\ r - n <= b
  <2>1. n \in 1 .. r
    BY <1>10, LenProperties
  <2>2. r <= b /\ g + a <= b
    BY <1>10
  <2>3. QED
    BY <2>1, <2>2
<1>12. PICK first : first = SubSeq(rest, 1, n)
  OBVIOUS
<1>13. PICK after : after = RestAfter(rest, n)
  OBVIOUS
<1>14. first = Interval(b - r, n) /\ after = Interval(b - (r - n), r - n)
  <2>1. /\ SubSeq(Interval(b - r, r), 1, n) = Interval(b - r, n)
        /\ SubSeq(Interval(b - r, r), n + 1, r) = Interval(b - r + n, r - n)
    BY <1>11, IntervalParts, ZenonT(60)
  <2>2. QED
    BY <1>10, <1>11, <1>12, <1>13, <2>1 DEF RestAfter
<1>15. /\ first \in Seq(Nat) /\ after \in Seq(Nat) /\ Len(after) = r - n
  BY <1>11, <1>14, IntervalIs
<1>16. /\ op' \in [Threads -> Calls]
       /\ \A u \in Threads \ {t} : op'[u] = op[u]
       /\ \/ after = <<>> /\ op'[t].pc = "idle" /\ op'[t].on = NoObject
          \/ op'[t].pc = "send" /\ op'[t].on = c /\ op'[t].rest = after
  <2>1. CASE after = <<>>
    <3>1. Return(t)
      BY <1>7, <1>13, <2>1
    <3>2. QED
      BY <1>1, <2>1, <3>1, ReturnsFromCall
  <2>2. CASE after # <<>>
    <3>1. op' = [op EXCEPT ![t].rest = after]
      BY <1>7, <1>13, <2>2
    <3>2. PICK call : call = [op[t] EXCEPT !.rest = after]
      OBVIOUS
    <3>3. op[t] \in Calls
      BY <1>1 DEF VariablesOK
    <3>4. call \in Calls /\ call.pc = "send" /\ call.on = c /\ call.rest = after
      BY <1>2, <1>6, <1>15, <3>2, <3>3 DEF Calls
    <3>5. op' = [op EXCEPT ![t] = call]
      BY <1>1, <3>1, <3>2 DEF VariablesOK
    <3>6. QED
      BY <1>1, <3>4, <3>5 DEF VariablesOK
  <2>3. QED
    BY <2>1, <2>2
<1>17. VariablesOK'
  BY <1>1, <1>6, <1>16 DEF VariablesOK
<1>18. \E m \in Nat :
         /\ Grows(layer', layer) /\ Numbers(layer') = Numbers(layer)
         /\ layer'.files = layer.files
         /\ layer'.sockets[p].inbox = Interval(g, m)
         /\ \A u \in Numbers(layer) :
              /\ u # p => layer'.sockets[u].inbox = layer.sockets[u].inbox
              /\ layer'.sockets[u].state = layer.sockets[u].state
         /\ g + m <= b
         /\ ~HasEnded(layer, s) => g + m + (r - n) = b
  <2>1. CASE ~layer.sockets[p].shut /\ layer' = WithBytes(layer, s, first)
    <3> DEFINE more == Arrived(s) \o first
    <3>1. ~HasEnded(layer, s)
      BY <1>4, <1>6, <2>1 DEF HasEnded
    <3>2. g + a + r = b
      BY <1>10, <3>1
    <3> HIDE DEF more
    <3>8. n \in Nat /\ n <= r
      BY <1>11
    <3>3. /\ b - r = g + a /\ a + n \in Nat /\ g + (a + n) <= b
          /\ g + (a + n) + (r - n) = b
      BY ONLY g \in Nat, a \in Nat, r \in Nat, b \in Nat, <3>8, <3>2
    <3> USE DEF more
    <3>4. more = Interval(g, a + n) /\ more \in Seq(Nat)
      <4>1. Interval(g, a) \o Interval(g + a, n) = Interval(g, a + n)
        BY <3>8, IntervalJoins
      <4>2. Interval(g, a + n) \in Seq(Nat)
        BY <3>3, IntervalIs
      <4>3. QED
        BY <1>10, <1>14, <3>3, <4>1, <4>2
    <3>5. SetsInbox(layer', layer, p, more)
      BY <1>1, <1>4, <2>1 DEF SetsInbox, Changes, LayerOK, WithBytes, Arrived
    <3> HIDE DEF more
    <3>6. /\ Grows(layer', layer)
          /\ Numbers(layer') = Numbers(layer)
          /\ layer'.files = layer.files
          /\ layer'.sockets[p].inbox = more
          /\ \A u \in Numbers(layer) :
               /\ u # p => layer'.sockets[u].inbox = layer.sockets[u].inbox
               /\ layer'.sockets[u].state = layer.sockets[u].state
      BY <1>1, <1>9, <3>4, <3>5, InboxChanges DEF Connected
    <3>7. QED
      BY <3>3, <3>4, <3>6
  <2>2. CASE layer.sockets[p].shut /\ layer' = layer
    <3>1. Grows(layer', layer)
      BY <1>1, <2>2 DEF Grows, LayerOK, PeersOK
    <3>2. HasEnded(layer, s)
      BY <1>4, <2>2 DEF HasEnded
    <3>3. layer'.sockets[p].inbox = Interval(g, a)
      BY <1>4, <1>10, <2>2 DEF Arrived
    <3>4. QED
      BY <1>11, <2>2, <3>1, <3>2, <3>3
  <2>3. QED
    BY <1>7, <1>12, <2>1, <2>2
<1>19. PICK m \in Nat :
         /\ Grows(layer', layer) /\ Numbers(layer') = Numbers(layer)
         /\ layer'.files = layer.files
         /\ layer'.sockets[p].inbox = Interval(g, m)
         /\ \A u \in Numbers(layer) :
              /\ u # p => layer'.sockets[u].inbox = layer.sockets[u].inbox
              /\ layer'.sockets[u].state = layer.sockets[u].state
         /\ g + m <= b
         /\ ~HasEnded(layer, s) => g + m + (r - n) = b
  BY <1>18
<1>20. OneMoves
  <2>1. layer'.sockets[s].state = "connected"
    BY <1>8, <1>9, <1>19 DEF Connected
  <2>2. op'[t].pc = "send" => Socket(op[t].on)'.state = "connected"
    BY <1>3, <1>6, <1>16, <1>19, <2>1 DEF Socket, SocketOf
  <2>3. c \in Existing'
    BY <1>6, <1>8 DEF Existing
  <2>4. ThreadOK(t)'
    BY <1>8, <1>16, <2>2, <2>3 DEF ThreadOK, Communicating
  <2>5. Entitled(t)
    BY <1>2, <1>6, <1>16 DEF Entitled
  <2>6. QED
    BY <1>16, <2>4, <2>5 DEF OneMoves
<1>21. \A u \in Threads \ {t} : \A q :
         /\ Sends(u, q)' <=> Sends(u, q)
         /\ Sends(u, q) => op'[u].rest = op[u].rest
  BY <1>6, <1>16, <1>19 DEF Sends, SocketOf
<1>22. \A q : /\ Sends(t, q) => q = s
              /\ Sends(t, q)' => q = s /\ op'[t].rest = after
  BY <1>2, <1>3, <1>6, <1>16, <1>19 DEF Sends, SocketOf
<1>23. after # <<>> => Sends(t, s)'
  BY <1>3, <1>6, <1>16, <1>19 DEF Sends, SocketOf
<1>24. StreamOK(s)'
  <2>1. layer'.sockets[s].peer = p
    BY <1>4, <1>8, <1>9, <1>19 DEF Grows, Connected
  <2>2. Received(s)' = Interval(0, g) /\ Arrived(s)' = Interval(g, m)
    BY <1>4, <1>6, <1>10, <1>19, <2>1 DEF Received, Arrived
  <2>3. Len(Received(s)') = g /\ Len(Arrived(s)') = m
    BY <2>2, IntervalIs
  <2>4. HasEnded(layer, s) => HasEnded(layer', s)
    BY <1>1, <1>8, <1>19, EndedStays
  <2>5. sent'[s] = b /\ g + m <= b
    BY <1>6, <1>10, <1>19
  <2>6. ~HasEnded(layer', s) => g + m + (r - n) = b
    BY <1>19, <2>4
  <2>7. \A u \in Threads : Sends(u, s)' => u = t
    BY <1>8, <1>21, OneSender
  <2>8. Sends(t, s)' =>
          /\ Len(op'[t].rest) = r - n
          /\ op'[t].rest = Interval(b - (r - n), r - n)
    BY <1>14, <1>15, <1>22
  <2>9. \A u \in Threads : Sends(u, s)' =>
          /\ Len(op'[u].rest) <= sent'[s]
          /\ op'[u].rest = Interval(sent'[s] - Len(op'[u].rest), Len(op'[u].rest))
          /\ ~HasEnded(layer', s) => g + m + Len(op'[u].rest) = sent'[s]
    BY <1>11, <2>5, <2>6, <2>7, <2>8
  <2>10. (\A u \in Threads : ~Sends(u, s)') /\ ~HasEnded(layer', s) =>
           g + m = sent'[s]
    <3>1. after = <<>> => r - n = 0
      BY <1>15, EmptySeq
    <3>2. r - n = 0 /\ g + m + (r - n) = b => g + m = b
      OBVIOUS
    <3>3. QED
      BY <1>23, <2>5, <2>6, <3>1, <3>2
  <2>11. QED
    BY <2>2, <2>3, <2>5, <2>9, <2>10 DEF StreamOK
<1>25. \A u \in Threads : \A q : q # s =>
         /\ Sends(u, q)' <=> Sends(u, q)
         /\ Sends(u, q) => op'[u].rest = op[u].rest
  BY <1>21, <1>22
<1>26. StreamsOK'
  <2>1. \A u \in Numbers(layer) :
          /\ u # layer.sockets[s].peer =>
               layer'.sockets[u].inbox = layer.sockets[u].inbox
          /\ layer'.sockets[u].state = layer.sockets[u].state
    BY <1>4, <1>19
  <2>2. Grows(layer', layer) /\ Numbers(layer') = Numbers(layer)
    BY <1>19
  <2>3. QED
    BY <1>6, <1>8, <1>24, <1>25, <2>1, <2>2, OtherStreamsStay
<1>27. QED
  <2>1. \A u \in Numbers(layer) : layer'.sockets[u].state = layer.sockets[u].state
    BY <1>19
  <2>2. Grows(layer', layer) /\ layer'.files = layer.files
    BY <1>19
  <2>3. QED
    BY <1>6, <1>17, <1>20, <1>26, <2>1, <2>2, ByteStep

-----------------------------------------------------------------------------
(* The invariant. *)

LEMMA InitiallyOK ==
  ASSUME Init
  PROVE  IInv
<1>1. PICK foreign \in Foreign : layer = EmptyLayer(foreign)
  BY DEF Init
<1>2. /\ layer = [files |-> layer.files, sockets |-> layer.sockets]
      /\ layer.files \in [Descriptors -> {NoSocket, OtherFile}]
      /\ layer.sockets = <<>>
  BY <1>1 DEF EmptyLayer
<1>3. /\ Len(layer.sockets) = 0 /\ Numbers(layer) = {}
      /\ layer.sockets \in Seq(Sockets)
  BY <1>2, EmptySeq DEF Numbers
<1>4. MaxSockets \in Nat /\ MaxBytes \in Nat
  BY LayerAssumption, SocketsAssumption
<1>5. LayerOK(layer)
  <2>1. FilesOK(layer)
    BY <1>2, <1>3, <1>4 DEF FilesOK, NoSocket, OtherFile
  <2>2. QED
    BY <1>2, <1>3, <1>4, <2>1 DEF LayerOK, SocketsOK, PeersOK, BacklogsOK
<1>6. VariablesOK
  <2>1. NotThere \in Members
    BY DEF NotThere, Members
  <2>2. Idle \in Calls
    BY EmptySeq DEF Idle, Calls, Points
  <2>3. <<>> \in Seq(Nat) /\ 0 \in 0 .. MaxBytes
    BY <1>4, EmptySeq
  <2>4. object \in [Objects -> Members] /\ op \in [Threads -> Calls]
    BY <2>1, <2>2 DEF Init
  <2>5. /\ sent \in [1 .. MaxSockets -> 0 .. MaxBytes]
        /\ got \in [1 .. MaxSockets -> Seq(Nat)]
    BY <2>3 DEF Init
  <2>6. QED
    BY <2>4, <2>5 DEF Init, VariablesOK
<1>7. Existing = {}
  BY DEF Init, Existing, NotThere
<1>8. ObjectsOK
  BY <1>3, <1>7 DEF ObjectsOK, Init
<1>9. OpsOK
  <2>1. \A t \in Threads : op[t].pc = "idle" /\ op[t].on = NoObject
    BY DEF Init, Idle
  <2>2. QED
    BY <2>1 DEF OpsOK, ThreadOK
<1>10. FlagsAreTrue
  BY <1>7 DEF FlagsAreTrue
<1>11. StreamsOK
  BY <1>3 DEF StreamsOK, SilenceOK, Init
<1>12. QED
  BY <1>5, <1>6, <1>8, <1>9, <1>10, <1>11 DEF IInv

LEMMA StepKeeps ==
  ASSUME IInv, NEW t \in Threads, Step(t)
  PROVE  IInv'
<1>1. CASE FinishClose(t)
  BY <1>1, CloseFinishes
<1>2. CASE Accept(t)
  BY <1>2, AcceptKeeps
<1>3. CASE AcceptNothing(t)
  <2>1. /\ Return(t) /\ op[t].pc # "send" /\ killed' \in BOOLEAN
        /\ UNCHANGED <<layer, object, sent, got, leaked>>
    BY <1>3 DEF AcceptNothing, FailsToAccept, In, IInv, VariablesOK
  <2>2. QED
    BY <2>1, OnlyReturns
<1>4. CASE EnterConnect(t)
  BY <1>4, ConnectEnters
<1>5. CASE Connect(t) \/ FailConnect(t)
  BY <1>5, ConnectReturns
<1>6. CASE Receive(t)
  BY <1>6, ReceiveKeeps
<1>7. CASE ReceiveNothing(t)
  <2>1. /\ Return(t) /\ op[t].pc # "send" /\ killed' \in BOOLEAN
        /\ UNCHANGED <<layer, object, sent, got, leaked>>
    BY <1>7 DEF ReceiveNothing, In, IInv, VariablesOK
  <2>2. QED
    BY <2>1, OnlyReturns
<1>8. CASE SendSome(t)
  BY <1>8, SendSomeKeeps
<1>9. CASE SendNothing(t)
  <2>1. /\ HasEnded(layer, SocketOf(op[t].on)) /\ killed' \in BOOLEAN
        /\ UNCHANGED <<layer, object, sent, got, leaked>>
        /\ Return(t) \/ UNCHANGED op
    BY <1>9 DEF SendNothing
  <2>2. CASE Return(t)
    BY <2>1, <2>2, OnlyReturns
  <2>3. CASE UNCHANGED op
    BY <2>1, <2>3, NothingChanges
  <2>4. QED
    BY <2>1, <2>2, <2>3
<1>10. QED
  BY <1>1, <1>2, <1>3, <1>4, <1>5, <1>6, <1>7, <1>8, <1>9 DEF Step

LEMMA CallKeeps ==
  ASSUME IInv, NEW t \in Threads, Call(t)
  PROVE  IInv'
<1>1. ASSUME NEW l \in Listeners, StartAccept(t, l) PROVE IInv'
  <2>1. /\ l \in Objects /\ MayCall(t, l) /\ Enter(t, "accept", l)
        /\ UNCHANGED <<layer, object, sent, got, leaked, killed>>
    BY <1>1 DEF StartAccept, Objects
  <2>2. QED
    BY <2>1, OnlyEnters
<1>2. ASSUME NEW l \in Listeners, NEW valid \in BOOLEAN, Listen(t, l, valid)
      PROVE  IInv'
  BY <1>2, ListenKeeps
<1>3. ASSUME NEW valid \in BOOLEAN, Create(t, valid) PROVE IInv'
  BY <1>3, CreateKeeps
<1>4. ASSUME NEW c \in Connections, StartConnect(t, c) PROVE IInv'
  <2>1. /\ c \in Objects /\ MayCall(t, c) /\ Enter(t, "connect", c)
        /\ UNCHANGED <<layer, object, sent, got, leaked, killed>>
    BY <1>4 DEF StartConnect, Objects
  <2>2. QED
    BY <2>1, OnlyEnters
<1>5. ASSUME NEW c \in Connections, StartReceive(t, c) PROVE IInv'
  <2>1. /\ c \in Objects /\ MayCall(t, c) /\ Enter(t, "receive", c)
        /\ object[c].flag
        /\ UNCHANGED <<layer, object, sent, got, leaked, killed>>
    BY <1>5 DEF StartReceive, Objects
  <2>2. QED
    BY <2>1, OnlyEnters
<1>6. ASSUME NEW c \in Connections, StartSend(t, c) PROVE IInv'
  BY <1>6, SendStarts
<1>7. ASSUME NEW o \in Objects, StartClose(t, o) PROVE IInv'
  BY <1>7, CloseStarts
<1>8. ASSUME NEW o \in Objects, Destroy(t, o) PROVE IInv'
  BY <1>8, DestroyKeeps
<1>9. QED
  BY <1>1, <1>2, <1>3, <1>4, <1>5, <1>6, <1>7, <1>8 DEF Call

LEMMA NextKeeps ==
  ASSUME IInv, [Next]_vars
  PROVE  IInv'
<1>1. killed \in BOOLEAN
  BY DEF IInv, VariablesOK
<1>2. CASE UNCHANGED vars
  <2>1. UNCHANGED <<layer, object, op, sent, got, leaked>> /\ killed' \in BOOLEAN
    BY <1>1, <1>2 DEF vars
  <2>2. QED
    BY <2>1, NothingChanges
<1>3. CASE Network
  BY <1>3, AnswerKeeps, LossKeeps DEF Network
<1>4. ASSUME NEW t \in Threads, Step(t) PROVE IInv'
  BY <1>4, StepKeeps
<1>5. ASSUME NEW t \in Threads, Call(t) PROVE IInv'
  BY <1>5, CallKeeps
<1>6. ASSUME NEW t \in Threads, Signal(t) PROVE IInv'
  <2>1. CASE InterruptConnect(t)
    BY <2>1, ConnectIsInterrupted
  <2>2. CASE UNCHANGED vars
    BY <1>2, <2>2
  <2>3. QED
    BY <1>6, <2>1, <2>2 DEF Signal, Interrupted
<1>7. QED
  BY <1>2, <1>3, <1>4, <1>5, <1>6 DEF Next

(* The parts of the invariant hold together in every state. *)
THEOREM Invariance == Spec => []IInv
<1>1. Init => IInv
  BY InitiallyOK
<1>2. IInv /\ [Next]_vars => IInv'
  BY NextKeeps
<1>3. QED
  BY <1>1, <1>2, PTL DEF Spec

-----------------------------------------------------------------------------
(* What follows from it. *)

(* Every variable has its type: layers, objects, calls and histories. *)
THEOREM TypeCorrect == Spec => []TypeOK
<1>1. IInv => TypeOK
  <2>1. ASSUME IInv PROVE TypeOK
    BY <2>1
    DEF IInv, LayerOK, VariablesOK, SocketsOK, FilesOK, Sockets, States,
        Members, Calls, Points, TypeOK
  <2>2. QED
    BY <2>1
<1>2. QED
  BY <1>1, Invariance, PTL

(***************************************************************************)
(* Every open descriptor is the one of exactly one object, or was left     *)
(* behind by a listen or create that failed, however many threads make,    *)
(* close and destroy objects: no destructor releases another's descriptor. *)
(***************************************************************************)
THEOREM DescriptorsOwned == Spec => []DescriptorsAreOwned
<1>1. ASSUME IInv PROVE DescriptorsAreOwned
  <2>1. /\ NoSocket \notin Numbers(layer) /\ OtherFile \notin Numbers(layer)
        /\ \A d \in Descriptors :
             layer.files[d] \in {NoSocket, OtherFile} \cup Numbers(layer)
    BY <1>1, NumbersAre DEF IInv, LayerOK, FilesOK
  <2>2. leaked \subseteq Descriptors /\ ObjectsOK
    BY <1>1 DEF IInv, VariablesOK
  <2>3. \A d \in Descriptors : layer.files[d] \notin {NoSocket, OtherFile} <=>
          d \in leaked \cup {object[o].socket_ : o \in Existing}
    BY <2>1, <2>2 DEF ObjectsOK, SocketOf
  <2>4. leaked \cup {object[o].socket_ : o \in Existing} \subseteq Descriptors
    BY <2>2 DEF ObjectsOK
  <2>5. {d \in Descriptors : layer.files[d] \notin {NoSocket, OtherFile}}
          = leaked \cup {object[o].socket_ : o \in Existing}
    BY <2>3, <2>4
  <2>6. QED
    BY <2>2, <2>5 DEF ObjectsOK, DescriptorsAreOwned
<1>2. QED
  BY <1>1, Invariance, PTL

(* No flag promises more than the socket holds, in any interleaving of *)
(* connect, close and stop. *)
THEOREM FlagsTrue == Spec => []FlagsAreTrue
<1>1. IInv => FlagsAreTrue
  BY DEF IInv
<1>2. QED
  BY <1>1, Invariance, PTL

(* The unsent bytes are those of the one thread that sends. *)
LEMMA UnsentIs ==
  ASSUME IInv, NEW s \in Numbers(layer), Connected(s)
  PROVE  \/ Unsent(s) = <<>> /\ \A t \in Threads : ~Sends(t, s)
         \/ \E t \in Threads : Sends(t, s) /\ Unsent(s) = op[t].rest
<1> DEFINE senders == {t \in Threads : op[t].pc = "send" /\ SocketOf(op[t].on) = s}
<1>1. CASE senders = {}
  BY <1>1 DEF Unsent, Sends
<1>2. CASE senders # {}
  <2>1. PICK t : t = CHOOSE u \in senders : TRUE
    OBVIOUS
  <2>2. t \in senders
    BY <1>2, <2>1
  <2>3. Unsent(s) = op[t].rest
    BY <1>2, <2>1 DEF Unsent
  <2>4. QED
    BY <2>2, <2>3 DEF Sends
<1>3. QED
  BY <1>1, <1>2

(***************************************************************************)
(* What one end received is a beginning of what the other was given to     *)
(* send, and nothing is missing on an open connection, however the system  *)
(* cuts the calls of send and receive into parts.                          *)
(***************************************************************************)
THEOREM StreamsIntact == Spec => []StreamsAreIntact
<1>1. ASSUME IInv PROVE StreamsAreIntact
  <2> SUFFICES ASSUME NEW s \in Numbers(layer), layer.sockets[s].state = "connected"
               PROVE  /\ IsPrefix(Received(s), Count(sent[s]))
                      /\ HasEnded(layer, s)
                         \/ Received(s) \o Arrived(s) \o Unsent(s) = Count(sent[s])
    BY DEF StreamsAreIntact, Received, Arrived
  <2>1. Connected(s) /\ StreamOK(s)
    BY <1>1 DEF IInv, StreamsOK, Connected
  <2>2. /\ Received(s) \in Seq(Nat) /\ Arrived(s) \in Seq(Nat)
        /\ sent[s] \in Nat
    BY <1>1, <2>1, StreamTypes DEF IInv
  <2>3. PICK g \in Nat, a \in Nat, b \in Nat :
          /\ g = Len(Received(s)) /\ a = Len(Arrived(s)) /\ b = sent[s]
    BY <2>2, LenProperties
  <2>4. /\ Received(s) = Interval(0, g) /\ Arrived(s) = Interval(g, a)
        /\ g + a <= b
    BY <2>1, <2>3 DEF StreamOK
  <2>5. Count(sent[s]) = Interval(0, b)
    BY <2>3 DEF Count, Interval
  <2>6. g <= b /\ b - g \in Nat
    BY <2>4
  <2>7. SubSeq(Interval(0, b), 1, g) = Interval(0, g)
    BY <2>6, IntervalParts
  <2>8. IsPrefix(Received(s), Count(sent[s]))
    <3>1. Len(Interval(0, b)) = b
      BY IntervalIs
    <3>2. QED
      BY <2>3, <2>4, <2>5, <2>6, <2>7, <3>1 DEF IsPrefix
  <2>9. Received(s) \o Arrived(s) = Interval(0, g + a)
    <3>1. Interval(0, g) \o Interval(0 + g, a) = Interval(0, g + a)
      BY IntervalJoins
    <3>2. 0 + g = g
      OBVIOUS
    <3>3. QED
      BY <2>4, <3>1, <3>2
  <2>10. ASSUME ~HasEnded(layer, s)
         PROVE  Received(s) \o Arrived(s) \o Unsent(s) = Count(sent[s])
    <3>1. CASE Unsent(s) = <<>> /\ \A t \in Threads : ~Sends(t, s)
      <4>1. g + a = b
        BY <2>1, <2>3, <2>10, <3>1 DEF StreamOK
      <4>2. Interval(0, g + a) \in Seq(Nat)
        BY IntervalIs
      <4>3. Interval(0, g + a) \o <<>> = Interval(0, g + a)
        BY <4>2, ConcatEmptySeq
      <4>4. QED
        BY <2>5, <2>9, <3>1, <4>1, <4>3
    <3>2. ASSUME NEW t \in Threads, Sends(t, s), Unsent(s) = op[t].rest
          PROVE  Received(s) \o Arrived(s) \o Unsent(s) = Count(sent[s])
      <4>1. op[t].rest \in Seq(Nat)
        BY <1>1 DEF IInv, VariablesOK, Calls
      <4>2. PICK r \in Nat : r = Len(op[t].rest)
        BY <4>1, LenProperties
      <4>3. op[t].rest = Interval(b - r, r) /\ g + a + r = b
        BY <2>1, <2>3, <2>10, <3>2, <4>2 DEF StreamOK
      <4>4. b - r = g + a /\ 0 + (g + a) = g + a /\ g + a \in Nat
        BY ONLY g \in Nat, a \in Nat, r \in Nat, b \in Nat, <4>3
      <4>5. Interval(0, g + a) \o Interval(0 + (g + a), r) = Interval(0, g + a + r)
        BY <4>4, IntervalJoins, ZenonT(60)
      <4>6. QED
        BY <2>5, <2>9, <3>2, <4>3, <4>4, <4>5
    <3>3. QED
      BY <1>1, <2>1, <3>1, <3>2, UnsentIs
  <2>11. QED
    BY <2>8, <2>10
<1>2. QED
  BY <1>1, Invariance, PTL

(* Nobody but its own thread ends a call. *)
LEMMA WhoReturns ==
  ASSUME IInv, Next, NEW t \in Threads,
         op[t].pc \in {"receive", "send", "accept"}, op'[t].pc = "idle"
  PROVE  \/ Receive(t) \/ ReceiveNothing(t)
         \/ SendSome(t) \/ SendNothing(t)
         \/ Accept(t) \/ AcceptNothing(t)
<1>1. op \in [Threads -> Calls]
  BY DEF IInv, VariablesOK
<1>2. ASSUME Network PROVE FALSE
  BY <1>2 DEF Network, Answer, LoseBytes
<1>3. PICK u \in Threads : Step(u) \/ Call(u) \/ Signal(u)
  BY <1>2 DEF Next
<1>4. \/ UNCHANGED op
      \/ \E call : op' = [op EXCEPT ![u] = call]
  <2>1. CASE Step(u)
    <3>1. CASE FinishClose(u) \/ Accept(u) \/ AcceptNothing(u) \/ Connect(u)
               \/ Receive(u) \/ ReceiveNothing(u) \/ SendNothing(u)
      BY <3>1 DEF FinishClose, Accept, AcceptNothing, Connect, Receive,
                  ReceiveNothing, SendNothing, Return
    <3>2. CASE EnterConnect(u)
      <4>1. op' = [op EXCEPT ![u].pc = "connecting"]
        BY <3>2 DEF EnterConnect
      <4>2. op' = [op EXCEPT ![u] = [op[u] EXCEPT !.pc = "connecting"]]
        BY <1>1, <4>1
      <4>3. QED
        BY <4>2
    <3>3. CASE FailConnect(u)
      <4>1. op' = [op EXCEPT ![u].pc = "close"]
        BY <3>3 DEF FailConnect
      <4>2. op' = [op EXCEPT ![u] = [op[u] EXCEPT !.pc = "close"]]
        BY <1>1, <4>1
      <4>3. QED
        BY <4>2
    <3>4. CASE SendSome(u)
      <4>1. PICK n : \/ Return(u)
                     \/ op' = [op EXCEPT ![u].rest = RestAfter(op[u].rest, n)]
        BY <3>4 DEF SendSome
      <4>2. PICK rest : rest = RestAfter(op[u].rest, n)
        OBVIOUS
      <4>3. \/ Return(u)
            \/ op' = [op EXCEPT ![u] = [op[u] EXCEPT !.rest = rest]]
        BY <1>1, <4>1, <4>2
      <4>4. QED
        BY <4>3 DEF Return
    <3>5. QED
      BY <2>1, <3>1, <3>2, <3>3, <3>4 DEF Step
  <2>2. CASE Call(u)
    <3>1. ASSUME NEW l \in Listeners, StartAccept(u, l)
          PROVE  \E call : op' = [op EXCEPT ![u] = call]
      BY <3>1 DEF StartAccept, Enter
    <3>2. ASSUME NEW c \in Connections,
                 StartConnect(u, c) \/ StartReceive(u, c) \/ StartSend(u, c)
          PROVE  \E call : op' = [op EXCEPT ![u] = call]
      BY <3>2 DEF StartConnect, StartReceive, StartSend, Enter
    <3>3. ASSUME NEW o \in Objects, StartClose(u, o)
          PROVE  \E call : op' = [op EXCEPT ![u] = call]
      BY <3>3 DEF StartClose, Enter
    <3>4. ASSUME NEW valid, NEW l, Listen(u, l, valid) \/ Create(u, valid)
          PROVE  UNCHANGED op
      BY <3>4 DEF Listen, Create
    <3>5. ASSUME NEW o, Destroy(u, o) PROVE UNCHANGED op
      BY <3>5 DEF Destroy
    <3>6. QED
      BY <2>2, <3>1, <3>2, <3>3, <3>4, <3>5 DEF Call
  <2>3. CASE Signal(u)
    <3>1. CASE InterruptConnect(u)
      <4>1. op' = [op EXCEPT ![u].pc = "poll"]
        BY <3>1 DEF InterruptConnect
      <4>2. op' = [op EXCEPT ![u] = [op[u] EXCEPT !.pc = "poll"]]
        BY <1>1, <4>1
      <4>3. QED
        BY <4>2
    <3>2. CASE UNCHANGED vars
      BY <3>2 DEF vars
    <3>3. QED
      BY <2>3, <3>1, <3>2 DEF Signal, Interrupted
  <2>4. QED
    BY <1>3, <2>1, <2>2, <2>3
<1>5. op'[t].pc # op[t].pc
  OBVIOUS
<1>6. u = t
  BY <1>1, <1>4, <1>5
<1>7. ASSUME Call(t) PROVE FALSE
  <2>1. IsIdle(t)
    BY <1>7 DEF Call, StartAccept, Listen, Create, StartConnect, StartReceive,
                StartSend, StartClose, Destroy, MayCall
  <2>2. QED
    BY <2>1 DEF IsIdle
<1>8. ASSUME Signal(t) PROVE FALSE
  <2>1. op'[t].pc = op[t].pc
    BY <1>8 DEF Signal, InterruptConnect, Interrupted, In, vars
  <2>2. QED
    BY <1>5, <2>1
<1>9. Step(t)
  BY <1>3, <1>6, <1>7, <1>8
<1>10. QED
  BY <1>9 DEF Step, FinishClose, EnterConnect, Connect, FailConnect, In,
              ReturnsFromConnect, HasConnected

(***************************************************************************)
(* receive returns empty-handed only from a connection that one of its     *)
(* ends closed, send leaves something over only on such a connection, and  *)
(* accept returns null only from a listener that no longer says it         *)
(* listens, or when no descriptor is left.                                 *)
(***************************************************************************)
THEOREM FailuresMeanClosed == Spec => OnlyClosedCallsFail
<1> DEFINE
      ReceiveTells(t) == Returns(t, "receive") /\ UNCHANGED got
                           => HasEnded(layer, SocketOf(op[t].on))
      SendTells(t) ==
        Returns(t, "send") =>
          \/ HasEnded(layer, SocketOf(op[t].on))
          \/ layer' = WithBytes(layer, SocketOf(op[t].on), op[t].rest)
      AcceptTells(t) == Returns(t, "accept") /\ UNCHANGED object
                          => ~object[op[t].on].flag \/ IsTableFull(layer)
<1>1. ASSUME IInv, Next, NEW t \in Threads PROVE ReceiveTells(t)
  <2> SUFFICES ASSUME Returns(t, "receive"), UNCHANGED got
               PROVE  HasEnded(layer, SocketOf(op[t].on))
    OBVIOUS
  <2>1. op[t].pc = "receive" /\ op'[t].pc = "idle"
    BY DEF Returns
  <2>2. Receive(t) \/ ReceiveNothing(t)
    BY <1>1, <2>1, WhoReturns
    DEF SendSome, SendNothing, Accept, AcceptNothing, FailsToAccept, In
  <2>3. ASSUME Receive(t) PROVE FALSE
    <3>1. PICK s : s = SocketOf(op[t].on)
      OBVIOUS
    <3>2. Connected(s) /\ s \in Numbers(layer)
      BY <1>1, <2>1, <3>1
      DEF IInv, OpsOK, ThreadOK, ObjectsOK, Connected, Socket
    <3>3. /\ layer.sockets[s].inbox \in Seq(Nat) /\ got[s] \in Seq(Nat)
          /\ s \in DOMAIN got
      BY <1>1, <3>2, NumbersAre DEF IInv, LayerOK, VariablesOK, Sockets
    <3>4. PICK n \in DOMAIN layer.sockets[s].inbox :
            got' = [got EXCEPT ![s] = @ \o SubSeq(layer.sockets[s].inbox, 1, n)]
      BY <2>3, <3>1 DEF Receive
    <3>5. PICK first : first = SubSeq(layer.sockets[s].inbox, 1, n)
      OBVIOUS
    <3>6. n \in 1 .. Len(layer.sockets[s].inbox)
      BY <3>3, LenProperties
    <3>7. first \in Seq(Nat) /\ Len(first) = n
      <4>1. n \in Int /\ 1 <= n /\ n - 1 + 1 = n
        BY <3>6
      <4>2. \A i \in 1 .. n : layer.sockets[s].inbox[i] \in Nat
        <5>1. /\ \A i \in 1 .. Len(layer.sockets[s].inbox) :
                   layer.sockets[s].inbox[i] \in Nat
              /\ Len(layer.sockets[s].inbox) \in Nat
          BY <3>3, ElementOfSeq, LenProperties
        <5>2. QED
          BY <3>6, <5>1
      <4>3. /\ SubSeq(layer.sockets[s].inbox, 1, n) \in Seq(Nat)
            /\ Len(SubSeq(layer.sockets[s].inbox, 1, n))
                 = IF 1 <= n THEN n - 1 + 1 ELSE 0
        BY <4>1, <4>2, SubSeqProperties
      <4>4. QED
        BY <3>5, <4>1, <4>3
    <3>8. got[s] = got[s] \o first
      BY <3>3, <3>4, <3>5
    <3>9. Len(got[s]) = Len(got[s]) + n /\ Len(got[s]) \in Nat
      BY <3>3, <3>7, <3>8, ConcatProperties, LenProperties
    <3>10. QED
      BY <3>6, <3>9
  <2>4. QED
    BY <2>2, <2>3 DEF ReceiveNothing
<1>2. ASSUME IInv, Next, NEW t \in Threads PROVE AcceptTells(t)
  <2> SUFFICES ASSUME Returns(t, "accept"), UNCHANGED object
               PROVE  ~object[op[t].on].flag \/ IsTableFull(layer)
    OBVIOUS
  <2>1. op[t].pc = "accept" /\ op'[t].pc = "idle"
    BY DEF Returns
  <2>2. Accept(t) \/ AcceptNothing(t)
    BY <1>2, <2>1, WhoReturns
    DEF Receive, ReceiveNothing, SendSome, SendNothing, In
  <2>3. ASSUME Accept(t) PROVE FALSE
    <3>1. PICK c \in Connections :
            /\ ~object[c].exists
            /\ object' = [object EXCEPT ![c] =
                            NewObject(TRUE, NextDescriptor(layer))]
      BY <2>3, NewConnectionIs DEF Accept
    <3>2. c \in DOMAIN object
      BY <1>2, <3>1 DEF IInv, VariablesOK, Objects
    <3>3. object'[c].exists
      BY <3>1, <3>2 DEF NewObject
    <3>4. QED
      BY <3>1, <3>3
  <2>4. op[t].on \in Existing \cap Listeners
    BY <1>2, <2>1 DEF IInv, OpsOK, ThreadOK
  <2>5. object[op[t].on].flag => Socket(op[t].on).state = "listening"
    BY <1>2, <2>4 DEF IInv, FlagsAreTrue
  <2>6. QED
    BY <2>2, <2>3, <2>5 DEF AcceptNothing, FailsToAccept
<1>3. ASSUME IInv, Next, NEW t \in Threads PROVE SendTells(t)
  <2> DEFINE s == SocketOf(op[t].on)
             rest == op[t].rest
  <2> SUFFICES ASSUME Returns(t, "send"), ~HasEnded(layer, s)
               PROVE  layer' = WithBytes(layer, s, rest)
    OBVIOUS
  <2>1. op[t].pc = "send" /\ op'[t].pc = "idle"
    BY DEF Returns
  <2>2. SendSome(t)
    BY <1>3, <2>1, WhoReturns
    DEF Receive, ReceiveNothing, SendNothing, Accept, AcceptNothing,
        FailsToAccept, In
  <2>3. PICK n \in DOMAIN rest :
          /\ layer' = WithBytes(layer, s, SubSeq(rest, 1, n))
          /\ RestAfter(rest, n) = <<>>
             \/ op' = [op EXCEPT ![t].rest = RestAfter(rest, n)]
    BY <2>2 DEF SendSome, HasEnded
  <2>4. /\ op[t] \in Calls /\ op \in [Threads -> Calls]
        /\ rest \in Seq(Nat) /\ Len(rest) \in Nat /\ n \in 1 .. Len(rest)
    BY <1>3 DEF IInv, VariablesOK, Calls
  <2> HIDE DEF s, rest
  <2>5. RestAfter(rest, n) = <<>>
    <3>1. PICK after : after = RestAfter(rest, n)
      OBVIOUS
    <3>2. CASE op' = [op EXCEPT ![t] = [op[t] EXCEPT !.rest = after]]
      <4>1. op'[t] = [op[t] EXCEPT !.rest = after]
        BY <2>4, <3>2
      <4>2. op'[t].pc = op[t].pc
        BY <2>4, <4>1 DEF Calls
      <4>3. QED
        BY <2>1, <4>2
    <3>3. QED
      BY <2>3, <3>1, <3>2
  <2>6. n = Len(rest)
    <3>1. \A i \in n + 1 .. Len(rest) : rest[i] \in Nat
      BY <2>4, ElementOfSeq
    <3>2. Len(SubSeq(rest, n + 1, Len(rest)))
            = IF n + 1 <= Len(rest) THEN Len(rest) - (n + 1) + 1 ELSE 0
      BY <2>4, <3>1, SubSeqProperties
    <3>3. Len(SubSeq(rest, n + 1, Len(rest))) = 0
      BY <2>5, EmptySeq DEF RestAfter
    <3>4. QED
      BY <2>4, <3>2, <3>3
  <2>7. SubSeq(rest, 1, n) = rest
    BY <2>4, <2>6, SubSeqFull
  <2>8. QED
    BY <2>3, <2>7
<1>4. ASSUME IInv, [Next]_vars
      PROVE  [\A t \in Threads :
                LET o == op[t].on
                    s == SocketOf(o)
                IN  /\ Returns(t, "receive") /\ UNCHANGED got
                         => HasEnded(layer, s)
                    /\ Returns(t, "send") =>
                         HasEnded(layer, s)
                         \/ layer' = WithBytes(layer, s, op[t].rest)
                    /\ Returns(t, "accept") /\ UNCHANGED object
                         => ~object[o].flag \/ IsTableFull(layer)]_vars
  BY <1>1, <1>2, <1>3, <1>4
<1>5. QED
  BY <1>4, Invariance, PTL DEF Spec, OnlyClosedCallsFail
=============================================================================
