--------------------------- MODULE HandlerRegistry ---------------------------
(***************************************************************************)
(* What the demultiplexer promises its users, without mutexes, usage       *)
(* counters, condition variables or containers.                            *)
(*                                                                         *)
(* A request handler is registered under at most one id and an id has at   *)
(* most one handler.  A request is granted the handler that fits best: the *)
(* first accepted type that some enabled handler of the resource matches   *)
(* decides, and among several matches the one registered first wins.  A    *)
(* handler that was granted stays registered until it is given back.       *)
(***************************************************************************)
EXTENDS Naturals

CONSTANTS Handlers, Processors, Ids, Requests, NoHandler,
          KeyOf(_),          \* the resource of an id or a request
          Matches(_, _),     \* Matches(accepted, type): type is acceptable
          Concrete(_)        \* a content type without wildcard

VARIABLES
  registered,  \* the id of every registered handler
  enabled,     \* the handlers that may be granted
  before,      \* <<g, h>>: g was registered before h, for the same resource
  granted      \* the handler each thread was granted

vars == <<registered, enabled, before, granted>>

Init ==
  /\ registered = <<>>
  /\ enabled = {}
  /\ before = {}
  /\ granted = [p \in Processors |-> NoHandler]

Registered == DOMAIN registered

Register(h, id) ==
  /\ h \notin Registered
  /\ \A g \in Registered : registered[g] # id
  /\ registered' = [g \in Registered \cup {h} |->
                      IF g = h THEN id ELSE registered[g]]
  /\ enabled' = enabled \cup {h}
  /\ before' = before \cup
       {<<g, h>> : g \in {x \in Registered : KeyOf(registered[x]) = KeyOf(id)}}
  /\ UNCHANGED granted

Unregister(h) ==
  /\ h \in Registered
  /\ \A p \in Processors : granted[p] # h
  /\ registered' = [g \in Registered \ {h} |-> registered[g]]
  /\ enabled' = enabled \ {h}
  /\ before' = {pair \in before : h \notin {pair[1], pair[2]}}
  /\ UNCHANGED granted

Disable(h) ==
  /\ h \in Registered
  /\ enabled' = enabled \ {h}
  /\ UNCHANGED <<registered, before, granted>>

Enable(h) ==
  /\ h \in Registered
  /\ enabled' = enabled \cup {h}
  /\ UNCHANGED <<registered, before, granted>>

Candidates(request, accepted) ==
  {h \in enabled : /\ KeyOf(registered[h]) = KeyOf(request)
                   /\ Matches(accepted, registered[h].accept_type)}

BestFit(request) ==
  {h \in enabled : \E i \in DOMAIN request.accept :
     /\ h \in Candidates(request, request.accept[i])
     /\ \A g \in Candidates(request, request.accept[i]) \ {h} :
          <<h, g>> \in before
     /\ \A j \in 1 .. i - 1 : Candidates(request, request.accept[j]) = {}}

Grant(p, request) ==
  /\ granted[p] = NoHandler
  /\ Concrete(request.content_type)
  /\ \E h \in BestFit(request) : granted' = [granted EXCEPT ![p] = h]
  /\ UNCHANGED <<registered, enabled, before>>

GiveBack(p) ==
  /\ granted[p] # NoHandler
  /\ granted' = [granted EXCEPT ![p] = NoHandler]
  /\ UNCHANGED <<registered, enabled, before>>

Next ==
  \/ \E h \in Handlers :
       \/ \E id \in Ids : Register(h, id)
       \/ Unregister(h) \/ Disable(h) \/ Enable(h)
  \/ \E p \in Processors :
       GiveBack(p) \/ \E request \in Requests : Grant(p, request)

Spec == Init /\ [][Next]_vars
=============================================================================
