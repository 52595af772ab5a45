---------------------------- MODULE Demultiplexer ----------------------------
(***************************************************************************)
(* The demultiplexer with the handler objects it returns from connect      *)
(* (demultiplex_handler) and the holders it returns from                   *)
(* determine_request_handler (request_handler_holder), used by several     *)
(* threads at once.                                                        *)
(*                                                                         *)
(* A step of a thread is one critical section of resource_callbacks_mutex_ *)
(* or of mime_handler's mutex: nothing the code does outside of them       *)
(* touches shared state.  connect holds first the one and then the other,  *)
(* so it takes two steps; disconnect gives its mutex up while it waits for *)
(* the condition variable, so every round of its loop is a step.           *)
(***************************************************************************)
EXTENDS OrderedMimeMap, ResourceKey

CONSTANTS
  Processors,      \* threads that process requests
  Controllers,     \* threads that connect, disable, ... and destroy handlers
  Handlers,        \* handler objects and the callbacks they were made for
  Ids,             \* request_handler_ids passed to connect
  Requests,        \* what determine_request_handler reads from a request
  ValidPaths,      \* the paths is_valid_url_path accepts
  TypeNames, SubtypeNames,   \* names passed to register_mime_(sub)type
  RetiredTypes, RetiredSubtypes,   \* values passed to unregister_mime_(sub)type
  TypeLimit, SubtypeLimit,   \* 2^8 and 2^16 in the code
  NoId, NoHandler            \* what a thread that serves no request holds

ASSUME LimitAssumption ==
  /\ TypeLimit \in Nat \ (0 .. WILDCARD)
  /\ SubtypeLimit \in Nat \ (0 .. WILDCARD)

ASSUME ThreadAssumption == IsFiniteSet(Processors)

(***************************************************************************)
(* The keys in use are consistently ordered by resource_key's operator<,   *)
(* so that the resource map is a function of the key (see ResourceMap for  *)
(* what happens when they are not).                                        *)
(***************************************************************************)
ASSUME KeyAssumption ==
  ConsistentlyOrdered({KeyOf(x) : x \in Ids \cup Requests})

(***************************************************************************)
(* A request_handler_id is a resource key and an accept type.              *)
(***************************************************************************)
Mime == (0 .. TypeLimit - 1) \X (0 .. SubtypeLimit - 1)

ASSUME IdAssumption ==
  /\ Ids \subseteq [path : Nat, method : Nat, content_type : Mime,
                    accept_type : Mime]
  /\ Requests \subseteq [path : Nat, method : Nat, content_type : Mime,
                         accept : Seq(Mime)]
  /\ NoId \notin Ids
  /\ NoHandler \notin Handlers

VARIABLES
  resource_callbacks,  \* resource_callbacks_: from key to ordered MIME map
  types, subtypes,     \* mime_types_ and mime_subtypes_ of mime_handler_
  handle,              \* the handler objects of the program
  op,                  \* the call on a handler a thread is in
  serving              \* the request a thread is processing

vars == <<resource_callbacks, types, subtypes, handle, op, serving>>

Threads == Processors \cup Controllers

Keys == {KeyOf(id) : id \in Ids}

Idle == [pc |-> "idle", id |-> NoId, handler |-> NoHandler]

Init ==
  /\ resource_callbacks = <<>>
  /\ types = NewTable(TypeLimit)
  /\ subtypes = NewTable(SubtypeLimit)
  /\ handle = [h \in Handlers |-> [status |-> "none", id |-> NoId]]
  /\ op = [t \in Threads |-> [pc |-> "idle", handler |-> NoHandler]]
  /\ serving = [p \in Processors |-> Idle]

-----------------------------------------------------------------------------
(***************************************************************************)
(* What the program may do.  A thread calls the library when it is in no   *)
(* other call, a processing thread also from within the callback.  Only    *)
(* the owner of a handler object destroys it, and never from a callback    *)
(* the object stands for ("it is not allowed for a request handler to      *)
(* unregister itself").                                                    *)
(***************************************************************************)
Serving(t, h) ==
  t \in Processors /\ serving[t].pc # "idle" /\ serving[t].handler = h

MayCall(t) ==
  /\ op[t].pc = "idle"
  /\ t \in Processors => serving[t].pc \in {"idle", "calling"}

(* The MIME map an id or a request leads to, and the entry of an id. *)
Exists(id)   == KeyOf(id) \in DOMAIN resource_callbacks
AcceptMap(id) == resource_callbacks[KeyOf(id)]

IsConnected(id) == Exists(id) /\ id.accept_type \in Stored(AcceptMap(id))
Entry(id) == AcceptMap(id).map[id.accept_type]

ReplaceAcceptMap(id, m) ==
  resource_callbacks' = With(resource_callbacks, KeyOf(id), m)

-----------------------------------------------------------------------------
(***************************************************************************)
(* connect, first half: path and MIME types are checked, and the mutex of  *)
(* mime_handler is released again.  When the check fails, connect returns  *)
(* null and nothing changes.                                               *)
(***************************************************************************)
CheckConnect(t, h, id) ==
  /\ MayCall(t)
  /\ handle[h].status = "none"
  /\ id.path \in ValidPaths
  /\ IsMimeValid(types, subtypes, id.content_type)
  /\ IsMimeValid(types, subtypes, id.accept_type)
  /\ handle' = [handle EXCEPT ![h] = [status |-> "connecting", id |-> id]]
  /\ op' = [op EXCEPT ![t] = [pc |-> "connect", handler |-> h]]
  /\ UNCHANGED <<resource_callbacks, types, subtypes, serving>>

(***************************************************************************)
(* connect, second half: operator[] creates the resource when it is not    *)
(* there, whatever becomes of the insertion.                               *)
(***************************************************************************)
Connect(t) ==
  LET h == op[t].handler
      id == handle[h].id
      accept_map == IF Exists(id) THEN AcceptMap(id) ELSE EmptyMimeMap
  IN  /\ op[t].pc = "connect"
      /\ op' = [op EXCEPT ![t] = [pc |-> "idle", handler |-> NoHandler]]
      /\ \/ /\ CanInsert(accept_map, id.accept_type)
            /\ ReplaceAcceptMap(id, Insert(accept_map, id.accept_type, h))
            /\ handle' = [handle EXCEPT ![h].status = "live"]
         \/ /\ ~CanInsert(accept_map, id.accept_type)
            /\ ReplaceAcceptMap(id, accept_map)
            /\ handle' = [handle EXCEPT ![h] = [status |-> "none",
                                                id     |-> NoId]]
      /\ UNCHANGED <<types, subtypes, serving>>

(* disable and enable, through the handler object. *)
SetEnabled(t, h, available) ==
  LET id == handle[h].id
  IN  /\ MayCall(t)
      /\ handle[h].status = "live"
      /\ Exists(id)
      /\ ReplaceAcceptMap(id,
           SetAvailability(AcceptMap(id), id.accept_type, available))
      /\ UNCHANGED <<types, subtypes, handle, op, serving>>

(* is_enabled: reads the flag, false for a resource that does not exist. *)
IsEnabled(id) == Exists(id) /\ Entry(id).is_available

Disable(t, h) == SetEnabled(t, h, FALSE)
Enable(t, h)  == SetEnabled(t, h, TRUE)

-----------------------------------------------------------------------------
(* The destructor of a handler object starts and calls disconnect. *)
Destroy(t, h) ==
  /\ MayCall(t)
  /\ handle[h].status = "live"
  /\ ~Serving(t, h)
  /\ handle' = [handle EXCEPT ![h].status = "closing"]
  /\ op' = [op EXCEPT ![t] = [pc |-> "disconnect", handler |-> h]]
  /\ UNCHANGED <<resource_callbacks, types, subtypes, serving>>

(***************************************************************************)
(* A round of disconnect's loop, the first one or one after the thread was *)
(* woken and has locked the mutex again.  The latter begins with the end   *)
(* of the round before: the map the thread still refers to is cleaned up   *)
(* when it is empty.  The handler is erased, the resource with it when it  *)
(* was the last one, or the thread starts to wait.                         *)
(***************************************************************************)
InRound(t) == op[t].pc \in {"disconnect", "woken"}

FindsEmptyMap(t, id) ==
  op[t].pc = "woken" /\ Exists(id) /\ Stored(AcceptMap(id)) = {}

MustWait(t, id) ==
  /\ Exists(id)
  /\ ~CanErase(AcceptMap(id), id.accept_type)
  /\ ~FindsEmptyMap(t, id)

\* Mutant: the clean-up does not look at the map's size.
WithoutResource(id) == Without(resource_callbacks, {KeyOf(id)})

WithoutHandler(id) ==
  LET rest == Erase(AcceptMap(id), id.accept_type)
  IN  IF Stored(rest) = {}
      THEN Without(resource_callbacks, {KeyOf(id)})
      ELSE With(resource_callbacks, KeyOf(id), rest)

EraseHandler(t) ==
  LET h == op[t].handler
      id == handle[h].id
  IN  /\ InRound(t)
      /\ ~MustWait(t, id)
      /\ resource_callbacks' =
           IF ~Exists(id) THEN resource_callbacks
           ELSE IF FindsEmptyMap(t, id)
                THEN Without(resource_callbacks, {KeyOf(id)})
                ELSE WithoutHandler(id)
      /\ handle' = [handle EXCEPT ![h] = [status |-> "none", id |-> NoId]]
      /\ op' = [op EXCEPT ![t] = [pc |-> "idle", handler |-> NoHandler]]
      /\ UNCHANGED <<types, subtypes, serving>>

Wait(t) ==
  LET id == handle[op[t].handler].id
  IN  /\ InRound(t)
      /\ MustWait(t, id)
      /\ op' = [op EXCEPT ![t].pc = "waiting"]
      /\ UNCHANGED <<resource_callbacks, types, subtypes, handle, serving>>

(* std::condition_variable::wait may return without a notification. *)
WakeSpuriously(t) ==
  /\ op[t].pc = "waiting"
  /\ op' = [op EXCEPT ![t].pc = "woken"]
  /\ UNCHANGED <<resource_callbacks, types, subtypes, handle, serving>>

(* notify_one: some waiting thread is woken, if there is one. *)
Waiting == {t \in Threads : op[t].pc = "waiting"}

\* Mutant: the notification is forgotten.
NotifyNobody == UNCHANGED op

NotifyOne ==
  \/ Waiting = {} /\ UNCHANGED op
  \/ \E t \in Waiting : op' = [op EXCEPT ![t].pc = "woken"]

-----------------------------------------------------------------------------
(***************************************************************************)
(* lookup_in_accept_map: the first accepted type that leads to a handler.  *)
(***************************************************************************)
Lookup(accept, m) ==
  LET hits == {i \in DOMAIN accept : Find(m, accept[i]) # {}}
  IN  UNION {Find(m, accept[i]) : i \in {j \in hits : \A k \in hits : j <= k}}

(***************************************************************************)
(* determine_request_handler, when it finds one: the constructor of the    *)
(* holder counts the usage under the same lock.  When it finds none        *)
(* nothing changes and the request is answered with an error document.     *)
(***************************************************************************)
Determine(p, request) ==
  LET key == KeyOf(request)
      m   == resource_callbacks[key]
  IN  /\ serving[p].pc = "idle"
      /\ op[p].pc = "idle"
      /\ ~HasWildcard(request.content_type)
      /\ key \in DOMAIN resource_callbacks
      /\ \E type \in Lookup(request.accept, m) :
           LET id == [path |-> key.path, method |-> key.method,
                      content_type |-> key.content_type, accept_type |-> type]
           IN  /\ ReplaceAcceptMap(id, IncreaseUsage(m, type))
               /\ serving' = [serving EXCEPT ![p] =
                                [pc |-> "holding", id |-> id,
                                 handler |-> m.map[type].handler]]
      /\ UNCHANGED <<types, subtypes, handle, op>>

(* callback_holder::call enters and leaves the user's callback. *)
Call(p) ==
  /\ serving[p].pc = "holding"
  /\ serving' = [serving EXCEPT ![p].pc = "calling"]
  /\ UNCHANGED <<resource_callbacks, types, subtypes, handle, op>>

Return(p) ==
  /\ serving[p].pc = "calling"
  /\ op[p].pc = "idle"
  /\ serving' = [serving EXCEPT ![p].pc = "called"]
  /\ UNCHANGED <<resource_callbacks, types, subtypes, handle, op>>

(***************************************************************************)
(* The destructor of the holder: decrease_usage_counter, which notifies    *)
(* one of the waiting disconnect calls.                                    *)
(***************************************************************************)
Release(p) ==
  LET id == serving[p].id
  IN  /\ serving[p].pc \in {"holding", "called"}
      /\ IF Exists(id)
         THEN /\ ReplaceAcceptMap(id,
                   DecreaseUsage(AcceptMap(id), id.accept_type))
              /\ NotifyOne
         ELSE UNCHANGED <<resource_callbacks, op>>
      /\ serving' = [serving EXCEPT ![p] = Idle]
      /\ UNCHANGED <<types, subtypes, handle>>

-----------------------------------------------------------------------------
(* register_mime_type and its three siblings. *)
RegisterMimeType(t, name) ==
  /\ MayCall(t)
  /\ types' = RegisterType(types, name, TypeLimit)
  /\ UNCHANGED <<resource_callbacks, subtypes, handle, op, serving>>

RegisterMimeSubtype(t, name) ==
  /\ MayCall(t)
  /\ subtypes' = RegisterType(subtypes, name, SubtypeLimit)
  /\ UNCHANGED <<resource_callbacks, types, handle, op, serving>>

UnregisterMimeType(t, value) ==
  /\ MayCall(t)
  /\ types' = UnregisterType(types, value)
  /\ UNCHANGED <<resource_callbacks, subtypes, handle, op, serving>>

UnregisterMimeSubtype(t, value) ==
  /\ MayCall(t)
  /\ subtypes' = UnregisterType(subtypes, value)
  /\ UNCHANGED <<resource_callbacks, types, handle, op, serving>>

-----------------------------------------------------------------------------
Disconnect(t) == EraseHandler(t) \/ Wait(t)

Process(p) ==
  \/ \E request \in Requests : Determine(p, request)
  \/ Call(p)
  \/ Return(p)
  \/ Release(p)

Control(t) ==
  \/ \E h \in Handlers :
       \/ \E id \in Ids : CheckConnect(t, h, id)
       \/ Disable(t, h)
       \/ Enable(t, h)
       \/ Destroy(t, h)
  \/ Connect(t)
  \/ Disconnect(t)
  \/ WakeSpuriously(t)
  \/ \E name \in TypeNames : RegisterMimeType(t, name)
  \/ \E name \in SubtypeNames : RegisterMimeSubtype(t, name)
  \/ \E value \in RetiredTypes : UnregisterMimeType(t, value)
  \/ \E value \in RetiredSubtypes : UnregisterMimeSubtype(t, value)

Next == (\E p \in Processors : Process(p)) \/ (\E t \in Controllers : Control(t))

Spec == Init /\ [][Next]_vars

(***************************************************************************)
(* A thread inside the library gets on.  A callback returns, however often *)
(* it calls the library before: between two of its calls it could.         *)
(* Nothing makes a program start a call.                                   *)
(***************************************************************************)
Fairness ==
  /\ \A t \in Controllers : WF_vars(Connect(t) \/ Disconnect(t))
  /\ \A p \in Processors : SF_vars(Return(p) \/ Release(p))

FairSpec == Spec /\ Fairness

-----------------------------------------------------------------------------
IsTable(table, Limit) ==
  /\ table = [next |-> table.next, registered |-> table.registered,
              trie |-> table.trie]
  /\ table.next \in 0 .. Limit - 1
  /\ DOMAIN table.registered \subseteq 0 .. Limit - 1

(* The types of the variables: the members of the classes in demux/. *)
TypeOK ==
  /\ resource_callbacks = [k \in DOMAIN resource_callbacks |->
                             resource_callbacks[k]]
  /\ DOMAIN resource_callbacks \subseteq Keys
  /\ \A k \in DOMAIN resource_callbacks :
       IsMimeMap(resource_callbacks[k], Mime, Handlers)
  /\ IsTable(types, TypeLimit) /\ IsTable(subtypes, SubtypeLimit)
  /\ handle \in [Handlers -> [status : {"none", "connecting", "live", "closing"},
                              id : Ids \cup {NoId}]]
  /\ op \in [Threads -> [pc : {"idle", "connect", "disconnect", "waiting", "woken"},
                         handler : Handlers \cup {NoHandler}]]
  /\ serving \in [Processors -> [pc : {"idle", "holding", "calling", "called"},
                                 id : Ids \cup {NoId},
                                 handler : Handlers \cup {NoHandler}]]

Holders(id) == {p \in Processors : serving[p].pc # "idle" /\ serving[p].id = id}

(***************************************************************************)
(* The usage counter of every handler is the number of holders that are    *)
(* out for it, across every interleaving of determine_request_handler and  *)
(* holder destructors: a counter that is too small lets disconnect destroy *)
(* a handler in use, one that is too large makes it wait for ever.         *)
(***************************************************************************)
UsageCountsHolders ==
  \A id \in Ids :
    IsConnected(id) => Entry(id).usage_counter = Cardinality(Holders(id))

(***************************************************************************)
(* While a thread holds or runs a callback, the handler object it came     *)
(* from has not finished its destructor, and its id was not meanwhile      *)
(* given to another handler: the unregistration is sequential with the     *)
(* calls to the handler (page_lifetime in hutzn.hpp).                      *)
(***************************************************************************)
HeldHandlersStayConnected ==
  \A p \in Processors : serving[p].pc # "idle" =>
    /\ handle[serving[p].handler].status \in {"live", "closing"}
    /\ handle[serving[p].handler].id = serving[p].id
    /\ IsConnected(serving[p].id)
    /\ Entry(serving[p].id).handler = serving[p].handler

(***************************************************************************)
(* A handler object exists exactly for the entries of the resource map:    *)
(* connect gives no object without an entry, two objects never share one,  *)
(* and the destructor leaves no entry behind that a request could reach    *)
(* after the callback is gone.                                             *)
(***************************************************************************)
EntriesBelongToHandles ==
  /\ \A h \in Handlers : handle[h].status \in {"live", "closing"} =>
       IsConnected(handle[h].id) /\ Entry(handle[h].id).handler = h
  /\ \A id \in Ids : IsConnected(id) =>
       /\ handle[Entry(id).handler].status \in {"live", "closing"}
       /\ handle[Entry(id).handler].id = id

(***************************************************************************)
(* disconnect keeps a reference to an accept map across the wait, in which *)
(* other threads run: the resource it belongs to is still there when the   *)
(* thread comes back, with the handler in it.                              *)
(***************************************************************************)
WaiterReferencesLiveMap ==
  \A t \in Threads : op[t].pc \in {"waiting", "woken"} =>
    IsConnected(handle[op[t].handler].id)

(***************************************************************************)
(* map_ and vector_ of every resource hold the same types.                 *)
(***************************************************************************)
VectorsListMaps ==
  \A k \in DOMAIN resource_callbacks : VectorListsMap(resource_callbacks[k])

-----------------------------------------------------------------------------
(***************************************************************************)
(* The demultiplexer implements the registry of its promises: the handler  *)
(* objects are the registrations, the containers hold which of them are    *)
(* enabled, and the vectors their order.                                   *)
(***************************************************************************)
Connected == {h \in Handlers : handle[h].status \in {"live", "closing"}}

Earlier(id, other) ==
  /\ KeyOf(id) = KeyOf(other)
  /\ Position(AcceptMap(id), id.accept_type)
       < Position(AcceptMap(other), other.accept_type)

IsConcrete(type) == ~HasWildcard(type)

Registered == [h \in Connected |-> handle[h].id]

Enabled == {h \in Connected : IsEnabled(handle[h].id)}

Before ==
  {pair \in Connected \X Connected :
     Earlier(handle[pair[1]].id, handle[pair[2]].id)}

Granted == [p \in Processors |-> serving[p].handler]

Registry == INSTANCE HandlerRegistry WITH
  registered <- Registered,
  enabled    <- Enabled,
  before     <- Before,
  granted    <- Granted,
  Concrete   <- IsConcrete

(***************************************************************************)
(* Every step of the demultiplexer is a step of the registry or changes    *)
(* nothing of it: connect refuses a second handler for an id, disconnect   *)
(* ends only when the handler is not granted, determine grants the best    *)
(* fit, and no other step registers, reorders or grants anything.          *)
(***************************************************************************)
ImplementsRegistry == Registry!Spec

-----------------------------------------------------------------------------
(***************************************************************************)
(* "No call to this component blocks its users longer as needed": a thread *)
(* that waits for a handler nobody uses any more gets on ...               *)
(***************************************************************************)
WaitsForNobody(t) ==
  /\ op[t].pc = "waiting"
  /\ Holders(handle[op[t].handler].id) = {}

NoBlockLongerThanNeeded ==
  \A t \in Controllers : WaitsForNobody(t) ~> op[t].pc # "waiting"

(***************************************************************************)
(* ... which the code keeps unless another waiting thread gets what was    *)
(* meant for it: none begins to wait for a handler that nobody uses, and   *)
(* when the last holder goes while it waits, somebody is woken.            *)
(***************************************************************************)
OnlyAnotherIsWoken ==
  [][\A t \in Controllers :
       WaitsForNobody(t)' /\ ~WaitsForNobody(t) =>
         \E u \in Waiting \ {t} : op'[u].pc = "woken"]_vars

(***************************************************************************)
(* Of the destructors that run at the same time, all for disabled          *)
(* handlers, one finishes unless another one starts: nobody is given their *)
(* handlers any more, every holder that goes wakes one of them, and the    *)
(* last one wakes one that can go on.  Only when all of them wait for      *)
(* handlers nobody uses has every notification been spent on the wrong     *)
(* one.  And none may have been called from within a callback, which       *)
(* another one of them may wait for.                                       *)
(***************************************************************************)
Closing == {h \in Handlers : handle[h].status = "closing"}

CanFinish ==
  /\ \A h \in Closing : ~IsEnabled(handle[h].id)
  /\ \A p \in Processors : serving[p].pc # "idle" => op[p].handler \notin Closing
  /\ \E t \in Controllers : op[t].handler \in Closing /\ ~WaitsForNobody(t)

SomeDestructorFinishes ==
  \A n \in 1 .. Cardinality(Handlers) :
    (Cardinality(Closing) = n /\ CanFinish) ~> Cardinality(Closing) # n
=============================================================================
