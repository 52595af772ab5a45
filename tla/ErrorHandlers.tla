---------------------------- MODULE ErrorHandlers ----------------------------
(***************************************************************************)
(* The error handlers of non_caching_request_processor and the handler     *)
(* objects its users hold.  Every operation is one critical section of     *)
(* error_handler_mutex_, so it is one step here; handle_one_request, which *)
(* would call the error handlers, is not written yet.                      *)
(***************************************************************************)
EXTENDS Naturals

CONSTANTS
  Handlers,   \* the handler objects a run of the program creates
  Codes,      \* http_status_code
  NoCode,     \* the code of a handler object that does not exist
  NoHandler   \* no handler object

ASSUME ErrorHandlersAssumption == NoCode \notin Codes /\ NoHandler \notin Handlers

VARIABLES
  error_handlers,  \* error_handlers_: status code to callback and enabled flag
  code             \* error_handler::code_ of every handler object

vars == <<error_handlers, code>>

Init ==
  /\ error_handlers = <<>>
  /\ code = [h \in Handlers |-> NoCode]

Live == {h \in Handlers : code[h] # NoCode}

(* Mutant: an entry that starts disabled. *)
NewEntryDisabled(h) == [fn |-> h, enabled |-> FALSE]

(* The callback goes by the object whose set_error_handler brought it. *)
NewEntry(h) == [fn |-> h, enabled |-> TRUE]

(* Mutant: an assignment, which replaces the element. *)
InsertReplacing(c, h) ==
  [d \in DOMAIN error_handlers \cup {c} |->
     IF d = c THEN NewEntry(h) ELSE error_handlers[d]]

(* std::map::insert leaves an element alone that is already there. *)
Insert(c, h) ==
  [d \in DOMAIN error_handlers \cup {c} |->
     IF d \in DOMAIN error_handlers THEN error_handlers[d] ELSE NewEntry(h)]

(* set_error_handler: returns null, and creates no object, for a code that *)
(* has a handler.                                                          *)
SetErrorHandler(h, c) ==
  /\ code[h] = NoCode
  /\ error_handlers' = Insert(c, h)
  /\ code' = IF c \in DOMAIN error_handlers THEN code
                                            ELSE [code EXCEPT ![h] = c]

(* ~error_handler, which calls reset_error_handler. *)
Destroy(h) ==
  /\ h \in Live
  /\ error_handlers' =
       [c \in DOMAIN error_handlers \ {code[h]} |-> error_handlers[c]]
  /\ code' = [code EXCEPT ![h] = NoCode]

SetEnabled(h, value) ==
  /\ h \in Live
  /\ error_handlers' =
       IF code[h] \in DOMAIN error_handlers
       THEN [error_handlers EXCEPT ![code[h]].enabled = value]
       ELSE error_handlers
  /\ UNCHANGED code

(* is_enabled: false for a code without an element. *)
IsEnabled(h) ==
  code[h] \in DOMAIN error_handlers /\ error_handlers[code[h]].enabled

Disable(h) == SetEnabled(h, FALSE)
Enable(h)  == SetEnabled(h, TRUE)

Next ==
  \E h \in Handlers :
    \/ \E c \in Codes : SetErrorHandler(h, c)
    \/ Destroy(h)
    \/ Disable(h)
    \/ Enable(h)

Spec == Init /\ [][Next]_vars

-----------------------------------------------------------------------------
TypeOK ==
  /\ DOMAIN error_handlers \subseteq Codes
  /\ error_handlers \in [DOMAIN error_handlers ->
                           [fn : Handlers, enabled : BOOLEAN]]
  /\ code \in [Handlers -> Codes \cup {NoCode}]

(***************************************************************************)
(* "Returns a handler object, which acts as the error handler's lifetime   *)
(* scope": a status code has an error handler exactly while a handler      *)
(* object for it exists, there is one such object, and the callback is the *)
(* one that was set when the object was created, whatever calls were       *)
(* refused since.  This is what reset_error_handler asserts.               *)
(***************************************************************************)
EntriesBelongToHandles ==
  /\ \A h \in Live : /\ code[h] \in DOMAIN error_handlers
                     /\ error_handlers[code[h]].fn = h
  /\ \A c \in DOMAIN error_handlers : \E h \in Live : code[h] = c

-----------------------------------------------------------------------------
(* The registry of HandlerRegistry, with status codes for ids and nobody   *)
(* who is granted a handler.                                               *)
CodeOf(id)               == id
MatchesNever(type, id)   == FALSE
ConcreteNever(type)      == FALSE
EnabledHandlers          == {h \in Live : IsEnabled(h)}

Registry == INSTANCE HandlerRegistry WITH
  Processors <- {},
  Ids        <- Codes,
  Requests   <- {},
  KeyOf      <- CodeOf,
  Matches    <- MatchesNever,
  Concrete   <- ConcreteNever,
  registered <- [h \in Live |-> code[h]],
  enabled    <- EnabledHandlers,
  before     <- {},
  granted    <- [p \in {} |-> NoHandler]

(***************************************************************************)
(* The error handlers are a registry: each operation registers, removes or *)
(* switches the handler of its own object and no other one, or does        *)
(* nothing.                                                                *)
(***************************************************************************)
ImplementsRegistry == Registry!Spec
=============================================================================
