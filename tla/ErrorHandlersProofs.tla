------------------------- MODULE ErrorHandlersProofs -------------------------
(***************************************************************************)
(* The error handlers stay consistent and implement HandlerRegistry, for   *)
(* every set of handler objects and status codes.                          *)
(***************************************************************************)
EXTENDS ErrorHandlers, TLAPS

IInv == TypeOK /\ EntriesBelongToHandles

(* Inserting, erasing and switching an element keep the invariant.         *)
LEMMA StepPreservesIInv ==
  IInv /\ [Next]_vars => IInv'
<1> SUFFICES ASSUME IInv, [Next]_vars
             PROVE  IInv'
  OBVIOUS
<1> USE ErrorHandlersAssumption
<1>1. ASSUME NEW h \in Handlers, NEW c \in Codes, SetErrorHandler(h, c)
      PROVE  IInv'
  <2>1. CASE c \in DOMAIN error_handlers
    <3>1. error_handlers' = error_handlers /\ code' = code
      BY <1>1, <2>1 DEF IInv, TypeOK, SetErrorHandler, Insert
    <3> QED
      BY <3>1 DEF IInv, TypeOK, EntriesBelongToHandles, Live
  <2>2. CASE c \notin DOMAIN error_handlers
    <3>1. /\ code[h] = NoCode
          /\ DOMAIN error_handlers' = DOMAIN error_handlers \cup {c}
          /\ error_handlers' = [d \in DOMAIN error_handlers \cup {c} |->
               IF d \in DOMAIN error_handlers THEN error_handlers[d]
                                              ELSE NewEntry(h)]
          /\ code' = [code EXCEPT ![h] = c]
      BY <1>1, <2>2 DEF SetErrorHandler, Insert
    <3>2. Live' = Live \cup {h}
      BY <3>1 DEF IInv, TypeOK, Live
    <3>3. TypeOK'
      BY <3>1 DEF IInv, TypeOK, NewEntry
    <3>4. EntriesBelongToHandles'
      BY <2>2, <3>1, <3>2
         DEF IInv, TypeOK, EntriesBelongToHandles, NewEntry, Live
    <3> QED
      BY <3>3, <3>4 DEF IInv
  <2> QED
    BY <2>1, <2>2
<1>2. ASSUME NEW h \in Handlers, Destroy(h)
      PROVE  IInv'
  <2>1. /\ h \in Live
        /\ DOMAIN error_handlers' = DOMAIN error_handlers \ {code[h]}
        /\ \A c \in DOMAIN error_handlers' : error_handlers'[c] = error_handlers[c]
        /\ code' = [code EXCEPT ![h] = NoCode]
    BY <1>2 DEF Destroy
  <2>2. Live' = Live \ {h}
    BY <2>1 DEF IInv, TypeOK, Live
  <2>3. \A g \in Live \ {h} : code'[g] = code[g] /\ code[g] # code[h]
    BY <2>1 DEF IInv, TypeOK, EntriesBelongToHandles, Live
  <2>4. TypeOK'
    BY <1>2 DEF Destroy, IInv, TypeOK
  <2>5. EntriesBelongToHandles'
    BY <2>1, <2>2, <2>3 DEF IInv, EntriesBelongToHandles
  <2> QED
    BY <2>4, <2>5 DEF IInv
<1>3. ASSUME NEW h \in Handlers, NEW value \in BOOLEAN, SetEnabled(h, value)
      PROVE  IInv'
  <2>1. /\ h \in Live
        /\ code[h] \in DOMAIN error_handlers
        /\ error_handlers' = [error_handlers EXCEPT ![code[h]].enabled = value]
        /\ code' = code
    BY <1>3 DEF SetEnabled, IInv, EntriesBelongToHandles
  <2>2. TypeOK'
    BY <2>1 DEF IInv, TypeOK
  <2>3. EntriesBelongToHandles'
    BY <2>1 DEF IInv, TypeOK, EntriesBelongToHandles, Live
  <2> QED
    BY <2>2, <2>3 DEF IInv
<1>4. CASE UNCHANGED vars
  BY <1>4 DEF vars, IInv, TypeOK, EntriesBelongToHandles, Live
<1> QED
  BY <1>1, <1>2, <1>3, <1>4 DEF Next, Disable, Enable

(***************************************************************************)
(* The invariant holds for every set of handlers and codes.                *)
(***************************************************************************)
THEOREM Invariance == Spec => []IInv
<1>1. Init => IInv
  BY ErrorHandlersAssumption
     DEF Init, IInv, TypeOK, EntriesBelongToHandles, Live
<1> QED
  BY <1>1, StepPreservesIInv, PTL DEF Spec

(* error_handlers_ keeps its type. *)
THEOREM TypeCorrect == Spec => []TypeOK
BY Invariance, PTL DEF IInv

(***************************************************************************)
(* A status code has a handler exactly while its handler object exists,    *)
(* and the callback stored is the one the object was created for; so       *)
(* reset_error_handler's assertion never fails.                            *)
(***************************************************************************)
THEOREM EntriesCorrect == Spec => []EntriesBelongToHandles
BY Invariance, PTL DEF IInv

-----------------------------------------------------------------------------
(***************************************************************************)
(* Every step of the error handlers is a step of the abstract registry.    *)
(***************************************************************************)
LEMMA StepRefines ==
  IInv /\ IInv' /\ [Next]_vars => [Registry!Next]_(Registry!vars)
<1> SUFFICES ASSUME IInv, IInv', [Next]_vars
             PROVE  Registry!Next \/ UNCHANGED Registry!vars
  OBVIOUS
<1> DEFINE registered == [h \in Live |-> code[h]]
<1> USE ErrorHandlersAssumption
<1>1. ASSUME NEW h \in Handlers, NEW c \in Codes, SetErrorHandler(h, c)
      PROVE  Registry!Register(h, c) \/ UNCHANGED Registry!vars
  <2>1. CASE c \in DOMAIN error_handlers
    <3>1. error_handlers' = error_handlers /\ code' = code
      BY <1>1, <2>1 DEF IInv, TypeOK, SetErrorHandler, Insert
    <3> QED
      BY <3>1 DEF Registry!vars, Live, EnabledHandlers, IsEnabled
  <2>2. CASE c \notin DOMAIN error_handlers
    <3>1. /\ code[h] = NoCode
          /\ error_handlers' = [d \in DOMAIN error_handlers \cup {c} |->
               IF d \in DOMAIN error_handlers THEN error_handlers[d]
                                              ELSE NewEntry(h)]
          /\ code' = [code EXCEPT ![h] = c]
      BY <1>1, <2>2 DEF SetErrorHandler, Insert
    <3>2. h \notin Live /\ Live' = Live \cup {h}
      BY <3>1 DEF IInv, TypeOK, Live
    <3>3. \A g \in Live : code[g] # c /\ code'[g] = code[g]
      BY <2>2, <3>1, <3>2 DEF IInv, TypeOK, EntriesBelongToHandles, Live
    <3>4. registered' = [g \in Live \cup {h} |-> IF g = h THEN c
                                                          ELSE registered[g]]
      BY <3>1, <3>2, <3>3 DEF IInv, TypeOK
    <3>5. EnabledHandlers' = EnabledHandlers \cup {h}
      <4>1. error_handlers'[c].enabled = TRUE
        BY <2>2, <3>1 DEF NewEntry
      <4>2. \A g \in Live : error_handlers'[code[g]] = error_handlers[code[g]]
        BY <3>1 DEF IInv, EntriesBelongToHandles
      <4>3. code'[h] = c
        BY <3>1 DEF IInv, TypeOK
      <4> QED
        BY <3>2, <3>3, <4>1, <4>2, <4>3 DEF EnabledHandlers, IsEnabled, IInv, EntriesBelongToHandles
    <3> QED
      BY <3>2, <3>3, <3>4, <3>5
         DEF Registry!Register, Registry!Registered, CodeOf
  <2> QED
    BY <2>1, <2>2
<1>2. ASSUME NEW h \in Handlers, Destroy(h)
      PROVE  Registry!Unregister(h)
  <2>1. /\ h \in Live
        /\ \A c \in DOMAIN error_handlers \ {code[h]} :
             error_handlers'[c] = error_handlers[c]
        /\ code' = [code EXCEPT ![h] = NoCode]
    BY <1>2 DEF Destroy
  <2>2. Live' = Live \ {h}
    BY <2>1 DEF IInv, TypeOK, Live
  <2>3. \A g \in Live \ {h} : code'[g] = code[g] /\ code[g] # code[h]
    BY <2>1 DEF IInv, TypeOK, EntriesBelongToHandles, Live
  <2>4. registered' = [g \in Live \ {h} |-> registered[g]]
    BY <2>2, <2>3
  <2>5. EnabledHandlers' = EnabledHandlers \ {h}
    <3>1. \A g \in Live \ {h} : error_handlers'[code'[g]] = error_handlers[code[g]]
      BY <2>1, <2>3 DEF IInv, EntriesBelongToHandles
    <3> QED
      BY <2>2, <3>1 DEF EnabledHandlers, IsEnabled, IInv, EntriesBelongToHandles
  <2> QED
    BY <2>1, <2>4, <2>5 DEF Registry!Unregister, Registry!Registered
<1>3. ASSUME NEW h \in Handlers, NEW value \in BOOLEAN, SetEnabled(h, value)
      PROVE  /\ h \in Live
             /\ registered' = registered
             /\ EnabledHandlers' = IF value THEN EnabledHandlers \cup {h}
                                            ELSE EnabledHandlers \ {h}
  <2>1. /\ h \in Live
        /\ code[h] \in DOMAIN error_handlers
        /\ error_handlers' = [error_handlers EXCEPT ![code[h]].enabled = value]
        /\ code' = code
    BY <1>3 DEF SetEnabled, IInv, EntriesBelongToHandles
  <2>2. Live' = Live
    BY <2>1 DEF Live
  <2>3. error_handlers'[code[h]].enabled = value
    BY <2>1 DEF IInv, TypeOK
  <2>4. \A g \in Live \ {h} : error_handlers'[code[g]] = error_handlers[code[g]]
    BY <2>1 DEF IInv, TypeOK, EntriesBelongToHandles, Live
  <2> QED
    BY <2>1, <2>2, <2>3, <2>4 DEF EnabledHandlers, IsEnabled, IInv, EntriesBelongToHandles
<1>4. ASSUME NEW h \in Handlers, Disable(h)
      PROVE  Registry!Disable(h)
  BY <1>3, <1>4 DEF Disable, Registry!Disable, Registry!Registered
<1>5. ASSUME NEW h \in Handlers, Enable(h)
      PROVE  Registry!Enable(h)
  BY <1>3, <1>5 DEF Enable, Registry!Enable, Registry!Registered
<1>6. CASE UNCHANGED vars
  BY <1>6 DEF vars, Registry!vars, Live, EnabledHandlers, IsEnabled
<1> QED
  BY <1>1, <1>2, <1>4, <1>5, <1>6 DEF Next, Registry!Next

(***************************************************************************)
(* The error handlers implement the registry that the demultiplexer's      *)
(* request handlers implement too.                                         *)
(***************************************************************************)
THEOREM Implementation == Spec => ImplementsRegistry
<1>1. Init => Registry!Init
  BY ErrorHandlersAssumption
     DEF Init, Registry!Init, Live, EnabledHandlers, IsEnabled
<1> QED
  BY <1>1, Invariance, StepRefines, PTL
     DEF Spec, ImplementsRegistry, Registry!Spec
=============================================================================
