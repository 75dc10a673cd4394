----------------------------- MODULE QPromise ------------------------------
(***************************************************************************)
(* The promises of Q as the swagger client uses them (swagger-ui.js, the   *)
(* bundled q): one deferred promise, Root, that the client resolves or     *)
(* rejects, and handlers registered with then().  Every then() returns a   *)
(* promise of its own, to which further handlers can be added; the promise *)
(* of handler h is called h as well.                                       *)
(*                                                                         *)
(* Nothing is delivered in the turn it happens: Q keeps one queue of tasks *)
(* and empties it in a later turn of the event loop.  A handler passes two *)
(* tasks: "dispatch" hands it to its promise, which keeps it as a message  *)
(* while it is unresolved; "run" hands it to the settled promise.  Not     *)
(* modelled: progress, a promise returned by a handler, and foreign        *)
(* thenables, none of which the client uses.                               *)
(***************************************************************************)
EXTENDS Integers, Sequences

CONSTANTS
    Root,       \* the client's deferred promise: 0
    Handlers    \* the calls of then(), 1 .. n in the order they are made

ASSUME HandlersAssumption == Root \in Nat /\ Handlers \subseteq Nat \ {Root}

VARIABLES
    promise,    \* per promise: its state and the messages it keeps
    tasks,      \* nextTick's linked list, from head.next to tail
    flushing,   \* flush is running: no other event of the browser can
    parent,     \* which promise a handler was registered on, or none
    unhandled,  \* unhandledRejections
    ran         \* history: the handlers in the order they were called

qvars == <<promise, tasks, flushing, parent, unhandled, ran>>

Promises == {Root} \cup Handlers
NoParent == -1
Registered == {h \in Handlers : parent[h] # NoParent}
Task(kind, h) == [kind |-> kind, handler |-> h]

QInit ==
    /\ promise = [p \in Promises |-> [state |-> "pending", messages |-> <<>>]]
    /\ tasks = <<>> /\ flushing = FALSE
    /\ parent = [h \in Handlers |-> NoParent]
    /\ unhandled = {}
    /\ ran = <<>>

\* then(): a new deferred, and its first task in the queue
Then(h, p) ==
    /\ ~flushing /\ parent[h] = NoParent
    /\ \A g \in Handlers : g < h => g \in Registered
    /\ p \in {Root} \cup Registered
    /\ parent' = [parent EXCEPT ![h] = p]
    /\ tasks' = Append(tasks, Task("dispatch", h))
    /\ UNCHANGED <<promise, flushing, unhandled, ran>>

(***************************************************************************)
(* become: the promise p is settled, every message it kept becomes a task, *)
(* in order, after the tasks q.  A rejection is tracked from its creation  *)
(* until a handler is told of it; R is what is tracked before.             *)
(***************************************************************************)
Become(p, state, q, R) ==
    LET kept == promise[p].messages IN
    /\ promise' = [promise EXCEPT ![p] = [state |-> state, messages |-> <<>>]]
    /\ tasks' = q \o [i \in DOMAIN kept |-> Task("run", kept[i])]
    /\ unhandled' = IF state = "rejected" THEN R \cup {p} ELSE R

\* deferred.resolve and deferred.reject: only the first has an effect
Settle(p, state) ==
    IF promise[p].state = "pending"
    THEN Become(p, state, tasks, unhandled) /\ UNCHANGED <<flushing, parent, ran>>
    ELSE UNCHANGED qvars

\* requestTick: the browser calls flush
Tick == /\ ~flushing /\ tasks # <<>>
        /\ flushing' = TRUE
        /\ UNCHANGED <<promise, tasks, parent, unhandled, ran>>

\* Mutant: the newest handler goes first.
DispatchAhead ==
    /\ flushing /\ tasks # <<>> /\ Head(tasks).kind = "dispatch"
    /\ LET h == Head(tasks).handler
           p == parent[h]
       IN  IF promise[p].state = "pending"
           THEN /\ promise' = [promise EXCEPT ![p].messages = <<h>> \o @]
                /\ tasks' = Tail(tasks)
           ELSE /\ tasks' = <<Task("run", h)>> \o Tail(tasks)
                /\ UNCHANGED promise
    /\ UNCHANGED <<flushing, parent, unhandled, ran>>

\* deferred.promiseDispatch: kept while the promise has messages, else passed on
Dispatch ==
    /\ flushing /\ tasks # <<>> /\ Head(tasks).kind = "dispatch"
    /\ LET h == Head(tasks).handler
           p == parent[h]
       IN  IF promise[p].state = "pending"
           THEN /\ promise' = [promise EXCEPT ![p].messages = Append(@, h)]
                /\ tasks' = Tail(tasks)
           ELSE /\ tasks' = Append(Tail(tasks), Task("run", h))
                /\ UNCHANGED promise
    /\ UNCHANGED <<flushing, parent, unhandled, ran>>

(***************************************************************************)
(* The settled promise's promiseDispatch: _fulfilled or _rejected calls    *)
(* the handler and settles the handler's own promise with what comes out.  *)
(* A handler that throws rejects it; one without a callback for this side  *)
(* passes the outcome on and is not called.                                *)
(***************************************************************************)
Run(called, result) ==
    /\ flushing /\ tasks # <<>> /\ Head(tasks).kind = "run"
    /\ LET h == Head(tasks).handler
           p == parent[h]
       IN  /\ ~called => result = promise[p].state
           /\ Become(h, result, Tail(tasks), unhandled \ {p})
           /\ ran' = Append(ran, <<h, IF called THEN promise[p].state ELSE "passed">>)
    /\ UNCHANGED <<flushing, parent>>

\* the queue is empty: flush returns
Idle == /\ flushing /\ tasks = <<>>
        /\ flushing' = FALSE
        /\ UNCHANGED <<promise, tasks, parent, unhandled, ran>>

QStep == Tick \/ Dispatch \/ Idle
         \/ \E called \in BOOLEAN, result \in {"fulfilled", "rejected"} : Run(called, result)
=============================================================================
