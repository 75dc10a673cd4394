------------------------ MODULE SwaggerClient_proofs ------------------------
(***************************************************************************)
(* Proofs about the load of a description, for every world, every number   *)
(* of handlers and every order of answers: the handlers of the promise are *)
(* called in order, the counters of the converter and of the resolver      *)
(* agree with what is outstanding, whoever waits hears once how the load   *)
(* ended, a built client offers every operation, its references lead where *)
(* their author meant, and a converted listing offers of a declaration     *)
(* what it offers alone.                                                   *)
(***************************************************************************)
EXTENDS SwaggerClient, FiniteSetTheorems, SequenceTheorems, WellFoundedInduction, TLAPS

Settled == {"fulfilled", "rejected"}
Tasks == [kind : {"dispatch", "run"}, handler : Handlers]
PromiseRecords == [state : Settled \cup {"pending"}, messages : Seq(Handlers)]
QTypeOK ==
    /\ promise \in [Promises -> PromiseRecords]
    /\ tasks \in Seq(Tasks)
    /\ flushing \in BOOLEAN
    /\ parent \in [Handlers -> Promises \cup {NoParent}]
    /\ unhandled \subseteq Promises
    /\ ran \in Seq(Handlers \X (Settled \cup {"passed"}))

Pending(p) == promise[p].state = "pending"
Kept(p) == promise[p].messages
Waits(h) == parent[h] # NoParent /\ Pending(h)

\* A handler is handed to its promise, kept by it, handed to it again when it is
\* settled, and called: it is in one of these places.
Somewhere(h) ==
    \/ \E i \in DOMAIN tasks : tasks[i].handler = h
    \/ \E i \in DOMAIN Kept(parent[h]) : Kept(parent[h])[i] = h
    \/ \E i \in DOMAIN ran : ran[i][1] = h
TasksAgree ==
    /\ \A i \in DOMAIN tasks :
         /\ Waits(tasks[i].handler)
         /\ tasks[i].kind = "run" => ~Pending(parent[tasks[i].handler])
    /\ \A i, j \in DOMAIN tasks : tasks[i].handler = tasks[j].handler => i = j
KeptAgree ==
    \A p \in Promises : \A i \in DOMAIN Kept(p) :
        /\ Waits(Kept(p)[i]) /\ parent[Kept(p)[i]] = p /\ Pending(p)
        /\ \A j \in DOMAIN tasks : tasks[j].handler # Kept(p)[i]
RanAgree ==
    /\ \A i \in DOMAIN ran :
         /\ parent[ran[i][1]] # NoParent
         /\ ~Pending(ran[i][1]) /\ ~Pending(parent[ran[i][1]])
    /\ \A i, j \in DOMAIN ran : ran[i][1] = ran[j][1] => i = j
    /\ \A h \in Handlers : ~Pending(h) => \E i \in DOMAIN ran : ran[i][1] = h
ParentsAgree ==
    /\ \A h \in Handlers : parent[h] # h
    /\ \A h \in Registered : Somewhere(h) /\ \A g \in Handlers : g < h => g \in Registered
PlacesAgree == TasksAgree /\ KeptAgree /\ RanAgree /\ ParentsAgree

\* Handlers of one promise pass these places in the order of their registration.
Siblings(g, h) == parent[g] = parent[h]
Ahead(i, j) == \/ tasks[i].kind = tasks[j].kind /\ i < j
               \/ tasks[i].kind = "run" /\ tasks[j].kind = "dispatch"
InOrder ==
    /\ \A i, j \in DOMAIN ran : i < j /\ Siblings(ran[i][1], ran[j][1]) => ran[i][1] < ran[j][1]
    /\ \A i \in DOMAIN ran, j \in DOMAIN tasks :
         Siblings(ran[i][1], tasks[j].handler) => ran[i][1] < tasks[j].handler
    /\ \A i, j \in DOMAIN tasks :
         Siblings(tasks[i].handler, tasks[j].handler) /\ Ahead(i, j) => tasks[i].handler < tasks[j].handler
    /\ \A p \in Promises :
         /\ \A i, j \in DOMAIN Kept(p) : i < j => Kept(p)[i] < Kept(p)[j]
         /\ \A i \in DOMAIN Kept(p), j \in DOMAIN tasks :
              parent[tasks[j].handler] = p => Kept(p)[i] < tasks[j].handler
RejectionsTracked ==
    unhandled = {p \in Promises : promise[p].state = "rejected"
                                  /\ \A i \in DOMAIN ran : parent[ran[i][1]] # p}
QInv == QTypeOK /\ PlacesAgree /\ InOrder /\ RejectionsTracked

LEMMA RootType == /\ Root \in Promises /\ Handlers \subseteq Promises /\ NoParent \notin Promises
                  /\ Root \notin Handlers /\ Handlers \subseteq Nat
  BY HandlersAssumption DEF Promises, NoParent

LEMMA QInitInv == QInit => QInv
<1> SUFFICES ASSUME QInit PROVE QInv
  OBVIOUS
<1>1. QTypeOK
  <2>1. [state |-> "pending", messages |-> <<>>] \in PromiseRecords
    BY DEF PromiseRecords
  <2>2. promise \in [Promises -> PromiseRecords]
    BY <2>1 DEF QInit
  <2>3. parent \in [Handlers -> Promises \cup {NoParent}]
    BY DEF QInit
  <2>4. tasks \in Seq(Tasks) /\ ran \in Seq(Handlers \X (Settled \cup {"passed"}))
    BY DEF QInit
  <2>5. unhandled \subseteq Promises /\ flushing \in BOOLEAN
    BY DEF QInit
  <2> QED
    BY <2>2, <2>3, <2>4, <2>5 DEF QTypeOK
<1>2. tasks = <<>> /\ ran = <<>> /\ Registered = {} /\ \A p \in Promises : Kept(p) = <<>>
  BY DEF QInit, Registered, Kept
<1>3. TasksAgree /\ KeptAgree /\ RanAgree /\ InOrder
  <2>1. \A p \in Promises : Pending(p)
    BY DEF QInit, Pending
  <2> QED
    BY <1>2, <2>1, RootType DEF TasksAgree, KeptAgree, RanAgree, InOrder
<1>4. ParentsAgree
  BY <1>2, RootType DEF ParentsAgree, QInit
<1>5. RejectionsTracked
  BY DEF RejectionsTracked, QInit
<1> QED
  BY <1>1, <1>3, <1>4, <1>5 DEF QInv, PlacesAgree

\* The promise that is settled hands what it kept to the queue.
LEMMA Handed ==
  ASSUME NEW q \in Seq(Tasks), NEW kept \in Seq(Handlers), NEW t,
         t = q \o [i \in DOMAIN kept |-> Task("run", kept[i])]
  PROVE  /\ t \in Seq(Tasks)
         /\ Len(t) = Len(q) + Len(kept)
         /\ \A i \in 1 .. Len(q) : t[i] = q[i]
         /\ \A i \in 1 .. Len(kept) : t[Len(q) + i] = Task("run", kept[i])
<1> DEFINE handed == [i \in DOMAIN kept |-> Task("run", kept[i])]
<1>0. DOMAIN kept = 1 .. Len(kept) /\ Len(kept) \in Nat
  OBVIOUS
<1>1. handed \in Seq(Tasks) /\ Len(handed) = Len(kept)
  BY <1>0 DEF Task, Tasks
<1>2. \A i \in 1 .. Len(kept) : handed[i] = Task("run", kept[i])
  BY <1>0
<1> HIDE DEF handed
<1> QED
  BY <1>0, <1>1, <1>2 DEF handed

LEMMA ThenStep ==
  ASSUME QInv, NEW h \in Handlers, NEW p \in Promises, Then(h, p)
  PROVE  QInv'
<1> USE RootType DEF Then
<1>q. QTypeOK /\ TasksAgree /\ KeptAgree /\ RanAgree /\ ParentsAgree /\ InOrder /\ RejectionsTracked
  BY DEF QInv, PlacesAgree
<1>t. /\ tasks' \in Seq(Tasks) /\ Len(tasks) \in Nat
      /\ DOMAIN tasks = 1 .. Len(tasks) /\ DOMAIN tasks' = 1 .. Len(tasks) + 1
      /\ \A i \in DOMAIN tasks : tasks'[i] = tasks[i]
      /\ tasks'[Len(tasks) + 1].handler = h /\ tasks'[Len(tasks) + 1].kind = "dispatch"
      /\ \A i \in DOMAIN tasks : tasks[i].handler \in Handlers
  <2>1. tasks \in Seq(Tasks) /\ Task("dispatch", h) \in Tasks
    BY <1>q DEF QTypeOK, Task, Tasks
  <2>2. \A i \in DOMAIN tasks : tasks[i] \in Tasks
    BY <2>1
  <2> QED
    BY <2>1, <2>2 DEF Task, Tasks
<1>p. /\ parent \in [Handlers -> Promises \cup {NoParent}]
      /\ parent' = [parent EXCEPT ![h] = p] /\ p # h /\ p # NoParent
      /\ promise' = promise /\ ran' = ran /\ parent[h] = NoParent
  BY <1>q DEF QTypeOK, Registered
<1>1. QTypeOK'
  BY <1>q, <1>t, <1>p DEF QTypeOK
<1>n. \A g \in Handlers : parent[g] # NoParent => g < h
  BY <1>q, <1>p DEF ParentsAgree, Registered
<1>k. /\ \A i \in DOMAIN ran : ran[i][1] \in Handlers
      /\ \A r \in Promises : Kept(r) \in Seq(Handlers)
      /\ \A r \in Promises : \A i \in DOMAIN Kept(r) : Kept(r)[i] \in Handlers
  BY <1>q DEF QTypeOK, Kept, PromiseRecords
<1>x. Pending(h)
  BY <1>q, <1>p, <1>k DEF RanAgree
<1>o. /\ \A i \in DOMAIN tasks : tasks[i].handler # h
      /\ \A i \in DOMAIN ran : ran[i][1] # h
      /\ \A r \in Promises : \A i \in DOMAIN Kept(r) : Kept(r)[i] # h
  BY <1>q, <1>p DEF TasksAgree, KeptAgree, RanAgree, Waits
<1>r. /\ \A g \in Handlers : g # h => parent'[g] = parent[g]
      /\ parent'[h] = p
      /\ \A r : Kept(r)' = Kept(r) /\ Pending(r)' = Pending(r)
  BY <1>p DEF Kept, Pending
<1>2. TasksAgree'
  BY <1>q, <1>t, <1>p, <1>x, <1>o, <1>r DEF TasksAgree, Waits
<1>3. KeptAgree'
  <2>1. ASSUME NEW r \in Promises, NEW i \in DOMAIN Kept(r)
        PROVE  /\ Kept(r)[i] \in Handlers /\ Kept(r)[i] # h
               /\ Waits(Kept(r)[i]) /\ parent[Kept(r)[i]] = r /\ Pending(r)
               /\ \A j \in DOMAIN tasks : tasks[j].handler # Kept(r)[i]
    BY <1>q, <1>k, <1>o DEF KeptAgree
  <2>2. \A j \in DOMAIN tasks' : j \in DOMAIN tasks \/ tasks'[j].handler = h
    BY <1>t
  <2>3. ASSUME NEW r \in Promises, NEW i \in DOMAIN Kept(r)'
        PROVE  /\ Waits(Kept(r)[i])' /\ (parent[Kept(r)[i]] = r)' /\ Pending(r)'
               /\ \A j \in DOMAIN tasks' : tasks'[j].handler # Kept(r)'[i]
    <3>1. i \in DOMAIN Kept(r) /\ Kept(r)'[i] = Kept(r)[i]
      BY <1>r
    <3> QED
      BY <2>1, <2>2, <3>1, <1>t, <1>r DEF Waits
  <2> QED
    BY <2>3 DEF KeptAgree
<1>4. RanAgree'
  BY <1>q, <1>p, <1>k, <1>o, <1>r DEF RanAgree
<1>5. ParentsAgree'
  <2>1. Registered' = Registered \cup {h}
    BY <1>p, <1>r DEF Registered
  <2>2. Somewhere(h)'
    BY <1>t DEF Somewhere
  <2>3. \A g \in Registered : Somewhere(g) => Somewhere(g)'
    <3> SUFFICES ASSUME NEW g \in Registered, Somewhere(g) PROVE Somewhere(g)'
      OBVIOUS
    <3>1. g \in Handlers /\ g # h /\ parent'[g] = parent[g]
      BY <1>p, <1>r DEF Registered
    <3>2. CASE \E i \in DOMAIN tasks : tasks[i].handler = g
      BY <3>2, <1>t DEF Somewhere
    <3>3. CASE \E i \in DOMAIN Kept(parent[g]) : Kept(parent[g])[i] = g
      BY <3>1, <3>3, <1>p DEF Somewhere, Kept
    <3>4. CASE \E i \in DOMAIN ran : ran[i][1] = g
      BY <3>4, <1>p DEF Somewhere
    <3> QED
      BY <3>2, <3>3, <3>4 DEF Somewhere
  <2> QED
    BY <2>1, <2>2, <2>3, <1>q, <1>p, <1>n, <1>r DEF ParentsAgree, Registered
<1>6. InOrder'
  <2>1. \A i, j \in DOMAIN ran : Siblings(ran[i][1], ran[j][1])' = Siblings(ran[i][1], ran[j][1])
    BY <1>k, <1>o, <1>r, <1>p DEF Siblings
  <2>2. \A i \in DOMAIN ran : ran[i][1] < h
    BY <1>q, <1>k, <1>n DEF RanAgree
  <2>3. \A i \in DOMAIN tasks : tasks[i].handler < h
    BY <1>q, <1>t, <1>n DEF TasksAgree, Waits
  <2>4. \A r \in Promises : \A i \in DOMAIN Kept(r) : Kept(r)[i] < h
    BY <1>q, <1>k, <1>n DEF KeptAgree, Waits
  <2>5. \A i, j \in DOMAIN ran : i < j /\ Siblings(ran[i][1], ran[j][1])' => ran[i][1] < ran[j][1]
    BY <2>1, <1>q DEF InOrder
  <2>6. \A i \in DOMAIN ran, j \in DOMAIN tasks' :
         Siblings(ran[i][1], tasks[j].handler)' => ran[i][1] < tasks'[j].handler
    <3> SUFFICES ASSUME NEW i \in DOMAIN ran, NEW j \in DOMAIN tasks',
                        parent'[ran[i][1]] = parent'[tasks'[j].handler]
                 PROVE  ran[i][1] < tasks'[j].handler
      BY <1>p DEF Siblings
    <3>1. CASE j \in DOMAIN tasks
      <4>1. Siblings(ran[i][1], tasks[j].handler)
        BY <3>1, <1>t, <1>k, <1>o, <1>r DEF Siblings
      <4> QED
        BY <3>1, <4>1, <1>q, <1>t DEF InOrder
    <3>2. CASE j = Len(tasks) + 1
      BY <2>2, <3>2, <1>t
    <3> QED
      BY <3>1, <3>2, <1>t
  <2>7. ASSUME NEW i \in DOMAIN tasks', NEW j \in DOMAIN tasks',
               Siblings(tasks[i].handler, tasks[j].handler)', Ahead(i, j)'
        PROVE  tasks'[i].handler < tasks'[j].handler
    <3>1. CASE j = Len(tasks) + 1 /\ i # j
      BY <2>3, <3>1, <1>t
    <3>2. CASE i \in DOMAIN tasks /\ j \in DOMAIN tasks
      <4>1. Siblings(tasks[i].handler, tasks[j].handler)
        BY <2>7, <3>2, <1>t, <1>o, <1>r DEF Siblings
      <4>2. tasks'[i] = tasks[i] /\ tasks'[j] = tasks[j]
        BY <3>2, <1>t
      <4>3. Ahead(i, j)
        BY <2>7, <4>2 DEF Ahead
      <4> QED
        BY <3>2, <4>1, <4>2, <4>3, <1>q DEF InOrder
    <3>3. ~(i = Len(tasks) + 1)
      BY <2>7, <1>t DEF Ahead
    <3> QED
      BY <3>1, <3>2, <3>3, <1>t
  <2>8. ASSUME NEW r \in Promises, NEW i \in DOMAIN Kept(r), NEW j \in DOMAIN tasks',
               parent'[tasks'[j].handler] = r
        PROVE  Kept(r)[i] < tasks'[j].handler
    BY <2>4, <2>8, <1>q, <1>t, <1>o, <1>r DEF InOrder
  <2>9. \A r \in Promises : \A i, j \in DOMAIN Kept(r) : i < j => Kept(r)[i] < Kept(r)[j]
    BY <1>q DEF InOrder
  <2> QED
    BY <2>5, <2>6, <2>7, <2>8, <2>9, <1>p, <1>r DEF InOrder
<1>7. RejectionsTracked'
  <2>1. \A i \in DOMAIN ran : parent'[ran'[i][1]] = parent[ran[i][1]]
    BY <1>p, <1>k, <1>o, <1>r
  <2>2. unhandled' = unhandled /\ promise' = promise /\ ran' = ran
    BY <1>p
  <2> QED
    BY <2>1, <2>2, <1>q DEF RejectionsTracked
<1> QED
  BY <1>1, <1>2, <1>3, <1>4, <1>5, <1>6, <1>7 DEF QInv, PlacesAgree

\* What a step of flush finds at the head of the queue.
LEMMA HeadOfQueue ==
  ASSUME QInv, tasks # <<>>
  PROVE  /\ Len(tasks) \in Nat \ {0} /\ DOMAIN tasks = 1 .. Len(tasks)
         /\ Head(tasks) = tasks[1] /\ Head(tasks).handler \in Handlers
         /\ Head(tasks) = Task(Head(tasks).kind, Head(tasks).handler)
         /\ Tail(tasks) \in Seq(Tasks) /\ Len(Tail(tasks)) = Len(tasks) - 1
         /\ \A i \in 1 .. Len(tasks) - 1 : Tail(tasks)[i] = tasks[i + 1]
         /\ parent[Head(tasks).handler] \in Promises
<1>1. tasks \in Seq(Tasks)
  BY DEF QInv, QTypeOK
<1>2. Len(tasks) \in Nat \ {0} /\ DOMAIN tasks = 1 .. Len(tasks) /\ Head(tasks) = tasks[1]
  BY <1>1
<1>3. tasks[1] \in Tasks
  BY <1>1, <1>2
<1>4. parent[tasks[1].handler] \in Promises
  <2>1. parent[tasks[1].handler] # NoParent
    BY <1>2 DEF QInv, PlacesAgree, TasksAgree, Waits
  <2> QED
    BY <1>3, <2>1 DEF QInv, QTypeOK, Tasks
<1> QED
  BY <1>1, <1>2, <1>3, <1>4 DEF Tasks, Task

\* Facts about the places, for the steps below.
LEMMA PlaceTypes ==
  ASSUME QInv
  PROVE  /\ promise \in [Promises -> PromiseRecords]
         /\ \A p \in Promises : promise[p].state \in Settled \cup {"pending"}
         /\ \A p \in Promises : Kept(p) \in Seq(Handlers) /\ \A i \in DOMAIN Kept(p) : Kept(p)[i] \in Handlers
         /\ \A i \in DOMAIN ran : ran[i][1] \in Handlers
         /\ \A i \in DOMAIN tasks : tasks[i] \in Tasks /\ tasks[i].handler \in Handlers
<1> USE DEF QInv, QTypeOK
<1>1. \A p \in Promises : promise[p] \in PromiseRecords
  OBVIOUS
<1>2. \A p \in Promises : promise[p].state \in Settled \cup {"pending"} /\ Kept(p) \in Seq(Handlers)
  BY <1>1 DEF PromiseRecords, Kept
<1>3. \A i \in DOMAIN tasks : tasks[i] \in Tasks
  OBVIOUS
<1>4. \A i \in DOMAIN ran : ran[i] \in Handlers \X (Settled \cup {"passed"})
  OBVIOUS
<1> QED
  BY <1>2, <1>3, <1>4 DEF Tasks

LEMMA FlushingStep ==
  ASSUME QInv, flushing' \in BOOLEAN, UNCHANGED <<promise, tasks, parent, unhandled, ran>>
  PROVE  QInv'
<1>1. QTypeOK'
  BY DEF QInv, QTypeOK
<1>2. /\ promise' = promise /\ tasks' = tasks /\ parent' = parent
      /\ unhandled' = unhandled /\ ran' = ran
  OBVIOUS
<1>3. TasksAgree' /\ KeptAgree' /\ RanAgree' /\ ParentsAgree'
  BY <1>2 DEF QInv, PlacesAgree, TasksAgree, KeptAgree, RanAgree, ParentsAgree, Waits, Kept,
              Pending, Somewhere, Registered
<1>4. InOrder' /\ RejectionsTracked'
  BY <1>2 DEF QInv, InOrder, RejectionsTracked, Kept, Siblings, Ahead
<1> QED
  BY <1>1, <1>3, <1>4 DEF QInv, PlacesAgree

\* A handler is kept by its promise, behind those it keeps, or goes behind the
\* tasks, in front of those that are yet to be dispatched.
LEMMA KeepStep ==
  ASSUME QInv, NEW h, NEW p, Dispatch, h = Head(tasks).handler, p = parent[h], Pending(p)
  PROVE  QInv'
<1> USE RootType
<1>q. QTypeOK /\ TasksAgree /\ KeptAgree /\ RanAgree /\ ParentsAgree /\ InOrder /\ RejectionsTracked
  BY DEF QInv, PlacesAgree
<1>h. /\ Len(tasks) \in Nat \ {0} /\ DOMAIN tasks = 1 .. Len(tasks)
      /\ tasks[1] = Task("dispatch", h) /\ h \in Handlers /\ p \in Promises
      /\ tasks' = Tail(tasks) /\ tasks' \in Seq(Tasks) /\ DOMAIN tasks' = 1 .. Len(tasks) - 1
      /\ \A i \in DOMAIN tasks' : tasks'[i] = tasks[i + 1] /\ i + 1 \in DOMAIN tasks
  <2>1. tasks # <<>> /\ Head(tasks).kind = "dispatch" /\ tasks' = Tail(tasks)
    BY DEF Dispatch, Pending
  <2>2. /\ Tail(tasks) \in Seq(Tasks) /\ Len(Tail(tasks)) = Len(tasks) - 1
        /\ Len(tasks) \in Nat \ {0} /\ DOMAIN tasks = 1 .. Len(tasks)
        /\ \A i \in 1 .. Len(tasks) - 1 : Tail(tasks)[i] = tasks[i + 1]
        /\ tasks[1] = Task("dispatch", h) /\ h \in Handlers /\ p \in Promises
    BY <2>1, HeadOfQueue
  <2>3. DOMAIN tasks' = 1 .. Len(tasks) - 1
    BY <2>1, <2>2
  <2> QED
    BY <2>1, <2>2, <2>3
<1>k. \A r \in Promises : /\ Kept(r) \in Seq(Handlers) /\ Len(Kept(r)) \in Nat
                          /\ DOMAIN Kept(r) = 1 .. Len(Kept(r))
  BY PlaceTypes
<1>p. /\ promise' = [promise EXCEPT ![p].messages = Append(Kept(p), h)]
      /\ promise \in [Promises -> PromiseRecords]
      /\ parent' = parent /\ ran' = ran /\ unhandled' = unhandled /\ flushing' = flushing
  BY <1>q DEF Dispatch, QTypeOK, Pending, Kept
<1>s. /\ \A r \in Promises : promise'[r].state = promise[r].state /\ Pending(r)' = Pending(r)
      /\ \A r \in Promises : r # p => Kept(r)' = Kept(r)
      /\ Kept(p)' = Append(Kept(p), h)
      /\ promise' \in [Promises -> PromiseRecords]
  <2>1. promise[p] \in PromiseRecords /\ Append(Kept(p), h) \in Seq(Handlers)
    BY <1>p, <1>k, <1>h
  <2> QED
    BY <2>1, <1>p, <1>h DEF Kept, Pending, PromiseRecords
<1>a. /\ DOMAIN Kept(p)' = 1 .. Len(Kept(p)) + 1
      /\ \A i \in DOMAIN Kept(p) : Kept(p)'[i] = Kept(p)[i]
      /\ Kept(p)'[Len(Kept(p)) + 1] = h
      /\ DOMAIN Kept(p) = 1 .. Len(Kept(p)) /\ Len(Kept(p)) \in Nat
  BY <1>s, <1>k, <1>h
<1>t. tasks[1].handler = h /\ tasks[1].kind = "dispatch" /\ 1 \in DOMAIN tasks
  BY <1>h DEF Task
<1>1. QTypeOK'
  BY <1>q, <1>h, <1>p, <1>s DEF QTypeOK
<1>2. TasksAgree'
  <2>1. ASSUME NEW i \in DOMAIN tasks'
        PROVE  /\ Waits(tasks[i].handler)'
               /\ tasks'[i].kind = "run" => ~Pending(parent[tasks[i].handler])'
    <3>1. /\ Waits(tasks[i + 1].handler) /\ tasks[i + 1].handler \in Handlers
          /\ tasks[i + 1].kind = "run" => ~Pending(parent[tasks[i + 1].handler])
          /\ parent[tasks[i + 1].handler] \in Promises
      BY <1>q, <1>h, PlaceTypes DEF TasksAgree, Waits, QTypeOK
    <3> QED
      BY <3>1, <1>h, <1>p, <1>s DEF Waits
  <2>2. ASSUME NEW i \in DOMAIN tasks', NEW j \in DOMAIN tasks', tasks'[i].handler = tasks'[j].handler
        PROVE  i = j
    <3>1. i + 1 = j + 1
      BY <2>2, <1>q, <1>h DEF TasksAgree
    <3> QED
      BY <3>1, <1>h
  <2> QED
    BY <2>1, <2>2 DEF TasksAgree
<1>3. KeptAgree'
  <2>1. ASSUME NEW r \in Promises, NEW i \in DOMAIN Kept(r), ~(r = p /\ i = Len(Kept(p)) + 1)
        PROVE  /\ Waits(Kept(r)[i])' /\ parent[Kept(r)[i]] = r /\ Pending(r)'
               /\ \A j \in DOMAIN tasks' : tasks'[j].handler # Kept(r)[i]
    <3>1. /\ Waits(Kept(r)[i]) /\ parent[Kept(r)[i]] = r /\ Pending(r) /\ Kept(r)[i] \in Handlers
          /\ \A j \in DOMAIN tasks : tasks[j].handler # Kept(r)[i]
      BY <1>q, PlaceTypes DEF KeptAgree
    <3>2. Kept(r)'[i] = Kept(r)[i]
      BY <1>a, <1>s
    <3>3. /\ Kept(r)[i] \in Promises
          /\ \A j \in DOMAIN tasks' : tasks'[j].handler # Kept(r)[i]
      BY <3>1, <1>h
    <3> QED
      BY <3>1, <3>2, <3>3, <1>p, <1>s DEF Waits
  <2>2. /\ Waits(h)' /\ parent[h] = p /\ Pending(p)'
        /\ \A j \in DOMAIN tasks' : tasks'[j].handler # h
    <3>1. ASSUME NEW j \in DOMAIN tasks', tasks'[j].handler = h PROVE FALSE
      <4>1. j + 1 = 1
        BY <3>1, <1>q, <1>h, <1>t DEF TasksAgree
      <4> QED
        BY <4>1, <1>h
    <3> QED
      BY <3>1, <1>q, <1>t, <1>h, <1>p, <1>s DEF TasksAgree, Waits
  <2>3. ASSUME NEW r \in Promises, NEW i \in DOMAIN Kept(r)'
        PROVE  \/ i \in DOMAIN Kept(r) /\ Kept(r)'[i] = Kept(r)[i] /\ ~(r = p /\ i = Len(Kept(p)) + 1)
               \/ r = p /\ Kept(r)'[i] = h
    BY <1>s, <1>a
  <2> QED
    BY <2>1, <2>2, <2>3, <1>p DEF KeptAgree
<1>4. RanAgree'
  <2>1. \A i \in DOMAIN ran : parent[ran[i][1]] # NoParent => parent[ran[i][1]] \in Promises
    BY <1>q, PlaceTypes DEF QTypeOK
  <2> QED
    BY <2>1, <1>q, <1>p, <1>s, PlaceTypes DEF RanAgree
<1>5. ParentsAgree'
  <2>1. ASSUME NEW g \in Registered PROVE Somewhere(g)'
    <3>1. Somewhere(g) /\ g \in Handlers /\ parent[g] \in Promises
      BY <1>q DEF ParentsAgree, Registered, QTypeOK
    <3>2. CASE g = h
      BY <3>2, <1>a, <1>p DEF Somewhere
    <3>3. ASSUME NEW i \in DOMAIN tasks, tasks[i].handler = g, g # h PROVE Somewhere(g)'
      <4>1. i # 1
        BY <3>3, <1>t
      <4>2. i - 1 \in DOMAIN tasks' /\ tasks'[i - 1] = tasks[i]
        BY <4>1, <1>h
      <4> QED
        BY <3>3, <4>2 DEF Somewhere
    <3>4. ASSUME NEW i \in DOMAIN Kept(parent[g]), Kept(parent[g])[i] = g PROVE Somewhere(g)'
      <4>1. i \in DOMAIN Kept(parent[g])' /\ Kept(parent[g])'[i] = g
        BY <3>1, <3>4, <1>a, <1>s, <1>p
      <4> QED
        BY <4>1, <1>p DEF Somewhere
    <3>5. ASSUME NEW i \in DOMAIN ran, ran[i][1] = g PROVE Somewhere(g)'
      BY <3>5, <1>p DEF Somewhere
    <3> QED
      BY <3>1, <3>2, <3>3, <3>4, <3>5 DEF Somewhere
  <2> QED
    BY <2>1, <1>q, <1>p DEF ParentsAgree, Registered
<1>6. InOrder'
  <2>1. \A i, j \in DOMAIN ran : i < j /\ Siblings(ran[i][1], ran[j][1])' => ran[i][1] < ran[j][1]
    BY <1>q, <1>p DEF InOrder, Siblings
  <2>2. \A i \in DOMAIN ran, j \in DOMAIN tasks' :
         Siblings(ran[i][1], tasks[j].handler)' => ran[i][1] < tasks'[j].handler
    BY <1>q, <1>h, <1>p DEF InOrder, Siblings
  <2>3. ASSUME NEW i \in DOMAIN tasks', NEW j \in DOMAIN tasks',
               Siblings(tasks[i].handler, tasks[j].handler)', Ahead(i, j)'
        PROVE  tasks'[i].handler < tasks'[j].handler
    <3>1. Siblings(tasks[i + 1].handler, tasks[j + 1].handler)
      BY <2>3, <1>h, <1>p DEF Siblings
    <3>2. Ahead(i + 1, j + 1)
      BY <2>3, <1>h DEF Ahead
    <3> QED
      BY <3>1, <3>2, <1>q, <1>h DEF InOrder
  <2>4. ASSUME NEW r \in Promises, NEW i \in DOMAIN Kept(r)', NEW j \in DOMAIN Kept(r)', i < j
        PROVE  Kept(r)'[i] < Kept(r)'[j]
    <3>1. \A k, l \in DOMAIN Kept(r) : k < l => Kept(r)[k] < Kept(r)[l]
      BY <1>q DEF InOrder
    <3>2. \A k \in DOMAIN Kept(p) : Kept(p)[k] < h
      BY <1>q, <1>h, <1>t DEF InOrder
    <3>3. CASE r # p
      BY <2>4, <3>1, <3>3, <1>s
    <3>4. CASE r = p
      BY <2>4, <3>1, <3>2, <3>4, <1>a
    <3> QED
      BY <3>3, <3>4
  <2>5. ASSUME NEW r \in Promises, NEW i \in DOMAIN Kept(r)', NEW j \in DOMAIN tasks',
               parent[tasks'[j].handler] = r
        PROVE  Kept(r)'[i] < tasks'[j].handler
    <3>1. \A k \in DOMAIN Kept(r) : Kept(r)[k] < tasks[j + 1].handler
      BY <2>5, <1>q, <1>h DEF InOrder
    <3>2. r = p => h < tasks[j + 1].handler
      <4>1. r = p => Siblings(tasks[1].handler, tasks[j + 1].handler)
        BY <2>5, <1>h, <1>t DEF Siblings
      <4>2. r = p => tasks[j + 1].kind = "dispatch"
        BY <2>5, <1>q, <1>h, PlaceTypes DEF TasksAgree, Tasks
      <4>3. r = p => Ahead(1, j + 1)
        BY <4>2, <1>h, <1>t DEF Ahead
      <4> QED
        BY <4>1, <4>3, <1>q, <1>h, <1>t DEF InOrder
    <3>3. tasks'[j] = tasks[j + 1]
      BY <1>h
    <3>4. CASE r # p
      BY <3>1, <3>3, <3>4, <1>s
    <3>5. CASE r = p
      BY <3>1, <3>2, <3>3, <3>5, <1>a
    <3> QED
      BY <3>4, <3>5
  <2> QED
    BY <2>1, <2>2, <2>3, <2>4, <2>5, <1>p DEF InOrder
<1>7. RejectionsTracked'
  BY <1>q, <1>p, <1>s DEF RejectionsTracked
<1> QED
  BY <1>1, <1>2, <1>3, <1>4, <1>5, <1>6, <1>7 DEF QInv, PlacesAgree

(***************************************************************************)
(* A promise is settled: the queue loses its first task, a handler that    *)
(* has run (o = 1), or none (o = 0), and is given what the promise kept.   *)
(***************************************************************************)
Settles(p0, state, o) ==
    /\ Pending(p0) /\ state \in Settled
    /\ promise' = [promise EXCEPT ![p0] = [state |-> state, messages |-> <<>>]]
    /\ Len(tasks') = Len(tasks) - o + Len(Kept(p0)) /\ tasks' \in Seq(Tasks)
    /\ \A i \in 1 .. Len(tasks) - o : tasks'[i] = tasks[i + o]
    /\ \A i \in 1 .. Len(Kept(p0)) : tasks'[Len(tasks) - o + i] = Task("run", Kept(p0)[i])
    /\ parent' = parent /\ flushing' = flushing
    /\ \/ o = 0 /\ p0 = Root /\ ran' = ran
          /\ unhandled' = IF state = "rejected" THEN unhandled \cup {p0} ELSE unhandled
       \/ /\ o = 1 /\ tasks # <<>> /\ tasks[1] = Task("run", p0)
          /\ \E how \in Settled \cup {"passed"} : ran' = Append(ran, <<p0, how>>)
          /\ unhandled' = IF state = "rejected" THEN (unhandled \ {parent[p0]}) \cup {p0}
                          ELSE unhandled \ {parent[p0]}

LEMMA SettlesStep ==
  ASSUME QInv, NEW p0 \in Promises, NEW state, NEW o \in {0, 1}, Settles(p0, state, o)
  PROVE  QInv'
<1> USE RootType
<1>q. QTypeOK /\ TasksAgree /\ KeptAgree /\ RanAgree /\ ParentsAgree /\ InOrder /\ RejectionsTracked
  BY DEF QInv, PlacesAgree
<1> DEFINE kept == Kept(p0)
           m == Len(tasks) - o
<1>a. /\ Pending(p0) /\ state \in Settled /\ parent' = parent /\ flushing' = flushing
      /\ promise' = [promise EXCEPT ![p0] = [state |-> state, messages |-> <<>>]]
      /\ promise \in [Promises -> PromiseRecords]
      /\ parent \in [Handlers -> Promises \cup {NoParent}]
  BY <1>q DEF Settles, QTypeOK
<1>k. /\ kept \in Seq(Handlers) /\ Len(kept) \in Nat /\ DOMAIN kept = 1 .. Len(kept)
      /\ \A i \in DOMAIN kept : kept[i] \in Handlers
  BY PlaceTypes
<1>m. /\ tasks \in Seq(Tasks) /\ Len(tasks) \in Nat /\ DOMAIN tasks = 1 .. Len(tasks)
      /\ tasks = <<>> <=> Len(tasks) = 0
      /\ tasks' \in Seq(Tasks) /\ DOMAIN tasks' = 1 .. m + Len(kept)
      /\ m \in Nat
  <2>1. tasks \in Seq(Tasks) /\ tasks' \in Seq(Tasks) /\ Len(tasks') = m + Len(kept)
    BY <1>q DEF Settles, QTypeOK
  <2>2. Len(tasks) \in Nat /\ DOMAIN tasks = 1 .. Len(tasks) /\ (tasks = <<>> <=> Len(tasks) = 0)
    BY <2>1
  <2>3. o = 1 => tasks # <<>>
    BY DEF Settles
  <2>4. DOMAIN tasks' = 1 .. Len(tasks')
    BY <2>1
  <2> QED
    BY <2>1, <2>2, <2>3, <2>4
<1>t. ASSUME NEW i \in DOMAIN tasks'
      PROVE  \/ /\ i <= m /\ i + o \in DOMAIN tasks /\ i + o # o /\ tasks'[i] = tasks[i + o]
             \/ /\ i > m /\ i - m \in DOMAIN kept /\ tasks'[i].kind = "run"
                /\ tasks'[i].handler = kept[i - m]
  <2>1. CASE i <= m
    BY <2>1, <1>m DEF Settles
  <2>2. CASE i > m
    <3>1. i - m \in 1 .. Len(kept) /\ m + (i - m) = i
      BY <2>2, <1>m, <1>k
    <3>2. tasks'[m + (i - m)] = Task("run", kept[i - m])
      BY <3>1 DEF Settles
    <3> QED
      BY <2>2, <3>1, <3>2, <1>k DEF Task
  <2> QED
    BY <2>1, <2>2, <1>m
<1>o. ASSUME NEW i \in DOMAIN tasks, i # o
      PROVE  i - o \in DOMAIN tasks' /\ tasks'[i - o] = tasks[i] /\ i - o <= m
  <2>1. i - o \in 1 .. m /\ (i - o) + o = i
    BY <1>o, <1>m
  <2>2. tasks'[i - o] = tasks[(i - o) + o]
    BY <2>1 DEF Settles
  <2> QED
    BY <2>1, <2>2, <1>m, <1>k
<1>n. ASSUME NEW i \in DOMAIN kept
      PROVE  m + i \in DOMAIN tasks' /\ tasks'[m + i].handler = kept[i]
  <2>1. i \in 1 .. Len(kept)
    BY <1>n, <1>k
  <2>2. tasks'[m + i] = Task("run", kept[i])
    BY <2>1 DEF Settles
  <2>3. m + i \in 1 .. m + Len(kept)
    BY <2>1, <1>m, <1>k
  <2> QED
    BY <2>2, <2>3, <1>m DEF Task
<1>u. ASSUME NEW i \in DOMAIN tasks', i <= m
      PROVE  i + o \in DOMAIN tasks /\ i + o # o /\ tasks'[i] = tasks[i + o]
  <2>1. ~(i > m)
    BY <1>u, <1>m, <1>k
  <2> QED
    BY <2>1, <1>t
<1>v. ASSUME NEW i \in DOMAIN tasks', i > m
      PROVE  i - m \in DOMAIN kept /\ tasks'[i].kind = "run" /\ tasks'[i].handler = kept[i - m]
  <2>1. ~(i <= m)
    BY <1>v, <1>m, <1>k
  <2> QED
    BY <2>1, <1>t
<1>s. /\ promise' \in [Promises -> PromiseRecords]
      /\ \A r \in Promises : r # p0 => promise'[r] = promise[r] /\ Kept(r)' = Kept(r) /\ Pending(r)' = Pending(r)
      /\ Kept(p0)' = <<>> /\ ~Pending(p0)' /\ promise'[p0].state = state
  <2>1. [state |-> state, messages |-> <<>>] \in PromiseRecords
    BY <1>a DEF PromiseRecords
  <2>2. state # "pending"
    BY <1>a DEF Settled
  <2> QED
    BY <1>a, <2>1, <2>2 DEF Kept, Pending
<1>p. ASSUME NEW r \in Promises, ~Pending(r) PROVE ~Pending(r)'
  BY <1>p, <1>s
<1>c. \/ o = 0 /\ p0 = Root /\ ran' = ran
      \/ /\ o = 1 /\ 1 \in DOMAIN tasks /\ tasks[1].handler = p0 /\ tasks[1].kind = "run" /\ p0 \in Handlers
         /\ DOMAIN ran' = 1 .. Len(ran) + 1 /\ ran'[Len(ran) + 1][1] = p0
         /\ \A i \in DOMAIN ran : ran'[i] = ran[i]
  <2>1. CASE o = 0
    BY <2>1 DEF Settles
  <2>2. CASE o = 1
    <3>1. tasks # <<>> /\ tasks[1] = Task("run", p0) /\ ran \in Seq(Handlers \X (Settled \cup {"passed"}))
      BY <2>2, <1>q DEF Settles, QTypeOK
    <3>2. PICK how \in Settled \cup {"passed"} : ran' = Append(ran, <<p0, how>>)
      BY <2>2 DEF Settles
    <3>3. 1 \in DOMAIN tasks /\ p0 \in Handlers
      BY <3>1, <1>m DEF Task, Tasks
    <3> QED
      BY <2>2, <3>1, <3>2, <3>3 DEF Task
  <2> QED
    BY <2>1, <2>2
<1>l. /\ Len(ran) \in Nat /\ DOMAIN ran = 1 .. Len(ran) /\ \A i \in DOMAIN ran : ran'[i] = ran[i] /\ i \in DOMAIN ran'
      /\ \A i \in DOMAIN ran' : i \in DOMAIN ran \/ (o = 1 /\ i = Len(ran) + 1 /\ ran'[i][1] = p0)
      /\ o = 1 => Len(ran) + 1 \in DOMAIN ran' /\ ran'[Len(ran) + 1][1] = p0
  <2>1. Len(ran) \in Nat /\ DOMAIN ran = 1 .. Len(ran)
    BY <1>q DEF QTypeOK
  <2> QED
    BY <2>1, <1>c
\* the handlers of the tasks that stay are not p0, and those kept are not either
<1>x. ASSUME NEW i \in DOMAIN tasks, i # o
      PROVE  tasks[i].handler \in Handlers /\ tasks[i].handler # p0
  BY <1>x, <1>c, <1>q, PlaceTypes DEF TasksAgree
<1>y. ASSUME NEW r \in Promises, NEW i \in DOMAIN Kept(r)
      PROVE  /\ Kept(r)[i] \in Handlers /\ Kept(r)[i] # p0 /\ parent[Kept(r)[i]] = r
             /\ Waits(Kept(r)[i]) /\ Pending(r)
             /\ \A j \in DOMAIN tasks : tasks[j].handler # Kept(r)[i]
  BY <1>c, <1>q, PlaceTypes DEF KeptAgree
<1>w. ASSUME NEW g \in Handlers, g # p0, Waits(g)
      PROVE  Waits(g)'
  BY <1>w, <1>a, <1>s DEF Waits
<1> HIDE DEF kept, m
<1>1. QTypeOK'
  <2>1. ran' \in Seq(Handlers \X (Settled \cup {"passed"}))
    <3>1. CASE ran' = ran
      BY <3>1, <1>q DEF QTypeOK
    <3>2. CASE p0 \in Handlers /\ \E how \in Settled \cup {"passed"} : ran' = Append(ran, <<p0, how>>)
      BY <3>2, <1>q DEF QTypeOK
    <3> QED
      BY <3>1, <3>2, <1>c DEF Settles
  <2>2. unhandled' \subseteq Promises
    BY <1>q DEF Settles, QTypeOK
  <2> QED
    BY <2>1, <2>2, <1>q, <1>a, <1>m, <1>s DEF QTypeOK
<1>2. TasksAgree'
  <2>1. ASSUME NEW i \in DOMAIN tasks'
        PROVE  /\ Waits(tasks[i].handler)'
               /\ tasks'[i].kind = "run" => ~Pending(parent[tasks[i].handler])'
    <3>1. CASE /\ i <= m /\ i + o \in DOMAIN tasks /\ i + o # o /\ tasks'[i] = tasks[i + o]
      <4>1. /\ Waits(tasks[i + o].handler) /\ parent[tasks[i + o].handler] \in Promises
            /\ tasks[i + o].kind = "run" => ~Pending(parent[tasks[i + o].handler])
        BY <3>1, <1>q, <1>x, <1>a DEF TasksAgree, Waits
      <4> QED
        BY <3>1, <4>1, <1>x, <1>w, <1>p, <1>a
    <3>2. CASE /\ i > m /\ i - m \in DOMAIN kept /\ tasks'[i].handler = kept[i - m]
      <4>1. kept[i - m] \in Handlers /\ kept[i - m] # p0 /\ Waits(kept[i - m]) /\ parent[kept[i - m]] = p0
        BY <3>2, <1>y DEF kept
      <4> QED
        BY <3>2, <4>1, <1>w, <1>s, <1>a
    <3> QED
      BY <3>1, <3>2, <1>t
  <2>2. ASSUME NEW i \in DOMAIN tasks', NEW j \in DOMAIN tasks', tasks'[i].handler = tasks'[j].handler, i < j
        PROVE  FALSE
    <3>1. CASE j <= m
      <4>1. i + o = j + o
        BY <2>2, <3>1, <1>t, <1>q, <1>m DEF TasksAgree
      <4> QED
        BY <4>1, <2>2, <1>m, <1>k
    <3>2. CASE i <= m /\ j > m
      <4>1. i + o \in DOMAIN tasks /\ tasks'[i] = tasks[i + o]
        BY <3>2, <1>u
      <4>2. j - m \in DOMAIN Kept(p0) /\ tasks'[j].handler = Kept(p0)[j - m]
        BY <3>2, <1>v DEF kept
      <4>3. tasks[i + o].handler # Kept(p0)[j - m]
        BY <4>1, <4>2, <1>y
      <4> QED
        BY <2>2, <4>1, <4>2, <4>3
    <3>3. CASE i > m
      <4>1. i - m \in DOMAIN kept /\ j - m \in DOMAIN kept /\ i - m < j - m
        BY <2>2, <3>3, <1>t, <1>m, <1>k
      <4>2. kept[i - m] < kept[j - m]
        BY <4>1, <1>q DEF InOrder, kept
      <4>3. kept[i - m] = kept[j - m] /\ kept[i - m] \in Nat
        <5>1. tasks'[i].handler = kept[i - m]
          BY <3>3, <1>v
        <5>2. j > m
          BY <2>2, <3>3, <1>m, <1>k
        <5>3. tasks'[j].handler = kept[j - m]
          BY <5>2, <1>v
        <5> QED
          BY <2>2, <4>1, <5>1, <5>3, <1>k
      <4> QED
        BY <4>2, <4>3
    <3> QED
      BY <2>2, <3>1, <3>2, <3>3, <1>m, <1>k
  <2> QED
    BY <2>1, <2>2, <1>m, <1>k DEF TasksAgree
<1>3. KeptAgree'
  <2>1. ASSUME NEW r \in Promises, NEW i \in DOMAIN Kept(r)'
        PROVE  /\ Waits(Kept(r)[i])' /\ (parent[Kept(r)[i]] = r)' /\ Pending(r)'
               /\ \A j \in DOMAIN tasks' : tasks'[j].handler # Kept(r)'[i]
    <3>1. r # p0 /\ Kept(r)' = Kept(r)
      BY <1>s
    <3>2. ASSUME NEW j \in DOMAIN tasks', tasks'[j].handler = Kept(r)[i] PROVE FALSE
      BY <3>1, <3>2, <1>t, <1>y DEF kept
    <3> QED
      BY <3>1, <3>2, <1>y, <1>w, <1>s, <1>a
  <2> QED
    BY <2>1 DEF KeptAgree
<1>4. RanAgree'
  <2>1. ASSUME NEW i \in DOMAIN ran
        PROVE  /\ ran[i][1] \in Handlers /\ ran[i][1] # p0 /\ parent[ran[i][1]] \in Promises
               /\ ~Pending(ran[i][1])' /\ ~Pending(parent[ran[i][1]])
    <3>1. /\ ran[i][1] \in Handlers /\ ran[i][1] \in Promises
          /\ ~Pending(ran[i][1]) /\ parent[ran[i][1]] # NoParent /\ ~Pending(parent[ran[i][1]])
      BY <1>q, PlaceTypes DEF RanAgree
    <3>2. ran'[i] = ran[i]
      BY <1>l
    <3> QED
      BY <3>1, <3>2, <1>a, <1>p
  <2>2. o = 1 => p0 \in Handlers /\ parent[p0] \in Promises /\ ~Pending(parent[p0])
    BY <1>c, <1>q, <1>a DEF TasksAgree, Waits
  <2>3. ASSUME NEW i \in DOMAIN ran'
        PROVE  /\ parent'[ran'[i][1]] # NoParent
               /\ ~Pending(ran[i][1])' /\ ~Pending(parent[ran[i][1]])'
    <3>1. CASE i \in DOMAIN ran
      BY <3>1, <2>1, <1>l, <1>a, <1>p
    <3>2. CASE o = 1 /\ ran'[i][1] = p0
      BY <3>2, <2>2, <1>a, <1>p, <1>s
    <3> QED
      BY <3>1, <3>2, <1>l
  <2>4. ASSUME NEW i \in DOMAIN ran', NEW j \in DOMAIN ran', ran'[i][1] = ran'[j][1]
        PROVE  i = j
    BY <2>1, <2>4, <1>l, <1>q DEF RanAgree
  <2>5. ASSUME NEW g \in Handlers, ~Pending(g)' PROVE \E i \in DOMAIN ran' : ran'[i][1] = g
    <3>1. CASE g = p0
      BY <3>1, <1>c, <1>l
    <3>2. CASE g # p0
      BY <2>5, <3>2, <1>s, <1>l, <1>q DEF RanAgree
    <3> QED
      BY <3>1, <3>2
  <2> QED
    BY <2>3, <2>4, <2>5 DEF RanAgree
<1>5. ParentsAgree'
  <2>1. ASSUME NEW g \in Registered PROVE Somewhere(g)'
    <3>1. Somewhere(g) /\ g \in Handlers /\ parent[g] \in Promises
      BY <1>q DEF ParentsAgree, Registered, QTypeOK
    <3>2. ASSUME NEW i \in DOMAIN tasks, tasks[i].handler = g PROVE Somewhere(g)'
      <4>1. CASE i # o
        BY <3>2, <4>1, <1>o DEF Somewhere
      <4>2. CASE i = o
        <5>1. g = p0 /\ o = 1
          BY <3>2, <4>2, <1>c, <1>m
        <5> QED
          BY <5>1, <1>l DEF Somewhere
      <4> QED
        BY <4>1, <4>2
    <3>3. ASSUME NEW i \in DOMAIN Kept(parent[g]), Kept(parent[g])[i] = g PROVE Somewhere(g)'
      <4>1. CASE parent[g] = p0
        BY <3>3, <4>1, <1>n DEF Somewhere, kept
      <4>2. CASE parent[g] # p0
        BY <3>1, <3>3, <4>2, <1>s, <1>a DEF Somewhere
      <4> QED
        BY <4>1, <4>2
    <3>4. ASSUME NEW i \in DOMAIN ran, ran[i][1] = g PROVE Somewhere(g)'
      BY <3>4, <1>l DEF Somewhere
    <3> QED
      BY <3>1, <3>2, <3>3, <3>4 DEF Somewhere
  <2> QED
    BY <2>1, <1>q, <1>a DEF ParentsAgree, Registered
<1>6. InOrder'
  <2>1. ASSUME NEW i \in DOMAIN ran
        PROVE  ran[i][1] \in Handlers /\ ran'[i] = ran[i] /\ parent[ran[i][1]] # p0
    BY <1>q, <1>l, <1>a, PlaceTypes DEF RanAgree
  <2>2. ASSUME NEW i \in DOMAIN ran', NEW j \in DOMAIN ran', i < j, Siblings(ran[i][1], ran[j][1])'
        PROVE  ran'[i][1] < ran'[j][1]
    <3>0. i \in DOMAIN ran
      BY <2>2, <1>l
    <3>1. CASE j \in DOMAIN ran
      BY <2>1, <2>2, <3>0, <3>1, <1>q, <1>a DEF InOrder, Siblings
    <3>2. CASE o = 1 /\ ran'[j][1] = p0
      <4>1. Siblings(ran[i][1], tasks[1].handler)
        BY <2>1, <2>2, <3>0, <3>2, <1>a, <1>c DEF Siblings
      <4> QED
        BY <2>1, <3>0, <3>2, <4>1, <1>c, <1>q DEF InOrder
    <3> QED
      BY <3>1, <3>2, <1>l
  <2>3. ASSUME NEW i \in DOMAIN ran', NEW j \in DOMAIN tasks', Siblings(ran[i][1], tasks[j].handler)'
        PROVE  ran'[i][1] < tasks'[j].handler
    <3>0. parent[ran'[i][1]] = parent[tasks'[j].handler]
      BY <2>3, <1>a DEF Siblings
    <3>1. parent[ran'[i][1]] # p0
      BY <2>1, <1>l, <1>c, <1>q DEF ParentsAgree
    <3>2. j <= m /\ j + o \in DOMAIN tasks /\ j + o # o /\ tasks'[j] = tasks[j + o]
      BY <3>0, <3>1, <1>t, <1>y DEF kept
    <3>3. CASE i \in DOMAIN ran
      BY <2>1, <3>0, <3>2, <3>3, <1>q DEF InOrder, Siblings
    <3>4. CASE o = 1 /\ ran'[i][1] = p0
      <4>1. Siblings(tasks[1].handler, tasks[j + o].handler)
        BY <3>0, <3>2, <3>4, <1>c DEF Siblings
      <4>2. tasks[j + o].kind \in {"run", "dispatch"}
        BY <3>2, PlaceTypes DEF Tasks
      <4>3. Ahead(1, j + o)
        BY <3>2, <3>4, <4>2, <1>c, <1>m, <1>k DEF Ahead
      <4> QED
        BY <3>2, <3>4, <4>1, <4>3, <1>c, <1>q DEF InOrder
    <3> QED
      BY <3>3, <3>4, <1>l
  <2>4. ASSUME NEW i \in DOMAIN tasks', NEW j \in DOMAIN tasks',
               Siblings(tasks[i].handler, tasks[j].handler)', Ahead(i, j)'
        PROVE  tasks'[i].handler < tasks'[j].handler
    <3>0. parent[tasks'[i].handler] = parent[tasks'[j].handler]
      BY <2>4, <1>a DEF Siblings
    <3>1. CASE i <= m /\ j <= m
      <4>1. /\ i + o \in DOMAIN tasks /\ tasks'[i] = tasks[i + o]
            /\ j + o \in DOMAIN tasks /\ tasks'[j] = tasks[j + o]
        BY <3>1, <1>u
      <4>2. Ahead(i + o, j + o)
        BY <2>4, <4>1, <1>m, <1>k DEF Ahead
      <4> QED
        BY <3>0, <4>1, <4>2, <1>q DEF InOrder, Siblings
    <3>2. CASE i <= m /\ j > m
      <4>1. parent[tasks'[j].handler] = p0 /\ tasks'[j].kind = "run"
        BY <3>2, <1>v, <1>y DEF kept
      <4>2. i + o \in DOMAIN tasks /\ tasks'[i] = tasks[i + o]
        BY <3>2, <1>u
      <4>3. tasks[i + o].kind # "run"
        BY <3>0, <4>1, <4>2, <1>q, <1>a DEF TasksAgree
      <4> QED
        BY <2>4, <4>1, <4>2, <4>3 DEF Ahead
    <3>3. CASE i > m /\ j <= m
      <4>1. /\ j + o \in DOMAIN tasks /\ tasks'[j] = tasks[j + o]
            /\ i - m \in DOMAIN kept /\ tasks'[i].handler = kept[i - m]
            /\ parent[tasks'[i].handler] = p0
        BY <3>3, <1>u, <1>v, <1>y DEF kept
      <4> QED
        BY <3>0, <4>1, <1>q DEF InOrder, kept
    <3>4. CASE i > m /\ j > m
      <4>1. /\ i - m \in DOMAIN kept /\ tasks'[i].handler = kept[i - m] /\ tasks'[i].kind = "run"
            /\ j - m \in DOMAIN kept /\ tasks'[j].handler = kept[j - m] /\ tasks'[j].kind = "run"
        BY <3>4, <1>v
      <4>2. i - m < j - m
        BY <2>4, <4>1, <1>m, <1>k DEF Ahead
      <4> QED
        BY <4>1, <4>2, <1>q DEF InOrder, kept
    <3> QED
      BY <3>1, <3>2, <3>3, <3>4, <1>m, <1>k
  <2>5. ASSUME NEW r \in Promises, NEW i \in DOMAIN Kept(r)', NEW j \in DOMAIN Kept(r)', i < j
        PROVE  Kept(r)'[i] < Kept(r)'[j]
    <3>1. Kept(r)' = Kept(r)
      BY <2>5, <1>s
    <3> QED
      BY <2>5, <3>1, <1>q DEF InOrder
  <2>6. ASSUME NEW r \in Promises, NEW i \in DOMAIN Kept(r)', NEW j \in DOMAIN tasks',
               parent[tasks'[j].handler] = r
        PROVE  Kept(r)'[i] < tasks'[j].handler
    <3>1. r # p0 /\ Kept(r)' = Kept(r)
      BY <2>6, <1>s
    <3>2. j + o \in DOMAIN tasks /\ tasks'[j] = tasks[j + o]
      BY <2>6, <3>1, <1>t, <1>y DEF kept
    <3> QED
      BY <2>6, <3>1, <3>2, <1>q DEF InOrder
  <2> QED
    BY <2>2, <2>3, <2>4, <2>5, <2>6, <1>a DEF InOrder
<1>7. RejectionsTracked'
  <2>1. ASSUME NEW r \in Promises, r # p0
        PROVE  promise'[r].state = promise[r].state
    BY <2>1, <1>s
  <2>2. promise[p0].state # "rejected" /\ promise'[p0].state = state
    BY <1>a, <1>s DEF Pending
  <2>3. \A i \in DOMAIN ran : ran[i][1] \in Handlers /\ parent[ran[i][1]] # p0
    BY <1>q, <1>a, PlaceTypes DEF RanAgree
  <2>4. CASE o = 0
    <3>1. ran' = ran /\ unhandled' = IF state = "rejected" THEN unhandled \cup {p0} ELSE unhandled
      BY <2>4 DEF Settles
    <3> QED
      BY <2>1, <2>2, <2>3, <3>1, <1>q, <1>a DEF RejectionsTracked
  <2>5. CASE o = 1
    <3>1. unhandled' = IF state = "rejected" THEN (unhandled \ {parent[p0]}) \cup {p0}
                       ELSE unhandled \ {parent[p0]}
      BY <2>5 DEF Settles
    <3>2. parent[p0] # p0
      BY <2>5, <1>c, <1>q DEF ParentsAgree
    <3>3. \A r : (\A i \in DOMAIN ran' : parent[ran'[i][1]] # r)
                <=> (\A i \in DOMAIN ran : parent[ran[i][1]] # r) /\ parent[p0] # r
      BY <2>5, <1>l
    <3>4. \A r : r \in unhandled' <=> (r \in unhandled /\ r # parent[p0]) \/ (state = "rejected" /\ r = p0)
      BY <3>1
    <3>5. \A r \in Promises : (promise'[r].state = "rejected" /\ \A i \in DOMAIN ran' : parent'[ran'[i][1]] # r)
                             <=> r \in unhandled'
      <4> SUFFICES ASSUME NEW r \in Promises
                   PROVE  (promise'[r].state = "rejected" /\ \A i \in DOMAIN ran' : parent[ran'[i][1]] # r)
                             <=> r \in unhandled'
        BY <1>a
      <4>1. r \in unhandled <=> promise[r].state = "rejected" /\ \A i \in DOMAIN ran : parent[ran[i][1]] # r
        BY <1>q DEF RejectionsTracked
      <4>2. CASE r = p0
        BY <2>2, <2>3, <3>2, <3>3, <3>4, <4>1, <4>2
      <4>3. CASE r # p0
        BY <2>1, <3>3, <3>4, <4>1, <4>3
      <4> QED
        BY <4>2, <4>3
    <3>6. unhandled' \subseteq Promises
      <4>1. unhandled \subseteq Promises
        BY <1>q DEF QTypeOK
      <4>2. ASSUME NEW r \in unhandled' PROVE r \in Promises
        BY <3>4, <4>1, <4>2
      <4> QED
        BY <4>2
    <3> QED
      BY <3>5, <3>6 DEF RejectionsTracked
  <2> QED
    BY <2>4, <2>5
<1> QED
  BY <1>1, <1>2, <1>3, <1>4, <1>5, <1>6, <1>7 DEF QInv, PlacesAgree

\* A handler of a settled promise goes to the end of the queue.
LEMMA PassStep ==
  ASSUME QInv, NEW h, NEW p, Dispatch, h = Head(tasks).handler, p = parent[h], ~Pending(p)
  PROVE  QInv'
<1> USE RootType
<1>q. QTypeOK /\ TasksAgree /\ KeptAgree /\ RanAgree /\ ParentsAgree /\ InOrder /\ RejectionsTracked
  BY DEF QInv, PlacesAgree
<1> DEFINE n == Len(tasks)
<1>h. /\ n \in Nat \ {0} /\ DOMAIN tasks = 1 .. n
      /\ tasks[1].handler = h /\ tasks[1].kind = "dispatch" /\ h \in Handlers /\ p \in Promises
      /\ tasks' \in Seq(Tasks) /\ DOMAIN tasks' = 1 .. n
      /\ tasks'[n].handler = h /\ tasks'[n].kind = "run"
      /\ \A i \in 1 .. n - 1 : tasks'[i] = tasks[i + 1]
  <2>1. tasks # <<>> /\ Head(tasks).kind = "dispatch" /\ tasks' = Append(Tail(tasks), Task("run", h))
    BY DEF Dispatch, Pending
  <2>2. /\ Tail(tasks) \in Seq(Tasks) /\ Len(Tail(tasks)) = n - 1
        /\ n \in Nat \ {0} /\ DOMAIN tasks = 1 .. n
        /\ \A i \in 1 .. n - 1 : Tail(tasks)[i] = tasks[i + 1]
        /\ tasks[1] = Task("dispatch", h) /\ h \in Handlers /\ p \in Promises
    BY <2>1, HeadOfQueue
  <2>3. Task("run", h) \in Tasks
    BY <2>2 DEF Task, Tasks
  <2> HIDE DEF n
  <2>4. /\ tasks' \in Seq(Tasks) /\ DOMAIN tasks' = 1 .. n /\ tasks'[n] = Task("run", h)
        /\ \A i \in 1 .. n - 1 : tasks'[i] = Tail(tasks)[i]
    BY <2>1, <2>2, <2>3
  <2> QED
    BY <2>2, <2>4 DEF Task
<1> HIDE DEF n
<1>p. /\ promise' = promise /\ parent' = parent /\ ran' = ran /\ unhandled' = unhandled /\ flushing' = flushing
  BY DEF Dispatch, Pending
<1>s. /\ \A r : Kept(r)' = Kept(r) /\ Pending(r)' = Pending(r) /\ Waits(r)' = Waits(r)
  BY <1>p DEF Kept, Pending, Waits
<1>i. ASSUME NEW i \in DOMAIN tasks'
      PROVE  \/ i \in 1 .. n - 1 /\ i + 1 \in DOMAIN tasks /\ tasks'[i] = tasks[i + 1]
             \/ i = n
  BY <1>h
<1>1. QTypeOK'
  BY <1>q, <1>h, <1>p DEF QTypeOK
<1>2. TasksAgree'
  <2>1. ASSUME NEW i \in DOMAIN tasks'
        PROVE  /\ Waits(tasks'[i].handler)
               /\ tasks'[i].kind = "run" => ~Pending(parent[tasks'[i].handler])
    <3>1. CASE i + 1 \in DOMAIN tasks /\ tasks'[i] = tasks[i + 1]
      BY <3>1, <1>q DEF TasksAgree
    <3>2. CASE i = n
      <4>1. Waits(tasks[1].handler)
        BY <1>q, <1>h DEF TasksAgree
      <4> QED
        BY <3>2, <4>1, <1>h
    <3> QED
      BY <3>1, <3>2, <1>i
  <2>2. ASSUME NEW i \in DOMAIN tasks', NEW j \in DOMAIN tasks', tasks'[i].handler = tasks'[j].handler, i < j
        PROVE  FALSE
    <3>1. i \in 1 .. n - 1 /\ i + 1 \in DOMAIN tasks /\ tasks'[i] = tasks[i + 1]
      BY <2>2, <1>h, <1>i
    <3>2. CASE j = n
      <4>1. tasks[i + 1].handler = tasks[1].handler /\ 1 \in DOMAIN tasks
        BY <2>2, <3>1, <3>2, <1>h
      <4>2. i + 1 = 1
        BY <3>1, <4>1, <1>q DEF TasksAgree
      <4> QED
        BY <3>1, <4>2
    <3>3. CASE j \in 1 .. n - 1 /\ j + 1 \in DOMAIN tasks /\ tasks'[j] = tasks[j + 1]
      <4>1. i + 1 = j + 1
        BY <2>2, <3>1, <3>3, <1>q DEF TasksAgree
      <4> QED
        BY <2>2, <3>1, <3>3, <4>1
    <3> QED
      BY <3>2, <3>3, <1>i
  <2> QED
    BY <2>1, <2>2, <1>h, <1>p, <1>s DEF TasksAgree
<1>3. KeptAgree'
  <2>1. ASSUME NEW r \in Promises, NEW i \in DOMAIN Kept(r), NEW j \in DOMAIN tasks'
        PROVE  tasks'[j].handler # Kept(r)[i]
    <3>1. \A k \in DOMAIN tasks : tasks[k].handler # Kept(r)[i]
      BY <1>q DEF KeptAgree
    <3> QED
      BY <3>1, <1>h, <1>i
  <2> QED
    BY <2>1, <1>q, <1>p, <1>s DEF KeptAgree
<1>4. RanAgree'
  BY <1>q, <1>p, <1>s DEF RanAgree
<1>5. ParentsAgree'
  <2>1. ASSUME NEW g \in Registered PROVE Somewhere(g)'
    <3>1. ASSUME NEW i \in DOMAIN tasks, tasks[i].handler = g PROVE Somewhere(g)'
      <4>1. CASE i = 1
        BY <3>1, <4>1, <1>h DEF Somewhere
      <4>2. CASE i # 1
        <5>1. i - 1 \in 1 .. n - 1 /\ (i - 1) + 1 = i
          BY <4>2, <1>h
        <5>2. tasks'[i - 1] = tasks[i] /\ i - 1 \in DOMAIN tasks'
          BY <5>1, <1>h
        <5> QED
          BY <3>1, <5>2 DEF Somewhere
      <4> QED
        BY <4>1, <4>2
    <3>2. Somewhere(g)
      BY <1>q DEF ParentsAgree
    <3> QED
      BY <3>1, <3>2, <1>p, <1>s DEF Somewhere
  <2> QED
    BY <2>1, <1>q, <1>p DEF ParentsAgree, Registered
<1>6. InOrder'
  <2>1. ASSUME NEW i \in DOMAIN ran, NEW j \in DOMAIN tasks', Siblings(ran[i][1], tasks'[j].handler)
        PROVE  ran[i][1] < tasks'[j].handler
    <3>1. \A k \in DOMAIN tasks : Siblings(ran[i][1], tasks[k].handler) => ran[i][1] < tasks[k].handler
      BY <1>q DEF InOrder
    <3>2. CASE j = n
      <4>1. 1 \in DOMAIN tasks /\ tasks'[j].handler = tasks[1].handler
        BY <3>2, <1>h
      <4> QED
        BY <2>1, <3>1, <4>1
    <3>3. CASE j + 1 \in DOMAIN tasks /\ tasks'[j] = tasks[j + 1]
      BY <2>1, <3>1, <3>3
    <3> QED
      BY <3>2, <3>3, <1>i
  <2>2. ASSUME NEW i \in DOMAIN tasks', NEW j \in DOMAIN tasks',
               Siblings(tasks'[i].handler, tasks'[j].handler), Ahead(i, j)'
        PROVE  tasks'[i].handler < tasks'[j].handler
    <3>0. \A k, l \in DOMAIN tasks :
            Siblings(tasks[k].handler, tasks[l].handler) /\ Ahead(k, l) => tasks[k].handler < tasks[l].handler
      BY <1>q DEF InOrder
    <3>1. CASE i # n /\ j # n
      <4>1. /\ i + 1 \in DOMAIN tasks /\ tasks'[i] = tasks[i + 1] /\ i \in Nat
            /\ j + 1 \in DOMAIN tasks /\ tasks'[j] = tasks[j + 1] /\ j \in Nat
        BY <3>1, <1>i
      <4>2. Ahead(i + 1, j + 1)
        BY <2>2, <4>1 DEF Ahead
      <4> QED
        BY <2>2, <3>0, <4>1, <4>2
    <3>2. CASE i # n /\ j = n
      <4>1. /\ i + 1 \in DOMAIN tasks /\ tasks'[i] = tasks[i + 1] /\ 1 \in DOMAIN tasks
        BY <3>2, <1>h, <1>i
      <4>2. tasks'[i].kind = "run"
        BY <2>2, <3>2, <1>h DEF Ahead
      <4>3. Ahead(i + 1, 1)
        BY <4>1, <4>2, <1>h DEF Ahead
      <4>4. tasks'[j].handler = tasks[1].handler
        BY <3>2, <1>h
      <4> QED
        BY <2>2, <3>0, <4>1, <4>3, <4>4
    <3>3. CASE i = n /\ j # n
      <4>1. /\ j + 1 \in DOMAIN tasks /\ tasks'[j] = tasks[j + 1] /\ 1 \in DOMAIN tasks /\ j \in 1 .. n - 1
        BY <3>3, <1>h, <1>i
      <4>2. tasks'[j].kind = "dispatch"
        BY <2>2, <3>3, <4>1, <1>h DEF Ahead
      <4>3. Ahead(1, j + 1)
        BY <4>1, <4>2, <1>h DEF Ahead
      <4>4. tasks'[i].handler = tasks[1].handler
        BY <3>3, <1>h
      <4> QED
        BY <2>2, <3>0, <4>1, <4>3, <4>4
    <3>4. ~(i = n /\ j = n)
      BY <2>2, <1>h DEF Ahead
    <3> QED
      BY <3>1, <3>2, <3>3, <3>4
  <2>3. ASSUME NEW r \in Promises, NEW i \in DOMAIN Kept(r), NEW j \in DOMAIN tasks',
               parent[tasks'[j].handler] = r
        PROVE  Kept(r)[i] < tasks'[j].handler
    <3>1. \A k \in DOMAIN tasks : parent[tasks[k].handler] = r => Kept(r)[i] < tasks[k].handler
      BY <1>q DEF InOrder
    <3> QED
      BY <2>3, <3>1, <1>h, <1>i
  <2>4. \A g, k : Siblings(g, k)' = Siblings(g, k)
    BY <1>p DEF Siblings
  <2> QED
    BY <2>1, <2>2, <2>3, <2>4, <1>q, <1>p, <1>s DEF InOrder, Siblings
<1>7. RejectionsTracked'
  BY <1>q, <1>p DEF RejectionsTracked
<1> QED
  BY <1>1, <1>2, <1>3, <1>4, <1>5, <1>6, <1>7 DEF QInv, PlacesAgree

\* The client resolves or rejects its promise.
LEMMA SettleStep ==
  ASSUME QInv, NEW state \in Settled, Settle(Root, state)
  PROVE  QInv'
<1>1. CASE promise[Root].state = "pending"
  <2>1. Become(Root, state, tasks, unhandled) /\ UNCHANGED <<flushing, parent, ran>>
    BY <1>1 DEF Settle
  <2>2. tasks \in Seq(Tasks) /\ Kept(Root) \in Seq(Handlers) /\ Root \in Promises
    BY PlaceTypes, RootType DEF QInv, QTypeOK
  <2>3. tasks' = tasks \o [i \in DOMAIN Kept(Root) |-> Task("run", Kept(Root)[i])]
    BY <2>1 DEF Become, Kept
  <2>4. /\ tasks' \in Seq(Tasks) /\ Len(tasks') = Len(tasks) + Len(Kept(Root))
        /\ \A i \in 1 .. Len(tasks) : tasks'[i] = tasks[i]
        /\ \A i \in 1 .. Len(Kept(Root)) : tasks'[Len(tasks) + i] = Task("run", Kept(Root)[i])
    BY <2>2, <2>3, Handed
  <2>5. Len(tasks) \in Nat
    BY <2>2
  <2>6. Settles(Root, state, 0)
    <3>1. /\ promise' = [promise EXCEPT ![Root] = [state |-> state, messages |-> <<>>]]
          /\ unhandled' = IF state = "rejected" THEN unhandled \cup {Root} ELSE unhandled
      BY <2>1 DEF Become
    <3>2. Len(tasks) - 0 = Len(tasks) /\ \A i : i \in 1 .. Len(tasks) => i + 0 = i
      BY <2>5
    <3>3. /\ Len(tasks') = Len(tasks) - 0 + Len(Kept(Root))
          /\ \A i \in 1 .. Len(tasks) - 0 : tasks'[i] = tasks[i + 0]
          /\ \A i \in 1 .. Len(Kept(Root)) : tasks'[Len(tasks) - 0 + i] = Task("run", Kept(Root)[i])
      BY <2>4, <3>2
    <3> QED
      BY <1>1, <2>1, <2>4, <3>1, <3>3 DEF Settles, Pending
  <2> QED
    BY <2>2, <2>6, SettlesStep
<1>2. CASE promise[Root].state # "pending"
  BY <1>2, FlushingStep DEF Settle, qvars, QInv, QTypeOK
<1> QED
  BY <1>1, <1>2

LEMMA RunStep ==
  ASSUME QInv, NEW called \in BOOLEAN, NEW result \in Settled, Run(called, result)
  PROVE  QInv'
<1> DEFINE h == Head(tasks).handler
           q == Tail(tasks)
<1>1. /\ tasks # <<>> /\ Head(tasks).kind = "run" /\ Become(h, result, q, unhandled \ {parent[h]})
      /\ ran' = Append(ran, <<h, IF called THEN promise[parent[h]].state ELSE "passed">>)
      /\ UNCHANGED <<flushing, parent>>
  BY DEF Run
<1>2. /\ Len(tasks) \in Nat \ {0} /\ tasks[1] = Task("run", h) /\ h \in Handlers
      /\ q \in Seq(Tasks) /\ Len(q) = Len(tasks) - 1 /\ 1 \in DOMAIN tasks
      /\ \A i \in 1 .. Len(tasks) - 1 : q[i] = tasks[i + 1]
      /\ parent[h] \in Promises
  BY <1>1, HeadOfQueue
<1>3. h \in Promises /\ Kept(h) \in Seq(Handlers)
  BY <1>2, RootType, PlaceTypes
<1>4. Pending(h) /\ ~Pending(parent[h])
  BY <1>2 DEF QInv, PlacesAgree, TasksAgree, Waits, Task
<1>5. promise[parent[h]].state \in Settled
  BY <1>2, <1>4, PlaceTypes DEF Pending
<1> HIDE DEF h, q
<1>6. tasks' = q \o [i \in DOMAIN Kept(h) |-> Task("run", Kept(h)[i])]
  BY <1>1 DEF Become, Kept
<1>7. /\ tasks' \in Seq(Tasks) /\ Len(tasks') = Len(q) + Len(Kept(h))
      /\ \A i \in 1 .. Len(q) : tasks'[i] = q[i]
      /\ \A i \in 1 .. Len(Kept(h)) : tasks'[Len(q) + i] = Task("run", Kept(h)[i])
  <2> DEFINE kept == Kept(h)
             t == tasks'
  <2>1. q \in Seq(Tasks) /\ kept \in Seq(Handlers) /\ t = q \o [i \in DOMAIN kept |-> Task("run", kept[i])]
    BY <1>2, <1>3, <1>6
  <2> HIDE DEF kept, t
  <2>2. /\ t \in Seq(Tasks) /\ Len(t) = Len(q) + Len(kept)
        /\ \A i \in 1 .. Len(q) : t[i] = q[i]
        /\ \A i \in 1 .. Len(kept) : t[Len(q) + i] = Task("run", kept[i])
    BY <2>1, Handed
  <2> QED
    BY <2>2 DEF kept, t
<1>8. \E how \in Settled \cup {"passed"} : ran' = Append(ran, <<h, how>>)
  BY <1>1, <1>5
<1>9. Settles(h, result, 1)
  <2>1. /\ promise' = [promise EXCEPT ![h] = [state |-> result, messages |-> <<>>]]
        /\ unhandled' = IF result = "rejected" THEN (unhandled \ {parent[h]}) \cup {h}
                        ELSE unhandled \ {parent[h]}
    BY <1>1 DEF Become
  <2>2. \A i \in 1 .. Len(tasks) - 1 : tasks'[i] = tasks[i + 1]
    BY <1>2, <1>7
  <2>3. \A i \in 1 .. Len(Kept(h)) : tasks'[Len(tasks) - 1 + i] = Task("run", Kept(h)[i])
    BY <1>2, <1>7
  <2> QED
    BY <2>1, <2>2, <2>3, <1>1, <1>2, <1>4, <1>7, <1>8 DEF Settles
<1> QED
  BY <1>3, <1>9, SettlesStep

LEMMA FlushStep ==
  ASSUME QInv, QStep
  PROVE  QInv'
<1>1. CASE Tick \/ Idle
  BY <1>1, FlushingStep DEF Tick, Idle
<1>2. CASE Dispatch
  BY <1>2, KeepStep, PassStep
<1>3. ASSUME NEW called \in BOOLEAN, NEW result \in {"fulfilled", "rejected"}, Run(called, result)
      PROVE  QInv'
  BY <1>3, RunStep DEF Settled
<1> QED
  BY <1>1, <1>2, <1>3 DEF QStep

LEMMA OrderFollows ==
  ASSUME QInv
  PROVE  /\ \A i, j \in DOMAIN ran : i < j /\ parent[ran[i][1]] = parent[ran[j][1]] =>
                 ran[i][1] < ran[j][1]
         /\ tasks = <<>> =>
              unhandled = {p \in Promises : promise[p].state = "rejected"
                                            /\ \A h \in Handlers : parent[h] # p}
<1>1. \A i, j \in DOMAIN ran : i < j /\ parent[ran[i][1]] = parent[ran[j][1]] => ran[i][1] < ran[j][1]
  BY DEF QInv, InOrder, Siblings
<1>2. ASSUME tasks = <<>>, NEW p \in Promises, promise[p].state = "rejected"
      PROVE  (\A i \in DOMAIN ran : parent[ran[i][1]] # p) <=> \A h \in Handlers : parent[h] # p
  <2>1. ASSUME NEW h \in Handlers, parent[h] = p PROVE \E i \in DOMAIN ran : ran[i][1] = h
    <3>1. Somewhere(h)
      BY <2>1, RootType DEF QInv, PlacesAgree, ParentsAgree, Registered
    <3>2. ~\E i \in DOMAIN Kept(p) : TRUE
      BY <1>2 DEF QInv, PlacesAgree, KeptAgree, Pending
    <3> QED
      BY <1>2, <2>1, <3>1, <3>2 DEF Somewhere
  <2> QED
    BY <2>1, PlaceTypes
<1> QED
  BY <1>1, <1>2 DEF QInv, RejectionsTracked

-----------------------------------------------------------------------------
(***************************************************************************)
(* Recursive functions over the first natural numbers: there is one, and   *)
(* what fails for one of its values fails for a first one.                 *)
(***************************************************************************)
LEMMA SmallestSubset ==
  ASSUME NEW S, IsFiniteSet(S), NEW B, B \in SUBSET SUBSET S, B # {}
  PROVE  \E T \in B : \A U \in B : U \subseteq T => U = T
<1>1. IsWellFoundedOn(StrictSubsetOrdering(S), SUBSET S)
  BY FS_StrictSubsetOrderingWellFounded, FS_FiniteSubsetsOfFinite
<1>2. PICK T \in B : \A U \in B : ~(<<U, T>> \in StrictSubsetOrdering(S))
  BY <1>1, WFMin
<1> QED
  BY <1>2 DEF StrictSubsetOrdering

LEMMA LeastNat ==
  ASSUME NEW B, B \in SUBSET Nat, B # {}
  PROVE  \E k \in B : \A i \in B : k <= i
<1>1. PICK n \in B : n \in Nat
  OBVIOUS
<1> DEFINE S == 0 .. n
           C == {T \in SUBSET S : \E k \in B : T = 0 .. k}
<1>2. S \in C /\ C \in SUBSET SUBSET S
  OBVIOUS
<1>3. PICK T \in C : \A U \in C : U \subseteq T => U = T
  <2>1. IsFiniteSet(S)
    BY <1>1, FS_Interval
  <2> HIDE DEF S, C
  <2> QED
    BY <1>2, <2>1, SmallestSubset
<1>4. PICK k \in B : T = 0 .. k
  OBVIOUS
<1>5. ASSUME NEW i \in B, ~(k <= i) PROVE FALSE
  <2>1. i \in Nat /\ k \in Nat /\ i < k
    BY <1>5
  <2>2. 0 .. i \subseteq 0 .. k /\ k \in 0 .. k /\ k \notin 0 .. i
    BY <2>1
  <2>3. 0 .. i \in C
    BY <1>4, <2>2
  <2> QED
    BY <1>3, <1>4, <2>2, <2>3
<1> QED
  BY <1>5

Step(kind, a, acc, i) ==
    IF kind = "local" THEN LocalRound(acc)
    ELSE IF kind = "declare"
    THEN AddOperation(acc, Converted(a.decl.operations[i], a.decl, a.d, acc))
    ELSE IF kind = "table" THEN With(acc, <<a[i].path, a[i].method>>, a[i])
    ELSE IF kind = "describe"
    THEN LET at == <<a.paths[1 + (i - 1) \div 7], Methods[1 + ((i - 1) % 7)]>>
         IN  IF at \in DOMAIN a.table THEN Append(acc, a.table[at]) ELSE acc
    ELSE IF kind = "tag" THEN AddToGroup(acc, a.i, a.operations[a.i].tags[i], a.operations)
    ELSE IF kind = "level"
    THEN {Target(r) : r \in UNION {a[t[1]][t[2]] :
              t \in {u \in acc : u[1] \in DOMAIN a /\ u[2] \in DOMAIN a[u[1]]}}}
    ELSE AddOperationToGroups(acc, i, a)
IsChain(kind, a, base, n, f) ==
    f = [i \in 0 .. n |-> IF i = 0 THEN base ELSE Step(kind, a, f[i - 1], i)]

LEMMA ChainExists ==
  ASSUME NEW kind, NEW a, NEW base, NEW n \in Nat
  PROVE  \E f : IsChain(kind, a, base, n, f)
<1> DEFINE B == {m \in Nat : ~\E f : IsChain(kind, a, base, m, f)}
<1> SUFFICES ASSUME B # {} PROVE FALSE
  OBVIOUS
<1>1. PICK m \in B : \A i \in B : m <= i
  <2>1. B \in SUBSET Nat
    OBVIOUS
  <2> HIDE DEF B
  <2> QED
    BY <2>1, LeastNat
<1>2. CASE m = 0
  <2>1. IsChain(kind, a, base, 0, [i \in 0 .. 0 |-> base])
    BY DEF IsChain
  <2> QED
    BY <1>1, <1>2, <2>1
<1>3. CASE m # 0
  <2>1. m - 1 \in Nat /\ m - 1 \notin B
    BY <1>1, <1>3
  <2>2. PICK f : IsChain(kind, a, base, m - 1, f)
    BY <2>1
  <2> DEFINE g == [i \in 0 .. m |-> IF i = m THEN Step(kind, a, f[m - 1], m) ELSE f[i]]
  <2>3. ASSUME NEW i \in 0 .. m
        PROVE  g[i] = IF i = 0 THEN base ELSE Step(kind, a, g[i - 1], i)
    <3>1. CASE i = m
      BY <1>3, <2>1, <3>1
    <3>2. CASE i # m
      <4>1. i \in 0 .. m - 1 /\ (i # 0 => i - 1 \in 0 .. m - 1 /\ i - 1 \in 0 .. m /\ i - 1 # m)
        BY <2>1, <3>2
      <4>2. f[i] = IF i = 0 THEN base ELSE Step(kind, a, f[i - 1], i)
        BY <2>2, <4>1 DEF IsChain
      <4>3. g[i] = f[i] /\ (i # 0 => g[i - 1] = f[i - 1])
        BY <3>2, <4>1
      <4> QED
        BY <4>2, <4>3
    <3> QED
      BY <3>1, <3>2
  <2>4. IsChain(kind, a, base, m, g)
    <3>1. g = [i \in 0 .. m |-> g[i]]
      OBVIOUS
    <3> HIDE DEF g
    <3> QED
      BY <2>3, <3>1 DEF IsChain
  <2> QED
    BY <1>1, <2>4
<1> QED
  BY <1>2, <1>3

-----------------------------------------------------------------------------
LEMMA ListedSeq ==
  ASSUME NEW S, NEW s \in Seq(S)
  PROVE  /\ Listed(s) /\ Range(s) \subseteq S
         /\ DOMAIN s = 1 .. Len(s) /\ Len(s) \in Nat
<1>1. Len(s) \in Nat /\ DOMAIN s = 1 .. Len(s) /\ Range(s) \subseteq S
  BY DEF Range
<1>2. s \in [1 .. Len(s) -> Range(s)]
  <2>1. s \in [1 .. Len(s) -> S]
    BY SeqDef
  <2> QED
    BY <1>1, <2>1 DEF Range
<1> QED
  BY <1>1, <1>2, SeqDef DEF Listed

LEMMA ListedMembers ==
  ASSUME NEW s, Listed(s)
  PROVE  DOMAIN s = 1 .. Len(s) /\ Len(s) \in Nat
  BY DEF Listed

LEMMA ListedAppend ==
  ASSUME NEW s, Listed(s), NEW x
  PROVE  /\ Listed(Append(s, x)) /\ Len(Append(s, x)) = Len(s) + 1
         /\ DOMAIN Append(s, x) = 1 .. Len(s) + 1 /\ Append(s, x)[Len(s) + 1] = x
         /\ \A i \in 1 .. Len(s) : Append(s, x)[i] = s[i]
<1> DEFINE S == Range(s) \cup {x}
<1>1. s \in Seq(S)
  BY SeqDef DEF Listed
<1>2. Append(s, x) \in Seq(S)
  BY <1>1
<1>3. Listed(Append(s, x))
  BY <1>2, ListedSeq
<1> QED
  BY <1>1, <1>2, <1>3

LEMMA ImageFinite ==
  ASSUME NEW S, IsFiniteSet(S), NEW f
  PROVE  IsFiniteSet({f[x] : x \in S})
<1> DEFINE T == {f[x] : x \in S}
           g == [x \in S |-> f[x]]
<1>1. g \in Surjection(S, T)
  BY DEF Surjection
<1> QED
  BY <1>1, FS_Surjection

LEMMA FamilyFinite ==
  ASSUME NEW S, IsFiniteSet(S), NEW f, \A x \in S : IsFiniteSet(f[x])
  PROVE  IsFiniteSet(UNION {f[x] : x \in S})
<1>1. IsFiniteSet({f[x] : x \in S})
  BY ImageFinite
<1> QED
  BY <1>1, FS_UNION

LEMMA TableFinite ==
  ASSUME NEW spec, Readable(spec)
  PROVE  IsFiniteSet(Table(spec))
<1> DEFINE H == {Ops} \cup DOMAIN spec.defs
           f == [h \in H |-> {<<h, r>> : r \in RefsOf(spec, h)}]
<1>1. IsFiniteSet(H)
  BY FS_AddElement DEF Readable
<1>2. ASSUME NEW h \in H PROVE IsFiniteSet(f[h])
  <2>1. IsFiniteSet(RefsOf(spec, h))
    BY DEF Readable, RefsOf
  <2> DEFINE pair == [r \in RefsOf(spec, h) |-> <<h, r>>]
  <2>2. IsFiniteSet({pair[r] : r \in RefsOf(spec, h)})
    BY <2>1, ImageFinite
  <2>3. f[h] = {pair[r] : r \in RefsOf(spec, h)}
    OBVIOUS
  <2> QED
    BY <2>2, <2>3
<1>3. Table(spec) = UNION {f[h] : h \in H}
  BY DEF Table
<1> HIDE DEF f, H
<1> QED
  BY <1>1, <1>2, <1>3, FamilyFinite

\* What is kept for a key with a root is a definition of the description when
\* the root is its own.
ResolvedWell(spec, resolved) ==
    \A k \in DOMAIN resolved :
        /\ IsFiniteSet(resolved[k].refs)
        /\ \A root \in {Here, Own} : \A name : k = <<root, name>> => name \in DOMAIN spec.defs
RoundWell(r) ==
    /\ {"processedCalls", "resolvedRefs"} \subseteq DOMAIN r
    /\ Readable(r.spec) /\ r.iteration \in Nat /\ r.processedCalls \in Nat /\ r.done \in BOOLEAN
    /\ IsFiniteSet(r.items) /\ r.expectedCalls = Cardinality(r.items)
    /\ ResolvedWell(r.spec, r.resolvedRefs)

LEMMA LocalWell ==
  ASSUME NEW spec, Readable(spec)
  PROVE  ResolvedWell(spec, LocallyResolved(spec, ToResolve(spec)))
<1> DEFINE items == ToResolve(spec)
           hits == {i[2] : i \in {j \in items : IsLocal(j[2]) /\ j[2].name \in DOMAIN spec.defs}}
<1>1. ASSUME NEW r \in hits
      PROVE  /\ Key(r) = <<r.root, r.name>> /\ r.name \in DOMAIN spec.defs
             /\ r.root \in {Here, Own}
  BY DEF ToResolve, IsLocal, Key
<1>2. LocallyResolved(spec, items) = [k \in {Key(r) : r \in hits} |-> spec.defs[k[2]]]
  BY DEF LocallyResolved
<1> HIDE DEF hits, items
<1>3. ASSUME NEW k \in {Key(r) : r \in hits}
      PROVE  /\ IsFiniteSet(spec.defs[k[2]].refs)
             /\ \A root \in {Here, Own} : \A name : k = <<root, name>> => name \in DOMAIN spec.defs
  <2>1. PICK r \in hits : k = Key(r)
    OBVIOUS
  <2> QED
    BY <1>1, <2>1 DEF Readable
<1> QED
  BY <1>2, <1>3 DEF ResolvedWell, items

LEMMA RoundIsWell ==
  ASSUME NEW spec, Readable(spec), NEW n \in Nat, NEW done \in BOOLEAN
  PROVE  /\ RoundWell(Round(spec, n, done)) /\ Round(spec, n, done).done = done
         /\ LET r == Round(spec, n, done)
            IN  r.processedCalls + Cardinality(Remotes(r.items)) = r.expectedCalls
<1> DEFINE items == ToResolve(spec)
<1>1. IsFiniteSet(items)
  <2>1. items \in SUBSET Table(spec)
    BY DEF ToResolve
  <2> QED
    BY <2>1, TableFinite, FS_Subset
<1>2. /\ Cardinality(items \ Remotes(items)) + Cardinality(Remotes(items)) = Cardinality(items)
      /\ Cardinality(items \ Remotes(items)) \in Nat
  <2>1. Remotes(items) \in SUBSET items /\ items \cap Remotes(items) = Remotes(items)
    BY DEF Remotes
  <2>2. IsFiniteSet(Remotes(items))
    BY <1>1, <2>1, FS_Subset
  <2>3. Cardinality(items) \in Nat /\ Cardinality(Remotes(items)) \in Nat
    BY <1>1, <2>2, FS_CardinalityType
  <2>5. Cardinality(items \ Remotes(items)) \in Nat
    BY <1>1, FS_Difference, FS_CardinalityType
  <2>4. Cardinality(items \ Remotes(items)) = Cardinality(items) - Cardinality(items \cap Remotes(items))
    BY <1>1, FS_Difference
  <2> QED
    BY <2>1, <2>3, <2>4, <2>5
<1>3. ResolvedWell(spec, LocallyResolved(spec, items))
  BY LocalWell
<1> HIDE DEF items
<1> QED
  BY <1>1, <1>2, <1>3 DEF Round, RoundWell, items

\* What an answer does to the promises: nothing, or it settles the client's own.
SettlesRoot == UNCHANGED qvars \/ \E state \in Settled : Settle(Root, state)
LEMMA BuildSettles == ASSUME NEW spec, BuildFromSpec(spec) PROVE SettlesRoot
  BY DEF BuildFromSpec, SettlesRoot, Settled

LEMMA ContinueSettles == ASSUME NEW r, NEW answered, Continue(r, answered) PROVE SettlesRoot
<1>1. CASE r.done
  BY <1>1, BuildSettles DEF Continue
<1>2. CASE ~r.done
  BY <1>2 DEF Continue, SettlesRoot
<1> QED
  BY <1>1, <1>2

LEMMA ResolvingSettles == ASSUME NEW spec, NEW answered, Resolving(spec, answered) PROVE SettlesRoot
  BY ContinueSettles DEF Resolving

LEMMA ConvertSettles == ASSUME NEW main, Convert(main) PROVE SettlesRoot
<1>1. CASE UNCHANGED qvars
  BY <1>1 DEF SettlesRoot
<1>2. CASE \E spec, answered : Resolving(spec, answered)
  BY <1>2, ResolvingSettles
<1> QED
  BY <1>1, <1>2 DEF Convert

LEMMA AnswerSettles == ASSUME Answer PROVE SettlesRoot
<1>1. ASSUME NEW x, AnswerSpec(x) PROVE SettlesRoot
  <2>1. CASE Fail
    BY <2>1 DEF Fail, SettlesRoot, Settled
  <2>2. CASE Resolving(world.main.spec, {SpecRequest})
    BY <2>2, ResolvingSettles
  <2>3. CASE Convert(world.main)
    BY <2>3, ConvertSettles
  <2> QED
    BY <1>1, <2>1, <2>2, <2>3 DEF AnswerSpec
<1>2. ASSUME NEW d, NEW x, AnswerDeclaration(d, x) PROVE SettlesRoot
  <2>1. CASE UNCHANGED qvars
    BY <2>1 DEF SettlesRoot
  <2>2. CASE \E spec, answered : Resolving(spec, answered)
    BY <2>2, ResolvingSettles
  <2> QED
    BY <1>2, <2>1, <2>2 DEF AnswerDeclaration
<1>3. ASSUME NEW i, NEW x, AnswerRef(i, x) PROVE SettlesRoot
  <2>1. CASE UNCHANGED qvars
    BY <2>1 DEF SettlesRoot
  <2>2. CASE \E r, answered : Continue(r, answered)
    BY <2>2, ContinueSettles
  <2> QED
    BY <1>3, <2>1, <2>2 DEF AnswerRef
<1> QED
  BY <1>1, <1>2, <1>3 DEF Answer

LEMMA QStutter == ASSUME QInv, UNCHANGED qvars PROVE QInv'
  BY FlushingStep DEF qvars, QInv, QTypeOK

(***************************************************************************)
(* A handler that is registered is in exactly one place: it waits with a   *)
(* promise that is pending, it is in the task queue of q, to be dispatched *)
(* or to run, or it has run.  Handlers of one promise pass these places in *)
(* the order of their registration, and the rejections q tracks are those  *)
(* no handler that ran was told of.                                        *)
(***************************************************************************)
THEOREM QInvariant == Spec => []QInv
<1>1. Init => QInv
  BY QInitInv DEF Init
<1>2. QInv /\ [Next]_vars => QInv'
  <2> SUFFICES ASSUME QInv, [Next]_vars PROVE QInv'
    OBVIOUS
  <2>1. CASE SettlesRoot
    BY <2>1, QStutter, SettleStep DEF SettlesRoot
  <2>2. CASE Turn
    BY <2>2, FlushStep DEF Turn
  <2>3. ASSUME NEW h \in Handlers, NEW p \in Promises, Register(h, p) PROVE QInv'
    BY <2>3, ThenStep DEF Register
  <2>4. CASE UNCHANGED vars
    BY <2>4, QStutter DEF vars
  <2> QED
    BY <2>1, <2>2, <2>3, <2>4, AnswerSettles DEF Next
<1> QED
  BY <1>1, <1>2, PTL DEF Spec

(***************************************************************************)
(* The same of the property itself: q calls the handlers of one promise in *)
(* the order they were registered in, however handlers are registered      *)
(* while others run, and tracks the rejections nobody was told of.         *)
(***************************************************************************)
THEOREM HandlersAreCalledInOrder == Spec => []HandlersInOrder
<1>1. QInv => HandlersInOrder
  BY OrderFollows DEF HandlersInOrder
<1> QED
  BY <1>1, QInvariant, PTL

-----------------------------------------------------------------------------
(***************************************************************************)
(* The rounds of the resolver keep the description finite.                 *)
(***************************************************************************)
LEMMA InstallFinite ==
  ASSUME NEW spec, Readable(spec), NEW resolved, ResolvedWell(spec, resolved), NEW first,
         NEW local \in BOOLEAN
  PROVE  Readable(Install(spec, resolved, first, local))
<1> DEFINE hit(r) == Key(r) \in DOMAIN resolved
           inlined == {i[2] : i \in {j \in Table(spec) : j[2].how = "inline" /\ hit(j[2])}}
           copied == {i[2] : i \in {j \in Table(spec) : j[2].how = "ref" /\ j[2].root # Here /\ hit(j[2])}}
           retained(r, refs) == IF local THEN refs ELSE Retain(refs, first[Key(r)])
           held(n) == IF \E r \in inlined : IsLocal(r) /\ r.name = n /\ ~local
                      THEN Retain(spec.defs[n].refs, Own) ELSE spec.defs[n].refs
           localised(refs) == {IF r \in copied THEN [r EXCEPT !.root = Here] ELSE r : r \in refs}
           object(r) == IF IsLocal(r) THEN localised(held(r.name))
                        ELSE retained(r, resolved[Key(r)].refs)
           rewritten(refs) == localised(refs \ inlined) \cup UNION {object(r) : r \in refs \cap inlined}
           names == {r.name : r \in copied}
           defs == [n \in DOMAIN spec.defs \cup names |->
                       IF n \in names
                       THEN LET r == CHOOSE q \in copied : q.name = n
                            IN  [doc |-> resolved[Key(r)].doc, refs |-> retained(r, resolved[Key(r)].refs)]
                       ELSE [doc |-> spec.defs[n].doc, refs |-> rewritten(held(n))]]
<1>1. Install(spec, resolved, first, local) = [spec EXCEPT !.ops = rewritten(@), !.defs = defs]
  BY DEF Install
<1>2. \A refs, url : IsFiniteSet(refs) => IsFiniteSet(Retain(refs, url))
  <2> SUFFICES ASSUME NEW refs, NEW url, IsFiniteSet(refs) PROVE IsFiniteSet(Retain(refs, url))
    OBVIOUS
  <2> DEFINE f == [r \in refs |-> IF r.root = Here THEN [r EXCEPT !.root = url] ELSE r]
  <2>1. IsFiniteSet({f[r] : r \in refs})
    <3> HIDE DEF f
    <3> QED
      BY ImageFinite
  <2>2. Retain(refs, url) = {f[r] : r \in refs}
    BY DEF Retain
  <2> QED
    BY <2>1, <2>2
<1>3. IsFiniteSet(inlined) /\ IsFiniteSet(copied)
  <2> DEFINE A == {j \in Table(spec) : j[2].how = "inline" /\ hit(j[2])}
             B == {j \in Table(spec) : j[2].how = "ref" /\ j[2].root # Here /\ hit(j[2])}
             f == [i \in Table(spec) |-> i[2]]
  <2>1. IsFiniteSet(A) /\ IsFiniteSet(B)
    <3>1. A \in SUBSET Table(spec) /\ B \in SUBSET Table(spec)
      OBVIOUS
    <3> QED
      BY <3>1, TableFinite, FS_Subset
  <2>2. IsFiniteSet({f[i] : i \in A}) /\ IsFiniteSet({f[i] : i \in B})
    <3> HIDE DEF f, A, B
    <3> QED
      BY <2>1, ImageFinite
  <2>3. inlined = {f[i] : i \in A} /\ copied = {f[i] : i \in B}
    OBVIOUS
  <2> QED
    BY <2>2, <2>3
<1>4. ASSUME NEW r \in inlined
      PROVE  /\ Key(r) \in DOMAIN resolved
             /\ IsLocal(r) => r.name \in DOMAIN spec.defs
  <2>1. r.how = "inline" /\ Key(r) \in DOMAIN resolved
    OBVIOUS
  <2>2. Key(r) = <<r.root, r.name>>
    BY <2>1 DEF Key
  <2> QED
    BY <2>1, <2>2 DEF ResolvedWell, IsLocal
<1>5. ASSUME NEW r \in copied PROVE Key(r) \in DOMAIN resolved
  OBVIOUS
<1>6. IsFiniteSet(names)
  <2> DEFINE f == [r \in copied |-> r.name]
  <2>1. IsFiniteSet({f[r] : r \in copied})
    <3> HIDE DEF f, copied
    <3> QED
      BY <1>3, ImageFinite
  <2>2. names = {f[r] : r \in copied}
    OBVIOUS
  <2> QED
    BY <2>1, <2>2
<1> HIDE DEF inlined, copied
<1>7. \A refs : IsFiniteSet(refs) => IsFiniteSet(localised(refs))
  <2> SUFFICES ASSUME NEW refs, IsFiniteSet(refs) PROVE IsFiniteSet(localised(refs))
    OBVIOUS
  <2> DEFINE f == [r \in refs |-> IF r \in copied THEN [r EXCEPT !.root = Here] ELSE r]
  <2>1. IsFiniteSet({f[r] : r \in refs})
    <3> HIDE DEF f
    <3> QED
      BY ImageFinite
  <2>2. localised(refs) = {f[r] : r \in refs}
    OBVIOUS
  <2> QED
    BY <2>1, <2>2
<1>8. \A n \in DOMAIN spec.defs : IsFiniteSet(held(n))
  BY <1>2 DEF Readable
<1>9. \A r, refs : IsFiniteSet(refs) => IsFiniteSet(retained(r, refs))
  BY <1>2
<1>10. \A k \in DOMAIN resolved : IsFiniteSet(resolved[k].refs)
  BY DEF ResolvedWell
<1> HIDE DEF held, localised, retained, names, hit
<1>11. ASSUME NEW r \in inlined PROVE IsFiniteSet(object(r))
  BY <1>4, <1>7, <1>8, <1>9, <1>10
<1> HIDE DEF object
<1>12. ASSUME NEW refs, IsFiniteSet(refs) PROVE IsFiniteSet(rewritten(refs))
  <2>1. refs \ inlined \in SUBSET refs /\ refs \cap inlined \in SUBSET refs
    OBVIOUS
  <2>2. IsFiniteSet(refs \ inlined) /\ IsFiniteSet(refs \cap inlined)
    BY <1>12, <2>1, FS_Subset
  <2> DEFINE f == [r \in refs \cap inlined |-> object(r)]
  <2>3. \A r \in refs \cap inlined : IsFiniteSet(f[r])
    BY <1>11
  <2>4. IsFiniteSet(UNION {f[r] : r \in refs \cap inlined})
    <3> HIDE DEF f
    <3> QED
      BY <2>2, <2>3, FamilyFinite
  <2>5. {f[r] : r \in refs \cap inlined} = {object(r) : r \in refs \cap inlined}
    OBVIOUS
  <2> HIDE DEF f
  <2> QED
    BY <1>7, <2>2, <2>4, <2>5, FS_Union
<1> HIDE DEF rewritten
<1>13. IsFiniteSet(rewritten(spec.ops)) /\ IsFiniteSet(DOMAIN defs)
  <2>1. DOMAIN defs = DOMAIN spec.defs \cup names
    OBVIOUS
  <2> HIDE DEF defs
  <2> QED
    BY <1>6, <1>12, <2>1, FS_Union DEF Readable
<1>14. ASSUME NEW n \in DOMAIN defs PROVE IsFiniteSet(defs[n].refs)
  <2>1. CASE n \in names
    <3> DEFINE r == CHOOSE q \in copied : q.name = n
    <3>1. r \in copied
      BY <2>1 DEF names
    <3>2. defs[n].refs = retained(r, resolved[Key(r)].refs)
      BY <2>1
    <3> HIDE DEF r, defs
    <3> QED
      BY <1>5, <1>9, <1>10, <3>1, <3>2
  <2>2. CASE n \notin names
    <3>1. n \in DOMAIN spec.defs /\ defs[n].refs = rewritten(held(n))
      BY <2>2
    <3> HIDE DEF defs
    <3> QED
      BY <1>8, <1>12, <3>1
  <2> QED
    BY <2>1, <2>2
<1> HIDE DEF defs
<1> DEFINE left == [spec EXCEPT !.ops = rewritten(@), !.defs = defs]
<1>15. /\ left.ops = rewritten(spec.ops) /\ left.defs = defs /\ left.operations = spec.operations
       /\ DOMAIN left = DOMAIN spec
  BY DEF Readable
<1> HIDE DEF left
<1> QED
  BY <1>1, <1>13, <1>14, <1>15 DEF Readable, left

\* only the schemas of the answers of an operation are hoisted
LEMMA HoistedKeeps ==
  ASSUME NEW spec, Readable(spec)
  PROVE  LET hoisted == Hoisted(spec)
         IN  /\ hoisted.ops = spec.ops /\ hoisted.defs = spec.defs /\ DOMAIN hoisted = DOMAIN spec
             /\ DOMAIN hoisted.operations = DOMAIN spec.operations
             /\ Listed(hoisted.operations)
             /\ \A i \in DOMAIN spec.operations :
                  /\ hoisted.operations[i].tags = spec.operations[i].tags
                  /\ hoisted.operations[i].id = spec.operations[i].id
<1>1. PICK models, responses :
        Hoisted(spec) = [spec EXCEPT !.models = models,
                           !.operations = [i \in DOMAIN spec.operations |->
                                             [spec.operations[i] EXCEPT !.responses = responses[i]]]]
  BY Zenon DEF Hoisted
<1> DEFINE operations == [i \in DOMAIN spec.operations |->
                            [spec.operations[i] EXCEPT !.responses = responses[i]]]
           hoisted == [spec EXCEPT !.models = models, !.operations = operations]
<1>2. /\ hoisted.ops = spec.ops /\ hoisted.defs = spec.defs /\ DOMAIN hoisted = DOMAIN spec
      /\ hoisted.operations = operations
  BY DEF Readable
<1>3. Listed(operations)
  <2>1. DOMAIN spec.operations = 1 .. Len(spec.operations) /\ Len(spec.operations) \in Nat
    BY ListedMembers DEF Readable
  <2>2. operations \in [1 .. Len(spec.operations) -> Range(operations)]
    BY <2>1 DEF Range
  <2> HIDE DEF operations
  <2> QED
    BY <2>1, <2>2, SeqDef DEF Listed
<1>4. \A i \in DOMAIN spec.operations :
        operations[i].tags = spec.operations[i].tags /\ operations[i].id = spec.operations[i].id
  OBVIOUS
<1>5. DOMAIN operations = DOMAIN spec.operations
  OBVIOUS
<1> HIDE DEF operations, hoisted
<1> QED
  BY <1>1, <1>2, <1>3, <1>4, <1>5 DEF operations, hoisted

LEMMA HoistedFinite ==
  ASSUME NEW spec, Readable(spec)
  PROVE  Readable(Hoisted(spec))
  BY HoistedKeeps DEF Readable

LEMMA LocalRoundFinite ==
  ASSUME NEW spec, Readable(spec)
  PROVE  Readable(LocalRound(spec))
<1> DEFINE current == Round(Hoisted(spec), 0, FALSE)
           roots == [k \in DOMAIN current.resolvedRefs |-> Own]
<1>1. LocalRound(spec) = Install(current.spec, current.resolvedRefs, roots, TRUE)
  BY DEF LocalRound, FinishedLocally
<1>2. RoundWell(current)
  BY HoistedFinite, RoundIsWell
<1> HIDE DEF current, roots
<1> QED
  BY <1>1, <1>2, InstallFinite DEF RoundWell

\* Where a resolver stands when its synchronous part is over.
RoundReady(r) ==
    /\ RoundWell(r)
    /\ ~r.done => /\ Remotes(r.items) # {}
                  /\ r.processedCalls + Cardinality(Remotes(r.items)) = r.expectedCalls

LEMMA ResolveReady ==
  ASSUME NEW spec, Readable(spec), NEW iteration \in Nat
  PROVE  RoundReady(Resolve(spec, iteration))
<1> DEFINE after[n \in 0..MaxIteration + 2] == IF n = 0 THEN spec ELSE LocalRound(after[n - 1])
           current(n) == RoundAfter(after, n, iteration)
           waits(n) == Fetches(current(n))
           ends(n) == Ends(after, n, iteration)
           last == LastRound(after, iteration)
           result == IF waits(last) THEN current(last) ELSE Round(after[last + 1], iteration + last, TRUE)
<1>1. Resolve(spec, iteration) = result
  BY DEF Resolve
<1>2. /\ after[0] = spec
      /\ \A n \in 1 .. 7 : after[n] = LocalRound(after[n - 1])
  <2>1. PICK f : IsChain("local", spec, spec, 7, f)
    BY ChainExists
  <2>2. f = [n \in 0..MaxIteration + 2 |-> IF n = 0 THEN spec ELSE LocalRound(f[n - 1])]
    BY <2>1 DEF IsChain, Step, MaxIteration
  <2>3. after = [n \in 0..MaxIteration + 2 |-> IF n = 0 THEN spec ELSE LocalRound(after[n - 1])]
    BY <2>2
  <2> HIDE DEF after
  <2> QED
    BY <2>3 DEF MaxIteration
<1> HIDE DEF after
<1>3. \A n \in 0 .. 7 : Readable(after[n])
  <2> DEFINE B == {n \in 0 .. 7 : ~Readable(after[n])}
  <2> SUFFICES ASSUME B # {} PROVE FALSE
    OBVIOUS
  <2>1. PICK n \in B : \A i \in B : n <= i
    <3>1. B \in SUBSET Nat
      OBVIOUS
    <3> HIDE DEF B
    <3> QED
      BY <3>1, LeastNat
  <2>2. n # 0
    BY <1>2
  <2>3. n - 1 \in 0 .. 7 /\ n - 1 \notin B
    BY <2>1, <2>2
  <2> QED
    BY <1>2, <2>2, <2>3, LocalRoundFinite
<1>4. last \in 0 .. 6
  <2>0. ends(6)
    <3> HIDE DEF waits
    <3> QED
      BY DEF Ends, Finished, MaxIteration
  <2> HIDE DEF ends
  <2> DEFINE B == {n \in 0 .. 6 : ends(n)}
  <2>1. 6 \in B
    BY <2>0
  <2>2. PICK n \in B : \A i \in B : n <= i
    <3>1. B \in SUBSET Nat
      OBVIOUS
    <3> HIDE DEF B
    <3> QED
      BY <2>1, <3>1, LeastNat
  <2>3. n \in 0 .. 6 /\ ends(n)
    BY <2>2
  <2>4. \A k \in 0 .. n - 1 : ~ends(k)
    BY <2>2, <2>3
  <2> QED
    BY <2>3, <2>4 DEF LastRound, MaxIteration
<1> HIDE DEF last
<1>5. CASE waits(last)
  <2>1. Readable(Hoisted(after[last])) /\ iteration + last \in Nat
    BY <1>3, <1>4, HoistedFinite
  <2>2. result = current(last)
    BY <1>5
  <2> QED
    BY <1>1, <1>5, <2>1, <2>2, RoundIsWell DEF RoundReady, RoundAfter, Fetches
<1>6. CASE ~waits(last)
  <2>1. Readable(after[last + 1]) /\ iteration + last \in Nat
    BY <1>3, <1>4
  <2>2. result = Round(after[last + 1], iteration + last, TRUE)
    BY <1>6
  <2> HIDE DEF result
  <2> QED
    BY <1>1, <2>1, <2>2, RoundIsWell DEF RoundReady
<1> QED
  BY <1>5, <1>6

LEMMA AfterRoundReady ==
  ASSUME NEW current, RoundWell(current), NEW first
  PROVE  RoundReady(AfterRound(current, first))
<1> DEFINE left == Install(current.spec, current.resolvedRefs, first, FALSE)
<1>1. Readable(left)
  BY InstallFinite DEF RoundWell
<1>2. current.iteration \in Nat /\ current.iteration + 1 \in Nat
  BY DEF RoundWell
<1>3. AfterRound(current, first) = IF Finished(left, current.iteration) THEN Round(left, current.iteration, TRUE)
                                 ELSE Resolve(left, current.iteration + 1)
  BY DEF AfterRound
<1> HIDE DEF left
<1>4. CASE Finished(left, current.iteration)
  <2>1. RoundReady(Round(left, current.iteration, TRUE))
    BY <1>1, <1>2, RoundIsWell DEF RoundReady
  <2> QED
    BY <1>3, <1>4, <2>1
<1>5. CASE ~Finished(left, current.iteration)
  BY <1>1, <1>2, <1>3, <1>5, ResolveReady
<1> QED
  BY <1>4, <1>5

\* the documents of the world hold finitely many references
FiniteWeb(web) == \A url \in DOMAIN web : \A n \in DOMAIN web[url] : IsFiniteSet(web[url][n])

LEMMA AnsweredWell ==
  ASSUME NEW current, RoundWell(current), NEW i \in Remotes(current.items), NEW web, FiniteWeb(web), NEW ok
  PROVE  LET r == Answered(current, i, web, ok)
         IN  /\ RoundWell(r) /\ r.items = current.items /\ r.expectedCalls = current.expectedCalls
             /\ r.done = current.done
             /\ r.processedCalls = current.processedCalls + 1
<1> DEFINE d == i[2]
           found == ok /\ d.root \in DOMAIN web /\ d.name \in DOMAIN web[d.root]
           more == With(current.resolvedRefs, Key(d), [doc |-> d.root, refs |-> web[d.root][d.name]])
           resolved == IF found THEN more ELSE current.resolvedRefs
           r == [current EXCEPT !.processedCalls = @ + 1, !.resolvedRefs = resolved]
<1>1. Answered(current, i, web, ok) = r
  BY DEF Answered
<1>2. ResolvedWell(current.spec, resolved)
  <2>1. CASE ~found
    BY <2>1 DEF RoundWell
  <2>2. CASE found
    <3>1. d.root \notin {Here, Own} /\ (Key(d) = <<d.name>> \/ Key(d) = <<d.root, d.name>>)
      BY DEF Remotes, IsLocal, Key
    <3>2. \A root \in {Here, Own} : \A name : Key(d) # <<root, name>>
      BY <3>1
    <3>3. IsFiniteSet(web[d.root][d.name])
      BY <2>2 DEF FiniteWeb
    <3>4. \A k \in DOMAIN more : /\ k = Key(d) => more[k].refs = web[d.root][d.name]
                                 /\ k # Key(d) => k \in DOMAIN current.resolvedRefs /\ more[k] = current.resolvedRefs[k]
      BY DEF With
    <3>5. ResolvedWell(current.spec, current.resolvedRefs)
      BY DEF RoundWell
    <3>6. resolved = more
      BY <2>2
    <3> HIDE DEF more, resolved
    <3> QED
      BY <3>2, <3>3, <3>4, <3>5, <3>6 DEF ResolvedWell
  <2> QED
    BY <2>1, <2>2
<1> HIDE DEF resolved
<1>3. /\ r.spec = current.spec /\ r.iteration = current.iteration /\ r.done = current.done
      /\ r.items = current.items /\ r.expectedCalls = current.expectedCalls
      /\ r.processedCalls = current.processedCalls + 1 /\ r.resolvedRefs = resolved
      /\ DOMAIN r = DOMAIN current
  BY DEF RoundWell
<1> HIDE DEF r
<1> QED
  BY <1>1, <1>2, <1>3 DEF RoundWell

\* The object the declarations are folded into.
Offerable(o) == IsFiniteSet(o.refs) /\ Listed(o.tags) /\ Listed(o.id) /\ o.id # <<>>
FiniteSwagger(swagger) ==
    /\ DOMAIN swagger = DOMAIN Empty2 /\ Listed(swagger.paths)
    /\ \A k \in DOMAIN swagger.table : Offerable(swagger.table[k])
    /\ IsFiniteSet(DOMAIN swagger.table) /\ IsFiniteSet(DOMAIN swagger.defs)
    /\ \A n \in DOMAIN swagger.defs : IsFiniteSet(swagger.defs[n].refs)

LEMMA EmptyFinite == FiniteSwagger(Empty2)
<1>1. DOMAIN <<>> = {} /\ Listed(<<>>)
  BY DEF Listed
<1>2. Empty2.table = <<>> /\ Empty2.defs = <<>> /\ Empty2.paths = <<>>
  BY DEF Empty2
<1> QED
  BY <1>1, <1>2, FS_EmptySet DEF FiniteSwagger

At(swagger, n) == <<swagger.paths[1 + (n - 1) \div 7], Methods[1 + ((n - 1) % 7)]>>
FoundAt(swagger, n) == {swagger.table[At(swagger, m)] : m \in {j \in 1 .. n : At(swagger, j) \in DOMAIN swagger.table}}
LEMMA DescribedListed ==
  ASSUME NEW swagger, FiniteSwagger(swagger)
  PROVE  LET all == Description(swagger).operations
         IN  /\ Listed(all) /\ Range(all) \subseteq Range(swagger.table)
             /\ Range(all) = FoundAt(swagger, 7 * Len(swagger.paths))
<1> DEFINE at(n) == <<swagger.paths[1 + (n - 1) \div 7], Methods[1 + ((n - 1) % 7)]>>
           operations[n \in 0..7 * Len(swagger.paths)] ==
             IF n = 0 THEN <<>>
             ELSE IF at(n) \in DOMAIN swagger.table THEN Append(operations[n - 1], swagger.table[at(n)])
             ELSE operations[n - 1]
           len == 7 * Len(swagger.paths)
<1>1. Description(swagger).operations = operations[len]
  BY DEF Description
<1>2. len \in Nat
  BY ListedMembers DEF FiniteSwagger
<1>3. /\ operations[0] = <<>>
      /\ \A n \in 1 .. len :
           operations[n] = IF at(n) \in DOMAIN swagger.table THEN Append(operations[n - 1], swagger.table[at(n)])
                           ELSE operations[n - 1]
  <2>1. PICK f : IsChain("describe", swagger, <<>>, len, f)
    BY <1>2, ChainExists
  <2>2. f = [n \in 0..7 * Len(swagger.paths) |->
               IF n = 0 THEN <<>>
               ELSE IF at(n) \in DOMAIN swagger.table THEN Append(f[n - 1], swagger.table[at(n)])
               ELSE f[n - 1]]
    BY <2>1 DEF IsChain, Step
  <2>3. operations = [n \in 0..7 * Len(swagger.paths) |->
               IF n = 0 THEN <<>>
               ELSE IF at(n) \in DOMAIN swagger.table THEN Append(operations[n - 1], swagger.table[at(n)])
               ELSE operations[n - 1]]
    BY <2>2
  <2> HIDE DEF operations, at
  <2>4. \A n \in 0 .. len :
           operations[n] = IF n = 0 THEN <<>>
                           ELSE IF at(n) \in DOMAIN swagger.table THEN Append(operations[n - 1], swagger.table[at(n)])
                           ELSE operations[n - 1]
    BY <2>3
  <2> HIDE DEF len
  <2> QED
    BY <1>2, <2>4
<1> HIDE DEF operations, at, len
<1> DEFINE all == Seq(Range(swagger.table))
           Good(n) == operations[n] \in all /\ Range(operations[n]) = FoundAt(swagger, n)
           B == {n \in 0 .. len : ~Good(n)}
<1>a. \A n : at(n) = At(swagger, n)
  BY DEF at, At
<1>4. ASSUME B # {} PROVE FALSE
  <2>1. PICK n \in B : \A i \in B : n <= i
    <3>1. B \in SUBSET Nat
      BY <1>2
    <3> HIDE DEF B
    <3> QED
      BY <1>4, <3>1, LeastNat
  <2>2. n # 0
    <3>1. <<>> \in all
      BY EmptySeq
    <3>2. 1 .. 0 = {} /\ Range(<<>>) = {}
      BY DEF Range
    <3>3. Good(0)
      BY <1>3, <3>1, <3>2 DEF FoundAt
    <3> QED
      BY <2>1, <3>3
  <2>3. n \in 1 .. len /\ n - 1 \in 0 .. len /\ n - 1 \notin B
    BY <1>2, <2>1, <2>2
  <2>4. Good(n - 1)
    BY <2>3
  <2>7. 1 .. n = 1 .. (n - 1) \cup {n}
    BY <1>2, <2>3
  <2>5. CASE at(n) \in DOMAIN swagger.table
    <3> DEFINE o == swagger.table[at(n)]
               old == operations[n - 1]
    <3>1. o \in Range(swagger.table)
      BY <2>5 DEF Range
    <3>2. operations[n] = Append(old, o)
      BY <1>3, <2>3, <2>5
    <3>3. operations[n] \in all
      <4> HIDE DEF B, o, old
      <4>1. old \in Seq(Range(swagger.table))
        BY <2>4 DEF old
      <4> QED
        BY <3>1, <3>2, <4>1
    <3>4. Range(operations[n]) = Range(old) \cup {o}
      <4>1. Listed(old)
        BY <2>4, ListedSeq
      <4> HIDE DEF o, old
      <4>2. DOMAIN old = 1 .. Len(old) /\ Len(old) \in Nat
        BY <4>1, ListedMembers
      <4>3. /\ DOMAIN operations[n] = 1 .. Len(old) + 1 /\ operations[n][Len(old) + 1] = o
            /\ \A i \in 1 .. Len(old) : operations[n][i] = old[i]
        BY <3>2, <4>1, ListedAppend
      <4>4. 1 .. Len(old) + 1 = 1 .. Len(old) \cup {Len(old) + 1}
        BY <4>2
      <4> QED
        BY <4>2, <4>3, <4>4 DEF Range
    <3>5. FoundAt(swagger, n) = FoundAt(swagger, n - 1) \cup {o}
      BY <1>a, <2>5, <2>7 DEF FoundAt
    <3>6. Good(n)
      BY <2>4, <3>3, <3>4, <3>5
    <3> QED
      BY <2>1, <3>6
  <2>6. CASE at(n) \notin DOMAIN swagger.table
    <3>1. operations[n] = operations[n - 1]
      BY <1>3, <2>3, <2>6
    <3>2. FoundAt(swagger, n) = FoundAt(swagger, n - 1)
      BY <1>a, <2>6, <2>7 DEF FoundAt
    <3>3. Good(n)
      BY <2>4, <3>1, <3>2
    <3> QED
      BY <2>1, <3>3
  <2> QED
    BY <2>5, <2>6
<1>5. Good(len)
  <2>1. len \in 0 .. len
    BY <1>2
  <2> QED
    BY <1>4, <2>1
<1> QED
  BY <1>1, <1>5, ListedSeq DEF len

LEMMA DescriptionFinite ==
  ASSUME NEW swagger, FiniteSwagger(swagger)
  PROVE  Readable(Description(swagger))
<1> DEFINE f == [k \in DOMAIN swagger.table |-> swagger.table[k].refs]
           all == Description(swagger).operations
<1>1. IsFiniteSet(UNION {f[k] : k \in DOMAIN swagger.table})
  <2>1. \A k \in DOMAIN swagger.table : IsFiniteSet(f[k])
    BY DEF FiniteSwagger, Offerable
  <2> HIDE DEF f
  <2> QED
    BY <2>1, FamilyFinite DEF FiniteSwagger
<1>2. UNION {f[k] : k \in DOMAIN swagger.table} = UNION {o.refs : o \in Range(swagger.table)}
  BY DEF Range
<1>3. /\ Description(swagger).ops = UNION {o.refs : o \in Range(swagger.table)}
      /\ Description(swagger).defs = swagger.defs
      /\ {"ops", "defs", "operations"} \subseteq DOMAIN Description(swagger)
  BY DEF Description
<1>4. Listed(all) /\ \A i \in DOMAIN all : Offerable(all[i])
  <2>1. Listed(all) /\ Range(all) \subseteq Range(swagger.table)
    BY DescribedListed
  <2>2. \A o \in Range(swagger.table) : Offerable(o)
    BY DEF FiniteSwagger, Range
  <2> HIDE DEF all
  <2> QED
    BY <2>1, <2>2 DEF Range
<1> QED
  BY <1>1, <1>2, <1>3, <1>4 DEF Readable, FiniteSwagger, Offerable

LEMMA ReferencesFinite ==
  ASSUME NEW types, IsFiniteSet(types), NEW modelMap, NEW d
  PROVE  IsFiniteSet(References(types, modelMap, d))
<1> DEFINE U == {u \in types : Known(u, modelMap) \/ u.how = "$ref"}
           f == [t \in U |-> [how |-> "ref", name |-> IF Known(t, modelMap) THEN modelMap[t.name] ELSE t.name,
                              root |-> IF Known(t, modelMap) THEN Here ELSE t.name, doc |-> d]]
<1>1. IsFiniteSet(U)
  <2>1. U \in SUBSET types
    OBVIOUS
  <2> QED
    BY <2>1, FS_Subset
<1>2. IsFiniteSet({f[t] : t \in U})
  <2> HIDE DEF f, U
  <2> QED
    BY <1>1, ImageFinite
<1>3. References(types, modelMap, d) = {f[t] : t \in U}
  BY DEF References
<1> QED
  BY <1>2, <1>3

LEMMA RangeFinite ==
  ASSUME NEW f, IsFiniteSet(DOMAIN f)
  PROVE  IsFiniteSet(Range(f))
  BY ImageFinite DEF Range

LEMMA ConvertedFinite ==
  ASSUME NEW o, IsFiniteSet(DOMAIN o.responses), NEW decl, NEW d, NEW swagger
  PROVE  Offerable(Converted(o, decl, d, swagger))
<1> DEFINE body == {o.params[p] : p \in {q \in {"body"} \cap DOMAIN o.params : ~o.params[q].list}}
           codes == Range(o.responses) \ {Nil}
           messages == {[how |-> "ref", name |-> n, root |-> Here, doc |-> d] : n \in codes}
<1>1. Converted(o, decl, d, swagger).refs = References({o.type} \cup body, swagger.modelMap, d) \cup messages
  BY DEF Converted
<1>2. IsFiniteSet({o.type} \cup body)
  <2>1. body \in SUBSET {o.params["body"]}
    OBVIOUS
  <2>2. IsFiniteSet(body)
    <3> HIDE DEF body
    <3>1. IsFiniteSet({o.params["body"]})
      BY FS_Singleton
    <3> QED
      BY <2>1, <3>1, FS_Subset
  <2> HIDE DEF body
  <2> QED
    BY <2>2, FS_Singleton, FS_Union
<1>3. IsFiniteSet(messages)
  <2> DEFINE f == [n \in codes |-> [how |-> "ref", name |-> n, root |-> Here, doc |-> d]]
  <2>1. codes \in SUBSET Range(o.responses)
    OBVIOUS
  <2>2. IsFiniteSet(codes)
    BY <2>1, RangeFinite, FS_Subset
  <2>3. IsFiniteSet({f[n] : n \in codes})
    <3> HIDE DEF f, codes
    <3> QED
      BY <2>2, ImageFinite
  <2>4. messages = {f[n] : n \in codes}
    OBVIOUS
  <2> QED
    BY <2>3, <2>4
<1>4. Converted(o, decl, d, swagger).tags = <<decl.tag>> /\ Converted(o, decl, d, swagger).id = <<o.id>>
  BY DEF Converted
<1>5. Listed(<<decl.tag>>) /\ Listed(<<o.id>>) /\ <<o.id>> # <<>>
  BY DEF Listed, Range
<1> HIDE DEF body, messages
<1> QED
  BY <1>1, <1>2, <1>3, <1>4, <1>5, ReferencesFinite, FS_Union DEF Offerable

LEMMA AddOperationFinite ==
  ASSUME NEW swagger, FiniteSwagger(swagger), NEW o, Offerable(o)
  PROVE  FiniteSwagger(AddOperation(swagger, o))
<1> DEFINE paths == IF Contains(swagger.paths, o.path) THEN swagger.paths ELSE Append(swagger.paths, o.path)
           k == <<o.path, o.method>>
           table == With(swagger.table, k, o)
           more == [swagger EXCEPT !.paths = paths, !.table = table]
<1>1. AddOperation(swagger, o) = more
  BY DEF AddOperation
<1>2. /\ DOMAIN table = DOMAIN swagger.table \cup {k}
      /\ \A x \in DOMAIN table : table[x] = o \/ (x \in DOMAIN swagger.table /\ table[x] = swagger.table[x])
  <2> HIDE DEF k
  <2>1. DOMAIN table = DOMAIN swagger.table \cup {k}
    BY DEF With
  <2>2. ASSUME NEW x \in DOMAIN swagger.table \cup {k}
        PROVE  /\ x = k => table[x] = o
               /\ x # k => table[x] = swagger.table[x]
    BY Zenon DEF With
  <2> HIDE DEF table
  <2> QED
    BY <2>1, <2>2
<1>3. IsFiniteSet(DOMAIN table)
  <2> HIDE DEF table, k
  <2> QED
    BY <1>2, FS_AddElement DEF FiniteSwagger
<1>6. Listed(paths)
  BY ListedAppend DEF FiniteSwagger
<1>4. {"paths", "table", "defs"} \subseteq DOMAIN swagger
  BY DEF FiniteSwagger, Empty2
<1> HIDE DEF paths, k, table
<1>5. DOMAIN more = DOMAIN swagger /\ more.table = table /\ more.defs = swagger.defs /\ more.paths = paths
  BY <1>4
<1> HIDE DEF more
<1> QED
  BY <1>1, <1>2, <1>3, <1>5, <1>6 DEF FiniteSwagger

LEMMA DeclarationFinite ==
  ASSUME NEW swagger, FiniteSwagger(swagger), NEW d, NEW decl, FiniteDeclaration(decl)
  PROVE  FiniteSwagger(Declaration(swagger, d, decl))
<1> DEFINE names == DOMAIN decl.models
           modelMap == Over([k \in {decl.models[n].id : n \in names} |->
                               CHOOSE n \in names : decl.models[n].id = k], swagger.modelMap)
           named == [swagger EXCEPT
                    !.host = Stated(decl.host, @), !.basePath = decl.basePath,
                    !.produces = Stated(decl.produces, @),
                    !.consumes = Stated(decl.consumes, @),
                    !.modelMap = Over([k \in {decl.models[n].id : n \in names} |->
                                         CHOOSE n \in names : decl.models[n].id = k], @)]
           types(n) == decl.models[n].properties
           folded[i \in 0..Len(decl.operations)] ==
             IF i = 0 THEN named
             ELSE AddOperation(folded[i - 1], Converted(decl.operations[i], decl, d, folded[i - 1]))
           schema(n) == ObjectSchema([i \in DOMAIN types(n) |-> ToJsonSchema(types(n)[i], named.modelMap)])
           refs(n) == References({t \in Range(types(n)) : t.list}, named.modelMap, d)
           end == folded[Len(decl.operations)]
           own == [n \in names |-> [doc |-> d, refs |-> refs(n)]]
           result == [end EXCEPT
                        !.models = Over([n \in names |-> schema(n)], @),
                        !.defs = Over([n \in names |-> [doc |-> d, refs |-> refs(n)]], @)]
<1>1. Declaration(swagger, d, decl) = result
  BY DEF Declaration
<1>2. FiniteSwagger(named)
  <2>1. {"host", "basePath", "produces", "consumes", "modelMap", "table", "defs", "paths"} \subseteq DOMAIN swagger
    BY DEF FiniteSwagger, Empty2
  <2>2. /\ DOMAIN named = DOMAIN swagger /\ named.table = swagger.table /\ named.defs = swagger.defs
        /\ named.paths = swagger.paths
    BY <2>1
  <2> HIDE DEF named
  <2> QED
    BY <2>2 DEF FiniteSwagger
<1> HIDE DEF named
<1> DEFINE len == Len(decl.operations)
<1>n. len \in Nat /\ \A i \in 1 .. len : IsFiniteSet(DOMAIN decl.operations[i].responses)
  BY ListedMembers DEF FiniteDeclaration
<1>3. /\ folded[0] = named
      /\ \A i \in 1 .. len : folded[i] = AddOperation(folded[i - 1], Converted(decl.operations[i], decl, d, folded[i - 1]))
  <2> DEFINE a == [decl |-> decl, d |-> d]
  <2>1. PICK f : IsChain("declare", a, named, len, f)
    BY <1>n, ChainExists
  <2>2. f = [i \in 0..Len(decl.operations) |->
               IF i = 0 THEN named
               ELSE AddOperation(f[i - 1], Converted(decl.operations[i], decl, d, f[i - 1]))]
    BY <2>1 DEF IsChain, Step
  <2>3. folded = [i \in 0..Len(decl.operations) |->
               IF i = 0 THEN named
               ELSE AddOperation(folded[i - 1], Converted(decl.operations[i], decl, d, folded[i - 1]))]
    BY <2>2
  <2> HIDE DEF folded
  <2> QED
    BY <1>n, <2>3
<1> HIDE DEF folded
<1>4. FiniteSwagger(end)
  <2> DEFINE B == {i \in 0 .. len : ~FiniteSwagger(folded[i])}
  <2>0. ASSUME B # {} PROVE FALSE
    <3>1. PICK i \in B : \A j \in B : i <= j
      <4>1. B \in SUBSET Nat
        OBVIOUS
      <4> HIDE DEF B
      <4> QED
        BY <2>0, <4>1, LeastNat
    <3>2. i # 0
      BY <1>2, <1>3
    <3>3. i \in 1 .. len /\ i - 1 \in 0 .. len /\ i - 1 \notin B
      BY <1>n, <3>1, <3>2
    <3>4. FiniteSwagger(folded[i - 1])
      BY <3>3
    <3>5. Offerable(Converted(decl.operations[i], decl, d, folded[i - 1]))
      BY <1>n, <3>3, ConvertedFinite
    <3> QED
      BY <1>3, <3>1, <3>3, <3>4, <3>5, AddOperationFinite
  <2>1. len \in 0 .. len
    BY <1>n
  <2> QED
    BY <2>0, <2>1
<1> HIDE DEF end
<1>5. ASSUME NEW n \in names PROVE IsFiniteSet(refs(n))
  <2> DEFINE T == {t \in Range(types(n)) : t.list}
  <2>0. IsFiniteSet(1 .. Len(types(n))) /\ DOMAIN types(n) = 1 .. Len(types(n))
    <3>1. Listed(types(n))
      BY DEF FiniteDeclaration
    <3> HIDE DEF types
    <3>2. DOMAIN types(n) = 1 .. Len(types(n)) /\ Len(types(n)) \in Nat
      BY <3>1, ListedMembers
    <3> QED
      BY <3>2, FS_Interval
  <2>1. IsFiniteSet(Range(types(n)))
    BY <2>0, RangeFinite
  <2>2. T \in SUBSET Range(types(n))
    OBVIOUS
  <2>3. IsFiniteSet(T)
    BY <2>1, <2>2, FS_Subset
  <2> HIDE DEF T
  <2> QED
    BY <2>3, ReferencesFinite DEF T
<1> HIDE DEF refs, schema
<1>6. {"models", "defs", "table", "paths"} \subseteq DOMAIN end
  BY <1>4 DEF FiniteSwagger, Empty2
<1>7. /\ DOMAIN result = DOMAIN end /\ result.table = end.table /\ result.defs = Over(own, end.defs)
      /\ result.paths = end.paths
  BY <1>6
<1>8. /\ DOMAIN Over(own, end.defs) = names \cup DOMAIN end.defs
      /\ \A n \in DOMAIN Over(own, end.defs) :
           \/ n \in names /\ Over(own, end.defs)[n].refs = refs(n)
           \/ n \in DOMAIN end.defs /\ Over(own, end.defs)[n] = end.defs[n]
  BY DEF Over
<1>9. IsFiniteSet(names \cup DOMAIN end.defs)
  BY <1>4, FS_Union DEF FiniteSwagger, FiniteDeclaration
<1> HIDE DEF result, own, names
<1> QED
  BY <1>1, <1>4, <1>5, <1>7, <1>8, <1>9 DEF FiniteSwagger

-----------------------------------------------------------------------------
(***************************************************************************)
(* The phases of a load: one request, or the requests of a listing, or the *)
(* fetches of a round are outstanding and nothing has been said, or        *)
(* nothing is outstanding and the load has ended.                          *)
(***************************************************************************)
Fresh == ~isBuilt /\ told = <<>> /\ promise[Root].state = "pending"
AllCounted == conv.processedCount \in Nat /\ conv.processedCount = conv.expectedCount
SpecPhase == net = {SpecRequest} /\ round = NoRound /\ conv = NoListing /\ Fresh
DeclPhase ==
    /\ Fresh /\ world.main.kind = "listing" /\ round = NoRound
    /\ net # {} /\ net \subseteq {DeclRequest(d) : d \in world.main.apis}
    /\ IsFiniteSet(net) /\ conv.processedCount \in Nat
    /\ conv.processedCount + Cardinality(net) = conv.expectedCount
    /\ DOMAIN conv = DOMAIN NoListing /\ FiniteSwagger(conv.swagger)
RefPhase ==
    /\ Fresh /\ RoundWell(round) /\ ~round.done
    /\ net # {} /\ net \subseteq {RefRequest(i) : i \in Remotes(round.items)}
    /\ IsFiniteSet(net)
    /\ round.processedCalls + Cardinality(net) = round.expectedCalls
    /\ AllCounted
BuiltEnd == /\ isBuilt /\ Readable(round.spec) /\ apis = BuildApis(round.spec.operations)
            /\ IF usePromise THEN promise[Root].state = "fulfilled" /\ told = <<>>
               ELSE promise[Root].state = "pending" /\ told = <<"built">>
FailedEnd == /\ ~isBuilt
             /\ IF usePromise THEN promise[Root].state = "rejected" /\ told = <<>>
                ELSE promise[Root].state = "pending" /\ told = <<"failed">>
LostEnd == Fresh /\ thrown
EndPhase == /\ net = {} /\ AllCounted /\ (round = NoRound \/ round.done)
            /\ (BuiltEnd \/ FailedEnd \/ LostEnd)
PhaseInv == /\ world \in Worlds
            /\ SpecPhase \/ DeclPhase \/ RefPhase \/ EndPhase

LEMMA RequestKinds ==
  /\ SpecRequest.kind = "spec"
  /\ \A d : DeclRequest(d).kind = "decl" /\ DeclRequest(d).of = d
  /\ \A i : RefRequest(i).kind = "ref" /\ RefRequest(i).of = i
  BY DEF SpecRequest, DeclRequest, RefRequest

LEMMA RootSettles ==
  ASSUME QInv, promise[Root].state = "pending", NEW state, Settle(Root, state)
  PROVE  promise'[Root].state = state
<1>1. Root \in DOMAIN promise
  BY RootType DEF QInv, QTypeOK
<1> QED
  BY <1>1 DEF Settle, Become

LEMMA BuildEnds ==
  ASSUME QInv, Fresh, NEW spec, BuildFromSpec(spec), usePromise' = usePromise, Readable(spec), round'.spec = spec
  PROVE  (BuiltEnd \/ LostEnd)'
<1>1. CASE spec.bad
  BY <1>1 DEF BuildFromSpec, LostEnd, Fresh, qvars
<1>2. CASE ~spec.bad
  <2>1. isBuilt' = TRUE /\ apis' = BuildApis(round'.spec.operations)
    BY <1>2 DEF BuildFromSpec, Fresh
  <2>2. CASE usePromise
    <3>1. Settle(Root, "fulfilled") /\ told' = told
      BY <1>2, <2>2 DEF BuildFromSpec, Fresh
    <3>2. promise'[Root].state = "fulfilled"
      BY <3>1, RootSettles DEF Fresh
    <3> QED
      BY <2>1, <2>2, <3>1, <3>2 DEF BuiltEnd, Fresh
  <2>3. CASE ~usePromise
    <3>1. told' = <<"built">> /\ promise' = promise
      BY <1>2, <2>3 DEF BuildFromSpec, Fresh, qvars
    <3> QED
      BY <2>1, <2>3, <3>1 DEF BuiltEnd, Fresh
  <2> QED
    BY <2>2, <2>3
<1> QED
  BY <1>1, <1>2

LEMMA FailEnds ==
  ASSUME QInv, Fresh, Fail, usePromise' = usePromise
  PROVE  FailedEnd'
<1>1. CASE usePromise
  <2>1. Settle(Root, "rejected") /\ told' = told /\ isBuilt' = isBuilt
    BY <1>1 DEF Fail
  <2>2. promise'[Root].state = "rejected"
    BY <2>1, RootSettles DEF Fresh
  <2> QED
    BY <1>1, <2>1, <2>2 DEF FailedEnd, Fresh
<1>2. CASE ~usePromise
  BY <1>2 DEF Fail, FailedEnd, Fresh, qvars
<1> QED
  BY <1>1, <1>2

\* requests of one kind are as many as what they ask for
LEMMA RequestsCounted ==
  ASSUME NEW S, IsFiniteSet(S)
  PROVE  /\ IsFiniteSet({DeclRequest(d) : d \in S}) /\ Cardinality({DeclRequest(d) : d \in S}) = Cardinality(S)
         /\ IsFiniteSet({RefRequest(i) : i \in S}) /\ Cardinality({RefRequest(i) : i \in S}) = Cardinality(S)
<1> DEFINE D == {DeclRequest(d) : d \in S}
           R == {RefRequest(i) : i \in S}
           f == [d \in S |-> DeclRequest(d)]
           g == [i \in S |-> RefRequest(i)]
<1>1. ExistsBijection(S, D)
  <2>1. f \in Bijection(S, D)
    BY RequestKinds DEF Bijection, Injection, Surjection, IsInjective
  <2> QED
    BY <2>1 DEF ExistsBijection
<1>2. ExistsBijection(S, R)
  <2>1. g \in Bijection(S, R)
    BY RequestKinds DEF Bijection, Injection, Surjection, IsInjective
  <2> QED
    BY <2>1 DEF ExistsBijection
<1> HIDE DEF D, R
<1> QED
  BY <1>1, <1>2, FS_Bijection DEF D, R

\* the resolver goes on when nothing else is outstanding
LEMMA ContinuePhase ==
  ASSUME QInv, Fresh, NEW r, RoundReady(r), NEW answered, net \subseteq answered,
         Continue(r, answered), UNCHANGED usePromise, AllCounted'
  PROVE  (RefPhase \/ EndPhase)'
<1>1. CASE r.done
  <2>1. net' = {} /\ round' = r /\ BuildFromSpec(r.spec)
    BY <1>1 DEF Continue
  <2>2. (BuiltEnd \/ LostEnd)'
    BY <2>1, BuildEnds DEF RoundReady, RoundWell
  <2> QED
    BY <1>1, <2>1, <2>2 DEF EndPhase
<1>2. CASE ~r.done
  <2>1. /\ net' = {RefRequest(i) : i \in Remotes(r.items)} /\ round' = r
        /\ UNCHANGED <<isBuilt, told, qvars>>
    BY <1>2 DEF Continue
  <2>2. Fresh'
    BY <2>1 DEF Fresh, qvars
  <2>3. /\ RoundWell(r) /\ Remotes(r.items) # {}
        /\ r.processedCalls + Cardinality(Remotes(r.items)) = r.expectedCalls
    BY <1>2 DEF RoundReady
  <2>4. IsFiniteSet(Remotes(r.items))
    <3>1. Remotes(r.items) \in SUBSET r.items
      BY DEF Remotes
    <3> QED
      BY <2>3, <3>1, FS_Subset DEF RoundWell
  <2>5. IsFiniteSet(net') /\ Cardinality(net') = Cardinality(Remotes(r.items))
    BY <2>1, <2>4, RequestsCounted
  <2> QED
    BY <1>2, <2>1, <2>2, <2>3, <2>5 DEF RefPhase
<1> QED
  BY <1>1, <1>2

LEMMA ResolvingPhase ==
  ASSUME QInv, Fresh, NEW spec, Readable(spec), NEW answered, net \subseteq answered,
         Resolving(spec, answered), UNCHANGED usePromise, AllCounted'
  PROVE  (RefPhase \/ EndPhase)'
<1>1. Continue(Resolve(spec, 0), answered)
  BY DEF Resolving
<1>2. RoundReady(Resolve(spec, 0))
  BY ResolveReady
<1> HIDE DEF Continue
<1> QED
  BY <1>1, <1>2, ContinuePhase

LEMMA WorldIsFinite ==
  ASSUME NEW w \in Worlds
  PROVE  /\ w.main.kind = "swagger2" => Readable(w.main.spec)
         /\ w.main.kind = "listing" => IsFiniteSet(w.main.apis) /\ w.main.apis \subseteq DOMAIN w.declarations
         /\ w.main.kind = "single" => FiniteDeclaration(w.main.declaration)
         /\ \A d \in DOMAIN w.declarations : FiniteDeclaration(w.declarations[d])
         /\ FiniteWeb(w.remote)
  BY WorldsAssumption DEF FiniteWeb

LEMMA ConvertPhase ==
  ASSUME QInv, SpecPhase, world \in Worlds, Convert(world.main), UNCHANGED <<world, usePromise>>
  PROVE  (DeclPhase \/ RefPhase \/ EndPhase)'
<1>1. AllCounted /\ Fresh /\ net = {SpecRequest} /\ round = NoRound
  BY DEF SpecPhase, AllCounted, NoListing
<1>2. CASE /\ thrown' = TRUE /\ net' = net \ {SpecRequest}
           /\ UNCHANGED <<round, conv, isBuilt, isValid, apis, told, qvars>>
  BY <1>1, <1>2 DEF EndPhase, LostEnd, Fresh, AllCounted, qvars
<1>3. CASE /\ world.main.kind = "single"
           /\ Resolving(Description(Declaration(Empty2, Own, world.main.declaration)), {SpecRequest})
           /\ UNCHANGED conv
  <2>1. Readable(Description(Declaration(Empty2, Own, world.main.declaration)))
    BY <1>3, WorldIsFinite, EmptyFinite, DeclarationFinite, DescriptionFinite
  <2> QED
    BY <1>1, <1>3, <2>1, ResolvingPhase DEF AllCounted
<1>4. CASE Resolving(Description(Empty2), {SpecRequest}) /\ UNCHANGED conv
  BY <1>1, <1>4, EmptyFinite, DescriptionFinite, ResolvingPhase DEF AllCounted
<1>5. CASE /\ world.main.kind = "listing" /\ world.main.apis # {}
           /\ conv' = Listing(Cardinality(world.main.apis))
           /\ net' = (net \ {SpecRequest}) \cup {DeclRequest(d) : d \in world.main.apis}
           /\ UNCHANGED <<round, isBuilt, isValid, apis, told, thrown, qvars>>
  <2>1. net' = {DeclRequest(d) : d \in world.main.apis} /\ net' # {}
    BY <1>1, <1>5
  <2>2. IsFiniteSet(net') /\ Cardinality(net') = Cardinality(world.main.apis)
    BY <1>5, <2>1, WorldIsFinite, RequestsCounted
  <2>3. Cardinality(net') \in Nat
    BY <2>2, FS_CardinalityType
  <2>4. /\ conv'.processedCount = 0 /\ conv'.expectedCount = Cardinality(net')
        /\ conv'.swagger = Empty2 /\ DOMAIN conv' = DOMAIN NoListing
    BY <1>5, <2>2 DEF Listing, NoListing
  <2>5. Fresh'
    BY <1>1, <1>5 DEF Fresh, qvars
  <2> QED
    BY <1>1, <1>5, <2>1, <2>2, <2>3, <2>4, <2>5, EmptyFinite DEF DeclPhase
<1> QED
  BY <1>2, <1>3, <1>4, <1>5 DEF Convert

LEMMA AnswerSpecPhase ==
  ASSUME QInv, PhaseInv, NEW x, AnswerSpec(x)
  PROVE  PhaseInv'
<1>1. SpecPhase
  BY RequestKinds DEF PhaseInv, DeclPhase, RefPhase, EndPhase, AnswerSpec
<1>2. AllCounted /\ Fresh /\ net = {SpecRequest} /\ world \in Worlds /\ round = NoRound
  BY <1>1 DEF SpecPhase, AllCounted, NoListing, PhaseInv
<1>3. UNCHANGED <<world, usePromise>>
  BY DEF AnswerSpec
<1>4. CASE Fail /\ net' = net \ {SpecRequest} /\ UNCHANGED <<round, conv>>
  <2>1. FailedEnd'
    BY <1>2, <1>3, <1>4, FailEnds
  <2> QED
    BY <1>2, <1>3, <1>4, <2>1 DEF PhaseInv, EndPhase, AllCounted
<1>5. CASE /\ world.main.kind = "swagger2"
           /\ Resolving(world.main.spec, {SpecRequest}) /\ UNCHANGED conv
  <2>1. (RefPhase \/ EndPhase)'
    BY <1>2, <1>3, <1>5, WorldIsFinite, ResolvingPhase DEF AllCounted
  <2> QED
    BY <1>2, <1>3, <2>1 DEF PhaseInv
<1>6. CASE Convert(world.main)
  BY <1>1, <1>2, <1>3, <1>6, ConvertPhase DEF PhaseInv
<1> QED
  BY <1>4, <1>5, <1>6 DEF AnswerSpec

LEMMA AnswerDeclarationPhase ==
  ASSUME QInv, PhaseInv, NEW q \in net, q.kind = "decl", NEW x, AnswerDeclaration(q.of, x)
  PROVE  PhaseInv'
<1> DEFINE d == q.of
           decl == world.declarations[d]
           given == Handler(x) = "response" /\ HasObject(x)
           swagger == IF given /\ ~Throws(decl) THEN Declaration(conv.swagger, d, decl) ELSE conv.swagger
           folded == CountedAnswer(conv, swagger)
           answered == {DeclRequest(d)}
<1>1. DeclPhase /\ world \in Worlds
  BY RequestKinds DEF PhaseInv, SpecPhase, RefPhase, EndPhase
<1>2. q = DeclRequest(d) /\ d \in world.main.apis
  BY <1>1, RequestKinds DEF DeclPhase
<1>3. FiniteDeclaration(decl)
  BY <1>1, <1>2, WorldIsFinite DEF DeclPhase
<1>4. FiniteSwagger(swagger)
  BY <1>1, <1>3, DeclarationFinite DEF DeclPhase
<1>5. UNCHANGED <<world, usePromise>> /\ conv' = folded
  BY DEF AnswerDeclaration
<1> HIDE DEF swagger
<1>6. /\ folded.processedCount = conv.processedCount + 1 /\ folded.expectedCount = conv.expectedCount
      /\ folded.swagger = swagger /\ DOMAIN folded = DOMAIN conv
  BY <1>1 DEF CountedAnswer, DeclPhase, NoListing
<1>7. /\ IsFiniteSet(net \ answered) /\ Cardinality(net \ answered) = Cardinality(net) - 1
      /\ Cardinality(net) \in Nat /\ Cardinality(net \ answered) \in Nat
      /\ (Cardinality(net \ answered) = 0 <=> net \ answered = {})
  BY <1>1, <1>2, FS_RemoveElement, FS_CardinalityType, FS_EmptySet DEF DeclPhase
<1>8. conv.processedCount \in Nat /\ conv.processedCount + Cardinality(net) = conv.expectedCount
  BY <1>1 DEF DeclPhase
<1>9. net \ answered = {} => AllCounted'
  BY <1>5, <1>6, <1>7, <1>8 DEF AllCounted
<1> HIDE DEF folded
<1>10. ASSUME net' = net \ answered, net \ answered # {}, UNCHANGED <<round, isBuilt, told, qvars>>
       PROVE  DeclPhase'
  <2>1. Fresh'
    BY <1>1, <1>10 DEF DeclPhase, Fresh, qvars
  <2>2. /\ conv'.processedCount \in Nat
        /\ conv'.processedCount + Cardinality(net') = conv'.expectedCount
    BY <1>5, <1>6, <1>7, <1>8, <1>10
  <2> QED
    BY <1>1, <1>4, <1>5, <1>6, <1>7, <1>10, <2>1, <2>2 DEF DeclPhase
<1>11. CASE /\ given /\ Throws(decl) /\ thrown' = TRUE /\ net' = net \ answered
            /\ UNCHANGED <<round, isBuilt, isValid, apis, told, qvars>>
  <2>1. CASE net \ answered = {}
    <3>1. LostEnd' /\ round' = NoRound
      BY <1>1, <1>11 DEF DeclPhase, Fresh, LostEnd, qvars
    <3> QED
      BY <1>1, <1>5, <1>9, <1>11, <2>1, <3>1 DEF PhaseInv, EndPhase
  <2> QED
    BY <1>1, <1>5, <1>10, <1>11, <2>1 DEF PhaseInv
<1>12. CASE LastAnswer(folded) /\ Resolving(Description(folded.swagger), answered)
  <2>1. net \ answered = {}
    BY <1>6, <1>7, <1>8, <1>12 DEF LastAnswer
  <2>2. Readable(Description(folded.swagger))
    BY <1>4, <1>6, DescriptionFinite
  <2>3. Fresh
    BY <1>1 DEF DeclPhase
  <2>4. (RefPhase \/ EndPhase)'
    BY <1>5, <1>9, <1>12, <2>1, <2>2, <2>3, ResolvingPhase
  <2> QED
    BY <1>1, <1>5, <2>4 DEF PhaseInv
<1>13. CASE /\ ~LastAnswer(folded) /\ net' = net \ answered
            /\ UNCHANGED <<round, isBuilt, isValid, apis, told, thrown, qvars>>
  <2>1. net \ answered # {}
    BY <1>6, <1>7, <1>8, <1>13 DEF LastAnswer
  <2> QED
    BY <1>1, <1>5, <1>10, <1>13, <2>1 DEF PhaseInv
<1> QED
  BY <1>11, <1>12, <1>13 DEF AnswerDeclaration, folded, swagger

LEMMA AnswerRefPhase ==
  ASSUME QInv, PhaseInv, NEW q \in net, q.kind = "ref", NEW x, AnswerRef(q.of, x)
  PROVE  PhaseInv'
<1> DEFINE i == q.of
           ok == Handler(x) = "response" /\ HasObject(x)
           r == Answered(round, i, world.remote, ok)
           answered == {RefRequest(i)}
<1>1. RefPhase /\ world \in Worlds
  BY RequestKinds DEF PhaseInv, SpecPhase, DeclPhase, EndPhase
<1>2. q = RefRequest(i) /\ i \in Remotes(round.items)
  BY <1>1, RequestKinds DEF RefPhase
<1>3. UNCHANGED <<world, usePromise, conv>>
  BY DEF AnswerRef
<1>4. Fresh /\ RoundWell(round) /\ AllCounted /\ ~round.done
  BY <1>1 DEF RefPhase
<1>5. /\ RoundWell(r) /\ r.items = round.items /\ r.expectedCalls = round.expectedCalls
      /\ r.done = round.done /\ r.processedCalls = round.processedCalls + 1
  BY <1>1, <1>2, <1>4, WorldIsFinite, AnsweredWell
<1> HIDE DEF r
<1>6. /\ IsFiniteSet(net \ answered) /\ Cardinality(net \ answered) = Cardinality(net) - 1
      /\ Cardinality(net) \in Nat /\ Cardinality(net \ answered) \in Nat
      /\ (Cardinality(net \ answered) = 0 <=> net \ answered = {})
  BY <1>1, <1>2, FS_RemoveElement, FS_CardinalityType, FS_EmptySet DEF RefPhase
<1>7. round.processedCalls \in Nat /\ round.processedCalls + Cardinality(net) = round.expectedCalls
  BY <1>1 DEF RefPhase, RoundWell
<1>8. AllCounted'
  BY <1>3, <1>4 DEF AllCounted
<1>9. CASE /\ r.processedCalls = r.expectedCalls
           /\ \E first \in FirstRoots(r) : Continue(AfterRound(r, first), answered)
  <2>1. PICK first : Continue(AfterRound(r, first), answered)
    BY <1>9
  <2>2. net \subseteq answered
    BY <1>5, <1>6, <1>7, <1>9
  <2>3. RoundReady(AfterRound(r, first))
    BY <1>5, AfterRoundReady
  <2>4. (RefPhase \/ EndPhase)'
    BY <1>3, <1>4, <1>8, <2>1, <2>2, <2>3, ContinuePhase
  <2> QED
    BY <1>1, <1>3, <2>4 DEF PhaseInv
<1>10. CASE /\ r.processedCalls # r.expectedCalls /\ round' = r /\ net' = net \ answered
            /\ UNCHANGED <<isBuilt, apis, told, thrown, qvars>>
  <2>1. net' # {}
    BY <1>5, <1>6, <1>7, <1>10
  <2>2. Fresh'
    BY <1>4, <1>10 DEF Fresh, qvars
  <2>3. round'.processedCalls + Cardinality(net') = round'.expectedCalls
    BY <1>5, <1>6, <1>7, <1>10
  <2>4. net' \subseteq {RefRequest(j) : j \in Remotes(round'.items)}
    BY <1>1, <1>5, <1>10 DEF RefPhase
  <2>5. RefPhase'
    BY <1>4, <1>5, <1>6, <1>8, <1>10, <2>1, <2>2, <2>3, <2>4 DEF RefPhase
  <2> QED
    BY <1>1, <1>3, <2>5 DEF PhaseInv
<1> QED
  BY <1>9, <1>10 DEF AnswerRef, r

\* flush settles promises of handlers, never the client's own
LEMMA RootStays ==
  ASSUME QInv, QStep
  PROVE  promise'[Root].state = promise[Root].state
<1>0. promise \in [Promises -> PromiseRecords] /\ Root \in Promises /\ Root \notin Handlers
  BY RootType DEF QInv, QTypeOK
<1>1. CASE Tick \/ Idle
  BY <1>1 DEF Tick, Idle
<1>2. CASE Dispatch
  <2>1. CASE promise' = promise
    BY <2>1
  <2>2. ASSUME NEW p, NEW m, promise' = [promise EXCEPT ![p].messages = m]
        PROVE  promise'[Root].state = promise[Root].state
    BY <1>0, <2>2 DEF PromiseRecords
  <2> QED
    BY <1>2, <2>1, <2>2 DEF Dispatch
<1>3. ASSUME NEW called, NEW result, Run(called, result)
      PROVE  promise'[Root].state = promise[Root].state
  <2> DEFINE h == Head(tasks).handler
  <2>1. h \in Handlers
    BY <1>3, HeadOfQueue DEF Run
  <2>2. promise' = [promise EXCEPT ![h] = [state |-> result, messages |-> <<>>]]
    BY <1>3 DEF Run, Become
  <2> QED
    BY <1>0, <2>1, <2>2
<1> QED
  BY <1>1, <1>2, <1>3 DEF QStep

\* the phases depend on the promises through the state of the client's own only
LEMMA PhaseStays ==
  ASSUME PhaseInv, UNCHANGED cvars, promise'[Root].state = promise[Root].state
  PROVE  PhaseInv'
<1>1. /\ world' = world /\ usePromise' = usePromise /\ net' = net /\ round' = round /\ conv' = conv
      /\ isBuilt' = isBuilt /\ apis' = apis /\ told' = told /\ thrown' = thrown
  BY DEF cvars
<1>2. SpecPhase => SpecPhase'
  BY <1>1 DEF SpecPhase, Fresh
<1>3. DeclPhase => DeclPhase'
  BY <1>1 DEF DeclPhase, Fresh
<1>4. RefPhase => RefPhase'
  BY <1>1 DEF RefPhase, Fresh, AllCounted
<1>5. EndPhase => EndPhase'
  BY <1>1 DEF EndPhase, Fresh, AllCounted, BuiltEnd, FailedEnd, LostEnd
<1> QED
  BY <1>1, <1>2, <1>3, <1>4, <1>5 DEF PhaseInv

LEMMA AnswerPhase == ASSUME QInv, PhaseInv, Answer PROVE PhaseInv'
  BY AnswerSpecPhase, AnswerDeclarationPhase, AnswerRefPhase DEF Answer

LEMMA InitPhase == Init => PhaseInv
<1> SUFFICES ASSUME Init PROVE PhaseInv
  OBVIOUS
<1>1. promise[Root].state = "pending"
  BY RootType DEF Init, QInit
<1> QED
  BY <1>1 DEF Init, PhaseInv, SpecPhase, Fresh

LEMMA PhaseStep == QInv /\ PhaseInv /\ [Next]_vars => PhaseInv'
<1> SUFFICES ASSUME QInv, PhaseInv, [Next]_vars PROVE PhaseInv'
  OBVIOUS
<1>1. CASE Answer
  BY <1>1, AnswerPhase
<1>2. CASE Turn
  BY <1>2, RootStays, PhaseStays DEF Turn
<1>3. ASSUME NEW h \in Handlers, NEW p \in Promises, Register(h, p) PROVE PhaseInv'
  BY <1>3, PhaseStays DEF Register, Then
<1>4. CASE UNCHANGED vars
  BY <1>4, PhaseStays DEF vars, qvars
<1> QED
  BY <1>1, <1>2, <1>3, <1>4 DEF Next

(***************************************************************************)
(* The load is always in one of its phases.                                *)
(***************************************************************************)
THEOREM Phases == Spec => []PhaseInv
  BY InitPhase, PhaseStep, QInvariant, PTL DEF Spec

LEMMA PhasesCount == PhaseInv => CountersAgree
<1> SUFFICES ASSUME PhaseInv PROVE CountersAgree
  OBVIOUS
<1>0. Cardinality({}) = 0
  BY FS_EmptySet
<1>1. CASE SpecPhase
  <2>1. Outstanding("decl") = {}
    BY <1>1, RequestKinds DEF SpecPhase, Outstanding
  <2>2. conv.processedCount = 0 /\ conv.expectedCount = 0
    BY <1>1 DEF SpecPhase, NoListing
  <2>3. conv.processedCount + Cardinality(Outstanding("decl")) = conv.expectedCount
    BY <1>0, <2>1, <2>2
  <2>4. round = NoRound /\ ~isBuilt
    BY <1>1 DEF SpecPhase, Fresh
  <2> QED
    BY <2>3, <2>4 DEF CountersAgree
<1>2. CASE DeclPhase
  <2>1. Outstanding("decl") = net
    BY <1>2, RequestKinds DEF DeclPhase, Outstanding
  <2> QED
    BY <1>2, <2>1 DEF CountersAgree, DeclPhase, Fresh
<1>3. CASE RefPhase
  <2>1. Outstanding("decl") = {} /\ Outstanding("ref") = net
    BY <1>3, RequestKinds DEF RefPhase, Outstanding
  <2>2. conv.processedCount + Cardinality(Outstanding("decl")) = conv.expectedCount
    BY <1>0, <1>3, <2>1 DEF RefPhase, AllCounted
  <2>3. /\ round.processedCalls + Cardinality(Outstanding("ref")) = round.expectedCalls
        /\ Outstanding("ref") # {} /\ ~isBuilt
    BY <1>3, <2>1 DEF RefPhase, Fresh
  <2> QED
    BY <2>2, <2>3 DEF CountersAgree
<1>4. CASE EndPhase
  <2>1. Outstanding("decl") = {}
    BY <1>4 DEF EndPhase, Outstanding
  <2> QED
    BY <1>0, <1>4, <2>1 DEF CountersAgree, EndPhase, AllCounted
<1> QED
  BY <1>1, <1>2, <1>3, <1>4 DEF PhaseInv

(***************************************************************************)
(* The counters of the converter and of the resolver tell the answers that *)
(* are still to come, for every world.                                     *)
(***************************************************************************)
THEOREM CountersAlwaysAgree == Spec => []CountersAgree
  BY Phases, PhasesCount, PTL

\* What ClientLoad sees, beside Outcome.
Listening == {h \in Handlers : parent[h] = Root} \cup (IF usePromise THEN {} ELSE {Caller})
Heard == [l \in {Caller} \cup Handlers |-> HeardBy(l)]

LEMMA OutcomeOfPhase ==
  ASSUME PhaseInv
  PROVE  /\ SpecPhase \/ DeclPhase \/ RefPhase => Outcome = "none" /\ Fresh
         /\ promise[Root].state = "fulfilled" => Outcome = "built"
         /\ promise[Root].state = "rejected" => Outcome = "failed"
<1>1. SpecPhase \/ DeclPhase \/ RefPhase => Outcome = "none" /\ Fresh
  BY DEF SpecPhase, DeclPhase, RefPhase, Fresh, Outcome
<1>2. ASSUME EndPhase
      PROVE  /\ promise[Root].state = "fulfilled" => Outcome = "built"
             /\ promise[Root].state = "rejected" => Outcome = "failed"
  BY <1>2 DEF EndPhase, BuiltEnd, FailedEnd, LostEnd, Fresh, Outcome
<1> QED
  BY <1>1, <1>2 DEF PhaseInv, Fresh

LEMMA EndOutcome ==
  /\ BuiltEnd => Outcome = "built" /\ HeardBy(Caller) = IF usePromise THEN "none" ELSE "built"
  /\ FailedEnd => Outcome = "failed" /\ HeardBy(Caller) = IF usePromise THEN "none" ELSE "failed"
  /\ LostEnd /\ net = {} => Outcome = "lost" /\ HeardBy(Caller) = "none"
  /\ Fresh => HeardBy(Caller) = "none"
  BY DEF BuiltEnd, FailedEnd, LostEnd, Fresh, Outcome, HeardBy

\* before the client's promise is settled none of its handlers has been called
LEMMA NobodyHeard ==
  ASSUME QInv, promise[Root].state = "pending", NEW h \in Handlers
  PROVE  HeardBy(h) = "none" /\ ~(parent[h] = Root /\ \E j \in DOMAIN ran : ran[j][1] = h)
<1>1. ~(parent[h] = Root /\ \E j \in DOMAIN ran : ran[j][1] = h)
  BY DEF QInv, PlacesAgree, RanAgree, Pending
<1> QED
  BY <1>1, WorldsAssumption DEF HeardBy

LEMMA InitLoad == Init => Load!Init
<1> SUFFICES ASSUME Init PROVE Load!Init
  OBVIOUS
<1>1. QInv /\ PhaseInv /\ SpecPhase /\ Fresh
  BY QInitInv, InitPhase DEF Init, SpecPhase, PhaseInv, DeclPhase, RefPhase, EndPhase, SpecRequest, Fresh
<1>2. Outcome = "none" /\ \A h \in Handlers : HeardBy(h) = "none"
  BY <1>1, OutcomeOfPhase, NobodyHeard DEF Fresh
<1>3. HeardBy(Caller) = "none"
  BY <1>1, EndOutcome
<1>4. Listening \in {{}, {Caller}}
  BY RootType DEF Init, QInit, Listening, NoParent
<1> QED
  BY <1>2, <1>3, <1>4 DEF Load!Init, Listening

\* an answer is heard by the callback only, in the turn that ends the load
LEMMA AnswerLoad ==
  ASSUME QInv, PhaseInv, PhaseInv', Answer
  PROVE  Load!Ends \/ UNCHANGED Load!lvars
<1>1. net # {} /\ usePromise' = usePromise
  BY DEF Answer, AnswerSpec, AnswerDeclaration, AnswerRef
<1>2. Outcome = "none" /\ Fresh
  BY <1>1, OutcomeOfPhase DEF PhaseInv, EndPhase
<1>3. parent' = parent /\ ran' = ran
  BY AnswerSettles DEF SettlesRoot, Settle, qvars
<1>4. Listening' = Listening
  BY <1>1, <1>3 DEF Listening
<1>5. \A h \in Handlers : HeardBy(h) = "none" /\ HeardBy(h)' = "none"
  BY <1>2, <1>3, NobodyHeard, WorldsAssumption DEF Fresh, HeardBy
<1>6. HeardBy(Caller) = "none"
  BY <1>2, EndOutcome
<1>7. Caller \in Listening <=> ~usePromise
  BY WorldsAssumption DEF Listening
<1>8. ASSUME NEW o \in {"built", "failed", "lost"}, Outcome' = o,
             HeardBy(Caller)' = IF usePromise \/ o = "lost" THEN "none" ELSE o
      PROVE  Load!Ends
  <2>1. Heard' = IF Caller \in Listening /\ o # "lost" THEN [Heard EXCEPT ![Caller] = o] ELSE Heard
    BY <1>5, <1>6, <1>7, <1>8 DEF Heard
  <2>2. Load!End(o)
    BY <1>2, <1>4, <1>8, <2>1 DEF Load!End, Listening, Heard
  <2> QED
    BY <2>2 DEF Load!Ends
<1>9. CASE (SpecPhase \/ DeclPhase \/ RefPhase)'
  <2>1. Outcome' = "none" /\ Fresh'
    BY <1>9, OutcomeOfPhase DEF SpecPhase, DeclPhase, RefPhase, Fresh, Outcome
  <2>2. HeardBy(Caller)' = "none"
    BY <2>1 DEF Fresh, HeardBy
  <2>3. Heard' = Heard
    BY <1>5, <1>6, <2>2 DEF Heard
  <2> QED
    BY <1>2, <1>4, <2>1, <2>3 DEF Load!lvars, Listening, Heard
<1>10. CASE EndPhase'
  <2>1. CASE BuiltEnd'
    <3>1. isBuilt' /\ told' = IF usePromise THEN <<>> ELSE <<"built">>
      BY <1>1, <2>1 DEF BuiltEnd
    <3>2. Outcome' = "built"
      BY <3>1 DEF Outcome
    <3>3. HeardBy(Caller)' = IF usePromise THEN "none" ELSE "built"
      BY <3>1 DEF HeardBy
    <3> QED
      BY <1>8, <3>2, <3>3
  <2>2. CASE FailedEnd'
    <3>1. Outcome' = "failed" /\ HeardBy(Caller)' = IF usePromise THEN "none" ELSE "failed"
      BY <1>1, <2>2 DEF FailedEnd, Outcome, HeardBy
    <3> QED
      BY <1>8, <3>1
  <2>3. CASE LostEnd'
    <3>1. Outcome' = "lost" /\ HeardBy(Caller)' = "none"
      BY <1>10, <2>3 DEF EndPhase, LostEnd, Fresh, Outcome, HeardBy
    <3> QED
      BY <1>8, <3>1
  <2> QED
    BY <1>10, <2>1, <2>2, <2>3 DEF EndPhase
<1> QED
  BY <1>9, <1>10 DEF PhaseInv

\* a handler of the client's own promise hears when it is called
LEMMA TurnLoad ==
  ASSUME QInv, PhaseInv, Turn
  PROVE  (\E l \in {Caller} \cup Handlers : Load!Hear(l)) \/ UNCHANGED Load!lvars
<1>1. /\ told' = told /\ isBuilt' = isBuilt /\ usePromise' = usePromise /\ thrown' = thrown /\ net' = net
      /\ promise'[Root].state = promise[Root].state
  BY RootStays DEF Turn, cvars
<1>2. parent' = parent
  BY DEF Turn, QStep, Tick, Dispatch, Run, Idle
<1>3. Outcome' = Outcome /\ Listening' = Listening /\ HeardBy(Caller)' = HeardBy(Caller)
  BY <1>1, <1>2 DEF Outcome, Listening, HeardBy
<1>4. CASE ran' = ran
  <2>1. \A h \in Handlers : HeardBy(h)' = HeardBy(h)
    BY <1>1, <1>2, <1>4 DEF HeardBy
  <2>2. Heard' = Heard
    BY <1>3, <2>1 DEF Heard
  <2> QED
    BY <1>3, <2>2 DEF Load!lvars, Listening, Heard
<1>5. ASSUME NEW called, NEW result, Run(called, result)
      PROVE  (\E l \in {Caller} \cup Handlers : Load!Hear(l)) \/ UNCHANGED Load!lvars
  <2>0. PICK h : h = Head(tasks).handler
    OBVIOUS
  <2>1. /\ h \in Handlers /\ tasks[1].handler = h /\ tasks[1].kind = "run" /\ 1 \in DOMAIN tasks
        /\ parent[h] \in Promises
    BY <1>5, <2>0, HeadOfQueue DEF Run
  <2>2. ~Pending(parent[h]) /\ \A j \in DOMAIN ran : ran[j][1] # h
    <3>1. Waits(h) /\ ~Pending(parent[h])
      BY <2>1 DEF QInv, PlacesAgree, TasksAgree
    <3> QED
      BY <3>1 DEF QInv, PlacesAgree, RanAgree, Waits
  <2>3. PICK how : ran' = Append(ran, <<h, how>>)
    BY <1>5, <2>0 DEF Run
  <2>4. \A g : (\E j \in DOMAIN ran' : ran'[j][1] = g) <=> (g = h \/ \E j \in DOMAIN ran : ran[j][1] = g)
    <3>1. ran \in Seq(Handlers \X (Settled \cup {"passed"}))
      BY DEF QInv, QTypeOK
    <3>2. /\ DOMAIN ran = 1 .. Len(ran) /\ DOMAIN ran' = 1 .. Len(ran) + 1 /\ Len(ran) \in Nat
          /\ \A j \in 1 .. Len(ran) : ran'[j] = ran[j]
          /\ ran'[Len(ran) + 1] = <<h, how>>
      BY <2>3, <3>1
    <3> QED
      BY <3>2
  <2>5. \A g \in Handlers : g # h => HeardBy(g)' = HeardBy(g)
    BY <1>1, <1>2, <2>4, WorldsAssumption DEF HeardBy
  <2>6. h # Caller
    BY <2>1, WorldsAssumption
  <2>7. CASE parent[h] = Root
    <3>1. promise[Root].state \in Settled
      BY <2>2, <2>7, PlaceTypes, RootType DEF Pending
    <3>2. /\ HeardBy(h) = "none"
          /\ HeardBy(h)' = IF promise[Root].state = "fulfilled" THEN "built" ELSE "failed"
      BY <1>1, <1>2, <2>2, <2>4, <2>6, <2>7 DEF HeardBy
    <3>3. HeardBy(h)' = Outcome /\ Outcome \in {"built", "failed"}
      BY <3>1, <3>2, OutcomeOfPhase DEF Settled
    <3>4. Heard' = [Heard EXCEPT ![h] = Outcome]
      BY <1>3, <2>1, <2>5, <2>6, <3>3 DEF Heard
    <3>5. h \in Listening \ {Caller} /\ Heard[h] = "none"
      BY <2>1, <2>6, <2>7, <3>2 DEF Listening, Heard
    <3>6. Load!Hear(h)
      BY <1>3, <3>3, <3>4, <3>5 DEF Load!Hear, Listening, Heard
    <3> QED
      BY <2>1, <3>6
  <2>8. CASE parent[h] # Root
    <3>1. HeardBy(h) = "none" /\ HeardBy(h)' = "none"
      BY <1>2, <2>6, <2>8 DEF HeardBy
    <3>2. Heard' = Heard
      BY <1>3, <2>5, <3>1 DEF Heard
    <3> QED
      BY <1>3, <3>2 DEF Load!lvars, Listening, Heard
  <2> QED
    BY <2>7, <2>8
<1> QED
  BY <1>4, <1>5 DEF Turn, QStep, Tick, Dispatch, Idle

\* who registers on the client's own promise listens
LEMMA RegisterLoad ==
  ASSUME QInv, NEW h \in Handlers, NEW p \in Promises, Register(h, p)
  PROVE  Load!Listen(h) \/ UNCHANGED Load!lvars
<1>1. /\ told' = told /\ isBuilt' = isBuilt /\ usePromise' = usePromise /\ thrown' = thrown /\ net' = net
      /\ promise' = promise /\ ran' = ran /\ parent[h] = NoParent
      /\ parent' = [parent EXCEPT ![h] = p]
  BY DEF Register, Then, cvars
<1>2. parent \in [Handlers -> Promises \cup {NoParent}] /\ h # Caller /\ NoParent # Root
  BY RootType, WorldsAssumption DEF QInv, QTypeOK
<1>3. Outcome' = Outcome /\ HeardBy(Caller)' = HeardBy(Caller)
  BY <1>1 DEF Outcome, HeardBy
<1>4. \A j \in DOMAIN ran : ran[j][1] # h
  BY <1>1 DEF QInv, PlacesAgree, RanAgree
<1>5. \A g \in Handlers : HeardBy(g)' = HeardBy(g)
  BY <1>1, <1>2, <1>4, WorldsAssumption DEF HeardBy
<1>6. Heard' = Heard
  BY <1>3, <1>5 DEF Heard
<1>7. h \notin Listening /\ Listening' = IF p = Root THEN Listening \cup {h} ELSE Listening
  BY <1>1, <1>2 DEF Listening
<1> QED
  BY <1>3, <1>6, <1>7 DEF Load!Listen, Load!lvars, Listening, Heard

LEMMA NextLoad == QInv /\ PhaseInv /\ PhaseInv' /\ [Next]_vars => [Load!Next]_(Load!lvars)
<1> SUFFICES ASSUME QInv, PhaseInv, PhaseInv', [Next]_vars PROVE Load!Next \/ UNCHANGED Load!lvars
  OBVIOUS
<1>1. CASE Answer
  BY <1>1, AnswerLoad DEF Load!Next
<1>2. CASE Turn
  BY <1>2, TurnLoad DEF Load!Next
<1>3. ASSUME NEW h \in Handlers, NEW p \in Promises, Register(h, p)
      PROVE  Load!Next \/ UNCHANGED Load!lvars
  BY <1>3, RegisterLoad DEF Load!Next
<1>4. CASE UNCHANGED vars
  BY <1>4 DEF vars, cvars, qvars, Load!lvars, Outcome, HeardBy
<1> QED
  BY <1>1, <1>2, <1>3, <1>4 DEF Next

(***************************************************************************)
(* The client does for those who wait for it what ClientLoad says: the     *)
(* load ends once, and everyone hears how it ended, once and nothing else. *)
(***************************************************************************)
THEOREM LoadImplemented == Spec => Load!Init /\ [][Load!Next]_(Load!lvars)
  BY InitLoad, QInvariant, Phases, NextLoad, PTL DEF Spec

-----------------------------------------------------------------------------
(***************************************************************************)
(* The groups when the first t tags of operation i have been gone through, *)
(* and all of the operations before it.                                    *)
(***************************************************************************)
Has(all, i, t, j, tag) == \/ j < i /\ HasTag(all[j], tag)
                          \/ j = i /\ \E u \in 1 .. t : all[i].tags[u] = tag
Holders(all, i, t, tag) == {j \in DOMAIN all : Has(all, i, t, j, tag)}
GroupIn(groups, tag) == IF tag \in DOMAIN groups THEN groups[tag] ELSE NoGroup
Increasing(array) == \A m, n \in DOMAIN array : m < n => array[m] < array[n]
Grouped(groups, all, i, t) ==
    /\ \A tag : tag \in DOMAIN groups <=> Holders(all, i, t, tag) # {}
    /\ \A tag : LET array == GroupIn(groups, tag).operationsArray
                IN  /\ Listed(array) /\ Increasing(array)
                    /\ Range(array) = Holders(all, i, t, tag)
ListedOperations(all) == Listed(all) /\ \A i \in DOMAIN all : Listed(all[i].tags) /\ Listed(all[i].id)
TagsDiffer(all) == \A i \in DOMAIN all : IsInjective(all[i].tags)

\* An operation has its own id for a name or, when an earlier one has the same,
\* the id and a number.
Twins(all, i) == {j \in DOMAIN all : Head(all[j].id) = Head(all[i].id)}
PlainIds(all) == \A i \in DOMAIN all : Len(all[i].id) = 1 /\ Cardinality(Twins(all, i)) <= 2
NameOf(all, j, name) ==
    \/ name = all[j].id
    \/ /\ name = Append(all[j].id, ToString(0))
       /\ \E k \in DOMAIN all : k < j /\ all[k].id = all[j].id
NamesIn(table, all) == \A name \in DOMAIN table : NameOf(all, table[name], name)
Named(groups, all) ==
    \A tag : LET group == GroupIn(groups, tag)
             IN  Range(group.table) = Range(group.operationsArray) /\ NamesIn(group.table, all)

LEMMA ShortIds ==
  ASSUME NEW all, ListedOperations(all), PlainIds(all), NEW i \in DOMAIN all
  PROVE  /\ all[i].id = <<Head(all[i].id)>>
         /\ Append(all[i].id, ToString(0)) = <<Head(all[i].id), ToString(0)>>
<1>1. all[i].id \in Seq(Range(all[i].id)) /\ Len(all[i].id) = 1
  BY DEF ListedOperations, PlainIds, Listed
<1>2. all[i].id = <<Head(all[i].id)>>
  BY <1>1
<1>3. ASSUME NEW a, NEW x PROVE Append(<<a>>, x) = <<a, x>>
  <2>1. <<a>> \in Seq({a, x}) /\ x \in {a, x} /\ Len(<<a>>) = 1 /\ <<a>>[1] = a
    OBVIOUS
  <2>2. \A s \in Seq({a, x}), y \in {a, x} :
          /\ Append(s, y) \in Seq({a, x}) /\ Len(Append(s, y)) = Len(s) + 1
          /\ Append(s, y)[Len(s) + 1] = y /\ \A m \in 1 .. Len(s) : Append(s, y)[m] = s[m]
    OBVIOUS
  <2> DEFINE t == Append(<<a>>, x)
  <2>3. t \in Seq({a, x}) /\ Len(t) = 2 /\ t[2] = x /\ t[1] = a
    <3> DEFINE s == <<a>>
    <3> HIDE DEF s
    <3> QED
      BY <2>1, <2>2 DEF s
  <2>4. <<a, x>> \in Seq({a, x}) /\ Len(<<a, x>>) = 2
    OBVIOUS
  <2> HIDE DEF t
  <2>5. \A m \in 1 .. Len(t) : t[m] = <<a, x>>[m]
    BY <2>3
  <2>6. t = <<a, x>>
    BY <2>3, <2>4, <2>5, SeqEqual
  <2> QED
    BY <2>6 DEF t
<1> QED
  BY <1>2, <1>3

LEMMA AtMostTwins ==
  ASSUME NEW all, ListedOperations(all), PlainIds(all),
         NEW i \in DOMAIN all, NEW j \in DOMAIN all, NEW k \in DOMAIN all, k < j, j < i,
         all[k].id = all[j].id, all[j].id = all[i].id
  PROVE  FALSE
<1>1. DOMAIN all = 1 .. Len(all) /\ Len(all) \in Nat
  BY ListedMembers DEF ListedOperations
<1>2. {i, j, k} \subseteq Twins(all, i)
  BY DEF Twins
<1>3. IsFiniteSet(Twins(all, i))
  <2>1. Twins(all, i) \in SUBSET (1 .. Len(all))
    BY <1>1 DEF Twins
  <2>2. IsFiniteSet(1 .. Len(all))
    BY <1>1, FS_Interval
  <2> QED
    BY <2>1, <2>2, FS_Subset
<1>4. Cardinality({i, j, k}) <= Cardinality(Twins(all, i))
  BY <1>2, <1>3, FS_Subset
<1>5. Cardinality({i, j, k}) = 3
  <2>1. IsFiniteSet({i}) /\ Cardinality({i}) = 1
    BY FS_Singleton
  <2>0. j \notin {i} /\ k \notin {i} \cup {j}
    BY <1>1
  <2>2. IsFiniteSet({i} \cup {j}) /\ Cardinality({i} \cup {j}) = 2
    BY <2>0, <2>1, FS_AddElement
  <2>3. Cardinality(({i} \cup {j}) \cup {k}) = 3
    <3> DEFINE pair == {i} \cup {j}
    <3> HIDE DEF pair
    <3>1. Cardinality(pair \cup {k}) = Cardinality(pair) + 1
      BY <2>0, <2>2, FS_AddElement DEF pair
    <3> QED
      BY <2>2, <3>1 DEF pair
  <2>4. {i, j, k} = ({i} \cup {j}) \cup {k}
    OBVIOUS
  <2> QED
    BY <2>3, <2>4
<1>6. Cardinality(Twins(all, i)) \in Nat /\ Cardinality(Twins(all, i)) <= 2
  BY <1>3, FS_CardinalityType DEF PlainIds
<1> QED
  BY <1>4, <1>5, <1>6

\* the name that is made is not in the table
LEMMA NameMade ==
  ASSUME NEW all, ListedOperations(all), PlainIds(all), NEW i \in DOMAIN all, NEW table,
         \A n \in DOMAIN table : table[n] \in DOMAIN all /\ table[n] < i,
         NamesIn(table, all), NEW name, NameOf(all, i, name)
  PROVE  /\ NameOf(all, i, MakeUnique(name, table, all))
         /\ MakeUnique(name, table, all) \notin DOMAIN table
<1> DEFINE nicknames == {all[table[n]].id : n \in DOMAIN table}
           candidate(k) == IF k = 0 THEN name ELSE Append(name, ToString(k - 1))
           free == {k \in 0..Len(all) : candidate(k) \notin nicknames}
           numbered == Append(all[i].id, ToString(0))
           least == CHOOSE k \in free : \A j \in free : k <= j
<1>0. DOMAIN all = 1 .. Len(all) /\ Len(all) \in Nat
  BY ListedMembers DEF ListedOperations
<1>1. MakeUnique(name, table, all) = candidate(least)
  BY DEF MakeUnique
<1>2. \A j \in DOMAIN all : numbered # all[j].id
  BY ShortIds
<1>3. numbered \notin nicknames
  BY <1>2
<1>4. ASSUME numbered \in DOMAIN table PROVE FALSE
  <2> DEFINE j == table[numbered]
  <2>1. j \in DOMAIN all /\ j < i /\ NameOf(all, j, numbered)
    BY <1>4 DEF NamesIn
  <2>2. PICK k \in DOMAIN all : k < j /\ all[k].id = all[j].id /\ numbered = Append(all[j].id, ToString(0))
    BY <1>2, <2>1 DEF NameOf
  <2>3. all[j].id = all[i].id
    <3> HIDE DEF j
    <3>1. <<Head(all[i].id), ToString(0)>> = <<Head(all[j].id), ToString(0)>>
      BY <2>1, <2>2, ShortIds
    <3> QED
      BY <2>1, <3>1, ShortIds
  <2> HIDE DEF j
  <2> QED
    BY <2>1, <2>2, <2>3, AtMostTwins
<1>5. ASSUME all[i].id \in DOMAIN table PROVE all[i].id \in nicknames
  <2> DEFINE j == table[all[i].id]
  <2>1. j \in DOMAIN all /\ NameOf(all, j, all[i].id)
    BY <1>5 DEF NamesIn
  <2>2. all[i].id # Append(all[j].id, ToString(0))
    <3> HIDE DEF j
    <3> QED
      BY <2>1, ShortIds
  <2>3. all[i].id = all[j].id
    BY <2>1, <2>2 DEF NameOf
  <2> QED
    BY <1>5, <2>3
<1>6. ASSUME candidate(0) \notin nicknames PROVE least = 0
  <2>1. 0 \in free
    BY <1>0, <1>6
  <2>2. free \subseteq Nat
    BY <1>0
  <2> HIDE DEF free
  <2>3. \A j \in free : 0 <= j
    BY <2>2
  <2>4. least \in free /\ \A j \in free : least <= j
    BY <2>1, <2>3
  <2> HIDE DEF least
  <2> QED
    BY <2>1, <2>2, <2>4
<1>7. CASE name = numbered
  <2>1. least = 0
    BY <1>3, <1>6, <1>7
  <2>2. MakeUnique(name, table, all) = numbered
    BY <1>1, <1>7, <2>1
  <2> QED
    BY <1>4, <1>7, <2>2
<1>8. CASE name = all[i].id /\ name \notin nicknames
  <2>1. least = 0
    BY <1>6, <1>8
  <2>2. MakeUnique(name, table, all) = name
    BY <1>1, <2>1
  <2> QED
    BY <1>5, <1>8, <2>2
<1>9. CASE name = all[i].id /\ name \in nicknames
  <2>1. candidate(1) = numbered
    BY <1>9
  <2>2. 0 \notin free /\ 1 \in free
    BY <1>0, <1>3, <1>9, <2>1
  <2>3. least = 1
    <3>1. free \subseteq Nat
      BY <1>0
    <3> HIDE DEF free
    <3>2. \A j \in free : 1 <= j
      BY <2>2, <3>1
    <3>3. least \in free /\ \A j \in free : least <= j
      BY <2>2, <3>2
    <3> HIDE DEF least
    <3> QED
      BY <2>2, <3>1, <3>2, <3>3
  <2>4. MakeUnique(name, table, all) = numbered
    <3> HIDE DEF candidate, least
    <3> QED
      BY <1>1, <2>1, <2>3
  <2>5. \E k \in DOMAIN all : k < i /\ all[k].id = all[i].id
    BY <1>9
  <2> QED
    BY <1>4, <2>4, <2>5 DEF NameOf
<1> QED
  BY <1>7, <1>8, <1>9 DEF NameOf

LEMMA HoldersGrow ==
  ASSUME NEW all, ListedOperations(all), TagsDiffer(all), NEW i \in DOMAIN all,
         NEW t \in 1 .. Len(all[i].tags)
  PROVE  /\ \A tag : tag # all[i].tags[t] => Holders(all, i, t, tag) = Holders(all, i, t - 1, tag)
         /\ Holders(all, i, t, all[i].tags[t]) = Holders(all, i, t - 1, all[i].tags[t]) \cup {i}
         /\ \A j \in Holders(all, i, t - 1, all[i].tags[t]) : j < i
<1>1. DOMAIN all[i].tags = 1 .. Len(all[i].tags) /\ Len(all[i].tags) \in Nat /\ t \in Nat
  BY ListedMembers DEF ListedOperations
<1>2. 1 .. t = (1 .. t - 1) \cup {t} /\ 1 .. t - 1 \subseteq DOMAIN all[i].tags
  BY <1>1
<1>3. \A u \in 1 .. t - 1 : all[i].tags[u] # all[i].tags[t]
  BY <1>1, <1>2 DEF TagsDiffer, IsInjective
<1>4. ASSUME NEW tag, NEW j, tag # all[i].tags[t] PROVE Has(all, i, t, j, tag) <=> Has(all, i, t - 1, j, tag)
  BY <1>2, <1>4 DEF Has
<1>5. ASSUME NEW j PROVE Has(all, i, t, j, all[i].tags[t]) <=> Has(all, i, t - 1, j, all[i].tags[t]) \/ j = i
  BY <1>2 DEF Has
<1>6. ASSUME NEW j, Has(all, i, t - 1, j, all[i].tags[t]) PROVE j < i
  BY <1>3, <1>6 DEF Has
<1> QED
  BY <1>4, <1>5, <1>6 DEF Holders

LEMMA IncreasingAppend ==
  ASSUME NEW s, Listed(s), Increasing(s), NEW i, \A j \in Range(s) : j < i
  PROVE  /\ Listed(Append(s, i)) /\ Increasing(Append(s, i))
         /\ Range(Append(s, i)) = Range(s) \cup {i}
<1>1. DOMAIN s = 1 .. Len(s) /\ Len(s) \in Nat
  BY ListedMembers
<1> DEFINE a == Append(s, i)
           n == Len(s)
<1>2. /\ Listed(a) /\ DOMAIN a = 1 .. n + 1 /\ a[n + 1] = i
      /\ \A m \in 1 .. n : a[m] = s[m]
  BY ListedAppend
<1> HIDE DEF a, n
<1>3. DOMAIN s = 1 .. n /\ n \in Nat
  BY <1>1 DEF n
<1>4. Range(a) = Range(s) \cup {i}
  BY <1>2, <1>3 DEF Range
<1>5. ASSUME NEW x \in DOMAIN a, NEW y \in DOMAIN a, x < y PROVE a[x] < a[y]
  <2>1. x \in 1 .. n
    BY <1>2, <1>3, <1>5
  <2>2. s[x] \in Range(s)
    BY <1>3, <2>1 DEF Range
  <2>3. CASE y = n + 1
    BY <1>2, <2>1, <2>2, <2>3
  <2>4. CASE y # n + 1
    <3>1. y \in 1 .. n
      BY <1>2, <1>3, <2>4
    <3> QED
      BY <1>2, <1>3, <1>5, <2>1, <3>1 DEF Increasing
  <2> QED
    BY <2>3, <2>4
<1> QED
  BY <1>2, <1>4, <1>5 DEF Increasing, a

\* what one operation added under one tag leaves of the groups
LEMMA AddedGroup ==
  ASSUME NEW built, NEW tag, NEW all, NEW i \in DOMAIN all
  PROVE  /\ AddToGroup(built, i, tag, all).name = MakeUnique(built.name, GroupIn(built.apis, tag).table, all)
         /\ DOMAIN AddToGroup(built, i, tag, all).apis = DOMAIN built.apis \cup {tag}
         /\ GroupIn(AddToGroup(built, i, tag, all).apis, tag).table =
               With(GroupIn(built.apis, tag).table, AddToGroup(built, i, tag, all).name, i)
         /\ GroupIn(AddToGroup(built, i, tag, all).apis, tag).operationsArray =
               Append(GroupIn(built.apis, tag).operationsArray, i)
         /\ \A other : other # tag => GroupIn(AddToGroup(built, i, tag, all).apis, other) = GroupIn(built.apis, other)
<1> DEFINE old == GroupIn(built.apis, tag)
           name == MakeUnique(built.name, old.table, all)
           table == With(old.table, name, i)
           array == Append(old.operationsArray, i)
           group == [table |-> table, operationsArray |-> array]
           after == AddToGroup(built, i, tag, all)
<1>1. after = [apis |-> With(built.apis, tag, group), name |-> name]
  BY Zenon DEF AddToGroup, GroupIn
<1> HIDE DEF after, group, name, table, array
<1>2. after.name = name /\ after.apis = With(built.apis, tag, group)
  BY <1>1
<1>3. GroupIn(after.apis, tag) = group /\ DOMAIN after.apis = DOMAIN built.apis \cup {tag}
  BY <1>2 DEF GroupIn, With
<1>4. ASSUME NEW other, other # tag PROVE GroupIn(after.apis, other) = GroupIn(built.apis, other)
  BY <1>2, <1>4 DEF GroupIn, With
<1>5. GroupIn(after.apis, tag).table = table /\ GroupIn(after.apis, tag).operationsArray = array
  BY <1>3 DEF group
<1>6. after.name = MakeUnique(built.name, old.table, all)
  BY <1>2 DEF name
<1> QED
  BY <1>2, <1>3, <1>4, <1>5, <1>6 DEF after, table, array

LEMMA AddStep ==
  ASSUME NEW all, ListedOperations(all), TagsDiffer(all), NEW i \in DOMAIN all,
         NEW t \in 1 .. Len(all[i].tags), NEW built, Grouped(built.apis, all, i, t - 1)
  PROVE  Grouped(AddToGroup(built, i, all[i].tags[t], all).apis, all, i, t)
<1> DEFINE tag == all[i].tags[t]
           old == GroupIn(built.apis, tag)
           after == AddToGroup(built, i, tag, all)
           H(u) == Holders(all, i, t, u)
           G(u) == Holders(all, i, t - 1, u)
<1>1. /\ DOMAIN after.apis = DOMAIN built.apis \cup {tag}
      /\ GroupIn(after.apis, tag).operationsArray = Append(old.operationsArray, i)
      /\ \A other : other # tag => GroupIn(after.apis, other) = GroupIn(built.apis, other)
  <2> HIDE DEF tag
  <2> QED
    BY AddedGroup
<1>2. /\ \A u : u # tag => H(u) = G(u)
      /\ H(tag) = G(tag) \cup {i}
      /\ \A j \in G(tag) : j < i
  BY HoldersGrow
<1>3. /\ \A u : u \in DOMAIN built.apis <=> G(u) # {}
      /\ \A u : LET array == GroupIn(built.apis, u).operationsArray
                IN  Listed(array) /\ Increasing(array) /\ Range(array) = G(u)
  BY DEF Grouped
<1> HIDE DEF tag, old, after, H, G
<1>4. ASSUME NEW u PROVE u \in DOMAIN after.apis <=> H(u) # {}
  BY <1>1, <1>2, <1>3
<1>5. ASSUME NEW u
      PROVE  LET array == GroupIn(after.apis, u).operationsArray
             IN  Listed(array) /\ Increasing(array) /\ Range(array) = H(u)
  <2>1. CASE u = tag
    <3>1. Listed(old.operationsArray) /\ Increasing(old.operationsArray) /\ Range(old.operationsArray) = G(tag)
      BY <1>3 DEF old
    <3>2. LET a == Append(old.operationsArray, i) IN Listed(a) /\ Increasing(a) /\ Range(a) = G(tag) \cup {i}
      BY <1>2, <3>1, IncreasingAppend
    <3> QED
      BY <1>1, <1>2, <2>1, <3>2
  <2>2. CASE u # tag
    BY <1>1, <1>2, <1>3, <2>2
  <2> QED
    BY <2>1, <2>2
<1> QED
  BY <1>4, <1>5 DEF Grouped, H, after, tag

LEMMA NameStep ==
  ASSUME NEW all, ListedOperations(all), TagsDiffer(all), PlainIds(all), NEW i \in DOMAIN all,
         NEW t \in 1 .. Len(all[i].tags), NEW built, Grouped(built.apis, all, i, t - 1),
         Named(built.apis, all), NameOf(all, i, built.name)
  PROVE  LET after == AddToGroup(built, i, all[i].tags[t], all)
         IN  Named(after.apis, all) /\ NameOf(all, i, after.name)
<1> DEFINE tag == all[i].tags[t]
           old == GroupIn(built.apis, tag)
           name == MakeUnique(built.name, old.table, all)
           after == AddToGroup(built, i, tag, all)
<1>1. /\ after.name = name
      /\ GroupIn(after.apis, tag).table = With(old.table, name, i)
      /\ GroupIn(after.apis, tag).operationsArray = Append(old.operationsArray, i)
      /\ \A other : other # tag => GroupIn(after.apis, other) = GroupIn(built.apis, other)
  <2> HIDE DEF tag
  <2> QED
    BY AddedGroup
<1>2. /\ Listed(old.operationsArray) /\ Increasing(old.operationsArray)
      /\ Range(old.operationsArray) = Holders(all, i, t - 1, tag)
  BY DEF Grouped
<1>3. \A j \in Range(old.operationsArray) : j < i /\ j \in DOMAIN all
  BY <1>2, HoldersGrow DEF Holders
<1>4. Range(old.table) = Range(old.operationsArray) /\ NamesIn(old.table, all)
  BY DEF Named
<1>5. NameOf(all, i, name) /\ name \notin DOMAIN old.table
  <2>1. \A n \in DOMAIN old.table : old.table[n] \in DOMAIN all /\ old.table[n] < i
    BY <1>3, <1>4 DEF Range
  <2> HIDE DEF old
  <2> QED
    BY <1>4, <2>1, NameMade
<1> DEFINE table == With(old.table, name, i)
<1>6. /\ DOMAIN table = DOMAIN old.table \cup {name} /\ table[name] = i
      /\ \A n \in DOMAIN old.table : table[n] = old.table[n]
  BY <1>5 DEF With
<1>7. Range(Append(old.operationsArray, i)) = Range(old.operationsArray) \cup {i}
  BY <1>2, <1>3, IncreasingAppend
<1> HIDE DEF table, old, after, tag, name
<1>8. Range(table) = Range(old.table) \cup {i}
  BY <1>6 DEF Range
<1>9. NamesIn(table, all)
  BY <1>4, <1>5, <1>6 DEF NamesIn
<1>10. ASSUME NEW u PROVE LET group == GroupIn(after.apis, u)
                          IN  Range(group.table) = Range(group.operationsArray) /\ NamesIn(group.table, all)
  <2>1. CASE u = tag
    <3>1. GroupIn(after.apis, u).table = table /\ GroupIn(after.apis, u).operationsArray = Append(old.operationsArray, i)
      BY <1>1, <2>1 DEF table
    <3> QED
      BY <1>4, <1>7, <1>8, <1>9, <3>1
  <2>2. CASE u # tag
    <3>1. GroupIn(after.apis, u) = GroupIn(built.apis, u)
      BY <1>1, <2>2
    <3> QED
      BY <3>1 DEF Named
  <2> QED
    BY <2>1, <2>2
<1> QED
  BY <1>1, <1>5, <1>10 DEF Named, after, tag

LEMMA OneOperation ==
  ASSUME NEW all, ListedOperations(all), TagsDiffer(all), NEW i \in DOMAIN all,
         NEW groups, Grouped(groups, all, i, 0), PlainIds(all) => Named(groups, all)
  PROVE  /\ Grouped(AddOperationToGroups(groups, i, all), all, i, Len(all[i].tags))
         /\ PlainIds(all) => Named(AddOperationToGroups(groups, i, all), all)
<1> DEFINE tags == all[i].tags
           len == Len(tags)
           base == [apis |-> groups, name |-> all[i].id]
           under[t \in 0..len] == IF t = 0 THEN base ELSE AddToGroup(under[t - 1], i, tags[t], all)
<1>0. len \in Nat
  BY ListedMembers DEF ListedOperations
<1>1. AddOperationToGroups(groups, i, all) = under[len].apis
  BY DEF AddOperationToGroups
<1>2. under[0] = base /\ \A t \in 1 .. len : under[t] = AddToGroup(under[t - 1], i, tags[t], all)
  <2> DEFINE a == [i |-> i, operations |-> all]
  <2>1. PICK f : IsChain("tag", a, base, len, f)
    BY <1>0, ChainExists
  <2>2. f = [t \in 0..len |-> IF t = 0 THEN base ELSE AddToGroup(f[t - 1], i, tags[t], all)]
    <3> HIDE DEF base
    <3> QED
      BY <2>1 DEF IsChain, Step
  <2>3. under = [t \in 0..len |-> IF t = 0 THEN base ELSE AddToGroup(under[t - 1], i, tags[t], all)]
    BY <2>2
  <2> HIDE DEF under, base, len
  <2> QED
    BY <1>0, <2>3
<1> HIDE DEF under
<1> DEFINE good(t) == /\ Grouped(under[t].apis, all, i, t)
                      /\ PlainIds(all) => Named(under[t].apis, all) /\ NameOf(all, i, under[t].name)
           B == {t \in 0 .. len : ~good(t)}
<1>3. good(0)
  <2>1. under[0].apis = groups /\ under[0].name = all[i].id
    BY <1>2
  <2> QED
    BY <2>1 DEF NameOf
<1>4. ASSUME NEW t \in 1 .. len, good(t - 1) PROVE good(t)
  <2>1. Grouped(AddToGroup(under[t - 1], i, tags[t], all).apis, all, i, t)
    BY <1>4, AddStep
  <2>2. PlainIds(all) => LET after == AddToGroup(under[t - 1], i, tags[t], all)
                         IN  Named(after.apis, all) /\ NameOf(all, i, after.name)
    BY <1>4, NameStep
  <2> QED
    BY <1>2, <2>1, <2>2
<1> HIDE DEF good
<1>5. B = {}
  <2> SUFFICES ASSUME B # {} PROVE FALSE
    OBVIOUS
  <2>1. PICK t \in B : \A u \in B : t <= u
    <3>1. B \in SUBSET Nat
      BY <1>0
    <3> HIDE DEF B
    <3> QED
      BY <3>1, LeastNat
  <2>2. t # 0
    BY <1>3
  <2>3. t \in 1 .. len /\ t - 1 \in 0 .. len /\ t - 1 \notin B
    BY <1>0, <2>1, <2>2
  <2> QED
    BY <1>4, <2>1, <2>3
<1>6. good(len)
  BY <1>0, <1>5
<1> QED
  BY <1>1, <1>6 DEF good

\* the next operation begins where this one's tags end
LEMMA NextOperation ==
  ASSUME NEW all, ListedOperations(all), NEW i \in DOMAIN all,
         NEW groups, Grouped(groups, all, i, Len(all[i].tags))
  PROVE  Grouped(groups, all, i + 1, 0)
<1>1. /\ DOMAIN all = 1 .. Len(all) /\ Len(all) \in Nat
      /\ DOMAIN all[i].tags = 1 .. Len(all[i].tags)
  BY ListedMembers DEF ListedOperations
<1>2. ASSUME NEW j \in DOMAIN all, NEW tag
      PROVE  Has(all, i, Len(all[i].tags), j, tag) <=> Has(all, i + 1, 0, j, tag)
  <2>1. j < i + 1 <=> j < i \/ j = i
    BY <1>1
  <2> QED
    BY <1>1, <2>1 DEF Has, HasTag
<1>3. \A tag : Holders(all, i, Len(all[i].tags), tag) = Holders(all, i + 1, 0, tag)
  BY <1>2 DEF Holders
<1> QED
  BY <1>3 DEF Grouped

LEMMA AllGrouped ==
  ASSUME NEW all, ListedOperations(all), TagsDiffer(all)
  PROVE  /\ Grouped(BuildApis(all), all, Len(all) + 1, 0)
         /\ PlainIds(all) => Named(BuildApis(all), all)
<1> DEFINE len == Len(all)
           groups[i \in 0..len] == IF i = 0 THEN <<>> ELSE AddOperationToGroups(groups[i - 1], i, all)
<1>0. len \in Nat /\ DOMAIN all = 1 .. len
  BY ListedMembers DEF ListedOperations
<1>1. BuildApis(all) = groups[len]
  BY DEF BuildApis
<1>2. groups[0] = <<>> /\ \A i \in 1 .. len : groups[i] = AddOperationToGroups(groups[i - 1], i, all)
  <2>1. PICK f : IsChain("operations", all, <<>>, len, f)
    BY <1>0, ChainExists
  <2>2. f = [i \in 0..len |-> IF i = 0 THEN <<>> ELSE AddOperationToGroups(f[i - 1], i, all)]
    BY <2>1 DEF IsChain, Step
  <2>3. groups = [i \in 0..len |-> IF i = 0 THEN <<>> ELSE AddOperationToGroups(groups[i - 1], i, all)]
    BY <2>2
  <2> HIDE DEF groups, len
  <2> QED
    BY <1>0, <2>3
<1> HIDE DEF groups
<1> DEFINE good(i) == /\ Grouped(groups[i], all, i + 1, 0)
                      /\ PlainIds(all) => Named(groups[i], all)
           B == {i \in 0 .. len : ~good(i)}
<1>3. good(0)
  <2>1. /\ DOMAIN groups[0] = {}
        /\ \A tag : GroupIn(groups[0], tag) = NoGroup
    BY <1>2 DEF GroupIn
  <2>2. /\ NoGroup.operationsArray = <<>> /\ NoGroup.table = <<>>
        /\ Listed(<<>>) /\ Increasing(<<>>) /\ Range(<<>>) = {}
    BY EmptySeq DEF NoGroup, Increasing, Range, Listed
  <2>3. \A tag : Holders(all, 0 + 1, 0, tag) = {}
    BY <1>0 DEF Holders, Has
  <2>4. Grouped(groups[0], all, 0 + 1, 0)
    BY <2>1, <2>2, <2>3 DEF Grouped
  <2>5. NamesIn(<<>>, all)
    BY DEF NamesIn
  <2>6. Named(groups[0], all)
    BY <2>1, <2>2, <2>5 DEF Named
  <2> QED
    BY <2>4, <2>6
<1>4. ASSUME NEW i \in 1 .. len, good(i - 1) PROVE good(i)
  <2>1. i \in DOMAIN all /\ (i - 1) + 1 = i
    BY <1>0
  <2>2. Grouped(groups[i - 1], all, i, 0) /\ (PlainIds(all) => Named(groups[i - 1], all))
    BY <1>4, <2>1
  <2>3. /\ Grouped(groups[i], all, i, Len(all[i].tags))
        /\ PlainIds(all) => Named(groups[i], all)
    BY <1>2, <2>1, <2>2, OneOperation
  <2> QED
    BY <2>1, <2>3, NextOperation
<1> HIDE DEF good
<1>5. B = {}
  <2> SUFFICES ASSUME B # {} PROVE FALSE
    OBVIOUS
  <2>1. PICK i \in B : \A j \in B : i <= j
    <3>1. B \in SUBSET Nat
      BY <1>0
    <3> HIDE DEF B
    <3> QED
      BY <3>1, LeastNat
  <2>2. i # 0
    BY <1>3
  <2>3. i \in 1 .. len /\ i - 1 \in 0 .. len /\ i - 1 \notin B
    BY <1>0, <2>1, <2>2
  <2> QED
    BY <1>4, <2>1, <2>3
<1>6. good(len)
  BY <1>0, <1>5
<1> QED
  BY <1>1, <1>6 DEF good

LEMMA AllOffered ==
  ASSUME NEW all, ListedOperations(all), TagsDiffer(all),
         NEW i \in DOMAIN all, NEW tag \in Range(all[i].tags)
  PROVE  tag \in DOMAIN BuildApis(all) /\ Offered(all, tag, BuildApis(all)[tag])
<1> DEFINE groups == BuildApis(all)
           n == Len(all) + 1
<1>0. DOMAIN all = 1 .. Len(all) /\ Len(all) \in Nat
  BY ListedMembers DEF ListedOperations
<1>1. Grouped(groups, all, n, 0) /\ (PlainIds(all) => Named(groups, all))
  BY AllGrouped
<1> HIDE DEF groups
<1>2. \A j \in DOMAIN all : Has(all, n, 0, j, tag) <=> HasTag(all[j], tag)
  BY <1>0 DEF Has
<1>3. Holders(all, n, 0, tag) = {j \in DOMAIN all : HasTag(all[j], tag)}
  BY <1>2 DEF Holders
<1>4. i \in Holders(all, n, 0, tag)
  BY <1>3 DEF Range, HasTag
<1>5. tag \in DOMAIN groups /\ GroupIn(groups, tag) = groups[tag]
  BY <1>1, <1>4 DEF Grouped, GroupIn
<1> DEFINE group == groups[tag]
<1>6. Increasing(group.operationsArray) /\ Range(group.operationsArray) = {j \in DOMAIN all : HasTag(all[j], tag)}
  BY <1>1, <1>3, <1>5 DEF Grouped
<1>7. PlainIds(all) => Range(group.table) = Range(group.operationsArray)
  BY <1>1, <1>5 DEF Named
<1>8. PlainIds(all) <=> \A k \in DOMAIN all :
        Len(all[k].id) = 1 /\ Cardinality({j \in DOMAIN all : Head(all[j].id) = Head(all[k].id)}) <= 2
  BY Zenon DEF PlainIds, Twins
<1> HIDE DEF group
<1>9. Offered(all, tag, group)
  BY <1>6, <1>7, <1>8 DEF Offered, Increasing
<1> QED
  BY <1>5, <1>9 DEF group, groups

(***************************************************************************)
(* A built client offers every operation under each of its tags, once and  *)
(* in the order of the description, when no operation names a tag twice;   *)
(* and its table of functions loses none unless more than two operations   *)
(* have the same id or an id looks like a name the client makes up: for    *)
(* every description, not only those of the runs.  It is what the end of a *)
(* build says of the groups, carried through the loops over operations and *)
(* tags of buildFromSpec.                                                  *)
(***************************************************************************)
THEOREM EveryOperationIsOffered == Spec => []EveryOperationOffered
<1>1. PhaseInv => EveryOperationOffered
  <2> SUFFICES ASSUME PhaseInv, isBuilt, TagsDiffer(round.spec.operations),
                      NEW i \in DOMAIN round.spec.operations,
                      NEW tag \in Range(round.spec.operations[i].tags)
               PROVE  tag \in DOMAIN apis /\ Offered(round.spec.operations, tag, apis[tag])
    BY Zenon DEF EveryOperationOffered, TagsDiffer
  <2>1. BuiltEnd
    BY DEF PhaseInv, SpecPhase, DeclPhase, RefPhase, EndPhase, Fresh, FailedEnd, LostEnd
  <2>2. ListedOperations(round.spec.operations)
    BY <2>1 DEF BuiltEnd, Readable, ListedOperations
  <2>3. apis = BuildApis(round.spec.operations)
    BY <2>1 DEF BuiltEnd
  <2> QED
    BY <2>2, <2>3, AllOffered
<1> QED
  BY <1>1, Phases, PTL

-----------------------------------------------------------------------------
(***************************************************************************)
(* What the references of a description mean between two rounds: they are  *)
(* local and lead to a definition that comes from the document meant, or   *)
(* they lead into another document that the next round will fetch.  homes  *)
(* are the pairs of a document and a name it defines.                      *)
(***************************************************************************)
Shaped(r) == DOMAIN r = {"how", "root", "name", "doc"} /\ r.how \in {"ref", "inline"}
MeantHere(spec, r) == r.root = Here /\ r.name \in DOMAIN spec.defs /\ spec.defs[r.name].doc = r.doc
MeantThere(r, level) == r.root = r.doc /\ r.root \notin {Here, Own} /\ Target(r) \in level
Meant(spec, r, level) ==
    Shaped(r) /\ ((r.how = "ref" /\ MeantHere(spec, r)) \/ MeantThere(r, level))
AtHome(spec, homes) == \A n \in DOMAIN spec.defs : <<spec.defs[n].doc, n>> \in homes
SpecMeant(spec, level, homes) ==
    /\ AtHome(spec, homes)
    /\ \A i \in Table(spec) : Meant(spec, i[2], level)
AllHere(spec) == \A i \in Table(spec) : Shaped(i[2]) /\ MeantHere(spec, i[2])

OneHome(homes) == \A p \in homes, q \in homes : p[2] = q[2] => p[1] = q[1]
\* the targets of one round and of the next
Leads(web, level, next, homes) ==
    /\ \A t \in level : /\ t \in homes /\ t[1] \in DOMAIN web /\ t[2] \in DOMAIN web[t[1]]
                        /\ \A r \in web[t[1]][t[2]] : Target(r) \in next
    /\ \A t \in next : t[1] \notin {Here, Own}
WellWritten(web) ==
    \A url \in DOMAIN web : /\ url \notin {Here, Own}
                            /\ \A n \in DOMAIN web[url] : Written(web[url][n], url)
\* what was fetched for a reference
Fetched(resolved, r, web) ==
    resolved[Key(r)].doc = r.root /\ resolved[Key(r)].refs = web[r.root][r.name]

LEMMA TargetIs == \A r : Target(r) = <<r.doc, r.name>> /\ Target(r)[1] = r.doc /\ Target(r)[2] = r.name
  BY DEF Target

LEMMA TableRefs ==
  ASSUME NEW spec, NEW h \in {Ops} \cup DOMAIN spec.defs, NEW r \in RefsOf(spec, h)
  PROVE  <<h, r>> \in Table(spec) /\ \E i \in Table(spec) : i[2] = r
<1>1. <<h, r>> \in Table(spec)
  BY DEF Table
<1>2. <<h, r>>[2] = r
  OBVIOUS
<1> QED
  BY <1>1, <1>2

LEMMA TableItem ==
  ASSUME NEW spec, NEW i \in Table(spec)
  PROVE  i[1] \in {Ops} \cup DOMAIN spec.defs /\ i[2] \in RefsOf(spec, i[1]) /\ i = <<i[1], i[2]>>
<1>1. PICK h \in {Ops} \cup DOMAIN spec.defs : \E r \in RefsOf(spec, h) : i = <<h, r>>
  BY DEF Table
<1> QED
  BY <1>1

\* references into other documents have one key only when they mean the same
LEMMA KeysTell ==
  ASSUME NEW r, NEW q, NEW level, NEW homes, OneHome(homes), level \subseteq homes,
         Shaped(r), Shaped(q), MeantThere(r, level), MeantThere(q, level), Key(r) = Key(q)
  PROVE  r.root = q.root /\ r.name = q.name
<1>1. Target(r) \in homes /\ Target(q) \in homes /\ r.root # Here /\ q.root # Here
  BY DEF MeantThere
<1>2. CASE r.how = "ref" /\ q.how = "ref"
  <2>1. r.name = q.name
    BY <1>1, <1>2 DEF Key
  <2>2. r.doc = q.doc
    BY <1>1, <2>1, TargetIs DEF OneHome
  <2> QED
    BY <2>1, <2>2 DEF MeantThere
<1>3. CASE r.how = "inline" /\ q.how = "inline"
  BY <1>3 DEF Key
<1>4. CASE r.how # q.how
  <2>1. \A a, b, c : <<a>> # <<b, c>>
    OBVIOUS
  <2> QED
    BY <1>1, <1>4, <2>1 DEF Key, Shaped
<1> QED
  BY <1>2, <1>3, <1>4 DEF Shaped

\* the references of an object that was fetched, made absolute, are for the next round
LEMMA RetainedMeant ==
  ASSUME NEW web, WellWritten(web), NEW level, NEW next, NEW homes, Leads(web, level, next, homes),
         NEW r, MeantThere(r, level), NEW spec, NEW x \in Retain(web[r.root][r.name], r.root)
  PROVE  Meant(spec, x, next)
<1> DEFINE refs == web[r.root][r.name]
<1>1. r.root \in DOMAIN web /\ r.name \in DOMAIN web[r.root]
      /\ \A y \in refs : Target(y) \in next
  <2>1. Target(r)[1] = r.root /\ Target(r)[2] = r.name /\ Target(r) \in level
    BY TargetIs DEF MeantThere
  <2> QED
    BY <2>1 DEF Leads
<1>2. Written(refs, r.root)
  BY <1>1 DEF WellWritten
<1>3. r.root \notin {Here, Own}
  BY DEF MeantThere
<1> HIDE DEF refs
<1>4. PICK y \in refs : x = IF y.root = Here THEN [y EXCEPT !.root = r.root] ELSE y
  BY DEF Retain, refs
<1>5. DOMAIN y = {"how", "root", "name", "doc"} /\ y.how \in {"ref", "inline"}
      /\ y.doc = IF y.root = Here THEN r.root ELSE y.root
  BY <1>2 DEF Written
<1>6. Target(y) \in next /\ Target(y)[1] = y.doc
  BY <1>1, TargetIs
<1>7. y.doc \notin {Here, Own}
  BY <1>6 DEF Leads
<1>8. CASE y.root = Here
  <2>1. x = [y EXCEPT !.root = r.root]
    BY <1>4, <1>8
  <2>2. DOMAIN x = DOMAIN y /\ x.root = r.root /\ x.how = y.how /\ x.name = y.name /\ x.doc = y.doc
    BY <1>5, <2>1
  <2>3. Target(x) = Target(y)
    BY <2>2, TargetIs
  <2> QED
    BY <1>3, <1>5, <1>6, <1>8, <2>2, <2>3 DEF Meant, Shaped, MeantThere
<1>9. CASE y.root # Here
  BY <1>4, <1>5, <1>6, <1>7, <1>9 DEF Meant, Shaped, MeantThere
<1> QED
  BY <1>8, <1>9

\* every reference into another document was fetched, and is copied from where
\* it leads
AllFetched(spec, level, resolved, first, web) ==
    \A i \in Table(spec) : MeantThere(i[2], level) =>
        /\ Key(i[2]) \in DOMAIN resolved /\ Fetched(resolved, i[2], web)
        /\ first[Key(i[2])] = i[2].root

LEMMA InstalledMeant ==
  ASSUME NEW spec, NEW web, WellWritten(web), NEW level, NEW next, NEW homes, OneHome(homes),
         Leads(web, level, next, homes), SpecMeant(spec, level, homes),
         NEW resolved, NEW first, AllFetched(spec, level, resolved, first, web),
         Readable(spec)
  PROVE  SpecMeant(Install(spec, resolved, first, FALSE), next, homes)
<1> DEFINE hit(r) == Key(r) \in DOMAIN resolved
           inlined == {i[2] : i \in {j \in Table(spec) : j[2].how = "inline" /\ hit(j[2])}}
           copied == {i[2] : i \in {j \in Table(spec) : j[2].how = "ref" /\ j[2].root # Here /\ hit(j[2])}}
           retained(r, refs) == IF FALSE THEN refs ELSE Retain(refs, first[Key(r)])
           held(n) == IF \E r \in inlined : IsLocal(r) /\ r.name = n /\ ~FALSE
                      THEN Retain(spec.defs[n].refs, Own) ELSE spec.defs[n].refs
           localised(refs) == {IF r \in copied THEN [r EXCEPT !.root = Here] ELSE r : r \in refs}
           object(r) == IF IsLocal(r) THEN localised(held(r.name))
                        ELSE retained(r, resolved[Key(r)].refs)
           rewritten(refs) == localised(refs \ inlined) \cup UNION {object(r) : r \in refs \cap inlined}
           names == {r.name : r \in copied}
           defs == [n \in DOMAIN spec.defs \cup names |->
                       IF n \in names
                       THEN LET r == CHOOSE q \in copied : q.name = n
                            IN  [doc |-> resolved[Key(r)].doc, refs |-> retained(r, resolved[Key(r)].refs)]
                       ELSE [doc |-> spec.defs[n].doc, refs |-> rewritten(held(n))]]
           left == [spec EXCEPT !.ops = rewritten(@), !.defs = defs]
           InTable(r) == \E i \in Table(spec) : i[2] = r
<1>1. Install(spec, resolved, first, FALSE) = left
  BY DEF Install
<1>2. ASSUME NEW r, InTable(r)
      PROVE  /\ Meant(spec, r, level)
             /\ MeantThere(r, level) =>
                  Key(r) \in DOMAIN resolved /\ Fetched(resolved, r, web) /\ first[Key(r)] = r.root
  BY <1>2 DEF SpecMeant, AllFetched
<1>3. ASSUME NEW r \in inlined
      PROVE  InTable(r) /\ MeantThere(r, level) /\ ~IsLocal(r)
  <2>1. InTable(r) /\ r.how = "inline"
    OBVIOUS
  <2> HIDE DEF inlined, InTable
  <2> QED
    BY <1>2, <2>1 DEF Meant, MeantThere, IsLocal
<1>4. ASSUME NEW r \in copied
      PROVE  InTable(r) /\ MeantThere(r, level) /\ r.how = "ref" /\ Shaped(r)
  <2>1. InTable(r) /\ r.how = "ref" /\ r.root # Here
    OBVIOUS
  <2> HIDE DEF copied, InTable
  <2> QED
    BY <1>2, <2>1 DEF Meant, MeantHere
<1>5. ASSUME NEW r, InTable(r), r \notin inlined, r \notin copied
      PROVE  Shaped(r) /\ r.how = "ref" /\ MeantHere(spec, r)
  <2>1. Meant(spec, r, level) /\ (MeantThere(r, level) => hit(r))
    BY <1>2, <1>5
  <2>2. MeantThere(r, level) => r.root # Here
    BY DEF MeantThere
  <2>3. r.how \in {"ref", "inline"}
    BY <2>1 DEF Meant, Shaped
  <2>4. ~MeantThere(r, level)
    <3> SUFFICES ASSUME MeantThere(r, level) PROVE FALSE
      OBVIOUS
    <3>1. hit(r) /\ r.root # Here
      BY <2>1, <2>2
    <3>2. PICK i \in Table(spec) : i[2] = r
      BY <1>5
    <3>3. r.how = "inline" => r \in inlined
      BY <3>1, <3>2
    <3>4. r.how = "ref" => r \in copied
      BY <3>1, <3>2
    <3> QED
      BY <1>5, <2>3, <3>3, <3>4
  <2> QED
    BY <2>1, <2>4 DEF Meant
<1> HIDE DEF inlined, copied, hit
<1>6. \A n : held(n) = spec.defs[n].refs
  BY <1>3
<1>7. \A r \in inlined : object(r) = Retain(resolved[Key(r)].refs, first[Key(r)])
  BY <1>3
<1> HIDE DEF held, object
<1>8. ASSUME NEW r, MeantThere(r, level), InTable(r)
      PROVE  /\ <<r.doc, r.name>> \in homes /\ r.doc = r.root
             /\ resolved[Key(r)].doc = r.doc
             /\ \A any : \A x \in Retain(resolved[Key(r)].refs, first[Key(r)]) : Meant(any, x, next)
  <2>1. Fetched(resolved, r, web) /\ first[Key(r)] = r.root
    BY <1>2, <1>8
  <2>2. Target(r) \in level /\ Target(r) = <<r.doc, r.name>> /\ r.root = r.doc
    BY <1>8, TargetIs DEF MeantThere
  <2>3. Target(r) \in homes
    BY <2>2 DEF Leads
  <2>4. resolved[Key(r)].refs = web[r.root][r.name] /\ resolved[Key(r)].doc = r.root
    BY <2>1 DEF Fetched
  <2>5. \A any : \A x \in Retain(web[r.root][r.name], r.root) : Meant(any, x, next)
    BY <1>8, RetainedMeant
  <2> QED
    BY <2>1, <2>2, <2>3, <2>4, <2>5
<1>9. ASSUME NEW n \in names
      PROVE  LET r == CHOOSE q \in copied : q.name = n
             IN  /\ r \in copied /\ r.name = n
                 /\ defs[n].doc = r.doc /\ defs[n].refs = Retain(resolved[Key(r)].refs, first[Key(r)])
                 /\ <<r.doc, n>> \in homes
  <2> DEFINE r == CHOOSE q \in copied : q.name = n
  <2>1. r \in copied /\ r.name = n
    <3>1. \E q \in copied : q.name = n
      OBVIOUS
    <3> QED
      BY <3>1
  <2>2. defs[n] = [doc |-> resolved[Key(r)].doc, refs |-> retained(r, resolved[Key(r)].refs)]
    OBVIOUS
  <2> HIDE DEF r, defs, names
  <2>3. defs[n].doc = resolved[Key(r)].doc /\ defs[n].refs = Retain(resolved[Key(r)].refs, first[Key(r)])
    BY <2>2
  <2> QED
    BY <1>4, <1>8, <2>1, <2>3 DEF r
<1>10. ASSUME NEW n \in DOMAIN spec.defs, n \notin names
       PROVE  n \in DOMAIN defs /\ defs[n].doc = spec.defs[n].doc /\ defs[n].refs = rewritten(spec.defs[n].refs)
  <2> HIDE DEF rewritten
  <2> QED
    BY <1>6, <1>10
<1>11. DOMAIN defs = DOMAIN spec.defs \cup names
  OBVIOUS
<1>12. /\ left.ops = rewritten(spec.ops) /\ left.defs = defs
  <2> HIDE DEF rewritten, defs
  <2> QED
    BY DEF Readable
<1>13. \A r \in copied : r.name \in names
  OBVIOUS
<1> HIDE DEF names, defs, left
<1>14. \A n \in DOMAIN defs : <<defs[n].doc, n>> \in homes
  <2> SUFFICES ASSUME NEW n \in DOMAIN defs PROVE <<defs[n].doc, n>> \in homes
    OBVIOUS
  <2>1. CASE n \in names
    BY <1>9, <2>1
  <2>2. CASE n \notin names
    BY <1>10, <1>11, <2>2 DEF SpecMeant, AtHome
  <2> QED
    BY <2>1, <2>2
<1>15. ASSUME NEW refs, \A r \in refs : InTable(r), NEW x \in rewritten(refs)
       PROVE  Meant(left, x, next)
  <2>1. CASE x \in UNION {object(r) : r \in refs \cap inlined}
    <3>1. PICK r \in inlined : x \in Retain(resolved[Key(r)].refs, first[Key(r)])
      BY <1>7, <2>1
    <3> QED
      BY <1>3, <1>8, <3>1
  <2>2. CASE x \in localised(refs \ inlined)
    <3>1. PICK r \in refs \ inlined : x = IF r \in copied THEN [r EXCEPT !.root = Here] ELSE r
      BY <2>2
    <3>2. InTable(r)
      BY <1>15, <3>1
    <3> HIDE DEF InTable
    <3>3. CASE r \in copied
      <4>1. Shaped(r) /\ r.how = "ref" /\ MeantThere(r, level) /\ r.name \in names
        BY <1>4, <1>13, <3>3
      <4>2. x = [r EXCEPT !.root = Here]
        BY <3>1, <3>3
      <4>3. DOMAIN x = DOMAIN r /\ x.root = Here /\ x.how = r.how /\ x.name = r.name /\ x.doc = r.doc
        BY <4>1, <4>2 DEF Shaped
      <4>4. r.name \in DOMAIN defs /\ <<defs[r.name].doc, r.name>> \in homes /\ <<r.doc, r.name>> \in homes
        BY <1>8, <1>11, <1>14, <3>2, <4>1
      <4>5. defs[r.name].doc = r.doc
        BY <4>4 DEF OneHome
      <4>6. MeantHere(left, x)
        BY <1>12, <4>3, <4>4, <4>5 DEF MeantHere
      <4> QED
        BY <4>1, <4>3, <4>6 DEF Meant, Shaped
    <3>4. CASE r \notin copied
      <4>1. Shaped(r) /\ r.how = "ref" /\ MeantHere(spec, r) /\ x = r
        BY <1>5, <3>1, <3>2, <3>4
      <4>2. r.name \in DOMAIN spec.defs /\ spec.defs[r.name].doc = r.doc /\ r.root = Here
        BY <4>1 DEF MeantHere
      <4>3. r.name \in DOMAIN defs /\ <<defs[r.name].doc, r.name>> \in homes /\ <<r.doc, r.name>> \in homes
        BY <1>11, <1>14, <4>2 DEF SpecMeant, AtHome
      <4>4. defs[r.name].doc = r.doc
        BY <4>3 DEF OneHome
      <4>5. MeantHere(left, x)
        BY <1>12, <4>1, <4>2, <4>3, <4>4 DEF MeantHere
      <4> QED
        BY <4>1, <4>5 DEF Meant
    <3> QED
      BY <3>3, <3>4
  <2> HIDE DEF localised
  <2> QED
    BY <1>15, <2>1, <2>2
<1>16. ASSUME NEW i \in Table(left) PROVE Meant(left, i[2], next)
  <2>1. i[1] \in {Ops} \cup DOMAIN left.defs /\ i[2] \in RefsOf(left, i[1])
    BY TableItem
  <2>2. CASE i[1] = Ops
    <3>1. i[2] \in rewritten(spec.ops)
      BY <1>12, <2>1, <2>2 DEF RefsOf
    <3>2. \A r \in spec.ops : InTable(r)
      BY TableRefs DEF RefsOf
    <3> HIDE DEF rewritten, InTable
    <3> QED
      BY <1>15, <3>1, <3>2
  <2>3. CASE i[1] # Ops /\ i[1] \in names
    <3>1. i[2] \in defs[i[1]].refs
      BY <1>12, <2>1, <2>3 DEF RefsOf
    <3>2. PICK r \in copied : i[2] \in Retain(resolved[Key(r)].refs, first[Key(r)])
      BY <1>9, <2>3, <3>1
    <3> HIDE DEF InTable
    <3> QED
      BY <1>4, <1>8, <3>2
  <2>4. CASE i[1] # Ops /\ i[1] \notin names
    <3>1. i[1] \in DOMAIN spec.defs
      BY <1>11, <1>12, <2>1, <2>4
    <3>2. i[2] \in rewritten(spec.defs[i[1]].refs)
      <4> HIDE DEF rewritten
      <4> QED
        BY <1>10, <1>12, <2>1, <2>4, <3>1 DEF RefsOf
    <3>3. \A r \in spec.defs[i[1]].refs : InTable(r)
      BY <2>4, <3>1, TableRefs DEF RefsOf
    <3> HIDE DEF rewritten, InTable
    <3> QED
      BY <1>15, <3>2, <3>3
  <2> QED
    BY <2>1, <2>2, <2>3, <2>4
<1> QED
  BY <1>1, <1>12, <1>14, <1>16 DEF SpecMeant, AtHome

LEMMA ItemsAreThere ==
  ASSUME NEW spec, NEW level, NEW homes, SpecMeant(spec, level, homes)
  PROVE  /\ ToResolve(spec) = {i \in Table(spec) : MeantThere(i[2], level)}
         /\ Remotes(ToResolve(spec)) = ToResolve(spec)
         /\ DOMAIN LocallyResolved(spec, ToResolve(spec)) = {}
<1>1. ASSUME NEW i \in Table(spec), MeantThere(i[2], level) PROVE ~IsLocal(i[2]) /\ i \in ToResolve(spec)
  BY <1>1 DEF MeantThere, IsLocal, ToResolve
<1>2. ASSUME NEW i \in ToResolve(spec) PROVE i \in Table(spec) /\ MeantThere(i[2], level)
  <2>1. i \in Table(spec)
    BY DEF ToResolve
  <2>2. Meant(spec, i[2], level)
    BY <2>1 DEF SpecMeant
  <2>3. ~(i[2].how = "ref" /\ MeantHere(spec, i[2]))
    BY DEF ToResolve, MeantHere, IsLocal
  <2> QED
    BY <2>1, <2>2, <2>3 DEF Meant
<1>3. ToResolve(spec) = {i \in Table(spec) : MeantThere(i[2], level)}
  BY <1>1, <1>2
<1>4. Remotes(ToResolve(spec)) = ToResolve(spec)
  BY <1>1, <1>2 DEF Remotes
<1>5. {j \in ToResolve(spec) : IsLocal(j[2]) /\ j[2].name \in DOMAIN spec.defs} = {}
  BY <1>1, <1>2
<1> QED
  BY <1>3, <1>4, <1>5 DEF LocallyResolved

\* hoisting changes no reference
LEMMA SameReferences ==
  ASSUME NEW spec, NEW spec2, spec2.ops = spec.ops, spec2.defs = spec.defs
  PROVE  /\ Table(spec2) = Table(spec) /\ AllHere(spec2) = AllHere(spec)
         /\ \A level, homes : SpecMeant(spec2, level, homes) = SpecMeant(spec, level, homes)
<1>1. \A h : RefsOf(spec2, h) = RefsOf(spec, h)
  BY DEF RefsOf
<1>2. Table(spec2) = Table(spec)
  BY <1>1 DEF Table
<1> QED
  BY <1>2 DEF AllHere, MeantHere, SpecMeant, Meant, AtHome

\* the first round that ends is the first one when that ends
LEMMA ResolveEnds ==
  ASSUME NEW spec, NEW iteration \in Nat
  PROVE  LET current == Round(Hoisted(spec), iteration, FALSE)
         IN  /\ Fetches(current) => Resolve(spec, iteration) = current
             /\ ~Fetches(current) /\ Finished(LocalRound(spec), iteration) =>
                  Resolve(spec, iteration) = Round(LocalRound(spec), iteration, TRUE)
<1> DEFINE after[n \in 0..MaxIteration + 2] == IF n = 0 THEN spec ELSE LocalRound(after[n - 1])
           current == Round(Hoisted(spec), iteration, FALSE)
           last == LastRound(after, iteration)
<1>1. Resolve(spec, iteration) = IF Fetches(RoundAfter(after, last, iteration)) THEN RoundAfter(after, last, iteration)
                                 ELSE Round(after[last + 1], iteration + last, TRUE)
  BY DEF Resolve
<1>2. after[0] = spec /\ after[1] = LocalRound(spec)
  <2>1. PICK f : IsChain("local", spec, spec, 7, f)
    BY ChainExists
  <2>2. f = [n \in 0..MaxIteration + 2 |-> IF n = 0 THEN spec ELSE LocalRound(f[n - 1])]
    BY <2>1 DEF IsChain, Step, MaxIteration
  <2>3. after = [n \in 0..MaxIteration + 2 |-> IF n = 0 THEN spec ELSE LocalRound(after[n - 1])]
    BY <2>2
  <2> HIDE DEF after
  <2> QED
    BY <2>3 DEF MaxIteration
<1> HIDE DEF after
<1>3. iteration + 0 = iteration /\ 0 + 1 = 1
  OBVIOUS
<1>4. RoundAfter(after, 0, iteration) = current
  BY <1>2, <1>3 DEF RoundAfter
<1>5. Ends(after, 0, iteration) = (Fetches(current) \/ Finished(LocalRound(spec), iteration))
  BY <1>2, <1>3, <1>4 DEF Ends
<1>6. ASSUME Ends(after, 0, iteration) PROVE last = 0
  <2>1. \A k \in 0 .. 0 - 1 : ~Ends(after, k, iteration)
    OBVIOUS
  <2>2. \A n \in 0 .. 6 : (\A k \in 0 .. n - 1 : ~Ends(after, k, iteration)) => n = 0
    <3> SUFFICES ASSUME NEW n \in 0 .. 6, n # 0 PROVE 0 \in 0 .. n - 1
      BY <1>6
    <3> QED
      OBVIOUS
  <2>3. 0 \in 0 .. MaxIteration + 1 /\ 0 .. MaxIteration + 1 = 0 .. 6
    BY DEF MaxIteration
  <2> QED
    BY <1>6, <2>1, <2>2, <2>3 DEF LastRound
<1> HIDE DEF last, current
<1>7. ASSUME Fetches(current) PROVE Resolve(spec, iteration) = current
  BY <1>1, <1>4, <1>5, <1>6, <1>7
<1>8. ASSUME ~Fetches(current), Finished(LocalRound(spec), iteration)
      PROVE  Resolve(spec, iteration) = Round(LocalRound(spec), iteration, TRUE)
  <2>1. last = 0
    BY <1>5, <1>6, <1>8
  <2> QED
    BY <1>1, <1>2, <1>3, <1>4, <1>8, <2>1
<1> QED
  BY <1>7, <1>8 DEF current

\* what is here stays here in a round of local items
LEMMA LocalRoundHere ==
  ASSUME NEW spec, Readable(spec), AllHere(spec), Ops \notin DOMAIN spec.defs
  PROVE  AllHere(LocalRound(spec))
<1> DEFINE hoisted == Hoisted(spec)
           resolved == LocallyResolved(hoisted, ToResolve(hoisted))
           first == [k \in DOMAIN resolved |-> Own]
           hit(r) == Key(r) \in DOMAIN resolved
           inlined == {i[2] : i \in {j \in Table(hoisted) : j[2].how = "inline" /\ hit(j[2])}}
           copied == {i[2] : i \in {j \in Table(hoisted) : j[2].how = "ref" /\ j[2].root # Here /\ hit(j[2])}}
           retained(r, refs) == IF TRUE THEN refs ELSE Retain(refs, first[Key(r)])
           held(n) == IF \E r \in inlined : IsLocal(r) /\ r.name = n /\ ~TRUE
                      THEN Retain(hoisted.defs[n].refs, Own) ELSE hoisted.defs[n].refs
           localised(refs) == {IF r \in copied THEN [r EXCEPT !.root = Here] ELSE r : r \in refs}
           object(r) == IF IsLocal(r) THEN localised(held(r.name))
                        ELSE retained(r, resolved[Key(r)].refs)
           rewritten(refs) == localised(refs \ inlined) \cup UNION {object(r) : r \in refs \cap inlined}
           names == {r.name : r \in copied}
           defs == [n \in DOMAIN hoisted.defs \cup names |->
                       IF n \in names
                       THEN LET r == CHOOSE q \in copied : q.name = n
                            IN  [doc |-> resolved[Key(r)].doc, refs |-> retained(r, resolved[Key(r)].refs)]
                       ELSE [doc |-> hoisted.defs[n].doc, refs |-> rewritten(held(n))]]
           left == [hoisted EXCEPT !.ops = rewritten(@), !.defs = defs]
           InTable(r) == \E i \in Table(hoisted) : i[2] = r
<1>1. LocalRound(spec) = left
  <2>1. /\ Round(hoisted, 0, FALSE).spec = hoisted
        /\ Round(hoisted, 0, FALSE).resolvedRefs = resolved
    BY DEF Round
  <2>2. LocalRound(spec) = Install(hoisted, resolved, first, TRUE)
    <3> HIDE DEF hoisted, resolved
    <3> QED
      BY <2>1 DEF LocalRound, FinishedLocally, hoisted
  <2> HIDE DEF hoisted, resolved, first
  <2> QED
    BY <2>2 DEF Install
<1>2. Readable(hoisted) /\ AllHere(hoisted) /\ Ops \notin DOMAIN hoisted.defs
  <2>1. hoisted.ops = spec.ops /\ hoisted.defs = spec.defs
    BY HoistedKeeps
  <2> HIDE DEF hoisted
  <2> QED
    BY <2>1, SameReferences, HoistedFinite DEF hoisted
<1> HIDE DEF hoisted, resolved, first
<1>3. \A r : InTable(r) => Shaped(r) /\ MeantHere(hoisted, r)
  BY <1>2 DEF AllHere
<1>4. copied = {}
  BY <1>3 DEF MeantHere
<1>5. ASSUME NEW r \in inlined PROVE InTable(r) /\ IsLocal(r)
  <2>1. InTable(r)
    OBVIOUS
  <2> QED
    BY <1>3, <2>1 DEF MeantHere, IsLocal
<1> HIDE DEF inlined, copied
<1>6. \A refs : localised(refs) = refs
  BY <1>4
<1>7. names = {}
  BY <1>4
<1>8. \A n : held(n) = hoisted.defs[n].refs
  OBVIOUS
<1> HIDE DEF localised, held, names
<1>9. \A r \in inlined : object(r) = hoisted.defs[r.name].refs
  BY <1>5, <1>6, <1>8
<1> HIDE DEF object
<1>10. ASSUME NEW n \in DOMAIN hoisted.defs, NEW r \in hoisted.defs[n].refs PROVE InTable(r)
  <2>1. RefsOf(hoisted, n) = hoisted.defs[n].refs
    BY <1>2 DEF RefsOf
  <2>2. n \in {Ops} \cup DOMAIN hoisted.defs /\ r \in RefsOf(hoisted, n)
    BY <2>1
  <2> QED
    BY <2>2, TableRefs
<1>11. ASSUME NEW refs, NEW x \in rewritten(refs), \A r \in refs : InTable(r)
       PROVE  InTable(x)
  <2>1. CASE x \in refs \ inlined
    BY <1>11, <2>1
  <2>2. ASSUME NEW r \in refs \cap inlined, x \in object(r) PROVE InTable(x)
    <3>1. r.name \in DOMAIN hoisted.defs /\ x \in hoisted.defs[r.name].refs
      BY <1>3, <1>5, <1>9, <2>2 DEF MeantHere
    <3> HIDE DEF InTable
    <3> QED
      BY <1>10, <3>1
  <2>3. x \in refs \ inlined \/ \E r \in refs \cap inlined : x \in object(r)
    BY <1>6
  <2> QED
    BY <2>1, <2>2, <2>3
<1>12. left.ops = rewritten(hoisted.ops) /\ left.defs = defs
  <2> HIDE DEF rewritten, defs
  <2> QED
    BY <1>2 DEF Readable
<1>13. /\ DOMAIN defs = DOMAIN hoisted.defs
       /\ \A n \in DOMAIN hoisted.defs :
            defs[n].doc = hoisted.defs[n].doc /\ defs[n].refs = rewritten(hoisted.defs[n].refs)
  <2> HIDE DEF rewritten
  <2> QED
    BY <1>7, <1>8
<1> HIDE DEF left, defs
<1>14. ASSUME NEW i \in Table(left) PROVE InTable(i[2])
  <2>1. i[1] \in {Ops} \cup DOMAIN left.defs /\ i[2] \in RefsOf(left, i[1])
    BY TableItem
  <2>2. CASE i[1] = Ops
    <3>1. i[2] \in rewritten(hoisted.ops)
      BY <1>12, <2>1, <2>2 DEF RefsOf
    <3>2. \A r \in hoisted.ops : InTable(r)
      BY TableRefs DEF RefsOf
    <3> HIDE DEF rewritten, InTable
    <3> QED
      BY <1>11, <3>1, <3>2
  <2>3. CASE i[1] # Ops
    <3>1. i[1] \in DOMAIN hoisted.defs
      BY <1>12, <1>13, <2>1, <2>3
    <3>2. i[2] \in rewritten(hoisted.defs[i[1]].refs)
      <4> HIDE DEF rewritten
      <4> QED
        BY <1>12, <1>13, <2>1, <2>3, <3>1 DEF RefsOf
    <3>3. \A r \in hoisted.defs[i[1]].refs : InTable(r)
      <4> HIDE DEF InTable
      <4> QED
        BY <1>10, <3>1
    <3> HIDE DEF rewritten, InTable
    <3> QED
      BY <1>11, <3>2, <3>3
  <2> QED
    BY <2>2, <2>3
<1>15. \A r : MeantHere(hoisted, r) => MeantHere(left, r)
  BY <1>12, <1>13 DEF MeantHere
<1> HIDE DEF InTable
<1> QED
  BY <1>1, <1>3, <1>14, <1>15 DEF AllHere

(***************************************************************************)
(* A world whose references lead through levels of documents.              *)
(***************************************************************************)
Homes(w) ==
    {<<d, n>> : d \in {Own}, n \in DOMAIN w.main.spec.defs}
    \cup UNION {{<<d, n>> : n \in DOMAIN w.remote[d]} : d \in DOMAIN w.remote}
Followed(w, level) ==
    /\ w.main.kind = "swagger2" /\ Readable(w.main.spec) /\ Ops \notin DOMAIN w.main.spec.defs
    /\ OneHome(Homes(w)) /\ WellWritten(w.remote)
    /\ \A k \in 0..MaxIteration + 1 : Leads(w.remote, level[k], level[k + 1], Homes(w))
    /\ level[MaxIteration + 2] = {}
    /\ \/ AllHere(w.main.spec) /\ \A i \in Table(w.main.spec) : ~MeantThere(i[2], level[0])
       \/ /\ SpecMeant(w.main.spec, level[0], Homes(w))
          /\ \E i \in Table(w.main.spec) : MeantThere(i[2], level[0])

\* where the resolver stands in a followed world: it is through, or it fetches
\* the documents of one level
OnItsWay(w, level, r) ==
    /\ r.done => AllHere(r.spec)
    /\ ~r.done => /\ r.iteration \in 0..MaxIteration + 1 /\ r.items = ToResolve(r.spec)
                  /\ SpecMeant(r.spec, level[r.iteration], Homes(w))
\* what was fetched in this round is what its items lead to
WellKept(w, r) ==
    \A k \in DOMAIN r.resolvedRefs :
        \E i \in r.items : Key(i[2]) = k /\ Fetched(r.resolvedRefs, i[2], w.remote)

LEMMA RoundStarts ==
  ASSUME NEW w, NEW level, Followed(w, level), NEW k \in 0..MaxIteration + 1, NEW spec, Readable(spec),
         SpecMeant(spec, level[k], Homes(w)), NEW i \in Table(spec), MeantThere(i[2], level[k])
  PROVE  LET r == Resolve(spec, k)
         IN  OnItsWay(w, level, r) /\ ~r.done /\ DOMAIN r.resolvedRefs = {}
<1> DEFINE hoisted == Hoisted(spec)
           r == Round(hoisted, k, FALSE)
<1>1. SpecMeant(hoisted, level[k], Homes(w)) /\ Table(hoisted) = Table(spec)
  <2>1. hoisted.ops = spec.ops /\ hoisted.defs = spec.defs
    BY HoistedKeeps
  <2> HIDE DEF hoisted
  <2> QED
    BY <2>1, SameReferences
<1> HIDE DEF hoisted
<1>2. /\ r.spec = hoisted /\ r.iteration = k /\ r.done = FALSE /\ r.items = ToResolve(hoisted)
      /\ r.resolvedRefs = LocallyResolved(hoisted, ToResolve(hoisted))
  BY DEF Round
<1> HIDE DEF r
<1>3. Fetches(r) /\ DOMAIN r.resolvedRefs = {}
  <2>1. i \in ToResolve(hoisted) /\ Remotes(ToResolve(hoisted)) = ToResolve(hoisted)
        /\ DOMAIN LocallyResolved(hoisted, ToResolve(hoisted)) = {}
    BY <1>1, ItemsAreThere
  <2> QED
    BY <1>2, <2>1 DEF Fetches
<1>4. Resolve(spec, k) = r
  <2>1. k \in Nat
    BY DEF MaxIteration
  <2> QED
    BY <1>3, <2>1, ResolveEnds DEF r, hoisted
<1> QED
  BY <1>1, <1>2, <1>3, <1>4 DEF OnItsWay

\* the first round of a followed description, or the only one
LEMMA ResolverStarts ==
  ASSUME NEW w, NEW level, Followed(w, level)
  PROVE  LET r == Resolve(w.main.spec, 0)
         IN  OnItsWay(w, level, r) /\ (~r.done => DOMAIN r.resolvedRefs = {})
<1> DEFINE spec == w.main.spec
<1>1. Readable(spec) /\ Ops \notin DOMAIN spec.defs
  BY DEF Followed
<1>2. CASE SpecMeant(spec, level[0], Homes(w)) /\ \E i \in Table(spec) : MeantThere(i[2], level[0])
  <2>1. 0 \in 0..MaxIteration + 1
    BY DEF MaxIteration
  <2> HIDE DEF spec
  <2> QED
    BY <1>1, <1>2, <2>1, RoundStarts DEF spec
<1>3. CASE AllHere(spec)
  <2> HIDE DEF spec
  <2>1. AllHere(LocalRound(spec))
    BY <1>1, <1>3, LocalRoundHere
  <2>2. Finished(LocalRound(spec), 0)
    BY <2>1 DEF AllHere, MeantHere, Finished, Unresolved
  <2>3. ~Fetches(Round(Hoisted(spec), 0, FALSE))
    <3> DEFINE hoisted == Hoisted(spec)
    <3>1. AllHere(hoisted)
      <4>1. hoisted.ops = spec.ops /\ hoisted.defs = spec.defs
        BY <1>1, HoistedKeeps
      <4> HIDE DEF hoisted
      <4> QED
        BY <1>3, <4>1, SameReferences
    <3>2. Round(hoisted, 0, FALSE).items = ToResolve(hoisted)
      BY DEF Round
    <3> HIDE DEF hoisted
    <3>3. Remotes(ToResolve(hoisted)) = {}
      BY <3>1 DEF Remotes, ToResolve, IsLocal, AllHere, MeantHere
    <3> QED
      BY <3>2, <3>3 DEF Fetches, hoisted
  <2>4. Resolve(spec, 0) = Round(LocalRound(spec), 0, TRUE)
    BY <2>2, <2>3, ResolveEnds
  <2>5. Round(LocalRound(spec), 0, TRUE).done = TRUE /\ Round(LocalRound(spec), 0, TRUE).spec = LocalRound(spec)
    BY DEF Round
  <2> QED
    BY <2>1, <2>4, <2>5 DEF OnItsWay, spec
<1> QED
  BY <1>2, <1>3 DEF Followed

\* what is copied is what was fetched
LEMMA FetchedAll ==
  ASSUME NEW w, NEW level, Followed(w, level), NEW r, OnItsWay(w, level, r), ~r.done, WellKept(w, r),
         \A i \in r.items : Key(i[2]) \in DOMAIN r.resolvedRefs,
         NEW first \in FirstRoots(r)
  PROVE  AllFetched(r.spec, level[r.iteration], r.resolvedRefs, first, w.remote)
<1> DEFINE now == level[r.iteration]
           homes == Homes(w)
<1>1. r.iteration \in 0..MaxIteration + 1 /\ SpecMeant(r.spec, now, homes) /\ OneHome(homes)
  BY DEF OnItsWay, Followed
<1>2. r.items = {i \in Table(r.spec) : MeantThere(i[2], now)}
  BY <1>1, ItemsAreThere DEF OnItsWay
<1>3. now \subseteq homes
  BY <1>1 DEF Followed, Leads
<1>4. \A i \in Table(r.spec) : Shaped(i[2])
  BY <1>1 DEF SpecMeant, Meant
<1> HIDE DEF now, homes
<1> SUFFICES ASSUME NEW i \in Table(r.spec), MeantThere(i[2], now)
             PROVE  /\ Key(i[2]) \in DOMAIN r.resolvedRefs /\ Fetched(r.resolvedRefs, i[2], w.remote)
                    /\ first[Key(i[2])] = i[2].root
  BY DEF AllFetched, now
<1>5. Key(i[2]) \in DOMAIN r.resolvedRefs
  BY <1>2
<1>6. Fetched(r.resolvedRefs, i[2], w.remote)
  <2>1. PICK j \in r.items : Key(j[2]) = Key(i[2]) /\ Fetched(r.resolvedRefs, j[2], w.remote)
    BY <1>5 DEF WellKept
  <2>2. j[2].root = i[2].root /\ j[2].name = i[2].name
    BY <1>1, <1>2, <1>3, <1>4, <2>1, KeysTell
  <2> QED
    BY <2>1, <2>2 DEF Fetched
<1>7. first[Key(i[2])] = i[2].root
  <2>1. first[Key(i[2])] \in RootsOf(r.spec, Key(i[2]))
    BY <1>5 DEF FirstRoots
  <2>2. PICK j \in Table(r.spec) : /\ Key(j[2]) = Key(i[2])
                                   /\ first[Key(i[2])] = IF IsLocal(j[2]) THEN Own ELSE j[2].root
    BY <2>1 DEF RootsOf
  <2>3. MeantThere(j[2], now)
    <3> SUFFICES ASSUME j[2].how = "ref", MeantHere(r.spec, j[2]) PROVE FALSE
      BY <1>1 DEF SpecMeant, Meant
    <3>1. Key(j[2]) = <<Here, j[2].name>>
      BY DEF MeantHere, Key
    <3>2. \A a, b, c : <<a>> # <<b, c>>
      OBVIOUS
    <3>3. i[2].root # Here
      BY DEF MeantThere
    <3> QED
      BY <2>2, <3>1, <3>2, <3>3 DEF Key
  <2>4. j[2].root = i[2].root
    BY <1>1, <1>3, <1>4, <2>2, <2>3, KeysTell
  <2>5. ~IsLocal(j[2])
    BY <2>3 DEF MeantThere, IsLocal
  <2> QED
    BY <2>2, <2>4, <2>5
<1> QED
  BY <1>5, <1>6, <1>7

\* after the last answer of a round
LEMMA RoundLeads ==
  ASSUME NEW w, NEW level, Followed(w, level), NEW r, RoundWell(r), OnItsWay(w, level, r), ~r.done, WellKept(w, r),
         \A i \in r.items : Key(i[2]) \in DOMAIN r.resolvedRefs,
         NEW first \in FirstRoots(r)
  PROVE  LET n == AfterRound(r, first)
         IN  OnItsWay(w, level, n) /\ (~n.done => DOMAIN n.resolvedRefs = {})
<1> DEFINE left == Install(r.spec, r.resolvedRefs, first, FALSE)
           k == r.iteration
           homes == Homes(w)
<1>1. k \in 0..MaxIteration + 1 /\ SpecMeant(r.spec, level[k], homes) /\ k \in Nat
  BY DEF OnItsWay, RoundWell
<1>2. SpecMeant(left, level[k + 1], homes)
  <2>1. AllFetched(r.spec, level[k], r.resolvedRefs, first, w.remote)
    BY FetchedAll
  <2>2. WellWritten(w.remote) /\ OneHome(homes) /\ Leads(w.remote, level[k], level[k + 1], homes)
    BY <1>1 DEF Followed
  <2> HIDE DEF homes, k
  <2> QED
    BY <1>1, <2>1, <2>2, InstalledMeant DEF RoundWell
<1>3. Readable(left)
  BY InstallFinite DEF RoundWell
<1>4. AfterRound(r, first) = IF Finished(left, k) THEN Round(left, k, TRUE) ELSE Resolve(left, k + 1)
  BY DEF AfterRound
<1> HIDE DEF left, k, homes
<1>5. CASE Finished(left, k)
  <2>1. AllHere(left)
    <3> SUFFICES ASSUME NEW i \in Table(left) PROVE ~MeantThere(i[2], level[k + 1])
      BY <1>2 DEF AllHere, SpecMeant, Meant
    <3>1. CASE Unresolved(left) = {}
      BY <3>1 DEF Unresolved, MeantThere
    <3>2. CASE k > MaxIteration
      <4>1. k + 1 = MaxIteration + 2
        BY <1>1, <3>2 DEF MaxIteration
      <4> QED
        BY <4>1 DEF Followed, MeantThere
    <3> QED
      BY <1>5, <3>1, <3>2 DEF Finished
  <2>2. Round(left, k, TRUE).done = TRUE /\ Round(left, k, TRUE).spec = left
    BY DEF Round
  <2> QED
    BY <1>4, <1>5, <2>1, <2>2 DEF OnItsWay
<1>6. CASE ~Finished(left, k)
  <2>1. PICK i \in Table(left) : i[2].root # Here \/ i[2].name \notin DOMAIN left.defs
    BY <1>6 DEF Finished, Unresolved
  <2>2. MeantThere(i[2], level[k + 1])
    BY <1>2, <2>1 DEF SpecMeant, Meant, MeantHere
  <2>3. k + 1 \in 0..MaxIteration + 1
    BY <1>1, <1>6 DEF Finished, MaxIteration
  <2> QED
    BY <1>2, <1>3, <1>4, <1>6, <2>2, <2>3, RoundStarts DEF homes
<1> QED
  BY <1>5, <1>6

\* A description the client can follow is followed by the levels of its targets.
LEMMA LevelSteps ==
  /\ Level[0] = {Target(i[2]) : i \in Remotes(Table(world.main.spec))}
  /\ \A k \in 1 .. 7 :
       Level[k] = {Target(r) : r \in UNION {world.remote[t[1]][t[2]] : t \in {u \in Level[k - 1] : Exists(u)}}}
<1> DEFINE base == {Target(i[2]) : i \in Remotes(Table(world.main.spec))}
           web == world.remote
<1>1. PICK f : IsChain("level", web, base, 7, f)
  BY ChainExists
<1>2. f = [k \in 0..MaxIteration + 2 |->
             IF k = 0 THEN base
             ELSE {Target(r) : r \in UNION {web[t[1]][t[2]] : t \in {u \in f[k - 1] : Exists(u)}}}]
  BY <1>1 DEF IsChain, Step, Exists, MaxIteration
<1>3. Level = [k \in 0..MaxIteration + 2 |->
             IF k = 0 THEN base
             ELSE {Target(r) : r \in UNION {web[t[1]][t[2]] : t \in {u \in Level[k - 1] : Exists(u)}}}]
  BY <1>2 DEF Level
<1>0. 0..MaxIteration + 2 = 0 .. 7
  BY DEF MaxIteration
<1> HIDE DEF base, web
<1>4. \A k \in 0 .. 7 :
        Level[k] = IF k = 0 THEN base
                   ELSE {Target(r) : r \in UNION {web[t[1]][t[2]] : t \in {u \in Level[k - 1] : Exists(u)}}}
  BY <1>0, <1>3
<1>5. ASSUME NEW k \in 1 .. 7
      PROVE  Level[k] = {Target(r) : r \in UNION {web[t[1]][t[2]] : t \in {u \in Level[k - 1] : Exists(u)}}}
  <2>1. k \in 0 .. 7 /\ k # 0
    OBVIOUS
  <2> QED
    BY <1>4, <2>1
<1>6. 0 \in 0 .. 7
  OBVIOUS
<1> QED
  BY <1>4, <1>5, <1>6 DEF base, web

LEMMA FollowableIsFollowed ==
  ASSUME world \in Worlds, Followable
  PROVE  Followed(world, Level)
<1> DEFINE spec == world.main.spec
           web == world.remote
           homes == Homes(world)
<1>1. world.main.kind = "swagger2"
  BY DEF Followable
<1>2. /\ Readable(spec) /\ Ops \notin DOMAIN spec.defs /\ Written(spec.ops, Own)
      /\ \A n \in DOMAIN spec.defs : spec.defs[n].doc = Own /\ Written(spec.defs[n].refs, Own)
  BY <1>1, WorldsAssumption
<1>3. WellWritten(web)
  BY WorldsAssumption DEF WellWritten
<1>4. \A p : p \in homes <=> \E d, n : p = <<d, n>> /\ d \in Documents /\ n \in NamesOf(d)
  <2>1. Own \notin DOMAIN web
    BY <1>3 DEF WellWritten
  <2> QED
    BY <2>1 DEF Homes, Documents, NamesOf
<1>5. OneHome(homes)
  <2>1. \A d, e \in Documents : d # e => NamesOf(d) \cap NamesOf(e) = {}
    BY DEF Followable
  <2> HIDE DEF homes
  <2> QED
    BY <1>4, <2>1 DEF OneHome
<1>6. \A r : Target(r) = <<r.doc, r.name>>
  BY DEF Target
<1>7. ASSUME NEW k \in 0..MaxIteration + 1, NEW t \in Level[k]
      PROVE  /\ t \in homes /\ t[1] \in DOMAIN web /\ t[2] \in DOMAIN web[t[1]]
             /\ \A r \in web[t[1]][t[2]] : Target(r) \in Level[k + 1]
  <2>1. Exists(t)
    BY DEF Followable
  <2>2. t[1] \in DOMAIN web /\ t[2] \in DOMAIN web[t[1]]
    BY <2>1 DEF Exists
  <2>3. \E r : t = Target(r)
    <3>1. k = 0 \/ k \in 1 .. 7
      BY DEF MaxIteration
    <3>2. CASE k = 0
      BY <3>2, LevelSteps
    <3>3. CASE k \in 1 .. 7
      BY <3>3, LevelSteps
    <3> QED
      BY <3>1, <3>2, <3>3
  <2>4. t = <<t[1], t[2]>>
    BY <1>6, <2>3
  <2>5. t \in homes
    <3>1. t[1] \in Documents /\ t[2] \in NamesOf(t[1])
      BY <1>3, <2>2 DEF Documents, NamesOf, WellWritten
    <3> QED
      BY <1>4, <2>4, <3>1
  <2>6. ASSUME NEW r \in web[t[1]][t[2]] PROVE Target(r) \in Level[k + 1]
    <3>1. k + 1 \in 1 .. 7 /\ (k + 1) - 1 = k
      BY DEF MaxIteration
    <3>2. Level[k + 1] = {Target(q) : q \in UNION {web[u[1]][u[2]] : u \in {v \in Level[k] : Exists(v)}}}
      BY <3>1, LevelSteps
    <3> QED
      BY <2>1, <3>2
  <2> QED
    BY <2>2, <2>5, <2>6
<1>8. ASSUME NEW k \in 0..MaxIteration + 1 PROVE Leads(web, Level[k], Level[k + 1], homes)
  <2> SUFFICES ASSUME NEW t \in Level[k + 1] PROVE t[1] \notin {Here, Own}
    BY <1>7 DEF Leads
  <2>1. CASE k + 1 \in 0..MaxIteration + 1
    BY <1>3, <1>7, <2>1 DEF WellWritten
  <2>2. CASE k + 1 = MaxIteration + 2
    BY <2>2 DEF Followable
  <2> QED
    BY <2>1, <2>2 DEF MaxIteration
<1>9. ASSUME NEW i \in Table(spec)
      PROVE  /\ Shaped(i[2])
             /\ IsLocal(i[2]) => MeantHere(spec, i[2]) /\ (i[2].how = "ref" \/ Level[0] = {})
             /\ ~IsLocal(i[2]) => MeantThere(i[2], Level[0])
  <2>1. i[1] \in {Ops} \cup DOMAIN spec.defs /\ i[2] \in RefsOf(spec, i[1])
    BY TableItem
  <2>2. /\ DOMAIN i[2] = {"how", "root", "name", "doc"} /\ i[2].how \in {"ref", "inline"}
        /\ i[2].doc = IF i[2].root = Here THEN Own ELSE i[2].root
    <3> HIDE DEF spec
    <3> QED
      BY <1>2, <2>1 DEF RefsOf, Written
  <2>3. CASE IsLocal(i[2])
    <3>1. /\ i[2].name \in DOMAIN spec.defs /\ i[2].root = Here
          /\ i[2].how = "inline" => Level[0] = {}
      BY <2>3 DEF Followable, NamesOf
    <3> QED
      BY <1>2, <2>2, <2>3, <3>1 DEF MeantHere, Shaped
  <2>4. CASE ~IsLocal(i[2])
    <3>1. Target(i[2]) \in Level[0]
      BY <2>4, LevelSteps DEF Remotes
    <3> QED
      BY <2>2, <2>4, <3>1 DEF MeantThere, Shaped, IsLocal
  <2> QED
    BY <2>3, <2>4
<1>10. \/ AllHere(spec) /\ \A i \in Table(spec) : ~MeantThere(i[2], Level[0])
       \/ SpecMeant(spec, Level[0], homes) /\ \E i \in Table(spec) : MeantThere(i[2], Level[0])
  <2>1. CASE Level[0] = {}
    <3>1. \A i \in Table(spec) : ~MeantThere(i[2], Level[0])
      BY <2>1 DEF MeantThere
    <3> QED
      BY <1>9, <3>1 DEF AllHere
  <2>2. CASE Level[0] # {}
    <3>1. PICK i \in Remotes(Table(spec)) : TRUE
      BY <2>2, LevelSteps
    <3>2. i \in Table(spec) /\ MeantThere(i[2], Level[0])
      BY <1>9, <3>1 DEF Remotes
    <3>3. AtHome(spec, homes)
      BY <1>2 DEF AtHome, Homes
    <3>4. \A j \in Table(spec) : Meant(spec, j[2], Level[0])
      BY <1>9, <2>2 DEF Meant
    <3> QED
      BY <3>2, <3>3, <3>4 DEF SpecMeant
  <2> QED
    BY <2>1, <2>2
<1>11. Level[MaxIteration + 2] = {}
  BY DEF Followable
<1> QED
  BY <1>1, <1>2, <1>3, <1>5, <1>8, <1>10, <1>11 DEF Followed

(***************************************************************************)
(* While every fetch succeeds, each round fetches the documents of one     *)
(* level, an answered item is kept and one that is not is outstanding.     *)
(***************************************************************************)
Fetching == \E q \in net : q.kind = "ref"
ResolvesAsMeant(level) ==
    /\ isBuilt => AllHere(round.spec)
    /\ Fetching => /\ OnItsWay(world, level, round) /\ WellKept(world, round)
                   /\ \A i \in round.items :
                        RefRequest(i) \in net \/ Key(i[2]) \in DOMAIN round.resolvedRefs
ResolveInv == ~fetchFailed => \A level : Followed(world, level) => ResolvesAsMeant(level)

LEMMA NotFetching == PhaseInv => (Fetching <=> RefPhase)
<1> SUFFICES ASSUME PhaseInv PROVE Fetching <=> RefPhase
  OBVIOUS
<1>1. RefPhase => Fetching
  BY RequestKinds DEF RefPhase, Fetching
<1>2. SpecPhase \/ DeclPhase \/ EndPhase => ~Fetching
  BY RequestKinds DEF SpecPhase, DeclPhase, EndPhase, Fetching
<1> QED
  BY <1>1, <1>2 DEF PhaseInv

\* the resolver goes on: it is through, or all its items are requested
LEMMA ContinueMeant ==
  ASSUME PhaseInv', ~isBuilt, NEW level, NEW r, OnItsWay(world, level, r), ~r.done => DOMAIN r.resolvedRefs = {},
         NEW answered, Continue(r, answered), world' = world
  PROVE  ResolvesAsMeant(level)'
<1>1. round' = r
  BY DEF Continue
<1>2. CASE r.done
  <2>1. AllHere(round'.spec)
    BY <1>1, <1>2 DEF OnItsWay
  <2>2. ~Fetching'
    <3>1. ~RefPhase'
      BY <1>1, <1>2 DEF RefPhase
    <3>2. PhaseInv' => (Fetching' <=> RefPhase')
      BY NotFetching, PTL
    <3> QED
      BY <3>1, <3>2
  <2> QED
    BY <2>1, <2>2 DEF ResolvesAsMeant
<1>3. CASE ~r.done
  <2>1. ~isBuilt' /\ net' = (net \ answered) \cup {RefRequest(i) : i \in Remotes(r.items)}
    BY <1>3 DEF Continue
  <2>2. r.items = Remotes(r.items)
    BY <1>3, ItemsAreThere DEF OnItsWay
  <2>3. \A i \in r.items : RefRequest(i) \in net'
    BY <2>1, <2>2
  <2>4. WellKept(world, r)
    BY <1>3 DEF WellKept
  <2> QED
    BY <1>1, <2>1, <2>3, <2>4 DEF ResolvesAsMeant
<1> QED
  BY <1>2, <1>3

LEMMA AnswerSpecMeant ==
  ASSUME QInv, PhaseInv, PhaseInv', ResolveInv, NEW x, AnswerSpec(x)
  PROVE  ResolveInv'
<1>1. SpecPhase
  BY RequestKinds DEF PhaseInv, DeclPhase, RefPhase, EndPhase, AnswerSpec
<1>2. ~isBuilt /\ net = {SpecRequest}
  BY <1>1 DEF SpecPhase, Fresh
<1>3. UNCHANGED <<world, fetchFailed>>
  BY DEF AnswerSpec
<1> SUFFICES ASSUME NEW level, Followed(world, level)
             PROVE  ResolvesAsMeant(level)'
  BY <1>3 DEF ResolveInv
<1>4. CASE Fail /\ net' = net \ {SpecRequest}
  <2>1. ~isBuilt' /\ net' = {}
    BY <1>2, <1>4 DEF Fail
  <2> QED
    BY <2>1 DEF ResolvesAsMeant, Fetching
<1>5. CASE Resolving(world.main.spec, {SpecRequest})
  <2>1. Continue(Resolve(world.main.spec, 0), {SpecRequest})
    BY <1>5 DEF Resolving
  <2> HIDE DEF Continue
  <2> QED
    BY <1>2, <1>3, <2>1, ResolverStarts, ContinueMeant
<1>6. world.main.kind = "swagger2"
  BY DEF Followed
<1> QED
  BY <1>4, <1>5, <1>6 DEF AnswerSpec

LEMMA AnswerRefMeant ==
  ASSUME QInv, PhaseInv, PhaseInv', ResolveInv, NEW q \in net, q.kind = "ref", NEW x, AnswerRef(q.of, x)
  PROVE  ResolveInv'
<1> DEFINE i == q.of
           ok == Handler(x) = "response" /\ HasObject(x)
           r == Answered(round, i, world.remote, ok)
           answered == {RefRequest(i)}
<1>1. RefPhase /\ world \in Worlds
  BY RequestKinds DEF PhaseInv, SpecPhase, DeclPhase, EndPhase
<1>2. q = RefRequest(i) /\ i \in Remotes(round.items) /\ i \in round.items
  BY <1>1, RequestKinds DEF RefPhase, Remotes
<1>3. world' = world
  BY DEF AnswerRef
<1>4. ~isBuilt /\ RoundWell(round) /\ ~round.done
  BY <1>1 DEF RefPhase, Fresh
<1> SUFFICES ASSUME ~fetchFailed', NEW level, Followed(world, level)
             PROVE  ResolvesAsMeant(level)'
  BY <1>3 DEF ResolveInv
<1>5. ok /\ ~fetchFailed
  BY DEF AnswerRef, Handler
<1>6. /\ OnItsWay(world, level, round) /\ WellKept(world, round)
      /\ \A j \in round.items : RefRequest(j) \in net \/ Key(j[2]) \in DOMAIN round.resolvedRefs
  BY <1>5 DEF ResolveInv, ResolvesAsMeant, Fetching
<1>7. /\ RoundWell(r) /\ r.items = round.items /\ r.expectedCalls = round.expectedCalls
      /\ r.done = round.done /\ r.processedCalls = round.processedCalls + 1
  BY <1>1, <1>2, <1>4, WorldIsFinite, AnsweredWell
<1>8. /\ r.spec = round.spec /\ r.iteration = round.iteration
      /\ r.resolvedRefs = With(round.resolvedRefs, Key(i[2]),
                               [doc |-> i[2].root, refs |-> world.remote[i[2].root][i[2].name]])
  <2>1. MeantThere(i[2], level[round.iteration])
    BY <1>2, <1>4, <1>6, ItemsAreThere DEF OnItsWay
  <2>2. Target(i[2]) \in level[round.iteration] /\ Target(i[2])[1] = i[2].root /\ Target(i[2])[2] = i[2].name
    BY <2>1, TargetIs DEF MeantThere
  <2>3. Leads(world.remote, level[round.iteration], level[round.iteration + 1], Homes(world))
    BY <1>4, <1>6 DEF OnItsWay, Followed
  <2>4. i[2].root \in DOMAIN world.remote /\ i[2].name \in DOMAIN world.remote[i[2].root]
    BY <2>2, <2>3 DEF Leads
  <2>5. {"processedCalls", "resolvedRefs"} \subseteq DOMAIN round
    BY <1>4 DEF RoundWell
  <2> QED
    BY <1>5, <2>4, <2>5 DEF Answered
<1> HIDE DEF r, ok
<1>9. /\ DOMAIN r.resolvedRefs = DOMAIN round.resolvedRefs \cup {Key(i[2])}
      /\ Fetched(r.resolvedRefs, i[2], world.remote)
      /\ \A k \in DOMAIN round.resolvedRefs : k # Key(i[2]) => r.resolvedRefs[k] = round.resolvedRefs[k]
  <2> DEFINE new == [doc |-> i[2].root, refs |-> world.remote[i[2].root][i[2].name]]
             key == Key(i[2])
  <2>1. new.doc = i[2].root /\ new.refs = world.remote[i[2].root][i[2].name]
    OBVIOUS
  <2> HIDE DEF new, key
  <2>2. r.resolvedRefs = [y \in DOMAIN round.resolvedRefs \cup {key} |->
                            IF y = key THEN new ELSE round.resolvedRefs[y]]
    BY <1>8 DEF With, new, key
  <2>3. /\ DOMAIN r.resolvedRefs = DOMAIN round.resolvedRefs \cup {key} /\ r.resolvedRefs[key] = new
        /\ \A k \in DOMAIN round.resolvedRefs : k # key => r.resolvedRefs[k] = round.resolvedRefs[k]
    BY <2>2
  <2> QED
    BY <2>1, <2>3 DEF Fetched, key
<1>10. OnItsWay(world, level, r)
  BY <1>6, <1>7, <1>8 DEF OnItsWay
<1>11. WellKept(world, r)
  <2> SUFFICES ASSUME NEW k \in DOMAIN r.resolvedRefs
               PROVE  \E j \in r.items : Key(j[2]) = k /\ Fetched(r.resolvedRefs, j[2], world.remote)
    BY DEF WellKept
  <2>1. CASE k = Key(i[2])
    BY <1>2, <1>7, <1>9, <2>1
  <2>2. CASE k # Key(i[2])
    <3>1. k \in DOMAIN round.resolvedRefs
      BY <1>9, <2>2
    <3>2. PICK j \in round.items : Key(j[2]) = k /\ Fetched(round.resolvedRefs, j[2], world.remote)
      BY <1>6, <3>1 DEF WellKept
    <3>3. r.resolvedRefs[k] = round.resolvedRefs[k]
      BY <1>9, <2>2, <3>1
    <3> QED
      BY <1>7, <3>2, <3>3 DEF Fetched
  <2> QED
    BY <2>1, <2>2
<1>12. \A j \in r.items : RefRequest(j) \in net \ answered \/ Key(j[2]) \in DOMAIN r.resolvedRefs
  BY <1>6, <1>7, <1>9, RequestKinds
<1>13. CASE /\ r.processedCalls = r.expectedCalls
            /\ \E first \in FirstRoots(r) : Continue(AfterRound(r, first), answered)
  <2>1. PICK first \in FirstRoots(r) : Continue(AfterRound(r, first), answered)
    BY <1>13
  <2>2. net \ answered = {}
    <3>1. /\ Cardinality(net \ answered) = Cardinality(net) - 1 /\ IsFiniteSet(net \ answered)
          /\ Cardinality(net) \in Nat
          /\ (Cardinality(net \ answered) = 0 <=> net \ answered = {})
      BY <1>1, <1>2, FS_RemoveElement, FS_CardinalityType, FS_EmptySet DEF RefPhase
    <3>2. round.processedCalls \in Nat /\ round.processedCalls + Cardinality(net) = round.expectedCalls
      BY <1>1 DEF RefPhase, RoundWell
    <3> QED
      BY <1>7, <1>13, <3>1, <3>2
  <2>3. \A j \in r.items : Key(j[2]) \in DOMAIN r.resolvedRefs
    BY <1>12, <2>2
  <2>4. /\ OnItsWay(world, level, AfterRound(r, first))
        /\ ~AfterRound(r, first).done => DOMAIN AfterRound(r, first).resolvedRefs = {}
    BY <1>4, <1>7, <1>10, <1>11, <2>3, RoundLeads
  <2> HIDE DEF Continue
  <2> QED
    BY <1>3, <1>4, <2>1, <2>4, ContinueMeant
<1>14. CASE r.processedCalls # r.expectedCalls /\ round' = r /\ net' = net \ answered /\ UNCHANGED isBuilt
  BY <1>3, <1>4, <1>10, <1>11, <1>12, <1>14 DEF ResolvesAsMeant
<1> QED
  BY <1>13, <1>14 DEF AnswerRef, r, ok

LEMMA InitMeant == Init => ResolveInv
  BY RequestKinds DEF Init, ResolveInv, ResolvesAsMeant, Fetching

LEMMA ResolveStep == QInv /\ PhaseInv /\ PhaseInv' /\ ResolveInv /\ [Next]_vars => ResolveInv'
<1> SUFFICES ASSUME QInv, PhaseInv, PhaseInv', ResolveInv, [Next]_vars PROVE ResolveInv'
  OBVIOUS
<1>1. ASSUME NEW x, AnswerSpec(x) PROVE ResolveInv'
  BY <1>1, AnswerSpecMeant
<1>2. ASSUME NEW q \in net, q.kind = "decl", NEW x, AnswerDeclaration(q.of, x) PROVE ResolveInv'
  <2>1. DeclPhase
    BY <1>2, RequestKinds DEF PhaseInv, SpecPhase, RefPhase, EndPhase
  <2>2. world'.main.kind = "listing"
    BY <1>2, <2>1 DEF DeclPhase, AnswerDeclaration
  <2> QED
    BY <2>2 DEF ResolveInv, Followed
<1>3. ASSUME NEW q \in net, q.kind = "ref", NEW x, AnswerRef(q.of, x) PROVE ResolveInv'
  BY <1>3, AnswerRefMeant
<1>4. CASE UNCHANGED cvars
  BY <1>4 DEF cvars, ResolveInv, ResolvesAsMeant, Fetching
<1>5. CASE Answer
  BY <1>1, <1>2, <1>3, <1>5 DEF Answer
<1> QED
  BY <1>4, <1>5 DEF Next, Turn, Register, vars

LEMMA ResolveInvImplies == PhaseInv /\ ResolveInv => ResolvedAsMeant
<1> SUFFICES ASSUME PhaseInv, ResolveInv, isBuilt, ~fetchFailed, Followable
             PROVE  \A i \in Table(round.spec) :
                      /\ i[2].root = Here /\ i[2].name \in DOMAIN round.spec.defs
                      /\ round.spec.defs[i[2].name].doc = i[2].doc
  BY DEF ResolvedAsMeant
<1>1. Followed(world, Level)
  BY FollowableIsFollowed DEF PhaseInv
<1>2. AllHere(round.spec)
  BY <1>1 DEF ResolveInv, ResolvesAsMeant
<1> QED
  BY <1>2 DEF AllHere, MeantHere

(***************************************************************************)
(* When every fetch is answered, a description the client can follow is    *)
(* built with references that all lead to the definition their author      *)
(* meant, in whatever order the answers of the rounds came.                *)
(***************************************************************************)
THEOREM EveryReferenceIsResolved == Spec => []ResolvedAsMeant
<1>1. Spec => []ResolveInv
  BY InitMeant, ResolveStep, QInvariant, Phases, PTL DEF Spec
<1> QED
  BY <1>1, Phases, ResolveInvImplies, PTL

-----------------------------------------------------------------------------
(***************************************************************************)
(* The schemas of a converted description hold no inline objects, so the   *)
(* resolver has nothing to hoist out of them.                              *)
(***************************************************************************)
Leaf(s) == ~IsList(s) /\ s.props = Nil
Plain(s) == Leaf(s) \/ \E l : Leaf(l) /\ s = ListSchema(l)
PlainObject(s) == \E props : s = ObjectSchema(props) /\ Listed(props) /\ \A i \in DOMAIN props : Plain(props[i])
IsMap(f) == f = [x \in DOMAIN f |-> f[x]]
PlainModels(models) == IsMap(models) /\ IsFiniteSet(DOMAIN models) /\ \A n \in DOMAIN models : PlainObject(models[n])
PlainAnswers(responses) ==
    /\ IsMap(responses) /\ IsFiniteSet(DOMAIN responses)
    /\ \A c \in DOMAIN responses : responses[c] = Nil \/ Plain(responses[c])
PlainOperation(o) == IsMap(o) /\ PlainAnswers(o.responses)

\* a fold of which no step changes anything
Still(S, base, g, pick) ==
    /\ g[{}] = base
    /\ \A u \in SUBSET S : u # {} => pick[u] \in u /\ (g[u \ {pick[u]}] = base => g[u] = base)

LEMMA StillFold ==
  ASSUME NEW S, IsFiniteSet(S), NEW base, NEW g, NEW pick, Still(S, base, g, pick)
  PROVE  g[S] = base
<1> USE DEF Still
<1> DEFINE B == {u \in SUBSET S : g[u] # base}
<1> SUFFICES ASSUME B # {} PROVE FALSE
  OBVIOUS
<1>1. PICK u \in B : \A v \in B : v \subseteq u => v = u
  <2>1. B \in SUBSET SUBSET S
    OBVIOUS
  <2> HIDE DEF B
  <2> QED
    BY <2>1, SmallestSubset
<1>2. u \in SUBSET S /\ g[u] # base /\ u # {}
  OBVIOUS
<1>3. pick[u] \in u /\ u \ {pick[u]} \in SUBSET S /\ u \ {pick[u]} \subseteq u /\ u \ {pick[u]} # u
  BY <1>2
<1>4. g[u \ {pick[u]}] = base
  BY <1>1, <1>3
<1> QED
  BY <1>2, <1>4

LEMMA LeafStays ==
  ASSUME NEW models, NEW s, Leaf(s)
  PROVE  ResolveItem(models, s) = [models |-> models, schema |-> s]
  BY DEF ResolveItem, Leaf

LEMMA PlainStays ==
  ASSUME NEW models, NEW s, Plain(s)
  PROVE  LET r == ResolveTo(models, s) IN r.models = models /\ r.schema = s
<1> DEFINE inner == IF IsList(s) THEN s.items[1] ELSE s
           W(f) == f = [k \in Nat |-> IF k = 0 THEN s
                                      ELSE IF IsList(f[k - 1]) THEN f[k - 1].items[1] ELSE f[k - 1]]
           within == CHOOSE f : W(f)
           R(f) == f = [k \in Nat |-> IF IsList(within[k])
                                      THEN [f[k + 1] EXCEPT !.schema = [within[k] EXCEPT !.items = <<f[k + 1].schema>>]]
                                      ELSE ResolveItem(models, within[k])]
           resolved == CHOOSE f : R(f)
<1>1. ResolveTo(models, s) = resolved[0]
  BY DEF ResolveTo
<1>2. Leaf(inner) /\ (IsList(s) => s = ListSchema(inner)) /\ (~IsList(s) => s = inner)
  <2>1. CASE Leaf(s)
    BY <2>1 DEF Leaf
  <2>2. ASSUME NEW l, Leaf(l), s = ListSchema(l) PROVE IsList(s) /\ inner = l
    <3>1. s.ref = Nil /\ s.type = "array" /\ s.tuple = FALSE /\ s.items = <<l>>
      BY <2>2 DEF ListSchema, EmptySchema
    <3> QED
      BY <3>1 DEF IsList
  <2> QED
    BY <2>1, <2>2 DEF Plain
<1> HIDE DEF inner
<1>3. W([k \in Nat |-> IF k = 0 THEN s ELSE inner])
  <2> DEFINE f == [k \in Nat |-> IF k = 0 THEN s ELSE inner]
  <2>1. ASSUME NEW k \in Nat
        PROVE  f[k] = IF k = 0 THEN s ELSE IF IsList(f[k - 1]) THEN f[k - 1].items[1] ELSE f[k - 1]
    <3>1. CASE k = 0
      BY <3>1
    <3>2. CASE k = 1
      BY <3>2, <1>2 DEF inner
    <3>3. CASE k > 1
      <4>1. k - 1 \in Nat /\ k - 1 # 0 /\ k # 0
        BY <3>3
      <4>2. f[k] = inner /\ f[k - 1] = inner
        BY <4>1
      <4> QED
        BY <1>2, <4>1, <4>2 DEF Leaf
    <3> QED
      BY <3>1, <3>2, <3>3
  <2>2. f = [k \in Nat |-> f[k]]
    OBVIOUS
  <2> HIDE DEF f
  <2>3. W(f)
    BY <2>1, <2>2
  <2> QED
    BY <2>3 DEF f
<1>4. W(within)
  <2> HIDE DEF W
  <2> QED
    BY <1>3
<1> HIDE DEF within
<1>5. within[0] = s /\ \A k \in Nat : within[k + 1] = IF IsList(within[k]) THEN within[k].items[1] ELSE within[k]
  <2>1. \A k \in Nat : within[k] = IF k = 0 THEN s
                                   ELSE IF IsList(within[k - 1]) THEN within[k - 1].items[1] ELSE within[k - 1]
    BY <1>4
  <2>2. ASSUME NEW k \in Nat PROVE k + 1 \in Nat /\ k + 1 # 0 /\ (k + 1) - 1 = k
    OBVIOUS
  <2>3. ASSUME NEW k \in Nat PROVE within[k + 1] = IF IsList(within[k]) THEN within[k].items[1] ELSE within[k]
    BY <2>1, <2>2
  <2> QED
    BY <2>1, <2>3
<1> HIDE DEF W
<1>6. \A k \in Nat : k # 0 => within[k] = inner
  <2> DEFINE B == {k \in Nat : k # 0 /\ within[k] # inner}
  <2> SUFFICES ASSUME B # {} PROVE FALSE
    OBVIOUS
  <2>1. PICK k \in B : \A i \in B : k <= i
    <3>1. B \in SUBSET Nat
      OBVIOUS
    <3> HIDE DEF B
    <3> QED
      BY <3>1, LeastNat
  <2>2. k \in Nat /\ k # 0 /\ within[k] # inner /\ k - 1 \in Nat /\ k - 1 \notin B /\ (k - 1) + 1 = k
    BY <2>1
  <2>3. within[k] = IF IsList(within[k - 1]) THEN within[k - 1].items[1] ELSE within[k - 1]
    BY <1>5, <2>2
  <2>4. CASE k - 1 = 0
    BY <1>5, <2>2, <2>3, <2>4 DEF inner
  <2>5. CASE k - 1 # 0
    <3>1. within[k - 1] = inner
      BY <2>2, <2>5
    <3> QED
      BY <1>2, <2>2, <2>3, <3>1 DEF Leaf
  <2> QED
    BY <2>4, <2>5
<1> DEFINE end == [models |-> models, schema |-> inner]
<1>7. \A k \in Nat : k # 0 => ~IsList(within[k]) /\ ResolveItem(models, within[k]) = end
  BY <1>2, <1>6, LeafStays DEF Leaf
<1> DEFINE first == IF IsList(s) THEN [end EXCEPT !.schema = [s EXCEPT !.items = <<end.schema>>]]
                    ELSE ResolveItem(models, s)
<1>8. R([k \in Nat |-> IF k = 0 THEN first ELSE end])
  <2> DEFINE f == [k \in Nat |-> IF k = 0 THEN first ELSE end]
  <2> HIDE DEF end, first
  <2>1. ASSUME NEW k \in Nat
        PROVE  f[k] = IF IsList(within[k])
                      THEN [f[k + 1] EXCEPT !.schema = [within[k] EXCEPT !.items = <<f[k + 1].schema>>]]
                      ELSE ResolveItem(models, within[k])
    <3>1. f[k + 1] = end
      OBVIOUS
    <3>2. CASE k = 0
      <4>1. f[k] = first /\ within[k] = s
        BY <1>5, <3>2
      <4> QED
        BY <3>1, <4>1 DEF first
    <3>3. CASE k # 0
      <4>1. f[k] = end
        BY <3>3
      <4> QED
        BY <1>7, <3>3, <4>1
    <3> QED
      BY <3>2, <3>3
  <2>2. f = [k \in Nat |-> f[k]]
    OBVIOUS
  <2> HIDE DEF f
  <2>3. R(f)
    BY <2>1, <2>2
  <2> QED
    BY <2>3 DEF f
<1>9. R(resolved)
  <2> HIDE DEF R
  <2> QED
    BY <1>8
<1> HIDE DEF resolved
<1>10. \A k \in Nat : resolved[k] = IF IsList(within[k])
                        THEN [resolved[k + 1] EXCEPT !.schema = [within[k] EXCEPT !.items = <<resolved[k + 1].schema>>]]
                        ELSE ResolveItem(models, within[k])
  BY <1>9
<1> HIDE DEF R
<1>11. resolved[0 + 1] = end /\ within[0] = s
  <2>1. 0 + 1 \in Nat /\ 0 + 1 # 0
    OBVIOUS
  <2> QED
    BY <1>5, <1>7, <1>10, <2>1
<1>12. resolved[0] = first
  <2>1. 0 \in Nat
    OBVIOUS
  <2> QED
    BY <1>10, <1>11, <2>1
<1>13. CASE IsList(s)
  <2>1. s = ListSchema(inner) /\ [ListSchema(inner) EXCEPT !.items = <<inner>>] = ListSchema(inner)
    BY <1>2, <1>13 DEF ListSchema, EmptySchema
  <2>2. first = [end EXCEPT !.schema = s]
    BY <1>13, <2>1
  <2> QED
    BY <1>1, <1>12, <2>2
<1>14. CASE ~IsList(s)
  <2>1. ResolveItem(models, s) = [models |-> models, schema |-> s]
    BY <1>2, <1>14, LeafStays
  <2> QED
    BY <1>1, <1>12, <1>14, <2>1
<1> QED
  BY <1>13, <1>14

LEMMA GreatestIn ==
  ASSUME NEW n \in Nat, NEW u \in SUBSET (1 .. n), u # {}
  PROVE  Max(u) \in u
<1> DEFINE B == {n - x : x \in u}
<1>1. B \in SUBSET Nat /\ B # {}
  <2>1. \A x \in u : n - x \in Nat
    OBVIOUS
  <2>2. PICK x \in u : TRUE
    OBVIOUS
  <2>3. n - x \in B
    OBVIOUS
  <2> QED
    BY <2>1, <2>3
<1>2. PICK k \in B : \A i \in B : k <= i
  <2> HIDE DEF B
  <2> QED
    BY <1>1, LeastNat
<1>3. PICK m \in u : k = n - m
  BY <1>2
<1>4. \A x \in u : m >= x
  <2> SUFFICES ASSUME NEW x \in u PROVE m >= x
    OBVIOUS
  <2>1. n - x \in B
    OBVIOUS
  <2>2. n - m <= n - x
    BY <1>2, <1>3, <2>1
  <2> QED
    BY <2>2
<1> QED
  BY <1>4 DEF Max

\* a property that is plain is written back as it was
LEMMA PropertyStays ==
  ASSUME NEW models, PlainModels(models), NEW n \in DOMAIN models, NEW i \in DOMAIN models[n].props
  PROVE  LET r == ResolveTo(models, models[n].props[i])
         IN  WithProperty(r, n, i) = models
<1> DEFINE props == models[n].props
           r == ResolveTo(models, props[i])
<1>1. PICK p : models[n] = ObjectSchema(p) /\ Listed(p) /\ \A j \in DOMAIN p : Plain(p[j])
  BY DEF PlainModels, PlainObject
<1>2. props = p
  BY <1>1 DEF ObjectSchema, EmptySchema
<1>3. r.models = models /\ r.schema = p[i]
  BY <1>1, <1>2, PlainStays
<1> HIDE DEF r
<1>4. [p EXCEPT ![i] = p[i]] = p
  <2>1. p \in Seq(Range(p)) /\ p \in [1 .. Len(p) -> Range(p)]
    BY <1>1, SeqDef DEF Listed
  <2> QED
    BY <2>1
<1>5. [ObjectSchema(p) EXCEPT !.props = p] = ObjectSchema(p)
  BY DEF ObjectSchema, EmptySchema
<1>6. [models[n] EXCEPT !.props[i] = p[i]] = models[n]
  <2>1. [models[n] EXCEPT !.props[i] = p[i]] = [models[n] EXCEPT !.props = [p EXCEPT ![i] = p[i]]]
    BY <1>2
  <2> QED
    BY <1>1, <1>4, <1>5, <2>1
<1>7. [models EXCEPT ![n] = models[n]] = models
  BY DEF PlainModels, IsMap
<1>8. [models EXCEPT ![n].props[i] = p[i]] = [models EXCEPT ![n] = [models[n] EXCEPT !.props[i] = p[i]]]
  OBVIOUS
<1> QED
  BY <1>3, <1>6, <1>7, <1>8 DEF r, WithProperty

LEMMA ModelStays ==
  ASSUME NEW models, PlainModels(models), NEW n \in DOMAIN models
  PROVE  HoistModel(n, models) = models
<1> DEFINE places == IF models[n].props = Nil THEN <<>> ELSE [i \in DOMAIN models[n].props |-> i]
           step(m, i) == WithProperty(ResolveTo(m, m[n].props[i]), n, i)
           S == DOMAIN places
           P(g) == g = [u \in SUBSET S |-> IF u = {} THEN models ELSE step(g[u \ {Max(u)}], places[Max(u)])]
           result == HoistModel(n, models)
<1>1. result = (CHOOSE g : P(g))[S]
  BY DEF HoistModel, FoldLeft, MapThenFoldSet
<1>2. PICK len \in Nat : S = 1 .. len /\ \A i \in S : i \in DOMAIN models[n].props /\ places[i] = i
  <2>1. PICK p : models[n] = ObjectSchema(p) /\ Listed(p)
    BY DEF PlainModels, PlainObject
  <2>2. models[n].props = p
    BY <2>1 DEF ObjectSchema, EmptySchema
  <2>3. DOMAIN p = 1 .. Len(p) /\ Len(p) \in Nat
    BY <2>1, ListedMembers
  <2>4. CASE p = Nil
    <3>1. places = <<>> /\ DOMAIN <<>> = {} /\ 1 .. 0 = {}
      BY <2>2, <2>4
    <3> HIDE DEF places
    <3> QED
      BY <3>1
  <2>5. CASE p # Nil
    <3>1. places = [i \in DOMAIN p |-> i]
      BY <2>2, <2>5
    <3> HIDE DEF places
    <3> QED
      BY <2>2, <2>3, <3>1
  <2> QED
    BY <2>4, <2>5
<1>3. \A i \in S : step(models, places[i]) = models
  BY <1>2, PropertyStays
<1>4. \A u \in SUBSET S : u # {} => Max(u) \in u
  BY <1>2, GreatestIn
<1> HIDE DEF step, places
<1>5. P([u \in SUBSET S |-> models])
  <2> DEFINE f == [u \in SUBSET S |-> models]
  <2>1. ASSUME NEW u \in SUBSET S
        PROVE  f[u] = IF u = {} THEN models ELSE step(f[u \ {Max(u)}], places[Max(u)])
    <3>1. u # {} => f[u \ {Max(u)}] = models /\ step(models, places[Max(u)]) = models
      BY <1>3, <1>4
    <3> QED
      BY <3>1
  <2>2. f = [u \in SUBSET S |-> f[u]]
    OBVIOUS
  <2> HIDE DEF f
  <2>3. P(f)
    BY <2>1, <2>2
  <2> QED
    BY <2>3 DEF f
<1> DEFINE g == CHOOSE g : P(g)
<1>6. P(g)
  <2> HIDE DEF P
  <2> QED
    BY <1>5
<1> HIDE DEF g
<1> DEFINE pick == [u \in SUBSET S |-> Max(u)]
<1>7. g[{}] = models /\ IsFiniteSet(S)
  BY <1>2, <1>6, FS_Interval
<1>8. \A u \in SUBSET S : u # {} => pick[u] \in u /\ (g[u \ {pick[u]}] = models => g[u] = models)
  <2> SUFFICES ASSUME NEW u \in SUBSET S, u # {}
               PROVE  pick[u] \in u /\ (g[u \ {pick[u]}] = models => g[u] = models)
    OBVIOUS
  <2>1. pick[u] = Max(u) /\ Max(u) \in u /\ g[u] = step(g[u \ {Max(u)}], places[Max(u)])
    BY <1>4, <1>6
  <2> QED
    BY <1>3, <2>1
<1> HIDE DEF pick, S, P, result
<1>9. g[S] = models
  <2>1. Still(S, models, g, pick)
    BY <1>7, <1>8 DEF Still
  <2> QED
    BY <1>7, <2>1, StillFold
<1>10. result = models
  BY <1>1, <1>9 DEF g
<1> QED
  BY <1>10 DEF result

PlainSpec(spec) ==
    /\ IsMap(spec) /\ Readable(spec) /\ {"models", "operations"} \subseteq DOMAIN spec
    /\ PlainModels(spec.models)
    /\ \A i \in DOMAIN spec.operations : PlainOperation(spec.operations[i])

LEMMA ModelsStay ==
  ASSUME NEW models, PlainModels(models)
  PROVE  FoldSet(HoistModel, models, DOMAIN models) = models
<1> DEFINE S == DOMAIN models
           choice(u) == CHOOSE x \in u : TRUE
           P(g) == g = [u \in SUBSET S |-> IF u = {} THEN models ELSE HoistModel(choice(u), g[u \ {choice(u)}])]
           result == FoldSet(HoistModel, models, S)
<1>1. result = (CHOOSE g : P(g))[S]
  BY DEF FoldSet, MapThenFoldSet
<1> HIDE DEF result
<1>2. \A u \in SUBSET S : u # {} => choice(u) \in u
  OBVIOUS
<1>3. \A x \in S : HoistModel(x, models) = models
  BY ModelStays
<1> HIDE DEF choice, S
<1>4. P([u \in SUBSET S |-> models])
  <2> DEFINE f == [u \in SUBSET S |-> models]
  <2>1. ASSUME NEW u \in SUBSET S
        PROVE  f[u] = IF u = {} THEN models ELSE HoistModel(choice(u), f[u \ {choice(u)}])
    <3>1. u # {} => f[u \ {choice(u)}] = models /\ HoistModel(choice(u), models) = models
      BY <1>2, <1>3
    <3> QED
      BY <3>1
  <2>2. f = [u \in SUBSET S |-> f[u]]
    OBVIOUS
  <2> HIDE DEF f
  <2>3. P(f)
    BY <2>1, <2>2
  <2> QED
    BY <2>3 DEF f
<1> DEFINE g == CHOOSE g : P(g)
<1>5. P(g)
  <2> HIDE DEF P
  <2> QED
    BY <1>4
<1> HIDE DEF g
<1> DEFINE pick == [u \in SUBSET S |-> choice(u)]
<1>6. g[{}] = models /\ IsFiniteSet(S)
  BY <1>5 DEF PlainModels, S
<1>7. \A u \in SUBSET S : u # {} => pick[u] \in u /\ (g[u \ {pick[u]}] = models => g[u] = models)
  <2> SUFFICES ASSUME NEW u \in SUBSET S, u # {}
               PROVE  pick[u] \in u /\ (g[u \ {pick[u]}] = models => g[u] = models)
    OBVIOUS
  <2>1. pick[u] = choice(u) /\ choice(u) \in u /\ g[u] = HoistModel(choice(u), g[u \ {choice(u)}])
    BY <1>2, <1>5
  <2> QED
    BY <1>3, <2>1
<1> HIDE DEF pick, P
<1>8. g[S] = models
  <2>1. Still(S, models, g, pick)
    BY <1>6, <1>7 DEF Still
  <2> QED
    BY <1>6, <2>1, StillFold
<1>9. result = models
  BY <1>1, <1>8 DEF g
<1> QED
  BY <1>9 DEF result, S

LEMMA ResponseStays ==
  ASSUME NEW w, w = [models |-> w.models, responses |-> w.responses],
         NEW i \in DOMAIN w.responses, IsMap(w.responses), PlainAnswers(w.responses[i]),
         NEW c \in DOMAIN w.responses[i]
  PROVE  HoistResponse(<<i, c>>, w) = w
<1> DEFINE s == w.responses[i][c]
           r == ResolveTo(w.models, s)
<1>1. CASE s = Nil
  BY <1>1 DEF HoistResponse
<1>2. CASE s # Nil
  <2>1. r.models = w.models /\ r.schema = s
    BY <1>2, PlainStays DEF PlainAnswers
  <2>2. HoistResponse(<<i, c>>, w) = WithResponse(r, w, <<i, c>>)
    BY <1>2 DEF HoistResponse
  <2> HIDE DEF r
  <2>3. WithResponse(r, w, <<i, c>>) = [models |-> r.models, responses |-> [w.responses EXCEPT ![i][c] = r.schema]]
    BY DEF WithResponse
  <2>4. [w.responses[i] EXCEPT ![c] = s] = w.responses[i]
    BY DEF PlainAnswers, IsMap
  <2>5. [w.responses EXCEPT ![i] = w.responses[i]] = w.responses
    BY DEF IsMap
  <2>6. [w.responses EXCEPT ![i][c] = s] = [w.responses EXCEPT ![i] = [w.responses[i] EXCEPT ![c] = s]]
    OBVIOUS
  <2> HIDE DEF s
  <2> QED
    BY <2>1, <2>2, <2>3, <2>4, <2>5, <2>6
<1> QED
  BY <1>1, <1>2

LEMMA ResponsesStay ==
  ASSUME NEW w, w = [models |-> w.models, responses |-> w.responses], IsMap(w.responses),
         NEW S, IsFiniteSet(S),
         \A x \in S : \E i \in DOMAIN w.responses : \E c \in DOMAIN w.responses[i] :
                        x = <<i, c>> /\ PlainAnswers(w.responses[i])
  PROVE  FoldSet(HoistResponse, w, S) = w
<1> DEFINE choice(u) == CHOOSE x \in u : TRUE
           P(g) == g = [u \in SUBSET S |-> IF u = {} THEN w ELSE HoistResponse(choice(u), g[u \ {choice(u)}])]
           result == FoldSet(HoistResponse, w, S)
<1>1. result = (CHOOSE g : P(g))[S]
  BY DEF FoldSet, MapThenFoldSet
<1> HIDE DEF result
<1>2. \A u \in SUBSET S : u # {} => choice(u) \in u
  OBVIOUS
<1>3. \A x \in S : HoistResponse(x, w) = w
  BY ResponseStays
<1> HIDE DEF choice
<1>4. P([u \in SUBSET S |-> w])
  <2> DEFINE f == [u \in SUBSET S |-> w]
  <2>1. ASSUME NEW u \in SUBSET S
        PROVE  f[u] = IF u = {} THEN w ELSE HoistResponse(choice(u), f[u \ {choice(u)}])
    <3>1. u # {} => f[u \ {choice(u)}] = w /\ HoistResponse(choice(u), w) = w
      BY <1>2, <1>3
    <3> QED
      BY <3>1
  <2>2. f = [u \in SUBSET S |-> f[u]]
    OBVIOUS
  <2> HIDE DEF f
  <2>3. P(f)
    BY <2>1, <2>2
  <2> QED
    BY <2>3 DEF f
<1> DEFINE g == CHOOSE g : P(g)
<1>5. P(g)
  <2> HIDE DEF P
  <2> QED
    BY <1>4
<1> HIDE DEF g
<1> DEFINE pick == [u \in SUBSET S |-> choice(u)]
<1>6. g[{}] = w
  BY <1>5
<1>7. \A u \in SUBSET S : u # {} => pick[u] \in u /\ (g[u \ {pick[u]}] = w => g[u] = w)
  <2> SUFFICES ASSUME NEW u \in SUBSET S, u # {}
               PROVE  pick[u] \in u /\ (g[u \ {pick[u]}] = w => g[u] = w)
    OBVIOUS
  <2>1. pick[u] = choice(u) /\ choice(u) \in u /\ g[u] = HoistResponse(choice(u), g[u \ {choice(u)}])
    BY <1>2, <1>5
  <2> QED
    BY <1>3, <2>1
<1> HIDE DEF pick, P
<1>8. g[S] = w
  <2>1. Still(S, w, g, pick)
    BY <1>6, <1>7 DEF Still
  <2> QED
    BY <2>1, StillFold
<1>9. result = w
  BY <1>1, <1>8 DEF g
<1> QED
  BY <1>9 DEF result

LEMMA HoistedPlain ==
  ASSUME NEW spec, PlainSpec(spec)
  PROVE  Hoisted(spec) = spec
<1> DEFINE all == DOMAIN spec.operations
           places == UNION {{<<i, c>> : c \in DOMAIN spec.operations[i].responses} : i \in all}
           given == [i \in all |-> spec.operations[i].responses]
           inModels == [models |-> FoldSet(HoistModel, spec.models, DOMAIN spec.models), responses |-> given]
           with(done) ==
             [spec EXCEPT !.models = done.models,
                          !.operations = [i \in all |-> [spec.operations[i] EXCEPT !.responses = done.responses[i]]]]
<1>1. Hoisted(spec) = with(FoldSet(HoistResponse, inModels, places))
  BY DEF Hoisted
<1> DEFINE w == [models |-> spec.models, responses |-> given]
<1>2. inModels = w
  BY ModelsStay DEF PlainSpec
<1>3. IsFiniteSet(places)
  <2> DEFINE f == [i \in all |-> {<<i, c>> : c \in DOMAIN spec.operations[i].responses}]
  <2>1. IsFiniteSet(all)
    <3>1. all = 1 .. Len(spec.operations) /\ Len(spec.operations) \in Nat
      BY ListedMembers DEF PlainSpec, Readable
    <3> HIDE DEF all
    <3> QED
      BY <3>1, FS_Interval
  <2>2. ASSUME NEW i \in all PROVE IsFiniteSet(f[i])
    <3> DEFINE cs == DOMAIN spec.operations[i].responses
               pair == [c \in cs |-> <<i, c>>]
    <3>1. IsFiniteSet(cs)
      BY DEF PlainSpec, PlainOperation, PlainAnswers
    <3>2. f[i] = {pair[c] : c \in cs}
      OBVIOUS
    <3> HIDE DEF f, pair, cs
    <3> QED
      BY <3>1, <3>2, ImageFinite
  <2>3. places = UNION {f[i] : i \in all}
    OBVIOUS
  <2> HIDE DEF f, all, places
  <2> QED
    BY <2>1, <2>2, <2>3, FamilyFinite
<1>4. \A x \in places : \E i \in DOMAIN w.responses : \E c \in DOMAIN w.responses[i] :
                          x = <<i, c>> /\ PlainAnswers(w.responses[i])
  <2> SUFFICES ASSUME NEW i \in all, NEW c \in DOMAIN spec.operations[i].responses
               PROVE  /\ i \in DOMAIN w.responses /\ c \in DOMAIN w.responses[i] /\ PlainAnswers(w.responses[i])
    OBVIOUS
  <2>1. w.responses[i] = spec.operations[i].responses
    OBVIOUS
  <2> QED
    BY <2>1 DEF PlainSpec, PlainOperation
<1>5. w = [models |-> w.models, responses |-> w.responses] /\ IsMap(w.responses)
  BY DEF IsMap
<1>6. FoldSet(HoistResponse, w, places) = w
  <2> HIDE DEF w, places, inModels, with, given
  <2> QED
    BY <1>3, <1>4, <1>5, ResponsesStay
<1>7. with(w) = spec
  <2>1. [i \in all |-> [spec.operations[i] EXCEPT !.responses = w.responses[i]]] = spec.operations
    <3>1. spec.operations = [i \in all |-> spec.operations[i]]
      <4>1. spec.operations \in [1 .. Len(spec.operations) -> Range(spec.operations)]
        BY SeqDef DEF PlainSpec, Readable, Listed
      <4> QED
        BY <4>1
    <3>2. ASSUME NEW i \in all PROVE [spec.operations[i] EXCEPT !.responses = w.responses[i]] = spec.operations[i]
      BY DEF PlainSpec, PlainOperation, IsMap
    <3> QED
      BY <3>1, <3>2
  <2>2. w.models = spec.models
    OBVIOUS
  <2>3. [spec EXCEPT !.models = spec.models, !.operations = spec.operations] = spec
    BY DEF PlainSpec, IsMap
  <2> QED
    BY <2>1, <2>2, <2>3
<1> HIDE DEF w, places, with
<1>8. with(FoldSet(HoistResponse, inModels, places)) = with(w)
  BY <1>2, <1>6
<1> QED
  BY <1>1, <1>7, <1>8

-----------------------------------------------------------------------------
\* The rounds of the resolver change the references and add definitions: the
\* operations and the models stay what they were in a plain description.
Carried(from, spec) ==
    /\ PlainSpec(spec) /\ {"host", "basePath"} \subseteq DOMAIN spec
    /\ spec.operations = from.operations /\ spec.models = from.models
    /\ spec.host = from.host /\ spec.basePath = from.basePath
    /\ DOMAIN from.defs \subseteq DOMAIN spec.defs

LEMMA InstallShape ==
  ASSUME NEW spec, NEW resolved, NEW first, NEW local \in BOOLEAN
  PROVE  LET left == Install(spec, resolved, first, local)
         IN  /\ IsMap(left) /\ DOMAIN left = DOMAIN spec
             /\ \A x \in DOMAIN spec \ {"ops", "defs"} : left[x] = spec[x]
             /\ "defs" \in DOMAIN spec => DOMAIN spec.defs \subseteq DOMAIN left.defs
<1> DEFINE hit(r) == Key(r) \in DOMAIN resolved
           inlined == {i[2] : i \in {j \in Table(spec) : j[2].how = "inline" /\ hit(j[2])}}
           copied == {i[2] : i \in {j \in Table(spec) : j[2].how = "ref" /\ j[2].root # Here /\ hit(j[2])}}
           retained(r, refs) == IF local THEN refs ELSE Retain(refs, first[Key(r)])
           held(n) == IF \E r \in inlined : IsLocal(r) /\ r.name = n /\ ~local
                      THEN Retain(spec.defs[n].refs, Own) ELSE spec.defs[n].refs
           localised(refs) == {IF r \in copied THEN [r EXCEPT !.root = Here] ELSE r : r \in refs}
           object(r) == IF IsLocal(r) THEN localised(held(r.name))
                        ELSE retained(r, resolved[Key(r)].refs)
           rewritten(refs) == localised(refs \ inlined) \cup UNION {object(r) : r \in refs \cap inlined}
           names == {r.name : r \in copied}
           defs == [n \in DOMAIN spec.defs \cup names |->
                       IF n \in names
                       THEN LET r == CHOOSE q \in copied : q.name = n
                            IN  [doc |-> resolved[Key(r)].doc, refs |-> retained(r, resolved[Key(r)].refs)]
                       ELSE [doc |-> spec.defs[n].doc, refs |-> rewritten(held(n))]]
<1>1. Install(spec, resolved, first, local) = [spec EXCEPT !.ops = rewritten(@), !.defs = defs]
  BY DEF Install
<1>2. DOMAIN spec.defs \subseteq DOMAIN defs
  OBVIOUS
<1> HIDE DEF defs, rewritten
<1> QED
  BY <1>1, <1>2 DEF IsMap

LEMMA InstallKeeps ==
  ASSUME NEW from, NEW spec, Carried(from, spec), NEW resolved, ResolvedWell(spec, resolved), NEW first,
         NEW local \in BOOLEAN
  PROVE  Carried(from, Install(spec, resolved, first, local))
<1> DEFINE left == Install(spec, resolved, first, local)
<1>1. /\ IsMap(left) /\ DOMAIN left = DOMAIN spec
      /\ \A x \in DOMAIN spec \ {"ops", "defs"} : left[x] = spec[x]
      /\ "defs" \in DOMAIN spec => DOMAIN spec.defs \subseteq DOMAIN left.defs
  BY InstallShape
<1>2. Readable(left)
  BY InstallFinite DEF Carried, PlainSpec
<1> HIDE DEF left
<1>3. {"models", "operations", "host", "basePath", "defs", "ops"} \subseteq DOMAIN spec
  BY DEF Carried, PlainSpec, Readable
<1>4. /\ left.operations = spec.operations /\ left.models = spec.models /\ left.host = spec.host
      /\ left.basePath = spec.basePath
  BY <1>1, <1>3
<1>6. PlainSpec(left)
  BY <1>1, <1>2, <1>4 DEF Carried, PlainSpec
<1> QED
  BY <1>1, <1>3, <1>4, <1>6 DEF Carried, left

LEMMA LocalRoundKeeps ==
  ASSUME NEW from, NEW spec, Carried(from, spec)
  PROVE  Carried(from, LocalRound(spec))
<1> DEFINE current == Round(Hoisted(spec), 0, FALSE)
           first == [k \in DOMAIN current.resolvedRefs |-> Own]
<1>1. Hoisted(spec) = spec
  BY HoistedPlain DEF Carried
<1>2. current.spec = spec
  BY <1>1 DEF Round
<1>3. RoundWell(current)
  BY <1>1, RoundIsWell DEF Carried, PlainSpec
<1> HIDE DEF current
<1>4. ResolvedWell(spec, current.resolvedRefs)
  BY <1>2, <1>3 DEF RoundWell
<1>5. LocalRound(spec) = Install(spec, current.resolvedRefs, first, TRUE)
  BY <1>2 DEF LocalRound, FinishedLocally, current
<1> HIDE DEF first
<1> QED
  BY <1>4, <1>5, InstallKeeps

LEMMA ResolveKeeps ==
  ASSUME NEW from, NEW spec, Carried(from, spec), NEW iteration \in Nat
  PROVE  Carried(from, Resolve(spec, iteration).spec)
<1> DEFINE after[n \in 0..MaxIteration + 2] == IF n = 0 THEN spec ELSE LocalRound(after[n - 1])
           current(n) == RoundAfter(after, n, iteration)
           waits(n) == Fetches(current(n))
           ends(n) == Ends(after, n, iteration)
           last == LastRound(after, iteration)
           result == IF waits(last) THEN current(last) ELSE Round(after[last + 1], iteration + last, TRUE)
<1>1. Resolve(spec, iteration) = result
  BY DEF Resolve
<1>2. /\ after[0] = spec
      /\ \A n \in 1 .. 7 : after[n] = LocalRound(after[n - 1])
  <2>1. PICK f : IsChain("local", spec, spec, 7, f)
    BY ChainExists
  <2>2. f = [n \in 0..MaxIteration + 2 |-> IF n = 0 THEN spec ELSE LocalRound(f[n - 1])]
    BY <2>1 DEF IsChain, Step, MaxIteration
  <2>3. after = [n \in 0..MaxIteration + 2 |-> IF n = 0 THEN spec ELSE LocalRound(after[n - 1])]
    BY <2>2
  <2> HIDE DEF after
  <2> QED
    BY <2>3 DEF MaxIteration
<1> HIDE DEF after
<1>3. \A n \in 0 .. 7 : Carried(from, after[n])
  <2> DEFINE B == {n \in 0 .. 7 : ~Carried(from, after[n])}
  <2> SUFFICES ASSUME B # {} PROVE FALSE
    OBVIOUS
  <2>1. PICK n \in B : \A i \in B : n <= i
    <3>1. B \in SUBSET Nat
      OBVIOUS
    <3> HIDE DEF B
    <3> QED
      BY <3>1, LeastNat
  <2>2. n # 0
    BY <1>2
  <2>3. n - 1 \in 0 .. 7 /\ n - 1 \notin B
    BY <2>1, <2>2
  <2> QED
    BY <1>2, <2>2, <2>3, LocalRoundKeeps
<1>4. last \in 0 .. 6
  <2>0. ends(6)
    <3> HIDE DEF waits
    <3> QED
      BY DEF Ends, Finished, MaxIteration
  <2> HIDE DEF ends
  <2> DEFINE B == {n \in 0 .. 6 : ends(n)}
  <2>1. 6 \in B
    BY <2>0
  <2>2. PICK n \in B : \A i \in B : n <= i
    <3>1. B \in SUBSET Nat
      OBVIOUS
    <3> HIDE DEF B
    <3> QED
      BY <2>1, <3>1, LeastNat
  <2>3. n \in 0 .. 6 /\ ends(n)
    BY <2>2
  <2>4. \A k \in 0 .. n - 1 : ~ends(k)
    BY <2>2, <2>3
  <2> QED
    BY <2>3, <2>4 DEF LastRound, MaxIteration
<1> HIDE DEF last
<1>5. CASE waits(last)
  <2>0. last \in 0 .. 7
    BY <1>4
  <2>1. Carried(from, after[last])
    BY <1>3, <2>0
  <2>3. Hoisted(after[last]) = after[last]
    BY <2>1, HoistedPlain DEF Carried
  <2>2. result.spec = after[last]
    BY <1>5, <2>3 DEF RoundAfter, Round
  <2> QED
    BY <1>1, <2>1, <2>2
<1>6. CASE ~waits(last)
  <2>1. Carried(from, after[last + 1])
    BY <1>3, <1>4
  <2>2. result.spec = after[last + 1]
    BY <1>6 DEF Round
  <2> QED
    BY <1>1, <2>1, <2>2
<1> QED
  BY <1>5, <1>6

LEMMA AfterRoundKeeps ==
  ASSUME NEW from, NEW current, RoundWell(current), Carried(from, current.spec), NEW first
  PROVE  Carried(from, AfterRound(current, first).spec)
<1> DEFINE left == Install(current.spec, current.resolvedRefs, first, FALSE)
<1>1. Carried(from, left)
  BY InstallKeeps DEF RoundWell
<1>2. current.iteration + 1 \in Nat
  BY DEF RoundWell
<1>3. AfterRound(current, first) = IF Finished(left, current.iteration) THEN Round(left, current.iteration, TRUE)
                                 ELSE Resolve(left, current.iteration + 1)
  BY DEF AfterRound
<1> HIDE DEF left
<1>4. Round(left, current.iteration, TRUE).spec = left
  BY DEF Round
<1>5. Carried(from, Resolve(left, current.iteration + 1).spec)
  BY <1>1, <1>2, ResolveKeeps
<1> QED
  BY <1>1, <1>3, <1>4, <1>5

(***************************************************************************)
(* What a declaration adds to the object it is folded into.                *)
(***************************************************************************)
PlainSwagger(swagger) ==
    /\ PlainModels(swagger.models) /\ IsMap(swagger.table)
    /\ \A k \in DOMAIN swagger.table : PlainOperation(swagger.table[k])

Ids(decl) == {decl.models[n].id : n \in DOMAIN decl.models}
MapWith(decl, modelMap) ==
    Over([k \in Ids(decl) |-> CHOOSE n \in DOMAIN decl.models : decl.models[n].id = k], modelMap)
SchemaOf(decl, n, modelMap) ==
    LET types == decl.models[n].properties
    IN  ObjectSchema([i \in DOMAIN types |-> ToJsonSchema(types[i], modelMap)])
Schemas(decl, modelMap) == [n \in DOMAIN decl.models |-> SchemaOf(decl, n, modelMap)]
Announced(swagger, decl) ==
    [swagger EXCEPT
       !.host = Stated(decl.host, @), !.basePath = decl.basePath,
       !.produces = Stated(decl.produces, @), !.consumes = Stated(decl.consumes, @),
       !.modelMap = MapWith(decl, @)]
Place(o) == <<o.path, o.method>>
Conversions(swagger, d, decl) ==
    [i \in 1 .. Len(decl.operations) |-> Converted(decl.operations[i], decl, d, Announced(swagger, decl))]
TableOf(all, n) == (CHOOSE f : IsChain("table", all, <<>>, n, f))[n]

LEMMA TypesHold ==
  ASSUME NEW decl
  PROVE  /\ \A n \in DOMAIN decl.models : Range(decl.models[n].properties) \subseteq Types(decl)
         /\ \A p \in Range(decl.operations) : p.type \in Types(decl) /\ Range(p.params) \subseteq Types(decl)
<1> DEFINE A == UNION {Range(decl.models[n].properties) : n \in DOMAIN decl.models}
           B == UNION {{p.type} \cup Range(p.params) : p \in Range(decl.operations)}
<1>1. Types(decl) = A \cup B
  BY Zenon DEF Types
<1>2. \A n \in DOMAIN decl.models : Range(decl.models[n].properties) \subseteq A
  BY Zenon
<1>3. ASSUME NEW p \in Range(decl.operations)
      PROVE  p.type \in B /\ Range(p.params) \subseteq B
  <2>1. {p.type} \cup Range(p.params) \in {{q.type} \cup Range(q.params) : q \in Range(decl.operations)}
    OBVIOUS
  <2>2. {p.type} \cup Range(p.params) \subseteq B
    BY <2>1, Zenon
  <2> QED
    BY <2>2
<1> HIDE DEF A, B
<1> QED
  BY <1>1, <1>2, <1>3

LEMMA MadePlain ==
  ASSUME NEW t, t.how = "$ref" \/ (t.how = "type" /\ t.name # "array"), NEW modelMap
  PROVE  Plain(ToJsonSchema(t, modelMap))
<1> DEFINE one == CASE Known(t, modelMap) -> RefSchema(modelMap[t.name])
                    [] ~Known(t, modelMap) /\ t.how = "$ref" -> RefSchema(t.name)
                    [] ~Known(t, modelMap) /\ t.how = "type" ->
                         IF t.name = "void" THEN EmptySchema ELSE TypeSchema(t.name)
<1>1. ToJsonSchema(t, modelMap) = IF t.list THEN ListSchema(one) ELSE one
  BY DEF ToJsonSchema
<1>2. \A name : Leaf(RefSchema(name))
  BY NilAssumption DEF Leaf, IsList, RefSchema, EmptySchema
<1>3. Leaf(EmptySchema)
  BY NilAssumption DEF Leaf, IsList, EmptySchema
<1>4. t.name # "array" => Leaf(TypeSchema(t.name))
  BY DEF Leaf, IsList, TypeSchema, EmptySchema
<1>5. \/ one = RefSchema(modelMap[t.name]) \/ one = RefSchema(t.name)
      \/ t.name # "array" /\ (one = EmptySchema \/ one = TypeSchema(t.name))
  BY Zenon
<1>6. Leaf(one)
  <2> HIDE DEF one
  <2> QED
    BY <1>2, <1>3, <1>4, <1>5
<1> HIDE DEF one
<1> QED
  BY <1>1, <1>6 DEF Plain

LEMMA SchemaPlain ==
  ASSUME NEW decl, FiniteDeclaration(decl), NEW n \in DOMAIN decl.models, NEW modelMap
  PROVE  PlainObject(SchemaOf(decl, n, modelMap))
<1> DEFINE types == decl.models[n].properties
           props == [i \in DOMAIN types |-> ToJsonSchema(types[i], modelMap)]
<1>1. Listed(types)
  BY DEF FiniteDeclaration
<1>2. DOMAIN types = 1 .. Len(types) /\ Len(types) \in Nat
  BY <1>1, ListedMembers
<1>3. \A i \in DOMAIN props : Plain(props[i])
  <2> SUFFICES ASSUME NEW i \in DOMAIN types PROVE Plain(ToJsonSchema(types[i], modelMap))
    OBVIOUS
  <2>1. types[i] \in Types(decl)
    <3>1. types[i] \in Range(types)
      BY DEF Range
    <3> QED
      BY <3>1, TypesHold
  <2> QED
    BY <2>1, MadePlain DEF FiniteDeclaration
<1>4. Listed(props)
  <2> DEFINE S == Range(props)
  <2>1. props \in [1 .. Len(types) -> S]
    BY <1>2 DEF Range
  <2>2. props \in Seq(S)
    <3> HIDE DEF props, S, types
    <3> QED
      BY <1>2, <2>1, SeqDef
  <2> QED
    BY <2>2 DEF Listed
<1>5. SchemaOf(decl, n, modelMap) = ObjectSchema(props)
  BY DEF SchemaOf
<1> HIDE DEF props
<1> QED
  BY <1>3, <1>4, <1>5 DEF PlainObject

LEMMA ConvertedPlain ==
  ASSUME NEW decl, FiniteDeclaration(decl), NEW i \in DOMAIN decl.operations, NEW d, NEW swagger
  PROVE  PlainOperation(Converted(decl.operations[i], decl, d, swagger))
<1> DEFINE o == decl.operations[i]
           default == IF "200" \in DOMAIN o.responses THEN "default" ELSE "200"
           type == ToJsonSchema(o.type, swagger.modelMap)
           message(c) == IF o.responses[c] = Nil THEN Nil ELSE RefSchema(o.responses[c])
           given == [c \in DOMAIN o.responses |-> message(c)]
           last == IF type = EmptySchema THEN Nil ELSE type
           made == Converted(o, decl, d, swagger)
<1>1. made.responses = With(given, default, last) /\ IsMap(made)
  BY DEF Converted, IsMap
<1>2. last = Nil \/ Plain(last)
  <2>1. o.type \in Types(decl)
    <3>1. o \in Range(decl.operations)
      BY DEF Range
    <3> QED
      BY <3>1, TypesHold
  <2> QED
    BY <2>1, MadePlain DEF FiniteDeclaration
<1>3. \A c \in DOMAIN given : given[c] = Nil \/ Plain(given[c])
  <2>1. \A name : Plain(RefSchema(name))
    BY NilAssumption DEF Plain, Leaf, IsList, RefSchema, EmptySchema
  <2> QED
    BY <2>1
<1>4. IsFiniteSet(DOMAIN given)
  BY DEF FiniteDeclaration
<1> HIDE DEF given, last, default, made
<1>5. /\ DOMAIN With(given, default, last) = DOMAIN given \cup {default}
      /\ \A c \in DOMAIN given \cup {default} :
           With(given, default, last)[c] = IF c = default THEN last ELSE given[c]
      /\ IsMap(With(given, default, last))
  BY DEF With, IsMap
<1>6. PlainAnswers(made.responses)
  BY <1>1, <1>2, <1>3, <1>4, <1>5, FS_AddElement DEF PlainAnswers
<1> QED
  BY <1>1, <1>6 DEF PlainOperation, made

\* the table of a declaration by itself
Holds(table, all, n) ==
    /\ IsMap(table) /\ DOMAIN table = {Place(all[i]) : i \in 1 .. n}
    /\ \A k \in DOMAIN table : \E i \in 1 .. n : table[k] = all[i] /\ k = Place(all[i])
LEMMA TableIs ==
  ASSUME NEW n \in Nat, NEW all
  PROVE  Holds(TableOf(all, n), all, n)
<1> DEFINE g == CHOOSE f : IsChain("table", all, <<>>, n, f)
<1>1. IsChain("table", all, <<>>, n, g)
  BY ChainExists
<1> HIDE DEF g
<1>2. g[0] = <<>> /\ \A i \in 1 .. n : g[i] = With(g[i - 1], Place(all[i]), all[i])
  <2>1. \A acc, i : Step("table", all, acc, i) = With(acc, Place(all[i]), all[i])
    BY DEF Step, Place
  <2>2. g[0] = <<>> /\ \A i \in 1 .. n : g[i] = Step("table", all, g[i - 1], i)
    BY <1>1 DEF IsChain
  <2> QED
    BY <2>1, <2>2
<1> DEFINE Good(m) == /\ IsMap(g[m]) /\ DOMAIN g[m] = {Place(all[i]) : i \in 1 .. m}
                      /\ \A k \in DOMAIN g[m] : \E i \in 1 .. m : g[m][k] = all[i] /\ k = Place(all[i])
           B == {m \in 0 .. n : ~Good(m)}
<1>3. ASSUME B # {} PROVE FALSE
  <2>1. PICK m \in B : \A i \in B : m <= i
    <3>1. B \in SUBSET Nat
      OBVIOUS
    <3> HIDE DEF B
    <3> QED
      BY <1>3, <3>1, LeastNat
  <2>2. Good(0)
    <3>1. DOMAIN <<>> = {} /\ 1 .. 0 = {} /\ IsMap(<<>>)
      BY DEF IsMap
    <3> QED
      BY <1>2, <3>1
  <2>3. m # 0
    BY <2>1, <2>2
  <2>4. m \in 1 .. n /\ m - 1 \in 0 .. n /\ m - 1 \notin B
    BY <2>1, <2>3
  <2>5. Good(m - 1)
    BY <2>4
  <2> DEFINE p == Place(all[m])
             old == g[m - 1]
  <2>6. /\ g[m] = With(old, p, all[m]) /\ IsMap(g[m]) /\ DOMAIN g[m] = DOMAIN old \cup {p}
        /\ \A k \in DOMAIN old \cup {p} : g[m][k] = IF k = p THEN all[m] ELSE old[k]
    <3>1. g[m] = With(old, p, all[m])
      BY <1>2, <2>4
    <3> HIDE DEF p, old
    <3> QED
      BY <3>1 DEF With, IsMap
  <2>7. 1 .. m = 1 .. (m - 1) \cup {m}
    BY <2>4
  <2>8. DOMAIN g[m] = {Place(all[i]) : i \in 1 .. m}
    BY <2>5, <2>6, <2>7
  <2>9. ASSUME NEW k \in DOMAIN g[m] PROVE \E i \in 1 .. m : g[m][k] = all[i] /\ k = Place(all[i])
    <3>1. CASE k = p
      BY <2>6, <2>7, <3>1
    <3>2. CASE k # p
      <4>1. k \in DOMAIN old /\ g[m][k] = old[k]
        BY <2>6, <3>2
      <4>2. PICK i \in 1 .. (m - 1) : old[k] = all[i] /\ k = Place(all[i])
        BY <2>5, <4>1
      <4> QED
        BY <2>7, <4>1, <4>2
    <3> QED
      BY <3>1, <3>2
  <2> QED
    BY <2>1, <2>6, <2>8, <2>9
<1>4. n \in 0 .. n
  OBVIOUS
<1>5. Good(n)
  BY <1>3, <1>4
<1> QED
  BY <1>5 DEF Holds, TableOf, g

\* only the modelMap and the media types of the object tell in an operation
LEMMA SameConverted ==
  ASSUME NEW o, NEW decl, NEW d, NEW a, NEW b,
         a.modelMap = b.modelMap, a.produces = b.produces, a.consumes = b.consumes
  PROVE  Converted(o, decl, d, a) = Converted(o, decl, d, b)
  BY DEF Converted

\* acc, after the first i operations of a declaration have been added to base
Added(base, all, own, i, acc) ==
    /\ DOMAIN acc = DOMAIN base /\ \A x \in DOMAIN base \ {"paths", "table"} : acc[x] = base[x]
    /\ acc.table = Over(own, base.table)
    /\ Listed(acc.paths) /\ Range(base.paths) \subseteq Range(acc.paths)
    /\ \A j \in 1 .. i : all[j].path \in Range(acc.paths)

LEMMA OverWith ==
  ASSUME NEW f, NEW g, NEW x, NEW v
  PROVE  With(Over(f, g), x, v) = Over(With(f, x, v), g)
<1> DEFINE l == With(Over(f, g), x, v)
           r == Over(With(f, x, v), g)
<1>1. /\ l = [y \in DOMAIN Over(f, g) \cup {x} |-> IF y = x THEN v ELSE Over(f, g)[y]]
      /\ DOMAIN Over(f, g) = DOMAIN f \cup DOMAIN g
      /\ \A y \in DOMAIN f \cup DOMAIN g : Over(f, g)[y] = IF y \in DOMAIN f THEN f[y] ELSE g[y]
  BY DEF With, Over
<1>2. /\ r = [y \in DOMAIN With(f, x, v) \cup DOMAIN g |-> IF y \in DOMAIN With(f, x, v) THEN With(f, x, v)[y] ELSE g[y]]
      /\ DOMAIN With(f, x, v) = DOMAIN f \cup {x}
      /\ \A y \in DOMAIN f \cup {x} : With(f, x, v)[y] = IF y = x THEN v ELSE f[y]
  BY DEF With, Over
<1>3. DOMAIN l = DOMAIN f \cup DOMAIN g \cup {x} /\ DOMAIN r = DOMAIN f \cup DOMAIN g \cup {x}
  BY <1>1, <1>2
<1>4. \A y \in DOMAIN f \cup DOMAIN g \cup {x} : l[y] = r[y]
  BY <1>1, <1>2
<1>5. l = [y \in DOMAIN l |-> l[y]] /\ r = [y \in DOMAIN r |-> r[y]]
  BY <1>1, <1>2
<1> HIDE DEF l, r
<1> QED
  BY <1>3, <1>4, <1>5 DEF l, r

LEMMA AddedOne ==
  ASSUME NEW base, {"paths", "table"} \subseteq DOMAIN base, NEW all, NEW own, NEW i \in Nat, NEW acc,
         Added(base, all, own, i, acc)
  PROVE  Added(base, all, With(own, Place(all[i + 1]), all[i + 1]), i + 1, AddOperation(acc, all[i + 1]))
<1> DEFINE o == all[i + 1]
           more == AddOperation(acc, o)
           paths == IF Contains(acc.paths, o.path) THEN acc.paths ELSE Append(acc.paths, o.path)
           table == With(acc.table, Place(o), o)
<1>1. more = [acc EXCEPT !.paths = paths, !.table = table]
  BY DEF AddOperation, Place
<1>2. table = Over(With(own, Place(o), o), base.table)
  BY OverWith DEF Added
<1>3. Listed(paths) /\ Range(acc.paths) \subseteq Range(paths) /\ o.path \in Range(paths)
  <2>1. Listed(acc.paths) /\ DOMAIN acc.paths = 1 .. Len(acc.paths) /\ Len(acc.paths) \in Nat
    BY ListedMembers DEF Added
  <2>2. CASE Contains(acc.paths, o.path)
    <3>1. \E j \in 1 .. Len(acc.paths) : acc.paths[j] = o.path
      BY <2>2 DEF Contains
    <3> HIDE DEF o
    <3> QED
      BY <2>1, <2>2, <3>1 DEF Range
  <2>3. CASE ~Contains(acc.paths, o.path)
    <3> DEFINE p == Append(acc.paths, o.path)
    <3>1. /\ Listed(p) /\ DOMAIN p = 1 .. Len(acc.paths) + 1 /\ p[Len(acc.paths) + 1] = o.path
          /\ \A j \in 1 .. Len(acc.paths) : p[j] = acc.paths[j]
      BY <2>1, ListedAppend
    <3>2. paths = p
      BY <2>3
    <3> HIDE DEF p, o, paths
    <3>3. \A j \in 1 .. Len(acc.paths) : j \in DOMAIN p /\ p[j] = acc.paths[j]
      BY <2>1, <3>1
    <3>4. Len(acc.paths) + 1 \in DOMAIN p
      BY <2>1, <3>1
    <3> QED
      BY <2>1, <3>1, <3>2, <3>3, <3>4 DEF Range
  <2> QED
    BY <2>2, <2>3
<1>4. 1 .. (i + 1) = 1 .. i \cup {i + 1}
  OBVIOUS
<1> HIDE DEF paths, table
<1>5. /\ DOMAIN more = DOMAIN acc /\ more.paths = paths /\ more.table = table
      /\ \A x \in DOMAIN acc \ {"paths", "table"} : more[x] = acc[x]
  BY <1>1 DEF Added
<1> HIDE DEF more
<1>6. \A j \in 1 .. (i + 1) : all[j].path \in Range(more.paths)
  BY <1>3, <1>4, <1>5 DEF Added
<1> HIDE DEF o
<1> QED
  BY <1>2, <1>3, <1>5, <1>6 DEF Added, more, o

Declares(swagger, d, decl, result) ==
    LET len == Len(decl.operations)
        all == Conversions(swagger, d, decl)
    IN  /\ result.host = Stated(decl.host, swagger.host) /\ result.basePath = decl.basePath
        /\ result.modelMap = MapWith(decl, swagger.modelMap)
        /\ result.table = Over(TableOf(all, len), swagger.table)
        /\ result.models = Over(Schemas(decl, MapWith(decl, swagger.modelMap)), swagger.models)
        /\ DOMAIN result.defs = DOMAIN decl.models \cup DOMAIN swagger.defs
        /\ Range(swagger.paths) \subseteq Range(result.paths)
        /\ \A i \in 1 .. len : all[i].path \in Range(result.paths)
LEMMA Declared ==
  ASSUME NEW swagger, FiniteSwagger(swagger), IsMap(swagger.table), NEW d, NEW decl, FiniteDeclaration(decl)
  PROVE  Declares(swagger, d, decl, Declaration(swagger, d, decl))
<1> DEFINE names == DOMAIN decl.models
           named == [swagger EXCEPT
                    !.host = Stated(decl.host, @), !.basePath = decl.basePath,
                    !.produces = Stated(decl.produces, @),
                    !.consumes = Stated(decl.consumes, @),
                    !.modelMap = Over([k \in {decl.models[n].id : n \in names} |->
                                         CHOOSE n \in names : decl.models[n].id = k], @)]
           types(n) == decl.models[n].properties
           folded[i \in 0..Len(decl.operations)] ==
             IF i = 0 THEN named
             ELSE AddOperation(folded[i - 1], Converted(decl.operations[i], decl, d, folded[i - 1]))
           schema(n) == ObjectSchema([i \in DOMAIN types(n) |-> ToJsonSchema(types(n)[i], named.modelMap)])
           refs(n) == References({t \in Range(types(n)) : t.list}, named.modelMap, d)
           len == Len(decl.operations)
           end == folded[len]
           all == Conversions(swagger, d, decl)
           own == [n \in names |-> [doc |-> d, refs |-> refs(n)]]
           result == [end EXCEPT
                        !.models = Over([n \in names |-> schema(n)], @),
                        !.defs = Over([n \in names |-> [doc |-> d, refs |-> refs(n)]], @)]
<1>1. Declaration(swagger, d, decl) = result
  BY DEF Declaration
<1>2. len \in Nat
  BY ListedMembers DEF FiniteDeclaration
<1>3. named = Announced(swagger, decl)
  BY DEF Announced, MapWith, Ids
<1>4. /\ DOMAIN swagger = DOMAIN named
      /\ named.host = Stated(decl.host, swagger.host) /\ named.basePath = decl.basePath
      /\ named.modelMap = MapWith(decl, swagger.modelMap)
      /\ named.table = swagger.table /\ named.paths = swagger.paths
      /\ named.models = swagger.models /\ named.defs = swagger.defs
      /\ DOMAIN named = {"host", "basePath", "produces", "consumes", "paths", "table", "defs", "models", "modelMap"}
  <2>1. DOMAIN swagger = {"host", "basePath", "produces", "consumes", "paths", "table", "defs", "models", "modelMap"}
    BY DEF FiniteSwagger, Empty2
  <2>2. named = [swagger EXCEPT
                    !.host = Stated(decl.host, @), !.basePath = decl.basePath,
                    !.produces = Stated(decl.produces, @),
                    !.consumes = Stated(decl.consumes, @),
                    !.modelMap = MapWith(decl, @)]
    BY DEF MapWith, Ids
  <2> HIDE DEF named
  <2> QED
    BY <2>1, <2>2
<1> HIDE DEF named
<1>5. /\ folded[0] = named
      /\ \A i \in 1 .. len : folded[i] = AddOperation(folded[i - 1], Converted(decl.operations[i], decl, d, folded[i - 1]))
  <2> DEFINE a == [decl |-> decl, d |-> d]
  <2>1. PICK f : IsChain("declare", a, named, len, f)
    BY <1>2, ChainExists
  <2>2. f = [i \in 0..Len(decl.operations) |->
               IF i = 0 THEN named
               ELSE AddOperation(f[i - 1], Converted(decl.operations[i], decl, d, f[i - 1]))]
    BY <2>1 DEF IsChain, Step
  <2>3. folded = [i \in 0..Len(decl.operations) |->
               IF i = 0 THEN named
               ELSE AddOperation(folded[i - 1], Converted(decl.operations[i], decl, d, folded[i - 1]))]
    BY <2>2
  <2> HIDE DEF folded
  <2> QED
    BY <1>2, <2>3
<1> HIDE DEF folded
<1> DEFINE g == CHOOSE f : IsChain("table", all, <<>>, len, f)
<1>6. g[0] = <<>> /\ \A i \in 1 .. len : g[i] = With(g[i - 1], Place(all[i]), all[i])
  <2>1. IsChain("table", all, <<>>, len, g)
    <3> HIDE DEF all
    <3> QED
      BY <1>2, ChainExists
  <2> HIDE DEF g, all, len
  <2>2. \A acc, i : Step("table", all, acc, i) = With(acc, Place(all[i]), all[i])
    BY DEF Step, Place
  <2>3. g[0] = <<>> /\ \A i \in 1 .. len : g[i] = Step("table", all, g[i - 1], i)
    BY <1>2, <2>1 DEF IsChain
  <2> QED
    BY <2>2, <2>3
<1>7. g[len] = TableOf(all, len)
  BY DEF TableOf
<1>8. \A i \in 1 .. len : all[i] = Converted(decl.operations[i], decl, d, named)
  BY <1>3 DEF Conversions
<1> HIDE DEF g, all, len
<1> DEFINE B == {i \in 0 .. len : ~Added(named, all, g[i], i, folded[i])}
<1>9. ASSUME B # {} PROVE FALSE
  <2>1. PICK i \in B : \A j \in B : i <= j
    <3>1. B \in SUBSET Nat
      BY <1>2
    <3> HIDE DEF B
    <3> QED
      BY <1>9, <3>1, LeastNat
  <2>2. Added(named, all, g[0], 0, named)
    <3>1. Over(<<>>, named.table) = named.table
      <4>1. DOMAIN <<>> = {}
        OBVIOUS
      <4>2. Over(<<>>, named.table) = [x \in DOMAIN named.table |-> named.table[x]]
        BY <4>1 DEF Over
      <4> QED
        BY <1>4, <4>2 DEF IsMap
    <3>2. 1 .. 0 = {}
      OBVIOUS
    <3> QED
      BY <1>4, <1>6, <3>1, <3>2 DEF Added, FiniteSwagger
  <2>3. i # 0
    BY <1>5, <2>1, <2>2
  <2>4. i \in 1 .. len /\ i - 1 \in 0 .. len /\ i - 1 \notin B /\ i - 1 \in Nat /\ (i - 1) + 1 = i
    BY <1>2, <2>1, <2>3
  <2>5. Added(named, all, g[i - 1], i - 1, folded[i - 1])
    BY <2>4
  <2>6. Converted(decl.operations[i], decl, d, folded[i - 1]) = all[i]
    <3>1. /\ folded[i - 1].modelMap = named.modelMap /\ folded[i - 1].produces = named.produces
          /\ folded[i - 1].consumes = named.consumes
      BY <1>4, <2>5 DEF Added
    <3>2. Converted(decl.operations[i], decl, d, folded[i - 1]) = Converted(decl.operations[i], decl, d, named)
      BY <3>1, SameConverted
    <3> QED
      BY <1>8, <2>4, <3>2
  <2>7. Added(named, all, With(g[i - 1], Place(all[i]), all[i]), i, AddOperation(folded[i - 1], all[i]))
    <3>1. {"paths", "table"} \subseteq DOMAIN named
      BY <1>4
    <3> QED
      BY <2>4, <2>5, <3>1, AddedOne
  <2> QED
    BY <1>5, <1>6, <2>1, <2>4, <2>6, <2>7
<1>10. Added(named, all, g[len], len, end)
  <2>1. len \in 0 .. len
    BY <1>2
  <2> QED
    BY <1>9, <2>1 DEF len
<1> HIDE DEF end, B
<1>11. /\ end.host = named.host /\ end.basePath = named.basePath /\ end.modelMap = named.modelMap
       /\ end.models = named.models /\ end.defs = named.defs /\ DOMAIN end = DOMAIN named
  BY <1>4, <1>10 DEF Added
<1>12. [n \in names |-> schema(n)] = Schemas(decl, named.modelMap)
  BY DEF Schemas, SchemaOf
<1> HIDE DEF schema, refs
<1>13. /\ result.host = end.host /\ result.basePath = end.basePath /\ result.modelMap = end.modelMap
       /\ result.table = end.table /\ result.paths = end.paths
       /\ result.models = Over([n \in names |-> schema(n)], end.models)
       /\ result.defs = Over(own, end.defs)
  BY <1>4, <1>11
<1>14. DOMAIN Over(own, end.defs) = names \cup DOMAIN end.defs
  BY DEF Over
<1> HIDE DEF result, own, names
<1>15. /\ end.table = Over(TableOf(all, len), swagger.table) /\ Range(swagger.paths) \subseteq Range(end.paths)
       /\ \A i \in 1 .. len : all[i].path \in Range(end.paths)
  BY <1>4, <1>7, <1>10 DEF Added
<1> QED
  BY <1>1, <1>4, <1>11, <1>12, <1>13, <1>14, <1>15 DEF Declares, all, len, names

\* buildFromSpec finds every operation of the table that it looks for
LookedAt(n, p, m) == 1 + (n - 1) \div 7 = p /\ 1 + ((n - 1) % 7) = m
LEMMA EveryPlaceIsLookedAt ==
  ASSUME NEW len \in Nat, NEW p \in 1 .. len, NEW m \in 1 .. 7
  PROVE  \E n \in 1 .. 7 * len : LookedAt(n, p, m)
<1> DEFINE n == 7 * (p - 1) + m
<1>1. n \in 1 .. 7 * len
  OBVIOUS
<1>2. (n - 1) \div 7 = p - 1 /\ (n - 1) % 7 = m - 1
  OBVIOUS
<1> HIDE DEF n
<1>3. LookedAt(n, p, m)
  BY <1>2 DEF LookedAt
<1> QED
  BY <1>1, <1>3

LEMMA DescribedOperations ==
  ASSUME NEW swagger, FiniteSwagger(swagger),
         \A k \in DOMAIN swagger.table : k = <<k[1], k[2]>> /\ k[1] \in Range(swagger.paths)
  PROVE  Range(Description(swagger).operations) =
           {swagger.table[k] : k \in {j \in DOMAIN swagger.table : j[2] \in Range(Methods)}}
<1> DEFINE len == Len(swagger.paths)
           sought == {j \in DOMAIN swagger.table : j[2] \in Range(Methods)}
<1>1. DOMAIN swagger.paths = 1 .. len /\ len \in Nat
  BY ListedMembers DEF FiniteSwagger
<1>2. DOMAIN Methods = 1 .. 7
  BY DEF Methods
<1>3. Range(Description(swagger).operations) = FoundAt(swagger, 7 * len)
  BY DescribedListed
<1> HIDE DEF len
<1>4. ASSUME NEW n \in 1 .. 7 * len PROVE At(swagger, n)[2] \in Range(Methods)
  <2>1. 1 + ((n - 1) % 7) \in 1 .. 7
    BY <1>1
  <2>2. Methods[1 + ((n - 1) % 7)] \in Range(Methods)
    BY <1>2, <2>1 DEF Range
  <2> QED
    BY <2>2 DEF At
<1>5. ASSUME NEW k \in sought PROVE \E n \in 1 .. 7 * len : At(swagger, n) = k
  <2>1. PICK p \in 1 .. len : swagger.paths[p] = k[1]
    BY <1>1 DEF Range
  <2>2. PICK m \in 1 .. 7 : Methods[m] = k[2]
    BY <1>2 DEF Range
  <2>3. PICK n \in 1 .. 7 * len : LookedAt(n, p, m)
    BY <1>1, EveryPlaceIsLookedAt
  <2>4. At(swagger, n) = <<k[1], k[2]>>
    BY <2>1, <2>2, <2>3 DEF At, LookedAt
  <2> QED
    BY <2>4
<1>6. {At(swagger, n) : n \in {j \in 1 .. 7 * len : At(swagger, j) \in DOMAIN swagger.table}} = sought
  BY <1>4, <1>5
<1> HIDE DEF sought
<1>7. FoundAt(swagger, 7 * len) = {swagger.table[k] : k \in sought}
  BY <1>6 DEF FoundAt
<1> QED
  BY <1>3, <1>7 DEF sought, len

\* two modelMaps that know the same of some types
Agree(types, a, b) ==
    \A t \in types : /\ t.name \in DOMAIN a <=> t.name \in DOMAIN b
                     /\ t.name \in DOMAIN a => a[t.name] = b[t.name]

LEMMA SameSchema ==
  ASSUME NEW t, t.how \in {"$ref", "type"}, NEW a, NEW b, Agree({t}, a, b)
  PROVE  ToJsonSchema(t, a) = ToJsonSchema(t, b)
<1>1. CASE t.name \in DOMAIN a
  <2>1. t.name \in DOMAIN b /\ a[t.name] = b[t.name]
    BY <1>1 DEF Agree
  <2> QED
    BY <1>1, <2>1 DEF ToJsonSchema, Known
<1>2. CASE t.name \notin DOMAIN a
  <2>1. t.name \notin DOMAIN b
    BY <1>2 DEF Agree
  <2>2. CASE t.how = "$ref"
    BY <1>2, <2>1, <2>2 DEF ToJsonSchema, Known
  <2>3. CASE t.how = "type"
    BY <1>2, <2>1, <2>3 DEF ToJsonSchema, Known
  <2> QED
    BY <2>2, <2>3
<1> QED
  BY <1>1, <1>2

LEMMA SameRefs ==
  ASSUME NEW types, NEW a, NEW b, Agree(types, a, b), NEW d
  PROVE  References(types, a, d) = References(types, b, d)
<1> DEFINE A == {u \in types : Known(u, a) \/ u.how = "$ref"}
           B == {u \in types : Known(u, b) \/ u.how = "$ref"}
           f(t) == [how |-> "ref", name |-> IF Known(t, a) THEN a[t.name] ELSE t.name,
                    root |-> IF Known(t, a) THEN Here ELSE t.name, doc |-> d]
           g(t) == [how |-> "ref", name |-> IF Known(t, b) THEN b[t.name] ELSE t.name,
                    root |-> IF Known(t, b) THEN Here ELSE t.name, doc |-> d]
<1>1. \A t \in types : Known(t, a) = Known(t, b) /\ (Known(t, a) => a[t.name] = b[t.name])
  BY DEF Agree, Known
<1>2. A = B
  BY <1>1
<1>3. \A t \in A : f(t) = g(t)
  BY <1>1
<1>4. References(types, a, d) = {f(t) : t \in A} /\ References(types, b, d) = {g(t) : t \in B}
  BY DEF References
<1> HIDE DEF f, g, A, B
<1> QED
  BY <1>2, <1>3, <1>4

LEMMA SameConversion ==
  ASSUME NEW decl, FiniteDeclaration(decl), NEW o \in Range(decl.operations), NEW d, NEW a, NEW b,
         Agree(Types(decl), a.modelMap, b.modelMap),
         Stated(o.produces, a.produces) = Stated(o.produces, b.produces),
         Stated(o.consumes, a.consumes) = Stated(o.consumes, b.consumes)
  PROVE  Converted(o, decl, d, a) = Converted(o, decl, d, b)
<1> DEFINE default == IF "200" \in DOMAIN o.responses THEN "default" ELSE "200"
           message(c) == IF o.responses[c] = Nil THEN Nil ELSE RefSchema(o.responses[c])
           body == {o.params[p] : p \in {q \in {"body"} \cap DOMAIN o.params : ~o.params[q].list}}
           messages == {[how |-> "ref", name |-> n, root |-> Here, doc |-> d] : n \in Range(o.responses) \ {Nil}}
           make(type, produces, consumes, parameters, refs) ==
             [path |-> o.path, method |-> o.method, id |-> <<o.id>>, tags |-> <<decl.tag>>, declaredIn |-> d,
              produces |-> produces,
              consumes |-> consumes,
              security |-> IF o.authorizations = Inherit THEN decl.authorizations ELSE o.authorizations,
              parameters |-> parameters,
              responses |-> With([c \in DOMAIN o.responses |-> message(c)], default,
                                 IF type = EmptySchema THEN Nil ELSE type),
              refs |-> refs \cup messages]
           Made(x) == make(ToJsonSchema(o.type, x.modelMap), Stated(o.produces, x.produces),
                           Stated(o.consumes, x.consumes),
                           [p \in DOMAIN o.params |-> ToJsonSchema(o.params[p], x.modelMap)],
                           References({o.type} \cup body, x.modelMap, d))
<1>1. Converted(o, decl, d, a) = Made(a) /\ Converted(o, decl, d, b) = Made(b)
  BY DEF Converted
<1> HIDE DEF make
<1>2. o.type \in Types(decl) /\ \A p \in DOMAIN o.params : o.params[p] \in Types(decl)
  <2>1. o.type \in Types(decl) /\ Range(o.params) \subseteq Types(decl)
    BY TypesHold
  <2> QED
    BY <2>1 DEF Range
<1>3. \A t \in Types(decl) : ToJsonSchema(t, a.modelMap) = ToJsonSchema(t, b.modelMap)
  BY SameSchema DEF Agree, FiniteDeclaration
<1>4. ToJsonSchema(o.type, a.modelMap) = ToJsonSchema(o.type, b.modelMap)
  BY <1>2, <1>3
<1>5. [p \in DOMAIN o.params |-> ToJsonSchema(o.params[p], a.modelMap)]
      = [p \in DOMAIN o.params |-> ToJsonSchema(o.params[p], b.modelMap)]
  BY <1>2, <1>3
<1>6. References({o.type} \cup body, a.modelMap, d) = References({o.type} \cup body, b.modelMap, d)
  <2>1. {o.type} \cup body \subseteq Types(decl)
    BY <1>2
  <2> HIDE DEF body
  <2>2. Agree({o.type} \cup body, a.modelMap, b.modelMap)
    BY <2>1 DEF Agree
  <2> QED
    BY <2>2, SameRefs
<1> QED
  BY <1>1, <1>4, <1>5, <1>6

\* a declaration that says everything itself, in any listing
ByItself(w, d) ==
    LET decl == w.declarations[d] IN
    /\ \A o \in Range(decl.operations) :
         Stated(o.produces, decl.produces) # Nil /\ Stated(o.consumes, decl.consumes) # Nil
    /\ \A e \in w.main.apis \ {d} : LET other == w.declarations[e] IN
         /\ Keys(decl) \cap Keys(other) = {} /\ Places(decl) \cap Places(other) = {}
         /\ \A t \in Types(decl) : t.name \notin Keys(other)
         /\ Throws(other) \/ <<decl.host, decl.basePath>> = <<other.host, other.basePath>>
Mapped(w, modelMap) == \A x \in DOMAIN modelMap : \E e \in w.main.apis : x \in Ids(w.declarations[e])

LEMMA MapsAgree ==
  ASSUME NEW w, NEW d, ByItself(w, d), NEW modelMap, Mapped(w, modelMap)
  PROVE  LET decl == w.declarations[d]
         IN  Agree(Types(decl), MapWith(decl, modelMap), MapWith(decl, <<>>))
<1> DEFINE decl == w.declarations[d]
           own == [k \in Ids(decl) |-> CHOOSE n \in DOMAIN decl.models : decl.models[n].id = k]
           a == MapWith(decl, modelMap)
           b == MapWith(decl, <<>>)
<1>1. /\ a = Over(own, modelMap) /\ b = Over(own, <<>>) /\ DOMAIN own = Ids(decl)
  BY DEF MapWith
<1> HIDE DEF own, a, b
<1>2. /\ DOMAIN a = Ids(decl) \cup DOMAIN modelMap /\ \A x \in Ids(decl) : a[x] = own[x]
      /\ DOMAIN b = Ids(decl) /\ \A x \in Ids(decl) : b[x] = own[x]
  <2>1. DOMAIN <<>> = {}
    OBVIOUS
  <2> QED
    BY <1>1, <2>1 DEF Over
<1>3. ASSUME NEW t \in Types(decl), t.name \in DOMAIN modelMap PROVE t.name \in Ids(decl)
  <2>1. PICK e \in w.main.apis : t.name \in Ids(w.declarations[e])
    BY <1>3 DEF Mapped
  <2>2. Ids(w.declarations[e]) \subseteq Keys(w.declarations[e])
    BY DEF Ids, Keys
  <2> QED
    BY <1>3, <2>1, <2>2 DEF ByItself
<1> QED
  BY <1>2, <1>3 DEF Agree, a, b

LEMMA StatedTwice ==
  ASSUME NEW x, NEW y, Stated(x, y) # Nil, NEW z
  PROVE  Stated(x, Stated(y, z)) = Stated(x, y)
  BY DEF Stated

LEMMA ConversionsAlone ==
  ASSUME NEW swagger, FiniteSwagger(swagger), NEW w, NEW d, ByItself(w, d), Mapped(w, swagger.modelMap),
         FiniteDeclaration(w.declarations[d])
  PROVE  LET decl == w.declarations[d]
         IN  /\ Conversions(swagger, d, decl) = Conversions(Empty2, d, decl)
             /\ Schemas(decl, MapWith(decl, swagger.modelMap)) = Schemas(decl, MapWith(decl, Empty2.modelMap))
<1> DEFINE decl == w.declarations[d]
           a == Announced(swagger, decl)
           b == Announced(Empty2, decl)
<1>0. FiniteDeclaration(decl)
  OBVIOUS
<1>1. /\ a.modelMap = MapWith(decl, swagger.modelMap)
      /\ a.produces = Stated(decl.produces, swagger.produces) /\ a.consumes = Stated(decl.consumes, swagger.consumes)
  <2>1. {"host", "basePath", "produces", "consumes", "modelMap"} \subseteq DOMAIN swagger
    BY DEF FiniteSwagger, Empty2
  <2> HIDE DEF decl
  <2> QED
    BY <2>1 DEF Announced
<1>2. /\ b.modelMap = MapWith(decl, Empty2.modelMap)
      /\ b.produces = Stated(decl.produces, Nil) /\ b.consumes = Stated(decl.consumes, Nil)
      /\ Empty2.modelMap = <<>>
  <2> HIDE DEF decl
  <2> QED
    BY DEF Announced, Empty2
<1>3. Agree(Types(decl), a.modelMap, b.modelMap)
  BY <1>1, <1>2, MapsAgree
<1> HIDE DEF a, b
<1>4. ASSUME NEW i \in 1 .. Len(decl.operations)
      PROVE  Converted(decl.operations[i], decl, d, a) = Converted(decl.operations[i], decl, d, b)
  <2> DEFINE o == decl.operations[i]
  <2>1. o \in Range(decl.operations)
    BY ListedMembers DEF FiniteDeclaration, Range
  <2>2. Stated(o.produces, decl.produces) # Nil /\ Stated(o.consumes, decl.consumes) # Nil
    BY <2>1 DEF ByItself
  <2> HIDE DEF o, decl
  <2>3. /\ Stated(o.produces, a.produces) = Stated(o.produces, b.produces)
        /\ Stated(o.consumes, a.consumes) = Stated(o.consumes, b.consumes)
    BY <1>1, <1>2, <2>2, StatedTwice
  <2>4. Converted(o, decl, d, a) = Converted(o, decl, d, b)
    BY <1>0, <1>3, <2>1, <2>3, SameConversion
  <2> QED
    BY <2>4 DEF o
<1>5. Conversions(swagger, d, decl) = Conversions(Empty2, d, decl)
  <2> HIDE DEF decl
  <2> QED
    BY <1>4 DEF Conversions, a, b
<1>6. ASSUME NEW n \in DOMAIN decl.models
      PROVE  SchemaOf(decl, n, a.modelMap) = SchemaOf(decl, n, b.modelMap)
  <2> DEFINE types == decl.models[n].properties
  <2>1. \A i \in DOMAIN types : types[i] \in Types(decl)
    <3>1. Range(types) \subseteq Types(decl)
      BY TypesHold
    <3> QED
      BY <3>1 DEF Range
  <2> HIDE DEF decl
  <2>2. \A i \in DOMAIN types : ToJsonSchema(types[i], a.modelMap) = ToJsonSchema(types[i], b.modelMap)
    BY <1>0, <1>3, <2>1, SameSchema DEF Agree, FiniteDeclaration
  <2>3. [i \in DOMAIN types |-> ToJsonSchema(types[i], a.modelMap)]
        = [i \in DOMAIN types |-> ToJsonSchema(types[i], b.modelMap)]
    BY <2>2
  <2> QED
    BY <2>3 DEF SchemaOf
<1>7. Schemas(decl, a.modelMap) = Schemas(decl, b.modelMap)
  <2> HIDE DEF decl
  <2> QED
    BY <1>6 DEF Schemas
<1> QED
  BY <1>1, <1>2, <1>5, <1>7

-----------------------------------------------------------------------------
(***************************************************************************)
(* What the object holds while declarations are folded into it: every      *)
(* operation comes from a declaration of the listing, and a declaration    *)
(* that says everything itself is in it as it is alone, or not at all.     *)
(***************************************************************************)
Joined(w, swagger, d) ==
    LET decl == w.declarations[d]
        alone == Declaration(Empty2, d, decl)
    IN  /\ swagger.host = decl.host /\ swagger.basePath = decl.basePath
        /\ \A k \in Places(decl) : k \in DOMAIN swagger.table /\ swagger.table[k] = alone.table[k]
        /\ \A n \in DOMAIN decl.models :
             n \in DOMAIN swagger.defs /\ n \in DOMAIN swagger.models /\ swagger.models[n] = alone.models[n]
Comes(w, paths, k, o) ==
    /\ o.declaredIn \in w.main.apis /\ ~Throws(w.declarations[o.declaredIn])
    /\ k \in Places(w.declarations[o.declaredIn]) /\ k[1] \in Range(paths)
Gathered(w, swagger) ==
    /\ FiniteSwagger(swagger) /\ PlainSwagger(swagger) /\ Mapped(w, swagger.modelMap)
    /\ \A k \in DOMAIN swagger.table : Comes(w, swagger.paths, k, swagger.table[k])
    /\ \A d \in w.main.apis : ByItself(w, d) /\ ~Throws(w.declarations[d]) =>
         /\ swagger.host \in {Nil, w.declarations[d].host}
         /\ \/ Joined(w, swagger, d)
            \/ \A k \in DOMAIN swagger.table : swagger.table[k].declaredIn # d

IsOver(h, f, g) ==
    /\ IsMap(h) /\ DOMAIN h = DOMAIN f \cup DOMAIN g
    /\ \A x \in DOMAIN f : h[x] = f[x]
    /\ \A x \in DOMAIN g \ DOMAIN f : h[x] = g[x]
LEMMA OverIs ==
  ASSUME NEW f, NEW g
  PROVE  IsOver(Over(f, g), f, g)
  BY DEF IsOver, Over, IsMap

LEMMA EmptyGathered == \A w : Gathered(w, Empty2)
<1>1. DOMAIN <<>> = {} /\ IsMap(<<>>)
  BY DEF IsMap
<1>2. Empty2.table = <<>> /\ Empty2.models = <<>> /\ Empty2.modelMap = <<>> /\ Empty2.host = Nil
  BY DEF Empty2
<1>3. PlainSwagger(Empty2)
  BY <1>1, <1>2, FS_EmptySet DEF PlainSwagger, PlainModels
<1>4. \A w : Mapped(w, Empty2.modelMap)
  BY <1>1, <1>2 DEF Mapped
<1> QED
  BY <1>1, <1>2, <1>3, <1>4, EmptyFinite DEF Gathered

\* the operations a declaration adds
Declaring(own, d, decl, all) ==
    /\ IsMap(own) /\ DOMAIN own = Places(decl)
    /\ \A k \in DOMAIN own : /\ PlainOperation(own[k]) /\ own[k].declaredIn = d
                             /\ \E i \in 1 .. Len(decl.operations) : k[1] = all[i].path
LEMMA OwnTable ==
  ASSUME NEW swagger, NEW d, NEW decl, FiniteDeclaration(decl)
  PROVE  LET all == Conversions(swagger, d, decl)
         IN  Declaring(TableOf(all, Len(decl.operations)), d, decl, all)
<1> DEFINE len == Len(decl.operations)
           all == Conversions(swagger, d, decl)
           own == TableOf(all, len)
<1>1. len \in Nat /\ DOMAIN decl.operations = 1 .. len
  BY ListedMembers DEF FiniteDeclaration
<1>2. \A i \in 1 .. len : all[i] = Converted(decl.operations[i], decl, d, Announced(swagger, decl))
  BY DEF Conversions
<1> HIDE DEF all, len
<1>3. /\ IsMap(own) /\ DOMAIN own = {Place(all[i]) : i \in 1 .. len}
      /\ \A k \in DOMAIN own : \E i \in 1 .. len : own[k] = all[i] /\ k = Place(all[i])
  <2>1. Holds(own, all, len)
    BY <1>1, TableIs
  <2> HIDE DEF own
  <2> QED
    BY <2>1 DEF Holds
<1> HIDE DEF own
<1>4. ASSUME NEW i \in 1 .. len
      PROVE  /\ all[i].path = decl.operations[i].path /\ all[i].method = decl.operations[i].method
             /\ all[i].declaredIn = d /\ PlainOperation(all[i])
  <2>1. PlainOperation(all[i])
    BY <1>1, <1>2, ConvertedPlain
  <2>2. \A o, s : /\ Converted(o, decl, d, s).path = o.path /\ Converted(o, decl, d, s).method = o.method
                  /\ Converted(o, decl, d, s).declaredIn = d
    BY DEF Converted
  <2> QED
    BY <1>2, <2>1, <2>2
<1>5. {Place(all[i]) : i \in 1 .. len} = Places(decl)
  <2>1. \A i \in 1 .. len : Place(all[i]) = <<decl.operations[i].path, decl.operations[i].method>>
    BY <1>4 DEF Place
  <2>2. Range(decl.operations) = {decl.operations[i] : i \in 1 .. len}
    BY <1>1 DEF Range
  <2>3. Places(decl) = {<<o.path, o.method>> : o \in {decl.operations[i] : i \in 1 .. len}}
    BY <2>2 DEF Places
  <2> QED
    BY <2>1, <2>3
<1>6. \A o : Place(o)[1] = o.path
  BY DEF Place
<1>7. Declaring(own, d, decl, all)
  <2>1. ASSUME NEW k \in DOMAIN own
        PROVE  PlainOperation(own[k]) /\ own[k].declaredIn = d /\ \E i \in 1 .. len : k[1] = all[i].path
    <3>1. PICK i \in 1 .. len : own[k] = all[i] /\ k = Place(all[i])
      BY <1>3
    <3>2. k[1] = all[i].path
      BY <1>6, <3>1
    <3> QED
      BY <1>4, <3>1, <3>2
  <2>2. IsMap(own) /\ DOMAIN own = Places(decl)
    BY <1>3, <1>5
  <2> QED
    BY <2>1, <2>2 DEF Declaring, len
<1> QED
  BY <1>7 DEF own, all, len

LEMMA FoldGathers ==
  ASSUME NEW w, NEW swagger, Gathered(w, swagger), NEW e \in w.main.apis, ~Throws(w.declarations[e]),
         FiniteDeclaration(w.declarations[e])
  PROVE  Gathered(w, Declaration(swagger, e, w.declarations[e]))
<1> DEFINE decl == w.declarations[e]
           result == Declaration(swagger, e, decl)
           len == Len(decl.operations)
           all == Conversions(swagger, e, decl)
           own == TableOf(all, len)
           map == MapWith(decl, swagger.modelMap)
           schemas == Schemas(decl, map)
<1>1. FiniteSwagger(swagger) /\ PlainSwagger(swagger) /\ IsMap(swagger.table)
  BY DEF Gathered, PlainSwagger
<1>2. FiniteSwagger(result)
  BY <1>1, DeclarationFinite
<1>3. /\ result.host = Stated(decl.host, swagger.host) /\ result.basePath = decl.basePath
      /\ result.modelMap = map /\ result.table = Over(own, swagger.table)
      /\ result.models = Over(schemas, swagger.models)
      /\ DOMAIN result.defs = DOMAIN decl.models \cup DOMAIN swagger.defs
      /\ Range(swagger.paths) \subseteq Range(result.paths)
      /\ \A i \in 1 .. len : all[i].path \in Range(result.paths)
  <2>1. Declares(swagger, e, decl, result)
    BY <1>1, Declared
  <2> HIDE DEF result, decl
  <2> QED
    BY <2>1 DEF Declares
<1>4. /\ DOMAIN own = Places(decl)
      /\ \A k \in DOMAIN own : PlainOperation(own[k]) /\ own[k].declaredIn = e /\ k[1] \in Range(result.paths)
  <2>1. Declaring(own, e, decl, all)
    BY OwnTable
  <2> HIDE DEF own, all, result, decl
  <2> QED
    BY <1>3, <2>1 DEF Declaring
<1>5. DOMAIN schemas = DOMAIN decl.models /\ \A n \in DOMAIN schemas : PlainObject(schemas[n])
  BY SchemaPlain DEF Schemas
<1>6. DOMAIN map = Ids(decl) \cup DOMAIN swagger.modelMap
  BY DEF MapWith, Over
<1>7. FiniteDeclaration(decl) /\ e \in w.main.apis /\ decl = w.declarations[e] /\ ~Throws(decl)
  OBVIOUS
<1> HIDE DEF result, own, schemas, map, all, len
<1>8. /\ IsMap(result.table) /\ DOMAIN result.table = DOMAIN own \cup DOMAIN swagger.table
      /\ \A k \in DOMAIN own : result.table[k] = own[k]
      /\ \A k \in DOMAIN swagger.table \ DOMAIN own : result.table[k] = swagger.table[k]
  <2>1. IsOver(result.table, own, swagger.table)
    BY <1>3, OverIs
  <2> QED
    BY <2>1 DEF IsOver
<1>9. /\ IsMap(result.models) /\ DOMAIN result.models = DOMAIN schemas \cup DOMAIN swagger.models
      /\ \A n \in DOMAIN schemas : result.models[n] = schemas[n]
      /\ \A n \in DOMAIN swagger.models \ DOMAIN schemas : result.models[n] = swagger.models[n]
  <2>1. IsOver(result.models, schemas, swagger.models)
    BY <1>3, OverIs
  <2> QED
    BY <2>1 DEF IsOver
<1>10. PlainSwagger(result)
  <2>1. IsFiniteSet(DOMAIN result.models)
    <3>1. IsFiniteSet(DOMAIN decl.models) /\ IsFiniteSet(DOMAIN swagger.models)
      BY <1>1, <1>7 DEF FiniteDeclaration, PlainSwagger, PlainModels
    <3> HIDE DEF decl
    <3>2. IsFiniteSet(DOMAIN decl.models \cup DOMAIN swagger.models)
      BY <3>1, FS_Union
    <3>3. DOMAIN result.models = DOMAIN decl.models \cup DOMAIN swagger.models
      BY <1>5, <1>9
    <3> QED
      BY <3>2, <3>3
  <2>2. PlainModels(result.models)
    BY <1>1, <1>5, <1>9, <2>1 DEF PlainSwagger, PlainModels
  <2> QED
    BY <1>1, <1>4, <1>8, <2>2 DEF PlainSwagger
<1>11. Mapped(w, result.modelMap)
  BY <1>3, <1>6 DEF Gathered, Mapped
<1>12. ASSUME NEW k \in DOMAIN result.table PROVE Comes(w, result.paths, k, result.table[k])
  <2>1. CASE k \in DOMAIN own
    BY <1>4, <1>7, <1>8, <2>1 DEF Comes
  <2>2. CASE k \notin DOMAIN own
    <3>1. result.table[k] = swagger.table[k] /\ Comes(w, swagger.paths, k, swagger.table[k])
      BY <1>8, <2>2 DEF Gathered
    <3> QED
      BY <1>3, <3>1 DEF Comes
  <2> QED
    BY <2>1, <2>2
<1>13. ASSUME NEW d \in w.main.apis, ByItself(w, d), ~Throws(w.declarations[d])
       PROVE  /\ result.host \in {Nil, w.declarations[d].host}
              /\ \/ Joined(w, result, d)
                 \/ \A k \in DOMAIN result.table : result.table[k].declaredIn # d
  <2> DEFINE that == w.declarations[d]
  <2>1. /\ swagger.host \in {Nil, that.host}
        /\ Joined(w, swagger, d) \/ \A k \in DOMAIN swagger.table : swagger.table[k].declaredIn # d
    BY <1>13 DEF Gathered
  <2>2. CASE d = e
    <3> DEFINE alone == Declaration(Empty2, e, decl)
    <3>1. result.host = that.host /\ result.basePath = that.basePath
      BY <1>3, <2>1, <2>2 DEF Stated
    <3>2. all = Conversions(Empty2, e, decl) /\ schemas = Schemas(decl, MapWith(decl, Empty2.modelMap))
      <4>1. Mapped(w, swagger.modelMap)
        BY DEF Gathered
      <4> QED
        BY <1>1, <1>7, <1>13, <2>2, <4>1, ConversionsAlone DEF all, schemas, map
    <3>3. /\ alone.table = Over(TableOf(Conversions(Empty2, e, decl), len), Empty2.table)
          /\ alone.models = Over(Schemas(decl, MapWith(decl, Empty2.modelMap)), Empty2.models)
      <4>1. FiniteSwagger(Empty2) /\ IsMap(Empty2.table)
        BY EmptyGathered DEF Gathered, PlainSwagger
      <4>2. Declares(Empty2, e, decl, alone)
        BY <1>7, <4>1, Declared
      <4> HIDE DEF alone, decl
      <4> QED
        BY <4>2 DEF Declares, len
    <3> HIDE DEF alone, decl
    <3>4. alone.table = Over(own, Empty2.table) /\ alone.models = Over(schemas, Empty2.models)
      BY <3>2, <3>3 DEF own
    <3>5. /\ \A k \in DOMAIN own : alone.table[k] = own[k]
          /\ \A n \in DOMAIN schemas : alone.models[n] = schemas[n]
      <4>1. IsOver(alone.table, own, Empty2.table) /\ IsOver(alone.models, schemas, Empty2.models)
        BY <3>4, OverIs
      <4> QED
        BY <4>1 DEF IsOver
    <3>6. \A k \in Places(decl) : k \in DOMAIN result.table /\ result.table[k] = alone.table[k]
      BY <1>4, <1>8, <3>5
    <3>7. \A n \in DOMAIN decl.models :
            n \in DOMAIN result.defs /\ n \in DOMAIN result.models /\ result.models[n] = alone.models[n]
      BY <1>3, <1>5, <1>9, <3>5
    <3>8. Joined(w, result, d)
      BY <2>2, <3>1, <3>6, <3>7 DEF Joined, alone, decl
    <3> QED
      BY <3>1, <3>8
  <2>3. CASE d # e
    <3>1. /\ Keys(that) \cap Keys(decl) = {} /\ Places(that) \cap Places(decl) = {}
          /\ that.host = decl.host /\ that.basePath = decl.basePath
      <4>1. e \in w.main.apis \ {d}
        BY <2>3
      <4>2. /\ Keys(that) \cap Keys(decl) = {} /\ Places(that) \cap Places(decl) = {}
            /\ Throws(decl) \/ <<that.host, that.basePath>> = <<decl.host, decl.basePath>>
        BY <1>13, <4>1 DEF ByItself
      <4> HIDE DEF that, decl
      <4> QED
        BY <1>7, <4>2
    <3>2. \A n \in DOMAIN that.models : n \notin DOMAIN decl.models
      BY <3>1 DEF Keys
    <3> HIDE DEF that, decl
    <3>3. result.host \in {Nil, that.host}
      BY <1>3, <2>1, <3>1 DEF Stated
    <3>4. ASSUME Joined(w, swagger, d) PROVE Joined(w, result, d)
      <4> DEFINE alone == Declaration(Empty2, d, that)
      <4>1. /\ swagger.host = that.host /\ swagger.basePath = that.basePath
            /\ \A k \in Places(that) : k \in DOMAIN swagger.table /\ swagger.table[k] = alone.table[k]
            /\ \A n \in DOMAIN that.models :
                 n \in DOMAIN swagger.defs /\ n \in DOMAIN swagger.models /\ swagger.models[n] = alone.models[n]
        BY <3>4 DEF Joined, that
      <4> HIDE DEF alone
      <4>2. result.host = that.host /\ result.basePath = that.basePath
        BY <1>3, <3>1, <4>1 DEF Stated
      <4>3. \A k \in Places(that) : k \in DOMAIN result.table /\ result.table[k] = alone.table[k]
        BY <1>4, <1>8, <3>1, <4>1
      <4>4. \A n \in DOMAIN that.models :
              n \in DOMAIN result.defs /\ n \in DOMAIN result.models /\ result.models[n] = alone.models[n]
        BY <1>3, <1>5, <1>9, <3>2, <4>1
      <4> QED
        BY <4>2, <4>3, <4>4 DEF Joined, alone, that
    <3>5. ASSUME \A k \in DOMAIN swagger.table : swagger.table[k].declaredIn # d
          PROVE  \A k \in DOMAIN result.table : result.table[k].declaredIn # d
      BY <1>4, <1>8, <2>3, <3>5
    <3> QED
      BY <2>1, <3>3, <3>4, <3>5 DEF that
  <2> QED
    BY <2>2, <2>3
<1> QED
  BY <1>2, <1>10, <1>11, <1>12, <1>13 DEF Gathered, result

\* a declaration alone
LEMMA AloneIs ==
  ASSUME NEW w, NEW d \in w.main.apis, ByItself(w, d), FiniteDeclaration(w.declarations[d])
  PROVE  LET decl == w.declarations[d]
             one == Declaration(Empty2, d, decl)
         IN  /\ one.host = decl.host /\ one.basePath = decl.basePath
             /\ DOMAIN one.defs = DOMAIN decl.models /\ DOMAIN one.table = Places(decl)
             /\ \A k \in DOMAIN one.table : /\ one.table[k].declaredIn = d
                                            /\ one.table[k].produces # Nil /\ one.table[k].consumes # Nil
<1> DEFINE decl == w.declarations[d]
           one == Declaration(Empty2, d, decl)
           len == Len(decl.operations)
           all == Conversions(Empty2, d, decl)
           own == TableOf(all, len)
<1>1. FiniteSwagger(Empty2) /\ IsMap(Empty2.table)
  BY EmptyGathered DEF Gathered, PlainSwagger
<1>2. /\ one.host = Stated(decl.host, Empty2.host) /\ one.basePath = decl.basePath
      /\ one.table = Over(own, Empty2.table)
      /\ DOMAIN one.defs = DOMAIN decl.models \cup DOMAIN Empty2.defs
  <2>1. Declares(Empty2, d, decl, one)
    BY <1>1, Declared
  <2> HIDE DEF decl, one
  <2> QED
    BY <2>1 DEF Declares
<1>3. Empty2.host = Nil /\ Empty2.table = <<>> /\ Empty2.defs = <<>> /\ DOMAIN <<>> = {}
  BY DEF Empty2
<1>4. Declaring(own, d, decl, all)
  BY OwnTable
<1>5. len \in Nat /\ DOMAIN decl.operations = 1 .. len
  BY ListedMembers DEF FiniteDeclaration
<1>6. ASSUME NEW i \in 1 .. len PROVE all[i].produces # Nil /\ all[i].consumes # Nil
  <2> DEFINE o == decl.operations[i]
             a == Announced(Empty2, decl)
  <2>1. all[i] = Converted(o, decl, d, a)
    BY DEF Conversions
  <2>2. a.produces = Stated(decl.produces, Nil) /\ a.consumes = Stated(decl.consumes, Nil)
    <3> HIDE DEF decl
    <3> QED
      BY DEF Announced, Empty2
  <2>3. o \in Range(decl.operations)
    BY <1>5 DEF Range
  <2>4. Stated(o.produces, decl.produces) # Nil /\ Stated(o.consumes, decl.consumes) # Nil
    BY <2>3 DEF ByItself
  <2> HIDE DEF all, a, o, decl
  <2>5. all[i].produces = Stated(o.produces, a.produces) /\ all[i].consumes = Stated(o.consumes, a.consumes)
    BY <2>1 DEF Converted
  <2> QED
    BY <2>2, <2>4, <2>5, StatedTwice
<1> HIDE DEF all, len
<1>7. Holds(own, all, len)
  BY <1>5, TableIs
<1> HIDE DEF own, one, decl
<1>8. IsOver(one.table, own, Empty2.table)
  BY <1>2, OverIs
<1>9. DOMAIN one.table = DOMAIN own /\ \A k \in DOMAIN own : one.table[k] = own[k]
  BY <1>3, <1>8 DEF IsOver
<1>10. \A k \in DOMAIN own : own[k].declaredIn = d /\ own[k].produces # Nil /\ own[k].consumes # Nil
  BY <1>4, <1>6, <1>7 DEF Declaring, Holds
<1>11. one.host = decl.host /\ DOMAIN one.defs = DOMAIN decl.models
  BY <1>2, <1>3 DEF Stated
<1> QED
  BY <1>2, <1>4, <1>9, <1>10, <1>11 DEF Declaring, one, decl

LEMMA DescribedPlain ==
  ASSUME NEW swagger, FiniteSwagger(swagger), PlainSwagger(swagger)
  PROVE  Carried(Description(swagger), Description(swagger))
<1> DEFINE spec == Description(swagger)
<1>1. Readable(spec)
  BY DescriptionFinite
<1>2. /\ IsMap(spec) /\ {"models", "operations", "host", "basePath"} \subseteq DOMAIN spec
      /\ spec.models = swagger.models
  <2>1. spec.models = swagger.models
    BY DEF Description
  <2>2. \A a, b, c, e, f, g, h, i : LET r == [host |-> a, basePath |-> b, produces |-> c, consumes |-> e,
                                             operations |-> f, models |-> g, ops |-> h, defs |-> i, bad |-> FALSE]
                                   IN IsMap(r) /\ {"models", "operations", "host", "basePath"} \subseteq DOMAIN r
    BY DEF IsMap
  <2>3. \E a, b, c, e, f, g, h, i : spec = [host |-> a, basePath |-> b, produces |-> c, consumes |-> e,
                                           operations |-> f, models |-> g, ops |-> h, defs |-> i, bad |-> FALSE]
    BY DEF Description
  <2> HIDE DEF spec
  <2> QED
    BY <2>1, <2>2, <2>3
<1>3. Listed(spec.operations) /\ Range(spec.operations) \subseteq Range(swagger.table)
  BY DescribedListed
<1> HIDE DEF spec
<1>4. ASSUME NEW i \in DOMAIN spec.operations PROVE PlainOperation(spec.operations[i])
  <2>1. spec.operations[i] \in Range(swagger.table)
    BY <1>3 DEF Range
  <2>2. PICK k \in DOMAIN swagger.table : spec.operations[i] = swagger.table[k]
    BY <2>1 DEF Range
  <2> QED
    BY <2>2 DEF PlainSwagger
<1>5. PlainSpec(spec)
  BY <1>1, <1>2, <1>4 DEF PlainSpec, PlainSwagger
<1> QED
  BY <1>2, <1>5 DEF Carried, spec

\* the operations of the table that have a method
Offering(operations, table) ==
    Range(operations) = {table[k] : k \in {j \in DOMAIN table : j[2] \in Range(Methods)}}

LEMMA GatheredOperations ==
  ASSUME NEW w, NEW swagger, Gathered(w, swagger)
  PROVE  Offering(Description(swagger).operations, swagger.table)
<1>1. ASSUME NEW k \in DOMAIN swagger.table PROVE k = <<k[1], k[2]>> /\ k[1] \in Range(swagger.paths)
  <2>1. Comes(w, swagger.paths, k, swagger.table[k])
    BY DEF Gathered
  <2>2. PICK o : k = <<o.path, o.method>>
    BY <2>1 DEF Comes, Places
  <2> QED
    BY <2>1, <2>2 DEF Comes
<1> QED
  BY <1>1, DescribedOperations DEF Gathered, Offering

\* the description of a listing says of a declaration what it says alone
SaysAlone(spec, d, decl) ==
    LET alone == Description(Declaration(Empty2, d, decl))
        offered == {o \in Range(spec.operations) : o.declaredIn = d}
    IN  /\ {Built(spec, o) : o \in offered} = {Built(alone, o) : o \in Range(alone.operations)}
        /\ \A n \in DOMAIN alone.defs : n \in DOMAIN spec.defs /\ spec.models[n] = alone.models[n]

LEMMA SameBuilt ==
  ASSUME NEW a, NEW b, a.host = b.host, a.basePath = b.basePath, NEW o, o.produces # Nil, o.consumes # Nil
  PROVE  Built(a, o) = Built(b, o)
<1>1. \A x : Stated(o.produces, x) = o.produces /\ Stated(o.consumes, x) = o.consumes
  BY DEF Stated
<1> DEFINE f(x) == [o EXCEPT !.produces = Stated(@, x.produces), !.consumes = Stated(@, x.consumes)]
<1>2. f(a) = f(b)
  BY <1>1
<1>3. Built(a, o) = Over(f(a), [host |-> a.host, basePath |-> a.basePath])
      /\ Built(b, o) = Over(f(b), [host |-> b.host, basePath |-> b.basePath])
  BY DEF Built
<1> HIDE DEF f
<1> QED
  BY <1>2, <1>3

LEMMA GatheredAlone ==
  ASSUME NEW w, NEW swagger, Gathered(w, swagger), NEW spec, Carried(Description(swagger), spec),
         \A e \in w.main.apis : FiniteDeclaration(w.declarations[e]),
         NEW p \in Range(spec.operations), ByItself(w, p.declaredIn)
  PROVE  SaysAlone(spec, p.declaredIn, w.declarations[p.declaredIn])
<1> DEFINE d == p.declaredIn
           decl == w.declarations[d]
           one == Declaration(Empty2, d, decl)
           alone == Description(one)
           sought(table) == {j \in DOMAIN table : j[2] \in Range(Methods)}
           offered == {o \in Range(spec.operations) : o.declaredIn = d}
<1>1. /\ spec.operations = Description(swagger).operations /\ spec.models = swagger.models
      /\ spec.host = swagger.host /\ spec.basePath = swagger.basePath
      /\ DOMAIN swagger.defs \subseteq DOMAIN spec.defs
  BY DEF Carried, Description
<1>2. Range(spec.operations) = {swagger.table[k] : k \in sought(swagger.table)}
  <2>1. Offering(spec.operations, swagger.table)
    BY <1>1, GatheredOperations
  <2> QED
    BY <2>1 DEF Offering
<1>3. PICK at \in sought(swagger.table) : p = swagger.table[at]
  BY <1>2
<1>4. d \in w.main.apis /\ ~Throws(decl)
  <2>1. Comes(w, swagger.paths, at, p)
    BY <1>3 DEF Gathered
  <2> QED
    BY <2>1 DEF Comes
<1>5. FiniteDeclaration(decl) /\ ByItself(w, d)
  BY <1>4
<1>6. Joined(w, swagger, d)
  BY <1>3, <1>4, <1>5 DEF Gathered
<1>7. Gathered(w, one)
  BY <1>4, <1>5, EmptyGathered, FoldGathers
<1>8. /\ one.host = decl.host /\ one.basePath = decl.basePath
      /\ DOMAIN one.defs = DOMAIN decl.models /\ DOMAIN one.table = Places(decl)
      /\ \A k \in DOMAIN one.table : /\ one.table[k].declaredIn = d
                                     /\ one.table[k].produces # Nil /\ one.table[k].consumes # Nil
  BY <1>4, <1>5, AloneIs
<1>9. Range(alone.operations) = {one.table[k] : k \in sought(one.table)}
  <2>1. Offering(alone.operations, one.table)
    BY <1>7, GatheredOperations
  <2> QED
    BY <2>1 DEF Offering
<1>10. /\ alone.host = one.host /\ alone.basePath = one.basePath /\ alone.models = one.models
       /\ alone.defs = one.defs
  BY DEF Description
<1>11. /\ swagger.host = decl.host /\ swagger.basePath = decl.basePath
       /\ \A k \in Places(decl) : k \in DOMAIN swagger.table /\ swagger.table[k] = one.table[k]
       /\ \A n \in DOMAIN decl.models : n \in DOMAIN swagger.defs /\ swagger.models[n] = one.models[n]
  BY <1>6 DEF Joined
<1>12. \A k \in DOMAIN swagger.table : swagger.table[k].declaredIn = d => k \in Places(decl)
  BY DEF Gathered, Comes
<1> HIDE DEF one, alone, decl, d
<1>13. offered = Range(alone.operations)
  <2>1. ASSUME NEW o \in offered PROVE o \in Range(alone.operations)
    <3>1. PICK k \in sought(swagger.table) : o = swagger.table[k]
      BY <1>2
    <3>2. k \in Places(decl) /\ o = one.table[k] /\ k \in sought(one.table)
      BY <1>8, <1>11, <1>12, <3>1
    <3> QED
      BY <1>9, <3>2
  <2>2. ASSUME NEW o \in Range(alone.operations) PROVE o \in offered
    <3>1. PICK k \in sought(one.table) : o = one.table[k]
      BY <1>9
    <3>2. k \in sought(swagger.table) /\ o = swagger.table[k] /\ o.declaredIn = d
      BY <1>8, <1>11, <3>1
    <3> QED
      BY <1>2, <3>2
  <2> QED
    BY <2>1, <2>2
<1>14. \A o \in Range(alone.operations) : o.produces # Nil /\ o.consumes # Nil
  BY <1>8, <1>9
<1>15. spec.host = alone.host /\ spec.basePath = alone.basePath
  BY <1>1, <1>8, <1>10, <1>11
<1> HIDE DEF offered
<1>16. \A o \in Range(alone.operations) : Built(spec, o) = Built(alone, o)
  BY <1>14, <1>15, SameBuilt
<1>17. {Built(spec, o) : o \in offered} = {Built(alone, o) : o \in Range(alone.operations)}
  BY <1>13, <1>16
<1>18. \A n \in DOMAIN alone.defs : n \in DOMAIN spec.defs /\ spec.models[n] = alone.models[n]
  BY <1>1, <1>8, <1>10, <1>11
<1> QED
  BY <1>17, <1>18 DEF SaysAlone, offered, alone, one, decl, d

(***************************************************************************)
(* The object the answers have filled so far is gathered, in whatever      *)
(* order they came, and the description the resolver works on carries its  *)
(* operations and models.                                                  *)
(***************************************************************************)
Carrying == Carried(Description(conv.swagger), round.spec)
OrderInv == world.main.kind = "listing" => /\ Gathered(world, conv.swagger)
                                           /\ isBuilt \/ Fetching => Carrying

LEMMA ResolvingConverts ==
  ASSUME NEW s, Gathered(world, s), NEW answered, Resolving(Description(s), answered),
         world' = world, conv'.swagger = s
  PROVE  OrderInv'
<1>1. Carried(Description(s), Description(s))
  BY DescribedPlain DEF Gathered
<1>2. Carried(Description(s), Resolve(Description(s), 0).spec)
  BY <1>1, ResolveKeeps
<1>3. round' = Resolve(Description(s), 0)
  BY DEF Resolving, Continue
<1> QED
  BY <1>2, <1>3 DEF OrderInv, Carrying

LEMMA AnswerSpecOrder ==
  ASSUME QInv, PhaseInv, OrderInv, NEW x, AnswerSpec(x)
  PROVE  OrderInv'
<1>1. SpecPhase
  BY RequestKinds DEF PhaseInv, DeclPhase, RefPhase, EndPhase, AnswerSpec
<1>2. ~isBuilt /\ net = {SpecRequest} /\ conv.swagger = Empty2
  BY <1>1 DEF SpecPhase, Fresh, NoListing
<1>3. world' = world
  BY DEF AnswerSpec
<1> SUFFICES ASSUME world.main.kind = "listing" PROVE OrderInv'
  BY <1>3 DEF OrderInv
<1>4. Gathered(world, Empty2)
  BY EmptyGathered
<1>5. CASE Fail /\ net' = net \ {SpecRequest} /\ UNCHANGED <<round, conv>>
  <2>1. ~isBuilt' /\ net' = {}
    BY <1>2, <1>5 DEF Fail
  <2> QED
    BY <1>2, <1>3, <1>4, <1>5, <2>1 DEF OrderInv, Fetching
<1>6. CASE Resolving(Description(Empty2), {SpecRequest}) /\ UNCHANGED conv
  <2> HIDE DEF Resolving
  <2> QED
    BY <1>2, <1>3, <1>4, <1>6, ResolvingConverts
<1>7. CASE /\ thrown' = TRUE /\ net' = net \ {SpecRequest}
           /\ UNCHANGED <<round, conv, isBuilt, isValid, apis, told, qvars>>
  <2>1. ~isBuilt' /\ net' = {}
    BY <1>2, <1>7
  <2> QED
    BY <1>2, <1>3, <1>4, <1>7, <2>1 DEF OrderInv, Fetching
<1>8. CASE /\ conv' = Listing(Cardinality(world.main.apis))
           /\ net' = (net \ {SpecRequest}) \cup {DeclRequest(d) : d \in world.main.apis}
           /\ UNCHANGED <<round, isBuilt, isValid, apis, told, thrown, qvars>>
  <2>1. ~isBuilt' /\ ~Fetching'
    BY <1>2, <1>8, RequestKinds DEF Fetching
  <2>2. conv'.swagger = Empty2
    BY <1>8 DEF Listing
  <2> QED
    BY <1>3, <1>4, <2>1, <2>2 DEF OrderInv
<1> QED
  BY <1>5, <1>6, <1>7, <1>8 DEF AnswerSpec, Convert

LEMMA AnswerDeclarationOrder ==
  ASSUME QInv, PhaseInv, OrderInv, NEW q \in net, q.kind = "decl", NEW x, AnswerDeclaration(q.of, x)
  PROVE  OrderInv'
<1> DEFINE d == q.of
           decl == world.declarations[d]
           given == Handler(x) = "response" /\ HasObject(x)
           swagger == IF given /\ ~Throws(decl) THEN Declaration(conv.swagger, d, decl) ELSE conv.swagger
           folded == CountedAnswer(conv, swagger)
           answered == {DeclRequest(d)}
<1>1. DeclPhase /\ world \in Worlds
  BY RequestKinds DEF PhaseInv, SpecPhase, RefPhase, EndPhase
<1>2. d \in world.main.apis /\ ~isBuilt /\ ~Fetching
  BY <1>1, RequestKinds DEF DeclPhase, Fresh, Fetching
<1>3. FiniteDeclaration(decl)
  BY <1>1, <1>2, WorldIsFinite DEF DeclPhase
<1>4. Gathered(world, swagger)
  <2>1. Gathered(world, conv.swagger)
    BY <1>1 DEF OrderInv, DeclPhase
  <2> QED
    BY <1>2, <1>3, <2>1, FoldGathers
<1>5. world' = world /\ conv' = folded
  BY DEF AnswerDeclaration
<1> HIDE DEF swagger
<1>6. folded.swagger = swagger
  BY <1>1 DEF CountedAnswer, DeclPhase, NoListing
<1> HIDE DEF folded
<1>7. CASE LastAnswer(folded) /\ Resolving(Description(folded.swagger), answered)
  <2> HIDE DEF answered
  <2> QED
    BY <1>4, <1>5, <1>6, <1>7, ResolvingConverts
<1>8. CASE net' = net \ answered /\ UNCHANGED isBuilt
  <2>1. ~isBuilt' /\ ~Fetching'
    BY <1>2, <1>8 DEF Fetching
  <2> QED
    BY <1>4, <1>5, <1>6, <2>1 DEF OrderInv
<1> QED
  BY <1>7, <1>8 DEF AnswerDeclaration, folded, swagger

LEMMA AnswerRefOrder ==
  ASSUME QInv, PhaseInv, OrderInv, NEW q \in net, q.kind = "ref", NEW x, AnswerRef(q.of, x)
  PROVE  OrderInv'
<1> DEFINE i == q.of
           ok == Handler(x) = "response" /\ HasObject(x)
           r == Answered(round, i, world.remote, ok)
<1>1. RefPhase /\ world \in Worlds
  BY RequestKinds DEF PhaseInv, SpecPhase, DeclPhase, EndPhase
<1>2. i \in Remotes(round.items) /\ RoundWell(round)
  BY <1>1, RequestKinds DEF RefPhase
<1>3. UNCHANGED <<world, conv>>
  BY DEF AnswerRef
<1> SUFFICES ASSUME world.main.kind = "listing" PROVE OrderInv'
  BY <1>3 DEF OrderInv
<1>4. Gathered(world, conv.swagger) /\ Carried(Description(conv.swagger), round.spec)
  BY DEF OrderInv, Carrying, Fetching
<1>5. RoundWell(r) /\ r.spec = round.spec
  <2>1. RoundWell(r)
    BY <1>1, <1>2, WorldIsFinite, AnsweredWell
  <2>2. r.spec = round.spec
    BY DEF Answered
  <2> QED
    BY <2>1, <2>2
<1> HIDE DEF r
<1>6. CASE \E first \in FirstRoots(r) : Continue(AfterRound(r, first), {RefRequest(i)})
  <2>1. PICK first \in FirstRoots(r) : Continue(AfterRound(r, first), {RefRequest(i)})
    BY <1>6
  <2>2. round' = AfterRound(r, first)
    BY <2>1 DEF Continue
  <2>3. Carried(Description(conv.swagger), AfterRound(r, first).spec)
    BY <1>4, <1>5, AfterRoundKeeps
  <2> QED
    BY <1>3, <1>4, <2>2, <2>3 DEF OrderInv, Carrying
<1>7. CASE round' = r
  BY <1>3, <1>4, <1>5, <1>7 DEF OrderInv, Carrying
<1> QED
  BY <1>6, <1>7 DEF AnswerRef, r

LEMMA InitOrder == Init => OrderInv
  BY RequestKinds, EmptyGathered DEF Init, NoListing, OrderInv, Fetching

LEMMA OrderStep == QInv /\ PhaseInv /\ OrderInv /\ [Next]_vars => OrderInv'
<1> SUFFICES ASSUME QInv, PhaseInv, OrderInv, [Next]_vars PROVE OrderInv'
  OBVIOUS
<1>1. ASSUME NEW x, AnswerSpec(x) PROVE OrderInv'
  BY <1>1, AnswerSpecOrder
<1>2. ASSUME NEW q \in net, q.kind = "decl", NEW x, AnswerDeclaration(q.of, x) PROVE OrderInv'
  BY <1>2, AnswerDeclarationOrder
<1>3. ASSUME NEW q \in net, q.kind = "ref", NEW x, AnswerRef(q.of, x) PROVE OrderInv'
  BY <1>3, AnswerRefOrder
<1>4. CASE UNCHANGED cvars
  BY <1>4 DEF cvars, OrderInv, Carrying, Fetching
<1>5. CASE Answer
  BY <1>1, <1>2, <1>3, <1>5 DEF Answer
<1> QED
  BY <1>4, <1>5 DEF Next, Turn, Register, vars

LEMMA OrderInvImplies == PhaseInv /\ OrderInv => ConversionOrderFree
<1> SUFFICES ASSUME PhaseInv, OrderInv, isBuilt, world.main.kind = "listing",
                    NEW d \in {o.declaredIn : o \in Range(round.spec.operations)}, SelfContained(d)
             PROVE  SaysAlone(round.spec, d, world.declarations[d])
  BY DEF ConversionOrderFree, SaysAlone
<1>1. PICK p \in Range(round.spec.operations) : d = p.declaredIn
  OBVIOUS
<1>2. ByItself(world, d)
  BY DEF ByItself, SelfContained
<1>3. Gathered(world, conv.swagger) /\ Carried(Description(conv.swagger), round.spec)
  BY DEF OrderInv, Carrying
<1>4. \A e \in world.main.apis : FiniteDeclaration(world.declarations[e])
  BY WorldIsFinite DEF PhaseInv
<1> QED
  BY <1>1, <1>2, <1>3, <1>4, GatheredAlone

(***************************************************************************)
(* Of a declaration that says everything itself and shares no name and no  *)
(* place with another, a description built from a listing offers the       *)
(* operations and the models it offers alone: the conversion does not      *)
(* depend on the order in which the answers of the declarations came.      *)
(***************************************************************************)
THEOREM ConversionKeepsOrderOut == Spec => []ConversionOrderFree
<1>1. Spec => []OrderInv
  BY InitOrder, OrderStep, QInvariant, Phases, PTL DEF Spec
<1> QED
  BY <1>1, Phases, OrderInvImplies, PTL
=============================================================================
