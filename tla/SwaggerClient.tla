--------------------------- MODULE SwaggerClient ---------------------------
(***************************************************************************)
(* SwaggerClient of swagger-ui.js, from build() to the callback or the     *)
(* promise: the description is fetched, a 1.x listing is converted, the    *)
(* references are resolved in rounds of fetches, the operations are built, *)
(* and the caller is told.  Every answer is one turn of the event loop     *)
(* (handlers run to completion); the answers come in any order.            *)
(*                                                                         *)
(* The world is what the servers hold: main, the description as [kind,     *)
(* spec or apis], the API declarations of a listing, and the other         *)
(* documents as URL -> name -> references.                                 *)
(***************************************************************************)
EXTENDS SpecConverter, QPromise, SwaggerHttp

CONSTANTS
    Worlds,       \* the worlds a client can meet
    Caller        \* the success and failure callbacks, as a listener

\* what a server sends is finite, a listing lists what there is, and doc, which
\* no action reads, is the document that the text of a reference means
ASSUME WorldsAssumption ==
    /\ Caller \notin Handlers
    /\ \A w \in Worlds :
         /\ \/ /\ w.main.kind = "swagger2" /\ Readable(w.main.spec)
               /\ Ops \notin DOMAIN w.main.spec.defs
               /\ Written(w.main.spec.ops, Own)
               /\ \A n \in DOMAIN w.main.spec.defs :
                    w.main.spec.defs[n].doc = Own /\ Written(w.main.spec.defs[n].refs, Own)
            \/ /\ w.main.kind = "listing" /\ IsFiniteSet(w.main.apis)
               /\ w.main.apis \subseteq DOMAIN w.declarations
            \/ w.main.kind = "single" /\ FiniteDeclaration(w.main.declaration)
            \/ w.main.kind = "other"
         /\ \A d \in DOMAIN w.declarations : FiniteDeclaration(w.declarations[d])
         /\ \A url \in DOMAIN w.remote :
              /\ url \notin {Here, Own}
              /\ \A n \in DOMAIN w.remote[url] :
                   IsFiniteSet(w.remote[url][n]) /\ Written(w.remote[url][n], url)

VARIABLES
    world,
    usePromise,   \* the option: promise or callbacks
    net,          \* the requests the browser has not answered
    round,        \* the resolver's current round, or NoRound
    conv,         \* the converter's counters and result, or NoListing
    isBuilt, isValid,
    apis,         \* tag -> its operation table and its operationsArray
    told,         \* history: what the callbacks were called with, in order
    thrown,       \* an exception has left a handler of the client
    fetchFailed   \* history: a fetch of the resolver failed

cvars == <<world, usePromise, net, round, conv, isBuilt, isValid, apis, told, thrown, fetchFailed>>
vars == <<cvars, qvars>>

NoRound == [none |-> TRUE]
NoListing == [processedCount |-> 0, expectedCount |-> 0, swagger |-> Empty2]
SpecRequest == [kind |-> "spec"]
DeclRequest(d) == [kind |-> "decl", of |-> d]
RefRequest(i) == [kind |-> "ref", of |-> i]

(***************************************************************************)
(* The constructor has returned: initialize has called build, which sent   *)
(* the request for the description.                                        *)
(***************************************************************************)
Init ==
    /\ world \in Worlds /\ usePromise \in BOOLEAN
    /\ net = {SpecRequest} /\ round = NoRound /\ conv = NoListing
    /\ isBuilt = FALSE /\ isValid = FALSE /\ apis = <<>>
    /\ told = <<>> /\ thrown = FALSE /\ fetchFailed = FALSE
    /\ QInit

\* Mutant: a name that is taken is used again.
MakeUniqueNot(name, table, operations) == name

(***************************************************************************)
(* The names of the operations of one tag.  makeUniqueOperationId compares *)
(* a name with the nicknames of the operations in the table; an operation  *)
(* given another name keeps its nickname.  A name is a sequence: the       *)
(* operationId and the counters appended to it.                            *)
(***************************************************************************)
MakeUnique(name, table, operations) ==
    LET nicknames == {operations[table[n]].id : n \in DOMAIN table}
        candidate(k) == IF k = 0 THEN name ELSE Append(name, ToString(k - 1))
        free == {k \in 0..Len(operations) : candidate(k) \notin nicknames}
    IN  candidate(CHOOSE k \in free : \A j \in free : k <= j)

NoGroup == [table |-> <<>>, operationsArray |-> <<>>]

\* one operation under one of its tags; the name found is the operationId of
\* the next tag.  Tags and operationIds are none of the reserved words, which the
\* code prefixes with '_'.
AddToGroup(built, i, tag, operations) ==
    LET group == IF tag \in DOMAIN built.apis THEN built.apis[tag] ELSE NoGroup
        name == MakeUnique(built.name, group.table, operations)
    IN  [apis |-> With(built.apis, tag, [table |-> With(group.table, name, i),
                                         operationsArray |-> Append(group.operationsArray, i)]),
         name |-> name]

\* the loops over tags, and over paths and methods, of buildFromSpec
AddOperationToGroups(groups, i, operations) ==
    LET tags == operations[i].tags
        under[t \in 0..Len(tags)] ==
            IF t = 0 THEN [apis |-> groups, name |-> operations[i].id]
            ELSE AddToGroup(under[t - 1], i, tags[t], operations)
    IN  under[Len(tags)].apis
BuildApis(operations) ==
    LET groups[i \in 0..Len(operations)] ==
            IF i = 0 THEN <<>> ELSE AddOperationToGroups(groups[i - 1], i, operations)
    IN  groups[Len(operations)]

\* what an operation of a built client sends with: its own members, else the
\* client's
Built(spec, o) ==
    Over([o EXCEPT !.produces = Stated(@, spec.produces), !.consumes = Stated(@, spec.consumes)],
         [host |-> spec.host, basePath |-> spec.basePath])

\* fail, and the caller's failure callback
Fail == /\ IF usePromise THEN Settle(Root, "rejected") /\ UNCHANGED told
           ELSE told' = Append(told, "failed") /\ UNCHANGED qvars
        /\ UNCHANGED <<isBuilt, isValid, apis, thrown>>

(***************************************************************************)
(* The resolver's callback: resolveAllOf throws on a null anywhere in the  *)
(* definitions, else buildFromSpec, unless the client is built already.    *)
(***************************************************************************)
BuildFromSpec(spec) ==
    IF spec.bad THEN thrown' = TRUE /\ UNCHANGED <<isBuilt, apis, told, qvars>>
    ELSE IF isBuilt THEN UNCHANGED <<isBuilt, apis, told, thrown, qvars>>
    ELSE /\ isBuilt' = TRUE
         /\ apis' = BuildApis(spec.operations)
         /\ IF usePromise THEN Settle(Root, "fulfilled") /\ UNCHANGED told
            ELSE told' = Append(told, "built") /\ UNCHANGED qvars
         /\ UNCHANGED thrown

\* new Resolver().resolve(...) or its next round: r is where it stands when
\* the synchronous part is over
Continue(r, answered) ==
    /\ round' = r
    /\ IF r.done
       THEN net' = net \ answered /\ BuildFromSpec(r.spec)
       ELSE /\ net' = (net \ answered) \cup {RefRequest(i) : i \in Remotes(r.items)}
            /\ UNCHANGED <<isBuilt, apis, told, thrown, qvars>>

\* isValid is set after resolve has returned, whatever is still outstanding
Resolving(spec, answered) ==
    /\ Continue(Resolve(spec, 0), answered)
    /\ isValid' = IF thrown' THEN isValid ELSE TRUE

\* convert: one file with operations, a listing, a listing of nothing, or no
\* description at all, on which the resolver throws
Convert(main) ==
    LET apisOf == main.apis
        single == Description(Declaration(Empty2, Own, main.declaration))
    IN  \/ /\ \/ main.kind = "other"
              \/ main.kind = "single" /\ Throws(main.declaration)
           /\ thrown' = TRUE /\ net' = net \ {SpecRequest}
           /\ UNCHANGED <<round, conv, isBuilt, isValid, apis, told, qvars>>
        \/ /\ main.kind = "single" /\ ~Throws(main.declaration)
           /\ Resolving(single, {SpecRequest}) /\ UNCHANGED conv
        \/ /\ main.kind = "listing" /\ apisOf = {}
           /\ Resolving(Description(Empty2), {SpecRequest}) /\ UNCHANGED conv
        \/ /\ main.kind = "listing" /\ apisOf # {}
           /\ conv' = Listing(Cardinality(apisOf))
           /\ net' = (net \ {SpecRequest}) \cup {DeclRequest(d) : d \in apisOf}
           /\ UNCHANGED <<round, isBuilt, isValid, apis, told, thrown, qvars>>

\* the answer to the request for the description
AnswerSpec(x) ==
    /\ ~flushing /\ SpecRequest \in net
    /\ IF Handler(x) = "error" \/ ~HasObject(x)
       THEN Fail /\ net' = net \ {SpecRequest} /\ UNCHANGED <<round, conv>>
       ELSE IF world.main.kind = "swagger2"
       THEN Resolving(world.main.spec, {SpecRequest}) /\ UNCHANGED conv
       ELSE Convert(world.main)
    /\ UNCHANGED <<world, usePromise, fetchFailed>>

\* the answer to the request for one API declaration
AnswerDeclaration(d, x) ==
    LET decl == world.declarations[d]
        given == Handler(x) = "response" /\ HasObject(x)
        folded == CountedAnswer(conv, IF given /\ ~Throws(decl)
                                      THEN Declaration(conv.swagger, d, decl) ELSE conv.swagger)
        answered == {DeclRequest(d)}
    IN  /\ ~flushing /\ DeclRequest(d) \in net
        /\ conv' = folded
        /\ IF given /\ Throws(decl)
           THEN /\ thrown' = TRUE /\ net' = net \ answered
                /\ UNCHANGED <<round, isBuilt, isValid, apis, told, qvars>>
           ELSE IF LastAnswer(folded) THEN Resolving(Description(folded.swagger), answered)
           ELSE net' = net \ answered /\ UNCHANGED <<round, isBuilt, isValid, apis, told, thrown, qvars>>
        /\ UNCHANGED <<world, usePromise, fetchFailed>>

(***************************************************************************)
(* The answer to a fetch of the resolver.  An answer without an object is  *)
(* handled like one without the definition.  The last answer finishes the  *)
(* round.                                                                  *)
(***************************************************************************)
AnswerRef(i, x) ==
    LET r == Answered(round, i, world.remote, Handler(x) = "response" /\ HasObject(x)) IN
    /\ ~flushing /\ RefRequest(i) \in net
    /\ fetchFailed' = (fetchFailed \/ Handler(x) = "error" \/ ~HasObject(x))
    /\ IF r.processedCalls = r.expectedCalls
       THEN \E first \in FirstRoots(r) : Continue(AfterRound(r, first), {RefRequest(i)})
       ELSE /\ round' = r /\ net' = net \ {RefRequest(i)}
            /\ UNCHANGED <<isBuilt, apis, told, thrown, qvars>>
    /\ UNCHANGED <<world, usePromise, conv, isValid>>

\* a caller that was given the promise registers a handler on it, or on the
\* promise of an earlier handler
Register(h, p) == usePromise /\ Then(h, p) /\ UNCHANGED cvars
Turn == QStep /\ UNCHANGED cvars

Answer == \E x \in Exchanges :
            \/ AnswerSpec(x)
            \/ \E q \in net : q.kind = "decl" /\ AnswerDeclaration(q.of, x)
            \/ \E q \in net : q.kind = "ref" /\ AnswerRef(q.of, x)

Next == Answer \/ Turn \/ \E h \in Handlers, p \in Promises : Register(h, p)

(***************************************************************************)
(* Fairness: the browser ends every request and calls flush; flush runs to *)
(* its end.  AnswerFair is weak fairness of Answer, with its enabling      *)
(* condition written out.                                                  *)
(***************************************************************************)
AnswerFair == []<>(flushing \/ net = {}) \/ []<><<Answer>>_vars
Spec == Init /\ [][Next]_vars /\ AnswerFair /\ WF_vars(Turn)
-----------------------------------------------------------------------------
(***************************************************************************)
(* The counters of the converter and of the resolver tell the answers that *)
(* are still to come, in every state: a round or a listing is finished by  *)
(* its last answer and by no other, and a client that is built has nothing *)
(* outstanding.                                                            *)
(***************************************************************************)
Outstanding(kind) == {q \in net : q.kind = kind}
CountersAgree ==
    /\ conv.processedCount + Cardinality(Outstanding("decl")) = conv.expectedCount
    /\ round # NoRound /\ ~round.done =>
         /\ round.processedCalls + Cardinality(Outstanding("ref")) = round.expectedCalls
         /\ Outstanding("ref") # {}
    /\ isBuilt => net = {}

\* the levels of documents the references of a description lead to
Target(r) == <<r.doc, r.name>>
Exists(t) == t[1] \in DOMAIN world.remote /\ t[2] \in DOMAIN world.remote[t[1]]
Level[k \in 0..MaxIteration + 2] ==
    IF k = 0 THEN {Target(i[2]) : i \in Remotes(Table(world.main.spec))}
    ELSE {Target(r) : r \in UNION {world.remote[t[1]][t[2]] : t \in {u \in Level[k - 1] : Exists(u)}}}
Documents == {Own} \cup DOMAIN world.remote
NamesOf(d) == IF d = Own THEN DOMAIN world.main.spec.defs ELSE DOMAIN world.remote[d]

(***************************************************************************)
(* A description the resolver can follow: no two documents define the same *)
(* name, every reference leads to a definition, the references into other  *)
(* documents end after seven levels (no cycle, none back to the            *)
(* description), and if there are some the description inlines nothing of  *)
(* its own.                                                                *)
(***************************************************************************)
Followable ==
    /\ world.main.kind = "swagger2"
    /\ \A d, e \in Documents : d # e => NamesOf(d) \cap NamesOf(e) = {}
    /\ \A k \in 0..MaxIteration + 1 : \A t \in Level[k] : Exists(t)
    /\ Level[MaxIteration + 2] = {}
    /\ \A i \in Table(world.main.spec) :
         /\ IsLocal(i[2]) => i[2].name \in NamesOf(Own) /\ i[2].root = Here
         /\ IsLocal(i[2]) /\ i[2].how = "inline" => Level[0] = {}

(***************************************************************************)
(* When every fetch is answered, the client is built with references that  *)
(* are all local and all designate the definition their author meant, in   *)
(* whatever order the answers of each round came.                          *)
(***************************************************************************)
ResolvedAsMeant ==
    isBuilt /\ ~fetchFailed /\ Followable =>
        \A i \in Table(round.spec) :
            /\ i[2].root = Here /\ i[2].name \in DOMAIN round.spec.defs
            /\ round.spec.defs[i[2].name].doc = i[2].doc

(***************************************************************************)
(* A built client offers every operation under each of its tags, once and  *)
(* in the order of the description, when no operation names a tag twice;   *)
(* and its table of functions loses none unless more than two operations   *)
(* have the same id or an id looks like a name the client makes up.        *)
(***************************************************************************)
HasTag(o, tag) == \E t \in DOMAIN o.tags : o.tags[t] = tag
Offered(operations, tag, group) ==
    LET array == group.operationsArray
        twins(i) == {j \in DOMAIN operations : Head(operations[j].id) = Head(operations[i].id)}
    IN  /\ \A m, n \in DOMAIN array : m < n => array[m] < array[n]
        /\ Range(array) = {i \in DOMAIN operations : HasTag(operations[i], tag)}
        /\ (\A i \in DOMAIN operations : Len(operations[i].id) = 1 /\ Cardinality(twins(i)) <= 2) =>
             Range(group.table) = Range(array)
EveryOperationOffered ==
    isBuilt =>
      LET all == round.spec.operations
      IN  (\A i \in DOMAIN all : IsInjective(all[i].tags)) =>
            \A tag \in UNION {Range(all[i].tags) : i \in DOMAIN all} :
                tag \in DOMAIN apis /\ Offered(all, tag, apis[tag])

(***************************************************************************)
(* Declarations are folded into one object in the order of their answers,  *)
(* and still a declaration that says everything itself means the same      *)
(* alone and in any listing: its operations all get their own types, media *)
(* types, credentials and address, and its models their own members.       *)
(***************************************************************************)
Keys(decl) == DOMAIN decl.models \cup {decl.models[n].id : n \in DOMAIN decl.models}
Places(decl) == {<<o.path, o.method>> : o \in Range(decl.operations)}
SelfContained(d) ==
    LET decl == world.declarations[d] IN
    /\ \A o \in Range(decl.operations) :
         Stated(o.produces, decl.produces) # Nil /\ Stated(o.consumes, decl.consumes) # Nil
    /\ \A e \in world.main.apis \ {d} : LET other == world.declarations[e] IN
         /\ Keys(decl) \cap Keys(other) = {} /\ Places(decl) \cap Places(other) = {}
         /\ \A t \in Types(decl) : t.name \notin Keys(other)
         /\ Throws(other) \/ <<decl.host, decl.basePath>> = <<other.host, other.basePath>>
ConversionOrderFree ==
    isBuilt /\ world.main.kind = "listing" =>
      \A d \in {o.declaredIn : o \in Range(round.spec.operations)} : SelfContained(d) =>
        LET alone == Description(Declaration(Empty2, d, world.declarations[d]))
            offered == {o \in Range(round.spec.operations) : o.declaredIn = d}
        IN  /\ {Built(round.spec, o) : o \in offered} = {Built(alone, o) : o \in Range(alone.operations)}
            /\ \A n \in DOMAIN alone.defs :
                 n \in DOMAIN round.spec.defs /\ round.spec.models[n] = alone.models[n]

(***************************************************************************)
(* Handlers of one promise are called in the order they were registered,   *)
(* no handler twice, and a rejection that some handler was told of is not  *)
(* among the unhandled ones once the queue is empty.                       *)
(***************************************************************************)
HandlersInOrder ==
    /\ \A i, j \in DOMAIN ran : i < j /\ parent[ran[i][1]] = parent[ran[j][1]] =>
           ran[i][1] < ran[j][1]
    /\ tasks = <<>> =>
         unhandled = {p \in Promises : promise[p].state = "rejected"
                                       /\ \A h \in Handlers : parent[h] # p}

(***************************************************************************)
(* The client as those who wait for it see it: ClientLoad, with the        *)
(* callbacks, or the handlers registered on the client's own promise, as   *)
(* its listeners.  A handler has heard when it is called or passed over.   *)
(* A load is lost when nothing is outstanding and only an exception ended  *)
(* it: a null among the definitions, no description at all, or a           *)
(* declaration without a basePath that is answered last.                   *)
(***************************************************************************)
Outcome == IF isBuilt THEN "built"
           ELSE IF promise[Root].state = "rejected" \/ told # <<>> THEN "failed"
           ELSE IF thrown /\ net = {} THEN "lost" ELSE "none"
HeardBy(l) ==
    IF l = Caller THEN IF told = <<>> THEN "none" ELSE told[Len(told)]
    ELSE IF parent[l] = Root /\ \E j \in DOMAIN ran : ran[j][1] = l
    THEN IF promise[Root].state = "fulfilled" THEN "built" ELSE "failed"
    ELSE "none"
Load == INSTANCE ClientLoad WITH
    Listeners <- {Caller} \cup Handlers, Callback <- Caller,
    outcome <- Outcome,
    listening <- {h \in Handlers : parent[h] = Root} \cup (IF usePromise THEN {} ELSE {Caller}),
    heard <- [l \in {Caller} \cup Handlers |-> HeardBy(l)]
ImplementsLoad == Load!Spec
=============================================================================
