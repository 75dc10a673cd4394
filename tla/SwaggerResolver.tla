-------------------------- MODULE SwaggerResolver --------------------------
(***************************************************************************)
(* Resolver of swagger-ui.js: the $refs of a Swagger 2.0 description are   *)
(* followed in rounds.  A round tables every reference of the description, *)
(* resolves those into the document itself at once, fetches one document   *)
(* per remaining reference, and when the last fetch is answered copies     *)
(* what was found into spec.definitions and makes the references local.    *)
(* Rounds follow each other until no reference is left, at most seven.     *)
(*                                                                         *)
(* A reference is a record: how the source follows it ("ref" through       *)
(* resolveTo, "inline" through resolveInline), its root (Here when its     *)
(* text starts with '#', else the URL before the '#'), the name of the     *)
(* definition and, for the properties only, the document that its author   *)
(* meant.  A description has ops, the references of its operations, defs,  *)
(* its definitions as [doc |-> where the text comes from, refs |-> the     *)
(* references], and models and operations, the schemas of the definitions  *)
(* and the responses it was written with.                                  *)
(***************************************************************************)
EXTENDS Integers, FiniteSets, SwaggerModels

CONSTANTS
    Here,      \* the root of a reference written '#/...'
    Own,       \* the URL the description itself was read from
    Ops        \* the holder of the references of the operations

ASSUME RootsAssumption == Here # Own

MaxIteration == 5

\* the round's resolutionTable: its references, each with the object that holds it
RefsOf(spec, h) == IF h = Ops THEN spec.ops ELSE spec.defs[h].refs
Table(spec) == UNION {{<<h, r>> : r \in RefsOf(spec, h)} : h \in {Ops} \cup DOMAIN spec.defs}

\* the client reads finitely many references, and lists of operations and tags
Listed(s) == s \in Seq(Range(s))
Readable(spec) ==
    /\ {"ops", "defs", "operations"} \subseteq DOMAIN spec
    /\ Listed(spec.operations)
    /\ \A i \in DOMAIN spec.operations :
         Listed(spec.operations[i].tags) /\ Listed(spec.operations[i].id) /\ spec.operations[i].id # <<>>
    /\ IsFiniteSet(spec.ops) /\ IsFiniteSet(DOMAIN spec.defs)
    /\ \A n \in DOMAIN spec.defs : IsFiniteSet(spec.defs[n].refs)

\* references written in the document at url: doc is the document they mean
Written(refs, url) ==
    \A r \in refs : /\ DOMAIN r = {"how", "root", "name", "doc"} /\ r.how \in {"ref", "inline"}
                    /\ r.doc = IF r.root = Here THEN url ELSE r.root

IsLocal(r) == r.root \in {Here, Own}

(***************************************************************************)
(* The key under which the answer is kept: the whole text of an inline     *)
(* reference, but only what follows the '#' for a reference that starts    *)
(* with http: the document is not part of it.                              *)
(***************************************************************************)
Key(r) == IF r.how = "inline" \/ r.root = Here THEN <<r.root, r.name>> ELSE <<r.name>>

(***************************************************************************)
(* A 'ref' into the document itself is looked up at once and only kept     *)
(* when it is missing; one that names the document's own URL has lost its  *)
(* '#', is never looked up and stays as it is.                             *)
(***************************************************************************)
ToResolve(spec) ==
    {i \in Table(spec) :
        LET r == i[2] IN
          \/ r.how = "inline"
          \/ ~IsLocal(r)
          \/ r.root = Here /\ r.name \notin DOMAIN spec.defs}

Remotes(items) == {i \in items : ~IsLocal(i[2])}

\* resolveItem for the items that are resolved in the document itself
LocallyResolved(spec, items) ==
    LET hits == {i[2] : i \in {j \in items : IsLocal(j[2]) /\ j[2].name \in DOMAIN spec.defs}}
    IN  [k \in {Key(r) : r \in hits} |-> spec.defs[k[2]]]

\* Mutant: the references of a copied object stay as they are.
RetainNothing(refs, url) == refs

\* retainRoot: the references of a copied object, made absolute.  A description
\* has none to a file beside it ('b.json#/y'), of which the code makes 'url#b.json#/y'.
Retain(refs, url) == {IF r.root = Here THEN [r EXCEPT !.root = url] ELSE r : r \in refs}

\* the URLs the items of one key resolve against; the first of them in the
\* table is the one retainRoot applies
RootsOf(spec, k) ==
    {IF IsLocal(i[2]) THEN Own ELSE i[2].root : i \in {j \in Table(spec) : Key(j[2]) = k}}
FirstRoots(round) ==
    LET keys == DOMAIN round.resolvedRefs IN
    {f \in [keys -> UNION {RootsOf(round.spec, k) : k \in keys}] :
        \A k \in keys : f[k] \in RootsOf(round.spec, k)}

(***************************************************************************)
(* finish, up to its count of what is left: a 'ref' becomes local and its  *)
(* object a definition of that name, over any other of that name; an       *)
(* inline reference is replaced by the members of its object.  Unless all  *)
(* the items of the round were local (local = TRUE) the objects first      *)
(* retain their root, those of the document itself included.               *)
(***************************************************************************)
Install(spec, resolved, first, local) ==
    LET hit(r) == Key(r) \in DOMAIN resolved
        inlined == {i[2] : i \in {j \in Table(spec) : j[2].how = "inline" /\ hit(j[2])}}
        copied == {i[2] : i \in {j \in Table(spec) : j[2].how = "ref" /\ j[2].root # Here /\ hit(j[2])}}
        retained(r, refs) == IF local THEN refs ELSE Retain(refs, first[Key(r)])
        \* the object of an inlined definition of the document is shared with it
        held(n) == IF \E r \in inlined : IsLocal(r) /\ r.name = n /\ ~local
                   THEN Retain(spec.defs[n].refs, Own) ELSE spec.defs[n].refs
        localised(refs) == {IF r \in copied THEN [r EXCEPT !.root = Here] ELSE r : r \in refs}
        object(r) == IF IsLocal(r) THEN localised(held(r.name))
                     ELSE retained(r, resolved[Key(r)].refs)
        rewritten(refs) == localised(refs \ inlined) \cup UNION {object(r) : r \in refs \cap inlined}
        names == {r.name : r \in copied}
    IN  [spec EXCEPT
           !.ops = rewritten(@),
           !.defs = [n \in DOMAIN spec.defs \cup names |->
                       IF n \in names
                       THEN LET r == CHOOSE q \in copied : q.name = n
                            IN  [doc |-> resolved[Key(r)].doc, refs |-> retained(r, resolved[Key(r)].refs)]
                       ELSE [doc |-> spec.defs[n].doc, refs |-> rewritten(held(n))]]]

\* countUnresolvedRefs over getRefs
Unresolved(spec) ==
    {i \in Table(spec) : i[2].root # Here \/ i[2].name \notin DOMAIN spec.defs}

\* finish, its last part: another round, or the callback
Finished(spec, iteration) == Unresolved(spec) = {} \/ iteration > MaxIteration

(***************************************************************************)
(* resolve: the state after the synchronous part of the rounds from this   *)
(* one on.  A round without a remote item is finished before resolve       *)
(* returns, and the next one starts in it.                                 *)
(***************************************************************************)
Round(spec, iteration, done) ==
    LET items == ToResolve(spec) IN
    [spec |-> spec, iteration |-> iteration, done |-> done,
     items |-> items,
     expectedCalls |-> Cardinality(items),
     processedCalls |-> Cardinality(items \ Remotes(items)),
     resolvedRefs |-> LocallyResolved(spec, items)]

FinishedLocally(round) ==
    Install(round.spec, round.resolvedRefs, [k \in DOMAIN round.resolvedRefs |-> Own], TRUE)
LocalRound(spec) == FinishedLocally(Round(Hoisted(spec), 0, FALSE))

\* the rounds of one resolve; after is the description after each
Fetches(round) == Remotes(round.items) # {}
RoundAfter(after, n, iteration) == Round(Hoisted(after[n]), iteration + n, FALSE)
Ends(after, n, iteration) ==
    Fetches(RoundAfter(after, n, iteration)) \/ Finished(after[n + 1], iteration + n)
LastRound(after, iteration) ==
    CHOOSE n \in 0..MaxIteration + 1 :
        Ends(after, n, iteration) /\ \A k \in 0..n - 1 : ~Ends(after, k, iteration)
Resolve(spec, iteration) ==
    LET after[n \in 0..MaxIteration + 2] == IF n = 0 THEN spec ELSE LocalRound(after[n - 1])
        at(last) == LET round == RoundAfter(after, last, iteration)
                    IN  IF Fetches(round) THEN round ELSE Round(after[last + 1], iteration + last, TRUE)
    IN  at(LastRound(after, iteration))

\* Mutant: the error handler does not count.
AnsweredUncounted(round, i, web, ok) ==
    LET r == i[2]
        found == ok /\ r.root \in DOMAIN web /\ r.name \in DOMAIN web[r.root]
    IN  IF found
        THEN [round EXCEPT
                !.processedCalls = @ + 1,
                !.resolvedRefs = With(@, Key(r), [doc |-> r.root, refs |-> web[r.root][r.name]])]
        ELSE round

\* the answer to one fetch: resolveItem, or the error handler, and the count
Answered(round, i, web, ok) ==
    LET r == i[2]
        found == ok /\ r.root \in DOMAIN web /\ r.name \in DOMAIN web[r.root]
    IN  [round EXCEPT
           !.processedCalls = @ + 1,
           !.resolvedRefs = IF found
               THEN With(@, Key(r), [doc |-> r.root, refs |-> web[r.root][r.name]])
               ELSE @]

\* finish after the last answer of a round
AfterRound(round, first) ==
    LET left == Install(round.spec, round.resolvedRefs, first, FALSE)
    IN  IF Finished(left, round.iteration) THEN Round(left, round.iteration, TRUE)
        ELSE Resolve(left, round.iteration + 1)
=============================================================================
