------------------------- MODULE SwaggerSignatures -------------------------
(***************************************************************************)
(* schemaToHTML of swagger-ui.js: it spells out a schema, then every model *)
(* that was mentioned and not yet spelled out, until none is left.  A      *)
(* signature is the sequence of its headings: the name, the schema below   *)
(* it, and the names mentioned there.                                      *)
(***************************************************************************)
EXTENDS SwaggerModels

\* what addReference is called with: a schema and the name beside it
RefPart(s) == <<<<s, s.ref>>>>
InlinePart(s) == <<<<s, Nil>>>>

\* an item of an array model
OfItem(s) ==
    IF s.ref # Nil THEN RefPart(s)
    ELSE IF IsPrimitive(s) \/ (IsObject(s) /\ s.props = Nil) THEN <<>> ELSE InlinePart(s)

\* primitiveToHTML: a property; the items of a tuple are given their position
\* for a name
OfProperty(s) ==
    LET item == s.items[1] IN
    CASE s.ref # Nil -> RefPart(s)
      [] s.ref = Nil /\ IsObject(s) -> IF s.props = Nil THEN <<>> ELSE InlinePart(s)
      [] s.ref = Nil /\ (IsPrimitive(s) \/ (s.type = "array" /\ s.items = <<>>)) -> <<>>
      [] s.ref = Nil /\ s.type = "array" /\ s.tuple -> [i \in DOMAIN s.items |-> <<s.items[i], ToString(i - 1)>>]
      [] OTHER -> IF item.ref # Nil THEN RefPart(item) ELSE IF IsPrimitive(item) THEN <<>> ELSE InlinePart(item)

\* a property that refers to a primitive is shown as that primitive
Dereferenced(s, models) ==
    IF s.ref \in DOMAIN models /\ IsPrimitive(models[s.ref]) THEN models[s.ref] ELSE s

\* the calls of addReference in processModel
Mentions(s, name, models) ==
    CASE s.type = "array" -> FlattenSeq([i \in DOMAIN s.items |-> OfItem(s.items[i])])
      [] s.type # "array" /\ s.ref # Nil -> <<<<s, name>>>>
      [] s.type # "array" /\ s.ref = Nil /\ IsObject(s) /\ s.props # Nil ->
           FlattenSeq([i \in DOMAIN s.props |-> OfProperty(Dereferenced(s.props[i], models))])
      [] OTHER -> <<>>

\* references[name] = schema, an object that keeps the order of its members
Refer(references, name, s) ==
    IF \E i \in DOMAIN references : references[i][1] = name
    THEN [i \in DOMAIN references |-> IF references[i][1] = name THEN <<name, s>> ELSE references[i]]
    ELSE Append(references, <<name, s>>)

(***************************************************************************)
(* addReference, called with m: a $ref is called by its title or its name; *)
(* an inline schema by its title or a number; and what comes with a name   *)
(* but no $ref is an empty model of that name.                             *)
(***************************************************************************)
AddReference(w, m, models) ==
    LET s == m[1]
        numbered == s.ref = Nil /\ m[2] = Nil
        inline == IF numbered /\ s.title = Nil THEN w.inlineModels + 1 ELSE w.inlineModels
        name == CASE s.ref # Nil -> IF s.title # Nil THEN s.title ELSE s.ref
                  [] s.ref = Nil /\ m[2] # Nil -> m[2]
                  [] numbered -> IF s.title # Nil THEN s.title ELSE "Inline Model " \o ToString(inline)
        definition == CASE numbered -> s
                        [] s.ref # Nil /\ name \in DOMAIN models -> models[name]
                        [] OTHER -> EmptySchema
    IN  [w EXCEPT !.inlineModels = inline, !.references = Refer(@, name, definition),
                  !.mentioned = Append(@, name)]

\* processModel
ProcessModel(w, name, s, models) ==
    LET read == FoldLeft(LAMBDA u, m : AddReference(u, m, models), [w EXCEPT !.mentioned = <<>>],
                         Mentions(s, name, models))
    IN  [read EXCEPT !.seenModels = @ \cup {name},
                     !.headings = Append(@, [name |-> name, schema |-> s, mentions |-> read.mentioned])]

\* one reference of a round: its schema is read when its turn comes
Visit(w, name, models) ==
    LET entry == SelectSeq(w.references, LAMBDA r : r[1] = name)[1]
        left == [w EXCEPT !.references = SelectSeq(@, LAMBDA r : r[1] # name)]
    IN  IF name \in w.seenModels THEN left ELSE ProcessModel(left, name, entry[2], models)

\* Mutant: what a round has mentioned is forgotten with the round.
RoundForgets(w, models) ==
    [FoldLeft(LAMBDA u, r : Visit(u, r[1], models), w, w.references) EXCEPT !.references = <<>>]

\* the forEach over the references there are when it starts
Rounds(w, models) == FoldLeft(LAMBDA u, r : Visit(u, r[1], models), w, w.references)

RECURSIVE SpellOut(_, _)
SpellOut(w, models) == IF w.references = <<>> THEN w.headings ELSE SpellOut(Rounds(w, models), models)

\* schemaToHTML; no heading for "... is not defined!" and "Empty"
SchemaToHTML(name, s, models) ==
    LET start == [references |-> <<>>, seenModels |-> {}, inlineModels |-> 0, mentioned |-> <<>>,
                  headings |-> <<>>]
    IN  CASE (s.ref # Nil /\ s.ref \notin DOMAIN models) \/ s = EmptySchema -> <<>>
          [] s.ref # Nil /\ s.ref \in DOMAIN models ->
               SpellOut(ProcessModel(start, s.ref, models[s.ref], models), models)
          [] OTHER -> SpellOut(ProcessModel(start, name, s, models), models)
-----------------------------------------------------------------------------
\* the schemas inside a schema
RECURSIVE Parts(_)
Parts(s) == {s} \cup UNION {Parts(p) : p \in ToSet(s.items) \cup (IF s.props = Nil THEN {} ELSE ToSet(s.props))}

\* models the signature does not mix up: no titles, no tuples, every $ref names
\* a definition that is not itself a $ref
Regular(schemas, models) ==
    \A s \in UNION {Parts(t) : t \in schemas} :
        s.title = Nil /\ ~s.tuple /\ (s.ref # Nil => s.ref \in DOMAIN models /\ models[s.ref].ref = Nil)

\* what a schema says down to a depth, whatever has a definition of its own
RECURSIVE Unfolded(_, _, _)
Unfolded(s, models, depth) ==
    CASE s.ref # Nil -> Unfolded(models[s.ref], models, depth)
      [] s.ref = Nil /\ (depth = 0 \/ IsPrimitive(s) \/ (IsObject(s) /\ s.props = Nil)) ->
           <<IF IsObject(s) THEN "object" ELSE s.type>>
      [] OTHER ->
           LET parts == IF IsObject(s) THEN s.props ELSE s.items
           IN  <<IF IsObject(s) THEN "object" ELSE "array">>
               \o [i \in DOMAIN parts |-> Unfolded(parts[i], models, depth - 1)]

\* every name that is mentioned has one heading, with the schema of that model
SpeltOut(headings, models) ==
    /\ \A i, j \in DOMAIN headings : headings[i].name = headings[j].name => i = j
    /\ \A i \in DOMAIN headings :
         /\ \A n \in ToSet(headings[i].mentions) : \E j \in DOMAIN headings : headings[j].name = n
         /\ headings[i].name \in DOMAIN models => headings[i].schema = models[headings[i].name]
=============================================================================
