--------------------------- MODULE SwaggerModels ---------------------------
(***************************************************************************)
(* The schemas of a description in swagger-ui.js.  The resolver makes      *)
(* definitions of the inline objects it meets.                             *)
(*                                                                         *)
(* A schema is [type, ref, props, items, tuple, title]: what is not there  *)
(* is Nil; ref is the name a $ref ends in; props is the sequence of the    *)
(* properties' schemas; items holds the one schema of an array, or several *)
(* when tuple.  A property { schema: s } is s, as resolveSchema has it.    *)
(***************************************************************************)
EXTENDS Naturals, Sequences, FiniteSets, TLC, SequencesExt, JsObject

CONSTANT Nil        \* a member that is not there

ASSUME NilAssumption == Nil # "array"

EmptySchema == [type |-> Nil, ref |-> Nil, props |-> Nil, items |-> <<>>, tuple |-> FALSE, title |-> Nil]
TypeSchema(type) == [EmptySchema EXCEPT !.type = type]
RefSchema(name) == [EmptySchema EXCEPT !.ref = name]
ListSchema(item) == [EmptySchema EXCEPT !.type = "array", !.items = <<item>>]
ObjectSchema(props) == [EmptySchema EXCEPT !.props = props]

IsObject(s) == s.type \in {Nil, "object"}
IsPrimitive(s) == s.type \notin {Nil, "object", "array"}

\* uniqueName
UniqueName(models) ==
    LET candidate(k) == IF k = 0 THEN "inline_model" ELSE "inline_model_" \o ToString(k - 1)
        free == {k \in 0..Cardinality(DOMAIN models) : candidate(k) \notin DOMAIN models}
    IN  candidate(CHOOSE k \in free : \A j \in free : k <= j)

(***************************************************************************)
(* resolveTo, what it does to a schema that is no reference: an object     *)
(* with properties, here or as the item of lists, becomes a definition and *)
(* a reference to it, which keeps its title.  (It throws on an array       *)
(* without items, which no description here has where it looks.)           *)
(***************************************************************************)
IsList(s) == s.ref = Nil /\ s.type = "array" /\ ~s.tuple
ResolveItem(models, item) ==
    IF item.ref # Nil \/ item.type = "array" \/ item.props = Nil
    THEN [models |-> models, schema |-> item]
    ELSE LET name == UniqueName(models)
         IN  [models |-> With(models, name, item),
              schema |-> [item EXCEPT !.ref = name, !.type = Nil, !.props = Nil]]
ResolveTo(models, s) ==
    LET within[k \in Nat] ==
            IF k = 0 THEN s
            ELSE IF IsList(within[k - 1]) THEN within[k - 1].items[1] ELSE within[k - 1]
        resolved[k \in Nat] ==
            IF IsList(within[k])
            THEN [resolved[k + 1] EXCEPT !.schema = [within[k] EXCEPT !.items = <<resolved[k + 1].schema>>]]
            ELSE ResolveItem(models, within[k])
    IN  resolved[0]

(***************************************************************************)
(* resolve: the properties of the definitions there are, then the          *)
(* responses; the order only tells in the numbers of the names.            *)
(***************************************************************************)
WithProperty(r, n, i) == [r.models EXCEPT ![n].props[i] = r.schema]
HoistModel(n, models) ==
    FoldLeft(LAMBDA m, i : WithProperty(ResolveTo(m, m[n].props[i]), n, i), models,
             IF models[n].props = Nil THEN <<>> ELSE [i \in DOMAIN models[n].props |-> i])
WithResponse(r, w, place) ==
    [models |-> r.models, responses |-> [w.responses EXCEPT ![place[1]][place[2]] = r.schema]]
HoistResponse(place, w) ==
    LET s == w.responses[place[1]][place[2]]
    IN  IF s = Nil THEN w ELSE WithResponse(ResolveTo(w.models, s), w, place)
Hoisted(spec) ==
    LET all == DOMAIN spec.operations
        places == UNION {{<<i, c>> : c \in DOMAIN spec.operations[i].responses} : i \in all}
        inModels == [models |-> FoldSet(HoistModel, spec.models, DOMAIN spec.models),
                     responses |-> [i \in all |-> spec.operations[i].responses]]
        with(done) ==
            [spec EXCEPT !.models = done.models,
                         !.operations = [i \in all |-> [spec.operations[i] EXCEPT !.responses = done.responses[i]]]]
    IN  with(FoldSet(HoistResponse, inModels, places))
=============================================================================
