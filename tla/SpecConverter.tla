--------------------------- MODULE SpecConverter ---------------------------
(***************************************************************************)
(* SwaggerSpecConverter of swagger-ui.js: a resource listing of Swagger    *)
(* 1.x becomes one Swagger 2.0 description.  Each API declaration of the   *)
(* listing is fetched by a request of its own and folded into the same     *)
(* object as its answer arrives, in whatever order that is.                *)
(*                                                                         *)
(* A declaration is [host, basePath, produces, consumes, authorizations,   *)
(* tag, models, operations]: the host and the path of its basePath, the    *)
(* host Nil in a relative one; models is name -> [id, properties], a       *)
(* sequence of types; operations is a sequence of [path, method, id,       *)
(* produces, consumes, authorizations, type, params, responses] with a     *)
(* type for each parameter, by its place, and code -> model for the        *)
(* messages.  What is left out is Nil, an empty authorizations object      *)
(* Inherit.  A type is [how, name, list]: named by $ref or by type, itself *)
(* or a list of it.  No model has the name of a primitive type, and a list *)
(* is not named "array".                                                   *)
(***************************************************************************)
EXTENDS SwaggerResolver

CONSTANT Inherit     \* authorizations: {}

\* convert: the object the declarations are folded into, with the modelMap
Empty2 == [host |-> Nil, basePath |-> Nil, produces |-> Nil, consumes |-> Nil, paths |-> <<>>, table |-> <<>>,
           defs |-> <<>>, models |-> <<>>, modelMap |-> <<>>]

\* the types a declaration names, and what the converter can be given
Types(decl) == (UNION {Range(decl.models[n].properties) : n \in DOMAIN decl.models})
               \cup (UNION {{o.type} \cup Range(o.params) : o \in Range(decl.operations)})
FiniteDeclaration(decl) ==
    /\ IsFiniteSet(DOMAIN decl.models)
    /\ \A n \in DOMAIN decl.models : Listed(decl.models[n].properties)
    /\ Listed(decl.operations)
    /\ \A i \in DOMAIN decl.operations : IsFiniteSet(DOMAIN decl.operations[i].responses)
    /\ \A t \in Types(decl) : t.how = "$ref" \/ (t.how = "type" /\ t.name # "array")

\* Mutant: what was stated first stays.
StatedFirst(new, old) == IF old # Nil THEN old ELSE new

\* a member of the declaration or of the operation before what is there
Stated(new, old) == IF new # Nil THEN new ELSE old

(***************************************************************************)
(* toJsonSchema: a type becomes a reference when the modelMap knows it.    *)
(* A $ref it does not know stays as it is written, a file beside the       *)
(* description; a type it does not know is passed along.                   *)
(***************************************************************************)
Known(type, modelMap) == type.name \in DOMAIN modelMap
ToJsonSchema(type, modelMap) ==
    LET one == CASE Known(type, modelMap) -> RefSchema(modelMap[type.name])
                 [] ~Known(type, modelMap) /\ type.how = "$ref" -> RefSchema(type.name)
                 [] ~Known(type, modelMap) /\ type.how = "type" ->
                      IF type.name = "void" THEN EmptySchema ELSE TypeSchema(type.name)
    IN  IF type.list THEN ListSchema(one) ELSE one

\* the references the resolver will find for these types
References(types, modelMap, d) ==
    {[how |-> "ref", name |-> IF Known(t, modelMap) THEN modelMap[t.name] ELSE t.name,
      root |-> IF Known(t, modelMap) THEN Here ELSE t.name, doc |-> d] :
        t \in {u \in types : Known(u, modelMap) \/ u.how = "$ref"}}

(***************************************************************************)
(* operations, for one operation: media types of its own or the ones in    *)
(* swagger; authorizations of its own or, for an empty object, the         *)
(* declaration's.  responseMessages: its type answers 200, or is the       *)
(* default beside a message for 200.  The resolver looks into the          *)
(* responses and, of the parameters, a body that is not a list.            *)
(***************************************************************************)
Converted(o, decl, d, swagger) ==
    LET map == swagger.modelMap
        default == IF "200" \in DOMAIN o.responses THEN "default" ELSE "200"
        type == ToJsonSchema(o.type, map)
        message(c) == IF o.responses[c] = Nil THEN Nil ELSE RefSchema(o.responses[c])
        body == {o.params[p] : p \in {q \in {"body"} \cap DOMAIN o.params : ~o.params[q].list}}
        messages == {[how |-> "ref", name |-> n, root |-> Here, doc |-> d] : n \in Range(o.responses) \ {Nil}}
    IN  [path |-> o.path, method |-> o.method, id |-> <<o.id>>, tags |-> <<decl.tag>>, declaredIn |-> d,
         produces |-> Stated(o.produces, swagger.produces),
         consumes |-> Stated(o.consumes, swagger.consumes),
         security |-> IF o.authorizations = Inherit THEN decl.authorizations ELSE o.authorizations,
         parameters |-> [p \in DOMAIN o.params |-> ToJsonSchema(o.params[p], map)],
         responses |-> With([c \in DOMAIN o.responses |-> message(c)], default,
                            IF type = EmptySchema THEN Nil ELSE type),
         refs |-> References({o.type} \cup body, map, d) \cup messages]

\* pathObj[method] = operation, in swagger.paths
AddOperation(swagger, o) ==
    [swagger EXCEPT
        !.paths = IF Contains(@, o.path) THEN @ ELSE Append(@, o.path),
        !.table = With(@, <<o.path, o.method>>, o)]

\* declaration throws before it changes anything when there is no basePath
Throws(decl) == decl.basePath = Nil

\* declaration: the members of the description, the modelMap, the operations,
\* and models, where a model replaces one of the same name
Declaration(swagger, d, decl) ==
    LET names == DOMAIN decl.models
        named == [swagger EXCEPT
                    !.host = Stated(decl.host, @), !.basePath = decl.basePath,
                    !.produces = Stated(decl.produces, @),
                    !.consumes = Stated(decl.consumes, @),
                    !.modelMap = Over([k \in {decl.models[n].id : n \in names} |->
                                         CHOOSE n \in names : decl.models[n].id = k], @)]
        types(n) == decl.models[n].properties
        folded[i \in 0..Len(decl.operations)] ==
            IF i = 0 THEN named
            ELSE AddOperation(folded[i - 1], Converted(decl.operations[i], decl, d, folded[i - 1]))
        schema(n) == ObjectSchema([i \in DOMAIN types(n) |-> ToJsonSchema(types(n)[i], named.modelMap)])
        \* the resolver looks into properties that are lists
        refs(n) == References({t \in Range(types(n)) : t.list}, named.modelMap, d)
    IN  [folded[Len(decl.operations)] EXCEPT
           !.models = Over([n \in names |-> schema(n)], @),
           !.defs = Over([n \in names |-> [doc |-> d, refs |-> refs(n)]], @)]

\* the order in which buildFromSpec looks for operations on a path
Methods == <<"delete", "get", "head", "options", "patch", "post", "put">>

\* finish: the description as the resolver and buildFromSpec read it
Description(swagger) ==
    LET at(n) == <<swagger.paths[1 + (n - 1) \div 7], Methods[1 + ((n - 1) % 7)]>>
        operations[n \in 0..7 * Len(swagger.paths)] ==
            IF n = 0 THEN <<>>
            ELSE IF at(n) \in DOMAIN swagger.table THEN Append(operations[n - 1], swagger.table[at(n)])
            ELSE operations[n - 1]
    IN  [host |-> swagger.host, basePath |-> swagger.basePath, produces |-> swagger.produces,
         consumes |-> swagger.consumes, operations |-> operations[7 * Len(swagger.paths)], models |-> swagger.models,
         ops |-> UNION {o.refs : o \in Range(swagger.table)}, defs |-> swagger.defs, bad |-> FALSE]

(***************************************************************************)
(* resourceListing: the counters of the answers.  A declaration that       *)
(* throws has been counted, but leaves the handler before the comparison.  *)
(***************************************************************************)
Listing(expected) == [processedCount |-> 0, expectedCount |-> expected, swagger |-> Empty2]
CountedAnswer(conv, swagger) == [conv EXCEPT !.processedCount = @ + 1, !.swagger = swagger]
\* Mutant: the listing is finished one answer too early.
LastAnswerEarly(conv) == conv.processedCount + 1 = conv.expectedCount
LastAnswer(conv) == conv.processedCount = conv.expectedCount
=============================================================================
