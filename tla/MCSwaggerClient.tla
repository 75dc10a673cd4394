-------------------------- MODULE MCSwaggerClient --------------------------
(***************************************************************************)
(* SwaggerClient and its page over a catalogue of descriptions.  The       *)
(* documents at URLs "A" and "B" hold what each of them needs; two         *)
(* handlers are registered at any moment, on the client's promise or on    *)
(* one another's.                                                          *)
(***************************************************************************)
EXTENDS SwaggerDocs

Ref(how, root, name, doc) == [how |-> how, root |-> root, name |-> name, doc |-> doc]
L(n) == Ref("ref", Here, n, Own)
Inline(n) == Ref("inline", Here, n, Own)
R(u, n) == Ref("ref", u, n, u)
RInline(u, n) == Ref("inline", u, n, u)
In(u, n) == Ref("ref", Here, n, u)
Def(refs) == [doc |-> Own, refs |-> refs]
Answering(id, tags, responses) == [id |-> <<id>>, tags |-> tags, responses |-> responses]
Operation(id, tags) == Answering(id, tags, <<>>)
OneOperation == <<Operation("a", <<"t">>)>>

Swagger2(ops, defs, operations, bad) ==
    [kind |-> "swagger2",
     spec |-> [ops |-> ops, defs |-> defs, operations |-> operations, models |-> <<>>, bad |-> bad]]
NoDeclarations == <<>>
World2(ops, defs, remote) ==
    [main |-> Swagger2(ops, defs, OneOperation, FALSE), declarations |-> NoDeclarations, remote |-> remote]

\* two documents, one reached twice, one through the other
Diamond == World2({R("A", "x"), L("p")}, "p" :> Def({R("B", "y")}),
                  "A" :> ("x" :> {In("A", "z"), R("B", "y")} @@ "z" :> {}) @@ "B" :> ("y" :> {}))
\* an inlined response of another document, and a model it refers to
Inlined == World2({RInline("A", "x"), R("B", "y")}, <<>>,
                  "A" :> ("x" :> {In("A", "z")} @@ "z" :> {}) @@ "B" :> ("y" :> {}))
\* one document defines x, another defines x too
Clash == World2({R("A", "x"), R("B", "x")}, <<>>,
                "A" :> ("x" :> {In("A", "z")} @@ "z" :> {}) @@ "B" :> ("x" :> {}))
\* a model of another document that refers to itself
Cycle == World2({R("A", "x")}, <<>>, "A" :> ("x" :> {In("A", "x")}))
\* an inlined definition of the description, without and with another document
Inherits(ops) == World2(ops, "p" :> Def({Inline("q")}) @@ "q" :> Def({L("s")}) @@ "s" :> Def({}),
                        "A" :> ("x" :> {}))
\* a reference to nothing
Dangling == World2({L("p"), R("A", "w")}, <<>>, "A" :> ("x" :> {}))
\* n references in a row, in one document
Link == <<"c1", "c2", "c3", "c4", "c5", "c6", "c7", "c8">>
Chain(n) == World2({R("A", "c1")}, <<>>,
                   "A" :> [c \in {Link[i] : i \in 1..n} |->
                              {In("A", Link[i + 1]) : i \in {j \in 1..(n - 1) : Link[j] = c}}])
\* operations under several tags; ids that clash in pairs, and in threes
Tagged(third) ==
    [main |-> Swagger2({}, <<>>,
                       <<Operation("a", <<"t", "u">>), Operation("a", <<"u", "t">>), Operation(third, <<"u">>)>>,
                       FALSE),
     declarations |-> NoDeclarations, remote |-> <<>>]

\* models that mention each other, themselves, inline objects and lists, and
\* what is no model; answers by name, inline, in lists, and none
Mentioned(schemas) == {L(s.ref) : s \in {p \in UNION {Parts(t) : t \in schemas} : p.ref # Nil}}
Page(models, operations) ==
    [main |-> [kind |-> "swagger2",
               spec |-> [ops |-> Mentioned(UNION {Range(o.responses) : o \in Range(operations)} \ {Nil}),
                         defs |-> [n \in DOMAIN models |-> Def(Mentioned({models[n]}))],
                         operations |-> operations, models |-> models, bad |-> FALSE]],
     declarations |-> NoDeclarations, remote |-> <<>>]
Text == TypeSchema("string")
Tuple(items) == [EmptySchema EXCEPT !.type = "array", !.items = items, !.tuple = TRUE]
Titled(s, title) == [s EXCEPT !.title = title]
Mutual == "Node" :> ObjectSchema(<<ListSchema(RefSchema("Node")), RefSchema("Leaf"), RefSchema("Id"), Text>>)
           @@ "Leaf" :> ObjectSchema(<<ListSchema(ObjectSchema(<<RefSchema("Node"), RefSchema("Deep")>>)), EmptySchema>>)
           @@ "Deep" :> ListSchema(RefSchema("Deeper"))
           @@ "Deeper" :> ListSchema(ListSchema(ObjectSchema(<<RefSchema("Leaf"), ObjectSchema(<<Text>>)>>)))
           @@ "Id" :> TypeSchema("integer") @@ "Void" :> EmptySchema
Shown == Page(Mutual,
    <<Answering("n", <<"t">>, "200" :> RefSchema("Node") @@ "default" :> RefSchema("Id")),
      Answering("m", <<"t">>, "201" :> ListSchema(ListSchema(RefSchema("Deep"))) @@ "404" :> Nil),
      Answering("o", <<"u">>, "default" :> ObjectSchema(<<RefSchema("Id"), ListSchema(Text)>>)),
      Answering("p", <<"u">>, "200" :> RefSchema("Id")), Answering("q", <<"u">>, "200" :> Text),
      Answering("r", <<"u">>, "204" :> Nil @@ "200" :> RefSchema("Void"))>>)
\* titles, tuples and references to nothing
Mixed == Page("A" :> Titled(ObjectSchema(<<Titled(RefSchema("A"), "B"), RefSchema("B")>>), "A model")
              @@ "B" :> Tuple(<<RefSchema("A"), ObjectSchema(<<Text>>), Text>>),
    <<Answering("a", <<"t">>, "200" :> RefSchema("A")),
      Answering("b", <<"t">>, "200" :> ObjectSchema(<<Tuple(<<ObjectSchema(<<Text>>)>>), RefSchema("none")>>)),
      Answering("c", <<"t">>, "200" :> RefSchema("none"))>>)

\* tags and ids whose words join to one id, twins below several tags, a tag in
\* Chinese (yonghu, users)
Joined == Page(<<>>, <<Operation("a", <<"t u">>), Operation("a", <<"t_u">>), Operation("b", <<"t_u">>)>>)
Nested == Page(<<>>, <<[Operation("u", <<"t">>) EXCEPT !.id = <<"u", "a">>], Operation("a", <<"t_u">>)>>)
Crossed == Page(<<>>, <<Operation("a", <<"u">>), Operation("a", <<"t", "u">>)>>)
Chinese == Page(<<>>, <<Operation("a", <<"yonghu">>), Operation("a", <<"t">>), Operation("a", <<"t">>)>>)
MCTagOrder == <<"bad", Own, "order", "pet", "t", "t u", "t_u", "u", "user", "yonghu">>
MCOddTags == {"yonghu"}
MCWords == [tag \in Range(MCTagOrder) |-> IF tag \in {"t u", "t_u"} THEN <<"t", "u">> ELSE <<tag>>]
Null == [main |-> Swagger2({}, "p" :> Def({}), OneOperation, TRUE),
         declarations |-> NoDeclarations, remote |-> <<>>]

\* declarations: one that says everything itself, one that inherits its media
\* types and names a model of the first, one on the path of the first with a
\* list of a model it does not define, one without basePath
Typed(how, name, list) == [how |-> how, name |-> name, list |-> list]
OldOperation(method, path, id, media, auth, type, params, responses) ==
    [path |-> path, method |-> method, id |-> id, produces |-> media, consumes |-> Nil,
     authorizations |-> auth, type |-> type, params |-> params, responses |-> responses]
Model(id, types) == [id |-> id, properties |-> types]
Declared(base, media, auth, tag, models, operations) ==
    [host |-> IF base = Nil THEN Nil ELSE "h", basePath |-> base, produces |-> media, consumes |-> media,
     authorizations |-> auth, tag |-> tag, models |-> models, operations |-> operations]
Pet == Declared("/", "xml", "key", "pet",
    "Pet" :> Model("pet", <<Typed("$ref", "tag", FALSE)>>) @@ "Tag" :> Model("tag", <<>>),
    <<OldOperation("put", "/pet", "update", Nil, Inherit, Typed("type", "void", FALSE),
                   "body" :> Typed("type", "pet", FALSE), <<>>),
      OldOperation("get", "/pet", "get", "yaml", Nil, Typed("type", "pet", TRUE), <<>>,
                   "200" :> "Pet" @@ "404" :> Nil)>>)
User == Declared("/", Nil, Nil, "user", <<>>,
    <<OldOperation("get", "/user", "get", Nil, "basic", Typed("type", "pet", FALSE), <<>>, <<>>)>>)
Order(base) == Declared(base, "json", Nil, "order",
    "Order" :> Model("Order", <<Typed("type", "Order", TRUE)>>),
    <<OldOperation("post", "/pet", "order", Nil, Inherit, Typed("$ref", "Order", FALSE), <<>>, <<>>)>>)
Bad == Declared(Nil, "json", Nil, "bad", <<>>, <<>>)
Lone == Declared("/", "xml", Nil, Own, <<>>,
    <<OldOperation("get", "/pet", "get", Nil, Nil, Typed("$ref", "Pet", FALSE), <<>>, <<>>)>>)
Old(main) ==
    [main |-> main, remote |-> <<>>,
     declarations |-> "pet" :> Pet @@ "user" :> User @@ "order" :> Order("/") @@ "far" :> Order("/far")
                      @@ "bad" :> Bad]
OldMain(kind, listed) ==
    [kind |-> kind, apis |-> listed, declaration |-> IF kind = "single" THEN Lone ELSE Bad]
Listings == {{}, {"pet", "order"}, {"pet", "user", "bad"}, {"pet", "user", "far"}, {"pet", "order", "user"}}

MCClickWorlds == {Tagged("b"), Joined, Nested, Crossed, Chinese}
MCWorlds == {Diamond, Inlined, Clash, Cycle, Inherits({L("p")}), Inherits({L("p"), R("A", "x")}),
             Dangling, Chain(7), Chain(8), Tagged("b"), Tagged("a"), Null}
            \cup {Old(OldMain(k, s)) : k \in {"listing"}, s \in Listings}
            \cup {Old(OldMain("single", {})), Old(OldMain("other", {}))}
            \cup {Shown, Mixed} \cup MCClickWorlds
=============================================================================
