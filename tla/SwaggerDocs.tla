---------------------------- MODULE SwaggerDocs ----------------------------
(***************************************************************************)
(* The page a built swagger client is shown on: MainView, its ResourceViews*)
(* and OperationViews, and the Docs functions of swagger-ui.js that expand *)
(* and collapse them and follow the hash of the address.  The client calls *)
(* back, the page is rendered in the same turn, and 100 ms later shebang   *)
(* opens what the hash names.  Of the options, docExpansion is "none", as  *)
(* index.html has it.  Sliding takes no time here.                         *)
(*                                                                         *)
(* A name is a sequence of words, joined by '_' in the ids of elements, so *)
(* that the ids of different operations can be the same.                   *)
(***************************************************************************)
EXTENDS SwaggerClient, SwaggerSignatures

CONSTANTS
    TagOrder,     \* the tags there can be, in alphabetical order
    Words,        \* tag -> its words, separated by blanks or '_'
    OddTags,      \* tags an address encodes, such as those in Chinese; none has / . $ or the like
    ClickWorlds,  \* bound: the worlds in which the page is used
    MaxClicks     \* bound: what the user and older clients do on a page

VARIABLES
    nicknames,    \* operation -> its nickname, which rendering changes
    page,         \* the ResourceViews in order: [tag, operations], each [op, nickname, signature]
    lists,        \* the sections whose list of endpoints is shown, by position
    contents,     \* the operations whose content is shown, by positions
    hash,         \* what follows the # in the address
    timeouts,     \* shebangs that are due
    opened,       \* history: the operation whose click wrote the hash
    quiet,        \* history: no click since the last rendering
    clicks

pvars == <<page, nicknames, lists, contents>>
hvars == <<hash, opened>>
dvars == <<pvars, hvars, timeouts, quiet, clicks>>

NoHash == [to |-> "nothing"]
ResourceHash(tag) == [to |-> "resource", tag |-> tag]
OperationHash(tag, nickname) == [to |-> "operation", tag |-> tag, nickname |-> nickname]
NoOperation == [tag |-> Nil, op |-> 0]

DocsInit ==
    /\ Init
    /\ page = <<>> /\ nicknames = <<>> /\ lists = {} /\ contents = {}
    /\ hash = NoHash /\ timeouts = 0 /\ opened = NoOperation /\ quiet = TRUE /\ clicks = 0

(***************************************************************************)
(* What an operation answers with: the constructor of Operation takes the  *)
(* first of these responses; the view spells out its schema, unless it is  *)
(* primitive.  MainView has made every definition without a type an        *)
(* object.                                                                 *)
(***************************************************************************)
Successes == <<"200", "201", "202", "203", "204", "205", "206", "default">>
Models(spec) ==
    [n \in DOMAIN spec.models |->
        IF spec.models[n].type = Nil THEN [spec.models[n] EXCEPT !.type = "object"] ELSE spec.models[n]]
SuccessSchema(o) ==
    LET codes == SelectSeq(Successes, LAMBDA c : c \in DOMAIN o.responses)
    IN  IF codes = <<>> THEN Nil ELSE o.responses[codes[1]]
Signature(o, models) ==
    LET s == SuccessSchema(o)
        known == s.ref \in DOMAIN models
        definition == IF known THEN models[s.ref] ELSE s
        name == CASE definition.title # Nil -> definition.title
                  [] definition.title = Nil /\ known -> s.ref
                  [] OTHER -> "Inline Model"
    IN  IF s = Nil THEN <<>>
        ELSE IF s.ref = Nil /\ IsPrimitive(s) THEN <<>> ELSE SchemaToHTML(name, definition, models)

\* the views of one section: a nickname taken in this section gets counters
RECURSIVE Unique(_, _, _)
Unique(name, methods, counter) ==
    IF name \notin methods THEN name ELSE Unique(Append(name, ToString(counter)), methods, counter + 1)
AddOperationView(drawn, op) ==
    LET taken == {drawn.operations[i].nickname : i \in DOMAIN drawn.operations}
        nickname == Unique(drawn.nicknames[op], taken, 0)
    IN  [nicknames |-> [drawn.nicknames EXCEPT ![op] = nickname],
         operations |-> Append(drawn.operations,
                          [op |-> op, nickname |-> nickname,
                           signature |-> Signature(drawn.spec.operations[op], Models(drawn.spec))]),
         spec |-> drawn.spec]
AddResource(drawn, tag, groups) ==
    LET section == FoldLeft(AddOperationView,
                            [nicknames |-> drawn.nicknames, operations |-> <<>>, spec |-> drawn.spec],
                            groups[tag].operationsArray)
    IN  [nicknames |-> section.nicknames, spec |-> drawn.spec,
         page |-> Append(drawn.page, [tag |-> tag, operations |-> section.operations])]

(***************************************************************************)
(* SwaggerUi.render: the sections in the order of their tags, everything   *)
(* collapsed, and a timeout for shebang.                                   *)
(***************************************************************************)
Render(spec, groups, names) ==
    LET drawn == FoldLeft(LAMBDA d, tag : AddResource(d, tag, groups),
                          [nicknames |-> names, page |-> <<>>, spec |-> spec],
                          SelectSeq(TagOrder, LAMBDA tag : tag \in DOMAIN groups))
    IN  /\ page' = drawn.page /\ nicknames' = drawn.nicknames
        /\ lists' = {} /\ contents' = {}
        /\ timeouts' = timeouts + 1 /\ quiet' = TRUE

Fresh(spec) == [i \in DOMAIN spec.operations |-> spec.operations[i].id]

\* a turn of the client, with the success callback of the page in it
ClientTurn ==
    /\ Next
    /\ IF told' # told /\ isBuilt'
       THEN Render(round'.spec, apis', Fresh(round'.spec)) /\ UNCHANGED <<hvars, clicks>>
       ELSE UNCHANGED dvars

Click == isBuilt /\ ~usePromise /\ world \in ClickWorlds /\ clicks < MaxClicks /\ clicks' = clicks + 1

\* an older client of the page succeeds: the newest one is rendered again
RenderAgain ==
    /\ Click /\ page # <<>>
    /\ Render(round.spec, apis, nicknames)
    /\ UNCHANGED <<vars, hvars>>

\* load() clears the page; a reload of the window also drops the timeouts
Reload ==
    /\ Click /\ page # <<>>
    /\ page' = <<>> /\ nicknames' = <<>> /\ lists' = {} /\ contents' = {} /\ quiet' = TRUE
    /\ timeouts' \in {timeouts, 0}
    /\ UNCHANGED <<vars, hvars>>

\* the new client is built as the old one was
Reloaded ==
    /\ isBuilt /\ clicks > 0 /\ page = <<>>
    /\ Render(round.spec, apis, Fresh(round.spec))
    /\ UNCHANGED <<vars, hvars, clicks>>

\* the elements a selector finds: sections with the id of a resource, the first
\* element with the id of an operation
Sections(words) == {i \in DOMAIN page : Words[page[i].tag] = words}
Views == {<<i, j>> : i \in DOMAIN page, j \in 1..Max({0} \cup {Len(page[i].operations) : i \in DOMAIN page})}
Before(v, w) == v[1] < w[1] \/ (v[1] = w[1] /\ v[2] <= w[2])
Of(v) == page[v[1]].operations[v[2]]
HasView(v) == v[2] \in DOMAIN page[v[1]].operations
Id(v) == Words[page[v[1]].tag] \o Of(v).nickname
WithId(words) == {v \in Views : HasView(v) /\ Id(v) = words}
First(views) == {v \in views : \A w \in views : Before(v, w)}
Visible(v) == v \in contents /\ v[1] \in lists

\* toggleEndpointListForResource
ToggleList(i) ==
    LET same == Sections(Words[page[i].tag]) IN
    /\ Click
    /\ IF same \cap lists # {}
       THEN hash' = NoHash /\ lists' = lists \ same
       ELSE hash' = ResourceHash(page[i].tag) /\ lists' = lists \cup same
    /\ opened' = NoOperation /\ quiet' = FALSE
    /\ UNCHANGED <<vars, page, nicknames, contents, timeouts>>

\* collapseOperationsForResource and expandOperationsForResource, which both
\* open the list; neither writes the hash
ShowOperations(i, shown) ==
    LET same == Sections(Words[page[i].tag])
        inside == {v \in Views : HasView(v) /\ v[1] \in same}
    IN  /\ Click
        /\ lists' = lists \cup same
        /\ contents' = IF shown THEN contents \cup inside ELSE contents \ inside
        /\ quiet' = FALSE
        /\ UNCHANGED <<vars, page, nicknames, hvars, timeouts>>

(***************************************************************************)
(* toggleOperationContent: the element it opens is found by its id; unless *)
(* it is closed the link is followed, which writes the hash.               *)
(***************************************************************************)
ToggleContent(v) ==
    LET elem == First(WithId(Id(v))) IN
    /\ Click /\ v[1] \in lists
    /\ IF \E w \in elem : Visible(w)
       THEN hash' = NoHash /\ opened' = NoOperation /\ contents' = contents \ elem
       ELSE /\ hash' = OperationHash(page[v[1]].tag, Of(v).nickname)
            /\ opened' = [tag |-> page[v[1]].tag, op |-> Of(v).op]
            /\ contents' = contents \cup elem
    /\ quiet' = FALSE
    /\ UNCHANGED <<vars, page, nicknames, lists, timeouts>>

\* Mutant: shebang opens the operation but not its resource.
ShebangListsNot == lists

(***************************************************************************)
(* shebang: opens what the hash of this moment names.  No element has the  *)
(* id of an encoded tag.                                                   *)
(***************************************************************************)
Named == hash.to \in {"resource", "operation"} /\ hash.tag \notin OddTags
ShebangLists == IF Named THEN lists \cup Sections(Words[hash.tag]) ELSE lists
ShebangContents ==
    IF Named /\ hash.to = "operation"
    THEN contents \cup First(WithId(Words[hash.tag] \o hash.nickname)) ELSE contents
Shebang ==
    /\ timeouts > 0 /\ timeouts' = timeouts - 1
    /\ lists' = ShebangLists /\ contents' = ShebangContents
    /\ UNCHANGED <<vars, page, nicknames, hvars, quiet, clicks>>

Use == \/ RenderAgain \/ Reload
       \/ \E i \in DOMAIN page : ToggleList(i) \/ \E shown \in BOOLEAN : ShowOperations(i, shown)
       \/ \E v \in Views : HasView(v) /\ ToggleContent(v)

DocsNext == ClientTurn \/ Use \/ Reloaded \/ Shebang

DocsSpec == DocsInit /\ [][DocsNext]_<<vars, dvars>> /\ AnswerFair /\ WF_vars(Turn)
-----------------------------------------------------------------------------
(***************************************************************************)
(* The signature of an operation spells out every model it mentions, once, *)
(* whatever models refer to whatever others; and its models still say what *)
(* their author wrote, although the resolver has moved parts of them.      *)
(***************************************************************************)
SignatureComplete ==
    \A v \in Views : HasView(v) =>
        LET spec == round.spec
            schemas == Range(Models(spec)) \cup ({SuccessSchema(spec.operations[Of(v).op])} \ {Nil})
            written == world.main.spec.models
        IN  Regular(schemas, Models(spec)) =>
              /\ SpeltOut(Of(v).signature, Models(spec))
              /\ world.main.kind = "swagger2" =>
                   \A n \in DOMAIN written : Unfolded(written[n], written, 5) = Unfolded(spec.models[n], spec.models, 5)

(***************************************************************************)
(* The address leads back: when a page has been rendered and its shebangs  *)
(* are over, the operation whose link was followed last is open, unless    *)
(* its id is also another's, its tag is odd, or its nickname is one that   *)
(* rendering can change because a twin shares its tags.                    *)
(***************************************************************************)
Twins(op) == {j \in DOMAIN round.spec.operations : round.spec.operations[j].id = round.spec.operations[op].id}
Settled(op) == Twins(op) = {op} \/ \A j \in Twins(op) : Len(round.spec.operations[j].tags) = 1
HashLeadsBack ==
    page # <<>> /\ quiet /\ timeouts = 0 /\ opened # NoOperation =>
        \A v \in Views : HasView(v) /\ page[v[1]].tag = opened.tag /\ Of(v).op = opened.op =>
            \/ Visible(v)
            \/ opened.tag \in OddTags \/ ~Settled(opened.op)
            \/ Cardinality(WithId(Id(v))) > 1
=============================================================================
