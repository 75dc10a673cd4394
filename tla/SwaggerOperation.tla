------------------------- MODULE SwaggerOperation --------------------------
(***************************************************************************)
(* How an operation of a description becomes a request, and the curl       *)
(* command shown for it: swagger-ui.js, Operation.                         *)
(*                                                                         *)
(* An operation is [method, parameters, consumes, produces, security]; a   *)
(* parameter [name, in, required, file]; at most one is the body.  args    *)
(* maps the names of the parameters that were filled in to their values;   *)
(* opts is [accept, contentType, useJQuery], where NoType means not given. *)
(***************************************************************************)
EXTENDS Naturals, SwaggerAuth

CONSTANTS
    NoType,      \* an absent media type
    NoBody,      \* a request without a body
    TypeArg      \* args.parameterContentType, the media type among the arguments

Json == "json"
Yaml == "yaml"
Multipart == "multipart"
UrlEncoded == "urlencoded"

Parameters(op) == Range(op.parameters)
Given(op, args, in) == {p \in Parameters(op) : p.in = in /\ p.name \in DOMAIN args}

\* getMissingParams
MissingParams(op, args) == {p \in Parameters(op) : p.required /\ p.name \notin DOMAIN args}

\* itemByPriority over JSON and YAML
ItemByPriority(col) ==
    IF Contains(col, Json) THEN Json ELSE IF Contains(col, Yaml) THEN Yaml
    ELSE IF col = <<>> THEN NoType ELSE col[1]

(***************************************************************************)
(* setContentTypes, the request's media type: the operation's or the one   *)
(* among the arguments, for form fields the one they need, and the one of  *)
(* the options over all; none for a method that carries no body.           *)
(***************************************************************************)
HasBody(op) == \E p \in Parameters(op) : p.in = "body"
HasFields(op, file) == \E p \in Parameters(op) : p.in = "formData" /\ p.file = file
BodyMethod(op, args) ==
    \/ op.method \in {"post", "put", "patch"}
    \/ op.method \in {"delete", "get"} /\ Given(op, args, "body") # {}
Consumes(op, args, opts) ==
    IF ~BodyMethod(op, args) THEN NoType
    ELSE IF opts.contentType # NoType THEN opts.contentType
    ELSE IF HasFields(op, FALSE) THEN IF HasFields(op, TRUE) THEN Multipart ELSE UrlEncoded
    ELSE IF TypeArg \in DOMAIN args THEN args[TypeArg]
    ELSE ItemByPriority(op.consumes)

Accepts(op, opts) == IF opts.accept # NoType THEN opts.accept ELSE ItemByPriority(op.produces)

SetContentTypes(op, args, opts) ==
    LET types == [name \in {"Content-Type", "Accept"} |->
                     IF name = "Accept" THEN Accepts(op, opts) ELSE Consumes(op, args, opts)]
    IN  Restrict(types, {name \in DOMAIN types : types[name] # NoType})

NoOpts == [accept |-> NoType, contentType |-> NoType, useJQuery |-> FALSE]

\* getHeaderParams: a header parameter over the content types without options
HeaderParams(op, args) ==
    Over([name \in {p.name : p \in Given(op, args, "header")} |-> args[name]],
         SetContentTypes(op, args, NoOpts))

(***************************************************************************)
(* getBody: the fields of a form, encoded or, for an upload, as form data  *)
(* when jQuery sends it; multipart without jQuery leaves the fields out.   *)
(* A declared JSON body that was not given is an empty object.             *)
(***************************************************************************)
GetBody(op, args, contentTypes, opts) ==
    LET fields == [name \in {p.name : p \in Given(op, args, "formData")} |-> args[name]]
        type == IF "Content-Type" \in DOMAIN contentTypes THEN contentTypes["Content-Type"] ELSE NoType
        body == IF Given(op, args, "body") # {}
                THEN [kind |-> "body", of |-> args[(CHOOSE p \in Given(op, args, "body") : TRUE).name]]
                ELSE IF type = Json /\ HasBody(op)
                THEN [kind |-> "body", of |-> "{}"]
                ELSE NoBody
    IN  IF fields # <<>> /\ type # Multipart THEN [kind |-> "form", of |-> fields]
        ELSE IF type = Multipart /\ opts.useJQuery THEN [kind |-> "formData", of |-> fields]
        ELSE body

\* urlify: the query parameters in the order they are declared
Queried(args, query, p) ==
    IF p.in = "query" /\ p.name \in DOMAIN args THEN Append(query, <<p.name, args[p.name]>>) ELSE query
Urlify(op, args) ==
    [path |-> [name \in {p.name : p \in Given(op, args, "path")} |-> args[name]],
     query |-> FoldLeft(LAMBDA query, p : Queried(args, query, p), <<>>, op.parameters)]

\* execute, for an operation none of whose required parameters is missing
Request(op, args, opts, authz) ==
    LET types == SetContentTypes(op, args, opts)
        url == Urlify(op, args)
        obj == [path |-> url.path, query |-> url.query, body |-> GetBody(op, args, types, opts),
                headers |-> Over(types, HeaderParams(op, args))]
    IN  Apply(obj, authz, op.security)

(***************************************************************************)
(* SwaggerHttp.execute: the form data of an upload goes without a content  *)
(* type of its own, the browser states the one with the boundary.          *)
(***************************************************************************)
Sent(request) ==
    IF request.body # NoBody /\ request.body.kind = "formData"
    THEN [request EXCEPT !.headers = Restrict(@, DOMAIN @ \ {"Content-Type"})]
    ELSE request

(***************************************************************************)
(* asCurl: the request executed again without being sent, from the         *)
(* arguments and the credentials of now, with the answer's media type as   *)
(* Accept and the credentials put on twice.  The options say nothing of    *)
(* the content type: the one that was chosen is found among the arguments. *)
(***************************************************************************)
AsCurl(op, args, accept, authz) ==
    Apply(Request(op, args, [NoOpts EXCEPT !.accept = accept], authz), authz, op.security)
=============================================================================
