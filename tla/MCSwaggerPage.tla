---------------------------- MODULE MCSwaggerPage ----------------------------
(***************************************************************************)
(* The page over two descriptions: one with an implicit and a code scheme  *)
(* and an operation for each, one with an application scheme and a file    *)
(* upload.                                                                 *)
(***************************************************************************)
EXTENDS SwaggerOAuth

Parameter(name, in, required, file) == [name |-> name, in |-> in, required |-> required, file |-> file]
Declared(names) == [declared |-> TRUE, names |-> names]
Undeclared == [declared |-> FALSE, names |-> {}]

Get == [method |-> "get", consumes |-> <<Json>>, produces |-> <<"xml", Json>>,
        parameters |-> <<Parameter("id", "query", TRUE, FALSE)>>,
        security |-> Declared({"s1", "api_key"}), scopes |-> {"read"}]
Put == [method |-> "put", consumes |-> <<"xml", Json>>, produces |-> <<"xml">>,
        parameters |-> <<Parameter("id", "path", TRUE, FALSE), Parameter("pet", "body", FALSE, FALSE)>>,
        security |-> Declared({"s2"}), scopes |-> {"write"}]
Upload == [method |-> "post", consumes |-> <<>>, produces |-> <<Json>>,
           parameters |-> <<Parameter("note", "formData", FALSE, FALSE), Parameter("file", "formData", FALSE, TRUE)>>,
           security |-> Undeclared, scopes |-> {}]

Scheme(key, flow, scopes, token) == [key |-> key, flow |-> flow, scopes |-> scopes, token |-> token]
MCDescriptions ==
    "a" :> [operations |-> "get" :> Get @@ "put" :> Put,
            schemes |-> <<Scheme("s1", "implicit", {"read"}, "access_token"),
                         Scheme("s2", "accessCode", {"write"}, "token")>>]
    @@ "b" :> [operations |-> "get" :> [Get EXCEPT !.security = Declared({"s3"})] @@ "upload" :> Upload,
               schemes |-> <<Scheme("s3", "application", {"read"}, "access_token")>>]

\* A response type is on the page of an operation with a response class.
Fill(o, args, type, accept) == [o |-> o, args |-> args, contentType |-> type, accept |-> accept]
MCFills == {Fill("get", "id" :> 1, NoType, "xml"), Fill("get", <<>>, NoType, "xml"),
            Fill("put", "id" :> 1, Json, NoType), Fill("put", "id" :> 1 @@ "pet" :> 2, "xml", NoType),
            Fill("upload", "note" :> 1 @@ "file" :> 2, NoType, NoType)}
=============================================================================
