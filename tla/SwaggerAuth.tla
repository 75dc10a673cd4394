---------------------------- MODULE SwaggerAuth ----------------------------
(***************************************************************************)
(* The credentials of one swagger client and how they are put on a         *)
(* request: swagger-ui.js, SwaggerAuthorizations, ApiKeyAuthorization and  *)
(* PasswordAuthorization.                                                  *)
(*                                                                         *)
(* authz is a JavaScript object: its members keep the order in which they  *)
(* were first added, and are applied in it.  It is a sequence of           *)
(* [scheme, type, name, value], one per scheme.  A request has a           *)
(* query, the sequence of its name-value pairs, and headers, a function.   *)
(***************************************************************************)
EXTENDS Sequences, SequencesExt, JsObject

Schemes(authz) == {authz[i].scheme : i \in DOMAIN authz}

\* SwaggerAuthorizations.add: a credential takes the place of one of its name
Add(authz, auth) ==
    IF auth.scheme \in Schemes(authz)
    THEN [i \in DOMAIN authz |-> IF authz[i].scheme = auth.scheme THEN auth ELSE authz[i]]
    ELSE Append(authz, auth)

\* the constructor's add of options.authorizations: a copy, member by member
Copied(authz) == FoldLeft(Add, <<>>, authz)

InQuery(request, name) == \E i \in DOMAIN request.query : request.query[i][1] = name

SetHeader(request, name, value) == [request EXCEPT !.headers = With(@, name, value)]

(***************************************************************************)
(* apply of one credential.  A key already in the URL is not added again,  *)
(* a header that is set, by a parameter or by an earlier credential, stays *)
(* as it is.  A password is a header as well.                              *)
(***************************************************************************)
ApplyOne(request, auth) ==
    CASE auth.type = "query" ->
           IF InQuery(request, auth.name) THEN request
           ELSE [request EXCEPT !.query = Append(@, <<auth.name, auth.value>>)]
      [] auth.type = "header" ->
           IF auth.name \in DOMAIN request.headers THEN request
           ELSE SetHeader(request, auth.name, auth.value)
      [] OTHER -> request      \* the 1.x default type: neither

\* SwaggerAuthorizations.apply: all of them when the operation declares no
\* security, else those it names; an empty declaration names none
Applies(auth, security) == ~security.declared \/ auth.scheme \in security.names
ApplyIf(security, request, auth) ==
    IF Applies(auth, security) THEN ApplyOne(request, auth) ELSE request
Apply(request, authz, security) ==
    FoldLeft(LAMBDA r, auth : ApplyIf(security, r, auth), request, authz)
=============================================================================
