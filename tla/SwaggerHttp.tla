---------------------------- MODULE SwaggerHttp ----------------------------
(***************************************************************************)
(* What the HTTP layer of the documentation page makes of one exchange:    *)
(* swagger-ui.js, SwaggerHttp.execute, the superagent client behind it and *)
(* the Request and Response of superagent.  The page sets no timeout and   *)
(* never aborts, so that a request has one life: it is sent, the browser   *)
(* brings it to readyState 4, and exactly one of obj.on.response and       *)
(* obj.on.error runs, in a later turn than the one that sent it.           *)
(***************************************************************************)

(***************************************************************************)
(* How the browser can end a request: no answer at all (status 0); an      *)
(* answer whose status is not 2xx; a 2xx answer in JSON that does not      *)
(* parse; a 2xx answer that parses into no object (text, an empty body);   *)
(* a 2xx answer that parses into an object.                                *)
(***************************************************************************)
Exchanges == {"refused", "status", "garbled", "text", "object"}

\* setStatusProperties: the statuses for which Response.error is not set and
\* Request's 'end' handler passes no error of its own
Successful(x) == x \in {"garbled", "text", "object"}

\* Request's 'end' handler: a Response that cannot be constructed is an error
\* without a response
Parses(x) == x # "garbled"

\* SuperagentHttpClient.execute, the function given to r.end
Handler(x) == IF Successful(x) /\ Parses(x) THEN "response" ELSE "error"

\* resp.obj as on.response sees it: an object, or null
HasObject(x) == x = "object"

\* the status the handler sees: 0 when superagent has no response for it
Status(x) == IF x \in {"refused", "garbled"} THEN 0 ELSE IF x = "status" THEN 404 ELSE 200
=============================================================================
