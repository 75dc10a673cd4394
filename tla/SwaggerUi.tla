------------------------------ MODULE SwaggerUi ------------------------------
(***************************************************************************)
(* The documentation page: the SwaggerUi router, its HeaderView, MainView  *)
(* and OperationViews, as index.html sets them up.  A load creates a new   *)
(* swagger client and leaves the older ones to end as they may; whichever  *)
(* ends calls the same render or onLoadFailure.  A form that is submitted  *)
(* becomes a request; its answer is shown in the view it was sent from,    *)
(* which a reload or a new rendering has taken off the page.               *)
(*                                                                         *)
(* A client is seen from here as ClientLoad describes it: it ends built or *)
(* failed; one that is lost is loading for ever.  Descriptions maps a URL  *)
(* to [operations, schemes].                                               *)
(***************************************************************************)
EXTENDS SwaggerOperation, SwaggerHttp

CONSTANTS
    Descriptions,   \* URL -> what its description holds
    Fills,          \* the forms a user fills in: [o, args, contentType, accept]
    Keys,           \* the API keys a user types
    NoKey,          \* the empty key field
    NoMap,          \* the view's map before the first submit
    MaxActs         \* bound: reloads, keys, submits, logins and logouts of the user

ASSUME OperationAssumption ==
    \A url \in DOMAIN Descriptions : \A o \in DOMAIN Descriptions[url].operations :
        LET parameters == Descriptions[url].operations[o].parameters IN
        Len(parameters) \in Nat /\ DOMAIN parameters = 1 .. Len(parameters)

VARIABLES
    api,        \* the clients in the order they were made; the last is router.api
    shown,      \* the client whose description is in the container, or 0
    renders,    \* how often MainView has rendered: an answer of an older one is not seen
    view,       \* operation -> its OperationView, while a description is shown
    message,    \* the message bar
    net,        \* the requests of forms that are not answered
    acts,       \* how many things the user has done: what numbers requests and tokens
    apiKey,     \* what is in the key field
    ended,      \* history: the client that ended last
    must        \* history: scheme -> the credential given for it since the last logout

uvars == <<api, shown, renders, view, message, net, acts, apiKey, ended, must>>

Newest == Len(api)
Client == api[Newest]
OperationOf(k, o) == Descriptions[api[k].url].operations[o]
NoResponse == [to |-> 0, curl |-> NoBody]
NoCredential == 0

\* a new OperationView: nothing submitted, its access icon off, its info icon
\* an error
FreshView == [throbber |-> FALSE, map |-> NoMap, last |-> 0, response |-> NoResponse,
              access |-> "off", info |-> {"error"}]

\* Mutant: load() makes a client without the credentials of the last one.
NewClientForgets(url, authz) == [url |-> url, state |-> "loading", authz |-> <<>>]

NewClient(url, authz) == [url |-> url, state |-> "loading", authz |-> Copied(authz)]

\* the page has called load() for the first time
UiInit ==
    /\ \E url \in DOMAIN Descriptions : api = <<NewClient(url, <<>>)>>
    /\ shown = 0 /\ renders = 0 /\ view = <<>> /\ message = "fetching"
    /\ net = {} /\ acts = 0 /\ apiKey = NoKey /\ ended = 0
    /\ must = <<>>

Act == acts < MaxActs /\ acts' = acts + 1

\* Mutant: load() leaves the old description on the page.
LoadKeepsViews(url) ==
    /\ Act
    /\ message' = "fetching"
    /\ api' = Append(api, NewClient(url, Client.authz))
    /\ UNCHANGED <<shown, renders, view, net, apiKey, ended, must>>

\* updateSwaggerUi and load: the old views go, the credentials stay
Load(url) ==
    /\ Act
    /\ shown' = 0 /\ view' = <<>> /\ message' = "fetching"
    /\ api' = Append(api, NewClient(url, Client.authz))
    /\ UNCHANGED <<renders, net, apiKey, ended, must>>

\* a credential is given: it is put on the client of now
ApiKeyAuth(key) == [scheme |-> "api_key", type |-> "query", name |-> "api_key", value |-> key]
Held(clients, auth) == [clients EXCEPT ![Newest].authz = Add(@, auth)]

\* addApiKeyAuthorization: an empty field takes nothing back
AddApiKey(clients, key) ==
    IF key = NoKey THEN api' = clients /\ UNCHANGED must
    ELSE api' = Held(clients, ApiKeyAuth(key)) /\ must' = With(must, "api_key", key)

(***************************************************************************)
(* render, the success callback of every client.  It shows router.api,     *)
(* the newest client, whichever has succeeded.  When that one is not built *)
(* MainView throws on its missing apisArray, after the first message.      *)
(***************************************************************************)
Render(clients) ==
    IF clients[Newest].state = "built"
    THEN /\ shown' = Newest /\ renders' = renders + 1 /\ message' = "blank"
         /\ view' = [o \in DOMAIN Descriptions[clients[Newest].url].operations |-> FreshView]
         /\ AddApiKey(clients, apiKey)      \* onComplete
    ELSE /\ message' = "rendering" /\ api' = clients
         /\ UNCHANGED <<shown, renders, view, must>>

\* a client ends; onLoadFailure only writes the message
EndLoad(k, outcome) ==
    LET clients == [api EXCEPT ![k].state = outcome] IN
    /\ api[k].state = "loading"
    /\ ended' = k
    /\ IF outcome = "built" THEN Render(clients)
       ELSE message' = "failure" /\ api' = clients /\ UNCHANGED <<shown, renders, view, must>>
    /\ UNCHANGED <<net, acts, apiKey>>

\* the key field changes
TypeKey(key) ==
    /\ Act /\ apiKey' = key /\ key # apiKey
    /\ AddApiKey(api, key)
    /\ UNCHANGED <<shown, renders, view, message, net, ended>>

\* Mutant: the answer does not hide the throbber.
ShowStatusTurning(v, id) == [v EXCEPT !.response.to = id]

\* showStatus, up to the curl command
ShowStatus(v, id) == [v EXCEPT !.throbber = FALSE, !.response.to = id]
ShowCurl(v, o, accept) ==
    [v EXCEPT !.response.curl = AsCurl(OperationOf(shown, o), v.map, accept, api[shown].authz)]

\* its curl command when there is no request to describe: apply throws on the
\* first credential it would put on it, and the old command stays
ShowNoCurl(v, o) ==
    IF \E i \in DOMAIN api[shown].authz : Applies(api[shown].authz[i], OperationOf(shown, o).security)
    THEN v ELSE [v EXCEPT !.response.curl = NoBody]

\* Mutant: a failed request leaves its throbber turning.
ShowNoErrorStatus(v, id, o, accept) == v

\* showCompleteStatus and showErrorStatus
ShowCompleteStatus(v, id, o, accept) == ShowCurl(ShowStatus(v, id), o, accept)
ShowErrorStatus(v, id, o, accept) == ShowCurl(ShowStatus(v, id), o, accept)

\* submitOperation's map and options
IsFileUpload(op) == HasFields(op, TRUE)

\* the select of a form with a body: what the operation consumes, or JSON
ContentTypes(op) ==
    IF ~HasBody(op) THEN {NoType} ELSE IF op.consumes = <<>> THEN {Json} ELSE Range(op.consumes)

\* Mutant: the select of the content type is not in the form.
InputMapOfFields(op, fill) ==
    IF IsFileUpload(op) THEN With(fill.args, TypeArg, Multipart) ELSE fill.args

\* getInputMap reads the select with the fields; an upload writes over it
InputMap(op, fill) ==
    IF IsFileUpload(op) THEN With(fill.args, TypeArg, Multipart)
    ELSE IF HasBody(op) THEN With(fill.args, TypeArg, fill.contentType) ELSE fill.args
Options(op, fill) ==
    [accept |-> fill.accept, contentType |-> fill.contentType, useJQuery |-> IsFileUpload(op)]

(***************************************************************************)
(* submitOperation and execute.  A required field that the page has let    *)
(* pass although it is left out is an error at once, without a request.    *)
(***************************************************************************)
Submit(o, fill) ==
    LET op == OperationOf(shown, o)
        map == InputMap(op, fill)
        submitted == [view[o] EXCEPT !.throbber = TRUE, !.map = map, !.last = acts + 1]
    IN  /\ Act /\ shown # 0 /\ o \in DOMAIN view /\ fill.contentType \in ContentTypes(op)
        /\ IF MissingParams(op, map) # {}
           THEN view' = [view EXCEPT ![o] = ShowNoCurl(ShowStatus(submitted, acts + 1), o)] /\ UNCHANGED net
           ELSE /\ view' = [view EXCEPT ![o] = submitted]
                /\ net' = net \cup {[id |-> acts + 1, render |-> renders, o |-> o, client |-> shown,
                                     chosen |-> fill.contentType, must |-> must, authz |-> api[shown].authz,
                                     request |-> Sent(Request(op, map, Options(op, fill), api[shown].authz))]}
        /\ UNCHANGED <<api, shown, renders, message, apiKey, ended, must>>

\* the answer: to a view of the page, or to one that is not on it any more
OnPage(q) == shown # 0 /\ q.render = renders
Answer(q, callback, accept) ==
    /\ q \in net
    /\ net' = net \ {q}
    /\ view' = IF ~OnPage(q) THEN view
               ELSE IF callback = "response"
               THEN [view EXCEPT ![q.o] = ShowCompleteStatus(@, q.id, q.o, accept)]
               ELSE [view EXCEPT ![q.o] = ShowErrorStatus(@, q.id, q.o, accept)]
    /\ UNCHANGED <<api, shown, renders, message, acts, apiKey, ended, must>>

\* the callback that runs and the answer's media type, which needs an answer
Answers == {<<Handler(x), t>> : x \in Exchanges, t \in {NoType}}
           \cup {<<Handler(x), Json>> : x \in {y \in Exchanges : Status(y) # 0}}
=============================================================================
