---------------------------- MODULE SwaggerOAuth ----------------------------
(***************************************************************************)
(* The OAuth login of the documentation page (swagger-oauth.js, o2c.html)  *)
(* on top of SwaggerUi.  A login chooses scopes in a dialog, then opens a  *)
(* window in which the user signs in and which comes back to o2c.html, or  *)
(* asks a token endpoint, or both.  What was chosen and where the token is *)
(* to be had are kept in globals of the page, one of each, so that a       *)
(* second login, or a logout, changes them under the first one's feet.     *)
(*                                                                         *)
(* A description's schemes are a sequence of [key, flow, scopes, token],   *)
(* the last the name under which an answer has the token; an operation's   *)
(* scopes are what its information panel lists.                            *)
(***************************************************************************)
EXTENDS SwaggerUi

CONSTANTS
    NullScopes   \* enabledScopes before a login and after a logout

SchemeList(url) == Descriptions[url].schemes
AllScopes ==
    UNION {UNION {SchemeList(url)[i].scopes : i \in DOMAIN SchemeList(url)} : url \in DOMAIN Descriptions}

ASSUME OAuthAssumption ==
    /\ \A scopes \in SUBSET AllScopes : scopes # NullScopes
    /\ \A url \in DOMAIN Descriptions :
          Len(SchemeList(url)) \in Nat /\ DOMAIN SchemeList(url) = 1 .. Len(SchemeList(url))

VARIABLES
    dialog,         \* the scopes offered by the open dialog, or {}
    enabledScopes,  \* window.enabledScopes
    tokenUrl,       \* window.swaggerUi.tokenUrl: the scheme whose endpoint it is, or ""
    tokenName,      \* window.swaggerUi.tokenName, or "" before a login
    windows,        \* the windows in which a user signs in
    posts,          \* the requests to token endpoints
    lastGrant       \* history: [undisturbed, scopes] of the last token that arrived

ovars == <<dialog, enabledScopes, tokenUrl, tokenName, windows, posts, lastGrant>>
vars == <<uvars, ovars>>

NoGrant == [undisturbed |-> FALSE, render |-> 0, scopes |-> {}]

\* initOAuth has run; nobody has logged in
Init == /\ UiInit
        /\ dialog = {} /\ enabledScopes = NullScopes /\ tokenUrl = "" /\ tokenName = ""
        /\ windows = {} /\ posts = {} /\ lastGrant = NoGrant

SchemesOf(k) == Descriptions[api[k].url].schemes
HasPanel(o) == o \in DOMAIN view /\ OperationOf(shown, o).scopes # {}

\* handleLogin: a click on an access icon that is off
HandleLogin(o) ==
    /\ HasPanel(o) /\ view[o].access = "off"
    /\ dialog' = UNION {SchemesOf(Newest)[i].scopes \X {SchemesOf(Newest)[i].key}
                          : i \in DOMAIN SchemesOf(Newest)}
    /\ UNCHANGED <<uvars, enabledScopes, tokenUrl, tokenName, windows, posts, lastGrant>>

(***************************************************************************)
(* The loop over authSchemes in the handler of Authorize: the schemes of   *)
(* the chosen scopes in their order.  The first application scheme sends   *)
(* its token request and returns; of the others the last one wins.         *)
(***************************************************************************)
Chosen(schemes, keys) == {i \in DOMAIN schemes : schemes[i].key \in keys}
Apps(schemes, chosen) == {i \in chosen : schemes[i].flow = "application"}
Winner(schemes, chosen) ==
    LET apps == Apps(schemes, chosen) IN schemes[IF apps # {} THEN Min(apps) ELSE Max(chosen)]

\* tokenUrl when the loop is over: the endpoint of the last code scheme, null
\* for an implicit one; an application scheme leaves it alone
TokenUrlAfter(schemes, chosen) ==
    LET visited == {i \in chosen : \A j \in Apps(schemes, chosen) : i < j}
    IN  IF visited = {} THEN tokenUrl
        ELSE LET last == schemes[Max(visited)] IN IF last.flow = "accessCode" THEN last.key ELSE ""

Disturb(flows) == {[f EXCEPT !.undisturbed = FALSE] : f \in flows}

(***************************************************************************)
(* Authorize, with the chosen scopes.  authSchemes is the newest client's, *)
(* which need not be the one whose scopes the dialog offers; when it has   *)
(* none of them, or none at all yet, the window that opens leads nowhere.  *)
(***************************************************************************)
Authorize(picked) ==
    LET scopes == {p[1] : p \in picked}
        keys == {p[2] : p \in picked}
        schemes == SchemesOf(Newest)
        chosen == IF Client.state = "built" THEN Chosen(schemes, keys) ELSE {}
        winner == Winner(schemes, chosen)
        login == [id |-> acts + 1, scheme |-> winner.key, flow |-> winner.flow, scopes |-> scopes,
                  token |-> winner.token, undisturbed |-> TRUE, code |-> winner.flow = "application"]
    IN  /\ dialog # {} /\ picked \subseteq dialog /\ Act
        /\ dialog' = {}
        /\ enabledScopes' = scopes
        /\ IF chosen = {} THEN /\ windows' = Disturb(windows) /\ posts' = Disturb(posts)
                                 /\ UNCHANGED <<tokenUrl, tokenName>>
           ELSE /\ tokenUrl' = TokenUrlAfter(schemes, chosen) /\ tokenName' = winner.token
                /\ IF login.flow = "application"
                   THEN posts' = Disturb(posts) \cup {login}
                        /\ windows' = Disturb(windows)
                   ELSE windows' = Disturb(windows) \cup {login} /\ posts' = Disturb(posts)
        /\ UNCHANGED <<api, shown, renders, view, message, net, apiKey, ended, must, lastGrant>>

Cancel == /\ dialog # {} /\ dialog' = {}
          /\ UNCHANGED <<uvars, enabledScopes, tokenUrl, tokenName, windows, posts, lastGrant>>

(***************************************************************************)
(* onOAuthComplete with a token: it is looked for under tokenName, and     *)
(* nothing happens when the answer has it under another name.  Else every  *)
(* information panel on the page is compared with enabledScopes (null      *)
(* misses nothing) and the token becomes a credential of the newest        *)
(* client, whichever client asked for it.  For the history the token of a  *)
(* login that was not disturbed is given, found or not.                    *)
(***************************************************************************)
Missing(o) == IF enabledScopes = NullScopes THEN {} ELSE OperationOf(shown, o).scopes \ enabledScopes

\* Mutant: an icon that was on is not turned off.
IconsStayOn(o) ==
    IF ~HasPanel(o) THEN view[o]
    ELSE IF Missing(o) # {}
    THEN [view[o] EXCEPT !.info = (@ \cup {"warning"}) \ {"error"}]
    ELSE [view[o] EXCEPT !.access = "on", !.info = (@ \cup {"info"}) \ {"warning", "error"}]

Icons(o) == IF ~HasPanel(o) THEN view[o]
            ELSE IF Missing(o) # {}
            THEN [view[o] EXCEPT !.access = "off", !.info = (@ \cup {"warning"}) \ {"error"}]
            ELSE [view[o] EXCEPT !.access = "on", !.info = (@ \cup {"info"}) \ {"warning", "error"}]
Bearer(login) == [scheme |-> login.scheme, type |-> "header", name |-> "Authorization", value |-> login.id]
OnOAuthComplete(login) ==
    /\ IF login.token = tokenName
       THEN view' = [o \in DOMAIN view |-> Icons(o)] /\ api' = Held(api, Bearer(login))
       ELSE UNCHANGED <<view, api>>
    /\ IF login.token = tokenName \/ login.undisturbed
       THEN /\ must' = With(must, login.scheme, IF login.undisturbed THEN login.id ELSE NoCredential)
            /\ lastGrant' = [undisturbed |-> login.undisturbed, render |-> renders, scopes |-> login.scopes]
       ELSE UNCHANGED <<must, lastGrant>>
    /\ UNCHANGED <<shown, renders, message, net, acts, apiKey, ended>>

(***************************************************************************)
(* A window comes back to o2c.html, with a token, a code or an error.  The *)
(* page is not asked which login it was: when tokenUrl is set the answer   *)
(* is taken for a code and posted there, else for a token.  An error sends *)
(* the post as well; without one it only raises an alert.                  *)
(***************************************************************************)
WindowReturns(w, granted) ==
    /\ w \in windows /\ windows' = windows \ {w}
    /\ IF tokenUrl # ""
       THEN /\ posts' = posts \cup {[w EXCEPT !.code = granted /\ w.flow = "accessCode" /\ tokenUrl = w.scheme]}
            /\ UNCHANGED <<uvars, lastGrant>>
       ELSE /\ UNCHANGED posts
            /\ IF granted /\ w.flow = "implicit" THEN OnOAuthComplete(w)
               ELSE UNCHANGED <<uvars, lastGrant>>
    /\ UNCHANGED <<dialog, enabledScopes, tokenUrl, tokenName>>

\* the token endpoint answers: with a token, or with an error
PostAnswered(p, granted) ==
    /\ p \in posts /\ posts' = posts \ {p}
    /\ granted => p.code
    /\ IF granted THEN OnOAuthComplete(p) ELSE UNCHANGED <<uvars, lastGrant>>
    /\ UNCHANGED <<dialog, enabledScopes, tokenUrl, tokenName, windows>>

(***************************************************************************)
(* handleLogout: a click on an access icon that is on, or on any           *)
(* information panel.  The newest client forgets every credential, the API *)
(* key included; logins that are under way are not stopped.  An info icon  *)
(* that was satisfied stays so.                                            *)
(***************************************************************************)
LoggedOut(v) == [v EXCEPT !.access = "off",
                          !.info = IF "warning" \in @ THEN (@ \ {"warning"}) \cup {"error"} ELSE @]
HandleLogout(o) ==
    /\ Act /\ HasPanel(o)
    /\ api' = [api EXCEPT ![Newest].authz = <<>>]
    /\ view' = [p \in DOMAIN view |-> LoggedOut(view[p])]
    /\ enabledScopes' = NullScopes
    /\ windows' = Disturb(windows) /\ posts' = Disturb(posts)
    /\ must' = <<>> /\ lastGrant' = NoGrant
    /\ UNCHANGED <<shown, renders, message, net, apiKey, ended, dialog, tokenUrl, tokenName>>

Ui == /\ \/ \E url \in DOMAIN Descriptions : Load(url)
         \/ \E k \in DOMAIN api, outcome \in {"built", "failed"} : EndLoad(k, outcome)
         \/ \E key \in Keys \cup {NoKey} : TypeKey(key)
         \/ \E o \in DOMAIN view, fill \in Fills : fill.o = o /\ Submit(o, fill)
         \/ \E q \in net, a \in Answers : Answer(q, a[1], a[2])
      /\ UNCHANGED ovars

Oauth == \/ \E o \in DOMAIN view : HandleLogin(o) \/ HandleLogout(o)
         \/ \E picked \in SUBSET dialog : Authorize(picked)
         \/ Cancel
         \/ \E w \in windows, granted \in BOOLEAN : WindowReturns(w, granted)
         \/ \E p \in posts, granted \in BOOLEAN : PostAnswered(p, granted)

Next == Ui \/ Oauth

(***************************************************************************)
(* Fairness: the browser ends every request of a form; nobody need sign    *)
(* in, reload or submit, and a load may be lost.  AnswerFair is weak       *)
(* fairness of Answering, with its enabling condition written out.         *)
(***************************************************************************)
Answering == UNCHANGED ovars /\ \E q \in net, a \in Answers : Answer(q, a[1], a[2])
AnswerFair == []<>(net = {}) \/ []<><<Answering>>_vars
Spec == Init /\ [][Next]_vars /\ AnswerFair
-----------------------------------------------------------------------------
(***************************************************************************)
(* What is on the page is the newest client's.  When no load is under way  *)
(* and the newest was the last to end, the page shows its description and  *)
(* no message, or its failure and no description.                          *)
(***************************************************************************)
PageTellsNewest ==
    /\ shown # 0 => shown = Newest /\ Client.state = "built"
                    /\ DOMAIN view = DOMAIN Descriptions[Client.url].operations
    /\ ended = Newest => /\ Client.state = "built" => shown = Newest /\ message = "blank"
                         /\ Client.state = "failed" => shown = 0 /\ message = "failure"

(***************************************************************************)
(* A throbber that turns stands for a request of that view that is still   *)
(* under way; an answer that is shown was the answer to a request of that  *)
(* view, and is not under way.                                             *)
(***************************************************************************)
ThrobberTells ==
    \A o \in DOMAIN view :
        /\ view[o].throbber => \E q \in net : OnPage(q) /\ q.o = o
        /\ view[o].response.to <= view[o].last /\ \A q \in net : q.id # view[o].response.to

RequestedOperation(q) == OperationOf(q.client, q.o)

(***************************************************************************)
(* The curl command under the answer to the last submit repeats that       *)
(* request, with the credentials put on once, if they have not changed     *)
(* since: its path, query and headers, the media types aside.  It has the  *)
(* body and the content type too, the one chosen in the form, unless the   *)
(* form is a file upload, whose form data no command shows, or mixes a     *)
(* body with form fields.                                                  *)
(***************************************************************************)
Plain(op) == ~IsFileUpload(op) /\ ~(HasBody(op) /\ HasFields(op, FALSE))
Without(headers, names) == Restrict(headers, DOMAIN headers \ names)
CurlRepeatsRequest ==
    [][\A q \in net \ net' :
         OnPage(q) /\ view[q.o].last = q.id /\ api[shown].authz = q.authz =>
             LET curl == view'[q.o].response.curl IN
             /\ curl.path = q.request.path /\ curl.query = q.request.query
             /\ Without(curl.headers, {"Accept", "Content-Type"})
                  = Without(q.request.headers, {"Accept", "Content-Type"})
             /\ Plain(RequestedOperation(q)) =>
                  /\ curl.body = q.request.body
                  /\ Without(curl.headers, {"Accept"}) = Without(q.request.headers, {"Accept"})]_vars

(***************************************************************************)
(* A credential that was given is kept over every reload until a logout,   *)
(* and the requests of the operations that ask for it carry it; a request  *)
(* of an operation with declared security carries no token of another      *)
(* scheme.  (A login whose globals another one changed is not counted.)    *)
(***************************************************************************)
Token(q) == IF "Authorization" \in DOMAIN q.request.headers THEN q.request.headers["Authorization"]
            ELSE NoCredential
CarriesGrants(q) ==
    LET security == RequestedOperation(q).security
        known == {s \in security.names \cap DOMAIN q.must : q.must[s] # NoCredential}
    IN  security.declared =>
          /\ \A s \in known \ {"api_key"} : security.names = {s} => Token(q) = q.must[s]
          /\ Token(q) # NoCredential =>
               \E s \in security.names \cap DOMAIN q.must : q.must[s] \in {Token(q), NoCredential}
GrantsKept ==
    /\ \A s \in DOMAIN must : must[s] # NoCredential =>
          \E i \in DOMAIN Client.authz : Client.authz[i].scheme = s /\ Client.authz[i].value = must[s]
    /\ \A q \in net : CarriesGrants(q)

(***************************************************************************)
(* After a login that nothing disturbed, an access icon is on exactly when *)
(* the scopes chosen in that login cover what its operation requires, and  *)
(* the panel warns otherwise, until the page is drawn again.               *)
(***************************************************************************)
IconsTellLastGrant ==
    lastGrant.undisturbed /\ shown # 0 /\ lastGrant.render = renders =>
        \A o \in DOMAIN view : HasPanel(o) =>
            LET covered == OperationOf(shown, o).scopes \subseteq lastGrant.scopes IN
            (view[o].access = "on") = covered /\ ("warning" \in view[o].info) = ~covered

\* The throbbers that turn stop, or leave the page.
Turning == \E o \in DOMAIN view : view[o].throbber
ThrobberStops == Turning ~> ~Turning
=============================================================================
