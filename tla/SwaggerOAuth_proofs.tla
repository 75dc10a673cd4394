-------------------------- MODULE SwaggerOAuth_proofs --------------------------
(***************************************************************************)
(* Proofs about the documentation page with its login, for all             *)
(* descriptions, forms, keys and numbers of what the user does.            *)
(*                                                                         *)
(* PageInv is the invariant of the page, CredentialsAgree that of the      *)
(* credentials, RequestsCarry and RequestsServe those of the requests that *)
(* are under way.  The models fold over sequences: what a fold does is     *)
(* found by looking at the first partial result that is not as it should   *)
(* be, and a first one there is because the subsets of a finite set are    *)
(* well-founded.                                                           *)
(***************************************************************************)
EXTENDS SwaggerOAuth, FiniteSetTheorems, SequenceTheorems, WellFoundedInduction, TLAPS

\* The schemes of all descriptions, and their keys: "api_key" is the page's own.
AllSchemes ==
    UNION {{SchemeList(url)[i] : i \in DOMAIN SchemeList(url)} : url \in DOMAIN Descriptions}
SchemeKeys == {"api_key"} \cup {scheme.key : scheme \in AllSchemes}

Credentials ==
    [scheme : SchemeKeys, type : {"query", "header"}, name : {"api_key", "Authorization"},
     value : Keys \cup Nat]
Distinct(authz) == \A i, j \in DOMAIN authz : authz[i].scheme = authz[j].scheme => i = j
Authorizations == {authz \in Seq(Credentials) : Distinct(authz)}
Clients == [url : DOMAIN Descriptions, state : {"loading", "built", "failed"}, authz : Authorizations]

\* The members of an OperationView.
IsView(v) ==
    /\ DOMAIN v = {"throbber", "map", "last", "response", "access", "info"}
    /\ DOMAIN v.response = {"to", "curl"}
    /\ v.throbber \in BOOLEAN /\ v.last \in Nat /\ v.response.to \in Nat

Logins(n) == [id : 1 .. n, scheme : SchemeKeys, flow : {scheme.flow : scheme \in AllSchemes},
              scopes : SUBSET AllScopes, token : {scheme.token : scheme \in AllSchemes}, undisturbed : BOOLEAN, code : BOOLEAN]

\* The type invariant of the page and of the login.
ApiTypeOK == api \in Seq(Clients) \ {<<>>}
ViewTypeOK == \A o \in DOMAIN view : IsView(view[o]) /\ view[o].last <= acts
OAuthTypeOK ==
    /\ dialog \subseteq AllScopes \X SchemeKeys
    /\ windows \cup posts \subseteq Logins(acts)
    /\ lastGrant.render \in 0 .. renders
PageTypeOK ==
    /\ ApiTypeOK /\ ViewTypeOK /\ OAuthTypeOK
    /\ shown \in 0 .. Newest /\ ended \in 0 .. Newest
    /\ renders \in Nat /\ acts \in Nat /\ apiKey \in Keys \cup {NoKey}
    /\ \A q \in net : q.id \in 1 .. acts /\ q.render \in 0 .. renders

\* No two requests are one, and the views have seen those they sent.
RequestsKnown ==
    /\ \A q, r \in net : q.id = r.id => q = r
    /\ \A q \in net : OnPage(q) => q.o \in DOMAIN view /\ q.id <= view[q.o].last

\* The globals of a login are its own as long as nobody has touched them.
OwnGlobals(w) == w.undisturbed => enabledScopes = w.scopes /\ tokenName = w.token
LoginsUndisturbed == \A w \in windows \cup posts : OwnGlobals(w)

\* The inductive invariant of the page.
PageInv ==
    /\ PageTypeOK /\ RequestsKnown /\ LoginsUndisturbed
    /\ shown = 0 => DOMAIN view = {}
    /\ PageTellsNewest /\ ThrobberTells /\ IconsTellLastGrant

\* What the newest client holds is what was given since the last logout; but for
\* the page's key every credential is a token of the Authorization header.
Agree(authz, m) ==
    /\ DOMAIN m = Schemes(authz)
    /\ \A i \in DOMAIN authz :
          /\ m[authz[i].scheme] \in {authz[i].value, NoCredential}
          /\ authz[i].scheme # "api_key" => authz[i].type = "header"
          /\ authz[i].type = "header" => authz[i].name = "Authorization"
CredentialsAgree == Agree(Client.authz, must)

-----------------------------------------------------------------------------
(***************************************************************************)
(* Induction over the subsets of a finite set: of those for which a fact   *)
(* fails there is one with no smaller one in it.                           *)
(***************************************************************************)
Least(B) == \E T \in B : \A U \in B : ~(U \subseteq T /\ U # T)

LEMMA Minimal ==
  ASSUME NEW n \in Nat, NEW B, B \in SUBSET SUBSET (1 .. n), B # {}
  PROVE  Least(B)
<1> DEFINE S == 1 .. n
<1>1. IsFiniteSet(S) /\ B \in SUBSET SUBSET S
  BY FS_Interval
<1> HIDE DEF S
<1>2. IsWellFoundedOn(StrictSubsetOrdering(S), SUBSET S)
  BY <1>1, FS_StrictSubsetOrderingWellFounded, FS_FiniteSubsetsOfFinite
<1>3. PICK T \in B : \A U \in B : ~(<<U, T>> \in StrictSubsetOrdering(S))
  BY <1>1, <1>2, WFMin
<1> QED
  BY <1>1, <1>3 DEF StrictSubsetOrdering, Least

LEMMA MaxIn ==
  ASSUME NEW n \in Nat, NEW u \in SUBSET (1 .. n), u # {}
  PROVE  Max(u) \in u /\ \A i \in u : i <= Max(u)
<1> DEFINE B == {v \in SUBSET (1 .. n) : v # {} /\ ~\E m \in v : \A i \in v : i <= m}
<1>1. CASE B = {}
  <2>1. \E m \in u : \A i \in u : m >= i
    BY <1>1
  <2> QED
    BY <2>1 DEF Max
<1>2. CASE B # {}
  <2>1. PICK v \in B : \A w \in B : ~(w \subseteq v /\ w # v)
    <3>1. B \in SUBSET SUBSET (1 .. n)
      OBVIOUS
    <3>2. Least(B)
      <4> HIDE DEF B
      <4> QED
        BY <1>2, <3>1, Minimal
    <3> QED
      BY <3>2 DEF Least
  <2>2. PICK x \in v : TRUE
    OBVIOUS
  <2>3. v \ {x} # {}
    BY <2>2
  <2>4. v \ {x} \notin B /\ v \ {x} \in SUBSET (1 .. n)
    BY <2>1, <2>2
  <2>5. PICK m \in v \ {x} : \A i \in v \ {x} : i <= m
    BY <2>3, <2>4
  <2>6. \A i \in v : i <= IF x <= m THEN m ELSE x
    BY <2>2, <2>5
  <2> QED
    BY <2>2, <2>5, <2>6
<1> QED
  BY <1>1, <1>2

LEMMA MaxInterval ==
  ASSUME NEW n \in Nat \ {0}
  PROVE  Max(1 .. n) = n
<1> DEFINE u == 1 .. n
<1>1. u \in SUBSET (1 .. n) /\ u # {} /\ n \in u /\ \A i \in u : i <= n /\ i \in Nat
  OBVIOUS
<1> HIDE DEF u
<1>2. Max(u) \in u /\ \A i \in u : i <= Max(u)
  BY <1>1, MaxIn
<1>3. Max(u) \in Nat /\ Max(u) <= n /\ n <= Max(u)
  BY <1>1, <1>2
<1>4. Max(u) = n
  BY <1>3
<1> QED
  BY <1>4 DEF u

(***************************************************************************)
(* What FoldLeft makes of a sequence, for the three folds of the models:   *)
(* the result of the elements so far, one after the other.                 *)
(***************************************************************************)
FoldStep(kind, arg, acc, x) ==
    IF kind = "add" THEN Add(acc, x)
    ELSE IF kind = "apply" THEN ApplyIf(arg, acc, x)
    ELSE Queried(arg, acc, x)
FoldTerm(kind, arg, base, s, g, u) ==
    IF u = {} THEN base ELSE FoldStep(kind, arg, g[u \ {Max(u)}], s[Max(u)])
IsFold(kind, arg, base, s, S, g) == g = [u \in SUBSET S |-> FoldTerm(kind, arg, base, s, g, u)]

Within(S, n) == S \in SUBSET (1 .. n)

LEMMA FoldUnique ==
  ASSUME NEW kind, NEW arg, NEW base, NEW s, NEW n \in Nat,
         NEW S, NEW T, Within(S, n), Within(T, n), NEW g, NEW h,
         IsFold(kind, arg, base, s, S, g), IsFold(kind, arg, base, s, T, h)
  PROVE  \A u \in (SUBSET S) \cap (SUBSET T) : g[u] = h[u]
<1> USE DEF Within
<1> DEFINE B == {u \in (SUBSET S) \cap (SUBSET T) : g[u] # h[u]}
<1> SUFFICES ASSUME B # {} PROVE FALSE
  OBVIOUS
<1>1. PICK u \in B : \A v \in B : ~(v \subseteq u /\ v # u)
  <2>1. B \in SUBSET SUBSET (1 .. n)
    OBVIOUS
  <2>2. Least(B)
    <3> HIDE DEF B
    <3> QED
      BY <2>1, Minimal
  <2> QED
    BY <2>2 DEF Least
<1>2. /\ g[u] = FoldTerm(kind, arg, base, s, g, u)
      /\ h[u] = FoldTerm(kind, arg, base, s, h, u)
  BY DEF IsFold
<1>3. u # {}
  BY <1>2 DEF FoldTerm
<1>4. Max(u) \in u
  BY <1>3, MaxIn
<1>5. u \ {Max(u)} \notin B
  BY <1>1, <1>4
<1> QED
  BY <1>2, <1>4, <1>5 DEF FoldTerm

LEMMA FoldExists ==
  ASSUME NEW kind, NEW arg, NEW base, NEW s, NEW n \in Nat
  PROVE  \E g : IsFold(kind, arg, base, s, 1 .. n, g)
<1> DEFINE B == {S \in SUBSET (1 .. n) : ~\E g : IsFold(kind, arg, base, s, S, g)}
<1> SUFFICES ASSUME B # {} PROVE FALSE
  OBVIOUS
<1>1. PICK S \in B : \A T \in B : ~(T \subseteq S /\ T # S)
  <2>1. B \in SUBSET SUBSET (1 .. n)
    OBVIOUS
  <2>2. Least(B)
    <3> HIDE DEF B
    <3> QED
      BY <2>1, Minimal
  <2> QED
    BY <2>2 DEF Least
<1> DEFINE part(u) == CHOOSE g : IsFold(kind, arg, base, s, u, g)
           val(u) == FoldTerm(kind, arg, base, s, part(u \ {Max(u)}), u)
           G == [u \in SUBSET S |-> val(u)]
<1>2. \A u \in SUBSET S : u # S => IsFold(kind, arg, base, s, u, part(u))
  BY <1>1
<1>3. \A u \in SUBSET S : u # {} => Max(u) \in u
  BY MaxIn
<1>4. \A u \in SUBSET S : val(u) = FoldTerm(kind, arg, base, s, G, u)
  <2> SUFFICES ASSUME NEW u \in SUBSET S PROVE val(u) = FoldTerm(kind, arg, base, s, G, u)
    OBVIOUS
  <2>e. CASE u = {}
    BY <2>e DEF FoldTerm
  <2> SUFFICES ASSUME u # {}
               PROVE  part(u \ {Max(u)})[u \ {Max(u)}] = G[u \ {Max(u)}]
    BY <2>e DEF FoldTerm
  <2> DEFINE v == u \ {Max(u)}
  <2>1. v \in SUBSET S /\ v # S
    BY <1>3
  <2>2. IsFold(kind, arg, base, s, v, part(v))
    BY <2>1, <1>2
  <2>3. part(v)[v] = FoldTerm(kind, arg, base, s, part(v), v)
    BY <2>2 DEF IsFold
  <2>4. G[v] = FoldTerm(kind, arg, base, s, part(v \ {Max(v)}), v)
    BY <2>1
  <2>5. CASE v = {}
    BY <2>3, <2>4, <2>5 DEF FoldTerm
  <2>6. CASE v # {}
    <3> DEFINE w == v \ {Max(v)}
    <3>1. w \in SUBSET S /\ w # S /\ w \subseteq v
      BY <2>1, <2>6, <1>3
    <3>2. IsFold(kind, arg, base, s, w, part(w))
      BY <3>1, <1>2
    <3>3. part(v)[w] = part(w)[w]
      <4>1. w \in (SUBSET v) \cap (SUBSET w)
        BY <3>1
      <4>2. Within(v, n) /\ Within(w, n)
        BY <2>1, <3>1 DEF Within
      <4> DEFINE pv == part(v)
                 pw == part(w)
      <4>3. IsFold(kind, arg, base, s, v, pv) /\ IsFold(kind, arg, base, s, w, pw)
        BY <2>2, <3>2
      <4> HIDE DEF pv, pw, v, w
      <4>4. \A x \in (SUBSET v) \cap (SUBSET w) : pv[x] = pw[x]
        BY <4>2, <4>3, FoldUnique
      <4> QED
        BY <4>1, <4>4 DEF pv, pw
    <3> QED
      BY <2>3, <2>4, <2>6, <3>3 DEF FoldTerm
  <2> QED
    BY <2>5, <2>6
<1>5. IsFold(kind, arg, base, s, S, G)
  BY <1>4 DEF IsFold
<1> QED
  BY <1>5

\* The partial results.
IsChain(kind, arg, base, s, F) ==
    /\ F[0] = base
    /\ \A k \in 1 .. Len(s) : F[k] = FoldStep(kind, arg, F[k - 1], s[k])

LEMMA FoldChain ==
  ASSUME NEW kind, NEW arg, NEW base, NEW s, NEW g, Len(s) \in Nat,
         IsFold(kind, arg, base, s, 1 .. Len(s), g)
  PROVE  \E F : IsChain(kind, arg, base, s, F) /\ g[1 .. Len(s)] = F[Len(s)]
<1> DEFINE F == [k \in 0 .. Len(s) |-> g[1 .. k]]
<1>1. F[0] = base
  <2>1. (1 .. 0) = {} /\ {} \in SUBSET (1 .. Len(s))
    OBVIOUS
  <2> QED
    BY <2>1 DEF IsFold, FoldTerm
<1>2. ASSUME NEW k \in 1 .. Len(s) PROVE F[k] = FoldStep(kind, arg, F[k - 1], s[k])
  <2>1. (1 .. k) \in SUBSET (1 .. Len(s)) /\ (1 .. k) # {}
    OBVIOUS
  <2>2. Max(1 .. k) = k
    BY MaxInterval
  <2>3. (1 .. k) \ {k} = 1 .. (k - 1)
    OBVIOUS
  <2>4. g[1 .. k] = FoldStep(kind, arg, g[1 .. (k - 1)], s[k])
    BY <2>1, <2>2, <2>3 DEF IsFold, FoldTerm
  <2> QED
    BY <2>4
<1>3. g[1 .. Len(s)] = F[Len(s)]
  OBVIOUS
<1> HIDE DEF F
<1> QED
  BY <1>1, <1>2, <1>3 DEF IsChain

LEMMA CopiedChain ==
  ASSUME NEW s, Len(s) \in Nat, DOMAIN s = 1 .. Len(s)
  PROVE  \E F : IsChain("add", <<>>, <<>>, s, F) /\ Copied(s) = F[Len(s)]
<1> DEFINE P(g) == g = [u \in SUBSET DOMAIN s |->
                          IF u = {} THEN <<>> ELSE Add(g[u \ {Max(u)}], s[Max(u)])]
<1>1. Copied(s) = (CHOOSE g : P(g))[DOMAIN s]
  BY DEF Copied, FoldLeft, MapThenFoldSet
<1>2. \A g : P(g) <=> IsFold("add", <<>>, <<>>, s, DOMAIN s, g)
  BY DEF IsFold, FoldTerm, FoldStep
<1> HIDE DEF P
<1>3. \E g : P(g)
  BY <1>2, FoldExists
<1> DEFINE g == CHOOSE g : P(g)
<1>4. IsFold("add", <<>>, <<>>, s, 1 .. Len(s), g) /\ Copied(s) = g[1 .. Len(s)]
  BY <1>1, <1>2, <1>3
<1> HIDE DEF g
<1> QED
  BY <1>4, FoldChain

LEMMA ApplyChain ==
  ASSUME NEW security, NEW request, NEW s, Len(s) \in Nat, DOMAIN s = 1 .. Len(s)
  PROVE  \E F : IsChain("apply", security, request, s, F) /\ Apply(request, s, security) = F[Len(s)]
<1> DEFINE P(g) == g = [u \in SUBSET DOMAIN s |->
                          IF u = {} THEN request
                          ELSE ApplyIf(security, g[u \ {Max(u)}], s[Max(u)])]
<1>1. Apply(request, s, security) = (CHOOSE g : P(g))[DOMAIN s]
  BY DEF Apply, FoldLeft, MapThenFoldSet
<1>2. \A g : P(g) <=> IsFold("apply", security, request, s, DOMAIN s, g)
  BY DEF IsFold, FoldTerm, FoldStep
<1> HIDE DEF P
<1>3. \E g : P(g)
  BY <1>2, FoldExists
<1> DEFINE g == CHOOSE g : P(g)
<1>4. IsFold("apply", security, request, s, 1 .. Len(s), g) /\ Apply(request, s, security) = g[1 .. Len(s)]
  BY <1>1, <1>2, <1>3
<1> HIDE DEF g
<1> QED
  BY <1>4, FoldChain

LEMMA LeastIn ==
  ASSUME NEW n \in Nat, NEW B \in SUBSET (1 .. n), B # {}
  PROVE  \E k \in B : \A i \in B : k <= i
<1> DEFINE C == {n + 1 - i : i \in B}
<1>1. C \in SUBSET (1 .. n) /\ C # {} /\ \A i \in B : n + 1 - i \in C
  <2>1. \A i \in B : n + 1 - i \in 1 .. n
    OBVIOUS
  <2> QED
    BY <2>1
<1>2. PICK i \in B : Max(C) = n + 1 - i
  <2> HIDE DEF C
  <2>1. Max(C) \in C
    BY <1>1, MaxIn
  <2> QED
    BY <2>1 DEF C
<1>3. \A j \in C : j <= Max(C)
  <2> HIDE DEF C
  <2> QED
    BY <1>1, MaxIn
<1>4. ASSUME NEW j \in B PROVE i <= j
  <2>1. n + 1 - j <= n + 1 - i
    BY <1>1, <1>2, <1>3
  <2> QED
    BY <2>1
<1> QED
  BY <1>4

-----------------------------------------------------------------------------
(***************************************************************************)
(* The credentials of a client.                                            *)
(***************************************************************************)
LEMMA CopiedSame ==
  ASSUME NEW s \in Authorizations
  PROVE  Copied(s) = s
<1>1. s \in Seq(Credentials) /\ Len(s) \in Nat /\ DOMAIN s = 1 .. Len(s)
  BY LenProperties DEF Authorizations
<1>2. PICK F : IsChain("add", <<>>, <<>>, s, F) /\ Copied(s) = F[Len(s)]
  BY <1>1, CopiedChain
<1> DEFINE B == {k \in 1 .. Len(s) : F[k] # SubSeq(s, 1, k)}
<1>3. F[0] = SubSeq(s, 1, 0)
  BY <1>2, SubSeqEmpty DEF IsChain
<1>4. B = {}
  <2> SUFFICES ASSUME B # {} PROVE FALSE
    OBVIOUS
  <2>1. PICK k \in B : \A i \in B : k <= i
    <3>1. B \in SUBSET (1 .. Len(s))
      OBVIOUS
    <3> HIDE DEF B
    <3> QED
      BY <1>1, <3>1, LeastIn
  <2>2. k \in 1 .. Len(s) /\ k - 1 \in 0 .. Len(s)
    BY <1>1
  <2>3. F[k - 1] = SubSeq(s, 1, k - 1)
    <3>1. CASE k = 1
      BY <1>3, <3>1
    <3>2. CASE k # 1
      <4>1. k - 1 \in 1 .. Len(s) /\ ~(k <= k - 1)
        BY <1>1, <2>2, <3>2
      <4> QED
        BY <2>1, <4>1
    <3> QED
      BY <3>1, <3>2
  <2>4. F[k] = Add(F[k - 1], s[k])
    BY <1>2, <2>2 DEF IsChain, FoldStep
  <2> DEFINE t == SubSeq(s, 1, k - 1)
  <2>5. t \in Seq(Credentials) /\ Len(t) = k - 1 /\ \A i \in 1 .. k - 1 : t[i] = s[i]
    <3>1. \A i \in 1 .. k - 1 : s[i] \in Credentials
      BY <1>1, <2>2, ElementOfSeq
    <3> QED
      BY <1>1, <2>2, <3>1, SubSeqProperties
  <2>6. DOMAIN t = 1 .. k - 1
    BY <2>5, LenProperties
  <2>7. s[k].scheme \notin Schemes(t)
    BY <1>1, <2>2, <2>5, <2>6 DEF Schemes, Authorizations, Distinct
  <2>8. F[k] = Append(t, s[k])
    <3> HIDE DEF t
    <3>1. F[k - 1] = t
      BY <2>3 DEF t
    <3> QED
      BY <2>4, <2>7, <3>1 DEF Add
  <2>9. Append(t, s[k]) = t \o <<s[k]>>
    <3>1. s[k] \in Credentials
      BY <1>1, <2>2, ElementOfSeq
    <3> QED
      BY <2>5, <3>1, AppendIsConcat
  <2>10. SubSeq(s, 1, k) = t \o <<s[k]>>
    BY <1>1, <2>2, SubSeqRecursiveSecond
  <2> QED
    BY <2>1, <2>8, <2>9, <2>10
<1>5. F[Len(s)] = SubSeq(s, 1, Len(s))
  BY <1>1, <1>3, <1>4
<1> QED
  BY <1>1, <1>2, <1>5, SubSeqFull

\* The credentials after one is added: that one, and the others as they were.
AddedTo(authz, auth, new) ==
    /\ new \in Authorizations
    /\ Schemes(new) = Schemes(authz) \cup {auth.scheme}
    /\ \A i \in DOMAIN new :
          \/ new[i] = auth
          \/ new[i].scheme # auth.scheme /\ \E j \in DOMAIN authz : new[i] = authz[j]

LEMMA AddType ==
  ASSUME NEW authz \in Authorizations, NEW auth \in Credentials
  PROVE  AddedTo(authz, auth, Add(authz, auth))
<1> DEFINE n == Len(authz)
           new == Add(authz, auth)
<1>1. authz \in Seq(Credentials) /\ n \in Nat /\ DOMAIN authz = 1 .. n /\ Distinct(authz)
      /\ \A i \in 1 .. n : authz[i] \in Credentials
  BY LenProperties, ElementOfSeq DEF Authorizations
<1>2. CASE auth.scheme \in Schemes(authz)
  <2>1. new = [i \in 1 .. n |-> IF authz[i].scheme = auth.scheme THEN auth ELSE authz[i]]
    BY <1>1, <1>2 DEF Add
  <2>2. new \in Seq(Credentials) /\ DOMAIN new = 1 .. n
    <3>1. new \in [1 .. n -> Credentials]
      BY <1>1, <2>1
    <3> HIDE DEF new
    <3> QED
      BY <1>1, <3>1
  <2>3. \A i \in 1 .. n : new[i] = IF authz[i].scheme = auth.scheme THEN auth ELSE authz[i]
    BY <2>1
  <2> HIDE DEF new, n
  <2>4. \A i \in 1 .. n : new[i].scheme = authz[i].scheme
    BY <2>3
  <2>5. Distinct(new)
    BY <1>1, <2>2, <2>4 DEF Distinct
  <2>6. Schemes(new) = Schemes(authz) \cup {auth.scheme}
    BY <1>1, <1>2, <2>2, <2>4 DEF Schemes
  <2> QED
    BY <1>1, <2>2, <2>3, <2>5, <2>6 DEF AddedTo, Authorizations, new
<1>3. CASE auth.scheme \notin Schemes(authz)
  <2>1. new = Append(authz, auth)
    BY <1>3 DEF Add
  <2>2. new \in Seq(Credentials) /\ Len(new) = n + 1 /\ new[n + 1] = auth
        /\ \A i \in 1 .. n : new[i] = authz[i]
    BY <1>1, <2>1, AppendProperties
  <2>3. DOMAIN new = 1 .. n + 1
    <3> HIDE DEF new
    <3> QED
      BY <2>2, LenProperties
  <2> HIDE DEF new, n
  <2>4. \A i \in 1 .. n : authz[i].scheme # auth.scheme
    BY <1>1, <1>3 DEF Schemes
  <2>5. Distinct(new)
    BY <1>1, <2>2, <2>3, <2>4 DEF Distinct
  <2>6. Schemes(new) = Schemes(authz) \cup {auth.scheme}
    BY <1>1, <2>2, <2>3 DEF Schemes
  <2>7. \A i \in DOMAIN new :
          \/ new[i] = auth
          \/ new[i].scheme # auth.scheme /\ \E j \in DOMAIN authz : new[i] = authz[j]
    BY <1>1, <2>2, <2>3, <2>4
  <2> QED
    BY <2>2, <2>5, <2>6, <2>7 DEF AddedTo, Authorizations, new
<1> QED
  BY <1>2, <1>3

\* The history of what was given follows.
LEMMA AddAgrees ==
  ASSUME NEW authz \in Authorizations, NEW auth \in Credentials, NEW m, Agree(authz, m),
         NEW value \in {auth.value, NoCredential},
         auth.scheme # "api_key" => auth.type = "header",
         auth.type = "header" => auth.name = "Authorization"
  PROVE  Agree(Add(authz, auth), With(m, auth.scheme, value))
<1> DEFINE new == Add(authz, auth)
           given == With(m, auth.scheme, value)
<1>1. AddedTo(authz, auth, new)
  BY AddType
<1>2. /\ DOMAIN given = DOMAIN m \cup {auth.scheme}
      /\ given[auth.scheme] = value
      /\ \A x \in DOMAIN m : x # auth.scheme => given[x] = m[x]
  BY DEF With
<1> HIDE DEF new, given
<1>3. DOMAIN given = Schemes(new)
  BY <1>1, <1>2 DEF AddedTo, Agree
<1>4. ASSUME NEW i \in DOMAIN new
      PROVE  /\ given[new[i].scheme] \in {new[i].value, NoCredential}
             /\ new[i].scheme # "api_key" => new[i].type = "header"
             /\ new[i].type = "header" => new[i].name = "Authorization"
  <2>1. CASE new[i] = auth
    BY <1>2, <2>1
  <2>2. CASE new[i].scheme # auth.scheme /\ \E j \in DOMAIN authz : new[i] = authz[j]
    <3>1. PICK j \in DOMAIN authz : new[i] = authz[j]
      BY <2>2
    <3>2. authz[j].scheme \in DOMAIN m
      BY DEF Agree, Schemes
    <3> QED
      BY <1>2, <2>2, <3>1, <3>2 DEF Agree
  <2> QED
    BY <1>1, <2>1, <2>2 DEF AddedTo
<1> QED
  BY <1>3, <1>4 DEF Agree, new, given

-----------------------------------------------------------------------------
(***************************************************************************)
(* The clients: none is taken away, and of the others a step changes no    *)
(* more than the credentials and, when its load ends, the state of one.    *)
(***************************************************************************)
SameClients(c, d) ==
    Len(d) = Len(c) /\ \A k \in 1 .. Len(c) : d[k].url = c[k].url /\ d[k].state = c[k].state

LEMMA NewestType ==
  ASSUME ApiTypeOK
  PROVE  /\ Newest \in Nat \ {0} /\ DOMAIN api = 1 .. Newest /\ Newest \in 1 .. Newest
         /\ \A k \in 1 .. Newest : api[k] \in Clients
<1>1. api \in Seq(Clients) /\ api # <<>>
  BY DEF ApiTypeOK
<1>2. Len(api) \in Nat \ {0}
  BY <1>1, EmptySeq
<1>3. DOMAIN api = 1 .. Len(api) /\ \A k \in 1 .. Len(api) : api[k] \in Clients
  BY <1>1, LenProperties, ElementOfSeq
<1> QED
  BY <1>2, <1>3 DEF Newest

LEMMA HeldType ==
  ASSUME ApiTypeOK, NEW clients \in Seq(Clients), Len(clients) = Newest, NEW auth \in Credentials
  PROVE  /\ Held(clients, auth) \in Seq(Clients) \ {<<>>}
         /\ SameClients(clients, Held(clients, auth))
         /\ Held(clients, auth)[Newest].authz = Add(clients[Newest].authz, auth)
<1> DEFINE c == clients[Newest]
           d == [c EXCEPT !.authz = Add(c.authz, auth)]
<1>1. Newest \in 1 .. Len(clients) /\ Newest \in Nat
  BY NewestType
<1>2. c \in Clients
  BY <1>1, ElementOfSeq
<1>3. Add(c.authz, auth) \in Authorizations
  BY <1>2, AddType DEF AddedTo, Clients
<1>4. d \in Clients /\ d.url = c.url /\ d.state = c.state /\ d.authz = Add(c.authz, auth)
  BY <1>2, <1>3 DEF Clients
<1>5. Held(clients, auth) = [clients EXCEPT ![Newest] = d]
  BY DEF Held
<1> HIDE DEF d
<1>6. /\ Held(clients, auth) \in Seq(Clients)
      /\ Len(Held(clients, auth)) = Len(clients)
      /\ \A j \in 1 .. Len(clients) : Held(clients, auth)[j] = IF j = Newest THEN d ELSE clients[j]
  BY <1>1, <1>4, <1>5, ExceptSeq
<1>7. Held(clients, auth) # <<>>
  BY <1>1, <1>6, EmptySeq
<1> QED
  BY <1>1, <1>4, <1>6, <1>7 DEF SameClients

LEMMA AddApiKeyType ==
  ASSUME ApiTypeOK, NEW clients \in Seq(Clients) \ {<<>>}, Len(clients) = Newest,
         NEW key \in Keys \cup {NoKey}, AddApiKey(clients, key)
  PROVE  /\ api' \in Seq(Clients) \ {<<>>}
         /\ SameClients(clients, api')
         /\ Agree(clients[Newest].authz, must) => Agree(api'[Newest].authz, must')
<1>1. CASE key = NoKey
  <2>1. api' = clients /\ must' = must
    BY <1>1 DEF AddApiKey
  <2> QED
    BY <2>1 DEF SameClients
<1>2. CASE key # NoKey
  <2> DEFINE auth == ApiKeyAuth(key)
  <2>1. auth \in Credentials /\ auth.scheme = "api_key" /\ auth.type = "query" /\ auth.value = key
    BY <1>2 DEF ApiKeyAuth, Credentials, SchemeKeys
  <2>2. api' = Held(clients, auth) /\ must' = With(must, auth.scheme, key)
    BY <1>2, <2>1 DEF AddApiKey
  <2> HIDE DEF auth
  <2>3. /\ api' \in Seq(Clients) \ {<<>>}
        /\ SameClients(clients, api')
        /\ api'[Newest].authz = Add(clients[Newest].authz, auth)
    BY <2>1, <2>2, HeldType
  <2>4. clients[Newest].authz \in Authorizations
    <3>1. Newest \in 1 .. Len(clients)
      BY NewestType
    <3>2. clients[Newest] \in Clients
      BY <3>1, ElementOfSeq
    <3> QED
      BY <3>2 DEF Clients
  <2>5. Agree(clients[Newest].authz, must) => Agree(api'[Newest].authz, must')
    BY <2>1, <2>2, <2>3, <2>4, AddAgrees
  <2> QED
    BY <2>3, <2>5
<1> QED
  BY <1>1, <1>2

\* A load makes a client with the credentials of the last one.
LEMMA LoadClients ==
  ASSUME ApiTypeOK, NEW url \in DOMAIN Descriptions, Load(url)
  PROVE  /\ api' \in Seq(Clients) \ {<<>>}
         /\ Len(api') = Newest + 1
         /\ \A k \in 1 .. Newest : api'[k] = api[k]
         /\ api'[Newest + 1] = [url |-> url, state |-> "loading", authz |-> Client.authz]
<1>1. Client.authz \in Authorizations
  BY NewestType DEF Client, Clients
<1> DEFINE c == [url |-> url, state |-> "loading", authz |-> Client.authz]
<1>2. NewClient(url, Client.authz) = c
  BY <1>1, CopiedSame DEF NewClient
<1>3. c \in Clients
  BY <1>1 DEF Clients
<1>4. api' = Append(api, c) /\ api \in Seq(Clients)
  BY <1>2 DEF Load, ApiTypeOK
<1> HIDE DEF c
<1>5. /\ api' \in Seq(Clients) /\ api' # <<>>
      /\ Len(api') = Len(api) + 1
      /\ \A k \in 1 .. Len(api) : api'[k] = api[k]
      /\ api'[Len(api) + 1] = c
  BY <1>3, <1>4, AppendProperties
<1> QED
  BY <1>5 DEF Newest, c

\* The clients when one has ended, before its callback.
Ended(k, outcome) == [api EXCEPT ![k].state = outcome]

LEMMA EndedClients ==
  ASSUME ApiTypeOK, NEW k \in DOMAIN api, NEW outcome \in {"built", "failed"}
  PROVE  /\ Ended(k, outcome) \in Seq(Clients) \ {<<>>}
         /\ Len(Ended(k, outcome)) = Newest
         /\ Ended(k, outcome)[k].state = outcome
         /\ \A j \in 1 .. Newest :
              /\ Ended(k, outcome)[j].url = api[j].url /\ Ended(k, outcome)[j].authz = api[j].authz
              /\ j # k => Ended(k, outcome)[j].state = api[j].state
<1> DEFINE c == api[k]
           d == [c EXCEPT !.state = outcome]
<1>1. Newest \in Nat \ {0} /\ k \in 1 .. Len(api) /\ c \in Clients /\ api \in Seq(Clients)
  BY NewestType DEF Newest, ApiTypeOK
<1>2. d \in Clients /\ d.url = c.url /\ d.authz = c.authz /\ d.state = outcome
  BY <1>1 DEF Clients
<1>3. Ended(k, outcome) = [api EXCEPT ![k] = d]
  BY DEF Ended
<1> HIDE DEF d
<1>4. /\ Ended(k, outcome) \in Seq(Clients)
      /\ Len(Ended(k, outcome)) = Len(api)
      /\ \A j \in 1 .. Len(api) : Ended(k, outcome)[j] = IF j = k THEN d ELSE api[j]
  BY <1>1, <1>2, <1>3, ExceptSeq
<1>5. Ended(k, outcome) # <<>>
  BY <1>1, <1>4, EmptySeq DEF Newest
<1> QED
  BY <1>1, <1>2, <1>4, <1>5 DEF Newest

-----------------------------------------------------------------------------
(***************************************************************************)
(* The views.                                                              *)
(***************************************************************************)
SameWork(v, w) == w.throbber = v.throbber /\ w.last = v.last /\ w.response.to = v.response.to
SameIcons(v, w) == w.access = v.access /\ w.info = v.info

LEMMA FreshViewType ==
  IsView(FreshView) /\ ~FreshView.throbber /\ FreshView.last = 0 /\ FreshView.response.to = 0
  BY DEF IsView, FreshView, NoResponse

LEMMA ShowStatusView ==
  ASSUME NEW v, IsView(v), NEW id \in Nat
  PROVE  /\ IsView(ShowStatus(v, id)) /\ SameIcons(v, ShowStatus(v, id))
         /\ ~ShowStatus(v, id).throbber /\ ShowStatus(v, id).response.to = id
         /\ ShowStatus(v, id).last = v.last
  BY DEF IsView, ShowStatus, SameIcons

LEMMA NewCurlView ==
  ASSUME NEW v, IsView(v), NEW curl
  PROVE  /\ IsView([v EXCEPT !.response.curl = curl])
         /\ SameWork(v, [v EXCEPT !.response.curl = curl])
         /\ SameIcons(v, [v EXCEPT !.response.curl = curl])
  BY DEF IsView, SameWork, SameIcons

\* What an answer does to a view.
Answered(v, w, id) ==
    IsView(w) /\ SameIcons(v, w) /\ ~w.throbber /\ w.response.to = id /\ w.last = v.last

LEMMA AnsweredView ==
  ASSUME NEW v, IsView(v), NEW id \in Nat, NEW o, NEW accept
  PROVE  /\ Answered(v, ShowCompleteStatus(v, id, o, accept), id)
         /\ Answered(v, ShowErrorStatus(v, id, o, accept), id)
         /\ Answered(v, ShowNoCurl(ShowStatus(v, id), o), id)
<1> DEFINE w == ShowStatus(v, id)
<1>1. /\ IsView(w) /\ SameIcons(v, w) /\ ~w.throbber /\ w.response.to = id /\ w.last = v.last
  BY ShowStatusView
<1> HIDE DEF w
<1>2. \A curl : Answered(v, [w EXCEPT !.response.curl = curl], id)
  BY <1>1, NewCurlView DEF Answered, SameWork, SameIcons
<1>3. Answered(v, w, id)
  BY <1>1 DEF Answered
<1>4. Answered(v, ShowCurl(w, o, accept), id)
  BY <1>2 DEF ShowCurl
<1>5. Answered(v, ShowNoCurl(w, o), id)
  BY <1>2, <1>3 DEF ShowNoCurl
<1> QED
  BY <1>4, <1>5 DEF ShowCompleteStatus, ShowErrorStatus, w

LEMMA IconsView ==
  ASSUME NEW o, IsView(view[o])
  PROVE  /\ IsView(Icons(o)) /\ SameWork(view[o], Icons(o))
         /\ HasPanel(o) => /\ (Icons(o).access = "on") = (Missing(o) = {})
                           /\ ("warning" \in Icons(o).info) = (Missing(o) # {})
<1>1. CASE ~HasPanel(o)
  BY <1>1 DEF Icons, SameWork
<1>2. CASE HasPanel(o) /\ Missing(o) # {}
  BY <1>2 DEF Icons, SameWork, IsView
<1>3. CASE HasPanel(o) /\ Missing(o) = {}
  BY <1>3 DEF Icons, SameWork, IsView
<1> QED
  BY <1>1, <1>2, <1>3

LEMMA LoggedOutView ==
  ASSUME NEW v, IsView(v)
  PROVE  IsView(LoggedOut(v)) /\ SameWork(v, LoggedOut(v))
  BY DEF LoggedOut, IsView, SameWork

-----------------------------------------------------------------------------
(***************************************************************************)
(* Steps that leave the page as it is, but for icons and credentials.      *)
(***************************************************************************)
PageSame ==
    /\ ApiTypeOK' /\ SameClients(api, api')
    /\ UNCHANGED <<shown, renders, message, net, ended>>
    /\ DOMAIN view' = DOMAIN view
    /\ \A o \in DOMAIN view : IsView(view'[o]) /\ SameWork(view[o], view'[o])

LEMMA PageSameKeeps ==
  ASSUME PageInv, PageSame, acts' \in {acts, acts + 1}
  PROVE  /\ ViewTypeOK' /\ RequestsKnown' /\ PageTellsNewest' /\ ThrobberTells'
         /\ shown' = 0 => DOMAIN view' = {}
         /\ shown' \in 0 .. Newest' /\ ended' \in 0 .. Newest' /\ renders' \in Nat /\ acts' \in Nat
         /\ \A q \in net' : q.id \in 1 .. acts' /\ q.render \in 0 .. renders'
<1>1. /\ acts \in Nat /\ renders \in Nat /\ ApiTypeOK
      /\ ViewTypeOK /\ RequestsKnown /\ PageTellsNewest /\ ThrobberTells
      /\ \A q \in net : q.id \in 1 .. acts /\ q.render \in 0 .. renders
      /\ shown \in 0 .. Newest /\ ended \in 0 .. Newest
      /\ shown = 0 => DOMAIN view = {}
  BY DEF PageInv, PageTypeOK
<1>2. Newest \in Nat \ {0} /\ Newest' = Newest /\ \A k \in 1 .. Newest :
         api'[k].url = api[k].url /\ api'[k].state = api[k].state
  BY <1>1, NewestType DEF PageSame, SameClients, Newest
<1>3. Client'.state = Client.state /\ Client'.url = Client.url
  BY <1>2 DEF Client
<1>4. \A q \in net : OnPage(q)' <=> OnPage(q)
  BY DEF OnPage, PageSame
<1>5. ViewTypeOK'
  BY <1>1 DEF ViewTypeOK, PageSame, SameWork, IsView
<1>6. RequestsKnown'
  BY <1>1, <1>4 DEF RequestsKnown, PageSame, SameWork
<1>7. PageTellsNewest'
  BY <1>1, <1>2, <1>3 DEF PageTellsNewest, PageSame
<1>8. ThrobberTells'
  BY <1>1, <1>4 DEF ThrobberTells, PageSame, SameWork
<1> QED
  BY <1>1, <1>2, <1>5, <1>6, <1>7, <1>8 DEF PageSame

LEMMA IconsSameKeep ==
  ASSUME PageInv, Newest' \in Nat, Newest <= Newest',
         \A k \in 1 .. Newest : api'[k].url = api[k].url,
         UNCHANGED <<shown, renders, lastGrant>>, DOMAIN view' = DOMAIN view,
         \A o \in DOMAIN view : SameIcons(view[o], view'[o])
  PROVE  IconsTellLastGrant'
<1>1. shown \in 0 .. Newest /\ Newest \in Nat /\ IconsTellLastGrant
  BY NewestType DEF PageInv, PageTypeOK
<1> SUFFICES ASSUME lastGrant.undisturbed, shown # 0, lastGrant.render = renders,
                    NEW o \in DOMAIN view, HasPanel(o)'
             PROVE  LET covered == OperationOf(shown, o)'.scopes \subseteq lastGrant.scopes IN
                    (view'[o].access = "on") = covered /\ ("warning" \in view'[o].info) = ~covered
  BY DEF IconsTellLastGrant
<1>2. OperationOf(shown, o)' = OperationOf(shown, o)
  BY <1>1 DEF OperationOf
<1>3. HasPanel(o)
  BY <1>2 DEF HasPanel
<1> QED
  BY <1>1, <1>2, <1>3 DEF IconsTellLastGrant, SameIcons

-----------------------------------------------------------------------------
(***************************************************************************)
(* The steps of the page.                                                  *)
(***************************************************************************)
LEMMA LaterLogins ==
  ASSUME PageInv, acts' = acts + 1, UNCHANGED <<dialog, windows, posts, lastGrant, renders>>
  PROVE  OAuthTypeOK'
<1>1. acts \in Nat /\ OAuthTypeOK
  BY DEF PageInv, PageTypeOK
<1>2. Logins(acts) \subseteq Logins(acts + 1)
  BY <1>1 DEF Logins
<1> QED
  BY <1>1, <1>2 DEF OAuthTypeOK

LEMMA TypeKeyStep ==
  ASSUME PageInv, NEW key \in Keys \cup {NoKey}, TypeKey(key), UNCHANGED ovars
  PROVE  PageInv'
<1>1. ApiTypeOK /\ ViewTypeOK /\ acts \in Nat /\ acts' = acts + 1 /\ AddApiKey(api, key)
      /\ UNCHANGED <<shown, renders, view, message, net, ended>> /\ apiKey' = key
  BY DEF PageInv, PageTypeOK, TypeKey, Act
<1>2. ApiTypeOK' /\ SameClients(api, api')
  BY <1>1, AddApiKeyType DEF ApiTypeOK, Newest
<1>3. PageSame
  BY <1>1, <1>2 DEF PageSame, ViewTypeOK, SameWork
<1>4. Newest' = Newest /\ \A k \in 1 .. Newest : api'[k].url = api[k].url
  BY <1>2 DEF SameClients, Newest
<1>5. IconsTellLastGrant'
  BY <1>1, <1>4, IconsSameKeep, NewestType DEF ovars, SameIcons
<1>6. OAuthTypeOK'
  BY <1>1, LaterLogins DEF ovars
<1>7. LoginsUndisturbed'
  BY DEF PageInv, LoginsUndisturbed, OwnGlobals, ovars
<1> QED
  BY <1>1, <1>2, <1>3, <1>5, <1>6, <1>7, PageSameKeeps DEF PageInv, PageTypeOK

LEMMA LoadStep ==
  ASSUME PageInv, NEW url \in DOMAIN Descriptions, Load(url), UNCHANGED ovars
  PROVE  PageInv'
<1>1. /\ ApiTypeOK /\ acts \in Nat /\ renders \in Nat /\ ended \in 0 .. Newest /\ RequestsKnown
      /\ acts' = acts + 1 /\ shown' = 0 /\ view' = <<>>
      /\ UNCHANGED <<renders, net, apiKey, ended>>
      /\ \A q \in net : q.id \in 1 .. acts /\ q.render \in 0 .. renders
  BY DEF PageInv, PageTypeOK, Load, Act
<1>2. ApiTypeOK' /\ Newest' = Newest + 1 /\ Newest \in Nat
  BY <1>1, LoadClients, NewestType DEF ApiTypeOK, Newest
<1>3. DOMAIN view' = {}
  BY <1>1
<1>4. ViewTypeOK' /\ ThrobberTells' /\ IconsTellLastGrant'
  BY <1>1, <1>3 DEF ViewTypeOK, ThrobberTells, IconsTellLastGrant
<1>5. RequestsKnown'
  BY <1>1 DEF RequestsKnown, OnPage
<1>6. PageTellsNewest'
  BY <1>1, <1>2 DEF PageTellsNewest
<1>7. OAuthTypeOK'
  BY <1>1, LaterLogins DEF ovars
<1>8. LoginsUndisturbed'
  BY DEF PageInv, LoginsUndisturbed, OwnGlobals, ovars
<1>9. apiKey' \in Keys \cup {NoKey}
  BY <1>1 DEF PageInv, PageTypeOK
<1>10. PageTypeOK'
  BY <1>1, <1>2, <1>4, <1>7, <1>9 DEF PageTypeOK
<1> QED
  BY <1>3, <1>4, <1>5, <1>6, <1>8, <1>10 DEF PageInv

LEMMA RenderStep ==
  ASSUME PageInv, NEW k \in DOMAIN api, api[k].state = "loading",
         Render(Ended(k, "built")), ended' = k, UNCHANGED <<net, acts, apiKey>>, UNCHANGED ovars
  PROVE  PageInv'
<1> DEFINE clients == Ended(k, "built")
<1>1. /\ ApiTypeOK /\ ViewTypeOK /\ OAuthTypeOK /\ acts \in Nat /\ renders \in Nat /\ shown \in 0 .. Newest
      /\ RequestsKnown /\ PageTellsNewest /\ ThrobberTells /\ IconsTellLastGrant
      /\ apiKey \in Keys \cup {NoKey} /\ (shown = 0 => DOMAIN view = {})
      /\ \A q \in net : q.id \in 1 .. acts /\ q.render \in 0 .. renders
  BY DEF PageInv, PageTypeOK
<1>2. /\ clients \in Seq(Clients) \ {<<>>} /\ Len(clients) = Newest /\ clients[k].state = "built"
      /\ \A j \in 1 .. Newest : /\ clients[j].url = api[j].url
                                /\ j # k => clients[j].state = api[j].state
  BY <1>1, EndedClients
<1>3. Newest \in Nat \ {0} /\ k \in 1 .. Newest
  BY <1>1, NewestType
<1>4. LoginsUndisturbed'
  BY DEF PageInv, LoginsUndisturbed, OwnGlobals, ovars
<1> HIDE DEF clients
<1>5. CASE clients[Newest].state = "built"
  <2>1. /\ shown' = Newest /\ renders' = renders + 1 /\ message' = "blank"
        /\ view' = [o \in DOMAIN Descriptions[clients[Newest].url].operations |-> FreshView]
        /\ AddApiKey(clients, apiKey)
    BY <1>5 DEF Render, clients
  <2>2. api' \in Seq(Clients) \ {<<>>} /\ SameClients(clients, api')
    BY <1>1, <1>2, <2>1, AddApiKeyType
  <2>3. Newest' = Newest /\ Client'.state = "built" /\ Client'.url = clients[Newest].url
    BY <1>2, <1>3, <1>5, <2>2 DEF SameClients, Newest, Client
  <2>4. /\ DOMAIN view' = DOMAIN Descriptions[Client'.url].operations
        /\ \A o \in DOMAIN view' : view'[o] = FreshView
    BY <2>1, <2>3
  <2>5. ViewTypeOK'
    BY <1>1, <2>4, FreshViewType DEF ViewTypeOK
  <2>6. \A q \in net' : ~OnPage(q)'
    BY <1>1, <2>1 DEF OnPage
  <2>7. RequestsKnown'
    BY <1>1, <2>6 DEF RequestsKnown
  <2>8. PageTellsNewest'
    BY <2>1, <2>3, <2>4 DEF PageTellsNewest
  <2>9. ThrobberTells'
    BY <1>1, <2>4, FreshViewType DEF ThrobberTells
  <2>10. IconsTellLastGrant' /\ OAuthTypeOK'
    BY <1>1, <2>1 DEF IconsTellLastGrant, OAuthTypeOK, ovars
  <2>11. ApiTypeOK'
    BY <2>2 DEF ApiTypeOK
  <2>12. PageTypeOK'
    BY <1>1, <1>3, <2>1, <2>3, <2>5, <2>10, <2>11 DEF PageTypeOK
  <2> QED
    BY <1>3, <1>4, <2>1, <2>7, <2>8, <2>9, <2>10, <2>12 DEF PageInv
<1>6. CASE clients[Newest].state # "built"
  <2>1. /\ message' = "rendering" /\ api' = clients
        /\ UNCHANGED <<shown, renders, view, must>>
    BY <1>6 DEF Render, clients
  <2>2. k # Newest /\ Newest' = Newest
    BY <1>2, <1>3, <1>6, <2>1 DEF Newest
  <2>3. shown = 0
    BY <1>1, <1>2, <1>3, <1>6, <2>2 DEF PageTellsNewest, Client
  <2>4. PageTellsNewest'
    BY <2>1, <2>2, <2>3 DEF PageTellsNewest
  <2>5. ViewTypeOK' /\ ThrobberTells' /\ IconsTellLastGrant' /\ RequestsKnown'
    BY <1>1, <2>1, <2>3 DEF ViewTypeOK, ThrobberTells, IconsTellLastGrant, RequestsKnown, OnPage
  <2>6. ApiTypeOK' /\ OAuthTypeOK'
    BY <1>1, <1>2, <2>1 DEF ApiTypeOK, OAuthTypeOK, ovars
  <2>7. PageTypeOK'
    BY <1>1, <1>3, <2>1, <2>2, <2>3, <2>5, <2>6 DEF PageTypeOK
  <2> QED
    BY <1>1, <1>4, <2>1, <2>4, <2>5, <2>7 DEF PageInv
<1> QED
  BY <1>5, <1>6

LEMMA EndLoadStep ==
  ASSUME PageInv, NEW k \in DOMAIN api, NEW outcome \in {"built", "failed"},
         EndLoad(k, outcome), UNCHANGED ovars
  PROVE  PageInv'
<1>1. /\ api[k].state = "loading" /\ ended' = k /\ UNCHANGED <<net, acts, apiKey>>
      /\ IF outcome = "built" THEN Render(Ended(k, outcome))
         ELSE /\ message' = "failure" /\ api' = Ended(k, outcome)
              /\ UNCHANGED <<shown, renders, view, must>>
  BY DEF EndLoad, Ended
<1>2. CASE outcome = "built"
  BY <1>1, <1>2, RenderStep
<1>3. CASE outcome = "failed"
  <2>1. /\ ApiTypeOK /\ ViewTypeOK /\ OAuthTypeOK /\ acts \in Nat /\ renders \in Nat /\ shown \in 0 .. Newest
        /\ RequestsKnown /\ PageTellsNewest /\ ThrobberTells /\ IconsTellLastGrant
        /\ apiKey \in Keys \cup {NoKey} /\ (shown = 0 => DOMAIN view = {})
        /\ \A q \in net : q.id \in 1 .. acts /\ q.render \in 0 .. renders
    BY DEF PageInv, PageTypeOK
  <2>2. /\ api' \in Seq(Clients) \ {<<>>} /\ Len(api') = Newest /\ api'[k].state = "failed"
        /\ \A j \in 1 .. Newest : /\ api'[j].url = api[j].url
                                  /\ j # k => api'[j].state = api[j].state
        /\ message' = "failure" /\ UNCHANGED <<shown, renders, view>>
    BY <1>1, <1>3, <2>1, EndedClients
  <2>3. Newest \in Nat \ {0} /\ k \in 1 .. Newest /\ Newest' = Newest
    BY <2>1, <2>2, NewestType DEF Newest
  <2>4. PageTellsNewest'
    <3>1. CASE k = Newest
      <4>1. shown = 0
        BY <1>1, <2>1, <3>1 DEF PageTellsNewest, Client
      <4> QED
        BY <2>2, <2>3, <3>1, <4>1 DEF PageTellsNewest, Client
    <3>2. CASE k # Newest
      <4>1. Client'.state = Client.state /\ Client'.url = Client.url
        BY <2>2, <2>3, <3>2 DEF Client
      <4> QED
        BY <1>1, <2>1, <2>2, <2>3, <3>2, <4>1 DEF PageTellsNewest
    <3> QED
      BY <3>1, <3>2
  <2>5. ViewTypeOK' /\ ThrobberTells' /\ RequestsKnown'
    BY <1>1, <2>1, <2>2 DEF ViewTypeOK, ThrobberTells, RequestsKnown, OnPage
  <2>6. IconsTellLastGrant'
    BY <2>2, <2>3, IconsSameKeep DEF SameIcons, ovars
  <2>7. ApiTypeOK' /\ OAuthTypeOK'
    BY <1>1, <2>1, <2>2 DEF ApiTypeOK, OAuthTypeOK, ovars
  <2>8. PageTypeOK'
    BY <1>1, <2>1, <2>2, <2>3, <2>5, <2>7 DEF PageTypeOK
  <2>9. LoginsUndisturbed'
    BY DEF PageInv, LoginsUndisturbed, OwnGlobals, ovars
  <2> QED
    BY <2>1, <2>2, <2>4, <2>5, <2>6, <2>8, <2>9 DEF PageInv
<1> QED
  BY <1>2, <1>3

LEMMA SubmitStep ==
  ASSUME PageInv, NEW o, NEW fill, Submit(o, fill), UNCHANGED ovars
  PROVE  PageInv'
<1> DEFINE op == OperationOf(shown, o)
           map == InputMap(op, fill)
           submitted == [view[o] EXCEPT !.throbber = TRUE, !.map = map, !.last = acts + 1]
           new == [id |-> acts + 1, render |-> renders, o |-> o, client |-> shown,
                   chosen |-> fill.contentType, must |-> must, authz |-> api[shown].authz,
                   request |-> Sent(Request(op, map, Options(op, fill), api[shown].authz))]
<1>1. /\ ApiTypeOK /\ ViewTypeOK /\ OAuthTypeOK /\ acts \in Nat /\ renders \in Nat
      /\ shown \in 0 .. Newest /\ ended \in 0 .. Newest
      /\ RequestsKnown /\ PageTellsNewest /\ ThrobberTells /\ IconsTellLastGrant
      /\ apiKey \in Keys \cup {NoKey} /\ (shown = 0 => DOMAIN view = {})
      /\ \A q \in net : q.id \in 1 .. acts /\ q.render \in 0 .. renders
  BY DEF PageInv, PageTypeOK
<1>2. /\ acts' = acts + 1 /\ shown # 0 /\ o \in DOMAIN view
      /\ UNCHANGED <<api, shown, renders, message, apiKey, ended>>
      /\ \/ view' = [view EXCEPT ![o] = ShowNoCurl(ShowStatus(submitted, acts + 1), o)] /\ net' = net
         \/ view' = [view EXCEPT ![o] = submitted] /\ net' = net \cup {new}
  BY DEF Submit, Act
<1>3. PICK q0 : q0 = new /\ q0.id = acts + 1 /\ q0.render = renders /\ q0.o = o
  <2>1. new.id = acts + 1 /\ new.render = renders /\ new.o = o
    OBVIOUS
  <2> HIDE DEF new
  <2> QED
    BY <2>1
<1>4. IsView(view[o]) /\ \A p \in DOMAIN view : IsView(view[p]) /\ view[p].last <= acts
  BY <1>1, <1>2 DEF ViewTypeOK
<1>5. /\ IsView(submitted) /\ SameIcons(view[o], submitted) /\ submitted.throbber
      /\ submitted.last = acts + 1 /\ submitted.response.to = view[o].response.to
  BY <1>1, <1>4 DEF IsView, SameIcons
<1>6. OAuthTypeOK' /\ LoginsUndisturbed'
  <2>1. OAuthTypeOK'
    BY <1>2, LaterLogins DEF ovars
  <2>2. LoginsUndisturbed'
    BY DEF PageInv, LoginsUndisturbed, OwnGlobals, ovars
  <2> QED
    BY <2>1, <2>2
<1> HIDE DEF submitted, new
<1>7. Newest' = Newest /\ Newest \in Nat /\ ApiTypeOK'
  BY <1>1, <1>2, NewestType DEF Newest, ApiTypeOK
<1>8. DOMAIN view' = DOMAIN view
  BY <1>2
<1>9. PageTellsNewest'
  BY <1>1, <1>2, <1>7, <1>8 DEF PageTellsNewest, Client
<1>10. \A p \in DOMAIN view : p # o => view'[p] = view[p]
  BY <1>2
<1>11. CASE view' = [view EXCEPT ![o] = ShowNoCurl(ShowStatus(submitted, acts + 1), o)] /\ net' = net
  <2> DEFINE w == view'[o]
  <2>1. Answered(submitted, w, acts + 1)
    BY <1>1, <1>2, <1>5, <1>11, AnsweredView
  <2>2. IsView(w) /\ SameIcons(view[o], w) /\ ~w.throbber /\ w.response.to = acts + 1 /\ w.last = acts + 1
    BY <1>5, <2>1 DEF Answered, SameIcons
  <2> HIDE DEF w
  <2>3. \A q \in net : OnPage(q)' <=> OnPage(q)
    BY <1>2 DEF OnPage
  <2>4. ViewTypeOK'
    BY <1>1, <1>2, <1>4, <1>8, <1>10, <2>2 DEF ViewTypeOK, IsView, w
  <2>5. RequestsKnown'
    BY <1>1, <1>8, <1>10, <1>11, <2>2, <2>3 DEF RequestsKnown, w
  <2>6. ThrobberTells'
    BY <1>1, <1>8, <1>10, <1>11, <2>2, <2>3 DEF ThrobberTells, w
  <2>7. IconsTellLastGrant'
    <3>1. \A p \in DOMAIN view : SameIcons(view[p], view'[p])
      BY <1>10, <2>2 DEF w, SameIcons
    <3> QED
      BY <1>2, <1>7, <1>8, <3>1, IconsSameKeep DEF ovars
  <2>8. PageTypeOK'
    BY <1>1, <1>2, <1>6, <1>7, <1>11, <2>4 DEF PageTypeOK
  <2> QED
    BY <1>1, <1>2, <1>6, <1>8, <1>9, <2>5, <2>6, <2>7, <2>8 DEF PageInv
<1>12. CASE view' = [view EXCEPT ![o] = submitted] /\ net' = net \cup {q0}
  <2>1. view'[o] = submitted
    BY <1>2, <1>12
  <2>2. /\ \A q \in net : OnPage(q)' <=> OnPage(q)
        /\ OnPage(q0)'
    BY <1>2, <1>3 DEF OnPage
  <2>3. ViewTypeOK'
    <3>1. \A p \in DOMAIN view : IsView(view'[p]) /\ view'[p].last \in {view[p].last, acts + 1}
      BY <1>4, <1>5, <1>10, <2>1
    <3>2. \A p \in DOMAIN view : view[p].last \in Nat
      BY <1>4 DEF IsView
    <3> QED
      BY <1>1, <1>2, <1>4, <1>8, <3>1, <3>2 DEF ViewTypeOK
  <2>4. RequestsKnown'
    <3>1. \A q, r \in net' : q.id = r.id => q = r
      BY <1>1, <1>3, <1>12 DEF RequestsKnown
    <3>2. \A q \in net' : OnPage(q)' => q.o \in DOMAIN view' /\ q.id <= view'[q.o].last
      <4>1. ASSUME NEW q \in net, OnPage(q)' PROVE q.o \in DOMAIN view' /\ q.id <= view'[q.o].last
        BY <1>1, <1>4, <1>5, <1>8, <1>10, <2>1, <2>2, <4>1 DEF RequestsKnown
      <4>2. q0.o \in DOMAIN view' /\ q0.id <= view'[q0.o].last
        BY <1>1, <1>2, <1>3, <1>5, <1>8, <2>1
      <4> QED
        BY <1>12, <4>1, <4>2
    <3> QED
      BY <3>1, <3>2 DEF RequestsKnown
  <2>5. ThrobberTells'
    <3> SUFFICES ASSUME NEW p \in DOMAIN view
                 PROVE  /\ view'[p].throbber => \E q \in net' : OnPage(q)' /\ q.o = p
                        /\ view'[p].response.to <= view'[p].last
                        /\ \A q \in net' : q.id # view'[p].response.to
      BY <1>8 DEF ThrobberTells
    <3>1. view[p].response.to <= view[p].last /\ view[p].last <= acts
          /\ view[p].response.to \in Nat /\ view[p].last \in Nat
          /\ \A q \in net : q.id # view[p].response.to
      BY <1>1, <1>4 DEF ThrobberTells, IsView
    <3>2. view'[p].response.to = view[p].response.to
          /\ view'[p].last \in {view[p].last, acts + 1}
      BY <1>5, <1>10, <2>1
    <3>3. view'[p].throbber => \E q \in net' : OnPage(q)' /\ q.o = p
      BY <1>1, <1>3, <1>10, <1>12, <2>2 DEF ThrobberTells
    <3>4. view'[p].response.to <= view'[p].last
      BY <1>1, <3>1, <3>2
    <3>5. \A q \in net' : q.id # view'[p].response.to
      BY <1>1, <1>3, <1>12, <3>1, <3>2
    <3> QED
      BY <3>3, <3>4, <3>5
  <2>6. IconsTellLastGrant'
    <3>1. \A p \in DOMAIN view : SameIcons(view[p], view'[p])
      BY <1>5, <1>10, <2>1 DEF SameIcons
    <3> QED
      BY <1>2, <1>7, <1>8, <3>1, IconsSameKeep DEF ovars
  <2>7. \A q \in net' : q.id \in 1 .. acts' /\ q.render \in 0 .. renders'
    BY <1>1, <1>2, <1>3, <1>12
  <2>8. PageTypeOK'
    BY <1>1, <1>2, <1>6, <1>7, <2>3, <2>7 DEF PageTypeOK
  <2> QED
    BY <1>1, <1>2, <1>6, <1>8, <1>9, <2>4, <2>5, <2>6, <2>8 DEF PageInv
<1> QED
  BY <1>2, <1>3, <1>11, <1>12

LEMMA AnswerStep ==
  ASSUME PageInv, NEW q0 \in net, NEW callback, NEW accept, Answer(q0, callback, accept), UNCHANGED ovars
  PROVE  PageInv'
<1>1. /\ ApiTypeOK /\ ViewTypeOK /\ OAuthTypeOK /\ acts \in Nat /\ renders \in Nat
      /\ shown \in 0 .. Newest /\ ended \in 0 .. Newest
      /\ RequestsKnown /\ PageTellsNewest /\ ThrobberTells /\ IconsTellLastGrant
      /\ apiKey \in Keys \cup {NoKey} /\ (shown = 0 => DOMAIN view = {})
      /\ \A q \in net : q.id \in 1 .. acts /\ q.render \in 0 .. renders
  BY DEF PageInv, PageTypeOK
<1>2. /\ net' = net \ {q0} /\ UNCHANGED <<api, shown, renders, message, acts, apiKey, ended>>
      /\ \/ ~OnPage(q0) /\ view' = view
         \/ OnPage(q0) /\ view' = [view EXCEPT ![q0.o] = ShowCompleteStatus(@, q0.id, q0.o, accept)]
         \/ OnPage(q0) /\ view' = [view EXCEPT ![q0.o] = ShowErrorStatus(@, q0.id, q0.o, accept)]
  BY DEF Answer
<1>3. OAuthTypeOK' /\ LoginsUndisturbed'
  BY <1>1, <1>2 DEF OAuthTypeOK, PageInv, LoginsUndisturbed, OwnGlobals, ovars
<1>4. Newest' = Newest /\ Newest \in Nat /\ ApiTypeOK'
  BY <1>1, <1>2, NewestType DEF Newest, ApiTypeOK
<1>5. DOMAIN view' = DOMAIN view
  BY <1>2
<1>6. \A q \in net : OnPage(q)' <=> OnPage(q)
  BY <1>2 DEF OnPage
<1>7. PageTellsNewest'
  BY <1>1, <1>2, <1>4, <1>5 DEF PageTellsNewest, Client
<1>8. ASSUME NEW p \in DOMAIN view
      PROVE  \/ view'[p] = view[p] /\ ~(OnPage(q0) /\ p = q0.o)
             \/ OnPage(q0) /\ p = q0.o /\ Answered(view[p], view'[p], q0.id)
  <2>1. IsView(view[p]) /\ q0.id \in Nat
    BY <1>1 DEF ViewTypeOK
  <2>2. CASE OnPage(q0) /\ p = q0.o
    <3>1. view'[p] = ShowCompleteStatus(view[p], q0.id, q0.o, accept)
          \/ view'[p] = ShowErrorStatus(view[p], q0.id, q0.o, accept)
      BY <1>2, <2>2
    <3> QED
      BY <2>1, <2>2, <3>1, AnsweredView
  <2>3. CASE ~(OnPage(q0) /\ p = q0.o)
    BY <1>2, <2>3
  <2> QED
    BY <2>2, <2>3
<1>9. ViewTypeOK'
  BY <1>1, <1>2, <1>5, <1>8 DEF ViewTypeOK, Answered
<1>10. RequestsKnown'
  BY <1>1, <1>2, <1>5, <1>6, <1>8 DEF RequestsKnown, Answered
<1>11. ThrobberTells'
  <2> SUFFICES ASSUME NEW p \in DOMAIN view
               PROVE  /\ view'[p].throbber => \E q \in net' : OnPage(q)' /\ q.o = p
                      /\ view'[p].response.to <= view'[p].last
                      /\ \A q \in net' : q.id # view'[p].response.to
    BY <1>5 DEF ThrobberTells
  <2>1. CASE view'[p] = view[p] /\ ~(OnPage(q0) /\ p = q0.o)
    BY <1>1, <1>2, <1>6, <2>1 DEF ThrobberTells
  <2>2. CASE OnPage(q0) /\ p = q0.o /\ Answered(view[p], view'[p], q0.id)
    BY <1>1, <1>2, <2>2 DEF Answered, RequestsKnown
  <2> QED
    BY <1>8, <2>1, <2>2
<1>12. IconsTellLastGrant'
  <2>1. \A p \in DOMAIN view : SameIcons(view[p], view'[p])
    BY <1>8 DEF Answered, SameIcons
  <2> QED
    BY <1>2, <1>4, <1>5, <2>1, IconsSameKeep DEF ovars
<1>13. PageTypeOK'
  BY <1>1, <1>2, <1>3, <1>4, <1>9 DEF PageTypeOK
<1> QED
  BY <1>1, <1>2, <1>3, <1>5, <1>7, <1>10, <1>11, <1>12, <1>13 DEF PageInv

-----------------------------------------------------------------------------
(***************************************************************************)
(* The steps of the login.                                                 *)
(***************************************************************************)
LEMMA MinIn ==
  ASSUME NEW n \in Nat, NEW u \in SUBSET (1 .. n), u # {}
  PROVE  Min(u) \in u
<1>1. PICK k \in u : \A i \in u : k <= i
  BY LeastIn
<1> QED
  BY <1>1 DEF Min

LEMMA WinnerType ==
  ASSUME NEW url \in DOMAIN Descriptions, NEW chosen \in SUBSET DOMAIN SchemeList(url), chosen # {}
  PROVE  Winner(SchemeList(url), chosen) \in AllSchemes
<1> DEFINE schemes == SchemeList(url)
           n == Len(schemes)
           apps == Apps(schemes, chosen)
           i == IF apps # {} THEN Min(apps) ELSE Max(chosen)
<1>1. n \in Nat /\ DOMAIN schemes = 1 .. n
  BY OAuthAssumption
<1>2. apps \subseteq chosen /\ chosen \in SUBSET (1 .. n)
  BY <1>1 DEF Apps
<1>3. i \in chosen
  <2> HIDE DEF n, apps
  <2>1. apps # {} => Min(apps) \in apps
    BY <1>1, <1>2, MinIn
  <2>2. Max(chosen) \in chosen
    BY <1>1, <1>2, MaxIn
  <2> QED
    BY <1>2, <2>1, <2>2
<1>4. Winner(schemes, chosen) = schemes[i]
  BY DEF Winner
<1> QED
  BY <1>3, <1>4 DEF AllSchemes

\* The types of what a login leaves behind, and of the page it does not touch.
SamePage == UNCHANGED <<api, shown, renders, view, message, net, apiKey, ended, lastGrant>>

LEMMA SamePageKeeps ==
  ASSUME PageInv, SamePage, acts' \in {acts, acts + 1}, OAuthTypeOK', LoginsUndisturbed'
  PROVE  PageInv'
<1>1. ApiTypeOK /\ ViewTypeOK
  BY DEF PageInv, PageTypeOK
<1>2. PageSame
  BY <1>1 DEF SamePage, PageSame, ApiTypeOK, ViewTypeOK, SameClients, SameWork
<1>3. Newest' = Newest /\ Newest \in Nat
  BY <1>1, NewestType DEF SamePage, Newest
<1>4. IconsTellLastGrant'
  BY <1>3, IconsSameKeep DEF SamePage, SameIcons
<1> QED
  BY <1>2, <1>4, PageSameKeeps DEF PageInv, PageTypeOK, PageSame, SamePage

LEMMA HandleLoginStep ==
  ASSUME PageInv, NEW o, HandleLogin(o) \/ Cancel
  PROVE  PageInv'
<1>1. SamePage /\ acts' = acts /\ UNCHANGED <<enabledScopes, tokenName, windows, posts>>
  BY DEF HandleLogin, Cancel, SamePage, uvars
<1>2. dialog' \subseteq AllScopes \X SchemeKeys
  <2>1. CASE HandleLogin(o)
    <3> DEFINE url == api[Newest].url
               schemes == SchemeList(url)
    <3>1. url \in DOMAIN Descriptions
      BY NewestType DEF PageInv, PageTypeOK, Clients
    <3>2. dialog' = UNION {schemes[i].scopes \X {schemes[i].key} : i \in DOMAIN schemes}
      BY <2>1 DEF HandleLogin, SchemesOf, SchemeList
    <3>3. \A i \in DOMAIN schemes : schemes[i] \in AllSchemes /\ schemes[i].scopes \subseteq AllScopes
      BY <3>1 DEF AllSchemes, AllScopes
    <3> HIDE DEF schemes
    <3>4. \A i \in DOMAIN schemes : schemes[i].key \in SchemeKeys
      BY <3>3 DEF SchemeKeys
    <3> QED
      BY <3>2, <3>3, <3>4
  <2>2. CASE Cancel
    BY <2>2 DEF Cancel
  <2> QED
    BY <2>1, <2>2
<1>3. OAuthTypeOK'
  BY <1>1, <1>2 DEF OAuthTypeOK, PageInv, PageTypeOK, SamePage
<1>4. LoginsUndisturbed'
  BY <1>1 DEF PageInv, LoginsUndisturbed, OwnGlobals
<1> QED
  BY <1>1, <1>3, <1>4, SamePageKeeps

LEMMA DisturbType ==
  ASSUME NEW n \in Nat, NEW flows, flows \subseteq Logins(n)
  PROVE  Disturb(flows) \subseteq Logins(n + 1) /\ \A f \in Disturb(flows) : ~f.undisturbed
<1>1. Logins(n) \subseteq Logins(n + 1)
  BY DEF Logins
<1>2. ASSUME NEW f \in flows
      PROVE  [f EXCEPT !.undisturbed = FALSE] \in Logins(n + 1) /\ ~[f EXCEPT !.undisturbed = FALSE].undisturbed
  <2>1. f \in Logins(n + 1)
    BY <1>1
  <2> QED
    BY <2>1 DEF Logins
<1> QED
  BY <1>2 DEF Disturb

LEMMA AuthorizeStep ==
  ASSUME PageInv, NEW picked, Authorize(picked)
  PROVE  PageInv'
<1> DEFINE scopes == {p[1] : p \in picked}
           keys == {p[2] : p \in picked}
           url == api[Newest].url
           schemes == SchemeList(url)
           chosen == IF Client.state = "built" THEN Chosen(schemes, keys) ELSE {}
           winner == Winner(schemes, chosen)
           login == [id |-> acts + 1, scheme |-> winner.key, flow |-> winner.flow, scopes |-> scopes,
                     token |-> winner.token, undisturbed |-> TRUE, code |-> winner.flow = "application"]
<1>1. acts \in Nat /\ OAuthTypeOK
  BY DEF PageInv, PageTypeOK
<1>2. url \in DOMAIN Descriptions
  BY NewestType DEF PageInv, PageTypeOK, Clients
<1>3. picked \subseteq AllScopes \X SchemeKeys
  BY <1>1 DEF Authorize, OAuthTypeOK
<1>4. scopes \in SUBSET AllScopes
  BY <1>3
<1>5. SamePage /\ acts' = acts + 1 /\ dialog' = {} /\ enabledScopes' = scopes
  BY DEF Authorize, SamePage, Act
<1>6. \/ chosen = {} /\ windows' = Disturb(windows) /\ posts' = Disturb(posts)
      \/ chosen # {} /\ posts' = Disturb(posts) \cup {login} /\ windows' = Disturb(windows)
      \/ chosen # {} /\ windows' = Disturb(windows) \cup {login} /\ posts' = Disturb(posts)
  BY DEF Authorize, SchemesOf, SchemeList
<1>7. chosen # {} => login \in Logins(acts + 1)
  <2> SUFFICES ASSUME chosen # {} PROVE login \in Logins(acts + 1)
    OBVIOUS
  <2>1. chosen \in SUBSET DOMAIN schemes
    BY DEF Chosen
  <2>2. winner \in AllSchemes
    <3> HIDE DEF chosen, url
    <3> QED
      BY <1>2, <2>1, WinnerType
  <2> HIDE DEF winner, scopes, chosen
  <2>3. winner.key \in SchemeKeys /\ winner.flow \in {scheme.flow : scheme \in AllSchemes}
        /\ winner.token \in {scheme.token : scheme \in AllSchemes}
    BY <2>2 DEF SchemeKeys
  <2> QED
    BY <1>1, <1>4, <2>3 DEF Logins
<1>8. login.scopes = scopes /\ (chosen # {} => tokenName' = login.token)
  BY DEF Authorize, SchemesOf, SchemeList
<1> HIDE DEF login, chosen, scopes
<1>9. /\ Disturb(windows) \subseteq Logins(acts + 1) /\ Disturb(posts) \subseteq Logins(acts + 1)
      /\ \A f \in Disturb(windows) \cup Disturb(posts) : ~f.undisturbed
  BY <1>1, DisturbType DEF OAuthTypeOK
<1>10. OAuthTypeOK'
  BY <1>1, <1>5, <1>6, <1>7, <1>9 DEF OAuthTypeOK, SamePage
<1>11. LoginsUndisturbed'
  BY <1>5, <1>6, <1>8, <1>9 DEF LoginsUndisturbed, OwnGlobals
<1> QED
  BY <1>5, <1>10, <1>11, SamePageKeeps

\* A token that came is taken, or it was of a login whose globals are not its
\* own any more.
TokenTaken(login) ==
    /\ view' = [o \in DOMAIN view |-> Icons(o)]
    /\ api' = Held(api, Bearer(login))
    /\ must' = With(must, login.scheme, IF login.undisturbed THEN login.id ELSE NoCredential)
    /\ lastGrant' = [undisturbed |-> login.undisturbed, render |-> renders, scopes |-> login.scopes]
    /\ UNCHANGED <<shown, renders, message, net, acts, apiKey, ended>>

LEMMA TakenOrNothing ==
  ASSUME PageInv, NEW login \in windows \cup posts, OnOAuthComplete(login)
  PROVE  TokenTaken(login) \/ UNCHANGED <<uvars, lastGrant>>
<1>1. OwnGlobals(login)
  BY DEF PageInv, LoginsUndisturbed
<1> QED
  BY <1>1 DEF OnOAuthComplete, TokenTaken, OwnGlobals, uvars

\* A token has come for a login whose window or request is closed.
LEMMA CompleteStep ==
  ASSUME PageInv, NEW login \in Logins(acts), OwnGlobals(login),
         TokenTaken(login), UNCHANGED <<dialog, enabledScopes, tokenName>>,
         windows' \cup posts' \subseteq Logins(acts),
         \A w \in windows' \cup posts' : OwnGlobals(w)
  PROVE  PageInv'
<1> DEFINE auth == Bearer(login)
<1>1. /\ ApiTypeOK /\ ViewTypeOK /\ acts \in Nat /\ renders \in Nat /\ OAuthTypeOK
      /\ shown \in 0 .. Newest
  BY DEF PageInv, PageTypeOK
<1>2. /\ view' = [o \in DOMAIN view |-> Icons(o)]
      /\ api' = Held(api, auth)
      /\ lastGrant' = [undisturbed |-> login.undisturbed, render |-> renders, scopes |-> login.scopes]
      /\ UNCHANGED <<shown, renders, message, net, acts, apiKey, ended>>
  BY DEF TokenTaken
<1>3. auth \in Credentials
  BY DEF Bearer, Credentials, Logins
<1> HIDE DEF auth
<1>4. api' \in Seq(Clients) \ {<<>>} /\ SameClients(api, api')
  BY <1>1, <1>2, <1>3, HeldType DEF ApiTypeOK, Newest
<1>5. /\ DOMAIN view' = DOMAIN view
      /\ \A o \in DOMAIN view : view'[o] = Icons(o) /\ IsView(view[o])
  BY <1>1, <1>2 DEF ViewTypeOK
<1>6. PageSame
  BY <1>2, <1>4, <1>5, IconsView DEF PageSame, ApiTypeOK
<1>7. OAuthTypeOK'
  BY <1>1, <1>2 DEF OAuthTypeOK
<1>8. LoginsUndisturbed'
  BY DEF LoginsUndisturbed, OwnGlobals
<1>9. IconsTellLastGrant'
  <2> SUFFICES ASSUME login.undisturbed, shown # 0, NEW o \in DOMAIN view, HasPanel(o)'
               PROVE  LET covered == OperationOf(shown, o)'.scopes \subseteq login.scopes IN
                      (view'[o].access = "on") = covered /\ ("warning" \in view'[o].info) = ~covered
    BY <1>2, <1>5 DEF IconsTellLastGrant
  <2>1. OperationOf(shown, o)' = OperationOf(shown, o)
    <3>1. shown \in 1 .. Len(api)
      BY <1>1, NewestType DEF Newest
    <3> QED
      BY <1>2, <1>4, <3>1 DEF OperationOf, SameClients
  <2>2. HasPanel(o)
    BY <1>2, <1>5, <2>1 DEF HasPanel
  <2>3. enabledScopes = login.scopes /\ enabledScopes # NullScopes
    BY OAuthAssumption DEF Logins, OwnGlobals
  <2>4. Missing(o) = OperationOf(shown, o).scopes \ login.scopes
    BY <2>3 DEF Missing
  <2>5. (view'[o].access = "on") = (Missing(o) = {}) /\ ("warning" \in view'[o].info) = (Missing(o) # {})
    BY <1>5, <2>2, IconsView
  <2> QED
    BY <2>1, <2>4, <2>5
<1> QED
  BY <1>1, <1>2, <1>6, <1>7, <1>8, <1>9, PageSameKeeps DEF PageInv, PageTypeOK, PageSame

LEMMA WindowReturnsStep ==
  ASSUME PageInv, NEW w, NEW granted \in BOOLEAN, WindowReturns(w, granted)
  PROVE  PageInv'
<1>1. /\ acts \in Nat /\ windows \subseteq Logins(acts) /\ posts \subseteq Logins(acts)
      /\ w \in windows /\ windows' = windows \ {w} /\ UNCHANGED <<dialog, enabledScopes, tokenName>>
      /\ \A f \in windows \cup posts : OwnGlobals(f)
  BY DEF PageInv, PageTypeOK, OAuthTypeOK, LoginsUndisturbed, WindowReturns
<1>2. CASE UNCHANGED <<uvars, lastGrant>>
  <2> DEFINE p == [w EXCEPT !.code = granted /\ w.flow = "accessCode" /\ tokenUrl = w.scheme]
  <2>1. posts' \subseteq posts \cup {p}
    BY DEF WindowReturns
  <2>2. p \in Logins(acts) /\ p.undisturbed = w.undisturbed /\ p.scopes = w.scopes /\ p.token = w.token
    <3>1. w \in Logins(acts) /\ (granted /\ w.flow = "accessCode" /\ tokenUrl = w.scheme) \in BOOLEAN
      BY <1>1
    <3> QED
      BY <3>1 DEF Logins
  <2> HIDE DEF p
  <2>3. OAuthTypeOK'
    BY <1>1, <1>2, <2>1, <2>2 DEF PageInv, PageTypeOK, OAuthTypeOK, uvars
  <2>4. LoginsUndisturbed'
    BY <1>1, <2>1, <2>2 DEF LoginsUndisturbed, OwnGlobals
  <2>5. SamePage /\ acts' = acts
    BY <1>2 DEF SamePage, uvars
  <2> QED
    BY <2>3, <2>4, <2>5, SamePageKeeps
<1>3. CASE TokenTaken(w) /\ UNCHANGED posts
  BY <1>1, <1>3, CompleteStep DEF OwnGlobals
<1> QED
  BY <1>1, <1>2, <1>3, TakenOrNothing DEF WindowReturns

LEMMA PostAnsweredStep ==
  ASSUME PageInv, NEW p, NEW granted \in BOOLEAN, PostAnswered(p, granted)
  PROVE  PageInv'
<1>1. /\ acts \in Nat /\ windows \subseteq Logins(acts) /\ posts \subseteq Logins(acts)
      /\ p \in posts /\ posts' = posts \ {p} /\ UNCHANGED <<dialog, enabledScopes, tokenName, windows>>
      /\ \A f \in windows \cup posts : OwnGlobals(f)
  BY DEF PageInv, PageTypeOK, OAuthTypeOK, LoginsUndisturbed, PostAnswered
<1>2. CASE UNCHANGED <<uvars, lastGrant>>
  <2>1. OAuthTypeOK' /\ LoginsUndisturbed'
    BY <1>1, <1>2 DEF PageInv, PageTypeOK, OAuthTypeOK, LoginsUndisturbed, OwnGlobals, uvars
  <2>2. SamePage /\ acts' = acts
    BY <1>2 DEF SamePage, uvars
  <2> QED
    BY <2>1, <2>2, SamePageKeeps
<1>3. CASE TokenTaken(p)
  BY <1>1, <1>3, CompleteStep DEF OwnGlobals
<1> QED
  BY <1>1, <1>2, <1>3, TakenOrNothing DEF PostAnswered

\* The credentials of the newest client are forgotten.
LEMMA ForgottenClients ==
  ASSUME ApiTypeOK, api' = [api EXCEPT ![Newest].authz = <<>>]
  PROVE  api' \in Seq(Clients) \ {<<>>} /\ SameClients(api, api') /\ api'[Newest].authz = <<>>
<1> DEFINE c == api[Newest]
           d == [c EXCEPT !.authz = <<>>]
<1>1. Newest \in 1 .. Len(api) /\ Newest \in Nat /\ c \in Clients /\ api \in Seq(Clients)
  BY NewestType DEF ApiTypeOK, Newest
<1>2. <<>> \in Authorizations
  BY EmptySeq DEF Authorizations, Distinct
<1>3. d \in Clients /\ d.url = c.url /\ d.state = c.state /\ d.authz = <<>>
  BY <1>1, <1>2 DEF Clients
<1>4. api' = [api EXCEPT ![Newest] = d]
  OBVIOUS
<1> HIDE DEF d
<1>5. /\ api' \in Seq(Clients)
      /\ Len(api') = Len(api)
      /\ \A j \in 1 .. Len(api) : api'[j] = IF j = Newest THEN d ELSE api[j]
  BY <1>1, <1>3, <1>4, ExceptSeq
<1>6. api' # <<>>
  BY <1>1, <1>5, EmptySeq
<1> QED
  BY <1>1, <1>3, <1>5, <1>6 DEF SameClients

LEMMA HandleLogoutStep ==
  ASSUME PageInv, NEW o, HandleLogout(o)
  PROVE  PageInv'
<1>1. /\ ApiTypeOK /\ ViewTypeOK /\ acts \in Nat /\ renders \in Nat /\ OAuthTypeOK
  BY DEF PageInv, PageTypeOK
<1>2. /\ acts' = acts + 1
      /\ api' = [api EXCEPT ![Newest].authz = <<>>]
      /\ view' = [p \in DOMAIN view |-> LoggedOut(view[p])]
      /\ windows' = Disturb(windows) /\ posts' = Disturb(posts)
      /\ lastGrant' = NoGrant
      /\ UNCHANGED <<shown, renders, message, net, apiKey, ended, dialog>>
  BY DEF HandleLogout, Act
<1>3. ApiTypeOK' /\ SameClients(api, api')
  BY <1>1, <1>2, ForgottenClients DEF ApiTypeOK
<1>4. DOMAIN view' = DOMAIN view /\ \A p \in DOMAIN view : view'[p] = LoggedOut(view[p]) /\ IsView(view[p])
  BY <1>1, <1>2 DEF ViewTypeOK
<1>5. PageSame
  BY <1>2, <1>3, <1>4, LoggedOutView DEF PageSame
<1>6. /\ Disturb(windows) \subseteq Logins(acts + 1) /\ Disturb(posts) \subseteq Logins(acts + 1)
      /\ \A f \in Disturb(windows) \cup Disturb(posts) : ~f.undisturbed
  BY <1>1, DisturbType DEF OAuthTypeOK
<1>7. OAuthTypeOK'
  BY <1>1, <1>2, <1>6 DEF OAuthTypeOK, NoGrant
<1>8. LoginsUndisturbed'
  BY <1>2, <1>6 DEF LoginsUndisturbed, OwnGlobals
<1>9. IconsTellLastGrant'
  BY <1>2 DEF IconsTellLastGrant, NoGrant
<1> QED
  BY <1>1, <1>2, <1>3, <1>5, <1>7, <1>8, <1>9, PageSameKeeps DEF PageInv, PageTypeOK, PageSame

-----------------------------------------------------------------------------
LEMMA PageInit == Init => PageInv /\ CredentialsAgree
<1> SUFFICES ASSUME Init PROVE PageInv /\ CredentialsAgree
  OBVIOUS
<1>1. PICK url \in DOMAIN Descriptions : api = <<NewClient(url, <<>>)>>
  BY DEF Init, UiInit
<1> DEFINE c == [url |-> url, state |-> "loading", authz |-> <<>>]
<1>2. <<>> \in Authorizations
  BY EmptySeq DEF Authorizations, Distinct
<1>3. NewClient(url, <<>>) = c
  BY <1>2, CopiedSame DEF NewClient
<1>4. c \in Clients /\ c.state = "loading" /\ c.authz = <<>>
  BY <1>2 DEF Clients
<1> HIDE DEF c
<1>5. api \in Seq(Clients) \ {<<>>} /\ Len(api) = 1 /\ api[1] = c
  BY <1>1, <1>3, <1>4
<1>6. /\ shown = 0 /\ renders = 0 /\ DOMAIN view = {} /\ net = {} /\ acts = 0 /\ apiKey = NoKey /\ ended = 0
      /\ DOMAIN must = {} /\ dialog = {} /\ windows = {} /\ posts = {} /\ lastGrant = NoGrant
  <2>1. view = <<>> /\ must = <<>>
    BY DEF Init, UiInit
  <2>2. DOMAIN view = {} /\ DOMAIN must = {}
    BY <2>1
  <2> QED
    BY <2>2 DEF Init, UiInit
<1>7. PageTypeOK
  BY <1>5, <1>6 DEF PageTypeOK, ApiTypeOK, ViewTypeOK, OAuthTypeOK, Newest, NoGrant
<1>8. PageTellsNewest /\ ThrobberTells /\ IconsTellLastGrant /\ RequestsKnown /\ LoginsUndisturbed
  BY <1>5, <1>6 DEF PageTellsNewest, ThrobberTells, IconsTellLastGrant, RequestsKnown, LoginsUndisturbed,
                    NoGrant, Newest
<1>9. CredentialsAgree
  BY <1>4, <1>5, <1>6 DEF CredentialsAgree, Agree, Schemes, Client, Newest
<1> QED
  BY <1>6, <1>7, <1>8, <1>9 DEF PageInv

LEMMA PageStep == PageInv /\ [Next]_vars => PageInv'
<1> SUFFICES ASSUME PageInv, [Next]_vars PROVE PageInv'
  OBVIOUS
<1>1. CASE Ui
  <2>1. UNCHANGED ovars
    BY <1>1 DEF Ui
  <2>2. ASSUME NEW url \in DOMAIN Descriptions, Load(url) PROVE PageInv'
    BY <2>1, <2>2, LoadStep
  <2>3. ASSUME NEW k \in DOMAIN api, NEW outcome \in {"built", "failed"}, EndLoad(k, outcome)
        PROVE  PageInv'
    BY <2>1, <2>3, EndLoadStep
  <2>4. ASSUME NEW key \in Keys \cup {NoKey}, TypeKey(key) PROVE PageInv'
    BY <2>1, <2>4, TypeKeyStep
  <2>5. ASSUME NEW o, NEW fill, Submit(o, fill) PROVE PageInv'
    BY <2>1, <2>5, SubmitStep
  <2>6. ASSUME NEW q \in net, NEW callback, NEW accept, Answer(q, callback, accept) PROVE PageInv'
    BY <2>1, <2>6, AnswerStep
  <2> QED
    BY <1>1, <2>2, <2>3, <2>4, <2>5, <2>6 DEF Ui
<1>2. CASE Oauth
  BY <1>2, HandleLoginStep, HandleLogoutStep, AuthorizeStep, WindowReturnsStep, PostAnsweredStep DEF Oauth
<1>3. CASE UNCHANGED vars
  <2>1. SamePage /\ acts' = acts /\ UNCHANGED <<dialog, enabledScopes, tokenName, windows, posts>>
    BY <1>3 DEF vars, uvars, ovars, SamePage
  <2>2. OAuthTypeOK' /\ LoginsUndisturbed'
    BY <2>1 DEF PageInv, PageTypeOK, OAuthTypeOK, LoginsUndisturbed, OwnGlobals, SamePage
  <2> QED
    BY <2>1, <2>2, SamePageKeeps
<1> QED
  BY <1>1, <1>2, <1>3 DEF Next

-----------------------------------------------------------------------------
(***************************************************************************)
(* The credentials of the newest client and the history of what was given. *)
(***************************************************************************)
LEMMA EndedAgrees ==
  ASSUME PageInv, CredentialsAgree, NEW k \in DOMAIN api, NEW outcome \in {"built", "failed"},
         EndLoad(k, outcome)
  PROVE  CredentialsAgree'
<1> DEFINE clients == Ended(k, outcome)
<1>1. ApiTypeOK /\ apiKey \in Keys \cup {NoKey}
  BY DEF PageInv, PageTypeOK
<1>2. /\ clients \in Seq(Clients) \ {<<>>} /\ Len(clients) = Newest
      /\ \A j \in 1 .. Newest : clients[j].authz = api[j].authz
  BY <1>1, EndedClients
<1>3. Newest \in 1 .. Newest
  BY <1>1, NewestType
<1>4. \/ AddApiKey(clients, apiKey)
      \/ api' = clients /\ must' = must
  BY DEF EndLoad, Ended, Render
<1> HIDE DEF clients
<1>5. Agree(clients[Newest].authz, must)
  BY <1>2, <1>3 DEF CredentialsAgree, Client
<1>6. CASE AddApiKey(clients, apiKey)
  <2>1. SameClients(clients, api') /\ Agree(api'[Newest].authz, must')
    BY <1>1, <1>2, <1>5, <1>6, AddApiKeyType
  <2>2. Newest' = Newest
    BY <1>2, <2>1 DEF SameClients, Newest
  <2> QED
    BY <2>1, <2>2 DEF CredentialsAgree, Client
<1>7. CASE api' = clients /\ must' = must
  <2>1. Newest' = Newest
    BY <1>2, <1>7 DEF Newest
  <2> QED
    BY <1>5, <1>7, <2>1 DEF CredentialsAgree, Client
<1> QED
  BY <1>4, <1>6, <1>7

LEMMA TypedAgrees ==
  ASSUME PageInv, CredentialsAgree, NEW key \in Keys \cup {NoKey}, TypeKey(key)
  PROVE  CredentialsAgree'
<1>1. ApiTypeOK /\ AddApiKey(api, key)
  BY DEF PageInv, PageTypeOK, TypeKey
<1>2. SameClients(api, api') /\ (Agree(api[Newest].authz, must) => Agree(api'[Newest].authz, must'))
  BY <1>1, AddApiKeyType DEF ApiTypeOK, Newest
<1>3. Newest' = Newest
  BY <1>2 DEF SameClients, Newest
<1> QED
  BY <1>2, <1>3 DEF CredentialsAgree, Client

LEMMA CompleteAgrees ==
  ASSUME PageInv, CredentialsAgree, NEW login \in Logins(acts), TokenTaken(login)
  PROVE  CredentialsAgree'
<1> DEFINE auth == Bearer(login)
           value == IF login.undisturbed THEN login.id ELSE NoCredential
<1>1. ApiTypeOK /\ acts \in Nat
  BY DEF PageInv, PageTypeOK
<1>2. /\ auth \in Credentials /\ auth.type = "header" /\ auth.name = "Authorization"
      /\ auth.scheme = login.scheme /\ value \in {auth.value, NoCredential}
  BY <1>1 DEF Bearer, Credentials, Logins
<1>3. api' = Held(api, auth) /\ must' = With(must, auth.scheme, value)
  BY <1>2 DEF TokenTaken
<1> HIDE DEF auth, value
<1>4. /\ SameClients(api, api')
      /\ api'[Newest].authz = Add(api[Newest].authz, auth)
  BY <1>1, <1>2, <1>3, HeldType DEF ApiTypeOK, Newest
<1>5. Newest' = Newest
  BY <1>4 DEF SameClients, Newest
<1>6. Client.authz \in Authorizations
  BY <1>1, NewestType DEF Client, Clients
<1>7. Agree(Add(Client.authz, auth), With(must, auth.scheme, value))
  BY <1>2, <1>6, AddAgrees DEF CredentialsAgree
<1> QED
  BY <1>3, <1>4, <1>5, <1>7 DEF CredentialsAgree, Client

LEMMA AgreeStep == PageInv /\ CredentialsAgree /\ [Next]_vars => CredentialsAgree'
<1> SUFFICES ASSUME PageInv, CredentialsAgree, [Next]_vars PROVE CredentialsAgree'
  OBVIOUS
<1>1. ApiTypeOK /\ windows \subseteq Logins(acts) /\ posts \subseteq Logins(acts)
  BY DEF PageInv, PageTypeOK, OAuthTypeOK
<1>2. ASSUME UNCHANGED <<api, must>> PROVE CredentialsAgree'
  BY <1>2 DEF CredentialsAgree, Client, Newest, Agree, Schemes
<1>3. CASE Ui
  <2>1. ASSUME NEW url \in DOMAIN Descriptions, Load(url) PROVE CredentialsAgree'
    <3>1. Client'.authz = Client.authz /\ must' = must
      <4>1. /\ Newest' = Newest + 1
            /\ api'[Newest + 1] = [url |-> url, state |-> "loading", authz |-> Client.authz]
        BY <1>1, <2>1, LoadClients DEF Newest
      <4> QED
        BY <2>1, <4>1 DEF Client, Load
    <3> QED
      BY <3>1 DEF CredentialsAgree
  <2>2. ASSUME NEW k \in DOMAIN api, NEW outcome \in {"built", "failed"}, EndLoad(k, outcome)
        PROVE  CredentialsAgree'
    BY <2>2, EndedAgrees
  <2>3. ASSUME NEW key \in Keys \cup {NoKey}, TypeKey(key) PROVE CredentialsAgree'
    BY <2>3, TypedAgrees
  <2>4. ASSUME NEW o, NEW fill, Submit(o, fill) PROVE CredentialsAgree'
    BY <1>2, <2>4 DEF Submit
  <2>5. ASSUME NEW q, NEW callback, NEW accept, Answer(q, callback, accept) PROVE CredentialsAgree'
    BY <1>2, <2>5 DEF Answer
  <2> QED
    BY <1>3, <2>1, <2>2, <2>3, <2>4, <2>5 DEF Ui
<1>4. CASE Oauth
  <2>1. ASSUME NEW o, HandleLogin(o) PROVE CredentialsAgree'
    BY <1>2, <2>1 DEF HandleLogin, uvars
  <2>2. ASSUME NEW o, HandleLogout(o) PROVE CredentialsAgree'
    <3>1. SameClients(api, api') /\ api'[Newest].authz = <<>> /\ must' = <<>>
      BY <1>1, <2>2, ForgottenClients DEF HandleLogout
    <3>2. Newest' = Newest
      BY <3>1 DEF SameClients, Newest
    <3>3. Agree(<<>>, <<>>)
      BY DEF Agree, Schemes
    <3> QED
      BY <3>1, <3>2, <3>3 DEF CredentialsAgree, Client
  <2>3. ASSUME NEW picked, Authorize(picked) PROVE CredentialsAgree'
    BY <1>2, <2>3 DEF Authorize
  <2>4. CASE Cancel
    BY <1>2, <2>4 DEF Cancel, uvars
  <2>5. ASSUME NEW w \in windows, NEW granted \in BOOLEAN, WindowReturns(w, granted) PROVE CredentialsAgree'
    <3>1. TokenTaken(w) \/ UNCHANGED <<api, must>>
      BY <2>5, TakenOrNothing DEF WindowReturns, uvars
    <3> QED
      BY <1>1, <1>2, <3>1, CompleteAgrees
  <2>6. ASSUME NEW p \in posts, NEW granted \in BOOLEAN, PostAnswered(p, granted) PROVE CredentialsAgree'
    <3>1. TokenTaken(p) \/ UNCHANGED <<api, must>>
      BY <2>6, TakenOrNothing DEF PostAnswered, uvars
    <3> QED
      BY <1>1, <1>2, <3>1, CompleteAgrees
  <2> QED
    BY <1>4, <2>1, <2>2, <2>3, <2>4, <2>5, <2>6 DEF Oauth
<1>5. CASE UNCHANGED vars
  BY <1>2, <1>5 DEF vars, uvars
<1> QED
  BY <1>3, <1>4, <1>5 DEF Next

-----------------------------------------------------------------------------
(***************************************************************************)
(* What the credentials make of a request.  P holds the pairs its query    *)
(* may have.                                                               *)
(***************************************************************************)
IsRequest(r, P) == DOMAIN r = {"path", "query", "body", "headers"} /\ r.query \in Seq(P)

\* w is r after a credential was put on it.
PutOn(r, auth, w, P) ==
    /\ IsRequest(w, P) /\ w.path = r.path /\ w.body = r.body
    /\ auth.type = "query" => w.headers = r.headers /\ InQuery(w, auth.name)
    /\ auth.type = "header" =>
          /\ w.query = r.query
          /\ w.headers = IF auth.name \in DOMAIN r.headers THEN r.headers
                         ELSE With(r.headers, auth.name, auth.value)
    /\ \A name : InQuery(r, name) => InQuery(w, name)

LEMMA ApplyOnePuts ==
  ASSUME NEW P, NEW r, IsRequest(r, P), NEW auth \in Credentials, <<auth.name, auth.value>> \in P
  PROVE  PutOn(r, auth, ApplyOne(r, auth), P)
<1> DEFINE w == ApplyOne(r, auth)
           pair == <<auth.name, auth.value>>
<1>1. auth.type \in {"query", "header"} /\ pair[1] = auth.name
  BY DEF Credentials
<1>2. CASE auth.type = "query" /\ InQuery(r, auth.name)
  <2>1. w = r
    BY <1>2 DEF ApplyOne
  <2> QED
    BY <1>2, <2>1 DEF PutOn
<1>3. CASE auth.type = "query" /\ ~InQuery(r, auth.name)
  <2> DEFINE query == Append(r.query, pair)
  <2>1. w = [r EXCEPT !.query = query]
    BY <1>3 DEF ApplyOne
  <2>2. /\ query \in Seq(P) /\ Len(query) = Len(r.query) + 1
        /\ \A i \in 1 .. Len(r.query) : query[i] = r.query[i]
        /\ query[Len(r.query) + 1] = pair
    BY AppendProperties DEF IsRequest
  <2>3. /\ Len(r.query) \in Nat /\ DOMAIN r.query = 1 .. Len(r.query)
    BY LenProperties DEF IsRequest
  <2> HIDE DEF query, pair
  <2>4. DOMAIN query = 1 .. Len(r.query) + 1
    BY <2>2, LenProperties
  <2>5. /\ DOMAIN w = DOMAIN r /\ w.query = query /\ w.path = r.path /\ w.body = r.body /\ w.headers = r.headers
    <3> HIDE DEF w
    <3> QED
      BY <2>1 DEF IsRequest
  <2> HIDE DEF w
  <2>6. InQuery(w, auth.name)
    <3>1. Len(r.query) + 1 \in DOMAIN query
      BY <2>3, <2>4
    <3> QED
      BY <1>1, <2>2, <2>5, <3>1 DEF InQuery
  <2>7. \A name : InQuery(r, name) => InQuery(w, name)
    BY <2>2, <2>3, <2>4, <2>5 DEF InQuery
  <2>8. IsRequest(w, P)
    BY <2>2, <2>5 DEF IsRequest
  <2> QED
    BY <1>3, <2>5, <2>6, <2>7, <2>8 DEF PutOn, w
<1>4. CASE auth.type = "header" /\ auth.name \in DOMAIN r.headers
  <2>1. w = r
    BY <1>4 DEF ApplyOne
  <2> QED
    BY <1>4, <2>1 DEF PutOn
<1>5. CASE auth.type = "header" /\ auth.name \notin DOMAIN r.headers
  <2>1. w = [r EXCEPT !.headers = With(r.headers, auth.name, auth.value)]
    BY <1>5 DEF ApplyOne, SetHeader
  <2>2. /\ DOMAIN w = DOMAIN r /\ w.query = r.query /\ w.path = r.path /\ w.body = r.body
        /\ w.headers = With(r.headers, auth.name, auth.value)
    <3> HIDE DEF w
    <3> QED
      BY <2>1 DEF IsRequest
  <2> HIDE DEF w
  <2> QED
    BY <1>5, <2>2 DEF PutOn, IsRequest, InQuery, w
<1> QED
  BY <1>1, <1>2, <1>3, <1>4, <1>5

\* All the pairs the credentials may add.
Addable(authz, P) == \A i \in DOMAIN authz : authz[i] \in Credentials /\ <<authz[i].name, authz[i].value>> \in P
TokensNamed(authz) == \A i \in DOMAIN authz : authz[i].type = "header" => authz[i].name = "Authorization"

\* A step of the chain of Apply.
LEMMA ChainStep ==
  ASSUME NEW P, NEW security, NEW request, NEW authz, NEW F, IsChain("apply", security, request, authz, F),
         Len(authz) \in Nat, DOMAIN authz = 1 .. Len(authz), Addable(authz, P),
         NEW k \in 1 .. Len(authz), IsRequest(F[k - 1], P)
  PROVE  /\ Applies(authz[k], security) => PutOn(F[k - 1], authz[k], F[k], P)
         /\ ~Applies(authz[k], security) => F[k] = F[k - 1]
<1>1. F[k] = ApplyIf(security, F[k - 1], authz[k])
  BY DEF IsChain, FoldStep
<1>2. authz[k] \in Credentials /\ <<authz[k].name, authz[k].value>> \in P
  BY DEF Addable
<1>3. PutOn(F[k - 1], authz[k], ApplyOne(F[k - 1], authz[k]), P)
  BY <1>2, ApplyOnePuts
<1> QED
  BY <1>1, <1>3 DEF ApplyIf

\* Of the results there are, one that is not as it should be has a first.
LEMMA FirstWrong ==
  ASSUME NEW n \in Nat, NEW W, W \subseteq 0 .. n, W # {}, 0 \notin W
  PROVE  \E k \in W : k \in 1 .. n /\ k - 1 \in 0 .. n /\ k - 1 \notin W
<1>1. W \in SUBSET (1 .. n)
  OBVIOUS
<1>2. PICK k \in W : \A i \in W : k <= i
  BY <1>1, LeastIn
<1>3. k \in 1 .. n /\ k - 1 \in 0 .. n /\ ~(k <= k - 1)
  BY <1>1
<1> QED
  BY <1>2, <1>3

LEMMA ApplyKeeps ==
  ASSUME NEW P, NEW security, NEW request, NEW authz, NEW F, IsChain("apply", security, request, authz, F),
         Len(authz) \in Nat, DOMAIN authz = 1 .. Len(authz), Addable(authz, P), IsRequest(request, P)
  PROVE  \A k \in 0 .. Len(authz) : IsRequest(F[k], P) /\ F[k].path = request.path /\ F[k].body = request.body
<1> DEFINE n == Len(authz)
           Right(k) == IsRequest(F[k], P) /\ F[k].path = request.path /\ F[k].body = request.body
           W == {k \in 0 .. n : ~Right(k)}
<1>1. F[0] = request
  BY DEF IsChain
<1>2. W = {}
  <2> SUFFICES ASSUME W # {} PROVE FALSE
    OBVIOUS
  <2>1. PICK k \in W : k \in 1 .. n /\ k - 1 \in 0 .. n /\ k - 1 \notin W
    <3>1. W \subseteq 0 .. n /\ 0 \notin W
      BY <1>1
    <3> HIDE DEF W
    <3> QED
      BY <3>1, FirstWrong
  <2>2. Right(k - 1)
    BY <2>1
  <2>3. Right(k)
    BY <2>1, <2>2, ChainStep DEF PutOn
  <2> QED
    BY <2>1, <2>3
<1> QED
  BY <1>2

\* The token of a request is that of a credential that applies, and there is
\* one when one applies.
Bears(security, authz, headers, k) ==
    /\ "Authorization" \in DOMAIN headers =>
          \E i \in 1 .. k : /\ Applies(authz[i], security) /\ authz[i].type = "header"
                           /\ headers["Authorization"] = authz[i].value
    /\ \A i \in 1 .. k : Applies(authz[i], security) /\ authz[i].type = "header" =>
                            "Authorization" \in DOMAIN headers

LEMMA ApplyBears ==
  ASSUME NEW P, NEW security, NEW request, NEW authz, Len(authz) \in Nat, DOMAIN authz = 1 .. Len(authz),
         Addable(authz, P), TokensNamed(authz), IsRequest(request, P),
         "Authorization" \notin DOMAIN request.headers
  PROVE  Bears(security, authz, Apply(request, authz, security).headers, Len(authz))
<1> DEFINE n == Len(authz)
<1>1. PICK F : IsChain("apply", security, request, authz, F) /\ Apply(request, authz, security) = F[n]
  BY ApplyChain
<1> DEFINE Right(k) == Bears(security, authz, F[k].headers, k)
           W == {k \in 0 .. n : ~Right(k)}
<1>2. F[0] = request
  BY <1>1 DEF IsChain
<1>3. \A k \in 0 .. n : IsRequest(F[k], P)
  BY <1>1, ApplyKeeps
<1>4. W = {}
  <2> SUFFICES ASSUME W # {} PROVE FALSE
    OBVIOUS
  <2>1. PICK k \in W : k \in 1 .. n /\ k - 1 \in 0 .. n /\ k - 1 \notin W
    <3>1. W \subseteq 0 .. n /\ 0 \notin W
      BY <1>2 DEF Bears
    <3> HIDE DEF W
    <3> QED
      BY <3>1, FirstWrong
  <2>2. Right(k - 1)
    BY <2>1
  <2>3. /\ Applies(authz[k], security) => PutOn(F[k - 1], authz[k], F[k], P)
        /\ ~Applies(authz[k], security) => F[k] = F[k - 1]
    BY <1>1, <1>3, <2>1, ChainStep
  <2>4. \A i \in 1 .. k : i \in 1 .. k - 1 \/ i = k
    BY <2>1
  <2>5. authz[k].type = "header" => authz[k].name = "Authorization"
    BY <2>1 DEF TokensNamed
  <2>6. authz[k].type \in {"query", "header"}
    BY <2>1 DEF Addable, Credentials
  <2>7. 1 .. k - 1 \subseteq 1 .. k /\ k \in 1 .. k
    BY <2>1
  <2>8. CASE Applies(authz[k], security) /\ authz[k].type = "header"
                /\ "Authorization" \notin DOMAIN F[k - 1].headers
    <3>1. F[k].headers = With(F[k - 1].headers, "Authorization", authz[k].value)
      BY <2>3, <2>5, <2>8 DEF PutOn
    <3>2. "Authorization" \in DOMAIN F[k].headers /\ F[k].headers["Authorization"] = authz[k].value
      BY <3>1 DEF With
    <3> QED
      BY <2>1, <2>7, <2>8, <3>2 DEF Bears
  <2>9. CASE Applies(authz[k], security) /\ authz[k].type = "header"
                /\ "Authorization" \in DOMAIN F[k - 1].headers
    <3>1. F[k].headers = F[k - 1].headers
      BY <2>3, <2>5, <2>9 DEF PutOn
    <3> QED
      BY <2>1, <2>2, <2>7, <2>9, <3>1 DEF Bears
  <2>10. CASE ~(Applies(authz[k], security) /\ authz[k].type = "header")
    <3>1. F[k].headers = F[k - 1].headers
      BY <2>3, <2>6, <2>10 DEF PutOn
    <3> QED
      BY <2>1, <2>2, <2>4, <2>7, <2>10, <3>1 DEF Bears
  <2> QED
    BY <2>8, <2>9, <2>10
<1>5. Right(n)
  BY <1>4
<1> QED
  BY <1>1, <1>5

-----------------------------------------------------------------------------
(***************************************************************************)
(* The requests of operations.                                             *)
(***************************************************************************)
IsOperation(op) == Len(op.parameters) \in Nat /\ DOMAIN op.parameters = 1 .. Len(op.parameters)
Pairs(op, args) ==
    {<<op.parameters[i].name, args[op.parameters[i].name]>> : i \in DOMAIN op.parameters}
    \cup {<<c.name, c.value>> : c \in Credentials}

LEMMA QueryChain ==
  ASSUME NEW op, IsOperation(op), NEW args
  PROVE  \E F : /\ IsChain("query", args, <<>>, op.parameters, F)
                /\ Urlify(op, args).query = F[Len(op.parameters)]
<1> DEFINE s == op.parameters
           P(g) == g = [u \in SUBSET DOMAIN s |->
                          IF u = {} THEN <<>> ELSE Queried(args, g[u \ {Max(u)}], s[Max(u)])]
<1>1. Urlify(op, args).query = (CHOOSE g : P(g))[DOMAIN s]
  BY DEF Urlify, FoldLeft, MapThenFoldSet
<1>2. \A g : P(g) <=> IsFold("query", args, <<>>, s, DOMAIN s, g)
  BY DEF IsFold, FoldTerm, FoldStep
<1>3. Len(s) \in Nat /\ DOMAIN s = 1 .. Len(s)
  BY DEF IsOperation
<1> HIDE DEF P, s
<1>4. \E g : P(g)
  BY <1>2, <1>3, FoldExists
<1> DEFINE g == CHOOSE g : P(g)
<1>5. IsFold("query", args, <<>>, s, 1 .. Len(s), g) /\ Urlify(op, args).query = g[1 .. Len(s)]
  BY <1>1, <1>2, <1>3, <1>4
<1> HIDE DEF g
<1>6. \E F : IsChain("query", args, <<>>, s, F) /\ g[1 .. Len(s)] = F[Len(s)]
  BY <1>3, <1>5, FoldChain
<1> QED
  BY <1>5, <1>6 DEF s

LEMMA UrlifyType ==
  ASSUME NEW op, IsOperation(op), NEW args
  PROVE  Urlify(op, args).query \in Seq(Pairs(op, args))
<1> DEFINE s == op.parameters
           n == Len(s)
           P == Pairs(op, args)
<1>1. PICK F : IsChain("query", args, <<>>, s, F) /\ Urlify(op, args).query = F[n]
  BY QueryChain
<1>2. n \in Nat /\ DOMAIN s = 1 .. n
  BY DEF IsOperation
<1>3. \A k \in 1 .. n : <<s[k].name, args[s[k].name]>> \in P
  BY <1>2 DEF Pairs
<1> HIDE DEF s, n, P
<1> DEFINE W == {k \in 0 .. n : F[k] \notin Seq(P)}
<1>4. F[0] \in Seq(P)
  BY <1>1, EmptySeq DEF IsChain
<1>5. W = {}
  <2> SUFFICES ASSUME W # {} PROVE FALSE
    OBVIOUS
  <2>1. PICK k \in W : k \in 1 .. n /\ k - 1 \in 0 .. n /\ k - 1 \notin W
    <3>1. W \subseteq 0 .. n /\ 0 \notin W
      BY <1>4
    <3> HIDE DEF W
    <3> QED
      BY <1>2, <3>1, FirstWrong
  <2>2. F[k - 1] \in Seq(P)
    BY <2>1
  <2>3. F[k] = Queried(args, F[k - 1], s[k])
    BY <1>1, <2>1 DEF IsChain, FoldStep, n
  <2>4. Append(F[k - 1], <<s[k].name, args[s[k].name]>>) \in Seq(P)
    BY <1>3, <2>1, <2>2, AppendProperties
  <2>5. F[k] \in Seq(P)
    BY <2>2, <2>3, <2>4 DEF Queried
  <2> QED
    BY <2>1, <2>5
<1> QED
  BY <1>1, <1>2, <1>5 DEF P

\* A request before its credentials.
Unsigned(op, args, opts) ==
    [path |-> Urlify(op, args).path, query |-> Urlify(op, args).query,
     body |-> GetBody(op, args, SetContentTypes(op, args, opts), opts),
     headers |-> Over(SetContentTypes(op, args, opts), HeaderParams(op, args))]

LEMMA UnsignedType ==
  ASSUME NEW op, IsOperation(op), NEW args, NEW opts
  PROVE  /\ IsRequest(Unsigned(op, args, opts), Pairs(op, args))
         /\ \A authz : Request(op, args, opts, authz) = Apply(Unsigned(op, args, opts), authz, op.security)
<1>1. \A authz : Request(op, args, opts, authz) = Apply(Unsigned(op, args, opts), authz, op.security)
  BY DEF Request, Unsigned
<1>2. Urlify(op, args).query \in Seq(Pairs(op, args))
  BY UrlifyType
<1> QED
  BY <1>1, <1>2 DEF Unsigned, IsRequest

LEMMA AddableAll ==
  ASSUME NEW authz \in Authorizations, NEW op, NEW args
  PROVE  /\ Len(authz) \in Nat /\ DOMAIN authz = 1 .. Len(authz)
         /\ Addable(authz, Pairs(op, args))
<1>1. authz \in Seq(Credentials)
  BY DEF Authorizations
<1>2. Len(authz) \in Nat /\ DOMAIN authz = 1 .. Len(authz)
      /\ \A i \in 1 .. Len(authz) : authz[i] \in Credentials
  BY <1>1, LenProperties, ElementOfSeq
<1> QED
  BY <1>2 DEF Addable, Pairs

\* A header parameter may not bear the name of the token's header.
NoTokenParameterOf(op) == \A i \in DOMAIN op.parameters :
    op.parameters[i].in = "header" => op.parameters[i].name # "Authorization"

LEMMA UnsignedBearsNone ==
  ASSUME NEW op, NoTokenParameterOf(op), NEW args, NEW opts
  PROVE  "Authorization" \notin DOMAIN Unsigned(op, args, opts).headers
<1>1. \A p \in Given(op, args, "header") : p.name # "Authorization"
  BY DEF Given, Parameters, Range, NoTokenParameterOf
<1>2. \A options : DOMAIN SetContentTypes(op, args, options) \subseteq {"Content-Type", "Accept"}
  BY DEF SetContentTypes, Restrict
<1>3. "Authorization" \notin DOMAIN HeaderParams(op, args)
  BY <1>1, <1>2 DEF HeaderParams, Over
<1>4. "Authorization" \notin DOMAIN Over(SetContentTypes(op, args, opts), HeaderParams(op, args))
  BY <1>2, <1>3 DEF Over
<1> QED
  BY <1>4 DEF Unsigned

LEMMA SentHeaders ==
  ASSUME NEW r, NEW P, IsRequest(r, P), NEW security, NEW authz, NEW k,
         Bears(security, authz, r.headers, k)
  PROVE  Bears(security, authz, Sent(r).headers, k)
<1>1. CASE Sent(r) = r
  BY <1>1
<1>2. CASE Sent(r) = [r EXCEPT !.headers = Restrict(@, DOMAIN @ \ {"Content-Type"})]
  <2>1. Sent(r).headers = Restrict(r.headers, DOMAIN r.headers \ {"Content-Type"})
    BY <1>2 DEF IsRequest
  <2>2. /\ "Authorization" \in DOMAIN Sent(r).headers <=> "Authorization" \in DOMAIN r.headers
        /\ "Authorization" \in DOMAIN r.headers =>
              Sent(r).headers["Authorization"] = r.headers["Authorization"]
    BY <2>1 DEF Restrict
  <2> QED
    BY <2>2 DEF Bears
<1> QED
  BY <1>1, <1>2 DEF Sent

LEMMA RequestBears ==
  ASSUME NEW op, IsOperation(op), NoTokenParameterOf(op), NEW args, NEW opts,
         NEW authz \in Authorizations, TokensNamed(authz)
  PROVE  Bears(op.security, authz, Sent(Request(op, args, opts, authz)).headers, Len(authz))
<1> DEFINE P == Pairs(op, args)
           r0 == Unsigned(op, args, opts)
           r == Apply(r0, authz, op.security)
           n == Len(authz)
<1>1. IsRequest(r0, P) /\ Request(op, args, opts, authz) = r
  BY UnsignedType
<1>2. n \in Nat /\ DOMAIN authz = 1 .. n /\ Addable(authz, P)
  BY AddableAll
<1>3. "Authorization" \notin DOMAIN r0.headers
  BY UnsignedBearsNone
<1> HIDE DEF r0, P
<1>4. Bears(op.security, authz, r.headers, n)
  BY <1>1, <1>2, <1>3, ApplyBears
<1>5. IsRequest(r, P)
  <2>1. PICK F : IsChain("apply", op.security, r0, authz, F) /\ r = F[n]
    BY <1>2, ApplyChain
  <2> QED
    BY <1>1, <1>2, <2>1, ApplyKeeps
<1> HIDE DEF r
<1> QED
  BY <1>1, <1>4, <1>5, SentHeaders

\* The hypothesis of the theorem on tokens: where an operation declares a
\* header parameter of that name, what is typed into it goes before a token.
NoTokenParameter ==
    \A url \in DOMAIN Descriptions : \A o \in DOMAIN Descriptions[url].operations :
        NoTokenParameterOf(Descriptions[url].operations[o])

RequestsCarry == \A q \in net : q.client \in 1 .. Newest /\ CarriesGrants(q)

LEMMA UrlsStay ==
  ASSUME PageInv, [Next]_vars
  PROVE  /\ Newest' \in Nat /\ Newest \in Nat /\ Newest <= Newest'
         /\ \A k \in 1 .. Newest : api'[k].url = api[k].url
<1>1. ApiTypeOK /\ Newest \in Nat /\ api \in Seq(Clients) \ {<<>>} /\ apiKey \in Keys \cup {NoKey}
      /\ windows \subseteq Logins(acts) /\ posts \subseteq Logins(acts) /\ acts \in Nat
  BY NewestType DEF PageInv, PageTypeOK, ApiTypeOK, OAuthTypeOK
<1> DEFINE Stay == Newest' \in Nat /\ Newest <= Newest' /\ \A k \in 1 .. Newest : api'[k].url = api[k].url
<1> SUFFICES Stay
  BY <1>1
<1>2. ASSUME SameClients(api, api') PROVE Stay
  BY <1>1, <1>2 DEF SameClients, Newest
<1>3. ASSUME UNCHANGED api PROVE Stay
  BY <1>1, <1>3 DEF Newest
<1>4. ASSUME NEW login \in Logins(acts), TokenTaken(login) PROVE Stay
  <2> DEFINE auth == Bearer(login)
  <2>1. auth \in Credentials /\ api' = Held(api, auth)
    BY <1>1, <1>4 DEF Bearer, Credentials, Logins, TokenTaken
  <2> HIDE DEF auth
  <2>2. SameClients(api, api')
    BY <1>1, <2>1, HeldType DEF Newest
  <2> QED
    BY <1>2, <2>2
<1>5. CASE Ui
  <2>1. ASSUME NEW url \in DOMAIN Descriptions, Load(url) PROVE Stay
    <3>1. Newest' = Newest + 1 /\ \A k \in 1 .. Newest : api'[k] = api[k]
      BY <1>1, <2>1, LoadClients DEF Newest
    <3> QED
      BY <1>1, <3>1
  <2>2. ASSUME NEW k \in DOMAIN api, NEW outcome \in {"built", "failed"}, EndLoad(k, outcome) PROVE Stay
    <3> DEFINE clients == Ended(k, outcome)
    <3>1. AddApiKey(clients, apiKey) \/ api' = clients
      BY <2>2 DEF EndLoad, Ended, Render
    <3>2. /\ clients \in Seq(Clients) \ {<<>>} /\ Len(clients) = Newest
          /\ \A j \in 1 .. Newest : clients[j].url = api[j].url
      BY <1>1, EndedClients
    <3> HIDE DEF clients
    <3>3. SameClients(clients, api')
      <4>1. CASE AddApiKey(clients, apiKey)
        BY <1>1, <3>2, <4>1, AddApiKeyType
      <4>2. CASE api' = clients
        BY <4>2 DEF SameClients
      <4> QED
        BY <3>1, <4>1, <4>2
    <3> QED
      BY <1>1, <3>2, <3>3 DEF SameClients, Newest
  <2>3. ASSUME NEW key \in Keys \cup {NoKey}, TypeKey(key) PROVE Stay
    <3>1. SameClients(api, api')
      BY <1>1, <2>3, AddApiKeyType DEF TypeKey, Newest
    <3> QED
      BY <1>2, <3>1
  <2>4. ASSUME NEW o, NEW fill, Submit(o, fill) PROVE Stay
    BY <1>3, <2>4 DEF Submit
  <2>5. ASSUME NEW q, NEW callback, NEW accept, Answer(q, callback, accept) PROVE Stay
    BY <1>3, <2>5 DEF Answer
  <2> HIDE DEF Stay
  <2> QED
    BY <1>5, <2>1, <2>2, <2>3, <2>4, <2>5 DEF Ui
<1>6. CASE Oauth
  <2>1. ASSUME NEW o, HandleLogin(o) PROVE Stay
    BY <1>3, <2>1 DEF HandleLogin, uvars
  <2>2. ASSUME NEW o, HandleLogout(o) PROVE Stay
    <3>1. SameClients(api, api')
      BY <1>1, <2>2, ForgottenClients DEF HandleLogout
    <3> QED
      BY <1>2, <3>1
  <2>3. ASSUME NEW picked, Authorize(picked) PROVE Stay
    BY <1>3, <2>3 DEF Authorize
  <2>4. CASE Cancel
    BY <1>3, <2>4 DEF Cancel, uvars
  <2>5. ASSUME NEW w \in windows, NEW granted \in BOOLEAN, WindowReturns(w, granted) PROVE Stay
    <3>1. TokenTaken(w) \/ UNCHANGED api
      BY <2>5, TakenOrNothing DEF WindowReturns, uvars
    <3> QED
      BY <1>1, <1>3, <1>4, <3>1
  <2>6. ASSUME NEW p \in posts, NEW granted \in BOOLEAN, PostAnswered(p, granted) PROVE Stay
    <3>1. TokenTaken(p) \/ UNCHANGED api
      BY <2>6, TakenOrNothing DEF PostAnswered, uvars
    <3> QED
      BY <1>1, <1>3, <1>4, <3>1
  <2> HIDE DEF Stay
  <2> QED
    BY <1>6, <2>1, <2>2, <2>3, <2>4, <2>5, <2>6 DEF Oauth
<1>7. CASE UNCHANGED vars
  BY <1>3, <1>7 DEF vars, uvars
<1> QED
  BY <1>1, <1>5, <1>6, <1>7 DEF Next

\* The operation of a view on the page.
LEMMA ShownOperation ==
  ASSUME PageInv, CredentialsAgree, shown # 0, NEW o \in DOMAIN view
  PROVE  /\ shown \in 1 .. Newest /\ shown = Newest
         /\ \E url \in DOMAIN Descriptions : /\ o \in DOMAIN Descriptions[url].operations
                                            /\ OperationOf(shown, o) = Descriptions[url].operations[o]
         /\ api[shown].authz \in Authorizations /\ TokensNamed(api[shown].authz)
         /\ Agree(api[shown].authz, must)
<1>1. ApiTypeOK /\ PageTellsNewest
  BY DEF PageInv, PageTypeOK
<1>2. shown = Newest /\ DOMAIN view = DOMAIN Descriptions[api[Newest].url].operations
  BY <1>1 DEF PageTellsNewest, Client
<1>3. Newest \in 1 .. Newest /\ api[Newest] \in Clients
  BY <1>1, NewestType
<1>4. api[Newest].url \in DOMAIN Descriptions /\ api[Newest].authz \in Authorizations
  BY <1>3 DEF Clients
<1>5. Agree(api[Newest].authz, must)
  BY DEF CredentialsAgree, Client
<1>6. TokensNamed(api[Newest].authz)
  BY <1>5 DEF Agree, TokensNamed
<1> QED
  BY <1>2, <1>3, <1>4, <1>5, <1>6 DEF OperationOf

LEMMA BearsGrants ==
  ASSUME NEW authz \in Authorizations, NEW m, Agree(authz, m), NEW security, security.declared,
         NEW headers, Bears(security, authz, headers, Len(authz)), NEW token,
         token = IF "Authorization" \in DOMAIN headers THEN headers["Authorization"] ELSE NoCredential
  PROVE  /\ \A s \in security.names \cap DOMAIN m :
               m[s] # NoCredential /\ s # "api_key" /\ security.names = {s} => token = m[s]
         /\ token # NoCredential => \E s \in security.names \cap DOMAIN m : m[s] \in {token, NoCredential}
<1>1. DOMAIN authz = 1 .. Len(authz) /\ Distinct(authz)
  BY LenProperties DEF Authorizations
<1>2. \A i \in DOMAIN authz : authz[i].scheme \in DOMAIN m
  BY DEF Agree, Schemes
<1>3. ASSUME NEW s \in security.names \cap DOMAIN m, m[s] # NoCredential, s # "api_key", security.names = {s}
      PROVE  token = m[s]
  <2>1. PICK i \in DOMAIN authz : authz[i].scheme = s
    BY DEF Agree, Schemes
  <2>2. authz[i].type = "header" /\ m[s] = authz[i].value
    BY <1>3, <2>1 DEF Agree
  <2>3. "Authorization" \in DOMAIN headers
    BY <1>1, <2>1, <2>2 DEF Bears, Applies
  <2>4. PICK j \in DOMAIN authz : Applies(authz[j], security) /\ headers["Authorization"] = authz[j].value
    BY <1>1, <2>3 DEF Bears
  <2>5. j = i
    BY <1>1, <1>3, <2>1, <2>4 DEF Applies, Distinct
  <2> QED
    BY <2>2, <2>3, <2>4, <2>5
<1>4. ASSUME token # NoCredential
      PROVE  \E s \in security.names \cap DOMAIN m : m[s] \in {token, NoCredential}
  <2>1. "Authorization" \in DOMAIN headers /\ token = headers["Authorization"]
    BY <1>4
  <2>2. PICK j \in DOMAIN authz : Applies(authz[j], security) /\ headers["Authorization"] = authz[j].value
    BY <1>1, <2>1 DEF Bears
  <2>3. authz[j].scheme \in security.names /\ authz[j].scheme \in DOMAIN m
    BY <1>2, <2>2 DEF Applies
  <2>4. m[authz[j].scheme] \in {authz[j].value, NoCredential}
    BY DEF Agree
  <2> QED
    BY <2>1, <2>2, <2>3, <2>4
<1> QED
  BY <1>3, <1>4

\* Every request that is under way was one of those before, or is the new one.
LEMMA SubmitCarries ==
  ASSUME PageInv, CredentialsAgree, NoTokenParameter, NEW o, NEW fill, Submit(o, fill),
         NEW q \in net', q \notin net
  PROVE  q.client \in 1 .. Newest /\ CarriesGrants(q)
<1> DEFINE op == OperationOf(shown, o)
           map == InputMap(op, fill)
           authz == api[shown].authz
<1>1. shown # 0 /\ o \in DOMAIN view
  BY DEF Submit
<1>2. q = [id |-> acts + 1, render |-> renders, o |-> o, client |-> shown,
           chosen |-> fill.contentType, must |-> must, authz |-> authz,
           request |-> Sent(Request(op, map, Options(op, fill), authz))]
  BY DEF Submit
<1>3. /\ q.client = shown /\ q.must = must /\ RequestedOperation(q) = op
      /\ q.request = Sent(Request(op, map, Options(op, fill), authz))
  BY <1>2 DEF RequestedOperation
<1>4. /\ shown \in 1 .. Newest /\ authz \in Authorizations /\ TokensNamed(authz) /\ Agree(authz, must)
      /\ \E url \in DOMAIN Descriptions : /\ o \in DOMAIN Descriptions[url].operations
                                         /\ op = Descriptions[url].operations[o]
  BY <1>1, ShownOperation
<1>5. IsOperation(op) /\ NoTokenParameterOf(op)
  BY <1>4, OperationAssumption DEF NoTokenParameter, IsOperation
<1> HIDE DEF op, map, authz
<1>6. Bears(op.security, authz, q.request.headers, Len(authz))
  BY <1>3, <1>4, <1>5, RequestBears
<1>7. CarriesGrants(q)
  <2>1. Token(q) = IF "Authorization" \in DOMAIN q.request.headers THEN q.request.headers["Authorization"]
                   ELSE NoCredential
    BY DEF Token
  <2> SUFFICES ASSUME op.security.declared
               PROVE  /\ \A s \in op.security.names \cap DOMAIN must :
                            must[s] # NoCredential /\ s # "api_key" /\ op.security.names = {s}
                               => Token(q) = must[s]
                      /\ Token(q) # NoCredential =>
                           \E s \in op.security.names \cap DOMAIN must : must[s] \in {Token(q), NoCredential}
    BY <1>3 DEF CarriesGrants
  <2> QED
    BY <1>4, <1>6, <2>1, BearsGrants
<1> QED
  BY <1>3, <1>4, <1>7

LEMMA NewRequest ==
  ASSUME [Next]_vars, NEW q \in net', q \notin net
  PROVE  \E o, fill : Submit(o, fill)
<1>1. ASSUME net' \subseteq net PROVE FALSE
  BY <1>1
<1>2. \A url : ~Load(url)
  BY <1>1 DEF Load
<1>3. \A k, outcome : ~EndLoad(k, outcome)
  BY <1>1 DEF EndLoad
<1>4. \A key : ~TypeKey(key)
  BY <1>1 DEF TypeKey
<1>5. \A r, callback, accept : ~Answer(r, callback, accept)
  BY <1>1 DEF Answer
<1>6. \A o : ~HandleLogin(o) /\ ~HandleLogout(o)
  BY <1>1 DEF HandleLogin, HandleLogout, uvars
<1>7. \A picked : ~Authorize(picked)
  BY <1>1 DEF Authorize
<1>8. ~Cancel /\ ~UNCHANGED vars
  BY <1>1 DEF Cancel, vars, uvars
<1>9. \A w, granted : ~WindowReturns(w, granted) /\ ~PostAnswered(w, granted)
  BY <1>1 DEF WindowReturns, PostAnswered, OnOAuthComplete, uvars
<1> QED
  BY <1>2, <1>3, <1>4, <1>5, <1>6, <1>7, <1>8, <1>9 DEF Next, Ui, Oauth

\* A request that is answered, and the number of renderings.
LEMMA AnsweredRequest ==
  ASSUME [Next]_vars, NEW q \in net, q \notin net'
  PROVE  \E callback, accept : Answer(q, callback, accept)
<1>1. ASSUME net \subseteq net' PROVE FALSE
  BY <1>1
<1>2. \A url : ~Load(url)
  BY <1>1 DEF Load
<1>3. \A k, outcome : ~EndLoad(k, outcome)
  BY <1>1 DEF EndLoad
<1>4. \A key : ~TypeKey(key)
  BY <1>1 DEF TypeKey
<1>5. \A o, fill : ~Submit(o, fill)
  BY <1>1 DEF Submit
<1>6. \A o : ~HandleLogin(o) /\ ~HandleLogout(o)
  BY <1>1 DEF HandleLogin, HandleLogout, uvars
<1>7. \A picked : ~Authorize(picked)
  BY <1>1 DEF Authorize
<1>8. ~Cancel /\ ~UNCHANGED vars
  BY <1>1 DEF Cancel, vars, uvars
<1>9. \A w, granted : ~WindowReturns(w, granted) /\ ~PostAnswered(w, granted)
  BY <1>1 DEF WindowReturns, PostAnswered, OnOAuthComplete, uvars
<1>10. \E r, callback, accept : Answer(r, callback, accept)
  BY <1>2, <1>3, <1>4, <1>5, <1>6, <1>7, <1>8, <1>9 DEF Next, Ui, Oauth
<1>11. \A r, callback, accept : Answer(r, callback, accept) => r = q
  BY DEF Answer
<1> QED
  BY <1>10, <1>11

LEMMA RendersStep ==
  ASSUME [Next]_vars
  PROVE  renders' \in {renders, renders + 1}
  BY DEF Next, Ui, Oauth, Load, EndLoad, Render, TypeKey, Submit, Answer, HandleLogin, HandleLogout, Authorize,
         Cancel, WindowReturns, PostAnswered, OnOAuthComplete, vars, uvars

LEMMA CarryStep ==
  ASSUME NoTokenParameter, PageInv, CredentialsAgree, RequestsCarry, [Next]_vars
  PROVE  RequestsCarry'
<1>1. /\ Newest' \in Nat /\ Newest \in Nat /\ Newest <= Newest'
      /\ \A k \in 1 .. Newest : api'[k].url = api[k].url
  BY UrlsStay
<1>2. ASSUME NEW q \in net' PROVE q.client \in 1 .. Newest /\ CarriesGrants(q)
  <2>1. CASE q \in net
    BY <2>1 DEF RequestsCarry
  <2>2. CASE q \notin net
    <3>1. \E o, fill : Submit(o, fill)
      BY <2>2, NewRequest
    <3> QED
      BY <2>2, <3>1, SubmitCarries
  <2> QED
    BY <2>1, <2>2
<1>3. ASSUME NEW q \in net' PROVE q.client \in 1 .. Newest' /\ CarriesGrants(q)'
  <2>1. q.client \in 1 .. Newest /\ CarriesGrants(q)
    BY <1>2
  <2>2. RequestedOperation(q)' = RequestedOperation(q)
    BY <1>1, <2>1 DEF RequestedOperation, OperationOf
  <2> QED
    BY <1>1, <2>1, <2>2 DEF CarriesGrants, Token
<1> QED
  BY <1>3 DEF RequestsCarry

LEMMA GrantsFollow == CredentialsAgree /\ RequestsCarry => GrantsKept
<1> SUFFICES ASSUME CredentialsAgree, RequestsCarry PROVE GrantsKept
  OBVIOUS
<1>1. ASSUME NEW s \in DOMAIN must, must[s] # NoCredential
      PROVE  \E i \in DOMAIN Client.authz : Client.authz[i].scheme = s /\ Client.authz[i].value = must[s]
  <2>1. PICK i \in DOMAIN Client.authz : Client.authz[i].scheme = s
    BY DEF CredentialsAgree, Agree, Schemes
  <2> QED
    BY <1>1, <2>1 DEF CredentialsAgree, Agree
<1> QED
  BY <1>1 DEF GrantsKept, RequestsCarry

-----------------------------------------------------------------------------
(***************************************************************************)
(* The curl command: a request made again with another Accept header is    *)
(* the same in all but that, and credentials put on twice are put on once. *)
(***************************************************************************)
SameBut(names, h, g) ==
    /\ DOMAIN h \ names = DOMAIN g \ names
    /\ \A x \in DOMAIN h \ names : h[x] = g[x]
Twins(names, r, s) == r.path = s.path /\ r.query = s.query /\ SameBut(names, r.headers, s.headers)

LEMMA SameHeaders ==
  ASSUME NEW names, NEW h, NEW g, SameBut(names, h, g)
  PROVE  Without(h, names) = Without(g, names)
  BY DEF SameBut, Without, Restrict

LEMMA ApplyOneTwins ==
  ASSUME NEW names, names \subseteq {"Accept", "Content-Type"},
         NEW P, NEW r, NEW s, IsRequest(r, P), IsRequest(s, P), Twins(names, r, s), NEW auth \in Credentials,
         <<auth.name, auth.value>> \in P
  PROVE  Twins(names, ApplyOne(r, auth), ApplyOne(s, auth))
<1>1. auth.type \in {"query", "header"} /\ auth.name \notin names
  BY DEF Credentials
<1>2. CASE auth.type = "query"
  <2>1. InQuery(r, auth.name) <=> InQuery(s, auth.name)
    BY DEF InQuery, Twins
  <2>2. CASE InQuery(r, auth.name)
    <3>1. ApplyOne(r, auth) = r /\ ApplyOne(s, auth) = s
      BY <1>2, <2>1, <2>2 DEF ApplyOne
    <3> QED
      BY <3>1
  <2>3. CASE ~InQuery(r, auth.name)
    <3> DEFINE query == Append(r.query, <<auth.name, auth.value>>)
    <3>1. ApplyOne(r, auth) = [r EXCEPT !.query = query] /\ ApplyOne(s, auth) = [s EXCEPT !.query = query]
      BY <1>2, <2>1, <2>3 DEF ApplyOne, Twins
    <3> HIDE DEF query
    <3> QED
      BY <3>1 DEF IsRequest, Twins
  <2> QED
    BY <2>2, <2>3
<1>3. CASE auth.type = "header"
  <2>1. auth.name \in DOMAIN r.headers <=> auth.name \in DOMAIN s.headers
    BY <1>1 DEF Twins, SameBut
  <2>2. CASE auth.name \in DOMAIN r.headers
    <3>1. ApplyOne(r, auth) = r /\ ApplyOne(s, auth) = s
      BY <1>3, <2>1, <2>2 DEF ApplyOne
    <3> QED
      BY <3>1
  <2>3. CASE auth.name \notin DOMAIN r.headers
    <3> DEFINE h == With(r.headers, auth.name, auth.value)
               g == With(s.headers, auth.name, auth.value)
    <3>1. ApplyOne(r, auth) = [r EXCEPT !.headers = h] /\ ApplyOne(s, auth) = [s EXCEPT !.headers = g]
      BY <1>3, <2>1, <2>3 DEF ApplyOne, SetHeader
    <3>2. SameBut(names, h, g)
      BY DEF With, Twins, SameBut
    <3> HIDE DEF h, g
    <3> QED
      BY <3>1, <3>2 DEF IsRequest, Twins
  <2> QED
    BY <2>2, <2>3
<1> QED
  BY <1>1, <1>2, <1>3

LEMMA ApplyTwins ==
  ASSUME NEW P, NEW security, NEW authz, Len(authz) \in Nat, DOMAIN authz = 1 .. Len(authz), Addable(authz, P),
         NEW r, NEW s, IsRequest(r, P), IsRequest(s, P),
         NEW names, names \subseteq {"Accept", "Content-Type"}, Twins(names, r, s)
  PROVE  Twins(names, Apply(r, authz, security), Apply(s, authz, security))
<1> DEFINE n == Len(authz)
<1>1. PICK F : IsChain("apply", security, r, authz, F) /\ Apply(r, authz, security) = F[n]
  BY ApplyChain
<1>2. PICK G : IsChain("apply", security, s, authz, G) /\ Apply(s, authz, security) = G[n]
  BY ApplyChain
<1>3. \A k \in 0 .. n : IsRequest(F[k], P) /\ IsRequest(G[k], P)
  BY <1>1, <1>2, ApplyKeeps
<1> DEFINE W == {k \in 0 .. n : ~Twins(names, F[k], G[k])}
<1>4. F[0] = r /\ G[0] = s
  BY <1>1, <1>2 DEF IsChain
<1>5. W = {}
  <2> SUFFICES ASSUME W # {} PROVE FALSE
    OBVIOUS
  <2>1. PICK k \in W : k \in 1 .. n /\ k - 1 \in 0 .. n /\ k - 1 \notin W
    <3>1. W \subseteq 0 .. n /\ 0 \notin W
      BY <1>4
    <3> HIDE DEF W
    <3> QED
      BY <3>1, FirstWrong
  <2>2. Twins(names, F[k - 1], G[k - 1])
    BY <2>1
  <2>3. /\ F[k] = ApplyIf(security, F[k - 1], authz[k])
        /\ G[k] = ApplyIf(security, G[k - 1], authz[k])
    BY <1>1, <1>2, <2>1 DEF IsChain, FoldStep
  <2>4. authz[k] \in Credentials /\ <<authz[k].name, authz[k].value>> \in P
    BY <2>1 DEF Addable
  <2>5. Twins(names, ApplyOne(F[k - 1], authz[k]), ApplyOne(G[k - 1], authz[k]))
    BY <1>3, <2>1, <2>2, <2>4, ApplyOneTwins
  <2>6. Twins(names, F[k], G[k])
    BY <2>2, <2>3, <2>5 DEF ApplyIf
  <2> QED
    BY <2>1, <2>6
<1> QED
  BY <1>1, <1>2, <1>5

\* A credential that applies is on the request.
Settled(security, r, auth) ==
    Applies(auth, security) =>
        /\ auth.type = "query" => InQuery(r, auth.name)
        /\ auth.type = "header" => auth.name \in DOMAIN r.headers

LEMMA SettledStays ==
  ASSUME NEW P, NEW security, NEW r, NEW auth \in Credentials, NEW w, PutOn(r, auth, w, P),
         NEW other, Settled(security, r, other)
  PROVE  Settled(security, w, other)
<1>1. auth.type \in {"query", "header"}
  BY DEF Credentials
<1>2. DOMAIN r.headers \subseteq DOMAIN w.headers
  BY <1>1 DEF PutOn, With
<1> QED
  BY <1>2 DEF PutOn, Settled

LEMMA ApplySettles ==
  ASSUME NEW P, NEW security, NEW authz, Len(authz) \in Nat, DOMAIN authz = 1 .. Len(authz), Addable(authz, P),
         NEW r, IsRequest(r, P)
  PROVE  /\ IsRequest(Apply(r, authz, security), P)
         /\ \A i \in DOMAIN authz : Settled(security, Apply(r, authz, security), authz[i])
<1> DEFINE n == Len(authz)
<1>1. PICK F : IsChain("apply", security, r, authz, F) /\ Apply(r, authz, security) = F[n]
  BY ApplyChain
<1>2. \A k \in 0 .. n : IsRequest(F[k], P)
  BY <1>1, ApplyKeeps
<1> DEFINE Right(k) == \A i \in 1 .. k : Settled(security, F[k], authz[i])
           W == {k \in 0 .. n : ~Right(k)}
<1>3. W = {}
  <2> SUFFICES ASSUME W # {} PROVE FALSE
    OBVIOUS
  <2>1. PICK k \in W : k \in 1 .. n /\ k - 1 \in 0 .. n /\ k - 1 \notin W
    <3>1. W \subseteq 0 .. n /\ 0 \notin W
      OBVIOUS
    <3> HIDE DEF W
    <3> QED
      BY <3>1, FirstWrong
  <2>2. Right(k - 1)
    BY <2>1
  <2>3. /\ Applies(authz[k], security) => PutOn(F[k - 1], authz[k], F[k], P)
        /\ ~Applies(authz[k], security) => F[k] = F[k - 1]
    BY <1>1, <1>2, <2>1, ChainStep
  <2>4. authz[k] \in Credentials
    BY <2>1 DEF Addable
  <2>5. \A i \in 1 .. k - 1 : Settled(security, F[k], authz[i])
    BY <2>2, <2>3, <2>4, SettledStays
  <2>6. Settled(security, F[k], authz[k])
    <3>1. CASE Applies(authz[k], security)
      BY <2>3, <3>1 DEF PutOn, Settled, With
    <3>2. CASE ~Applies(authz[k], security)
      BY <3>2 DEF Settled
    <3> QED
      BY <3>1, <3>2
  <2>7. \A i \in 1 .. k : i \in 1 .. k - 1 \/ i = k
    BY <2>1
  <2> QED
    BY <2>1, <2>5, <2>6, <2>7
<1>4. Right(n)
  BY <1>3
<1> QED
  BY <1>1, <1>2, <1>4

LEMMA ApplyTwice ==
  ASSUME NEW P, NEW security, NEW authz, Len(authz) \in Nat, DOMAIN authz = 1 .. Len(authz), Addable(authz, P),
         NEW r, IsRequest(r, P)
  PROVE  Apply(Apply(r, authz, security), authz, security) = Apply(r, authz, security)
<1> DEFINE n == Len(authz)
           w == Apply(r, authz, security)
<1>1. \A i \in DOMAIN authz : Settled(security, w, authz[i])
  BY ApplySettles
<1> HIDE DEF w
<1>2. PICK G : IsChain("apply", security, w, authz, G) /\ Apply(w, authz, security) = G[n]
  BY ApplyChain
<1> DEFINE W == {k \in 0 .. n : G[k] # w}
<1>3. W = {}
  <2> SUFFICES ASSUME W # {} PROVE FALSE
    OBVIOUS
  <2>1. PICK k \in W : k \in 1 .. n /\ k - 1 \in 0 .. n /\ k - 1 \notin W
    <3>1. W \subseteq 0 .. n /\ 0 \notin W
      BY <1>2 DEF IsChain
    <3> HIDE DEF W
    <3> QED
      BY <3>1, FirstWrong
  <2>2. G[k] = ApplyIf(security, w, authz[k])
    BY <1>2, <2>1 DEF IsChain, FoldStep
  <2>3. Settled(security, w, authz[k]) /\ authz[k].type \in {"query", "header"}
    BY <1>1, <2>1 DEF Addable, Credentials
  <2>4. G[k] = w
    BY <2>2, <2>3 DEF ApplyIf, ApplyOne, Settled
  <2> QED
    BY <2>1, <2>4
<1> QED
  BY <1>2, <1>3 DEF w

PlainOptions(accept) == [accept |-> accept, contentType |-> NoType, useJQuery |-> FALSE]

LEMMA NoOptsPlain ==
  ASSUME NEW accept
  PROVE  [NoOpts EXCEPT !.accept = accept] = PlainOptions(accept)
<1> DEFINE f == [NoOpts EXCEPT !.accept = accept]
           g == PlainOptions(accept)
           S == {"accept", "contentType", "useJQuery"}
<1>1. f = [x \in S |-> f[x]] /\ g = [x \in S |-> g[x]]
  BY DEF NoOpts, PlainOptions
<1>2. /\ f.accept = accept /\ f.contentType = NoType /\ f.useJQuery = FALSE
      /\ g.accept = accept /\ g.contentType = NoType /\ g.useJQuery = FALSE
  BY DEF NoOpts, PlainOptions
<1> HIDE DEF f, g
<1>3. \A x \in S : f[x] = g[x]
  BY <1>2
<1>4. [x \in S |-> f[x]] = [x \in S |-> g[x]]
  BY <1>3
<1> QED
  BY <1>1, <1>4 DEF f, g

\* The options of a form, and its content type among the arguments of asCurl.
FormOptions(accept, chosen, upload) == [accept |-> accept, contentType |-> chosen, useJQuery |-> upload]
Recorded(op, args, chosen) ==
    \/ chosen = NoType \/ IsFileUpload(op)
    \/ HasBody(op) /\ TypeArg \in DOMAIN args /\ args[TypeArg] = chosen

MediaTypes == {"Accept", "Content-Type"}

LEMMA UnsignedTwins ==
  ASSUME NEW op, NEW args, NEW a, NEW b
  PROVE  Twins(MediaTypes, Unsigned(op, args, a), Unsigned(op, args, b))
<1> DEFINE s == SetContentTypes(op, args, a)
           t == SetContentTypes(op, args, b)
<1>1. DOMAIN s \subseteq MediaTypes /\ DOMAIN t \subseteq MediaTypes
  BY DEF SetContentTypes, Restrict, MediaTypes
<1> HIDE DEF s, t
<1>2. SameBut(MediaTypes, Over(s, HeaderParams(op, args)), Over(t, HeaderParams(op, args)))
  BY <1>1 DEF SameBut, Over
<1> QED
  BY <1>2 DEF Unsigned, Twins, s, t

LEMMA SameConsumes ==
  ASSUME NEW op, Plain(op), NEW args, NEW chosen, Recorded(op, args, chosen), NEW a, NEW b
  PROVE  Consumes(op, args, FormOptions(a, chosen, FALSE)) = Consumes(op, args, PlainOptions(b))
<1>1. CASE chosen = NoType
  BY <1>1 DEF Consumes, FormOptions, PlainOptions
<1>2. CASE chosen # NoType
  <2>1. TypeArg \in DOMAIN args /\ args[TypeArg] = chosen /\ ~HasFields(op, FALSE)
    BY <1>2 DEF Plain, Recorded
  <2> QED
    BY <1>2, <2>1 DEF Consumes, FormOptions, PlainOptions
<1> QED
  BY <1>1, <1>2

LEMMA UnsignedPlain ==
  ASSUME NEW op, Plain(op), NEW args, NEW chosen, Recorded(op, args, chosen), NEW a, NEW b
  PROVE  LET r == Unsigned(op, args, FormOptions(a, chosen, FALSE))
             s == Unsigned(op, args, PlainOptions(b))
         IN  /\ Twins({"Accept"}, r, s) /\ r.body = s.body
             /\ r.body = NoBody \/ r.body.kind # "formData"
<1> DEFINE form == FormOptions(a, chosen, FALSE)
           s == SetContentTypes(op, args, form)
           t == SetContentTypes(op, args, PlainOptions(b))
<1>1. Consumes(op, args, form) = Consumes(op, args, PlainOptions(b))
  BY SameConsumes
<1>2. /\ "Content-Type" \in DOMAIN s <=> "Content-Type" \in DOMAIN t
      /\ "Content-Type" \in DOMAIN s => s["Content-Type"] = t["Content-Type"]
      /\ DOMAIN s \subseteq {"Content-Type", "Accept"} /\ DOMAIN t \subseteq {"Content-Type", "Accept"}
  BY <1>1 DEF SetContentTypes, Restrict
<1> HIDE DEF s, t
<1>3. SameBut({"Accept"}, Over(s, HeaderParams(op, args)), Over(t, HeaderParams(op, args)))
  BY <1>2 DEF SameBut, Over
<1>4. /\ GetBody(op, args, s, form) = GetBody(op, args, t, PlainOptions(b))
      /\ LET body == GetBody(op, args, s, form) IN body = NoBody \/ body.kind # "formData"
  BY <1>2 DEF GetBody, FormOptions, PlainOptions
<1> QED
  BY <1>3, <1>4 DEF Unsigned, Twins, s, t

LEMMA SentTwins ==
  ASSUME NEW P, NEW r, IsRequest(r, P), NEW s, Twins(MediaTypes, s, r)
  PROVE  Twins(MediaTypes, s, Sent(r))
<1> DEFINE h == Restrict(r.headers, DOMAIN r.headers \ {"Content-Type"})
<1>1. SameBut(MediaTypes, s.headers, h)
  BY DEF Twins, SameBut, Restrict, MediaTypes
<1>2. Sent(r) = r \/ Sent(r) = [r EXCEPT !.headers = h]
  BY DEF Sent
<1> HIDE DEF h
<1> QED
  BY <1>1, <1>2 DEF Twins, IsRequest

LEMMA CurlTwins ==
  ASSUME NEW op, IsOperation(op), NEW args, NEW a, NEW b, NEW chosen, Recorded(op, args, chosen),
         NEW authz \in Authorizations
  PROVE  LET curl == AsCurl(op, args, b, authz)
             request == Sent(Request(op, args, FormOptions(a, chosen, IsFileUpload(op)), authz))
         IN  /\ Twins(MediaTypes, curl, request)
             /\ Plain(op) => Twins({"Accept"}, curl, request) /\ curl.body = request.body
<1> DEFINE P == Pairs(op, args)
           n == Len(authz)
           r == Unsigned(op, args, FormOptions(a, chosen, IsFileUpload(op)))
           s == Unsigned(op, args, PlainOptions(b))
           request == Apply(r, authz, op.security)
           curl == Apply(s, authz, op.security)
<1>1. n \in Nat /\ DOMAIN authz = 1 .. n /\ Addable(authz, P)
  BY AddableAll
<1>2. IsRequest(r, P) /\ IsRequest(s, P)
  BY UnsignedType
<1>3. /\ Request(op, args, FormOptions(a, chosen, IsFileUpload(op)), authz) = request
      /\ AsCurl(op, args, b, authz) = Apply(curl, authz, op.security)
  <2>1. [NoOpts EXCEPT !.accept = b] = PlainOptions(b)
    BY NoOptsPlain
  <2> QED
    BY <2>1, UnsignedType DEF AsCurl
<1>4. Twins(MediaTypes, s, r)
  BY UnsignedTwins
<1>5. ASSUME Plain(op)
      PROVE  Twins({"Accept"}, s, r) /\ s.body = r.body /\ (r.body = NoBody \/ r.body.kind # "formData")
  <2>1. FormOptions(a, chosen, IsFileUpload(op)) = FormOptions(a, chosen, FALSE)
    BY <1>5 DEF Plain, IsFileUpload, HasFields
  <2>2. Twins({"Accept"}, r, s) /\ s.body = r.body /\ (r.body = NoBody \/ r.body.kind # "formData")
    BY <1>5, <2>1, UnsignedPlain
  <2> QED
    BY <2>2 DEF Twins, SameBut
<1> HIDE DEF r, s, P
<1>6. AsCurl(op, args, b, authz) = curl
  BY <1>1, <1>2, <1>3, ApplyTwice
<1>7. /\ IsRequest(request, P) /\ request.body = r.body
      /\ IsRequest(curl, P) /\ curl.body = s.body
  <2>1. PICK F : IsChain("apply", op.security, r, authz, F) /\ request = F[n]
    BY <1>1, ApplyChain
  <2>2. PICK G : IsChain("apply", op.security, s, authz, G) /\ curl = G[n]
    BY <1>1, ApplyChain
  <2> QED
    BY <1>1, <1>2, <2>1, <2>2, ApplyKeeps
<1>8. Twins(MediaTypes, curl, Sent(request))
  <2>1. Twins(MediaTypes, curl, request)
    BY <1>1, <1>2, <1>4, ApplyTwins DEF MediaTypes
  <2> HIDE DEF curl, request
  <2> QED
    BY <1>7, <2>1, SentTwins
<1>9. ASSUME Plain(op)
      PROVE  Twins({"Accept"}, curl, Sent(request)) /\ curl.body = Sent(request).body
  <2>1. Twins({"Accept"}, curl, request)
    BY <1>1, <1>2, <1>5, <1>9, ApplyTwins
  <2>2. Sent(request) = request
    BY <1>5, <1>7, <1>9 DEF Sent
  <2> HIDE DEF curl, request
  <2> QED
    BY <1>5, <1>7, <1>9, <2>1, <2>2
<1> QED
  BY <1>3, <1>6, <1>8, <1>9

-----------------------------------------------------------------------------
(***************************************************************************)
(* A request under way and its view: until something else is submitted in  *)
(* the view, its map is what the request was made from.                    *)
(***************************************************************************)
ServesView(q) ==
    OnPage(q) /\ view[q.o].last = q.id =>
        LET op == OperationOf(shown, q.o) IN
        /\ q.client = shown /\ q.authz \in Authorizations
        /\ Recorded(op, view[q.o].map, q.chosen)
        /\ \E accept :
             q.request = Sent(Request(op, view[q.o].map, FormOptions(accept, q.chosen, IsFileUpload(op)), q.authz))
RequestsServe == \A q \in net : ServesView(q)

SameMap(v, w) == w.last = v.last /\ w.map = v.map

LEMMA AnsweredMap ==
  ASSUME NEW v, IsView(v), NEW id, NEW o, NEW accept
  PROVE  /\ SameMap(v, ShowCompleteStatus(v, id, o, accept)) /\ SameMap(v, ShowErrorStatus(v, id, o, accept))
         /\ ShowCompleteStatus(v, id, o, accept).response.curl
              = AsCurl(OperationOf(shown, o), v.map, accept, api[shown].authz)
         /\ ShowErrorStatus(v, id, o, accept).response.curl
              = AsCurl(OperationOf(shown, o), v.map, accept, api[shown].authz)
<1> DEFINE w == ShowStatus(v, id)
           curl == AsCurl(OperationOf(shown, o), v.map, accept, api[shown].authz)
<1>1. DOMAIN w = DOMAIN v /\ DOMAIN w.response = DOMAIN v.response /\ SameMap(v, w)
  BY DEF IsView, ShowStatus, SameMap
<1>2. ShowCurl(w, o, accept) = [w EXCEPT !.response.curl = curl]
  BY <1>1 DEF ShowCurl, SameMap
<1> HIDE DEF w, curl
<1>3. SameMap(v, ShowCurl(w, o, accept)) /\ ShowCurl(w, o, accept).response.curl = curl
  BY <1>1, <1>2 DEF IsView, SameMap
<1> QED
  BY <1>3 DEF ShowCompleteStatus, ShowErrorStatus, w, curl

\* While a description stays on the page, a view that is not submitted again
\* keeps what was submitted in it.
LEMMA MapsStay ==
  ASSUME PageInv, [Next]_vars, shown' # 0, renders' = renders
  PROVE  /\ shown' = shown
         /\ \A o \in DOMAIN view : SameMap(view[o], view'[o]) \/ view'[o].last = acts + 1
<1> DEFINE Stay == /\ shown' = shown
                   /\ \A o \in DOMAIN view : SameMap(view[o], view'[o]) \/ view'[o].last = acts + 1
<1> SUFFICES Stay
  OBVIOUS
<1>1. ViewTypeOK /\ renders \in Nat /\ acts \in Nat
  BY DEF PageInv, PageTypeOK
<1>2. \A o \in DOMAIN view : IsView(view[o])
  BY <1>1 DEF ViewTypeOK
<1>3. ASSUME UNCHANGED <<shown, view>> PROVE Stay
  BY <1>3 DEF SameMap
<1>4. ASSUME NEW login, TokenTaken(login) PROVE Stay
  <2>1. shown' = shown /\ \A o \in DOMAIN view : view'[o] = Icons(o)
    BY <1>4 DEF TokenTaken
  <2>2. \A o \in DOMAIN view : SameMap(view[o], Icons(o))
    BY <1>2 DEF Icons, SameMap, IsView
  <2> QED
    BY <2>1, <2>2
<1>5. CASE Ui
  <2>1. ASSUME NEW url, Load(url) PROVE Stay
    BY <2>1 DEF Load
  <2>2. ASSUME NEW k, NEW outcome, EndLoad(k, outcome) PROVE Stay
    <3>1. UNCHANGED <<shown, view>> \/ renders' = renders + 1
      BY <2>2 DEF EndLoad, Render
    <3> QED
      BY <1>1, <1>3, <3>1
  <2>3. ASSUME NEW key, TypeKey(key) PROVE Stay
    BY <1>3, <2>3 DEF TypeKey
  <2>4. ASSUME NEW o, NEW fill, Submit(o, fill) PROVE Stay
    <3> DEFINE op == OperationOf(shown, o)
               map == InputMap(op, fill)
               submitted == [view[o] EXCEPT !.throbber = TRUE, !.map = map, !.last = acts + 1]
    <3>1. /\ o \in DOMAIN view /\ shown' = shown
          /\ \/ view' = [view EXCEPT ![o] = ShowNoCurl(ShowStatus(submitted, acts + 1), o)]
             \/ view' = [view EXCEPT ![o] = submitted]
      BY <2>4 DEF Submit
    <3>2. IsView(submitted) /\ submitted.last = acts + 1
      BY <1>1, <1>2, <3>1 DEF IsView
    <3> HIDE DEF submitted
    <3>3. ShowNoCurl(ShowStatus(submitted, acts + 1), o).last = acts + 1
      BY <1>1, <3>2, AnsweredView DEF Answered
    <3>4. view'[o].last = acts + 1 /\ \A p \in DOMAIN view : p # o => view'[p] = view[p]
      BY <3>1, <3>2, <3>3
    <3> QED
      BY <3>1, <3>4 DEF SameMap
  <2>5. ASSUME NEW q, NEW callback, NEW accept, Answer(q, callback, accept) PROVE Stay
    <3>1. /\ shown' = shown
          /\ \/ view' = view
             \/ view' = [view EXCEPT ![q.o] = ShowCompleteStatus(@, q.id, q.o, accept)]
             \/ view' = [view EXCEPT ![q.o] = ShowErrorStatus(@, q.id, q.o, accept)]
      BY <2>5 DEF Answer
    <3>2. \A p \in DOMAIN view : p # q.o => view'[p] = view[p]
      BY <3>1
    <3>3. q.o \in DOMAIN view => SameMap(view[q.o], view'[q.o])
      <4>1. ASSUME q.o \in DOMAIN view
            PROVE  \/ view'[q.o] = view[q.o]
                   \/ view'[q.o] = ShowCompleteStatus(view[q.o], q.id, q.o, accept)
                   \/ view'[q.o] = ShowErrorStatus(view[q.o], q.id, q.o, accept)
        BY <3>1, <4>1
      <4> QED
        BY <1>2, <4>1, AnsweredMap DEF SameMap
    <3> QED
      BY <3>1, <3>2, <3>3 DEF SameMap
  <2> HIDE DEF Stay
  <2> QED
    BY <1>5, <2>1, <2>2, <2>3, <2>4, <2>5 DEF Ui
<1>6. CASE Oauth
  <2>1. ASSUME NEW o, HandleLogin(o) PROVE Stay
    BY <1>3, <2>1 DEF HandleLogin, uvars
  <2>2. ASSUME NEW o, HandleLogout(o) PROVE Stay
    <3>1. shown' = shown /\ \A p \in DOMAIN view : view'[p] = LoggedOut(view[p])
      BY <2>2 DEF HandleLogout
    <3>2. \A p \in DOMAIN view : SameMap(view[p], LoggedOut(view[p]))
      BY <1>2 DEF LoggedOut, SameMap, IsView
    <3> QED
      BY <3>1, <3>2
  <2>3. ASSUME NEW picked, Authorize(picked) PROVE Stay
    BY <1>3, <2>3 DEF Authorize
  <2>4. CASE Cancel
    BY <1>3, <2>4 DEF Cancel, uvars
  <2>5. ASSUME NEW w \in windows, NEW granted \in BOOLEAN, WindowReturns(w, granted) PROVE Stay
    <3>1. TokenTaken(w) \/ UNCHANGED <<shown, view>>
      BY <2>5, TakenOrNothing DEF WindowReturns, uvars
    <3> QED
      BY <1>3, <1>4, <3>1
  <2>6. ASSUME NEW p \in posts, NEW granted \in BOOLEAN, PostAnswered(p, granted) PROVE Stay
    <3>1. TokenTaken(p) \/ UNCHANGED <<shown, view>>
      BY <2>6, TakenOrNothing DEF PostAnswered, uvars
    <3> QED
      BY <1>3, <1>4, <3>1
  <2> HIDE DEF Stay
  <2> QED
    BY <1>6, <2>1, <2>2, <2>3, <2>4, <2>5, <2>6 DEF Oauth
<1>7. CASE UNCHANGED vars
  BY <1>3, <1>7 DEF vars, uvars
<1> QED
  BY <1>5, <1>6, <1>7 DEF Next

LEMMA SubmitServes ==
  ASSUME PageInv, CredentialsAgree, NEW o, NEW fill, Submit(o, fill), NEW q \in net', q \notin net
  PROVE  ServesView(q)'
<1> DEFINE op == OperationOf(shown, o)
           map == InputMap(op, fill)
           authz == api[shown].authz
           submitted == [view[o] EXCEPT !.throbber = TRUE, !.map = map, !.last = acts + 1]
<1>1. shown # 0 /\ o \in DOMAIN view /\ UNCHANGED <<api, shown>>
  BY DEF Submit
<1>2. /\ q = [id |-> acts + 1, render |-> renders, o |-> o, client |-> shown,
              chosen |-> fill.contentType, must |-> must, authz |-> authz,
              request |-> Sent(Request(op, map, Options(op, fill), authz))]
      /\ view' = [view EXCEPT ![o] = submitted]
  BY DEF Submit
<1>3. /\ q.o = o /\ q.client = shown /\ q.authz = authz /\ q.chosen = fill.contentType
      /\ q.request = Sent(Request(op, map, Options(op, fill), authz))
  BY <1>2
<1>4. authz \in Authorizations
  BY <1>1, ShownOperation
<1>5. IsView(view[o])
  BY <1>1 DEF PageInv, PageTypeOK, ViewTypeOK
<1>6. view'[o].map = map
  <2>1. submitted.map = map
    BY <1>5 DEF IsView
  <2> HIDE DEF submitted
  <2> QED
    BY <1>1, <1>2, <2>1
<1>7. OperationOf(shown, q.o)' = op
  BY <1>1, <1>3 DEF OperationOf
<1>8. Options(op, fill) = FormOptions(fill.accept, q.chosen, IsFileUpload(op))
  BY <1>3 DEF Options, FormOptions
<1>9. Recorded(op, map, q.chosen)
  <2> HIDE DEF op
  <2>1. fill.contentType \in ContentTypes(op)
    BY DEF Submit, op
  <2>2. CASE ~HasBody(op)
    BY <1>3, <2>1, <2>2 DEF ContentTypes, Recorded
  <2>3. CASE HasBody(op) /\ ~IsFileUpload(op)
    BY <1>3, <2>3 DEF InputMap, With, Recorded
  <2> QED
    BY <2>2, <2>3 DEF Recorded
<1> HIDE DEF op, map, authz
<1> QED
  BY <1>1, <1>3, <1>4, <1>6, <1>7, <1>8, <1>9 DEF ServesView

LEMMA ServeStep ==
  ASSUME PageInv, CredentialsAgree, RequestsServe, [Next]_vars
  PROVE  RequestsServe'
<1>1. ASSUME NEW q \in net', q \notin net PROVE ServesView(q)'
  <2>1. \E o, fill : Submit(o, fill)
    BY <1>1, NewRequest
  <2> QED
    BY <1>1, <2>1, SubmitServes
<1>2. ASSUME NEW q \in net, OnPage(q)', view'[q.o].last = q.id PROVE ServesView(q)'
  <2>1. /\ renders \in Nat /\ shown \in 0 .. Newest /\ q.id \in 1 .. acts /\ q.render \in 0 .. renders /\ acts \in Nat
    BY DEF PageInv, PageTypeOK
  <2>2. shown' # 0 /\ q.render = renders'
    BY <1>2 DEF OnPage
  <2>3. renders' = renders
    <3>1. renders' \in {renders, renders + 1}
      BY RendersStep
    <3> QED
      BY <2>1, <2>2, <3>1
  <2>4. shown' = shown /\ \A o \in DOMAIN view : SameMap(view[o], view'[o]) \/ view'[o].last = acts + 1
    BY <2>2, <2>3, MapsStay
  <2>5. OnPage(q)
    BY <2>2, <2>3, <2>4 DEF OnPage
  <2>6. q.o \in DOMAIN view
    BY <2>5 DEF PageInv, RequestsKnown
  <2>7. SameMap(view[q.o], view'[q.o])
    BY <1>2, <2>1, <2>4, <2>6
  <2>8. OperationOf(shown, q.o)' = OperationOf(shown, q.o)
    <3>1. shown \in 1 .. Newest
      BY <2>1, <2>2, <2>4, UrlsStay
    <3> QED
      BY <2>4, <3>1, UrlsStay DEF OperationOf
  <2>9. ServesView(q) /\ view[q.o].last = q.id
    BY <1>2, <2>7 DEF RequestsServe, SameMap
  <2> QED
    BY <2>4, <2>5, <2>7, <2>8, <2>9 DEF ServesView, SameMap
<1> QED
  BY <1>1, <1>2 DEF RequestsServe, ServesView

\* The action property of CurlRepeatsRequest.
RepeatsRequest ==
    \A q \in net \ net' :
         OnPage(q) /\ view[q.o].last = q.id /\ api[shown].authz = q.authz =>
             LET curl == view'[q.o].response.curl IN
             /\ curl.path = q.request.path /\ curl.query = q.request.query
             /\ Without(curl.headers, {"Accept", "Content-Type"})
                  = Without(q.request.headers, {"Accept", "Content-Type"})
             /\ Plain(RequestedOperation(q)) =>
                  /\ curl.body = q.request.body
                  /\ Without(curl.headers, {"Accept"}) = Without(q.request.headers, {"Accept"})

LEMMA RepeatStep ==
  ASSUME PageInv, CredentialsAgree, RequestsServe, [Next]_vars
  PROVE  RepeatsRequest
<1> SUFFICES ASSUME NEW q \in net, q \notin net', OnPage(q), view[q.o].last = q.id, api[shown].authz = q.authz
             PROVE  LET curl == view'[q.o].response.curl IN
                    /\ curl.path = q.request.path /\ curl.query = q.request.query
                    /\ Without(curl.headers, MediaTypes) = Without(q.request.headers, MediaTypes)
                    /\ Plain(RequestedOperation(q)) =>
                         /\ curl.body = q.request.body
                         /\ Without(curl.headers, {"Accept"}) = Without(q.request.headers, {"Accept"})
  BY DEF RepeatsRequest, MediaTypes
<1> DEFINE op == OperationOf(shown, q.o)
           v == view[q.o]
<1>1. q.o \in DOMAIN view /\ IsView(v)
  BY DEF PageInv, PageTypeOK, ViewTypeOK, RequestsKnown
<1>2. PICK callback, accept : Answer(q, callback, accept)
  BY AnsweredRequest
<1>3. view'[q.o] = ShowCompleteStatus(v, q.id, q.o, accept) \/ view'[q.o] = ShowErrorStatus(v, q.id, q.o, accept)
  BY <1>1, <1>2 DEF Answer
<1>4. view'[q.o].response.curl = AsCurl(op, v.map, accept, q.authz)
  BY <1>1, <1>3, AnsweredMap
<1>5. ServesView(q)
  BY DEF RequestsServe
<1>6. q.client = shown /\ q.authz \in Authorizations /\ Recorded(op, v.map, q.chosen)
  BY <1>5 DEF ServesView
<1>7. PICK a : q.request = Sent(Request(op, v.map, FormOptions(a, q.chosen, IsFileUpload(op)), q.authz))
  BY <1>5 DEF ServesView
<1>8. RequestedOperation(q) = op
  BY <1>6 DEF RequestedOperation
<1>9. IsOperation(op)
  <2>1. shown # 0
    BY DEF OnPage
  <2> QED
    BY <1>1, <2>1, ShownOperation, OperationAssumption DEF IsOperation
<1> HIDE DEF op, v
<1> DEFINE curl == AsCurl(op, v.map, accept, q.authz)
<1>10. Twins(MediaTypes, curl, q.request) /\ (Plain(op) => Twins({"Accept"}, curl, q.request) /\ curl.body = q.request.body)
  <2> DEFINE args == v.map
  <2> HIDE DEF args
  <2>1. Recorded(op, args, q.chosen) /\ q.authz \in Authorizations
        /\ q.request = Sent(Request(op, args, FormOptions(a, q.chosen, IsFileUpload(op)), q.authz))
    BY <1>6, <1>7 DEF args
  <2>2. LET command == AsCurl(op, args, accept, q.authz) IN
        /\ Twins(MediaTypes, command, q.request)
        /\ Plain(op) => Twins({"Accept"}, command, q.request) /\ command.body = q.request.body
    BY <1>9, <2>1, CurlTwins
  <2> QED
    BY <2>2 DEF args
<1>11. view'[q.o].response.curl = curl
  BY <1>4
<1> HIDE DEF curl
<1> QED
  BY <1>8, <1>10, <1>11, SameHeaders DEF Twins

-----------------------------------------------------------------------------
(***************************************************************************)
(* The theorems.                                                           *)
(***************************************************************************)
(***************************************************************************)
(* The page, its views, the clients, the requests and the logins agree at  *)
(* every step of the router, the views and the login.                      *)
(***************************************************************************)
THEOREM PageInvariant == Spec => []PageInv
<1> QED
  BY PageInit, PageStep, PTL DEF Spec

(***************************************************************************)
(* Whichever load ends, in whatever order, render() and onLoadFailure()    *)
(* leave the newest client's description, or its failure, on the page.     *)
(***************************************************************************)
THEOREM PageShowsNewest == Spec => []PageTellsNewest
<1>1. PageInv => PageTellsNewest
  BY DEF PageInv
<1> QED
  BY <1>1, PageInvariant, PTL

(***************************************************************************)
(* A throbber that turns stands for a request under way, and the answer    *)
(* that showStatus() shows is to a request of that view which is over.     *)
(***************************************************************************)
THEOREM ThrobberTellsOfRequest == Spec => []ThrobberTells
<1>1. PageInv => ThrobberTells
  BY DEF PageInv
<1> QED
  BY <1>1, PageInvariant, PTL

(***************************************************************************)
(* After a login that nothing disturbed onOAuthComplete() has left every   *)
(* access icon as the scopes of that login and of its operation say.       *)
(***************************************************************************)
THEOREM IconsTellGrant == Spec => []IconsTellLastGrant
<1>1. PageInv => IconsTellLastGrant
  BY DEF PageInv
<1> QED
  BY <1>1, PageInvariant, PTL

(***************************************************************************)
(* load() and SwaggerAuthorizations.apply(): what was given stays given    *)
(* until a logout, and the requests carry it, and no other token.          *)
(***************************************************************************)
THEOREM GrantsAreKept ==
  ASSUME NoTokenParameter
  PROVE  Spec => []GrantsKept
<1>1. Init => RequestsCarry
  BY DEF Init, UiInit, RequestsCarry
<1>2. PageInv /\ CredentialsAgree /\ RequestsCarry /\ [Next]_vars => RequestsCarry'
  BY CarryStep
<1> QED
  BY <1>1, <1>2, PageInit, PageStep, AgreeStep, GrantsFollow, PTL DEF Spec

(***************************************************************************)
(* asCurl() puts the credentials on twice, has another Accept header and   *)
(* takes the media type from the arguments, not from the options: for      *)
(* every form its command has the path, query and other headers of the     *)
(* request that was sent, and its body and the media type chosen for it    *)
(* unless the form uploads a file or has a body beside form fields.        *)
(***************************************************************************)
THEOREM CurlCommandRepeats == Spec => CurlRepeatsRequest
<1>1. Init => RequestsServe
  BY DEF Init, UiInit, RequestsServe
<1>2. PageInv /\ CredentialsAgree /\ RequestsServe /\ [Next]_vars => RequestsServe'
  BY ServeStep
<1>3. PageInv /\ CredentialsAgree /\ RequestsServe /\ [Next]_vars => [RepeatsRequest]_vars
  BY RepeatStep
<1>4. CurlRepeatsRequest <=> [][RepeatsRequest]_vars
  BY DEF CurlRepeatsRequest, RepeatsRequest
<1> QED
  BY <1>1, <1>2, <1>3, <1>4, PageInit, PageStep, AgreeStep, PTL DEF Spec
=============================================================================
