------------------------- MODULE PluginStack_proofs -------------------------
(***************************************************************************)
(* Theorems about any stack of plugins, any number of overlapping requests *)
(* and any browser: what a context is after each hook of a step (Run), and *)
(* with it what a reply, the cookies and the copy it leaves can be.        *)
(***************************************************************************)
EXTENDS PluginStack, SequenceTheorems, WellFoundedInduction, TLAPS

Wires == [value : Requests, layers : Seq({"signed", "encrypted"})]
Cookies == [CookieNames -> Wires \cup {None}]
HeaderNames == {"cors", "helmet", "x-request-id", "www-authenticate", "content-type", "location"}
Sets == [status : Nat \cup {None}, headers : SUBSET HeaderNames, redirect : BOOLEAN, cookie : Cookies]
Contents == {"refusal", "problem", "text", "page", "apology"} \X Nat
Tags == Contents \X BOOLEAN
Responses == [is : {"Response"}, body : Contents \cup {None}, status : Nat,
              headers : SUBSET HeaderNames, encoded : BOOLEAN, tag : Tags \cup {None},
              vary : SUBSET {"origin", "accept-encoding"}, cookie : Cookies]
Values == [is : {"nothing"}] \cup [is : {"data"}, content : Contents, object : BOOLEAN] \cup Responses
Pages == [tag : Tags, body : Contents]
Asked == [id : Requests, cookies : Cookies, inClear : SUBSET CookieNames,
          token : Wires \cup {None}, copy : Pages \cup {None}, method : {"GET", "POST"},
          origin : {None, "listed", "other"}, gzip : BOOLEAN, credentials : {"good", "bad"},
          bearer : Tokens \cup {None},
          key : [header : {None, ""} \cup Keys, query : {None} \cup Keys] \cup {None},
          type : {"json", "multipart", "other", None}, size : Nat, declared : Int \cup {None}, garbled : BOOLEAN]
Contexts == [req : Asked, set : Sets, cookie : Cookies, answer : Responses \cup {None},
             thrown : Nat \cup {None}, pending : Values]

TypeOK ==
    /\ stack \in Stacks
    /\ at \in [Requests -> {"idle", "sent", "handling", "replied"}]
    /\ ctx \in [Requests -> Contexts \cup {None}]
    /\ answered \in [Requests -> Nat \cup {None}]
    /\ reply \in [Requests -> [response : Responses \cup {None}, byHook : BOOLEAN]]
    /\ received \in [Requests -> BOOLEAN]
    /\ version \in Nat
    /\ jar \in [CookieNames -> [wire : Wires, byHook : BOOLEAN] \cup {None}]
    /\ cache \in Pages \cup {None}


-----------------------------------------------------------------------------
(* What fails for some natural number fails first for one. *)

LEMMA LeastNatural ==
    ASSUME NEW T, T \subseteq Nat, T # {}
    PROVE  \E m \in T : \A n \in T : m <= n
  <1> DEFINE R == {ss \in Nat \X Nat : ss[1] < ss[2]}
  <1>1. IsWellFoundedOn(R, Nat)
    BY NatLessThanWellFounded DEF OpToRel
  <1>2. PICK m \in T : \A n \in T : <<n, m>> \notin R
    <2> HIDE DEF R
    <2>1. QED
      BY <1>1, WFMin
  <1>3. \A n \in T : ~(n < m)
    BY <1>2
  <1>4. QED
    BY <1>3

-----------------------------------------------------------------------------
(* The hooks of a step, one after another. *)
Running(f, step, hooks, c, n) ==
    f = [i \in 0..n |-> IF i = 0 THEN c ELSE Hook(step, hooks[i], f[i - 1])]

LEMMA RunningExists ==
    ASSUME NEW step, NEW hooks, NEW c, NEW N \in Nat
    PROVE  \E f : Running(f, step, hooks, c, N)
  <1> DEFINE Missing == {n \in Nat : ~\E f : Running(f, step, hooks, c, n)}
             Next1(d, i) == Hook(step, hooks[i], d)
  <1>1. SUFFICES ASSUME Missing # {} PROVE FALSE
    OBVIOUS
  <1>2. PICK n \in Missing : \A k \in Missing : n <= k
    <2> HIDE DEF Missing
    <2>1. QED
      BY <1>1, LeastNatural, Missing \subseteq Nat DEF Missing
  <1>3. CASE n = 0
    <2> DEFINE f == [k \in 0..0 |-> c]
    <2>1. Running(f, step, hooks, c, 0)
      BY DEF Running
    <2>2. QED
      BY <1>2, <1>3, <2>1
  <1>4. CASE n # 0
    <2>1. n - 1 \in Nat /\ n - 1 \notin Missing
      BY <1>2, <1>4
    <2>2. PICK g : Running(g, step, hooks, c, n - 1)
      BY <2>1
    <2> DEFINE f == [k \in 0..n |-> IF k = n THEN Next1(g[n - 1], n) ELSE g[k]]
    <2>3. ASSUME NEW k \in 0..n
          PROVE  f[k] = IF k = 0 THEN c ELSE Next1(f[k - 1], k)
      <3> HIDE DEF Next1
      <3>1. CASE k = n
        <4>1. k - 1 \in 0..n /\ k - 1 # n /\ k # 0
          BY <1>2, <1>4, <3>1
        <4>2. f[k - 1] = g[k - 1]
          BY <4>1
        <4>3. QED
          BY <3>1, <4>1, <4>2
      <3>2. CASE k # n
        <4>1. k \in 0..(n - 1) /\ f[k] = g[k]
          BY <1>2, <3>2
        <4>2. g[k] = IF k = 0 THEN c ELSE Next1(g[k - 1], k)
          BY <2>2, <4>1 DEF Running, Next1
        <4>3. k # 0 => f[k - 1] = g[k - 1]
          BY <1>2, <4>1
        <4>4. QED
          BY <4>1, <4>2, <4>3
      <3>3. QED
        BY <3>1, <3>2
    <2>4. Running(f, step, hooks, c, n)
      <3> DEFINE u == [k \in 0..n |-> IF k = 0 THEN c ELSE Next1(f[k - 1], k)]
      <3>1. f = [k \in 0..n |-> f[k]]
        OBVIOUS
      <3> HIDE DEF f, Next1
      <3>2. f = u
        BY <2>3, <3>1
      <3>3. QED
        BY <3>2 DEF Running, Next1
    <2>5. QED
      BY <1>2, <2>4
  <1>5. QED
    BY <1>3, <1>4

\* The contexts between the hooks of a step.
LEMMA RunUnfolds ==
    ASSUME NEW step, NEW hooks, NEW c, Len(hooks) \in Nat
    PROVE  \E f : /\ f[0] = c
                  /\ \A i \in 1..Len(hooks) : f[i] = Hook(step, hooks[i], f[i - 1])
                  /\ Run(step, hooks, c) = f[Len(hooks)]
  <1> DEFINE f == CHOOSE g : Running(g, step, hooks, c, Len(hooks))
  <1>1. Running(f, step, hooks, c, Len(hooks))
    BY RunningExists
  <1>2. Run(step, hooks, c) = f[Len(hooks)]
    BY DEF Run, Running
  <1> HIDE DEF f
  <1>3. f[0] = c /\ \A i \in 1..Len(hooks) : f[i] = Hook(step, hooks[i], f[i - 1])
    BY <1>1 DEF Running
  <1>4. QED
    BY <1>2, <1>3

\* What holds of the first context and is kept by each hook holds of the last.
LEMMA RunKeeps ==
    ASSUME NEW step, NEW hooks, NEW c, Len(hooks) \in Nat, NEW Good, c \in Good[0],
           \A i \in 1..Len(hooks) : \A d \in Good[i - 1] : Hook(step, hooks[i], d) \in Good[i]
    PROVE  Run(step, hooks, c) \in Good[Len(hooks)]
  <1>1. PICK f : /\ f[0] = c
                 /\ \A i \in 1..Len(hooks) : f[i] = Hook(step, hooks[i], f[i - 1])
                 /\ Run(step, hooks, c) = f[Len(hooks)]
    BY RunUnfolds
  <1> DEFINE Bad == {i \in 0..Len(hooks) : f[i] \notin Good[i]}
  <1>2. Bad = {}
    <2>1. SUFFICES ASSUME Bad # {} PROVE FALSE
      OBVIOUS
    <2>2. PICK i \in Bad : \A k \in Bad : i <= k
      <3>1. Bad \subseteq Nat
        OBVIOUS
      <3> HIDE DEF Bad
      <3>2. QED
        BY <2>1, <3>1, LeastNatural
    <2>3. i # 0
      BY <1>1, <2>2
    <2>4. i \in 1..Len(hooks) /\ i - 1 \in 0..Len(hooks) /\ i - 1 \notin Bad
      BY <2>2, <2>3
    <2>5. QED
      BY <1>1, <2>2, <2>4
  <1>3. Len(hooks) \in 0..Len(hooks)
    OBVIOUS
  <1>4. QED
    BY <1>1, <1>2, <1>3

-----------------------------------------------------------------------------
(* Cookies on the wire. *)
LEMMA StackFacts ==
    ASSUME stack \in Stacks
    PROVE  /\ stack.plugins \in Seq(PluginNames)
           /\ Len(stack.plugins) \in Nat /\ DOMAIN stack.plugins = 1..Len(stack.plugins)
           /\ \A i, j \in 1..Len(stack.plugins) : stack.plugins[i] = stack.plugins[j] => i = j
           /\ stack.signed \in BOOLEAN /\ stack.encrypted \in BOOLEAN
           /\ stack.schema \in BOOLEAN /\ stack.onError \in BOOLEAN /\ stack.node \in BOOLEAN
  <1> DEFINE plugins == stack.plugins
  <1>1. /\ plugins \in Seq(PluginNames)
        /\ \A i, j \in DOMAIN plugins : plugins[i] = plugins[j] => i = j
        /\ stack.signed \in BOOLEAN /\ stack.encrypted \in BOOLEAN
        /\ stack.schema \in BOOLEAN /\ stack.onError \in BOOLEAN /\ stack.node \in BOOLEAN
    BY StacksAssumption
  <1> HIDE DEF plugins
  <1>2. Len(plugins) \in Nat /\ DOMAIN plugins = 1..Len(plugins)
    BY <1>1, LenProperties
  <1>3. QED
    BY <1>1, <1>2 DEF plugins

LEMMA PairOfOnes == \A a, b : <<a>> \o <<b>> = <<a, b>>
  <1> SUFFICES ASSUME NEW a, NEW b PROVE <<a>> \o <<b>> = <<a, b>>
    OBVIOUS
  <1> DEFINE s == <<a>>
             t == <<b>>
             u == <<a, b>>
  <1>1. /\ s \in Seq({a, b}) /\ Len(s) = 1 /\ s[1] = a
        /\ t \in Seq({a, b}) /\ Len(t) = 1 /\ t[1] = b
        /\ u \in Seq({a, b}) /\ Len(u) = 2 /\ u[1] = a /\ u[2] = b
    OBVIOUS
  <1> HIDE DEF s, t, u
  <1>2. /\ s \o t \in Seq({a, b}) /\ Len(s \o t) = 2
        /\ \A i \in 1..2 : (s \o t)[i] = IF i <= 1 THEN s[i] ELSE t[i - 1]
    BY <1>1, ConcatProperties
  <1>3. \A i \in 1..2 : (s \o t)[i] = u[i]
    BY <1>1, <1>2
  <1>4. QED
    BY <1>1, <1>2, <1>3, SeqEqual DEF s, t, u

LEMMA PlainTyped ==
    ASSUME NEW v \in Requests
    PROVE  Plain(v) \in Wires /\ Plain(v).value = v /\ Plain(v).layers = <<>>
  BY DEF Plain, Wires

LEMMA UnwrappedTyped ==
    ASSUME NEW wire \in Wires \cup {None}, NEW layer
    PROVE  Unwrapped(wire, layer) \in Wires \cup {None}
  <1>1. CASE wire = None \/ wire.layers = <<>> \/ Head(wire.layers) # layer
    BY <1>1 DEF Unwrapped
  <1>2. CASE ~(wire = None \/ wire.layers = <<>> \/ Head(wire.layers) # layer)
    <2> DEFINE layers == wire.layers
    <2>1. wire \in Wires /\ layers \in Seq({"signed", "encrypted"}) /\ layers # <<>>
      BY <1>2 DEF Wires
    <2>2. Unwrapped(wire, layer) = [wire EXCEPT !.layers = Tail(layers)]
      BY <1>2 DEF Unwrapped
    <2> HIDE DEF layers
    <2>3. Tail(layers) \in Seq({"signed", "encrypted"})
      BY <2>1, HeadTailProperties
    <2>4. QED
      BY <2>1, <2>2, <2>3 DEF Wires
  <1>3. QED
    BY <1>1, <1>2

LEMMA UnprotectedTyped ==
    ASSUME NEW wire \in Wires \cup {None}
    PROVE  unprotectCookieValue(wire, stack) \in Wires \cup {None}
  <1> DEFINE decrypted == IF stack.encrypted THEN Unwrapped(wire, "encrypted") ELSE wire
  <1>1. decrypted \in Wires \cup {None}
    BY UnwrappedTyped
  <1>2. unprotectCookieValue(wire, stack) = IF stack.signed THEN Unwrapped(decrypted, "signed") ELSE decrypted
    BY DEF unprotectCookieValue
  <1> HIDE DEF decrypted
  <1>3. QED
    BY <1>1, <1>2, UnwrappedTyped

\* A layer that was put on comes off.
LEMMA LayerComesOff ==
    ASSUME NEW wire \in Wires, NEW layer \in {"signed", "encrypted"}, Wrapped(wire, layer) # None
    PROVE  Unwrapped(Wrapped(wire, layer), layer) = wire
  <1> DEFINE layers == wire.layers
             new == <<layer>> \o layers
  <1>1. layers \in Seq({"signed", "encrypted"}) /\ wire = [value |-> wire.value, layers |-> layers]
    BY DEF Wires
  <1>2. Wrapped(wire, layer) = [value |-> wire.value, layers |-> new]
    <2>1. Wrapped(wire, layer) = [wire EXCEPT !.layers = new]
      BY DEF Wrapped
    <2> HIDE DEF new, layers
    <2>2. QED
      BY <1>1, <2>1
  <1> HIDE DEF layers
  <1>3. new # <<>> /\ Head(new) = layer /\ Tail(new) = layers
    BY <1>1
  <1> HIDE DEF new
  <1> DEFINE wrapped == [value |-> wire.value, layers |-> new]
  <1>4. Unwrapped(Wrapped(wire, layer), layer) = [value |-> wire.value, layers |-> layers]
    <2>1. wrapped # None /\ wrapped.layers = new
      BY <1>2
    <2>2. Unwrapped(wrapped, layer) = [wrapped EXCEPT !.layers = Tail(new)]
      BY <1>3, <2>1 DEF Unwrapped
    <2>3. QED
      BY <1>2, <1>3, <2>2
  <1>5. QED
    BY <1>1, <1>4

LEMMA WrappedTyped ==
    ASSUME NEW wire \in Wires, NEW layer \in {"signed", "encrypted"}
    PROVE  Wrapped(wire, layer) \in Wires /\ Wrapped(wire, layer).value = wire.value
  <1> DEFINE layers == wire.layers
             new == <<layer>> \o layers
  <1>1. layers \in Seq({"signed", "encrypted"})
    BY DEF Wires
  <1>2. Wrapped(wire, layer) = [wire EXCEPT !.layers = new]
    BY DEF Wrapped
  <1> HIDE DEF layers
  <1>3. new \in Seq({"signed", "encrypted"})
    BY <1>1
  <1> HIDE DEF new
  <1>4. QED
    BY <1>2, <1>3 DEF Wires

LEMMA ProtectedTyped ==
    ASSUME NEW wire \in Wires
    PROVE  protectCookieValue(wire, stack) \in Wires /\ protectCookieValue(wire, stack).value = wire.value
  BY WrappedTyped DEF protectCookieValue

\* What is protected is read back as it was: the layers come off from the outside.
LEMMA ProtectionComesOff ==
    ASSUME NEW v \in Requests
    PROVE  /\ unprotectCookieValue(protectCookieValue(Plain(v), stack), stack) = Plain(v)
           /\ protectCookieValue(Plain(v), stack).value = v
  <1> DEFINE signed == IF stack.signed THEN Wrapped(Plain(v), "signed") ELSE Plain(v)
             wire == IF stack.encrypted THEN Wrapped(signed, "encrypted") ELSE signed
  <1>1. Plain(v) \in Wires /\ Plain(v) = [value |-> v, layers |-> <<>>]
    BY PlainTyped DEF Plain
  <1>2. Wrapped(Plain(v), "signed") = [value |-> v, layers |-> <<"signed">>]
    BY <1>1 DEF Wrapped
  <1>3. Wrapped(Plain(v), "encrypted") = [value |-> v, layers |-> <<"encrypted">>]
    BY <1>1 DEF Wrapped
  <1>4. Wrapped(Wrapped(Plain(v), "signed"), "encrypted") = [value |-> v, layers |-> <<"encrypted", "signed">>]
    <2>1. <<"encrypted">> \o <<"signed">> = <<"encrypted", "signed">>
      BY PairOfOnes
    <2>2. Wrapped([value |-> v, layers |-> <<"signed">>], "encrypted")
            = [value |-> v, layers |-> <<"encrypted">> \o <<"signed">>]
      BY DEF Wrapped
    <2>3. QED
      BY <1>2, <2>1, <2>2
  <1>5. /\ Wrapped(Plain(v), "signed") # None
        /\ Wrapped(Plain(v), "encrypted") # None
        /\ Wrapped(Wrapped(Plain(v), "signed"), "encrypted") # None
    BY <1>2, <1>3, <1>4, ClientsAssumption
  <1>6. signed \in Wires /\ signed.value = v
    BY <1>1, PlainTyped, WrappedTyped
  <1>7. (IF stack.encrypted THEN Unwrapped(wire, "encrypted") ELSE wire) = signed
    <2>1. stack.encrypted => Wrapped(signed, "encrypted") # None
      BY <1>5
    <2> HIDE DEF signed
    <2>2. QED
      BY <1>6, <2>1, LayerComesOff
  <1>8. (IF stack.signed THEN Unwrapped(signed, "signed") ELSE signed) = Plain(v)
    BY <1>1, <1>5, LayerComesOff
  <1>9. protectCookieValue(Plain(v), stack) = wire
    BY DEF protectCookieValue
  <1>10. unprotectCookieValue(wire, stack) = Plain(v)
    <2> DEFINE decrypted == IF stack.encrypted THEN Unwrapped(wire, "encrypted") ELSE wire
    <2>1. decrypted = signed
      BY <1>7
    <2>2. unprotectCookieValue(wire, stack) = IF stack.signed THEN Unwrapped(decrypted, "signed") ELSE decrypted
      BY DEF unprotectCookieValue
    <2> HIDE DEF wire, decrypted
    <2>3. QED
      BY <1>8, <2>1, <2>2
  <1>11. wire.value = v
    <2> HIDE DEF signed
    <2>1. QED
      BY <1>6, WrappedTyped
  <1>12. QED
    BY <1>9, <1>10, <1>11

-----------------------------------------------------------------------------
(* onRequest. *)
PlainCookies(cookies) ==
    \A n \in CookieNames : cookies[n] = None \/ \E v \in Requests : cookies[n] = Plain(v)
CookiesRead(req) ==
    [n \in CookieNames |-> IF req.cookies[n] = None THEN None
                           ELSE unprotectCookieValue(req.cookies[n], stack)]

\* Among the first i plugins is the one for cookies.
Seen(i) == \E j \in 1..i : stack.plugins[j] = "cookie"

\* The contexts of a request none of whose hooks has objected to anything, its
\* cookies read or not.
Unobjected(req, read) ==
    {c \in Contexts :
        /\ c.req = req /\ c.answer = None /\ c.thrown = None /\ c.pending = Nothing
        /\ c.set.status = None /\ c.set.redirect = FALSE
        /\ PlainCookies(c.set.cookie)
        /\ c.cookie = IF read THEN CookiesRead(req) ELSE NoCookies}

LEMMA NewContextTyped ==
    ASSUME NEW req \in Asked
    PROVE  NewContext(req) \in Unobjected(req, FALSE) /\ NewContext(req).set = NoSet
  <1>1. NoCookies \in Cookies
    BY DEF NoCookies, Cookies
  <1>2. NoSet \in Sets /\ NoSet.status = None /\ NoSet.redirect = FALSE /\ NoSet.cookie = NoCookies
    BY <1>1 DEF NoSet, Sets
  <1>3. Nothing \in Values
    BY DEF Nothing, Values
  <1>4. NewContext(req) \in Contexts
    BY <1>1, <1>2, <1>3 DEF NewContext, Contexts
  <1>5. PlainCookies(NoCookies)
    BY DEF PlainCookies, NoCookies
  <1>6. QED
    BY <1>2, <1>4, <1>5 DEF NewContext, Unobjected

LEMMA WithHeaderTyped ==
    ASSUME NEW c \in Contexts, NEW header \in HeaderNames
    PROVE  LET d == WithHeader(c, header)
           IN  /\ d \in Contexts
               /\ d.req = c.req /\ d.answer = c.answer /\ d.thrown = c.thrown
               /\ d.cookie = c.cookie /\ d.pending = c.pending
               /\ d.set.status = c.set.status /\ d.set.redirect = c.set.redirect
               /\ d.set.cookie = c.set.cookie
  <1> DEFINE set == [c.set EXCEPT !.headers = @ \cup {header}]
  <1>1. c.set \in Sets
    BY DEF Contexts
  <1>2. /\ set \in Sets /\ set.status = c.set.status /\ set.redirect = c.set.redirect
        /\ set.cookie = c.set.cookie
    BY <1>1 DEF Sets
  <1>3. WithHeader(c, header) = [c EXCEPT !.set = set]
    BY DEF WithHeader
  <1> HIDE DEF set
  <1>4. QED
    BY <1>2, <1>3 DEF Contexts

LEMMA WithStatusTyped ==
    ASSUME NEW c \in Contexts, NEW status \in Nat
    PROVE  LET d == WithStatus(c, status)
           IN  /\ d \in Contexts
               /\ d.req = c.req /\ d.answer = c.answer /\ d.thrown = c.thrown
               /\ d.cookie = c.cookie /\ d.pending = c.pending
               /\ d.set.status = status /\ d.set.redirect = c.set.redirect
               /\ d.set.cookie = c.set.cookie
  <1> DEFINE set == [c.set EXCEPT !.status = status]
  <1>1. c.set \in Sets
    BY DEF Contexts
  <1>2. /\ set \in Sets /\ set.status = status /\ set.redirect = c.set.redirect
        /\ set.cookie = c.set.cookie
    BY <1>1 DEF Sets
  <1>3. WithStatus(c, status) = [c EXCEPT !.set = set]
    BY DEF WithStatus
  <1> HIDE DEF set
  <1>4. QED
    BY <1>2, <1>3 DEF Contexts

LEMMA CookiesReadTyped ==
    ASSUME NEW req \in Asked
    PROVE  CookiesRead(req) \in Cookies
  <1>1. req.cookies \in [CookieNames -> Wires \cup {None}]
    BY DEF Asked, Cookies
  <1>2. \A n \in CookieNames : unprotectCookieValue(req.cookies[n], stack) \in Wires \cup {None}
    BY <1>1, UnprotectedTyped
  <1>3. QED
    BY <1>2 DEF CookiesRead, Cookies

LEMMA OnRequestKeeps ==
    ASSUME NEW req \in Asked, NEW read \in BOOLEAN, NEW c \in Unobjected(req, read), NEW plugin \in PluginNames
    PROVE  Hook("onRequest", plugin, c) \in Unobjected(req, read \/ plugin = "cookie")
  <1>1. Hook("onRequest", plugin, c) = OnRequest(plugin, c, stack)
    BY DEF Hook
  <1>2. c \in Contexts /\ c.req = req
    BY DEF Unobjected
  <1>3. CASE plugin = "cors"
    <2>1. OnRequest(plugin, c, stack) \in {c, WithHeader(c, "cors")}
      BY <1>3 DEF OnRequest, cors
    <2>2. "cors" \in HeaderNames
      BY DEF HeaderNames
    <2>3. WithHeader(c, "cors") \in Unobjected(req, read)
      BY <1>2, <2>2, WithHeaderTyped DEF Unobjected
    <2>4. QED
      BY <1>1, <1>3, <2>1, <2>3
  <1>4. CASE plugin = "helmet"
    <2>1. OnRequest(plugin, c, stack) = WithHeader(c, "helmet")
      BY <1>4 DEF OnRequest, helmet
    <2>2. "helmet" \in HeaderNames
      BY DEF HeaderNames
    <2>3. WithHeader(c, "helmet") \in Unobjected(req, read)
      BY <1>2, <2>2, WithHeaderTyped DEF Unobjected
    <2>4. QED
      BY <1>1, <1>4, <2>1, <2>3
  <1>5. CASE plugin = "cookie"
    <2>1. OnRequest(plugin, c, stack) = [c EXCEPT !.cookie = CookiesRead(req)]
      BY <1>2, <1>5 DEF OnRequest, readCookies, CookiesRead
    <2>2. CookiesRead(req) \in Cookies
      BY CookiesReadTyped
    <2>3. [c EXCEPT !.cookie = CookiesRead(req)] \in Unobjected(req, TRUE)
      BY <2>2 DEF Unobjected, Contexts
    <2>4. QED
      BY <1>1, <1>5, <2>1, <2>3
  <1>6. CASE plugin = "csrf"
    <2>1. CASE CsrfCookie(c) # None
      BY <1>1, <1>6, <2>1 DEF OnRequest, issueToken
    <2>2. CASE CsrfCookie(c) = None
      <3> DEFINE cookie == [c.set.cookie EXCEPT !["csrf"] = Plain(req.id)]
                 set == [c.set EXCEPT !.cookie = cookie]
      <3>1. OnRequest(plugin, c, stack) = [c EXCEPT !.set = set]
        BY <1>2, <1>6, <2>2 DEF OnRequest, issueToken
      <3>2. req.id \in Requests /\ Plain(req.id) \in Wires
        BY PlainTyped DEF Asked
      <3>3. c.set \in Sets /\ c.set.cookie \in Cookies /\ PlainCookies(c.set.cookie)
        BY DEF Unobjected, Contexts, Sets
      <3>4. cookie \in Cookies /\ PlainCookies(cookie)
        BY <3>2, <3>3 DEF Cookies, PlainCookies
      <3> HIDE DEF cookie
      <3>5. /\ set \in Sets /\ set.status = c.set.status /\ set.redirect = c.set.redirect
            /\ set.cookie = cookie
        BY <3>3, <3>4 DEF Sets
      <3> HIDE DEF set
      <3>6. [c EXCEPT !.set = set] \in Unobjected(req, read)
        BY <3>4, <3>5 DEF Unobjected, Contexts
      <3>7. QED
        BY <1>1, <1>6, <3>1, <3>6
    <2>3. QED
      BY <2>1, <2>2
  <1>7. CASE plugin \notin {"cors", "helmet", "cookie", "csrf"}
    BY <1>1, <1>7 DEF OnRequest
  <1>8. QED
    BY <1>3, <1>4, <1>5, <1>6, <1>7

LEMMA RequestedContext ==
    ASSUME stack \in Stacks, NEW req \in Asked
    PROVE  Requested(NewContext(req)) \in Unobjected(req, Seen(Len(stack.plugins)))
  <1> DEFINE n == Len(stack.plugins)
             Good == [i \in 0..n |-> Unobjected(req, Seen(i))]
  <1>1. n \in Nat /\ \A i \in 1..n : stack.plugins[i] \in PluginNames
    BY StackFacts, ElementOfSeq
  <1>2. NewContext(req) \in Good[0]
    <2>1. ~Seen(0)
      BY DEF Seen
    <2>2. Good[0] = Unobjected(req, Seen(0))
      BY <1>1
    <2>3. NewContext(req) \in Unobjected(req, Seen(0))
      BY <2>1, NewContextTyped DEF Unobjected
    <2>4. QED
      BY <2>2, <2>3
  <1>3. ASSUME NEW i \in 1..n, NEW d \in Good[i - 1]
        PROVE  Hook("onRequest", stack.plugins[i], d) \in Good[i]
    <2>1. d \in Unobjected(req, Seen(i - 1)) /\ Good[i] = Unobjected(req, Seen(i))
      BY <1>1, <1>3
    <2>2. Seen(i) <=> Seen(i - 1) \/ stack.plugins[i] = "cookie"
      BY <1>1 DEF Seen
    <2>3. Seen(i - 1) \in BOOLEAN
      BY DEF Seen
    <2>4. Hook("onRequest", stack.plugins[i], d) \in Unobjected(req, Seen(i - 1) \/ stack.plugins[i] = "cookie")
      BY <1>1, <2>1, <2>3, OnRequestKeeps
    <2>5. QED
      BY <2>1, <2>2, <2>4 DEF Unobjected
  <1> HIDE DEF Good
  <1>4. Run("onRequest", stack.plugins, NewContext(req)) \in Good[n]
    BY <1>1, <1>2, <1>3, RunKeeps
  <1>5. QED
    BY <1>1, <1>4 DEF Good, Requested

-----------------------------------------------------------------------------
(* The body. *)

\* No body past the limit of the application, as far as it is read.
Measured(req) ==
    req.method = "POST" =>
        /\ req.declared # None => req.declared \in 0..BodyLimit \/ (stack.schema /\ req.type = None)
        /\ stack.schema /\ req.type \in ReadTypes => req.size <= BodyLimit

LEMMA BodyIsMeasured ==
    ASSUME stack \in Stacks, NEW c, c.req \in Asked, IsFramed(c.req)
    PROVE  \/ Parsed(c) = c /\ Measured(c.req)
           \/ \E status \in {400, 411, 413} : Parsed(c) = Throws(c, status)
  <1> DEFINE req == c.req
             status == IF req.method # "POST" THEN None
                       ELSE IF stack.schema THEN parseBody(req, BodyLimit)
                       ELSE assertMutatingBodyLimit(req, BodyLimit)
  <1>1. /\ req.size \in Nat /\ req.declared \in Int \cup {None}
        /\ req.type \in {"json", "multipart", "other", None}
        /\ req.method \in {"GET", "POST"} /\ req.declared \in {None, req.size, -1}
    BY DEF Asked, IsFramed
  <1>2. /\ None \notin Nat /\ BodyLimit \in Nat /\ 400 # None /\ 411 # None /\ 413 # None
        /\ None \notin ReadTypes
    BY ExchangeAssumption
  <1>3. Parsed(c) = IF status = None THEN c ELSE Throws(c, status)
    BY DEF Parsed
  <1>4. CASE req.method # "POST"
    <2>1. status = None /\ Measured(req)
      BY <1>4 DEF Measured
    <2>2. QED
      BY <1>3, <2>1
  <1>5. CASE req.method = "POST" /\ stack.schema
    <2>1. status = parseBody(req, BodyLimit)
      BY <1>5
    <2>2. status \in {None, 400, 411, 413}
      BY <2>1, <1>1 DEF parseBody, ReadText
    <2>3. ASSUME status = None PROVE Measured(req)
      <3>1. parseBody(req, BodyLimit) = None
        BY <2>1, <2>3
      <3>2. CASE req.type = None
        BY <1>2, <1>5, <3>2 DEF Measured
      <3>3. CASE req.type # None
        <4>1. req.declared # None => ~(req.declared < 0) /\ ~(req.declared > BodyLimit)
          BY <1>2, <3>1, <3>3 DEF parseBody
        <4>2. req.declared # None => req.declared \in 0..BodyLimit /\ req.declared = req.size
          BY <1>1, <1>2, <4>1
        <4>3. CASE req.type = "json"
          <5>1. ReadText(req, BodyLimit) = None
            BY <1>1, <3>1, <3>3, <4>1, <4>3 DEF parseBody
          <5>2. ~(req.size > BodyLimit)
            BY <1>2, <5>1 DEF ReadText
          <5>3. QED
            BY <1>1, <1>2, <4>2, <5>2 DEF Measured
        <4>4. CASE req.type = "multipart"
          <5>1. req.declared # None
            BY <1>2, <3>1, <3>3, <4>4 DEF parseBody
          <5>2. QED
            BY <4>2, <5>1 DEF Measured
        <4>5. CASE req.type = "other"
          BY <4>2, <4>5 DEF Measured, ReadTypes
        <4>6. QED
          BY <1>1, <3>3, <4>3, <4>4, <4>5
      <3>4. QED
        BY <3>2, <3>3
    <2> HIDE DEF status
    <2>4. QED
      BY <1>3, <2>2, <2>3
  <1>6. CASE req.method = "POST" /\ ~stack.schema
    <2>1. status = assertMutatingBodyLimit(req, BodyLimit)
      BY <1>6
    <2>2. status \in {None, 400, 413}
      BY <2>1 DEF assertMutatingBodyLimit
    <2>3. ASSUME status = None PROVE Measured(req)
      <3>1. req.declared # None => ~(req.declared < 0) /\ ~(req.declared > BodyLimit)
        BY <1>2, <1>6, <2>1, <2>3 DEF assertMutatingBodyLimit
      <3>2. QED
        BY <1>1, <1>2, <1>6, <3>1 DEF Measured
    <2> HIDE DEF status
    <2>4. QED
      BY <1>3, <2>2, <2>3
  <1>7. QED
    BY <1>4, <1>5, <1>6

-----------------------------------------------------------------------------
(* beforeHandle. *)

\* What a guard lets through.
Passes(hook, req) ==
    /\ hook = "basicAuth" => req.credentials = "good"
    /\ hook = "csrf" => (req.method = "POST" => req.token # None)
    /\ hook = "bodyLimit" =>
        (req.method = "POST" /\ req.declared # None =>
            \A i \in DOMAIN stack.rules :
                Applies(stack.rules[i], req)
                    /\ (\A j \in DOMAIN stack.rules : j > i => ~Applies(stack.rules[j], req))
                => req.declared <= stack.rules[i].maxSize)
    /\ hook = "jwt" => /\ req.bearer # None
                       /\ req.bearer.signature = "good"
                       /\ req.bearer.exp >= stack.now
    /\ hook = "bearer" => req.bearer # None /\ req.bearer.shape # "empty"
    /\ hook = "apiKey" => {req.key.header, req.key.query} \cap stack.keys # {}

\* The browser echoes the cookie it has.
EchoesCookie(req) == req.token # None => req.token = req.cookies["csrf"]

\* The contexts of a request before the handler: a 403 is for a browser without a
\* token, or one whose cookie is protected.
Carried(req) ==
    {c \in Contexts :
        /\ c.req = req /\ c.pending = Nothing
        /\ c.set.redirect = FALSE
        /\ PlainCookies(c.set.cookie)
        /\ c.cookie = IF Holds(stack, "cookie") THEN CookiesRead(req) ELSE NoCookies
        /\ c.set.status = 403 => req.token = None \/ Protected(stack)}

\* The first i guards have let the request through,
Open(req, i) ==
    {c \in Carried(req) :
        /\ c.answer = None /\ c.thrown = None /\ c.set.status = None
        /\ \A j \in 1..i : Passes(GuardHooks[j], req)}
\* or one of them has refused it,
Refused(req) ==
    {c \in Carried(req) :
        /\ c.thrown = None
        /\ \E status \in RefusalStatuses : c.answer = Refusal(status) /\ c.set.status \in {None, status}}
\* or could not say so.
Broken(req) == {c \in Carried(req) : c.answer = None /\ c.thrown = 500}

LEMMA RefusalTyped ==
    ASSUME NEW status \in RefusalStatuses
    PROVE  Refusal(status) \in Responses /\ Refusal(status) # None /\ Refusal(status).is = "Response"
  <1>1. NoCookies \in Cookies
    BY DEF NoCookies, Cookies
  <1>2. <<"refusal", status>> \in Contents /\ {"content-type"} \in SUBSET HeaderNames /\ status \in Nat
    BY DEF Contents, HeaderNames, RefusalStatuses
  <1>3. QED
    BY <1>1, <1>2, NoneIsNoAnswer DEF Refusal, Response, Responses

LEMMA RefusesKeeps ==
    ASSUME NEW req, NEW c \in Carried(req), c.answer = None, c.thrown = None,
           NEW status \in RefusalStatuses, c.set.status \in {None, status}
    PROVE  Refuses(c, status, stack) \in Refused(req) \cup Broken(req)
  <1> DEFINE answer == Refusal(status)
  <1>1. answer \in Responses
    BY RefusalTyped
  <1>2. CASE CanJson(stack.node)
    <2>1. Refuses(c, status, stack) = [c EXCEPT !.answer = answer]
      BY <1>2 DEF Refuses
    <2> HIDE DEF answer
    <2>2. [c EXCEPT !.answer = answer] \in Carried(req)
      BY <1>1 DEF Carried, Contexts
    <2>3. /\ [c EXCEPT !.answer = answer].answer = answer
          /\ [c EXCEPT !.answer = answer].thrown = None
          /\ [c EXCEPT !.answer = answer].set.status \in {None, status}
      BY DEF Carried, Contexts
    <2>4. QED
      BY <2>1, <2>2, <2>3 DEF Refused, answer
  <1>3. CASE ~CanJson(stack.node)
    <2>1. Refuses(c, status, stack) = [c EXCEPT !.thrown = 500]
      BY <1>3 DEF Refuses, Throws
    <2>2. [c EXCEPT !.thrown = 500] \in Carried(req)
      BY DEF Carried, Contexts
    <2>3. QED
      BY <2>1, <2>2 DEF Broken, Carried, Contexts
  <1>4. QED
    BY <1>2, <1>3

\* A token that is echoed is the one csrf compares it with, unless cookies are protected.
LEMMA EchoMatches ==
    ASSUME stack \in Stacks, NEW req \in Asked, EchoesCookie(req), NEW c \in Carried(req)
    PROVE  TokenMatches(c) \/ req.token = None \/ Protected(stack)
  <1> SUFFICES ASSUME req.token # None, ~Protected(stack) PROVE TokenMatches(c)
    OBVIOUS
  <1>1. c.req = req /\ "csrf" \in CookieNames /\ req.token = req.cookies["csrf"]
    BY ExchangeAssumption DEF Carried, EchoesCookie
  <1>2. c.cookie["csrf"] \in {None, req.cookies["csrf"]}
    <2>1. CASE Holds(stack, "cookie")
      <3>1. ~stack.signed /\ ~stack.encrypted
        BY <2>1 DEF Protected
      <3>2. unprotectCookieValue(req.cookies["csrf"], stack) = req.cookies["csrf"]
        BY <3>1 DEF unprotectCookieValue
      <3>3. c.cookie = CookiesRead(req)
        BY <2>1 DEF Carried
      <3>4. QED
        BY <1>1, <3>2, <3>3 DEF CookiesRead
    <2>2. CASE ~Holds(stack, "cookie")
      BY <1>1, <2>2 DEF Carried, NoCookies
    <2>3. QED
      BY <2>1, <2>2
  <1>3. CsrfCookie(c) = req.token
    BY <1>1, <1>2 DEF CsrfCookie
  <1>4. QED
    BY <1>1, <1>3 DEF TokenMatches

LEMMA LengthIsChecked ==
    ASSUME stack \in Stacks, NEW req \in Asked,
           assertMutatingBodyLimit(req, resolveBodyLimit(req, stack)) = None
    PROVE  Passes("bodyLimit", req)
  <1> SUFFICES ASSUME req.method = "POST", req.declared # None,
                      NEW i \in DOMAIN stack.rules, Applies(stack.rules[i], req),
                      \A j \in DOMAIN stack.rules : j > i => ~Applies(stack.rules[j], req)
               PROVE  req.declared <= stack.rules[i].maxSize
    BY DEF Passes
  <1> DEFINE applying == {k \in DOMAIN stack.rules : Applies(stack.rules[k], req)}
             Last(k) == \A j \in applying : j <= k
  <1>1. DOMAIN stack.rules \subseteq Nat /\ stack.rules[i].maxSize \in Nat
    BY StacksAssumption
  <1>2. i \in applying /\ Last(i)
    BY <1>1
  <1>3. \A k \in applying : Last(k) => k = i
    BY <1>1, <1>2
  <1>4. (CHOOSE k \in applying : Last(k)) = i
    <2> HIDE DEF applying, Last
    <2>1. QED
      BY <1>2, <1>3
  <1>5. resolveBodyLimit(req, stack) = stack.rules[i].maxSize
    BY <1>2, <1>4 DEF resolveBodyLimit
  <1>6. req.declared \in Int /\ 400 # None /\ 413 # None
    <2>1. req.declared \in Int \cup {None}
      BY DEF Asked
    <2>2. 400 # None /\ 413 # None
      BY ExchangeAssumption
    <2>3. QED
      BY <2>1, <2>2
  <1>7. ~(req.declared > stack.rules[i].maxSize)
    BY <1>5, <1>6, ExchangeAssumption DEF assertMutatingBodyLimit
  <1>8. QED
    BY <1>1, <1>6, <1>7

LEMMA GuardHooksFacts ==
    ASSUME stack \in Stacks
    PROVE  /\ Len(GuardHooks) \in Nat
           /\ \A i \in 1..Len(GuardHooks) : GuardHooks[i] \in PluginNames \cup Flags
           /\ \A plugin : Holds(stack, plugin) => \E i \in 1..Len(GuardHooks) : GuardHooks[i] = plugin
           /\ stack.flag # None => \E i \in 1..Len(GuardHooks) : GuardHooks[i] = stack.flag
  <1> DEFINE H == PluginNames \cup Flags
             plugins == stack.plugins
             macro == IF stack.flag # None THEN <<stack.flag>> ELSE <<>>
  <1>1. plugins \in Seq(H) /\ Len(plugins) \in Nat /\ DOMAIN plugins = 1..Len(plugins)
    BY StackFacts
  <1>2. macro \in Seq(H) /\ Len(macro) \in Nat /\ (stack.flag # None => Len(macro) = 1 /\ macro[1] = stack.flag)
    <2>1. stack.flag \in Flags \cup {None}
      BY StacksAssumption
    <2>2. CASE stack.flag = None
      BY <2>2
    <2>3. CASE stack.flag # None
      <3>1. macro = <<stack.flag>> /\ stack.flag \in H
        BY <2>1, <2>3
      <3> HIDE DEF H, macro
      <3>2. QED
        BY <3>1
    <2>4. QED
      BY <2>2, <2>3
  <1>3. GuardHooks = plugins \o macro
    BY DEF GuardHooks
  <1>4. \A plugin : Holds(stack, plugin) => \E i \in 1..Len(plugins) : plugins[i] = plugin
    BY <1>1 DEF Holds
  <1> HIDE DEF H, plugins, macro
  <1>5. /\ GuardHooks \in Seq(H)
        /\ Len(GuardHooks) = Len(plugins) + Len(macro)
        /\ \A i \in 1..(Len(plugins) + Len(macro)) :
              GuardHooks[i] = IF i <= Len(plugins) THEN plugins[i] ELSE macro[i - Len(plugins)]
    BY <1>1, <1>2, <1>3, ConcatProperties
  <1>6. Len(GuardHooks) \in Nat /\ \A i \in 1..Len(GuardHooks) : GuardHooks[i] \in H
    BY <1>1, <1>2, <1>5, ElementOfSeq
  <1>7. ASSUME NEW plugin, Holds(stack, plugin)
        PROVE  \E i \in 1..Len(GuardHooks) : GuardHooks[i] = plugin
    <2>1. PICK i \in 1..Len(plugins) : plugins[i] = plugin
      BY <1>4, <1>7
    <2>2. i \in 1..(Len(plugins) + Len(macro)) /\ i <= Len(plugins)
      BY <1>1, <1>2
    <2>3. QED
      BY <1>5, <2>1, <2>2
  <1>8. ASSUME stack.flag # None
        PROVE  \E i \in 1..Len(GuardHooks) : GuardHooks[i] = stack.flag
    <2>1. Len(macro) = 1 /\ macro[1] = stack.flag
      BY <1>2, <1>8
    <2>2. /\ Len(plugins) + 1 \in 1..(Len(plugins) + Len(macro))
          /\ ~(Len(plugins) + 1 <= Len(plugins)) /\ Len(plugins) + 1 - Len(plugins) = 1
      BY <1>1, <2>1
    <2>3. GuardHooks[Len(plugins) + 1] = stack.flag
      BY <1>5, <2>1, <2>2
    <2>4. QED
      BY <1>5, <2>2, <2>3
  <1>9. QED
    BY <1>6, <1>7, <1>8 DEF H

\* One guard: it lets the request through, or refuses it, or fails to say so.
LEMMA GuardDecides ==
    ASSUME stack \in Stacks, NEW req \in Asked, EchoesCookie(req), NEW c \in Carried(req),
           c.answer = None, c.thrown = None, c.set.status = None,
           NEW hook \in PluginNames \cup Flags
    PROVE  LET d == BeforeHandle(hook, c, stack)
           IN  \/ /\ d \in Carried(req) /\ d.answer = None /\ d.thrown = None /\ d.set.status = None
                  /\ Passes(hook, req)
               \/ d \in Refused(req) \cup Broken(req)
  <1> DEFINE d == BeforeHandle(hook, c, stack)
  <1>1. c \in Contexts /\ c.req = req
    BY DEF Carried
  <1>2. CASE hook = "requestId"
    <2>1. d = WithHeader(c, "x-request-id") /\ "x-request-id" \in HeaderNames
      BY <1>2 DEF BeforeHandle, requestId, HeaderNames
    <2>2. d \in Carried(req) /\ d.answer = None /\ d.thrown = None /\ d.set.status = None
      BY <1>1, <2>1, WithHeaderTyped DEF Carried
    <2>3. Passes(hook, req)
      BY <1>2 DEF Passes
    <2>4. QED
      BY <2>2, <2>3
  <1>3. CASE hook = "csrf"
    <2>1. d = checkToken(c, stack)
      BY <1>3 DEF BeforeHandle
    <2>2. CASE req.method # "POST" \/ TokenMatches(c)
      <3>1. d = c
        BY <1>1, <2>1, <2>2 DEF checkToken
      <3>2. TokenMatches(c) => req.token # None
        BY <1>1 DEF TokenMatches
      <3>3. Passes(hook, req)
        BY <1>3, <2>2, <3>2 DEF Passes
      <3>4. QED
        BY <3>1, <3>3
    <2>3. CASE ~(req.method # "POST" \/ TokenMatches(c))
      <3> DEFINE e == WithStatus(c, 403)
      <3>1. d = Refuses(e, 403, stack)
        BY <1>1, <2>1, <2>3 DEF checkToken
      <3>2. req.token = None \/ Protected(stack)
        BY <2>3, EchoMatches
      <3>3. e \in Carried(req) /\ e.answer = None /\ e.thrown = None /\ e.set.status = 403
        BY <1>1, <3>2, WithStatusTyped DEF Carried
      <3>4. 403 \in RefusalStatuses
        BY DEF RefusalStatuses
      <3> HIDE DEF e, d
      <3>5. QED
        BY <3>1, <3>3, <3>4, RefusesKeeps DEF d
    <2>4. QED
      BY <2>2, <2>3
  <1>4. CASE hook = "basicAuth"
    <2>1. d = basicAuth(c, stack)
      BY <1>4 DEF BeforeHandle
    <2>2. CASE req.credentials = "good"
      <3>1. d = c
        BY <1>1, <2>1, <2>2 DEF basicAuth
      <3>2. Passes(hook, req)
        BY <1>4, <2>2 DEF Passes
      <3>3. QED
        BY <3>1, <3>2
    <2>3. CASE req.credentials # "good"
      <3> DEFINE e == WithStatus(c, 401)
                 f == WithHeader(e, "www-authenticate")
      <3>1. d = Refuses(f, 401, stack)
        BY <1>1, <2>1, <2>3 DEF basicAuth
      <3>2. e \in Carried(req) /\ e.answer = None /\ e.thrown = None /\ e.set.status = 401
        BY <1>1, WithStatusTyped DEF Carried
      <3> HIDE DEF e
      <3>3. f \in Carried(req) /\ f.answer = None /\ f.thrown = None /\ f.set.status = 401
        <4>1. "www-authenticate" \in HeaderNames /\ e \in Contexts
          BY <3>2 DEF HeaderNames, Carried
        <4>2. QED
          BY <3>2, <4>1, WithHeaderTyped DEF Carried
      <3>4. 401 \in RefusalStatuses
        BY DEF RefusalStatuses
      <3> HIDE DEF f, d
      <3>5. QED
        BY <3>1, <3>3, <3>4, RefusesKeeps DEF d
    <2>4. QED
      BY <2>2, <2>3
  <1>5. CASE hook = "bodyLimit"
    <2> DEFINE status == assertMutatingBodyLimit(req, resolveBodyLimit(req, stack))
    <2>1. d = IF status = None THEN c ELSE Refuses(WithStatus(c, status), status, stack)
      BY <1>1, <1>5 DEF BeforeHandle, checkLength
    <2>2. status \in {None, 400, 413}
      BY DEF assertMutatingBodyLimit
    <2>3. CASE status = None
      <3>1. Passes(hook, req)
        BY <1>5, <2>3, LengthIsChecked
      <3>2. QED
        BY <2>1, <2>3, <3>1
    <2>4. CASE status # None
      <3> DEFINE e == WithStatus(c, status)
      <3>1. status \in RefusalStatuses /\ status \in Nat /\ status # 403 /\ d = Refuses(e, status, stack)
        BY <2>1, <2>2, <2>4 DEF RefusalStatuses
      <3> HIDE DEF status
      <3>2. e \in Carried(req) /\ e.answer = None /\ e.thrown = None /\ e.set.status = status
        BY <1>1, <3>1, WithStatusTyped DEF Carried
      <3> HIDE DEF e, d
      <3>3. QED
        BY <3>1, <3>2, RefusesKeeps DEF d
    <2>5. QED
      BY <2>3, <2>4
  <1>6. CASE hook = "jwt"
    <2> DEFINE verdict == IF req.bearer = None THEN "null" ELSE verifyJwt(req.bearer, stack.now)
    <2>1. d = CASE verdict = "payload" -> c
                [] verdict = "throws" -> Throws(c, 500)
                [] OTHER -> Refuses(c, 401, stack)
      BY <1>1, <1>6 DEF BeforeHandle, jwtResolve
    <2>2. CASE verdict = "payload"
      <3>1. req.bearer # None /\ verifyJwt(req.bearer, stack.now) = "payload"
        BY <2>2
      <3>2. req.bearer.signature = "good" /\ ~(req.bearer.exp < stack.now)
        BY <3>1 DEF verifyJwt
      <3>3. req.bearer.exp \in Int /\ stack.now \in Int
        BY <3>1, StacksAssumption, ClientsAssumption DEF Asked
      <3>4. Passes(hook, req)
        BY <1>6, <3>1, <3>2, <3>3 DEF Passes
      <3> HIDE DEF verdict
      <3>5. d = c
        BY <2>1, <2>2
      <3>6. QED
        BY <3>4, <3>5
    <2>3. CASE verdict = "throws"
      <3> HIDE DEF verdict
      <3>1. d = Throws(c, 500)
        BY <2>1, <2>3
      <3>2. Throws(c, 500) \in Broken(req)
        BY DEF Throws, Broken, Carried, Contexts
      <3>3. QED
        BY <3>1, <3>2
    <2>4. CASE verdict \notin {"payload", "throws"}
      <3> HIDE DEF verdict
      <3>1. d = Refuses(c, 401, stack) /\ 401 \in RefusalStatuses
        BY <2>1, <2>4 DEF RefusalStatuses
      <3> HIDE DEF d
      <3>2. QED
        BY <3>1, RefusesKeeps DEF d
    <2>5. QED
      BY <2>2, <2>3, <2>4
  <1>7. CASE hook = "bearer"
    <2>1. d = IF req.bearer # None /\ req.bearer.shape # "empty" THEN c ELSE Refuses(c, 401, stack)
      BY <1>1, <1>7 DEF BeforeHandle, bearerResolve
    <2>2. CASE req.bearer # None /\ req.bearer.shape # "empty"
      BY <1>7, <2>1, <2>2 DEF Passes
    <2>3. CASE ~(req.bearer # None /\ req.bearer.shape # "empty")
      <3>1. d = Refuses(c, 401, stack) /\ 401 \in RefusalStatuses
        BY <2>1, <2>3 DEF RefusalStatuses
      <3> HIDE DEF d
      <3>2. QED
        BY <3>1, RefusesKeeps DEF d
    <2>4. QED
      BY <2>2, <2>3
  <1>8. CASE hook = "apiKey"
    <2>1. d = IF extractKey(req, stack) \in stack.keys THEN c ELSE Refuses(c, 401, stack)
      BY <1>1, <1>8 DEF BeforeHandle, apiKeyResolve
    <2>2. CASE extractKey(req, stack) \in stack.keys
      <3>1. extractKey(req, stack) \in {req.key.header, req.key.query, None}
        BY DEF extractKey
      <3>2. None \notin stack.keys
        BY StacksAssumption
      <3>3. Passes(hook, req)
        BY <1>8, <2>2, <3>1, <3>2 DEF Passes
      <3>4. QED
        BY <2>1, <2>2, <3>3
    <2>3. CASE extractKey(req, stack) \notin stack.keys
      <3>1. d = Refuses(c, 401, stack) /\ 401 \in RefusalStatuses
        BY <2>1, <2>3 DEF RefusalStatuses
      <3> HIDE DEF d
      <3>2. QED
        BY <3>1, RefusesKeeps DEF d
    <2>4. QED
      BY <2>2, <2>3
  <1>9. CASE hook \notin {"requestId", "csrf", "basicAuth", "bodyLimit", "jwt", "bearer", "apiKey"}
    <2>1. d = c
      BY <1>9 DEF BeforeHandle
    <2>2. Passes(hook, req)
      BY <1>9 DEF Passes
    <2>3. QED
      BY <2>1, <2>2
  <1>10. QED
    BY <1>2, <1>3, <1>4, <1>5, <1>6, <1>7, <1>8, <1>9

\* All the guards: the request is refused, or every one of them has let it through.
LEMMA GuardedContext ==
    ASSUME stack \in Stacks, NEW req \in Asked, EchoesCookie(req), NEW c \in Open(req, 0)
    PROVE  Guarded(c) \in Open(req, Len(GuardHooks)) \cup Refused(req) \cup Broken(req)
  <1> DEFINE n == Len(GuardHooks)
             Ended == Refused(req) \cup Broken(req)
             Good == [i \in 0..n |-> Open(req, i) \cup Ended]
  <1>1. n \in Nat /\ \A i \in 1..n : GuardHooks[i] \in PluginNames \cup Flags
    BY GuardHooksFacts
  <1>2. c \in Good[0]
    BY <1>1
  <1>3. ASSUME NEW i \in 1..n, NEW d \in Good[i - 1]
        PROVE  Hook("beforeHandle", GuardHooks[i], d) \in Good[i]
    <2> DEFINE hook == GuardHooks[i]
               e == BeforeHandle(hook, d, stack)
    <2>1. d \in Open(req, i - 1) \cup Ended /\ Good[i] = Open(req, i) \cup Ended
      BY <1>1, <1>3
    <2>2. Hook("beforeHandle", hook, d) = IF d.answer # None \/ d.thrown # None THEN d ELSE e
      BY DEF Hook, TakeAnswer
    <2>3. CASE d \in Ended
      <3>1. d.answer # None \/ d.thrown # None
        <4>1. 500 # None
          BY ExchangeAssumption
        <4>2. QED
          BY <2>3, <4>1, RefusalTyped DEF Refused, Broken
      <3>2. QED
        BY <2>1, <2>2, <2>3, <3>1
    <2>4. CASE d \in Open(req, i - 1)
      <3>1. d \in Carried(req) /\ d.answer = None /\ d.thrown = None /\ d.set.status = None
        BY <2>4 DEF Open
      <3>2. hook \in PluginNames \cup Flags
        BY <1>1
      <3>3. \/ /\ e \in Carried(req) /\ e.answer = None /\ e.thrown = None /\ e.set.status = None
               /\ Passes(hook, req)
            \/ e \in Ended
        <4> HIDE DEF hook
        <4>1. QED
          BY <3>1, <3>2, GuardDecides
      <3>4. Hook("beforeHandle", hook, d) = e
        BY <2>2, <3>1
      <3>5. CASE e \in Ended
        BY <2>1, <3>4, <3>5
      <3>6. CASE /\ e \in Carried(req) /\ e.answer = None /\ e.thrown = None /\ e.set.status = None
                 /\ Passes(hook, req)
        <4>1. \A j \in 1..i : j = i \/ j \in 1..(i - 1)
          BY <1>1
        <4>2. \A j \in 1..(i - 1) : Passes(GuardHooks[j], req)
          BY <2>4 DEF Open
        <4>3. \A j \in 1..i : Passes(GuardHooks[j], req)
          BY <3>6, <4>1, <4>2
        <4> HIDE DEF e
        <4>4. e \in Open(req, i)
          BY <3>6, <4>3 DEF Open
        <4>5. QED
          BY <2>1, <3>4, <4>4
      <3>7. QED
        BY <3>3, <3>5, <3>6
    <2>5. QED
      BY <2>1, <2>3, <2>4
  <1> HIDE DEF Good
  <1>4. Run("beforeHandle", GuardHooks, c) \in Good[n]
    BY <1>1, <1>2, <1>3, RunKeeps
  <1>5. QED
    BY <1>1, <1>4 DEF Good, Guarded

-----------------------------------------------------------------------------
(* mapResponse. *)
PageTag(tag, v) == tag[1] = <<"page", v>>

\* The validator a request asks with is that of the body it came with.
CopyIsNamed(req) == req.copy # None => req.copy.tag[1] = req.copy.body

\* What a refusal is while the hooks map it: the refusal, or that the copy is it,
RefusalForms(req, status) ==
    {res \in Responses :
        /\ res.encoded = FALSE /\ res.cookie = NoCookies
        /\ \/ /\ res.body = <<"refusal", status>> /\ res.status = status
              /\ res.tag # None => res.tag[1] = res.body
           \/ /\ res.body = None /\ res.status = 304
              /\ req.copy # None /\ req.copy.body = <<"refusal", status>>}

\* and the reply with version v of the page: the page, or that the copy is this page.
IsPage(res, req, v) ==
    \/ /\ res.body = <<"page", v>> /\ res.status = 200
       /\ res.tag # None => PageTag(res.tag, v)
       /\ res.encoded => req.gzip
    \/ /\ res.status = 304 /\ res.body = None
       /\ req.copy # None /\ req.copy.body = <<"page", v>>
PageForms(req, v) ==
    {value \in Values : /\ AsResponse(value) \in Responses /\ AsResponse(value).cookie = NoCookies
                        /\ IsPage(AsResponse(value), req, v)}

\* A set of values that the hooks map into itself.
Closed(F, req) ==
    \A c \in Contexts : c.req = req /\ c.pending \in F =>
        /\ Tagged(c, stack) \in F
        /\ req.gzip => Encoded(c, stack) \in F

LEMMA AsResponseOfResponse ==
    ASSUME NEW res \in Responses
    PROVE  res \in Values /\ AsResponse(res) = res
  <1>1. res.is = "Response"
    BY DEF Responses
  <1>2. QED
    BY <1>1 DEF AsResponse, Values

\* A 304 with a tag.
LEMMA KnownTyped ==
    ASSUME NEW tag \in Tags
    PROVE  LET known == [Response(None, 304, {}) EXCEPT !.tag = tag]
           IN  /\ known \in Responses /\ known.body = None /\ known.status = 304
               /\ known.encoded = FALSE /\ known.cookie = NoCookies
  <1> DEFINE bare == Response(None, 304, {})
             known == [bare EXCEPT !.tag = tag]
  <1>1. NoCookies \in Cookies
    BY DEF NoCookies, Cookies
  <1>2. bare \in Responses /\ bare.body = None /\ bare.status = 304 /\ bare.encoded = FALSE /\ bare.cookie = NoCookies
    BY <1>1 DEF Response, Responses
  <1> HIDE DEF bare
  <1>3. /\ known \in Responses /\ known.body = None /\ known.status = 304
        /\ known.encoded = FALSE /\ known.cookie = NoCookies
    BY <1>2 DEF Responses
  <1>4. QED
    BY <1>3 DEF bare

LEMMA RefusalFormsClosed ==
    ASSUME NEW req \in Asked, CopyIsNamed(req), NEW status \in RefusalStatuses
    PROVE  Closed(RefusalForms(req, status), req)
  <1> SUFFICES ASSUME NEW c \in Contexts, c.req = req, c.pending \in RefusalForms(req, status)
               PROVE  /\ Tagged(c, stack) \in RefusalForms(req, status)
                      /\ Encoded(c, stack) \in RefusalForms(req, status)
    BY DEF Closed
  <1> DEFINE res == c.pending
             tag == Digest(res)
             known == [Response(None, 304, {}) EXCEPT !.tag = tag]
  <1>1. res \in Responses /\ AsResponse(c.pending) = res
    BY AsResponseOfResponse DEF RefusalForms
  <1>2. Tagged(c, stack) =
          IF res.status = 204 \/ Unread(res, res, stack) \/ res.tag # None THEN res
          ELSE IF req.copy # None /\ req.copy.tag = tag THEN known ELSE [res EXCEPT !.tag = tag]
    BY <1>1 DEF Tagged
  <1>3. ASSUME res.status = 204 \/ Unread(res, res, stack) \/ res.tag # None
        PROVE  Tagged(c, stack) \in RefusalForms(req, status)
    BY <1>2, <1>3
  <1>4. ASSUME ~(res.status = 204 \/ Unread(res, res, stack) \/ res.tag # None)
        PROVE  Tagged(c, stack) \in RefusalForms(req, status)
    <2>1. /\ res.body = <<"refusal", status>> /\ res.status = status
          /\ res.encoded = FALSE /\ res.cookie = NoCookies
      BY <1>4 DEF RefusalForms, Unread
    <2>2. tag \in Tags /\ tag[1] = <<"refusal", status>>
      <3>1. <<"refusal", status>> \in Contents
        BY DEF Contents, RefusalStatuses
      <3>2. QED
        BY <2>1, <3>1 DEF Digest, Tags
    <2> HIDE DEF res, tag
    <2>3. CASE req.copy # None /\ req.copy.tag = tag
      <3>1. Tagged(c, stack) = known
        BY <1>2, <1>4, <2>3
      <3>2. req.copy.body = <<"refusal", status>>
        BY <2>2, <2>3 DEF CopyIsNamed
      <3>3. /\ known \in Responses /\ known.body = None /\ known.status = 304
            /\ known.encoded = FALSE /\ known.cookie = NoCookies
        BY <2>2, KnownTyped
      <3> HIDE DEF known
      <3>4. QED
        BY <2>3, <3>1, <3>2, <3>3 DEF RefusalForms
    <2>4. CASE ~(req.copy # None /\ req.copy.tag = tag)
      <3> DEFINE new == [res EXCEPT !.tag = tag]
      <3>1. Tagged(c, stack) = new
        BY <1>2, <1>4, <2>4
      <3>2. /\ new \in Responses /\ new.body = res.body /\ new.status = res.status /\ new.tag = tag
            /\ new.encoded = res.encoded /\ new.cookie = res.cookie
        BY <1>1, <2>2 DEF Responses
      <3> HIDE DEF new
      <3>3. QED
        BY <2>1, <2>2, <3>1, <3>2 DEF RefusalForms
    <2>5. QED
      BY <2>3, <2>4
  <1>5. Encoded(c, stack) = res
    <2>1. res.body = None \/ res.body[1] # "page"
      BY DEF RefusalForms
    <2>2. QED
      BY <1>1, <2>1 DEF Encoded, Unread
  <1>6. QED
    BY <1>3, <1>4, <1>5

LEMMA PageFormsClosed ==
    ASSUME NEW req \in Asked, CopyIsNamed(req), NEW v \in Nat
    PROVE  Closed(PageForms(req, v), req)
  <1> SUFFICES ASSUME NEW c \in Contexts, c.req = req, c.pending \in PageForms(req, v)
               PROVE  /\ Tagged(c, stack) \in PageForms(req, v)
                      /\ req.gzip => Encoded(c, stack) \in PageForms(req, v)
    BY DEF Closed
  <1> DEFINE res == AsResponse(c.pending)
             tag == Digest(res)
             known == [Response(None, 304, {}) EXCEPT !.tag = tag]
  <1>1. res \in Responses /\ res.cookie = NoCookies /\ IsPage(res, req, v)
    BY DEF PageForms
  <1>2. ASSUME NEW new \in Responses, new.cookie = NoCookies, IsPage(new, req, v)
        PROVE  new \in PageForms(req, v)
    BY <1>2, AsResponseOfResponse DEF PageForms
  <1>3. Tagged(c, stack) \in PageForms(req, v)
    <2>1. Tagged(c, stack) =
            IF res.status = 204 \/ Unread(res, c.pending, stack) \/ res.tag # None THEN res
            ELSE IF req.copy # None /\ req.copy.tag = tag THEN known ELSE [res EXCEPT !.tag = tag]
      BY DEF Tagged
    <2>2. CASE res.status = 204 \/ Unread(res, c.pending, stack) \/ res.tag # None
      BY <1>1, <1>2, <2>1, <2>2
    <2>3. CASE ~(res.status = 204 \/ Unread(res, c.pending, stack) \/ res.tag # None)
      <3>1. res.body # None
        BY <2>3 DEF Unread
      <3> HIDE DEF res
      <3>2. res.body = <<"page", v>> /\ res.status = 200 /\ (res.encoded => req.gzip)
        BY <1>1, <3>1 DEF IsPage
      <3>3. tag \in Tags /\ tag[1] = <<"page", v>> /\ PageTag(tag, v)
        <4>1. <<"page", v>> \in Contents /\ res.encoded \in BOOLEAN
          BY <1>1 DEF Contents, Responses
        <4>2. QED
          BY <3>2, <4>1 DEF Digest, Tags, PageTag
      <3> HIDE DEF tag
      <3>4. CASE req.copy # None /\ req.copy.tag = tag
        <4>1. Tagged(c, stack) = known
          BY <2>1, <2>3, <3>4
        <4>2. known \in Responses /\ known.body = None /\ known.status = 304 /\ known.cookie = NoCookies
          BY <3>3, KnownTyped
        <4>3. req.copy.body = <<"page", v>>
          BY <3>3, <3>4 DEF CopyIsNamed
        <4> HIDE DEF known
        <4>4. IsPage(known, req, v)
          BY <3>4, <4>2, <4>3 DEF IsPage
        <4>5. QED
          BY <1>2, <4>1, <4>2, <4>4
      <3>5. CASE ~(req.copy # None /\ req.copy.tag = tag)
        <4> DEFINE tagged == [res EXCEPT !.tag = tag]
        <4>1. Tagged(c, stack) = tagged
          BY <2>1, <2>3, <3>5
        <4>2. /\ tagged \in Responses /\ tagged.body = res.body /\ tagged.status = res.status
              /\ tagged.cookie = res.cookie /\ tagged.encoded = res.encoded /\ tagged.tag = tag
          BY <1>1, <3>3 DEF Responses
        <4> HIDE DEF tagged
        <4>3. IsPage(tagged, req, v)
          BY <3>2, <3>3, <4>2 DEF IsPage
        <4>4. QED
          BY <1>1, <1>2, <4>1, <4>2, <4>3
      <3>6. QED
        BY <3>4, <3>5
    <2>4. QED
      BY <2>2, <2>3
  <1>4. ASSUME req.gzip PROVE Encoded(c, stack) \in PageForms(req, v)
    <2> DEFINE coded == [res EXCEPT !.encoded = TRUE, !.vary = @ \cup {"accept-encoding"}]
               skips == \/ res.status \in {204, 304} \/ Unread(res, c.pending, stack)
                        \/ res.encoded \/ res.body[1] # "page"
    <2>1. Encoded(c, stack) = IF skips THEN res ELSE coded
      BY DEF Encoded
    <2>2. CASE skips
      BY <1>1, <1>2, <2>1, <2>2
    <2>3. CASE ~skips
      <3>1. Encoded(c, stack) = coded /\ res.status # 304
        BY <2>1, <2>3
      <3> HIDE DEF res
      <3>2. /\ coded \in Responses /\ coded.body = res.body /\ coded.status = res.status
            /\ coded.cookie = res.cookie /\ coded.tag = res.tag
        BY <1>1 DEF Responses
      <3> HIDE DEF coded
      <3>3. IsPage(coded, req, v)
        BY <1>1, <1>4, <3>1, <3>2 DEF IsPage
      <3>4. QED
        BY <1>1, <1>2, <3>1, <3>2, <3>3
    <2>4. QED
      BY <2>2, <2>3
  <1>5. QED
    BY <1>3, <1>4

\* The cookies of a reply once the hooks up to the cookie plugin's have run, or not.
MappedCookies(cookies, seen) ==
    [n \in CookieNames |-> IF cookies[n] = None THEN None
                           ELSE IF seen THEN protectCookieValue(cookies[n], stack) ELSE cookies[n]]

\* What the hooks of mapResponse leave of the context c they started from.
Mapping(c, F, seen) ==
    {d \in Contexts :
        /\ d.req = c.req /\ d.thrown = c.thrown /\ d.answer = c.answer /\ d.cookie = c.cookie
        /\ d.set.status = c.set.status /\ d.set.redirect = c.set.redirect
        /\ d.set.cookie = MappedCookies(c.set.cookie, seen)
        /\ d.pending \in F}

\* On Node, etag and compress throw at an object.
Meets(value, req) ==
    /\ NeedsJson(value, stack)
    /\ Holds(stack, "etag") \/ (Holds(stack, "compress") /\ req.gzip)
Stopped(c, F) ==
    {d \in Contexts :
        /\ d.req = c.req /\ d.thrown = 500 /\ d.answer = c.answer /\ d.cookie = c.cookie
        /\ d.set.status = c.set.status /\ d.set.redirect = c.set.redirect
        /\ d.pending \in F /\ Meets(d.pending, c.req)}

LEMMA MappedCookiesTyped ==
    ASSUME NEW cookies \in Cookies, NEW seen \in BOOLEAN
    PROVE  MappedCookies(cookies, seen) \in Cookies
  <1>1. \A n \in CookieNames : cookies[n] # None => cookies[n] \in Wires
    BY DEF Cookies
  <1>2. \A n \in CookieNames : cookies[n] # None => protectCookieValue(cookies[n], stack) \in Wires
    BY <1>1, ProtectedTyped
  <1>3. \A n \in CookieNames : MappedCookies(cookies, seen)[n] \in Wires \cup {None}
    BY <1>1, <1>2 DEF MappedCookies
  <1>4. QED
    BY <1>3 DEF MappedCookies, Cookies

LEMMA PendingReplaced ==
    ASSUME NEW c, NEW F, F \subseteq Values, NEW seen, NEW d \in Mapping(c, F, seen), NEW new \in F
    PROVE  [d EXCEPT !.pending = new] \in Mapping(c, F, seen)
  BY DEF Mapping, Contexts

LEMMA HookStops ==
    ASSUME NEW c, NEW F, NEW seen, NEW d \in Mapping(c, F, seen), Meets(d.pending, c.req)
    PROVE  Throws(d, 500) \in Stopped(c, F)
  BY DEF Mapping, Throws, Stopped, Contexts

LEMMA MapResponseKeeps ==
    ASSUME NEW c \in Contexts, NEW F, F \subseteq Values, Closed(F, c.req),
           PlainCookies(c.set.cookie), c.thrown = None,
           NEW seen \in BOOLEAN, NEW d \in Mapping(c, F, seen), NEW plugin \in PluginNames,
           Holds(stack, plugin), ~(seen /\ plugin = "cookie")
    PROVE  Hook("mapResponse", plugin, d) \in Mapping(c, F, seen \/ plugin = "cookie") \cup Stopped(c, F)
  <1>1. Hook("mapResponse", plugin, d) = MapResponse(plugin, d, stack)
    BY DEF Hook, Mapping
  <1>2. d \in Contexts /\ d.req = c.req /\ d.pending \in F
    BY DEF Mapping
  <1>3. Tagged(d, stack) \in F /\ (c.req.gzip => Encoded(d, stack) \in F)
    BY <1>2 DEF Closed
  <1>4. CASE plugin = "cookie"
    <2> DEFINE cookie == MappedCookies(c.set.cookie, TRUE)
               set == [d.set EXCEPT !.cookie = cookie]
    <2>1. d.set.cookie = c.set.cookie
      <3>1. seen = FALSE /\ d.set.cookie = MappedCookies(c.set.cookie, FALSE)
        BY <1>4 DEF Mapping
      <3>2. c.set.cookie \in Cookies
        BY DEF Contexts, Sets
      <3>3. MappedCookies(c.set.cookie, FALSE) = c.set.cookie
        BY <3>2 DEF MappedCookies, Cookies
      <3>4. QED
        BY <3>1, <3>3
    <2>2. MapResponse(plugin, d, stack) = [d EXCEPT !.set = set]
      BY <1>4, <2>1 DEF MapResponse, protectCookies, MappedCookies
    <2>3. cookie \in Cookies
      BY MappedCookiesTyped DEF Contexts, Sets
    <2> HIDE DEF cookie
    <2>4. set \in Sets /\ set.status = d.set.status /\ set.redirect = d.set.redirect /\ set.cookie = cookie
      BY <1>2, <2>3 DEF Contexts, Sets
    <2> HIDE DEF set
    <2>5. [d EXCEPT !.set = set] \in Mapping(c, F, TRUE)
      BY <1>2, <2>4 DEF Mapping, Contexts, cookie
    <2>6. QED
      BY <1>1, <1>4, <2>2, <2>5
  <1>5. CASE plugin = "etag"
    <2>1. MapResponse(plugin, d, stack) = etag(d, stack)
      BY <1>5 DEF MapResponse
    <2>2. CASE NeedsJson(d.pending, stack)
      <3>1. Meets(d.pending, c.req)
        BY <1>5, <2>2 DEF Meets
      <3>2. QED
        BY <1>1, <2>1, <2>2, <3>1, HookStops DEF etag
    <2>3. CASE ~NeedsJson(d.pending, stack)
      BY <1>1, <1>3, <1>5, <2>1, <2>3, PendingReplaced DEF etag
    <2>4. QED
      BY <2>2, <2>3
  <1>6. CASE plugin = "compress"
    <2>1. MapResponse(plugin, d, stack) = compress(d, stack)
      BY <1>6 DEF MapResponse
    <2>2. CASE ~c.req.gzip
      BY <1>1, <1>2, <1>6, <2>1, <2>2 DEF compress
    <2>3. CASE c.req.gzip /\ NeedsJson(d.pending, stack)
      <3>1. Meets(d.pending, c.req)
        BY <1>6, <2>3 DEF Meets
      <3>2. QED
        BY <1>1, <1>2, <2>1, <2>3, <3>1, HookStops DEF compress
    <2>4. CASE c.req.gzip /\ ~NeedsJson(d.pending, stack)
      BY <1>1, <1>2, <1>3, <1>6, <2>1, <2>4, PendingReplaced DEF compress
    <2>5. QED
      BY <2>2, <2>3, <2>4
  <1>7. CASE plugin \notin {"cookie", "etag", "compress"}
    BY <1>1, <1>7 DEF MapResponse
  <1>8. QED
    BY <1>4, <1>5, <1>6, <1>7

LEMMA MappedContext ==
    ASSUME stack \in Stacks, NEW c \in Contexts, NEW F, F \subseteq Values, Closed(F, c.req),
           PlainCookies(c.set.cookie), c.thrown = None, NEW value \in F
    PROVE  Run("mapResponse", stack.plugins, [c EXCEPT !.pending = value])
             \in Mapping(c, F, Seen(Len(stack.plugins))) \cup Stopped(c, F)
  <1> DEFINE n == Len(stack.plugins)
             Good == [i \in 0..n |-> Mapping(c, F, Seen(i)) \cup Stopped(c, F)]
             start == [c EXCEPT !.pending = value]
  <1>1. /\ n \in Nat /\ \A i \in 1..n : stack.plugins[i] \in PluginNames
        /\ \A i \in 1..n : Holds(stack, stack.plugins[i])
        /\ \A i, j \in 1..n : stack.plugins[i] = stack.plugins[j] => i = j
    <2>1. n \in Nat /\ \A i \in 1..n : stack.plugins[i] \in PluginNames
      BY StackFacts, ElementOfSeq
    <2>2. QED
      BY <2>1, StackFacts DEF Holds
  <1>2. start \in Good[0]
    <2>1. Seen(0) = FALSE
      BY DEF Seen
    <2>2. c.set.cookie \in Cookies
      BY DEF Contexts, Sets
    <2>3. MappedCookies(c.set.cookie, FALSE) = c.set.cookie
      BY <2>2 DEF MappedCookies, Cookies
    <2>4. start \in Contexts
      BY DEF Contexts
    <2>5. start \in Mapping(c, F, FALSE)
      BY <2>3, <2>4 DEF Mapping, Contexts
    <2>6. Good[0] = Mapping(c, F, Seen(0)) \cup Stopped(c, F)
      BY <1>1
    <2>7. QED
      BY <2>1, <2>5, <2>6
  <1>3. ASSUME NEW i \in 1..n, NEW d \in Good[i - 1]
        PROVE  Hook("mapResponse", stack.plugins[i], d) \in Good[i]
    <2>1. /\ d \in Mapping(c, F, Seen(i - 1)) \cup Stopped(c, F)
          /\ Good[i] = Mapping(c, F, Seen(i)) \cup Stopped(c, F)
      BY <1>1, <1>3
    <2>2. Seen(i) <=> Seen(i - 1) \/ stack.plugins[i] = "cookie"
      BY <1>1 DEF Seen
    <2>3. Seen(i - 1) \in BOOLEAN /\ Seen(i) \in BOOLEAN
      BY DEF Seen
    <2>4. ~(Seen(i - 1) /\ stack.plugins[i] = "cookie")
      BY <1>1 DEF Seen
    <2>5. (Seen(i - 1) \/ stack.plugins[i] = "cookie") = Seen(i)
      BY <2>2, <2>3
    <2> HIDE DEF Good
    <2>6. CASE d \in Mapping(c, F, Seen(i - 1))
      <3>1. Hook("mapResponse", stack.plugins[i], d)
              \in Mapping(c, F, Seen(i - 1) \/ stack.plugins[i] = "cookie") \cup Stopped(c, F)
        BY <1>1, <2>3, <2>4, <2>6, MapResponseKeeps
      <3>2. QED
        BY <2>1, <2>5, <3>1
    <2>7. CASE d \in Stopped(c, F)
      <3>1. d.thrown # None
        BY <2>7, ExchangeAssumption DEF Stopped
      <3>2. Hook("mapResponse", stack.plugins[i], d) = d
        BY <3>1 DEF Hook
      <3>3. QED
        BY <2>1, <2>7, <3>2
    <2>8. QED
      BY <2>1, <2>6, <2>7
  <1> HIDE DEF Good, start
  <1>4. Run("mapResponse", stack.plugins, start) \in Good[n]
    BY <1>1, <1>2, <1>3, RunKeeps
  <1>5. QED
    BY <1>1, <1>4 DEF Good, start

\* The reply is what the hooks left, under the status line and headers of ctx.set.
LEMMA ReplyBuilt ==
    ASSUME NEW value \in Values, AsResponse(value) \in Responses, AsResponse(value).cookie = NoCookies,
           NEW set \in Sets, NEW node
    PROVE  LET res == AsResponse(value)
               response == toResponse(value, set, node)
           IN  /\ response \in Responses
               /\ response.body \in {res.body, None} /\ (~set.redirect => response.body = res.body)
               /\ response.status = IF set.status # None THEN set.status
                                    ELSE IF set.redirect THEN 302 ELSE res.status
               /\ response.encoded = res.encoded /\ response.tag = res.tag
               /\ response.cookie = set.cookie
  <1> DEFINE res == AsResponse(value)
             response == toResponse(value, set, node)
             body == IF set.redirect /\ ~node THEN None ELSE res.body
             bare == [res EXCEPT !.body = body]
  <1>1. response = Overlaid(res, set) \/ response = Overlaid(bare, set)
    BY DEF toResponse, applySetHeaders, AsResponse
  <1>2. res \in Responses /\ res.body \in Contents \cup {None}
    BY DEF Responses
  <1> HIDE DEF res
  <1>3. /\ bare \in Responses /\ bare.body \in {res.body, None} /\ (~set.redirect => bare.body = res.body)
        /\ bare.status = res.status /\ bare.encoded = res.encoded /\ bare.tag = res.tag
        /\ bare.cookie = res.cookie
    BY <1>2 DEF Responses
  <1> HIDE DEF bare
  <1>4. ASSUME NEW from \in Responses, from.cookie = NoCookies
        PROVE  LET over == Overlaid(from, set)
               IN  /\ over \in Responses /\ over.body = from.body /\ over.encoded = from.encoded
                   /\ over.tag = from.tag /\ over.cookie = set.cookie
                   /\ over.status = IF set.status # None THEN set.status
                                    ELSE IF set.redirect THEN 302 ELSE from.status
    <2> DEFINE status == IF set.status # None THEN set.status
                         ELSE IF set.redirect THEN 302 ELSE from.status
               headers == from.headers \cup set.headers \cup IF set.redirect THEN {"location"} ELSE {}
               vary == IF "cors" \in set.headers THEN {"origin"} ELSE from.vary
               cookie == [n \in CookieNames |-> IF set.cookie[n] # None THEN set.cookie[n] ELSE from.cookie[n]]
    <2>1. Overlaid(from, set) = [from EXCEPT !.status = status, !.headers = headers, !.vary = vary, !.cookie = cookie]
      BY DEF Overlaid
    <2>2. /\ set.status \in Nat \cup {None} /\ set.headers \subseteq HeaderNames /\ set.cookie \in Cookies
          /\ from.status \in Nat /\ from.headers \subseteq HeaderNames
          /\ from.vary \subseteq {"origin", "accept-encoding"}
      BY DEF Sets, Responses
    <2>3. status \in Nat /\ headers \in SUBSET HeaderNames /\ vary \in SUBSET {"origin", "accept-encoding"}
      BY <2>2 DEF HeaderNames
    <2>4. cookie = set.cookie
      BY <1>4, <2>2 DEF NoCookies, Cookies
    <2> HIDE DEF headers, vary, cookie
    <2>5. status = IF set.status # None THEN set.status ELSE IF set.redirect THEN 302 ELSE from.status
      OBVIOUS
    <2> HIDE DEF status
    <2>6. QED
      BY <2>1, <2>2, <2>3, <2>4, <2>5 DEF Responses
  <1>5. res.cookie = NoCookies /\ bare.cookie = NoCookies
    BY <1>3 DEF res
  <1> HIDE DEF response
  <1>6. QED
    BY <1>1, <1>2, <1>3, <1>4, <1>5 DEF response, res

-----------------------------------------------------------------------------
(* What a request is from Send to the reply. *)

\* A wire value that the cookie plugin put out.
Protection(wire) == \E v \in Requests : wire = protectCookieValue(Plain(v), stack)

\* What the browser asks with: what it was given.
Honest(req) ==
    /\ IsFramed(req) /\ EchoesCookie(req) /\ CopyIsNamed(req)
    /\ Holds(stack, "cookie") =>
        \A n \in CookieNames \ req.inClear : req.cookies[n] = None \/ Protection(req.cookies[n])

\* A request that every guard and the limits of the body let through.
Served(req) ==
    /\ Measured(req)
    /\ \A i \in 1..Len(GuardHooks) : Passes(GuardHooks[i], req)

\* The context a reply was built from.
Ended(req) ==
    {c \in Contexts :
        /\ c.req = req
        /\ c.cookie = IF Holds(stack, "cookie") THEN CookiesRead(req) ELSE NoCookies
        /\ c.set.status = 403 => req.token = None \/ Protected(stack)}

\* The answer of a guard may be one the browser has.
HasAnswer(c) == c.answer # None /\ c.req.copy # None /\ c.req.copy.body = c.answer.body

ReplyFits(c, answer, response, byHook) ==
    /\ response \in Responses
    /\ answer = None /\ ~byHook =>
        \/ response.status \in {400, 401, 403, 411, 413, 500}
        \/ response.status = 304 /\ c.set.status = None /\ HasAnswer(c)
    /\ Holds(stack, "cookie") /\ ~byHook =>
        \A n \in CookieNames : response.cookie[n] = None \/ Protection(response.cookie[n])
    /\ response.tag # None /\ response.body # None => response.tag[1] = response.body
    /\ answer # None /\ ~c.set.redirect /\ c.set.status = None =>
        \/ c.thrown # None /\ c.pending = Nothing
        \/ response.body = <<"page", answer>> /\ (response.encoded => c.req.gzip)
        \/ response.status = 304 /\ c.req.copy # None /\ c.req.copy.body = <<"page", answer>>
        \/ Meets(c.pending, c.req) /\ response = ServerError

SentOK(r) ==
    /\ answered[r] = None
    /\ \E req \in Asked : Honest(req) /\ ctx[r] = NewContext(req)
HandlingOK(r) ==
    /\ answered[r] = None
    /\ \E req \in Asked : /\ Honest(req) /\ Served(req) /\ ctx[r] \in Carried(req)
                          /\ ctx[r].answer = None /\ ctx[r].thrown = None /\ ctx[r].set.status = None
RepliedOK(r) ==
    /\ \E req \in Asked : Honest(req) /\ (answered[r] # None => Served(req)) /\ ctx[r] \in Ended(req)
    /\ ReplyFits(ctx[r], answered[r], reply[r].response, reply[r].byHook)

RequestOK(r) ==
    /\ at[r] = "idle" => answered[r] = None
    /\ at[r] = "sent" => SentOK(r)
    /\ at[r] = "handling" => HandlingOK(r)
    /\ at[r] = "replied" => RepliedOK(r)

\* The browser's cookies and its copy.
JarOK ==
    Holds(stack, "cookie") =>
        \A n \in CookieNames : jar[n] # None /\ ~jar[n].byHook => Protection(jar[n].wire)
CacheOK == cache # None => cache.tag[1] = cache.body

IInv ==
    /\ TypeOK
    /\ \A r \in Requests : RequestOK(r)
    /\ JarOK
    /\ CacheOK

LEMMA StackKept ==
    ASSUME stack' = stack
    PROVE  /\ \A req : Honest(req)' <=> Honest(req)
           /\ \A req : Served(req)' <=> Served(req)
           /\ \A req : Carried(req)' = Carried(req)
           /\ \A req : Ended(req)' = Ended(req)
           /\ \A wire : Protection(wire)' <=> Protection(wire)
  <1>1. \A wire : Protection(wire)' <=> Protection(wire)
    BY DEF Protection
  <1>2. \A req : Honest(req)' <=> Honest(req)
    BY <1>1 DEF Honest, EchoesCookie, CopyIsNamed
  <1>3. GuardHooks' = GuardHooks
    BY DEF GuardHooks
  <1>4. \A req : Measured(req)' <=> Measured(req)
    BY DEF Measured
  <1>5. \A hook, req : Passes(hook, req)' <=> Passes(hook, req)
    BY DEF Passes
  <1>6. \A req : Served(req)' <=> Served(req)
    BY <1>3, <1>4, <1>5 DEF Served
  <1>7. \A req : CookiesRead(req)' = CookiesRead(req)
    BY DEF CookiesRead
  <1>8. \A req : Carried(req)' = Carried(req)
    BY <1>7 DEF Carried, PlainCookies
  <1>9. \A req : Ended(req)' = Ended(req)
    BY <1>7 DEF Ended
  <1>10. QED
    BY <1>1, <1>2, <1>6, <1>8, <1>9

\* A request that a step leaves alone is as it was.
LEMMA OthersKeep ==
    ASSUME stack' = stack, NEW r \in Requests, RequestOK(r),
           at'[r] = at[r], ctx'[r] = ctx[r], answered'[r] = answered[r], reply'[r] = reply[r]
    PROVE  RequestOK(r)'
  <1>1. SentOK(r) => SentOK(r)'
    BY StackKept DEF SentOK
  <1>2. HandlingOK(r) => HandlingOK(r)'
    BY StackKept DEF HandlingOK
  <1>3. RepliedOK(r) => RepliedOK(r)'
    <2>1. ReplyFits(ctx[r], answered[r], reply[r].response, reply[r].byHook)
            => ReplyFits(ctx[r], answered[r], reply[r].response, reply[r].byHook)'
      BY DEF ReplyFits, Protection, Meets
    <2>2. QED
      BY <2>1, StackKept DEF RepliedOK
  <1>4. QED
    BY <1>1, <1>2, <1>3 DEF RequestOK

LEMMA SeenIsHeld ==
    ASSUME stack \in Stacks
    PROVE  Seen(Len(stack.plugins)) <=> Holds(stack, "cookie")
  BY StackFacts DEF Seen, Holds

LEMMA AskingTyped ==
    ASSUME TypeOK, NEW r \in Requests, NEW req \in Asking(r)
    PROVE  req \in Asked
  <1> DEFINE reads == stack.schema \/ Holds(stack, "bodyLimit")
  <1>1. /\ jar \in [CookieNames -> [wire : Wires, byHook : BOOLEAN] \cup {None}]
        /\ cache \in Pages \cup {None} /\ "csrf" \in CookieNames /\ BodyLimit \in Nat
    BY ExchangeAssumption DEF TypeOK
  <1>2. [n \in CookieNames |-> IF jar[n] = None THEN None ELSE jar[n].wire] \in Cookies
    BY <1>1 DEF Cookies
  <1>3. {n \in CookieNames : jar[n] # None /\ jar[n].byHook} \in SUBSET CookieNames
    OBVIOUS
  <1>4. Choice(Holds(stack, "csrf") /\ jar["csrf"] # None, {None, jar["csrf"].wire}, None) \subseteq Wires \cup {None}
    BY <1>1 DEF Choice
  <1>5. Choice(Holds(stack, "etag"), {None, cache}, None) \subseteq Pages \cup {None}
    BY <1>1 DEF Choice
  <1>6. /\ Choice(Holds(stack, "cors"), {None, "listed", "other"}, None) \subseteq {None, "listed", "other"}
        /\ Choice(Holds(stack, "compress"), BOOLEAN, FALSE) \subseteq BOOLEAN
        /\ Choice(Holds(stack, "basicAuth"), {"good", "bad"}, "bad") \subseteq {"good", "bad"}
        /\ Choice(stack.flag \in {"jwt", "bearer"}, Tokens \cup {None}, None) \subseteq Tokens \cup {None}
        /\ Choice(stack.flag = "apiKey", [header : {None, ""} \cup Keys, query : {None} \cup Keys], None)
             \subseteq [header : {None, ""} \cup Keys, query : {None} \cup Keys] \cup {None}
        /\ Choice(reads, ContentTypes, None) \subseteq {"json", "multipart", "other", None}
        /\ Choice(stack.schema, BOOLEAN, FALSE) \subseteq BOOLEAN
    BY DEF Choice, ContentTypes
  <1>7. /\ Choice(reads, {0, BodyLimit, BodyLimit + 1}, 0) \subseteq Nat
        /\ Choice(reads, {None, 0, BodyLimit, BodyLimit + 1, -1}, None) \subseteq Int \cup {None}
    BY <1>1 DEF Choice
  <1>8. /\ req = [id |-> req.id, cookies |-> req.cookies, inClear |-> req.inClear, token |-> req.token,
                  copy |-> req.copy, method |-> req.method, origin |-> req.origin, gzip |-> req.gzip,
                  credentials |-> req.credentials, bearer |-> req.bearer, key |-> req.key,
                  type |-> req.type, size |-> req.size, declared |-> req.declared, garbled |-> req.garbled]
        /\ req.id = r
        /\ req.cookies = [n \in CookieNames |-> IF jar[n] = None THEN None ELSE jar[n].wire]
        /\ req.inClear = {n \in CookieNames : jar[n] # None /\ jar[n].byHook}
        /\ req.token \in Choice(Holds(stack, "csrf") /\ jar["csrf"] # None, {None, jar["csrf"].wire}, None)
        /\ req.copy \in Choice(Holds(stack, "etag"), {None, cache}, None)
        /\ req.method \in {"GET", "POST"}
        /\ req.origin \in Choice(Holds(stack, "cors"), {None, "listed", "other"}, None)
        /\ req.gzip \in Choice(Holds(stack, "compress"), BOOLEAN, FALSE)
        /\ req.credentials \in Choice(Holds(stack, "basicAuth"), {"good", "bad"}, "bad")
        /\ req.bearer \in Choice(stack.flag \in {"jwt", "bearer"}, Tokens \cup {None}, None)
        /\ req.key \in Choice(stack.flag = "apiKey",
                              [header : {None, ""} \cup Keys, query : {None} \cup Keys], None)
        /\ req.type \in Choice(reads, ContentTypes, None)
        /\ req.size \in Choice(reads, {0, BodyLimit, BodyLimit + 1}, 0)
        /\ req.declared \in Choice(reads, {None, 0, BodyLimit, BodyLimit + 1, -1}, None)
        /\ req.garbled \in Choice(stack.schema, BOOLEAN, FALSE)
    BY DEF Asking
  <1> HIDE DEF reads
  <1>9. /\ req.id \in Requests /\ req.cookies \in Cookies /\ req.inClear \in SUBSET CookieNames
        /\ req.token \in Wires \cup {None} /\ req.copy \in Pages \cup {None} /\ req.method \in {"GET", "POST"}
        /\ req.origin \in {None, "listed", "other"} /\ req.gzip \in BOOLEAN
        /\ req.credentials \in {"good", "bad"} /\ req.bearer \in Tokens \cup {None}
        /\ req.key \in [header : {None, ""} \cup Keys, query : {None} \cup Keys] \cup {None}
        /\ req.type \in {"json", "multipart", "other", None} /\ req.size \in Nat /\ req.declared \in Int \cup {None}
        /\ req.garbled \in BOOLEAN
    BY <1>2, <1>3, <1>4, <1>5, <1>6, <1>7, <1>8
  <1>10. QED
    BY <1>8, <1>9 DEF Asked

\* A browser asks with what it was given: the token and the cookies of its jar,
\* and the validator of the copy it has.
LEMMA AskingHonest ==
    ASSUME TypeOK, JarOK, CacheOK, NEW r \in Requests, NEW req \in Asking(r)
    PROVE  Honest(req)
  <1>1. /\ IsFramed(req)
        /\ req.cookies = [n \in CookieNames |-> IF jar[n] = None THEN None ELSE jar[n].wire]
        /\ req.inClear = {n \in CookieNames : jar[n] # None /\ jar[n].byHook}
        /\ req.token \in Choice(Holds(stack, "csrf") /\ jar["csrf"] # None, {None, jar["csrf"].wire}, None)
        /\ req.copy \in Choice(Holds(stack, "etag"), {None, cache}, None)
    BY DEF Asking
  <1>2. EchoesCookie(req)
    BY <1>1, ExchangeAssumption DEF EchoesCookie, Choice
  <1>3. CopyIsNamed(req)
    BY <1>1 DEF CopyIsNamed, CacheOK, Choice
  <1>4. ASSUME Holds(stack, "cookie"), NEW n \in CookieNames \ req.inClear
        PROVE  req.cookies[n] = None \/ Protection(req.cookies[n])
    BY <1>1, <1>4 DEF JarOK
  <1>5. QED
    BY <1>1, <1>2, <1>3, <1>4 DEF Honest

\* What a protected cookie is read as.
LEMMA ProtectionRead ==
    ASSUME NEW wire, Protection(wire)
    PROVE  unprotectCookieValue(wire, stack) = Plain(wire.value)
  <1>1. PICK v \in Requests : wire = protectCookieValue(Plain(v), stack)
    BY DEF Protection
  <1>2. QED
    BY <1>1, ProtectionComesOff

-----------------------------------------------------------------------------
(* From the first hook to the reply. *)

\* A request is refused, cannot be answered, or is let through by every guard.
LEMMA AdmittedContext ==
    ASSUME stack \in Stacks, NEW req \in Asked, Honest(req)
    PROVE  LET parsed == Parsed(Requested(NewContext(req)))
               c == IF parsed.thrown # None THEN parsed ELSE Guarded(parsed)
           IN  /\ c \in Carried(req)
               /\ \/ c.thrown \in {400, 411, 413, 500}
                  \/ c \in Refused(req)
                  \/ /\ c.answer = None /\ c.thrown = None /\ c.set.status = None
                     /\ Served(req)
  <1> DEFINE asked == Requested(NewContext(req))
             parsed == Parsed(asked)
             c == IF parsed.thrown # None THEN parsed ELSE Guarded(parsed)
  <1>1. asked \in Unobjected(req, Seen(Len(stack.plugins)))
    BY RequestedContext
  <1>2. 403 # None /\ \A status \in {400, 411, 413, 500} : status \in Nat /\ status # None
    BY ExchangeAssumption
  <1> HIDE DEF asked
  <1>3. asked \in Carried(req) /\ asked.answer = None /\ asked.thrown = None /\ asked.set.status = None
    BY <1>1, <1>2, SeenIsHeld DEF Unobjected, Carried
  <1>4. asked.req = req /\ asked.req \in Asked /\ IsFramed(asked.req) /\ EchoesCookie(req)
    BY <1>3 DEF Carried, Honest
  <1>5. \/ parsed = asked /\ Measured(req)
        \/ \E status \in {400, 411, 413} : parsed = Throws(asked, status)
    BY <1>4, BodyIsMeasured
  <1>6. ASSUME NEW status \in {400, 411, 413}, parsed = Throws(asked, status)
        PROVE  c \in Carried(req) /\ c.thrown \in {400, 411, 413, 500}
    <2>1. parsed = [asked EXCEPT !.thrown = status] /\ status \in Nat /\ status # None
      BY <1>2, <1>6 DEF Throws
    <2> HIDE DEF parsed
    <2>2. parsed.thrown = status /\ parsed \in Carried(req)
      BY <1>3, <2>1 DEF Carried, Contexts
    <2>3. c = parsed
      BY <2>1, <2>2
    <2>4. QED
      BY <2>2, <2>3
  <1>7. ASSUME parsed = asked, Measured(req)
        PROVE  /\ c \in Carried(req)
               /\ \/ c.thrown = 500 \/ c \in Refused(req)
                  \/ /\ c.answer = None /\ c.thrown = None /\ c.set.status = None
                     /\ Served(req)
    <2>1. c = Guarded(asked)
      BY <1>3, <1>7
    <2>2. asked \in Open(req, 0)
      BY <1>3 DEF Open
    <2> HIDE DEF c
    <2>3. c \in Open(req, Len(GuardHooks)) \cup Refused(req) \cup Broken(req)
      BY <1>4, <2>1, <2>2, GuardedContext
    <2>4. QED
      BY <1>7, <2>3 DEF Open, Refused, Broken, Served
  <1>8. CASE \E status \in {400, 411, 413} : parsed = Throws(asked, status)
    <2>1. PICK status \in {400, 411, 413} : parsed = Throws(asked, status)
      BY <1>8
    <2> HIDE DEF c, parsed
    <2>2. c \in Carried(req) /\ c.thrown \in {400, 411, 413, 500}
      BY <1>6, <2>1
    <2>3. QED
      BY <2>2 DEF c, parsed, asked
  <1>9. CASE parsed = asked /\ Measured(req)
    <2> HIDE DEF c, parsed
    <2>1. /\ c \in Carried(req)
          /\ \/ c.thrown = 500 \/ c \in Refused(req)
             \/ /\ c.answer = None /\ c.thrown = None /\ c.set.status = None
                /\ Served(req)
      BY <1>7, <1>9
    <2>2. QED
      BY <2>1 DEF c, parsed, asked
  <1>10. QED
    BY <1>5, <1>8, <1>9

\* Two ctx.set agree in what the status line is made of.
SameLine(a, b) == a.status = b.status /\ a.redirect = b.redirect

\* The response is res under the status line of set.
Rendered(response, res, set) ==
    /\ response.body \in {res.body, None}
    /\ ~set.redirect => response.body = res.body
    /\ response.status = IF set.status # None THEN set.status
                         ELSE IF set.redirect THEN 302 ELSE res.status
    /\ response.encoded = res.encoded
    /\ response.tag = res.tag

\* The server's own answer.
LEMMA ServerErrorTyped ==
    /\ ServerError \in Responses /\ ServerError.status = 500 /\ ServerError.tag = None
    /\ \A n \in CookieNames : ServerError.cookie[n] = None
  <1>1. <<"text", 500>> \in Contents /\ NoCookies \in Cookies
    BY DEF Contents, NoCookies, Cookies
  <1>2. /\ ServerError \in Responses /\ ServerError.status = 500 /\ ServerError.tag = None
        /\ ServerError.cookie = NoCookies
    BY <1>1 DEF ServerError, Response, Responses
  <1>3. QED
    BY <1>2 DEF NoCookies

\* The reply built from a mapped context.
LEMMA FinalReply ==
    ASSUME stack \in Stacks, NEW c \in Contexts, PlainCookies(c.set.cookie), c.thrown = None,
           NEW F, F \subseteq Values, Closed(F, c.req),
           \A value \in F : AsResponse(value) \in Responses /\ AsResponse(value).cookie = NoCookies,
           NEW value \in F
    PROVE  LET mapped == Run("mapResponse", stack.plugins, [c EXCEPT !.pending = value])
               response == IF mapped.thrown # None THEN ServerError
                           ELSE toResponse(mapped.pending, mapped.set, stack.node)
           IN  /\ mapped \in Contexts /\ mapped.req = c.req /\ mapped.answer = c.answer
               /\ mapped.cookie = c.cookie
               /\ SameLine(mapped.set, c.set)
               /\ response \in Responses
               /\ Holds(stack, "cookie") =>
                    \A n \in CookieNames : response.cookie[n] = None \/ Protection(response.cookie[n])
               /\ \/ \E last \in F : Rendered(response, AsResponse(last), c.set)
                  \/ /\ mapped.pending \in F /\ Meets(mapped.pending, c.req)
                     /\ response = ServerError
  <1> DEFINE mapped == Run("mapResponse", stack.plugins, [c EXCEPT !.pending = value])
             last == mapped.pending
             set == mapped.set
             response == IF mapped.thrown # None THEN ServerError ELSE toResponse(last, set, stack.node)
             seen == Seen(Len(stack.plugins))
  <1>1. mapped \in Mapping(c, F, seen) \cup Stopped(c, F)
    BY MappedContext
  <1> HIDE DEF mapped, seen
  <1>2. CASE mapped \in Stopped(c, F)
    <2>1. /\ mapped \in Contexts /\ mapped.req = c.req /\ mapped.answer = c.answer
          /\ mapped.cookie = c.cookie /\ SameLine(mapped.set, c.set)
          /\ last \in F /\ Meets(last, c.req) /\ mapped.thrown # None
      BY <1>2, ExchangeAssumption DEF Stopped, SameLine
    <2>2. response = ServerError
      BY <2>1
    <2> HIDE DEF response, last
    <2>3. response \in Responses /\ \A n \in CookieNames : response.cookie[n] = None
      BY <2>2, ServerErrorTyped
    <2>4. QED
      BY <2>1, <2>2, <2>3 DEF response, last, set, mapped
  <1>3. CASE mapped \in Mapping(c, F, seen)
    <2>1. /\ mapped \in Contexts /\ mapped.req = c.req /\ mapped.thrown = None
          /\ mapped.cookie = c.cookie /\ mapped.answer = c.answer
          /\ set.status = c.set.status /\ set.redirect = c.set.redirect
          /\ set.cookie = MappedCookies(c.set.cookie, seen)
          /\ last \in F
      BY <1>3 DEF Mapping
    <2>2. set \in Sets /\ last \in Values /\ AsResponse(last) \in Responses /\ AsResponse(last).cookie = NoCookies
      BY <2>1 DEF Contexts
    <2>3. response = toResponse(last, set, stack.node)
      BY <2>1
    <2> HIDE DEF response
    <2>4. /\ response \in Responses
          /\ response.body \in {AsResponse(last).body, None}
          /\ ~set.redirect => response.body = AsResponse(last).body
          /\ response.status = IF set.status # None THEN set.status
                               ELSE IF set.redirect THEN 302 ELSE AsResponse(last).status
          /\ response.encoded = AsResponse(last).encoded /\ response.tag = AsResponse(last).tag
          /\ response.cookie = set.cookie
      <3> HIDE DEF last, set
      <3>1. QED
        BY <2>2, <2>3, ReplyBuilt
    <2>5. ASSUME Holds(stack, "cookie"), NEW n \in CookieNames
          PROVE  response.cookie[n] = None \/ Protection(response.cookie[n])
      <3>1. seen
        BY <2>5, SeenIsHeld DEF seen
      <3>2. response.cookie[n] = None \/ response.cookie[n] = protectCookieValue(c.set.cookie[n], stack)
        BY <2>1, <2>4, <3>1 DEF MappedCookies
      <3>3. c.set.cookie[n] = None => response.cookie[n] = None
        BY <2>1, <2>4 DEF MappedCookies
      <3>4. c.set.cookie[n] # None => \E v \in Requests : c.set.cookie[n] = Plain(v)
        BY DEF PlainCookies
      <3>5. QED
        BY <3>2, <3>3, <3>4 DEF Protection
    <2> HIDE DEF last, set
    <2>6. SameLine(mapped.set, c.set)
      BY <2>1 DEF SameLine, set
    <2>7. Rendered(response, AsResponse(last), c.set)
      <3>1. Rendered(response, AsResponse(last), set)
        BY <2>4 DEF Rendered
      <3>2. SameLine(set, c.set)
        BY <2>6 DEF set
      <3>3. QED
        BY <3>1, <3>2 DEF Rendered, SameLine
    <2>8. QED
      BY <2>1, <2>4, <2>5, <2>6, <2>7 DEF last, set, response, mapped
  <1>4. QED
    BY <1>1, <1>2, <1>3

\* The replies of handleError.
LEMMA FailureReplies ==
    ASSUME NEW c \in Contexts, c.thrown \in {400, 411, 413, 500}
    PROVE  /\ LET response == toResponse(Data(<<"apology", 0>>, TRUE), c.set, stack.node)
              IN  response \in Responses /\ response.tag = None
           /\ LET response == errorToResponse(c.thrown, stack.node)
              IN  /\ response \in Responses /\ response.tag = None /\ response.cookie = NoCookies
                  /\ response.status \in {400, 411, 413, 500}
  <1>1. NoCookies \in Cookies
    BY DEF NoCookies, Cookies
  <1>2. <<"apology", 0>> \in Contents /\ <<"text", 500>> \in Contents /\ <<"problem", c.thrown>> \in Contents
    BY DEF Contents
  <1>3. {"content-type"} \in SUBSET HeaderNames /\ {} \in SUBSET HeaderNames
    BY DEF HeaderNames
  <1>4. LET response == errorToResponse(c.thrown, stack.node)
        IN  /\ response \in Responses /\ response.tag = None /\ response.cookie = NoCookies
            /\ response.status \in {400, 411, 413, 500}
    BY <1>1, <1>2, <1>3 DEF errorToResponse, Response, Responses
  <1> DEFINE value == Data(<<"apology", 0>>, TRUE)
             res == AsResponse(value)
  <1>5. res = Response(<<"apology", 0>>, 200, {"content-type"}) /\ value \in Values
    BY <1>2 DEF Data, AsResponse, Values
  <1> HIDE DEF res
  <1>6. res \in Responses /\ res.cookie = NoCookies /\ res.tag = None
    BY <1>1, <1>2, <1>3, <1>5 DEF Response, Responses
  <1>7. c.set \in Sets
    BY DEF Contexts
  <1> HIDE DEF value
  <1>8. toResponse(value, c.set, stack.node) \in Responses /\ toResponse(value, c.set, stack.node).tag = None
    BY <1>5, <1>6, <1>7, ReplyBuilt DEF res
  <1>9. QED
    BY <1>4, <1>8 DEF value

LEMMA FailsFits ==
    ASSUME NEW r \in Requests, NEW c \in Contexts, c.thrown \in {400, 411, 413, 500}, c.pending = Nothing,
           Fails(r, c)
    PROVE  \E response \in Responses, byHook \in BOOLEAN :
              /\ Reply(r, c, response, byHook)
              /\ \A answer : ReplyFits(c, answer, response, byHook)
  <1>1. c.thrown # None
    BY ExchangeAssumption
  <1>2. CASE stack.onError
    <2> DEFINE response == toResponse(Data(<<"apology", 0>>, TRUE), c.set, stack.node)
    <2>1. Reply(r, c, response, TRUE)
      BY <1>2 DEF Fails
    <2>2. response \in Responses /\ response.tag = None
      BY FailureReplies
    <2> HIDE DEF response
    <2>3. \A answer : ReplyFits(c, answer, response, TRUE)
      BY <1>1, <2>2 DEF ReplyFits
    <2>4. QED
      BY <2>1, <2>2, <2>3
  <1>3. CASE ~stack.onError
    <2> DEFINE response == errorToResponse(c.thrown, stack.node)
    <2>1. Reply(r, c, response, FALSE)
      BY <1>3 DEF Fails
    <2>2. /\ response \in Responses /\ response.tag = None /\ response.cookie = NoCookies
          /\ response.status \in {400, 411, 413, 500}
      BY FailureReplies
    <2> HIDE DEF response
    <2>3. \A n \in CookieNames : response.cookie[n] = None
      BY <2>2 DEF NoCookies
    <2>4. \A answer : ReplyFits(c, answer, response, FALSE)
      BY <1>1, <2>2, <2>3 DEF ReplyFits
    <2>5. QED
      BY <2>1, <2>2, <2>4
  <1>4. QED
    BY <1>2, <1>3

LEMMA RefusalFits ==
    ASSUME stack \in Stacks, NEW r \in Requests, NEW req \in Asked, Honest(req),
           NEW c \in Refused(req), Finalizes(r, c, c.answer)
    PROVE  \E m \in Ended(req), response \in Responses :
              Reply(r, m, response, FALSE) /\ ReplyFits(m, None, response, FALSE)
  <1>1. PICK status \in RefusalStatuses : c.answer = Refusal(status) /\ c.set.status \in {None, status}
    BY DEF Refused
  <1>2. /\ c \in Contexts /\ c.req = req /\ c.set.redirect = FALSE /\ PlainCookies(c.set.cookie)
        /\ c.cookie = IF Holds(stack, "cookie") THEN CookiesRead(req) ELSE NoCookies
        /\ c.set.status = 403 => req.token = None \/ Protected(stack)
        /\ c.thrown = None
    BY DEF Refused, Carried
  <1> DEFINE F == RefusalForms(req, status)
             value == c.answer
             mapped == Run("mapResponse", stack.plugins, [c EXCEPT !.pending = value])
             response == IF mapped.thrown # None THEN ServerError
                         ELSE toResponse(mapped.pending, mapped.set, stack.node)
  <1>3. Closed(F, c.req)
    BY <1>2, RefusalFormsClosed DEF Honest
  <1>4. value \in F /\ value.body = <<"refusal", status>> /\ value # None
    <2>1. <<"refusal", status>> \in Contents \cup {None} /\ status \in Nat /\ {"content-type"} \in SUBSET HeaderNames
      BY DEF Contents, RefusalStatuses, HeaderNames
    <2>2. Refusal(status) \in Responses /\ Refusal(status) # None
      BY RefusalTyped
    <2>3. QED
      BY <1>1, <2>1, <2>2 DEF Refusal, Response, RefusalForms
  <1>5. F \subseteq Values /\ \A res \in F : AsResponse(res) \in Responses /\ AsResponse(res).cookie = NoCookies
    BY AsResponseOfResponse DEF RefusalForms
  <1>6. /\ mapped \in Contexts /\ mapped.req = c.req /\ mapped.answer = c.answer
        /\ mapped.cookie = c.cookie
        /\ SameLine(mapped.set, c.set)
        /\ response \in Responses
        /\ Holds(stack, "cookie") =>
             \A n \in CookieNames : response.cookie[n] = None \/ Protection(response.cookie[n])
        /\ \/ \E last \in F : Rendered(response, AsResponse(last), c.set)
           \/ /\ mapped.pending \in F /\ Meets(mapped.pending, c.req)
              /\ response = ServerError
    <2> HIDE DEF F, value
    <2>1. QED
      BY <1>2, <1>3, <1>4, <1>5, FinalReply
  <1>7. Reply(r, mapped, response, FALSE)
    BY DEF Finalizes
  <1> HIDE DEF mapped, response
  <1>8. PICK last \in F : Rendered(response, AsResponse(last), c.set)
    <2>1. \A res \in F : ~Meets(res, c.req)
      BY DEF RefusalForms, Responses, Meets, NeedsJson
    <2>2. QED
      BY <1>6, <2>1
  <1>9. /\ last \in Responses /\ AsResponse(last) = last /\ status \in Nat
        /\ \/ /\ last.body = <<"refusal", status>> /\ last.status = status
              /\ last.tag # None => last.tag[1] = last.body
           \/ /\ last.body = None /\ last.status = 304
              /\ req.copy # None /\ req.copy.body = <<"refusal", status>>
    BY AsResponseOfResponse DEF RefusalForms, RefusalStatuses
  <1> HIDE DEF F
  <1>10. /\ response.body = last.body /\ response.tag = last.tag
         /\ response.status = IF c.set.status # None THEN c.set.status ELSE last.status
    BY <1>2, <1>8, <1>9 DEF Rendered
  <1>11. mapped.set.status = c.set.status /\ mapped.req = req /\ mapped.answer = value
    BY <1>2, <1>6 DEF SameLine
  <1> HIDE DEF value
  <1>12. \/ response.status = status
         \/ response.status = 304 /\ mapped.set.status = None /\ HasAnswer(mapped)
    BY <1>1, <1>4, <1>9, <1>10, <1>11 DEF HasAnswer
  <1>13. response.tag # None /\ response.body # None => response.tag[1] = response.body
    BY <1>9, <1>10
  <1>14. ReplyFits(mapped, None, response, FALSE)
    BY <1>6, <1>12, <1>13 DEF ReplyFits, RefusalStatuses
  <1>15. mapped \in Ended(req)
    BY <1>2, <1>6 DEF Ended, SameLine
  <1>16. QED
    BY <1>6, <1>7, <1>14, <1>15

LEMMA PageFits ==
    ASSUME stack \in Stacks, NEW r \in Requests, NEW req \in Asked, Honest(req),
           NEW c \in Ended(req), PlainCookies(c.set.cookie), c.thrown = None,
           NEW v \in Nat, NEW value \in PageForms(req, v), Finalizes(r, c, value)
    PROVE  \E m \in Ended(req), response \in Responses :
              Reply(r, m, response, FALSE) /\ ReplyFits(m, v, response, FALSE)
  <1>1. /\ c \in Contexts /\ c.req = req
        /\ c.cookie = IF Holds(stack, "cookie") THEN CookiesRead(req) ELSE NoCookies
        /\ c.set.status = 403 => req.token = None \/ Protected(stack)
    BY DEF Ended
  <1> DEFINE F == PageForms(req, v)
             mapped == Run("mapResponse", stack.plugins, [c EXCEPT !.pending = value])
             response == IF mapped.thrown # None THEN ServerError
                         ELSE toResponse(mapped.pending, mapped.set, stack.node)
  <1>2. Closed(F, c.req)
    BY <1>1, PageFormsClosed DEF Honest
  <1>3. value \in F /\ F \subseteq Values /\ \A p \in F : AsResponse(p) \in Responses /\ AsResponse(p).cookie = NoCookies
    BY DEF PageForms
  <1>4. /\ mapped \in Contexts /\ mapped.req = c.req
        /\ mapped.cookie = c.cookie
        /\ SameLine(mapped.set, c.set)
        /\ response \in Responses
        /\ Holds(stack, "cookie") =>
             \A n \in CookieNames : response.cookie[n] = None \/ Protection(response.cookie[n])
        /\ \/ \E last \in F : Rendered(response, AsResponse(last), c.set)
           \/ /\ mapped.pending \in F /\ Meets(mapped.pending, c.req)
              /\ response = ServerError
    <2>1. c \in Contexts /\ PlainCookies(c.set.cookie) /\ F \subseteq Values /\ Closed(F, c.req) /\ value \in F
      BY <1>1, <1>2, <1>3
    <2>2. \A p \in F : AsResponse(p) \in Responses /\ AsResponse(p).cookie = NoCookies
      BY <1>3
    <2> HIDE DEF F
    <2>3. QED
      BY <2>1, <2>2, FinalReply
  <1>5. Reply(r, mapped, response, FALSE)
    BY DEF Finalizes
  <1> HIDE DEF mapped, response
  <1>6. v # None
    BY ExchangeAssumption
  <1>7. mapped \in Ended(req)
    BY <1>1, <1>4 DEF Ended, SameLine
  <1>8. CASE Meets(mapped.pending, c.req) /\ response = ServerError
    <2>1. response.tag = None /\ mapped.req = c.req
      BY <1>4, <1>8, ServerErrorTyped
    <2>2. ReplyFits(mapped, v, response, FALSE)
      BY <1>4, <1>6, <1>8, <2>1 DEF ReplyFits
    <2>3. QED
      BY <1>4, <1>5, <1>7, <2>2
  <1>9. CASE \E last \in F : Rendered(response, AsResponse(last), c.set)
    <2>1. PICK last \in F : Rendered(response, AsResponse(last), c.set)
      BY <1>9
    <2> DEFINE res == AsResponse(last)
    <2>2. IsPage(res, req, v)
      BY DEF PageForms
    <2>3. /\ response.body \in {res.body, None} /\ (~c.set.redirect => response.body = res.body)
          /\ (~c.set.redirect /\ c.set.status = None => response.status = res.status)
          /\ response.encoded = res.encoded /\ response.tag = res.tag
      BY <2>1 DEF Rendered
    <2> HIDE DEF res
    <2>4. response.tag # None /\ response.body # None => response.tag[1] = response.body
      BY <2>2, <2>3 DEF IsPage, PageTag
    <2>5. ~mapped.set.redirect /\ mapped.set.status = None =>
              \/ response.body = <<"page", v>> /\ (response.encoded => req.gzip)
              \/ response.status = 304 /\ req.copy # None /\ req.copy.body = <<"page", v>>
      BY <1>4, <2>2, <2>3 DEF IsPage, SameLine
    <2>6. ReplyFits(mapped, v, response, FALSE)
      BY <1>1, <1>4, <1>6, <2>4, <2>5 DEF ReplyFits
    <2>7. QED
      BY <1>4, <1>5, <1>7, <2>6
  <1>10. QED
    BY <1>4, <1>8, <1>9

\* A reply that fits keeps the invariant.
LEMMA ReplyStep ==
    ASSUME IInv, NEW r \in Requests, NEW req \in Asked, Honest(req),
           NEW c \in Ended(req), NEW response \in Responses, NEW byHook \in BOOLEAN,
           Reply(r, c, response, byHook), ReplyFits(c, answered'[r], response, byHook),
           answered' \in [Requests -> Nat \cup {None}],
           \A q \in Requests \ {r} : answered'[q] = answered[q],
           answered'[r] # None => Served(req),
           UNCHANGED <<stack, received, version, jar, cache>>
    PROVE  IInv'
  <1>1. TypeOK /\ c \in Contexts
    BY DEF IInv, Ended
  <1>2. /\ at' = [at EXCEPT ![r] = "replied"] /\ ctx' = [ctx EXCEPT ![r] = c]
        /\ reply' = [reply EXCEPT ![r] = [response |-> response, byHook |-> byHook]]
    BY DEF Reply
  <1>3. TypeOK'
    BY <1>1, <1>2 DEF TypeOK
  <1>4. /\ at'[r] = "replied" /\ ctx'[r] = c /\ reply'[r].response = response /\ reply'[r].byHook = byHook
    BY <1>1, <1>2 DEF TypeOK
  <1>5. RepliedOK(r)'
    <2>1. ReplyFits(ctx[r], answered[r], reply[r].response, reply[r].byHook)'
      BY <1>4 DEF ReplyFits, Protection, Meets
    <2>2. QED
      BY <1>4, <2>1, StackKept DEF RepliedOK
  <1>6. RequestOK(r)'
    BY <1>4, <1>5 DEF RequestOK
  <1>7. ASSUME NEW q \in Requests \ {r}
        PROVE  RequestOK(q)'
    <2>1. at'[q] = at[q] /\ ctx'[q] = ctx[q] /\ reply'[q] = reply[q] /\ answered'[q] = answered[q]
      BY <1>1, <1>2 DEF TypeOK
    <2>2. RequestOK(q)
      BY DEF IInv
    <2>3. QED
      BY <2>1, <2>2, OthersKeep
  <1>8. JarOK'
    BY StackKept DEF IInv, JarOK
  <1>9. CacheOK'
    BY DEF IInv, CacheOK
  <1>10. QED
    BY <1>3, <1>6, <1>7, <1>8, <1>9 DEF IInv

-----------------------------------------------------------------------------
(* The invariant is inductive. *)
LEMMA InitOK == Init => IInv
  <1> SUFFICES ASSUME Init PROVE IInv
    OBVIOUS
  <1>1. /\ stack \in Stacks /\ at = [r \in Requests |-> "idle"] /\ ctx = [r \in Requests |-> None]
        /\ answered = [r \in Requests |-> None] /\ reply = [r \in Requests |-> NoReply]
        /\ received = [r \in Requests |-> FALSE] /\ version = 0 /\ cache = None
        /\ jar = [n \in CookieNames |-> None]
    BY DEF Init, NoCookies
  <1>2. NoReply \in [response : Responses \cup {None}, byHook : BOOLEAN]
    BY DEF NoReply
  <1>3. TypeOK
    BY <1>1, <1>2 DEF TypeOK
  <1>4. \A r \in Requests : RequestOK(r)
    BY <1>1 DEF RequestOK
  <1>5. JarOK /\ CacheOK
    BY <1>1 DEF JarOK, CacheOK
  <1>6. QED
    BY <1>3, <1>4, <1>5 DEF IInv

LEMMA SendStep ==
    ASSUME IInv, NEW r \in Requests, Send(r)
    PROVE  IInv'
  <1>1. PICK req \in Asking(r) : ctx' = [ctx EXCEPT ![r] = NewContext(req)]
    BY DEF Send
  <1>2. /\ at[r] = "idle" /\ at' = [at EXCEPT ![r] = "sent"]
        /\ UNCHANGED <<stack, answered, reply, received, version, jar, cache>>
    BY DEF Send
  <1>3. TypeOK /\ JarOK /\ CacheOK
    BY DEF IInv
  <1>4. req \in Asked /\ Honest(req)
    BY <1>3, AskingTyped, AskingHonest
  <1>5. NewContext(req) \in Contexts
    BY <1>4, NewContextTyped DEF Unobjected
  <1>6. TypeOK'
    BY <1>1, <1>2, <1>3, <1>5 DEF TypeOK
  <1>7. RequestOK(r)'
    <2>1. at'[r] = "sent" /\ ctx'[r] = NewContext(req)
      BY <1>1, <1>2, <1>3 DEF TypeOK
    <2>2. answered'[r] = None
      BY <1>2 DEF IInv, RequestOK
    <2>3. SentOK(r)'
      BY <1>2, <1>4, <2>1, <2>2, StackKept DEF SentOK
    <2>4. QED
      BY <2>1, <2>3 DEF RequestOK
  <1>8. ASSUME NEW q \in Requests \ {r}
        PROVE  RequestOK(q)'
    <2>1. at'[q] = at[q] /\ ctx'[q] = ctx[q] /\ reply'[q] = reply[q] /\ answered'[q] = answered[q]
      BY <1>1, <1>2, <1>3 DEF TypeOK
    <2>2. RequestOK(q)
      BY DEF IInv
    <2>3. QED
      BY <1>2, <2>1, <2>2, OthersKeep
  <1>9. JarOK' /\ CacheOK'
    BY <1>2, <1>3, StackKept DEF JarOK, CacheOK
  <1>10. QED
    BY <1>6, <1>7, <1>8, <1>9 DEF IInv

LEMMA AdmitStep ==
    ASSUME IInv, NEW r \in Requests, Admit(r)
    PROVE  IInv'
  <1>1. at[r] = "sent" /\ UNCHANGED <<stack, answered, received, version, jar, cache>>
    BY DEF Admit
  <1>2. TypeOK /\ JarOK /\ CacheOK /\ stack \in Stacks /\ answered[r] = None
    BY <1>1 DEF IInv, TypeOK, RequestOK, SentOK
  <1>3. PICK req \in Asked : Honest(req) /\ ctx[r] = NewContext(req)
    BY <1>1 DEF IInv, RequestOK, SentOK
  <1> DEFINE parsed == Parsed(Requested(NewContext(req)))
             c == IF parsed.thrown # None THEN parsed ELSE Guarded(parsed)
  <1>4. /\ c \in Carried(req)
        /\ \/ c.thrown \in {400, 411, 413, 500}
           \/ c \in Refused(req)
           \/ /\ c.answer = None /\ c.thrown = None /\ c.set.status = None
              /\ Served(req)
    BY <1>2, <1>3, AdmittedContext
  <1>5. \/ c.thrown # None /\ Fails(r, c)
        \/ c.thrown = None /\ c.answer # None /\ Finalizes(r, c, c.answer)
        \/ /\ c.thrown = None /\ c.answer = None
           /\ at' = [at EXCEPT ![r] = "handling"]
           /\ ctx' = [ctx EXCEPT ![r] = c]
           /\ UNCHANGED reply
    BY <1>3 DEF Admit
  <1> HIDE DEF c
  <1>6. c \in Contexts /\ c \in Ended(req)
    BY <1>4 DEF Carried, Ended
  <1>7. /\ answered' \in [Requests -> Nat \cup {None}] /\ answered'[r] = None
        /\ \A q \in Requests \ {r} : answered'[q] = answered[q]
    BY <1>1, <1>2 DEF TypeOK
  <1>8. CASE c.thrown # None /\ Fails(r, c)
    <2>1. c.thrown \in {400, 411, 413, 500} /\ c.pending = Nothing
      BY <1>4, <1>8 DEF Refused, Carried
    <2>2. PICK response \in Responses, byHook \in BOOLEAN :
              /\ Reply(r, c, response, byHook)
              /\ \A answer : ReplyFits(c, answer, response, byHook)
      BY <1>6, <1>8, <2>1, FailsFits
    <2>3. ReplyFits(c, answered'[r], response, byHook)
      BY <2>2
    <2>4. QED
      BY <1>1, <1>3, <1>6, <1>7, <2>2, <2>3, ReplyStep
  <1>9. CASE c.thrown = None /\ c.answer # None /\ Finalizes(r, c, c.answer)
    <2>1. c \in Refused(req)
      BY <1>4, <1>9, ExchangeAssumption
    <2>2. PICK m \in Ended(req), response \in Responses :
              Reply(r, m, response, FALSE) /\ ReplyFits(m, None, response, FALSE)
      BY <1>2, <1>3, <1>9, <2>1, RefusalFits
    <2>3. ReplyFits(m, answered'[r], response, FALSE)
      BY <1>7, <2>2
    <2>4. QED
      BY <1>1, <1>3, <1>7, <2>2, <2>3, ReplyStep
  <1>10. CASE /\ c.thrown = None /\ c.answer = None
              /\ at' = [at EXCEPT ![r] = "handling"]
              /\ ctx' = [ctx EXCEPT ![r] = c]
              /\ UNCHANGED reply
    <2>1. c.set.status = None /\ Served(req)
      BY <1>4, <1>10, RefusalTyped, ExchangeAssumption DEF Refused
    <2>2. TypeOK'
      BY <1>1, <1>2, <1>6, <1>10 DEF TypeOK
    <2>3. at'[r] = "handling" /\ ctx'[r] = c
      BY <1>2, <1>10 DEF TypeOK
    <2>4. HandlingOK(r)'
      BY <1>1, <1>3, <1>4, <1>7, <1>10, <2>1, <2>3, StackKept DEF HandlingOK
    <2>5. RequestOK(r)'
      BY <2>3, <2>4 DEF RequestOK
    <2>6. ASSUME NEW q \in Requests \ {r}
          PROVE  RequestOK(q)'
      <3>1. at'[q] = at[q] /\ ctx'[q] = ctx[q] /\ reply'[q] = reply[q] /\ answered'[q] = answered[q]
        BY <1>1, <1>2, <1>10 DEF TypeOK
      <3>2. RequestOK(q)
        BY DEF IInv
      <3>3. QED
        BY <1>1, <3>1, <3>2, OthersKeep
    <2>7. JarOK' /\ CacheOK'
      BY <1>1, <1>2, StackKept DEF JarOK, CacheOK
    <2>8. QED
      BY <2>2, <2>5, <2>6, <2>7 DEF IInv
  <1>11. QED
    BY <1>5, <1>8, <1>9, <1>10

\* The context behind the handler, which may log in, set a status and redirect.
Handled(r, d, status, redirect, login) ==
    [d EXCEPT !.set.status = status,
              !.set.redirect = redirect,
              !.set.cookie["session"] = IF login THEN Plain(r) ELSE @]

LEMMA HandledContext ==
    ASSUME NEW r \in Requests, NEW req \in Asked, NEW d \in Carried(req), d.thrown = None,
           NEW status \in {None, 200}, NEW redirect \in BOOLEAN, NEW login \in BOOLEAN
    PROVE  LET c == Handled(r, d, status, redirect, login)
           IN  /\ c \in Ended(req) /\ PlainCookies(c.set.cookie) /\ c.set.status = status
               /\ c.thrown = None /\ c.pending = Nothing
  <1> DEFINE c == Handled(r, d, status, redirect, login)
             session == IF login THEN Plain(r) ELSE d.set.cookie["session"]
             cookie == [d.set.cookie EXCEPT !["session"] = session]
             set == [d.set EXCEPT !.status = status, !.redirect = redirect, !.cookie = cookie]
  <1>1. d \in Contexts /\ d.set \in Sets /\ d.set.cookie \in Cookies /\ PlainCookies(d.set.cookie)
    BY DEF Carried, Contexts, Sets
  <1>2. "session" \in CookieNames /\ Plain(r) \in Wires
    BY PlainTyped, ExchangeAssumption
  <1>3. cookie \in Cookies /\ PlainCookies(cookie)
    BY <1>1, <1>2 DEF Cookies, PlainCookies
  <1>4. c = [d EXCEPT !.set = set]
    <2>1. d.set = [status |-> d.set.status, headers |-> d.set.headers, redirect |-> d.set.redirect,
                   cookie |-> d.set.cookie]
      BY <1>1 DEF Sets
    <2>2. QED
      BY <1>1, <2>1 DEF Contexts, Handled
  <1> HIDE DEF cookie, c
  <1>5. set \in Sets /\ set.status = status /\ set.cookie = cookie
    <2>1. status \in Nat \cup {None}
      OBVIOUS
    <2>2. QED
      BY <1>1, <1>3, <2>1 DEF Sets
  <1> HIDE DEF set
  <1>6. /\ c \in Contexts /\ c.req = req /\ c.cookie = d.cookie /\ c.set = set
        /\ c.thrown = None /\ c.pending = Nothing
    BY <1>1, <1>4, <1>5 DEF Carried, Contexts
  <1>7. 403 # None
    BY ExchangeAssumption
  <1>8. c \in Ended(req)
    BY <1>5, <1>6, <1>7 DEF Carried, Ended
  <1>9. QED
    BY <1>3, <1>5, <1>6, <1>8 DEF c

\* What the handler returns is the page.
LEMMA HandlersReturnPages ==
    ASSUME NEW req, NEW v \in Nat,
           NEW value \in {Data(<<"page", v>>, FALSE), Data(<<"page", v>>, TRUE),
                          Response(<<"page", v>>, 200, {})}
    PROVE  /\ value \in PageForms(req, v)
           /\ value.is = "Response" => value \in Responses /\ value.status = 200 /\ value.tag = None
                                       /\ value.cookie = NoCookies
  <1>1. NoCookies \in Cookies /\ <<"page", v>> \in Contents /\ {"content-type"} \in SUBSET HeaderNames
    BY DEF NoCookies, Cookies, Contents, HeaderNames
  <1>2. ASSUME NEW object \in BOOLEAN, value = Data(<<"page", v>>, object)
        PROVE  value \in PageForms(req, v) /\ value.is = "data"
    <2> DEFINE res == AsResponse(value)
    <2>1. value \in Values /\ value.is = "data" /\ res = Response(<<"page", v>>, 200, {"content-type"})
      BY <1>1, <1>2 DEF Data, AsResponse, Values
    <2> HIDE DEF res
    <2>2. /\ res \in Responses /\ res.cookie = NoCookies /\ res.body = <<"page", v>> /\ res.status = 200
          /\ res.tag = None /\ res.encoded = FALSE
      BY <1>1, <2>1 DEF Response, Responses
    <2>3. IsPage(res, req, v)
      BY <2>2 DEF IsPage
    <2>4. QED
      BY <2>1, <2>2, <2>3 DEF PageForms, res
  <1>3. CASE value = Response(<<"page", v>>, 200, {})
    <2>1. /\ value \in Responses /\ value.cookie = NoCookies /\ value.body = <<"page", v>> /\ value.status = 200
          /\ value.tag = None /\ value.encoded = FALSE
      BY <1>1, <1>3 DEF Response, Responses
    <2>2. value \in Values /\ AsResponse(value) = value
      BY <2>1, AsResponseOfResponse
    <2>3. IsPage(value, req, v)
      BY <2>1 DEF IsPage
    <2>4. QED
      BY <2>1, <2>2, <2>3 DEF PageForms
  <1>4. QED
    BY <1>2, <1>3

\* How the run ends.
Outcome(r, c, value) ==
    \/ Fails(r, Throws(c, 500))
    \/ value.is = "Response" /\ Reply(r, c, value, FALSE)
    \/ Finalizes(r, c, value)

LEMMA HandleStep ==
    ASSUME IInv, NEW r \in Requests, Handle(r)
    PROVE  IInv'
  <1>1. /\ at[r] = "handling" /\ answered' = [answered EXCEPT ![r] = version]
        /\ UNCHANGED <<stack, received, version, jar, cache>>
    BY DEF Handle
  <1>2. TypeOK /\ stack \in Stacks /\ version \in Nat
    BY DEF IInv, TypeOK
  <1>3. PICK req \in Asked : /\ Honest(req) /\ Served(req) /\ ctx[r] \in Carried(req)
                             /\ ctx[r].answer = None /\ ctx[r].thrown = None /\ ctx[r].set.status = None
    BY <1>1 DEF IInv, RequestOK, HandlingOK
  <1>4. /\ answered' \in [Requests -> Nat \cup {None}] /\ answered'[r] = version
        /\ \A q \in Requests \ {r} : answered'[q] = answered[q]
    BY <1>1, <1>2 DEF TypeOK
  <1>5. PICK status \in {None, 200}, redirect \in BOOLEAN, throws \in BOOLEAN, async \in BOOLEAN,
             login \in Choice(Holds(stack, "cookie"), BOOLEAN, FALSE),
             value \in {Data(<<"page", version>>, FALSE), Data(<<"page", version>>, TRUE),
                       Response(<<"page", version>>, 200, {})} :
          LET c == [ctx[r] EXCEPT !.set.status = status,
                                  !.set.redirect = redirect,
                                  !.set.cookie["session"] = IF login THEN Plain(r) ELSE @]
          IN \/ throws /\ Fails(r, Throws(c, 500))
             \/ ~throws /\ Direct(c, value, async) /\ Reply(r, c, value, FALSE)
             \/ ~throws /\ ~Direct(c, value, async) /\ Finalizes(r, c, value)
    BY DEF Handle
  <1> DEFINE c == Handled(r, ctx[r], status, redirect, login)
  <1>6. login \in BOOLEAN
    BY DEF Choice
  <1>7. /\ c \in Ended(req) /\ PlainCookies(c.set.cookie) /\ c.set.status = status
        /\ c.thrown = None /\ c.pending = Nothing
    BY <1>3, <1>6, HandledContext
  <1>8. Outcome(r, c, value)
    BY <1>5 DEF Outcome, Handled, Direct
  <1> HIDE DEF c
  <1>9. /\ value \in PageForms(req, version)
        /\ value.is = "Response" => value \in Responses /\ value.status = 200 /\ value.tag = None
                                    /\ value.cookie = NoCookies
    BY <1>2, HandlersReturnPages
  <1>10. CASE Fails(r, Throws(c, 500))
    <2> DEFINE failed == [c EXCEPT !.thrown = 500]
    <2>1. Fails(r, failed)
      BY <1>10 DEF Throws
    <2>2. failed \in Ended(req) /\ failed \in Contexts /\ failed.thrown = 500 /\ failed.pending = Nothing
      BY <1>7 DEF Ended, Contexts
    <2> HIDE DEF failed
    <2>3. PICK response \in Responses, byHook \in BOOLEAN :
              /\ Reply(r, failed, response, byHook)
              /\ \A answer : ReplyFits(failed, answer, response, byHook)
      BY <2>1, <2>2, FailsFits
    <2>4. ReplyFits(failed, answered'[r], response, byHook)
      BY <2>3
    <2>5. QED
      BY <1>1, <1>3, <1>4, <2>2, <2>3, <2>4, ReplyStep
  <1>11. CASE value.is = "Response" /\ Reply(r, c, value, FALSE)
    <2>1. /\ value \in Responses /\ value.status = 200 /\ value.tag = None /\ value.cookie = NoCookies
          /\ IsPage(value, req, version)
      BY <1>9, <1>11, AsResponseOfResponse DEF PageForms
    <2>2. version # None /\ c.req = req
      BY <1>2, <1>7, ExchangeAssumption DEF Ended
    <2>3. ReplyFits(c, version, value, FALSE)
      BY <2>1, <2>2 DEF ReplyFits, IsPage, NoCookies
    <2>4. QED
      BY <1>1, <1>3, <1>4, <1>7, <1>11, <2>1, <2>3, ReplyStep
  <1>12. CASE Finalizes(r, c, value)
    <2>1. PICK m \in Ended(req), response \in Responses :
              Reply(r, m, response, FALSE) /\ ReplyFits(m, version, response, FALSE)
      BY <1>2, <1>3, <1>7, <1>9, <1>12, PageFits
    <2>2. ReplyFits(m, answered'[r], response, FALSE)
      BY <1>4, <2>1
    <2>3. QED
      BY <1>1, <1>3, <1>4, <2>1, <2>2, ReplyStep
  <1>13. QED
    BY <1>8, <1>10, <1>11, <1>12 DEF Outcome

LEMMA PublishStep ==
    ASSUME IInv, Publish
    PROVE  IInv'
  <1>1. version' = version + 1 /\ UNCHANGED <<stack, at, ctx, answered, reply, received, jar, cache>>
    BY DEF Publish
  <1>2. TypeOK'
    BY <1>1 DEF IInv, TypeOK
  <1>3. \A r \in Requests : RequestOK(r)'
    BY <1>1, OthersKeep DEF IInv
  <1>4. JarOK' /\ CacheOK'
    BY <1>1, StackKept DEF IInv, JarOK, CacheOK
  <1>5. QED
    BY <1>2, <1>3, <1>4 DEF IInv

LEMMA ReceiveStep ==
    ASSUME IInv, NEW r \in Requests, Receive(r)
    PROVE  IInv'
  <1> DEFINE response == reply[r].response
  <1>1. /\ at[r] = "replied"
        /\ received' = [received EXCEPT ![r] = TRUE]
        /\ jar' = [n \in CookieNames |->
                     IF response.cookie[n] = None THEN jar[n]
                     ELSE [wire |-> response.cookie[n], byHook |-> reply[r].byHook]]
        /\ cache' = IF response.tag # None /\ response.body # None
                    THEN [tag |-> response.tag, body |-> response.body]
                    ELSE cache
        /\ UNCHANGED <<stack, at, ctx, answered, reply, version>>
    BY DEF Receive
  <1>2. TypeOK /\ JarOK /\ CacheOK
    BY DEF IInv
  <1>3. ReplyFits(ctx[r], answered[r], response, reply[r].byHook)
    BY <1>1 DEF IInv, RequestOK, RepliedOK
  <1>4. response \in Responses /\ reply[r].byHook \in BOOLEAN
    BY <1>2, <1>3 DEF ReplyFits, TypeOK
  <1>5. jar' \in [CookieNames -> [wire : Wires, byHook : BOOLEAN] \cup {None}]
    <2>1. response.cookie \in [CookieNames -> Wires \cup {None}]
      BY <1>4 DEF Responses, Cookies
    <2>2. jar \in [CookieNames -> [wire : Wires, byHook : BOOLEAN] \cup {None}]
      BY <1>2 DEF TypeOK
    <2> HIDE DEF response
    <2>3. QED
      BY <1>1, <1>4, <2>1, <2>2
  <1>6. cache' \in Pages \cup {None}
    <2>1. response.body \in Contents \cup {None} /\ response.tag \in Tags \cup {None}
      BY <1>4 DEF Responses
    <2> HIDE DEF response
    <2>2. QED
      BY <1>1, <1>2, <2>1 DEF TypeOK, Pages
  <1>7. TypeOK'
    BY <1>1, <1>2, <1>5, <1>6 DEF TypeOK
  <1>8. \A q \in Requests : RequestOK(q)'
    BY <1>1, OthersKeep DEF IInv
  <1>9. JarOK'
    <2>1. SUFFICES ASSUME Holds(stack, "cookie"), NEW n \in CookieNames, jar'[n] # None, ~jar'[n].byHook
                   PROVE  Protection(jar'[n].wire)
      BY <1>1, StackKept DEF JarOK
    <2>2. CASE response.cookie[n] = None
      <3>1. jar'[n] = jar[n]
        BY <1>1, <2>2
      <3>2. QED
        BY <1>2, <2>1, <3>1 DEF JarOK
    <2>3. CASE response.cookie[n] # None
      <3> DEFINE entry == [wire |-> response.cookie[n], byHook |-> reply[r].byHook]
      <3>1. jar'[n] = entry
        BY <1>1, <2>3
      <3>2. jar'[n].wire = response.cookie[n] /\ ~reply[r].byHook
        BY <2>1, <3>1
      <3>3. QED
        BY <1>3, <2>1, <2>3, <3>2 DEF ReplyFits
    <2>4. QED
      BY <2>2, <2>3
  <1>10. CacheOK'
    BY <1>1, <1>2, <1>3 DEF CacheOK, ReplyFits
  <1>11. QED
    BY <1>7, <1>8, <1>9, <1>10 DEF IInv

LEMMA StepOK == IInv /\ [Next]_vars => IInv'
  <1> SUFFICES ASSUME IInv, [Next]_vars PROVE IInv'
    OBVIOUS
  <1>1. ASSUME NEW r \in Requests, Send(r) PROVE IInv'
    BY <1>1, SendStep
  <1>2. ASSUME NEW r \in Requests, Admit(r) PROVE IInv'
    BY <1>2, AdmitStep
  <1>3. ASSUME NEW r \in Requests, Handle(r) PROVE IInv'
    BY <1>3, HandleStep
  <1>4. ASSUME NEW r \in Requests, Receive(r) PROVE IInv'
    BY <1>4, ReceiveStep
  <1>5. CASE Publish
    BY <1>5, PublishStep
  <1>6. CASE UNCHANGED vars
    <2>1. UNCHANGED <<stack, at, ctx, answered, reply, received, version, jar, cache>>
      BY <1>6 DEF vars
    <2>2. \A r \in Requests : RequestOK(r)'
      BY <2>1, OthersKeep DEF IInv
    <2>3. JarOK' /\ CacheOK'
      BY <2>1, StackKept DEF IInv, JarOK, CacheOK
    <2>4. TypeOK'
      BY <2>1 DEF IInv, TypeOK
    <2>5. QED
      BY <2>2, <2>3, <2>4 DEF IInv
  <1>7. QED
    BY <1>1, <1>2, <1>3, <1>4, <1>5, <1>6 DEF Next

LEMMA Invariance == Spec => []IInv
  BY InitOK, StepOK, PTL DEF Spec

-----------------------------------------------------------------------------
(* What the runs check, for any stack, browser and number of requests. *)

\* The contexts, the replies, the cookies of the browser and its copy have their types.
THEOREM StackTypeOK == Spec => []TypeOK
  <1>1. IInv => TypeOK
    BY DEF IInv
  <1>2. QED
    BY Invariance, <1>1, PTL

\* What the handler answered was let through by every guard.
LEMMA AnsweredIsServed ==
    ASSUME IInv, NEW r \in Requests, answered[r] # None
    PROVE  ctx[r].req \in Asked /\ Honest(ctx[r].req) /\ Served(ctx[r].req)
  <1>1. RequestOK(r) /\ at[r] \in {"idle", "sent", "handling", "replied"}
    BY DEF IInv, TypeOK
  <1>2. RepliedOK(r)
    BY <1>1 DEF RequestOK, SentOK, HandlingOK
  <1>3. QED
    BY <1>2 DEF RepliedOK, Ended

\* A guard of the stack, or the macro of the route, has let it through.
LEMMA GuardsPassed ==
    ASSUME stack \in Stacks, NEW req, Served(req)
    PROVE  /\ \A plugin : Holds(stack, plugin) => Passes(plugin, req)
           /\ stack.flag # None => Passes(stack.flag, req)
  BY GuardHooksFacts DEF Served

\* The handler runs only for a request that every guard in front of it accepts, and
\* the hooks behind a refusal make nothing of it but a 304 for a browser that has
\* that very refusal (RefusalsStick).
THEOREM RefusalsAreKept == Spec => []RefusalsStick
  <1>1. ASSUME IInv PROVE RefusalsStick
    <2>1. stack \in Stacks /\ None \notin Flags
      BY <1>1, NoneIsNoAnswer DEF IInv, TypeOK
    <2>2. ASSUME NEW r \in Requests, answered[r] # None
          PROVE  LET req == ctx[r].req
                 IN  /\ Holds(stack, "basicAuth") => req.credentials = "good"
                     /\ stack.flag = "jwt" => /\ req.bearer # None
                                              /\ req.bearer.signature = "good"
                                              /\ req.bearer.exp >= stack.now
                     /\ stack.flag = "bearer" => req.bearer # None /\ req.bearer.shape # "empty"
                     /\ stack.flag = "apiKey" => {req.key.header, req.key.query} \cap stack.keys # {}
                     /\ Holds(stack, "csrf") /\ req.method = "POST" => req.token # None
      <3> DEFINE req == ctx[r].req
      <3>1. Served(req)
        BY <1>1, <2>2, AnsweredIsServed
      <3> HIDE DEF req
      <3>2. /\ Holds(stack, "basicAuth") => Passes("basicAuth", req)
            /\ Holds(stack, "csrf") => Passes("csrf", req)
            /\ stack.flag \in Flags => Passes(stack.flag, req)
        BY <2>1, <3>1, GuardsPassed
      <3>3. QED
        BY <3>2 DEF Passes, Flags, req
    <2>3. ASSUME NEW r \in Requests, Replied(r), answered[r] = None, ~reply[r].byHook
          PROVE  \/ reply[r].response.status \in {400, 401, 403, 411, 413, 500}
                 \/ /\ reply[r].response.status = 304 /\ ctx[r].set.status = None
                    /\ ctx[r].answer # None /\ ctx[r].req.copy # None
                    /\ ctx[r].req.copy.body = ctx[r].answer.body
      BY <1>1, <2>3 DEF IInv, RequestOK, RepliedOK, ReplyFits, HasAnswer, Replied
    <2>4. QED
      BY <2>2, <2>3 DEF RefusalsStick
  <1>2. QED
    BY Invariance, <1>1, PTL

\* No handler gets a body past the limit of the application or of the last rule
\* that applies, with the one gap of a request without a Content-Type on a route
\* with a schema (BodiesAreBounded).
THEOREM BodiesStayBounded == Spec => []BodiesAreBounded
  <1>1. ASSUME IInv PROVE BodiesAreBounded
    <2>1. stack \in Stacks
      BY <1>1 DEF IInv, TypeOK
    <2>2. SUFFICES ASSUME NEW r \in Requests, answered[r] # None, ctx[r].req.method = "POST"
                   PROVE  LET req == ctx[r].req
                          IN  /\ req.declared # None =>
                                   req.declared \in 0..BodyLimit \/ (stack.schema /\ req.type = None)
                              /\ stack.schema /\ req.type \in ReadTypes => req.size <= BodyLimit
                              /\ Holds(stack, "bodyLimit") /\ req.declared # None =>
                                   \A i \in DOMAIN stack.rules :
                                       Applies(stack.rules[i], req)
                                           /\ (\A j \in DOMAIN stack.rules : j > i => ~Applies(stack.rules[j], req))
                                       => req.declared <= stack.rules[i].maxSize
      BY DEF BodiesAreBounded
    <2> DEFINE req == ctx[r].req
    <2>3. Served(req) /\ req.method = "POST"
      BY <1>1, <2>2, AnsweredIsServed
    <2> HIDE DEF req
    <2>4. Measured(req) /\ (Holds(stack, "bodyLimit") => Passes("bodyLimit", req))
      BY <2>1, <2>3, GuardsPassed DEF Served
    <2>5. QED
      BY <2>3, <2>4 DEF Measured, Passes, req
  <1>2. QED
    BY Invariance, <1>1, PTL

\* A browser that echoes its token is refused only if its cookies are protected
\* (TokensAdmit).
THEOREM TokensAreAccepted == Spec => []TokensAdmit
  <1>1. ASSUME IInv PROVE TokensAdmit
    <2>1. SUFFICES ASSUME NEW r \in Requests, Replied(r), ctx[r].set.status = 403
                   PROVE  ctx[r].req.token = None \/ Protected(stack)
      BY DEF TokensAdmit
    <2>2. PICK req \in Asked : ctx[r] \in Ended(req)
      BY <1>1, <2>1 DEF IInv, RequestOK, RepliedOK, Replied
    <2>3. QED
      BY <2>1, <2>2 DEF Ended
  <1>2. QED
    BY Invariance, <1>1, PTL

\* The browser ends up with the page the handler returned, sent or kept, but for the
\* objects at which etag and compress throw on Node (PagesArrive).
THEOREM PagesDoArrive == Spec => []PagesArrive
  <1>1. ASSUME IInv PROVE PagesArrive
    BY <1>1 DEF IInv, RequestOK, RepliedOK, ReplyFits, Replied, PagesArrive, Arrives, HandlerThrew,
                LostOnNode, Meets
  <1>2. QED
    BY Invariance, <1>1, PTL

\* A cookie that a mapped reply set is read back as it was set (CookiesComeBack).
THEOREM CookiesAreReadBack == Spec => []CookiesComeBack
  <1>1. ASSUME IInv PROVE CookiesComeBack
    <2>1. SUFFICES ASSUME Holds(stack, "cookie"), NEW r \in Requests, at[r] \in {"handling", "replied"},
                          NEW n \in CookieNames \ ctx[r].req.inClear, ctx[r].req.cookies[n] # None
                   PROVE  ctx[r].cookie[n] = Plain(ctx[r].req.cookies[n].value)
      BY DEF CookiesComeBack
    <2>2. PICK req \in Asked : Honest(req) /\ ctx[r].req = req /\ ctx[r].cookie = CookiesRead(req)
      <3>1. CASE at[r] = "handling"
        BY <1>1, <2>1, <3>1 DEF IInv, RequestOK, HandlingOK, Carried
      <3>2. CASE at[r] = "replied"
        BY <1>1, <2>1, <3>2 DEF IInv, RequestOK, RepliedOK, Ended
      <3>3. QED
        BY <2>1, <3>1, <3>2
    <2>3. Protection(req.cookies[n])
      BY <2>1, <2>2 DEF Honest
    <2>4. QED
      BY <2>1, <2>2, <2>3, ProtectionRead DEF CookiesRead
  <1>2. QED
    BY Invariance, <1>1, PTL
=============================================================================
