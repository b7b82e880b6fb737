------------------------ MODULE ClientSessionProofs -------------------------
(***************************************************************************)
(* What the session of the web client guarantees for any number of tabs,   *)
(* persons, companies and sessions.  The invariant adds two facts to the   *)
(* ones the runs check: a request remembers a company only after its       *)
(* screen did, and the token in the storage never goes back to that of an  *)
(* earlier request.                                                        *)
(***************************************************************************)
EXTENDS ClientSession, TLAPS

\* A memory whose company is the one its screen shows, or the one its page is left for.
Named(m) == m.answered /\ m.user # None
              => m.company # None /\ m.company \in {m.user.company, m.picked}

\* A screen that has its answer has a company, one of the two.
Settled == \A t \in Tabs : Named(tab[t])

\* So have the requests such a screen has sent.
CallsNameShown ==
  \A c \in calls : c.shown # None => c.company # None /\ c.company \in {c.shown, c.picked}

\* Tokens on their way or in the storage have been given out.
Known == (store.token \in issued \cup {None}) /\ \A q \in me : q.token \in issued

\* While the storage has the token of a tab's /auth/me, the tab has no other.
NoOlderToken == \A q \in me : store.token = q.token => tab[q.tab].token \in {None, q.token}

IInv == TypeOK /\ TokensAgree /\ Settled /\ CallsNameShown /\ Known /\ NoOlderToken
-----------------------------------------------------------------------------
(* Facts about the records *)

\* Every handler changes the memory of one tab; what holds of each tab holds again
\* when it does of that one.
LEMMA OneTab ==
  ASSUME TokensAgree, Settled, NEW t \in Tabs,
         \A u \in Tabs \ {t} : tab'[u] = tab[u],
         tab'[t].token = tab'[t].active,
         Named(tab'[t])
  PROVE  TokensAgree' /\ Settled'
<1>1. TokensAgree'
  BY DEF TokensAgree
<1>2. Settled'
  BY DEF Settled
<1>3. QED BY <1>1, <1>2

\* A memory that is signed out has no token, no company and no user.
LEMMA SignedOutFacts ==
  ASSUME NEW m \in Memory
  PROVE  /\ SignedOut(m) \in Memory
         /\ SignedOut(m).token = None /\ SignedOut(m).active = None /\ SignedOut(m).user = None
         /\ [SignedOut(m) EXCEPT !.loading = FALSE] \in Memory
         /\ [SignedOut(m) EXCEPT !.loading = FALSE].token = None
         /\ [SignedOut(m) EXCEPT !.loading = FALSE].active = None
         /\ [SignedOut(m) EXCEPT !.loading = FALSE].user = None
         /\ [m EXCEPT !.loading = FALSE] \in Memory
         /\ [m EXCEPT !.loading = FALSE].token = m.token
         /\ [m EXCEPT !.loading = FALSE].active = m.active
         /\ [m EXCEPT !.loading = FALSE].user = m.user
         /\ [m EXCEPT !.loading = FALSE].company = m.company
         /\ [m EXCEPT !.loading = FALSE].answered = m.answered
         /\ [m EXCEPT !.loading = FALSE].picked = m.picked
  BY DEF SignedOut, Memory

\* The company asked for is one, or none.
LEMMA AskedType ==
  ASSUME TypeOK, NEW t \in Tabs
  PROVE  Asked(t) \in Companies \cup {None}
  BY DEF TypeOK, Asked, Memory, Storage

\* An empty storage is one.
LEMMA EmptyFacts == Empty \in Storage /\ Empty.token = None
  BY DEF Empty, Storage
-----------------------------------------------------------------------------
(* Every step keeps the invariant *)

\* Nobody is signed in.
LEMMA InitEstablishes == Init => IInv
<1> SUFFICES ASSUME Init PROVE IInv
  OBVIOUS
<1>1. store \in Storage /\ store.token = None
  BY EmptyFacts DEF Init
<1>2. /\ tab \in [Tabs -> Memory] /\ \A t \in Tabs : tab[t].token = tab[t].active /\ ~tab[t].answered
  BY DEF Init, Memory
<1>3. me = {} /\ calls = {} /\ live = {} /\ issued = {} /\ allowed \in [Persons -> SUBSET Companies]
  BY SessionAssumption DEF Init
<1>4. TypeOK
  BY <1>1, <1>2, <1>3 DEF TypeOK, Storage
<1>5. QED
  BY <1>1, <1>2, <1>3, <1>4 DEF IInv, TokensAgree, Settled, Named, CallsNameShown, Known, NoOlderToken

\* A tab is opened or reloaded: its token and company are the stored ones, and there
\* is no answer yet.
LEMMA BootPreserves ==
  ASSUME IInv, NEW t \in Tabs, Boot(t)
  PROVE  IInv'
<1> DEFINE new == [tab |-> t, token |-> store.token, company |-> store.company, answer |-> None]
<1>1. /\ store.token \in Sessions \cup {None} /\ store.user \in Profile \cup {None}
      /\ store.company \in Companies \cup {None}
      /\ \A q \in me' : (q \in me /\ q.tab # t) \/ (q = new /\ store.token # None)
      /\ calls' \subseteq calls /\ UNCHANGED <<store, live, issued, allowed>>
  BY DEF Boot, IInv, TypeOK, Storage
<1>2. /\ tab' \in [Tabs -> Memory]
      /\ \A u \in Tabs \ {t} : tab'[u] = tab[u]
      /\ tab'[t].token = store.token /\ tab'[t].active = store.token /\ tab'[t].answered = FALSE
  BY <1>1 DEF Boot, IInv, TypeOK, Memory
<1>3. new.tab = t /\ new.token = store.token /\ (store.token # None => new \in Fetch)
  BY <1>1 DEF Fetch
<1> HIDE DEF new
<1>5. TypeOK'
  <2>1. me' \subseteq Fetch
    BY <1>1, <1>3 DEF IInv, TypeOK, Fetch
  <2>2. QED BY <1>1, <1>2, <2>1 DEF IInv, TypeOK, Storage, Fetch
<1>6. TokensAgree' /\ Settled'
  BY <1>2, OneTab DEF IInv, Named
<1>7. CallsNameShown' /\ Known'
  BY <1>1, <1>3 DEF IInv, CallsNameShown, Known
<1>8. NoOlderToken'
  <2>1. \A q \in me : q.tab \in Tabs
    BY DEF IInv, TypeOK, Fetch
  <2>2. QED BY <1>1, <1>2, <1>3, <2>1 DEF IInv, NoOlderToken
<1>9. QED BY <1>5, <1>6, <1>7, <1>8 DEF IInv

\* The company picked is the tab's and the device's; the screen stays until the page is
\* loaded anew.
LEMMA SwitchPreserves ==
  ASSUME IInv, NEW t \in Tabs, NEW c \in Companies, Switch(t, c)
  PROVE  IInv'
<1>1. tab[t] \in Memory /\ tab' = [tab EXCEPT ![t].company = c, ![t].picked = c]
      /\ UNCHANGED <<me, calls, live, issued, allowed>>
  BY DEF Switch, IInv, TypeOK
<1>2. store' \in Storage /\ store'.token = store.token
  BY DEF Switch, IInv, TypeOK, Storage
<1>3. /\ tab' \in [Tabs -> Memory] /\ \A u \in Tabs \ {t} : tab'[u] = tab[u]
      /\ tab'[t].token = tab[t].token /\ tab'[t].active = tab[t].active
      /\ tab'[t].company = c /\ tab'[t].picked = c
  BY <1>1 DEF IInv, TypeOK, Memory
<1>4. TypeOK'
  BY <1>1, <1>2, <1>3 DEF IInv, TypeOK
<1>5. TokensAgree' /\ Settled'
  <2>1. tab'[t].token = tab'[t].active
    BY <1>3 DEF IInv, TokensAgree
  <2>2. Named(tab'[t])
    BY <1>3, SessionAssumption DEF Named
  <2>3. QED BY <1>3, <2>1, <2>2, OneTab DEF IInv
<1>6. CallsNameShown' /\ Known'
  BY <1>1, <1>2 DEF IInv, CallsNameShown, Known
<1>7. NoOlderToken'
  <2>1. \A u \in Tabs : tab'[u].token = tab[u].token
    BY <1>3
  <2>2. \A o \in me : o.tab \in Tabs
    BY DEF IInv, TypeOK, Fetch
  <2>3. QED BY <1>1, <1>2, <2>1, <2>2 DEF IInv, NoOlderToken
<1>8. QED BY <1>4, <1>5, <1>6, <1>7 DEF IInv

\* A token that nobody has had before.
LEMMA LoginPreserves ==
  ASSUME IInv, NEW t \in Tabs, NEW s \in Sessions, Login(t, s)
  PROVE  IInv'
<1>1. /\ s \notin issued /\ issued' = issued \cup {s} /\ live' = live \cup {s}
      /\ me' = me \cup {Me(t, s)}
      /\ UNCHANGED <<calls, allowed>>
  BY DEF Login
<1>2. /\ tab' \in [Tabs -> Memory]
      /\ \A u \in Tabs \ {t} : tab'[u] = tab[u]
      /\ tab'[t].token = s /\ tab'[t].active = s /\ tab'[t].user = tab[t].user
      /\ tab'[t].company = tab[t].company /\ tab'[t].picked = tab[t].picked
      /\ tab'[t].answered = tab[t].answered
  BY DEF Login, IInv, TypeOK, Memory
<1>3. store' \in Storage /\ store'.token = s
  BY DEF Login, IInv, TypeOK, Storage
<1>4. Me(t, s) \in Fetch /\ Me(t, s).tab = t /\ Me(t, s).token = s
  BY AskedType DEF Me, Fetch, IInv
<1>5. TypeOK'
  <2>1. me' \subseteq Fetch
    BY <1>1, <1>4 DEF IInv, TypeOK, Fetch
  <2>2. live' \subseteq issued' /\ issued' \subseteq Sessions
    BY <1>1 DEF IInv, TypeOK
  <2>3. QED BY <1>1, <1>2, <1>3, <2>1, <2>2 DEF IInv, TypeOK, Storage, Fetch
<1>6. TokensAgree' /\ Settled'
  <2>1. Named(tab'[t])
    BY <1>2 DEF IInv, Settled, Named
  <2>2. QED BY <1>2, <2>1, OneTab DEF IInv
<1>7. CallsNameShown' /\ Known'
  BY <1>1, <1>3, <1>4 DEF IInv, CallsNameShown, Known
<1>8. NoOlderToken'
  BY <1>1, <1>2, <1>3, <1>4 DEF IInv, NoOlderToken, Known
<1>9. QED BY <1>5, <1>6, <1>7, <1>8 DEF IInv

\* The console's "sign in as" stores another person's session; no open tab changes.
LEMMA ImpersonatePreserves ==
  ASSUME IInv, NEW s \in Sessions, Impersonate(s)
  PROVE  IInv'
<1>1. /\ s \notin issued /\ issued' = issued \cup {s} /\ live' = live \cup {s}
      /\ UNCHANGED <<tab, me, calls, allowed>>
  BY DEF Impersonate
<1>2. store' \in Storage /\ store'.token = s
  BY DEF Impersonate, IInv, TypeOK, Storage
<1>3. TypeOK'
  BY <1>1, <1>2 DEF IInv, TypeOK, Storage
<1>4. TokensAgree' /\ Settled' /\ CallsNameShown' /\ Known' /\ NoOlderToken'
  BY <1>1, <1>2 DEF IInv, TokensAgree, Settled, CallsNameShown, Known, NoOlderToken
<1>5. QED BY <1>3, <1>4 DEF IInv

\* A tab that signs out, or is, leaves an empty storage.
LEMMA SignOutPreserves ==
  ASSUME IInv, NEW t \in Tabs, store' = Empty,
         tab' = [tab EXCEPT ![t] = SignedOut(@)], me' \subseteq me, calls' \subseteq calls,
         live' \subseteq live, UNCHANGED <<issued, allowed>>
  PROVE  IInv'
<1>1. tab[t] \in Memory /\ tab'[t] = SignedOut(tab[t]) /\ \A u \in Tabs \ {t} : tab'[u] = tab[u]
  BY DEF IInv, TypeOK
<1>2. /\ tab' \in [Tabs -> Memory] /\ tab'[t].token = None /\ tab'[t].active = None /\ tab'[t].user = None
  BY <1>1, SignedOutFacts DEF IInv, TypeOK
<1>3. store' \in Storage /\ store'.token = None
  BY EmptyFacts
<1>4. TypeOK'
  BY <1>2, <1>3 DEF IInv, TypeOK, Storage
<1>5. TokensAgree' /\ Settled'
  BY <1>1, <1>2, OneTab DEF IInv, Named
<1>6. CallsNameShown' /\ Known'
  BY <1>3 DEF IInv, CallsNameShown, Known
<1>7. NoOlderToken'
  BY <1>3, SessionAssumption DEF IInv, NoOlderToken, TypeOK, Fetch
<1>8. QED BY <1>4, <1>5, <1>6, <1>7 DEF IInv

\* Signing out clears the storage and this tab's memory.
LEMMA LogoutPreserves ==
  ASSUME IInv, NEW t \in Tabs, Logout(t)
  PROVE  IInv'
<1>1. store' = Empty /\ tab' = [tab EXCEPT ![t] = SignedOut(@)]
  BY DEF Logout
<1>2. me' \subseteq me /\ calls' \subseteq calls /\ live' \subseteq live /\ UNCHANGED <<issued, allowed>>
  BY DEF Logout
<1>3. QED BY <1>1, <1>2, SignOutPreserves

\* The answer of /auth/me settles the tab's company and what its screen shows.
LEMMA MeAnsweredPreserves ==
  ASSUME IInv, NEW q \in me, MeAnswered(q)
  PROVE  IInv'
<1>1. q \in Fetch /\ q.tab \in Tabs /\ q.answer \in Profile /\ q.answer.company \in Companies
  BY DEF MeAnswered, IInv, TypeOK, Fetch, Profile
<1>2. q.answer.company # None
  BY <1>1, SessionAssumption
<1>3. /\ tab' \in [Tabs -> Memory]
      /\ \A u \in Tabs \ {q.tab} : tab'[u] = tab[u]
      /\ tab'[q.tab].token = tab[q.tab].token /\ tab'[q.tab].active = tab[q.tab].active
      /\ tab'[q.tab].company = q.answer.company /\ tab'[q.tab].user = q.answer
  BY <1>1, SMTT(30) DEF MeAnswered, IInv, TypeOK, Memory
<1>4. store' \in Storage /\ store'.token = store.token
  BY <1>1 DEF MeAnswered, IInv, TypeOK, Storage
<1>5. me' = me \ {q} /\ UNCHANGED <<calls, live, issued, allowed>>
  BY DEF MeAnswered
<1>6. TypeOK'
  BY <1>3, <1>4, <1>5 DEF IInv, TypeOK
<1>7. TokensAgree' /\ Settled'
  <2>1. tab'[q.tab].token = tab'[q.tab].active
    BY <1>1, <1>3 DEF IInv, TokensAgree
  <2>2. QED BY <1>1, <1>2, <1>3, <2>1, OneTab DEF IInv, Named
<1>8. CallsNameShown' /\ Known'
  BY <1>4, <1>5 DEF IInv, CallsNameShown, Known
<1>9. NoOlderToken'
  <2>1. \A t \in Tabs : tab'[t].token = tab[t].token
    BY <1>3
  <2>2. \A o \in me : o.tab \in Tabs
    BY DEF IInv, TypeOK, Fetch
  <2>3. QED BY <1>4, <1>5, <2>1, <2>2 DEF IInv, NoOlderToken
<1>10. QED BY <1>6, <1>7, <1>8, <1>9 DEF IInv

\* A request that fails ends nothing but the wait.
LEMMA MeFailsPreserves ==
  ASSUME IInv, NEW q \in me, MeFails(q)
  PROVE  IInv'
<1>1. q.tab \in Tabs /\ tab[q.tab] \in Memory
  BY DEF IInv, TypeOK, Fetch
<1>2. /\ \A u \in Tabs \ {q.tab} : tab'[u] = tab[u]
      /\ tab'[q.tab] = [tab[q.tab] EXCEPT !.loading = FALSE]
      /\ me' = me \ {q} /\ UNCHANGED <<store, calls, live, issued, allowed>>
  BY <1>1 DEF MeFails, IInv, TypeOK
<1>3. /\ tab' \in [Tabs -> Memory]
      /\ tab'[q.tab].token = tab[q.tab].token /\ tab'[q.tab].active = tab[q.tab].active
      /\ tab'[q.tab].company = tab[q.tab].company /\ tab'[q.tab].user = tab[q.tab].user
      /\ tab'[q.tab].answered = tab[q.tab].answered /\ tab'[q.tab].picked = tab[q.tab].picked
  <2>1. tab' = [tab EXCEPT ![q.tab] = tab'[q.tab]]
    BY <1>1 DEF MeFails, IInv, TypeOK
  <2>2. QED BY <1>1, <1>2, <2>1, SignedOutFacts DEF IInv, TypeOK
<1>4. TypeOK'
  BY <1>2, <1>3 DEF IInv, TypeOK
<1>5. TokensAgree' /\ Settled'
  <2>1. tab'[q.tab].token = tab'[q.tab].active
    BY <1>1, <1>3 DEF IInv, TokensAgree
  <2>2. Named(tab'[q.tab])
    BY <1>1, <1>3 DEF IInv, Settled, Named
  <2>3. QED BY <1>1, <1>2, <2>1, <2>2, OneTab DEF IInv
<1>6. CallsNameShown' /\ Known'
  BY <1>2 DEF IInv, CallsNameShown, Known
<1>7. NoOlderToken'
  <2>1. \A t \in Tabs : tab'[t].token = tab[t].token
    BY <1>2, <1>3
  <2>2. \A o \in me : o.tab \in Tabs
    BY DEF IInv, TypeOK, Fetch
  <2>3. QED BY <1>2, <2>1, <2>2 DEF IInv, NoOlderToken
<1>8. QED BY <1>4, <1>5, <1>6, <1>7 DEF IInv

\* A refused /auth/me signs the tab out only when the tab has the refused token: the
\* storage that still has it is the tab's own.
LEMMA RefusedEndsOwn ==
  ASSUME IInv, NEW q \in me, MeRefused(q)
  PROVE  /\ q.tab \in Tabs /\ tab[q.tab] \in Memory /\ q.token \notin live
         /\ \/ /\ store' = Empty
               /\ tab'[q.tab] = [SignedOut(tab[q.tab]) EXCEPT !.loading = FALSE]
               /\ tab[q.tab].token \in {None, q.token}
            \/ store' = store /\ tab'[q.tab] = [tab[q.tab] EXCEPT !.loading = FALSE]
         /\ tab' = [tab EXCEPT ![q.tab] = tab'[q.tab]]
<1>1. q.tab \in Tabs /\ tab[q.tab] \in Memory /\ q.token \in Sessions /\ q.token # None
  BY SessionAssumption DEF IInv, TypeOK, Fetch
<1>2. tab[q.tab].token = tab[q.tab].active
  BY <1>1 DEF IInv, TokensAgree
<1>3. Empty.token # q.token
  BY <1>1, EmptyFacts
<1>4. tab' = [tab EXCEPT ![q.tab] = tab'[q.tab]]
  BY <1>1 DEF MeRefused, IInv, TypeOK
<1>5. CASE EndsHere(q.tab, q.token)
  BY <1>1, <1>2, <1>3, <1>4, <1>5 DEF MeRefused, EndsHere, IInv, TypeOK
<1>6. CASE ~EndsHere(q.tab, q.token)
  <2>1. store.token = q.token => tab[q.tab].token \in {None, q.token}
    BY DEF IInv, NoOlderToken
  <2>2. QED BY <1>1, <1>4, <1>6, <2>1 DEF MeRefused, IInv, TypeOK
<1>7. QED BY <1>5, <1>6

\* /auth/me answers 401.
LEMMA MeRefusedPreserves ==
  ASSUME IInv, NEW q \in me, MeRefused(q)
  PROVE  IInv'
<1> DEFINE t == q.tab
<1>1. t \in Tabs /\ tab[t] \in Memory /\ tab' = [tab EXCEPT ![t] = tab'[t]]
  BY RefusedEndsOwn
<1>2. me' = me \ {q} /\ UNCHANGED <<calls, live, issued, allowed>>
  BY DEF MeRefused
<1>3. \A u \in Tabs \ {t} : tab'[u] = tab[u]
  BY <1>1 DEF IInv, TypeOK
<1>4. /\ tab'[t] \in Memory /\ tab'[t].token = tab'[t].active
      /\ \/ store' = Empty /\ tab'[t].token = None /\ tab'[t].user = None
         \/ /\ store' = store /\ tab'[t].token = tab[t].token /\ tab'[t].user = tab[t].user
            /\ tab'[t].company = tab[t].company /\ tab'[t].answered = tab[t].answered
            /\ tab'[t].picked = tab[t].picked
  <2>1. tab[t].token = tab[t].active
    BY <1>1 DEF IInv, TokensAgree
  <2>2. CASE store' = Empty /\ tab'[t] = [SignedOut(tab[t]) EXCEPT !.loading = FALSE]
    BY <1>1, <2>2, SignedOutFacts, ZenonT(40)
  <2>3. CASE store' = store /\ tab'[t] = [tab[t] EXCEPT !.loading = FALSE]
    BY <1>1, <2>1, <2>3, SignedOutFacts, ZenonT(40)
  <2>4. QED BY <2>2, <2>3, RefusedEndsOwn
<1> HIDE DEF t
<1>5. tab' \in [Tabs -> Memory]
  BY <1>1, <1>4 DEF IInv, TypeOK
<1>6. store' \in Storage /\ (store'.token = None \/ store' = store)
  BY <1>4, EmptyFacts DEF IInv, TypeOK
<1>7. TypeOK'
  BY <1>2, <1>5, <1>6 DEF IInv, TypeOK
<1>8. TokensAgree' /\ Settled'
  <2>1. Named(tab'[t])
    BY <1>1, <1>4 DEF IInv, Settled, Named
  <2>2. QED BY <1>1, <1>3, <1>4, <2>1, OneTab DEF IInv
<1>9. CallsNameShown' /\ Known'
  BY <1>2, <1>6 DEF IInv, CallsNameShown, Known
<1>10. NoOlderToken'
  <2>1. \A o \in me : o.tab \in Tabs /\ o.token \in Sessions
    BY DEF IInv, TypeOK, Fetch
  <2>2. CASE store' = Empty
    BY <1>2, <2>1, <2>2, EmptyFacts, SessionAssumption DEF NoOlderToken
  <2>3. CASE store' = store /\ tab'[t].token = tab[t].token
    <3>1. \A u \in Tabs : tab'[u].token = tab[u].token
      BY <1>3, <2>3
    <3>2. QED BY <1>2, <2>1, <2>3, <3>1 DEF IInv, NoOlderToken
  <2>4. QED BY <1>4, <2>2, <2>3
<1>11. QED BY <1>7, <1>8, <1>9, <1>10 DEF IInv

\* The server answers with a company its person may open, or their own.
LEMMA MeServedPreserves ==
  ASSUME IInv, NEW q \in me, MeServed(q)
  PROVE  IInv'
<1> DEFINE new == [q EXCEPT !.answer = Answer(Owner[q.token], q.company)]
<1>1. q \in Fetch /\ Owner[q.token] \in Persons
  BY SessionAssumption DEF IInv, TypeOK, Fetch
<1>2. Answer(Owner[q.token], q.company) \in Profile
  BY <1>1, SessionAssumption DEF Answer, Effective, Profile, IInv, TypeOK
<1>3. new \in Fetch /\ new.tab = q.tab /\ new.token = q.token
  BY <1>1, <1>2 DEF Fetch
<1>4. me' = (me \ {q}) \cup {new} /\ UNCHANGED <<store, tab, calls, live, issued, allowed>>
  BY DEF MeServed
<1> HIDE DEF new
<1>5. TypeOK'
  BY <1>3, <1>4 DEF IInv, TypeOK
<1>6. TokensAgree' /\ Settled' /\ CallsNameShown' /\ Known' /\ NoOlderToken'
  BY <1>3, <1>4 DEF IInv, TokensAgree, Settled, CallsNameShown, Known, NoOlderToken
<1>7. QED BY <1>5, <1>6 DEF IInv

\* A request names the company of a screen that has had its answer.
LEMMA CallPreserves ==
  ASSUME IInv, NEW t \in Tabs, Call(t)
  PROVE  IInv'
<1> DEFINE new == [tab |-> t, token |-> tab[t].token, company |-> Header(t),
                   shown |-> IF tab[t].answered THEN tab[t].user.company ELSE None,
                   picked |-> tab[t].picked]
<1>1. /\ tab[t] \in Memory /\ tab[t].token \in Sessions /\ tab[t].user \in Profile
      /\ Header(t) \in Companies \cup {None}
      /\ calls' = calls \cup {new} /\ tab' = [tab EXCEPT ![t].company = Header(t)]
      /\ UNCHANGED <<store, me, live, issued, allowed>>
  BY AskedType DEF Call, Header, IInv, TypeOK, Memory
<1>2. tab[t].answered => Header(t) = tab[t].company /\ tab[t].company # None
                         /\ tab[t].company \in {tab[t].user.company, tab[t].picked}
  BY DEF Call, Header, Asked, IInv, Settled, Named
<1>3. new \in Request
      /\ (new.shown # None => new.company # None /\ new.company \in {new.shown, new.picked})
  BY <1>1, <1>2 DEF Request, Profile, Memory
<1> HIDE DEF new
<1>4. /\ tab' \in [Tabs -> Memory] /\ \A u \in Tabs \ {t} : tab'[u] = tab[u]
      /\ tab'[t].token = tab[t].token /\ tab'[t].active = tab[t].active /\ tab'[t].user = tab[t].user
      /\ tab'[t].answered = tab[t].answered /\ tab'[t].company = Header(t)
      /\ tab'[t].picked = tab[t].picked
  BY <1>1 DEF IInv, TypeOK, Memory
<1>5. TypeOK'
  BY <1>1, <1>3, <1>4 DEF IInv, TypeOK
<1>6. TokensAgree' /\ Settled'
  <2>1. tab'[t].token = tab'[t].active
    BY <1>4 DEF IInv, TokensAgree
  <2>2. QED BY <1>2, <1>4, <2>1, OneTab DEF IInv, Named
<1>7. CallsNameShown' /\ Known'
  BY <1>1, <1>3 DEF IInv, CallsNameShown, Known
<1>8. NoOlderToken'
  <2>1. \A u \in Tabs : tab'[u].token = tab[u].token
    BY <1>4
  <2>2. \A o \in me : o.tab \in Tabs
    BY DEF IInv, TypeOK, Fetch
  <2>3. QED BY <1>1, <2>1, <2>2 DEF IInv, NoOlderToken
<1>9. QED BY <1>5, <1>6, <1>7, <1>8 DEF IInv

\* Another request is answered 401.
LEMMA CallRefusedPreserves ==
  ASSUME IInv, NEW c \in calls, CallRefused(c)
  PROVE  IInv'
<1>1. calls' = calls \ {c} /\ UNCHANGED <<me, live, issued, allowed>>
  BY DEF CallRefused
<1>2. CASE EndsHere(c.tab, c.token)
  <2>1. c.tab \in Tabs /\ store' = Empty /\ tab' = [tab EXCEPT ![c.tab] = SignedOut(@)]
    BY <1>2 DEF CallRefused, IInv, TypeOK, Request
  <2>2. QED BY <1>1, <2>1, SignOutPreserves
<1>3. CASE ~EndsHere(c.tab, c.token)
  <2>1. UNCHANGED <<store, tab>>
    BY <1>3 DEF CallRefused
  <2>2. TypeOK'
    BY <1>1, <2>1 DEF IInv, TypeOK
  <2>3. QED BY <1>1, <2>1, <2>2
            DEF IInv, TokensAgree, Settled, CallsNameShown, Known, NoOlderToken
<1>4. QED BY <1>2, <1>3

\* What others do, and a request that is carried out, leave every tab as it is.
LEMMA OthersPreserve ==
  ASSUME IInv, UNCHANGED <<store, tab, me, issued>>, calls' \subseteq calls, live' \subseteq live,
         allowed' \in [Persons -> SUBSET Companies]
  PROVE  IInv'
<1>1. TypeOK'
  BY DEF IInv, TypeOK
<1>2. QED BY <1>1 DEF IInv, TokensAgree, Settled, CallsNameShown, Known, NoOlderToken

\* Every step of a tab, of the server and of the administrators preserves the invariant.
LEMMA StepPreserves == IInv /\ [Next]_vars => IInv'
<1> SUFFICES ASSUME IInv, [Next]_vars PROVE IInv'
  OBVIOUS
<1>1. allowed \in [Persons -> SUBSET Companies]
  BY DEF IInv, TypeOK
<1>2. CASE UNCHANGED vars
  BY <1>1, <1>2, OthersPreserve DEF vars
<1>3. ASSUME NEW t \in Tabs,
             \/ Boot(t) \/ Logout(t) \/ Call(t)
             \/ \E s \in Sessions : Login(t, s)
             \/ \E c \in Companies : Switch(t, c)
      PROVE  IInv'
  BY <1>3, BootPreserves, LogoutPreserves, CallPreserves, LoginPreserves, SwitchPreserves
<1>4. ASSUME NEW s \in Sessions, EndSession(s)
      PROVE  IInv'
  BY <1>1, <1>4, OthersPreserve DEF EndSession
<1>5. ASSUME NEW q \in me, MeServed(q) \/ MeEnds(q)
      PROVE  IInv'
  BY <1>5, MeServedPreserves, MeAnsweredPreserves, MeRefusedPreserves, MeFailsPreserves DEF MeEnds
<1>6. ASSUME NEW c \in calls, CallServed(c)
      PROVE  IInv'
  BY <1>1, <1>6, OthersPreserve DEF CallServed
<1>7. ASSUME NEW p \in Persons, NEW c \in Companies, TakeAway(p, c)
      PROVE  IInv'
  <2>1. allowed' \in [Persons -> SUBSET Companies]
    BY <1>1, <1>7 DEF TakeAway
  <2>2. QED BY <1>7, <2>1, OthersPreserve DEF TakeAway
<1>8. QED
  BY <1>2, <1>3, <1>4, <1>5, <1>6, <1>7, ImpersonatePreserves, CallRefusedPreserves DEF Next

\* The invariant holds in every state.
LEMMA Invariance == Spec => []IInv
<1>1. QED BY InitEstablishes, StepPreserves, PTL DEF Spec
-----------------------------------------------------------------------------
(* The theorems *)

\* Storage, memories and requests keep their types.
THEOREM TypeCorrect == Spec => []TypeOK
<1>1. IInv => TypeOK
  BY DEF IInv
<1>2. QED BY <1>1, Invariance, PTL

\* React's token and the fetch wrapper's are never apart (AuthContext, current-company.ts).
THEOREM TokensAgreeCorrect == Spec => []TokensAgree
<1>1. IInv => TokensAgree
  BY DEF IInv
<1>2. QED BY <1>1, Invariance, PTL

\* Once /auth/me has answered, requests name the company the screen shows, or the one its
\* page is being left for.
THEOREM HeaderIsShownCorrect == Spec => []HeaderIsShown
<1>1. IInv => HeaderIsShown
  BY DEF IInv, Settled, Named, HeaderIsShown, Header, Asked
<1>2. QED BY <1>1, Invariance, PTL

\* Where the person may still open the company shown, the request is carried out there, or
\* where the page was being left for.
THEOREM CarriedOutWhereShownCorrect == Spec => CarriedOutWhereShown
<1>1. IInv => \A c \in calls :
        LET p == Owner[c.token] IN
        CallServed(c) /\ c.shown \in allowed[p]
            => \/ Effective(p, c.company) = c.shown
               \/ c.picked # None /\ Effective(p, c.company) = Effective(p, c.picked)
  <2> SUFFICES ASSUME IInv, NEW c \in calls, c.shown \in allowed[Owner[c.token]]
               PROVE  \/ Effective(Owner[c.token], c.company) = c.shown
                      \/ c.picked # None /\ c.company = c.picked
    OBVIOUS
  <2>1. Owner[c.token] \in Persons /\ c.shown # None
    BY SessionAssumption DEF IInv, TypeOK, Request
  <2>2. QED BY <2>1 DEF IInv, CallsNameShown, Effective
<1>2. QED BY <1>1, Invariance, PTL DEF Spec, CarriedOutWhereShown

\* No step but its own sign-out, its reload or the end of its session takes a tab's
\* token away.
LEMMA TokenStays ==
  ASSUME IInv, [Next]_vars, NEW t \in Tabs, tab[t].token # None, tab'[t].token = None
  PROVE  tab[t].token \notin live \/ Logout(t) \/ Boot(t)
<1>1. tab \in [Tabs -> Memory] /\ tab[t].token = tab[t].active
  BY DEF IInv, TypeOK, TokensAgree
<1>2. SUFFICES ASSUME ~Logout(t), ~Boot(t)
               PROVE  tab[t].token \notin live
  OBVIOUS
<1>3. CASE \/ UNCHANGED vars \/ (\E s \in Sessions : Impersonate(s) \/ EndSession(s))
           \/ (\E q \in me : MeServed(q)) \/ (\E c \in calls : CallServed(c))
           \/ \E p \in Persons, c \in Companies : TakeAway(p, c)
  <2>1. tab' = tab
    BY <1>3 DEF vars, Impersonate, EndSession, MeServed, CallServed, TakeAway
  <2>2. QED BY <2>1
<1>4. ASSUME NEW u \in Tabs,
             \/ Boot(u) \/ Logout(u) \/ Call(u)
             \/ \E s \in Sessions : Login(u, s)
             \/ \E c \in Companies : Switch(u, c)
      PROVE  FALSE
  <2>1. CASE u # t
    BY <1>1, <1>4, <2>1 DEF Boot, Logout, Call, Login, Switch
  <2>2. CASE u = t /\ Call(t)
    BY <1>1, <2>2 DEF Call, Memory
  <2>3. CASE u = t /\ \E s \in Sessions : Login(t, s)
    BY <1>1, <2>3, SessionAssumption DEF Login, Memory
  <2>4. CASE u = t /\ \E c \in Companies : Switch(t, c)
    BY <1>1, <2>4 DEF Switch, Memory
  <2>5. QED BY <1>2, <1>4, <2>1, <2>2, <2>3, <2>4
<1>5. ASSUME NEW q \in me, MeAnswered(q)
      PROVE  FALSE
  <2>1. tab'[t].token = tab[t].token
    BY <1>1, <1>5 DEF MeAnswered, Memory
  <2>2. QED BY <2>1
<1>6. ASSUME NEW q \in me, MeFails(q)
      PROVE  FALSE
  <2>1. tab'[t].token = tab[t].token
    BY <1>1, <1>6 DEF MeFails, Memory
  <2>2. QED BY <2>1
<1>7. ASSUME NEW q \in me, MeRefused(q)
      PROVE  tab[t].token \notin live
  <2>1. q.tab = t
    <3>1. SUFFICES ASSUME q.tab # t PROVE FALSE
      OBVIOUS
    <3>2. tab'[t] = tab[t]
      BY <1>1, <1>7, <3>1 DEF MeRefused
    <3>3. QED BY <3>2
  <2>2. CASE tab[t].token \in {None, q.token} /\ q.token \notin live
    BY <2>2
  <2>3. CASE tab'[t] = [tab[t] EXCEPT !.loading = FALSE]
    BY <1>1, <2>3, SignedOutFacts
  <2>4. QED BY <1>7, <2>1, <2>2, <2>3, RefusedEndsOwn
<1>8. ASSUME NEW c \in calls, CallRefused(c)
      PROVE  tab[t].token \notin live
  <2>1. CASE EndsHere(c.tab, c.token) /\ c.tab = t
    BY <1>1, <1>8, <2>1 DEF CallRefused, EndsHere
  <2>2. CASE ~(EndsHere(c.tab, c.token) /\ c.tab = t)
    <3>1. tab'[t] = tab[t]
      BY <1>1, <1>8, <2>2 DEF CallRefused
    <3>2. QED BY <3>1
  <2>3. QED BY <2>1, <2>2
<1>9. QED BY <1>3, <1>4, <1>5, <1>6, <1>7, <1>8 DEF Next, MeEnds

\* A late refusal of an earlier session, a network failure or another tab signs nobody
\* out of a session that still lives.
THEOREM SignedOutOnlyWhenEndedCorrect == Spec => SignedOutOnlyWhenEnded
<1>1. IInv /\ [Next]_vars =>
        [\A t \in Tabs : tab[t].token # None /\ tab'[t].token = None
                           => \/ tab[t].token \notin live
                              \/ Logout(t) \/ Boot(t)]_vars
  BY TokenStays
<1>2. QED BY <1>1, Invariance, PTL DEF Spec, SignedOutOnlyWhenEnded
=============================================================================
