--------------------------- MODULE ClientSession ----------------------------
(***************************************************************************)
(* The web client's session: who is signed in, and which company a page's  *)
(* requests are for (context/AuthContext.tsx).                             *)
(*                                                                         *)
(* The token, the company and the cached profile are in localStorage,      *)
(* which all tabs share.  Each tab also has its own: React's token, user   *)
(* and isLoading, and activeToken and activeCompanyId, which the wrapper   *)
(* around fetch reads.  Tabs do not listen to one another's storage.       *)
(*                                                                         *)
(* On the server a session lives until it is signed out or ended, and a    *)
(* request is carried out in the company its header names when its person  *)
(* may open that one, in the person's own company otherwise.               *)
(***************************************************************************)
EXTENDS Naturals, FiniteSets

CONSTANTS
    Tabs, Persons, Companies,
    Sessions,   \* tokens, each given out once
    Owner,      \* whose session it is
    Home,       \* the company a person's account opens in
    Opens,      \* the companies a person may open at first
    None,
    MaxOnWay,   \* bound: requests on their way at once
    Movers      \* bound: the tabs in which another company is picked, or somebody
                \* signs in over somebody

ASSUME SessionAssumption ==
    /\ Owner \in [Sessions -> Persons]
    /\ Home \in [Persons -> Companies]
    /\ Opens \in [Persons -> SUBSET Companies]
    /\ \A p \in Persons : Home[p] \in Opens[p]
    /\ None \notin Tabs \cup Persons \cup Companies \cup Sessions
    /\ MaxOnWay \in Nat
    /\ Movers \subseteq Tabs

VARIABLES
    store,      \* localStorage: token, company, cached user
    tab,        \* each tab's memory
    me,         \* /auth/me on its way, with the answer once there is one
    calls,      \* other requests on their way
    live,       \* sessions the server knows
    issued,     \* sessions given out so far
    allowed     \* companies each person may open

vars == <<store, tab, me, calls, live, issued, allowed>>

Profile == [person : Persons, company : Companies, companies : SUBSET Companies]
Memory == [token : Sessions \cup {None},    \* React's token
           active : Sessions \cup {None},   \* activeToken
           company : Companies \cup {None}, \* activeCompanyId
           user : Profile \cup {None},
           loading : BOOLEAN,
           answered : BOOLEAN,              \* /auth/me has answered since the page was loaded
           picked : Companies \cup {None}]  \* the company the page is being left for

Storage == [token : Sessions \cup {None}, company : Companies \cup {None}, user : Profile \cup {None}]
Fetch == [tab : Tabs, token : Sessions, company : Companies \cup {None}, answer : Profile \cup {None}]
Request == [tab : Tabs, token : Sessions, company : Companies \cup {None},
            shown : Companies \cup {None},   \* the company /auth/me had told the screen by then
            picked : Companies \cup {None}]

Empty == [token |-> None, company |-> None, user |-> None]

Init ==
    /\ store = Empty
    /\ tab = [t \in Tabs |-> [token |-> None, active |-> None, company |-> None, user |-> None,
                              loading |-> FALSE, answered |-> FALSE, picked |-> None]]
    /\ me = {}
    /\ calls = {}
    /\ live = {}
    /\ issued = {}
    /\ allowed = Opens

-----------------------------------------------------------------------------
(* What the handlers share *)

\* The company a request asks for: the tab's own, or the one the device remembers.
Asked(t) == IF tab[t].company # None THEN tab[t].company ELSE store.company

\* The company the server carries a request of p out in (core/permissions.py).
Effective(p, c) == IF c \in allowed[p] THEN c ELSE Home[p]

\* fetchMe leaves: it names the device's company itself.
Me(t, s) == [tab |-> t, token |-> s, company |-> Asked(t), answer |-> None]

\* Mutant: the module's own token is left to the next render.
SignedOutOnScreen(m) == [m EXCEPT !.token = None, !.company = None, !.user = None]

\* clearLocalSession, setUser(null), setToken('').
SignedOut(m) == [m EXCEPT !.token = None, !.active = None, !.company = None, !.user = None]

\* The wrapper's reaction to a 401: only the current token's counts.
\* Mutant: any 401 does.
EndsAny(t, s) == tab[t].active # None
EndsHere(t, s) == tab[t].active # None /\ tab[t].active = s

Room == Cardinality(me) + Cardinality(calls) < MaxOnWay

-----------------------------------------------------------------------------
(* Opening, signing in, signing out *)

\* A tab is opened or reloaded, or goes where its page is being left for: what it had
\* on its way is forgotten; a saved token brings the cached user to the screen at once
\* and asks the server for the rest.
Boot(t) ==
    LET saved == store.token IN
    /\ Room
    /\ tab' = [tab EXCEPT ![t] =
                 [token |-> saved, active |-> saved, company |-> None,
                  user |-> IF saved = None THEN None ELSE store.user,
                  loading |-> saved # None /\ store.user = None, answered |-> FALSE,
                  picked |-> None]]
    /\ me' = {q \in me : q.tab # t} \cup
             (IF saved = None THEN {}
              ELSE {[tab |-> t, token |-> saved, company |-> store.company, answer |-> None]})
    /\ calls' = {c \in calls : c.tab # t}
    /\ UNCHANGED <<store, live, issued, allowed>>

\* The login page, whose link may carry a token for a browser that is signed in
\* already: the server has given out s.
Login(t, s) ==
    /\ t \in Movers \/ (tab[t].user = None /\ ~tab[t].loading)
    /\ s \notin issued
    /\ Room
    /\ issued' = issued \cup {s}
    /\ live' = live \cup {s}
    /\ tab' = [tab EXCEPT ![t].token = s, ![t].active = s, ![t].loading = TRUE]
    /\ store' = [store EXCEPT !.token = s]
    /\ me' = me \cup {Me(t, s)}
    /\ UNCHANGED <<calls, allowed>>

\* The console's "sign in as": the token is put into the storage all tabs share, and
\* a tab is opened, or only offered (launchTenantPortal).
Impersonate(s) ==
    /\ s \notin issued
    /\ issued' = issued \cup {s}
    /\ live' = live \cup {s}
    /\ store' = [store EXCEPT !.token = s]
    /\ UNCHANGED <<tab, me, calls, allowed>>

\* Signing out clears the device first; the call that ends the session may be lost.
Logout(t) ==
    /\ tab[t].user # None
    /\ store' = Empty
    /\ tab' = [tab EXCEPT ![t] = SignedOut(@)]
    /\ live' \in {live, live \ {tab[t].token}}
    /\ UNCHANGED <<me, calls, issued, allowed>>

\* Picking another company: this page and the device remember it, and the browser is
\* told to load the app anew.  Until it does (Boot) the old page runs on.
Switch(t, c) ==
    /\ t \in Movers
    /\ tab[t].token # None /\ tab[t].user # None
    /\ c # tab[t].user.company
    /\ c \in tab[t].user.companies
    /\ store' = [store EXCEPT !.company = c]
    /\ tab' = [tab EXCEPT ![t].company = c, ![t].picked = c]
    /\ UNCHANGED <<me, calls, live, issued, allowed>>

-----------------------------------------------------------------------------
(* /auth/me *)

\* The server answers with the company asked for when the person may open it, else
\* with their own; /auth/me/companies, asked at the same time, lists the others.
Answer(p, c) == [person |-> p, company |-> Effective(p, c), companies |-> allowed[p]]

MeServed(q) ==
    /\ q.answer = None
    /\ q.token \in live
    /\ me' = (me \ {q}) \cup {[q EXCEPT !.answer = Answer(Owner[q.token], q.company)]}
    /\ UNCHANGED <<store, tab, calls, live, issued, allowed>>

\* Mutant: the company of the answer is shown and not remembered.
MeAnsweredUnremembered(q) ==
    /\ q.answer # None
    /\ store' = [store EXCEPT !.user = q.answer]
    /\ tab' = [tab EXCEPT ![q.tab].user = q.answer, ![q.tab].loading = FALSE, ![q.tab].answered = TRUE]
    /\ me' = me \ {q}
    /\ UNCHANGED <<calls, live, issued, allowed>>

\* The answer decides the device's company and the user, whoever is signed in by then.
MeAnswered(q) ==
    /\ q.answer # None
    /\ store' = [store EXCEPT !.company = q.answer.company, !.user = q.answer]
    /\ tab' = [tab EXCEPT ![q.tab].company = q.answer.company, ![q.tab].user = q.answer,
                          ![q.tab].loading = FALSE, ![q.tab].answered = TRUE]
    /\ me' = me \ {q}
    /\ UNCHANGED <<calls, live, issued, allowed>>

\* Refused: the wrapper ends the session of the current token; fetchMe then ends the
\* one in the storage, if that is the one it asked with.
MeRefused(q) ==
    LET t == q.tab
        ended == EndsHere(t, q.token)
        kept == IF ended THEN Empty ELSE store
        own == kept.token = q.token IN
    /\ q.answer = None
    /\ q.token \notin live
    /\ store' = IF own THEN Empty ELSE kept
    /\ tab' = [tab EXCEPT ![t] = [(IF ended \/ own THEN SignedOut(@) ELSE @) EXCEPT !.loading = FALSE]]
    /\ me' = me \ {q}
    /\ UNCHANGED <<calls, live, issued, allowed>>

\* Mutant: only an answer takes the page out of "Verifying session".
MeFailsLoading(q) ==
    /\ me' = me \ {q}
    /\ UNCHANGED <<store, tab, calls, live, issued, allowed>>

\* A network failure never signs anyone out.
MeFails(q) ==
    /\ tab' = [tab EXCEPT ![q.tab].loading = FALSE]
    /\ me' = me \ {q}
    /\ UNCHANGED <<store, calls, live, issued, allowed>>

-----------------------------------------------------------------------------
(* Every other request *)

\* Mutant: the header is what the device remembers.
HeaderStored(t) == store.company

\* withCompanyHeader.
Header(t) == Asked(t)

\* A screen sends a request; the company its confirm prompt names is the profile's.
Call(t) ==
    /\ tab[t].token # None
    /\ tab[t].user # None
    /\ Room
    /\ calls' = calls \cup {[tab |-> t, token |-> tab[t].token, company |-> Header(t),
                             shown |-> IF tab[t].answered THEN tab[t].user.company ELSE None,
                             picked |-> tab[t].picked]}
    /\ tab' = [tab EXCEPT ![t].company = Header(t)]
    /\ UNCHANGED <<store, me, live, issued, allowed>>

\* It is carried out, in the company the server takes it to be for.
CallServed(c) ==
    /\ c.token \in live
    /\ calls' = calls \ {c}
    /\ UNCHANGED <<store, tab, me, live, issued, allowed>>

\* 401: the session of the current token is over, and so is whatever the storage has.
CallRefused(c) ==
    /\ c.token \notin live
    /\ calls' = calls \ {c}
    /\ IF EndsHere(c.tab, c.token)
       THEN /\ store' = Empty
            /\ tab' = [tab EXCEPT ![c.tab] = SignedOut(@)]
       ELSE UNCHANGED <<store, tab>>
    /\ UNCHANGED <<me, live, issued, allowed>>

-----------------------------------------------------------------------------
(* Others: an admin, another device, a changed password *)

EndSession(s) ==
    /\ s \in live
    /\ live' = live \ {s}
    /\ UNCHANGED <<store, tab, me, calls, issued, allowed>>

TakeAway(p, c) ==
    /\ c \in allowed[p] \ {Home[p]}
    /\ allowed' = [allowed EXCEPT ![p] = @ \ {c}]
    /\ UNCHANGED <<store, tab, me, calls, live, issued>>

-----------------------------------------------------------------------------
MeEnds(q) == MeAnswered(q) \/ MeRefused(q) \/ MeFails(q)

Next ==
    \/ \E t \in Tabs : \/ Boot(t) \/ Logout(t) \/ Call(t)
                       \/ \E s \in Sessions : Login(t, s)
                       \/ \E c \in Companies : Switch(t, c)
    \/ \E s \in Sessions : Impersonate(s) \/ EndSession(s)
    \/ \E q \in me : MeServed(q) \/ MeEnds(q)
    \/ \E c \in calls : CallServed(c) \/ CallRefused(c)
    \/ \E p \in Persons, c \in Companies : TakeAway(p, c)

Spec == Init /\ [][Next]_vars

\* A fetch ends, in an answer or an error.
FairSpec == Spec /\ \A t \in Tabs : WF_vars(\E q \in me : q.tab = t /\ MeEnds(q))

-----------------------------------------------------------------------------
(* Properties *)

TypeOK ==
    /\ store \in Storage
    /\ tab \in [Tabs -> Memory]
    /\ me \subseteq Fetch
    /\ calls \subseteq Request
    /\ live \subseteq issued /\ issued \subseteq Sessions
    /\ allowed \in [Persons -> SUBSET Companies]

\* A tab is signed out by its own "Sign out", or because the server has ended the
\* very session the tab is in: never by the late refusal of an earlier one, by a
\* network failure, or by what another tab does ("Only 401s for requests that
\* carried the current token count").
SignedOutOnlyWhenEnded ==
    [][\A t \in Tabs : tab[t].token # None /\ tab'[t].token = None
                         => \/ tab[t].token \notin live
                            \/ Logout(t) \/ Boot(t)]_vars

\* The wrapper judges by the token the screens send, in every state: React's and the
\* module's own are never apart.
TokensAgree == \A t \in Tabs : tab[t].token = tab[t].active

\* Once /auth/me has answered, the tab's requests name the company its screen shows,
\* whatever company other tabs of the device have gone to since; a page that is being
\* left for another company may name that one already (switchCompany remembers it before
\* the browser leaves the page), and no third.
HeaderIsShown ==
    \A t \in Tabs :
        tab[t].answered /\ tab[t].user # None
            => \/ Header(t) = tab[t].user.company
               \/ tab[t].picked # None /\ Header(t) = tab[t].picked

\* Nobody is left at "Verifying session".
LoadingEnds == \A t \in Tabs : tab[t].loading ~> ~tab[t].loading

\* A request is carried out in the company that the screen showed when it was sent, once
\* /auth/me had told the screen which that is, however many companies other tabs have gone to
\* ("so a delete is never made in the wrong one", current-company.ts): unless that company is
\* not, or no longer, open to the person, whom the server then takes to the home company, or
\* the page that sent it was already being left for another company, which it may then be for.
CarriedOutWhereShown ==
    [][\A c \in calls :
          LET p == Owner[c.token] IN
          CallServed(c) /\ c.shown \in allowed[p]
              => \/ Effective(p, c.company) = c.shown
                 \/ c.picked # None /\ Effective(p, c.company) = Effective(p, c.picked)]_vars
=============================================================================
