----------------------------- MODULE Idempotency -----------------------------
(***************************************************************************)
(* The write-idempotency middleware of the portal                          *)
(* (src/backend/app/core/idempotency.py).  It runs on one asyncio event    *)
(* loop, so the code between two awaits is one action here: what a request *)
(* does on arrival, what it does when the future it waits on resolves, and *)
(* the `finally` of the request that was carried out.                      *)
(*                                                                         *)
(* A fingerprint ("print") stands for caller, method, path and query plus  *)
(* either the Idempotency-Key (KeyedPrints) or the body.  A future is      *)
(* named by the request that created it; a response by the request whose   *)
(* execution produced it.                                                  *)
(***************************************************************************)
EXTENDS Naturals, FiniteSets

CONSTANTS Requests,     \* the write requests that reach the middleware
          Prints,       \* request fingerprints
          KeyedPrints,  \* the fingerprints made from an Idempotency-Key
          Bodies,       \* request bodies (their hashes)
          Fp,           \* Fp[r]: the fingerprint of request r
          Body,         \* Body[r]: the body of request r
          MaxStored,    \* MAX_STORED_RESPONSES
          None

ASSUME PrintsAssumption ==
  /\ KeyedPrints \subseteq Prints
  /\ Fp \in [Requests -> Prints]
  /\ Body \in [Requests -> Bodies]
  \* without a key the body is part of the fingerprint
  /\ \A r, s \in Requests :
        Fp[r] = Fp[s] /\ Fp[r] \notin KeyedPrints => Body[r] = Body[s]

\* How the application may answer: 2xx, 4xx, 5xx or an exception, and a 2xx
\* whose body is longer than MAX_BODY_BYTES.
Outcomes == {"ok", "refused", "error", "okTooLarge"}

\* The answer KEY_REUSED (422), which no execution produced.
KeyReused == "KEY_REUSED"

ASSUME NoneAssumption ==
  /\ None \notin Requests /\ None \notin Bodies
  /\ None \notin Outcomes
  /\ KeyReused \notin Requests

ASSUME MaxStoredAssumption == MaxStored \in Nat \ {0}

VARIABLES
  pc,            \* "new" | "waiting" | "running" | "answered" | "ended"
  waitsOn,       \* the owner of the future a waiting request awaits
  inFlight,      \* self._in_flight: fingerprint -> owner of the future
  inFlightBody,  \* self._in_flight_body
  future,        \* "unset" | "pending" | "reusable" | "nothing"
  stored,        \* self._stored, a partial function of fingerprints
  outcome,       \* how an execution ended: None while there is none
  answeredBy,    \* whose response a request was answered with
  clock,         \* orders the insertions into self._stored
  forgotten      \* fingerprints whose stored response was dropped (history)

vars == <<pc, waitsOn, inFlight, inFlightBody, future, stored, outcome,
          answeredBy, clock, forgotten>>

Entry == [body : Bodies, by : Requests, live : BOOLEAN, at : Nat]

TypeOK ==
  /\ pc \in [Requests -> {"new", "waiting", "running", "answered", "ended"}]
  /\ waitsOn \in [Requests -> Requests \cup {None}]
  /\ inFlight \in [Prints -> Requests \cup {None}]
  /\ inFlightBody \in [Prints -> Bodies \cup {None}]
  /\ future \in [Requests -> {"unset", "pending", "reusable", "nothing"}]
  /\ DOMAIN stored \subseteq KeyedPrints
  /\ \A p \in DOMAIN stored : stored[p] \in Entry
  /\ outcome \in [Requests -> Outcomes \cup {None}]
  /\ answeredBy \in [Requests -> Requests \cup {KeyReused, None}]
  /\ clock \in Nat
  /\ forgotten \subseteq Prints

Init ==
  /\ pc = [r \in Requests |-> "new"]
  /\ waitsOn = [r \in Requests |-> None]
  /\ inFlight = [p \in Prints |-> None]
  /\ inFlightBody = [p \in Prints |-> None]
  /\ future = [r \in Requests |-> "unset"]
  /\ stored = [p \in {} |-> None]
  /\ outcome = [r \in Requests |-> None]
  /\ answeredBy = [r \in Requests |-> None]
  /\ clock = 0
  /\ forgotten = {}

-----------------------------------------------------------------------------
Keyed(r) == Fp[r] \in KeyedPrints

\* Mutant: a stored response answers only for the body it was made for.
HasStoredOfBody(r) ==
  Fp[r] \in DOMAIN stored /\ stored[Fp[r]].live /\ stored[Fp[r]].body = Body[r]

\* self._stored.get(fingerprint) that has not expired
HasStored(r) == Fp[r] \in DOMAIN stored /\ stored[Fp[r]].live

\* The key is in flight under another body.
OtherBodyInFlight(r) == inFlightBody[Fp[r]] \notin {None, Body[r]}

\* Create the future, publish it under the fingerprint, call the application.
Start(r) ==
  /\ pc' = [pc EXCEPT ![r] = "running"]
  /\ future' = [future EXCEPT ![r] = "pending"]
  /\ inFlight' = [inFlight EXCEPT ![Fp[r]] = r]
  /\ inFlightBody' = [inFlightBody EXCEPT ![Fp[r]] = Body[r]]

\* Answer r without carrying it out.
Answer(r, by) ==
  /\ pc' = [pc EXCEPT ![r] = "answered"]
  /\ answeredBy' = [answeredBy EXCEPT ![r] = by]

\* A keyed request whose key has a live stored response.
ArriveStored(r) ==
  /\ pc[r] = "new"
  /\ Keyed(r) /\ HasStored(r)
  /\ Answer(r, IF stored[Fp[r]].body = Body[r] THEN stored[Fp[r]].by
                                               ELSE KeyReused)
  /\ UNCHANGED <<waitsOn, inFlight, inFlightBody, future, stored, outcome,
                 clock, forgotten>>

\* A keyed request whose key is being carried out for another body.
ArriveReused(r) ==
  /\ pc[r] = "new"
  /\ Keyed(r) /\ ~HasStored(r) /\ OtherBodyInFlight(r)
  /\ Answer(r, KeyReused)
  /\ UNCHANGED <<waitsOn, inFlight, inFlightBody, future, stored, outcome,
                 clock, forgotten>>

\* No stored response and no refusal stands in the way of r.
Admitted(r) == Keyed(r) => ~HasStored(r) /\ ~OtherBodyInFlight(r)

\* An identical request is in flight: await its future.
ArriveWait(r) ==
  /\ pc[r] = "new"
  /\ Admitted(r) /\ inFlight[Fp[r]] # None
  /\ pc' = [pc EXCEPT ![r] = "waiting"]
  /\ waitsOn' = [waitsOn EXCEPT ![r] = inFlight[Fp[r]]]
  /\ UNCHANGED <<inFlight, inFlightBody, future, stored, outcome, answeredBy,
                 clock, forgotten>>

\* Mutant: nobody looks whether the request is in flight.
ArriveRunUnlooked(r) ==
  /\ pc[r] = "new"
  /\ Admitted(r)
  /\ Start(r)
  /\ UNCHANGED <<waitsOn, stored, outcome, answeredBy, clock, forgotten>>

\* The first of its kind: carry it out.
ArriveRun(r) ==
  /\ pc[r] = "new"
  /\ Admitted(r) /\ inFlight[Fp[r]] = None
  /\ Start(r)
  /\ UNCHANGED <<waitsOn, stored, outcome, answeredBy, clock, forgotten>>

\* The awaited request produced a response: return it.
WakeReplay(r) ==
  /\ pc[r] = "waiting" /\ future[waitsOn[r]] = "reusable"
  /\ Answer(r, waitsOn[r])
  /\ UNCHANGED <<waitsOn, inFlight, inFlightBody, future, stored, outcome,
                 clock, forgotten>>

\* The awaited request produced nothing reusable: run this one.  Neither
\* self._in_flight nor self._stored is looked at again.
WakeRun(r) ==
  /\ pc[r] = "waiting" /\ future[waitsOn[r]] = "nothing"
  /\ Start(r)
  /\ UNCHANGED <<waitsOn, stored, outcome, answeredBy, clock, forgotten>>

\* _remember: what survives when self._stored is full.  Expired entries go
\* first, then the oldest until there is room for one more.
LiveStored == {p \in DOMAIN stored : stored[p].live}

Kept ==
  IF Cardinality(DOMAIN stored) < MaxStored THEN DOMAIN stored
  ELSE {p \in LiveStored :
          Cardinality({q \in LiveStored : stored[q].at > stored[p].at})
            < MaxStored - 1}

\* The stored response of r's execution.  A key already in the dictionary
\* keeps its place in the insertion order.
NewEntry(r) ==
  [body |-> Body[r], by |-> r, live |-> TRUE,
   at |-> IF Fp[r] \in Kept THEN stored[Fp[r]].at ELSE clock]

Remember(r) ==
  /\ stored' = [p \in Kept \cup {Fp[r]} |->
                  IF p = Fp[r] THEN NewEntry(r) ELSE stored[p]]
  /\ clock' = clock + 1
  /\ forgotten' = forgotten \cup (DOMAIN stored \ (Kept \cup {Fp[r]}))

\* Mutants: the response of a failed execution is handed on; an exception
\* leaves the future alone.
CapturedAlways(o) == "reusable"
CapturedNoFinally(o) == IF o = "error" THEN "pending" ELSE "reusable"

\* What the waiters of an execution with outcome o are handed.
Captured(o) == IF o \in {"ok", "refused"} THEN "reusable" ELSE "nothing"

\* Is the response kept for the key?
Remembered(r, o) == Keyed(r) /\ o = "ok"

\* The application answered (or raised).  The finally block pops whatever is
\* registered under the fingerprint, its own or not.
Finish(r, o) ==
  /\ pc[r] = "running"
  /\ pc' = [pc EXCEPT ![r] = "ended"]
  /\ outcome' = [outcome EXCEPT ![r] = o]
  /\ IF Remembered(r, o) THEN Remember(r)
                         ELSE UNCHANGED <<stored, clock, forgotten>>
  /\ inFlight' = [inFlight EXCEPT ![Fp[r]] = None]
  /\ inFlightBody' = [inFlightBody EXCEPT ![Fp[r]] = None]
  /\ future' = [future EXCEPT ![r] = Captured(o)]
  /\ UNCHANGED <<waitsOn, answeredBy>>

\* IDEMPOTENCY_TTL_SECONDS have passed since the response was stored.
Expire(p) ==
  /\ p \in DOMAIN stored /\ stored[p].live
  /\ stored' = [stored EXCEPT ![p].live = FALSE]
  /\ forgotten' = forgotten \cup {p}
  /\ UNCHANGED <<pc, waitsOn, inFlight, inFlightBody, future, outcome,
                 answeredBy, clock>>

Arrive(r) == ArriveStored(r) \/ ArriveReused(r) \/ ArriveWait(r) \/ ArriveRun(r)
Wake(r)   == WakeReplay(r) \/ WakeRun(r)

Next ==
  \/ \E r \in Requests : Arrive(r) \/ Wake(r) \/ \E o \in Outcomes : Finish(r, o)
  \/ \E p \in Prints : Expire(p)

Spec == Init /\ [][Next]_vars

\* The event loop runs every ready task and the application answers every
\* call; nobody has to send a request, and no clock has to run out.
Fairness ==
  \A r \in Requests :
     WF_vars(Wake(r)) /\ WF_vars(\E o \in Outcomes : Finish(r, o))

FairSpec == Spec /\ Fairness

-----------------------------------------------------------------------------
Running == {r \in Requests : pc[r] = "running"}

\* An execution on p whose response its waiters could not reuse.
Unusable(p) ==
  \E r \in Requests : Fp[r] = p /\ outcome[r] \in {"error", "okTooLarge"}

\* The write was carried out: the application answered 2xx.
CarriedOut(r) == outcome[r] \in {"ok", "okTooLarge"}

\* As long as no execution of a fingerprint failed, at most one request with
\* that fingerprint is inside the application (docstring, lines 7-8).
OneInFlight ==
  \A r, s \in Running : Fp[r] = Fp[s] /\ r # s => Unusable(Fp[r])

\* As long as no execution under a key failed and its stored response was
\* neither expired nor evicted, the write was carried out at most once
\* (docstring, lines 9-10).
OncePerKey ==
  \A r, s \in Requests :
     /\ Keyed(r) /\ Fp[r] = Fp[s] /\ r # s
     /\ CarriedOut(r) /\ CarriedOut(s)
     => Unusable(Fp[r]) \/ Fp[r] \in forgotten

\* A request answered without being carried out was answered with the
\* response of an execution of the very same request, fingerprint and body,
\* that was not a server error (lines 11-13 and 82-90).
ReplayIsFaithful ==
  \A r \in Requests :
     answeredBy[r] \in Requests =>
        LET s == answeredBy[r] IN
        /\ Fp[s] = Fp[r] /\ Body[s] = Body[r]
        /\ outcome[s] \in {"ok", "refused"}

\* Every request that reached the middleware is answered: a waiter is never
\* left on a future nobody resolves (lines 86-93 and 117-121).
EveryRequestEnds ==
  \A r \in Requests : pc[r] = "waiting" ~> pc[r] \in {"answered", "ended"}
=============================================================================
