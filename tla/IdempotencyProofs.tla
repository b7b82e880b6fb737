-------------------------- MODULE IdempotencyProofs --------------------------
(***************************************************************************)
(* What the idempotency middleware guarantees for any number of requests,  *)
(* fingerprints and bodies.  The invariant is one conjunct per fact: who   *)
(* owns a future, what an outcome decides, what a waiter waits for, what a *)
(* stored response stands for, and the two that carry the theorems: as     *)
(* long as nothing failed, whoever runs is the registered owner, and a key *)
(* whose write succeeded is answered from the store.                       *)
(***************************************************************************)
EXTENDS Idempotency, TLAPS

\* The future registered under a fingerprint belongs to a running request
\* with that fingerprint, and so does the registered body.
OwnerIsRunning ==
  \A p \in Prints :
    inFlight[p] # None =>
      /\ pc[inFlight[p]] = "running"
      /\ Fp[inFlight[p]] = p
      /\ inFlightBody[p] = Body[inFlight[p]]

\* An outcome comes with the end of the execution and decides what its
\* future holds.
OutcomeIsFinal ==
  \A r \in Requests :
    /\ outcome[r] # None => pc[r] = "ended"
    /\ future[r] = "reusable" => outcome[r] \in {"ok", "refused"}
    /\ future[r] = "nothing" => outcome[r] \in {"error", "okTooLarge"}

\* A request waits for one with its own fingerprint and body.
WaitsForTwin ==
  \A r \in Requests :
    pc[r] = "waiting" =>
      /\ waitsOn[r] \in Requests
      /\ Fp[waitsOn[r]] = Fp[r]
      /\ Body[waitsOn[r]] = Body[r]

\* A stored response is that of a successful execution under that key.
StoredIsGood ==
  \A p \in DOMAIN stored :
    /\ Fp[stored[p].by] = p
    /\ Body[stored[p].by] = stored[p].body
    /\ outcome[stored[p].by] = "ok"

\* Unless an execution failed, whoever runs is the registered owner.
OnlyOwnerRuns ==
  \A r \in Requests :
    pc[r] = "running" /\ ~Unusable(Fp[r]) => inFlight[Fp[r]] = r

\* Once a keyed write succeeded, its response is in the store and nobody runs
\* under the key, unless an execution failed or the response was dropped.
KeyIsAnswered ==
  \A r \in Requests :
    Keyed(r) /\ outcome[r] = "ok" /\ ~Unusable(Fp[r]) /\ Fp[r] \notin forgotten =>
      /\ HasStored(r)
      /\ stored[Fp[r]].by = r
      /\ \A s \in Requests : Fp[s] = Fp[r] => pc[s] # "running"

IInv ==
  /\ TypeOK
  /\ OwnerIsRunning
  /\ OutcomeIsFinal
  /\ WaitsForTwin
  /\ StoredIsGood
  /\ ReplayIsFaithful
  /\ OnlyOwnerRuns
  /\ KeyIsAnswered
-----------------------------------------------------------------------------
\* Nothing has happened yet.
LEMMA InitEstablishes == Init => IInv
<1> SUFFICES ASSUME Init PROVE IInv
  OBVIOUS
<1> USE DEF Init
<1>1. TypeOK
  BY DEF TypeOK
<1>2. OwnerIsRunning /\ OutcomeIsFinal /\ WaitsForTwin /\ StoredIsGood
  BY DEF OwnerIsRunning, OutcomeIsFinal, WaitsForTwin, StoredIsGood
<1>3. ReplayIsFaithful /\ OnlyOwnerRuns /\ KeyIsAnswered
  BY NoneAssumption DEF ReplayIsFaithful, OnlyOwnerRuns, KeyIsAnswered, Outcomes
<1>4. QED BY <1>1, <1>2, <1>3 DEF IInv

\* The stored response is that of the same request, or the key is refused.
LEMMA ArriveStoredPreserves ==
  ASSUME IInv, NEW r \in Requests, ArriveStored(r)
  PROVE  IInv'
<1> USE DEF IInv, ArriveStored, Answer
<1>1. TypeOK'
  BY PrintsAssumption DEF TypeOK, Entry, HasStored
<1>2. OwnerIsRunning'
  BY DEF OwnerIsRunning, TypeOK
<1>3. OutcomeIsFinal'
  BY DEF OutcomeIsFinal, TypeOK
<1>4. WaitsForTwin'
  BY DEF WaitsForTwin, TypeOK
<1>5. StoredIsGood'
  BY DEF StoredIsGood, TypeOK, Entry
<1>6. ReplayIsFaithful'
  BY NoneAssumption DEF ReplayIsFaithful, TypeOK, HasStored, StoredIsGood, Entry
<1>7. OnlyOwnerRuns'
  BY DEF OnlyOwnerRuns, TypeOK, Unusable
<1>8. KeyIsAnswered'
  BY DEF KeyIsAnswered, TypeOK, HasStored, Keyed, Unusable
<1>9. QED BY <1>1, <1>2, <1>3, <1>4, <1>5, <1>6, <1>7, <1>8

\* A refused key answers with nobody's response.
LEMMA ArriveReusedPreserves ==
  ASSUME IInv, NEW r \in Requests, ArriveReused(r)
  PROVE  IInv'
<1> USE DEF IInv, ArriveReused, Answer
<1>1. TypeOK'
  BY DEF TypeOK, Entry
<1>2. OwnerIsRunning'
  BY DEF OwnerIsRunning, TypeOK
<1>3. OutcomeIsFinal'
  BY DEF OutcomeIsFinal, TypeOK
<1>4. WaitsForTwin'
  BY DEF WaitsForTwin, TypeOK
<1>5. StoredIsGood'
  BY DEF StoredIsGood, TypeOK, Entry
<1>6. ReplayIsFaithful'
  BY NoneAssumption DEF ReplayIsFaithful, TypeOK
<1>7. OnlyOwnerRuns'
  BY DEF OnlyOwnerRuns, TypeOK, Unusable
<1>8. KeyIsAnswered'
  BY DEF KeyIsAnswered, TypeOK, HasStored, Keyed, Unusable
<1>9. QED BY <1>1, <1>2, <1>3, <1>4, <1>5, <1>6, <1>7, <1>8

\* The registered owner carries the same request.
LEMMA ArriveWaitPreserves ==
  ASSUME IInv, NEW r \in Requests, ArriveWait(r)
  PROVE  IInv'
<1> USE DEF IInv, ArriveWait
<1>1. TypeOK'
  BY PrintsAssumption DEF TypeOK, Entry
<1>2. OwnerIsRunning'
  BY DEF OwnerIsRunning, TypeOK
<1>3. OutcomeIsFinal'
  BY DEF OutcomeIsFinal, TypeOK
<1>4. WaitsForTwin'
  <2> DEFINE s == inFlight[Fp[r]]
  <2>1. /\ s \in Requests /\ Fp[s] = Fp[r]
        /\ inFlightBody[Fp[r]] = Body[s]
    <3>1. Fp[r] \in Prints /\ s # None
      BY PrintsAssumption
    <3>2. s \in Requests
      BY <3>1 DEF TypeOK
    <3>3. QED BY <3>1, <3>2 DEF OwnerIsRunning
  <2>2. Body[s] = Body[r]
    <3>1. CASE Keyed(r)
      BY <3>1, <2>1, PrintsAssumption, NoneAssumption DEF Admitted, OtherBodyInFlight
    <3>2. CASE ~Keyed(r)
      BY <3>2, <2>1, PrintsAssumption DEF Keyed
    <3>3. QED BY <3>1, <3>2
  <2>3. QED BY <2>1, <2>2 DEF WaitsForTwin, TypeOK
<1>5. StoredIsGood'
  BY DEF StoredIsGood, TypeOK, Entry
<1>6. ReplayIsFaithful'
  BY DEF ReplayIsFaithful, TypeOK
<1>7. OnlyOwnerRuns'
  BY DEF OnlyOwnerRuns, TypeOK, Unusable
<1>8. KeyIsAnswered'
  BY DEF KeyIsAnswered, TypeOK, HasStored, Keyed, Unusable
<1>9. QED BY <1>1, <1>2, <1>3, <1>4, <1>5, <1>6, <1>7, <1>8

\* Nobody runs under a fingerprint that is not registered.
LEMMA ArriveRunPreserves ==
  ASSUME IInv, NEW r \in Requests, ArriveRun(r)
  PROVE  IInv'
<1> USE DEF IInv, ArriveRun, Start
<1>1. TypeOK'
  BY PrintsAssumption DEF TypeOK, Entry
<1>2. OwnerIsRunning'
  BY NoneAssumption DEF OwnerIsRunning, TypeOK
<1>3. OutcomeIsFinal'
  BY DEF OutcomeIsFinal, TypeOK
<1>4. WaitsForTwin'
  BY DEF WaitsForTwin, TypeOK
<1>5. StoredIsGood'
  BY DEF StoredIsGood, TypeOK, Entry
<1>6. ReplayIsFaithful'
  BY DEF ReplayIsFaithful, TypeOK
<1>7. OnlyOwnerRuns'
  <2> SUFFICES ASSUME NEW q \in Requests, pc'[q] = "running", ~Unusable(Fp[q])'
               PROVE  inFlight'[Fp[q]] = q
    BY DEF OnlyOwnerRuns
  <2>1. CASE q = r
    BY <2>1, PrintsAssumption DEF TypeOK
  <2>2. CASE q # r
    <3>1. pc[q] = "running" /\ ~Unusable(Fp[q])
      BY <2>2 DEF TypeOK, Unusable
    <3>2. inFlight[Fp[q]] = q
      BY <3>1 DEF OnlyOwnerRuns
    <3>3. QED BY <3>2, PrintsAssumption, NoneAssumption DEF TypeOK
  <2>3. QED BY <2>1, <2>2
<1>8. KeyIsAnswered'
  BY DEF KeyIsAnswered, TypeOK, HasStored, Keyed, Unusable, Admitted
<1>9. QED BY <1>1, <1>2, <1>3, <1>4, <1>5, <1>6, <1>7, <1>8

\* The awaited response is that of the same request.
LEMMA WakeReplayPreserves ==
  ASSUME IInv, NEW r \in Requests, WakeReplay(r)
  PROVE  IInv'
<1> USE DEF IInv, WakeReplay, Answer
<1>1. TypeOK'
  BY DEF TypeOK, Entry, WaitsForTwin
<1>2. OwnerIsRunning'
  BY DEF OwnerIsRunning, TypeOK
<1>3. OutcomeIsFinal'
  BY DEF OutcomeIsFinal, TypeOK
<1>4. WaitsForTwin'
  BY DEF WaitsForTwin, TypeOK
<1>5. StoredIsGood'
  BY DEF StoredIsGood, TypeOK, Entry
<1>6. ReplayIsFaithful'
  BY DEF ReplayIsFaithful, TypeOK, WaitsForTwin, OutcomeIsFinal
<1>7. OnlyOwnerRuns'
  BY DEF OnlyOwnerRuns, TypeOK, Unusable
<1>8. KeyIsAnswered'
  BY DEF KeyIsAnswered, TypeOK, HasStored, Keyed, Unusable
<1>9. QED BY <1>1, <1>2, <1>3, <1>4, <1>5, <1>6, <1>7, <1>8

\* A waiter runs only after an execution that failed.
LEMMA WakeRunPreserves ==
  ASSUME IInv, NEW r \in Requests, WakeRun(r)
  PROVE  IInv'
<1> USE DEF IInv, WakeRun, Start
<1>1. TypeOK'
  BY PrintsAssumption DEF TypeOK, Entry
<1>2. OwnerIsRunning'
  BY NoneAssumption DEF OwnerIsRunning, TypeOK
<1>3. OutcomeIsFinal'
  BY DEF OutcomeIsFinal, TypeOK
<1>4. WaitsForTwin'
  BY DEF WaitsForTwin, TypeOK
<1>5. StoredIsGood'
  BY DEF StoredIsGood, TypeOK, Entry
<1>6. ReplayIsFaithful'
  BY DEF ReplayIsFaithful, TypeOK
<1>7. OnlyOwnerRuns'
  BY PrintsAssumption DEF OnlyOwnerRuns, TypeOK, Unusable, WaitsForTwin, OutcomeIsFinal
<1>8. KeyIsAnswered'
  BY DEF KeyIsAnswered, TypeOK, HasStored, Keyed, Unusable, WaitsForTwin, OutcomeIsFinal
<1>9. QED BY <1>1, <1>2, <1>3, <1>4, <1>5, <1>6, <1>7, <1>8

\* What Finish does to the store: a response is added under r's own key only,
\* no other is changed, and one that goes is counted as forgotten.
LEMMA FinishStores ==
  ASSUME IInv, NEW r \in Requests, NEW o \in Outcomes, Finish(r, o)
  PROVE  /\ \A p \in DOMAIN stored' :
              \/ p \in DOMAIN stored /\ stored'[p] = stored[p]
              \/ p = Fp[r] /\ Remembered(r, o) /\ stored'[p] = NewEntry(r)
         /\ \A p \in DOMAIN stored :
              \/ p \in DOMAIN stored' /\ stored'[p] = stored[p]
              \/ p = Fp[r]
              \/ p \in forgotten'
         /\ Remembered(r, o) => Fp[r] \in DOMAIN stored' /\ stored'[Fp[r]] = NewEntry(r)
         /\ NewEntry(r) \in Entry
<1>1. Kept \subseteq DOMAIN stored
  BY DEF Kept, LiveStored
<1>2. NewEntry(r) \in Entry
  BY <1>1, PrintsAssumption DEF IInv, TypeOK, NewEntry, Entry
<1>3. CASE Remembered(r, o)
  <2>1. /\ stored' = [p \in Kept \cup {Fp[r]} |-> IF p = Fp[r] THEN NewEntry(r) ELSE stored[p]]
        /\ forgotten' = forgotten \cup (DOMAIN stored \ (Kept \cup {Fp[r]}))
    BY <1>3 DEF Finish, Remember
  <2>2. DOMAIN stored' = Kept \cup {Fp[r]} /\ stored'[Fp[r]] = NewEntry(r)
    BY <2>1
  <2>3. ASSUME NEW p \in Kept, p # Fp[r] PROVE stored'[p] = stored[p]
    BY <2>1, <2>3
  <2>4. ASSUME NEW p \in DOMAIN stored, p \notin Kept, p # Fp[r] PROVE p \in forgotten'
    BY <2>1, <2>4
  <2>5. QED BY <1>1, <1>2, <1>3, <2>2, <2>3, <2>4
<1>4. CASE ~Remembered(r, o)
  BY <1>2, <1>4 DEF Finish
<1>5. QED BY <1>3, <1>4

\* The end of an execution settles its future and, under a key, the store.
LEMMA FinishPreserves ==
  ASSUME IInv, NEW r \in Requests, NEW o \in Outcomes, Finish(r, o)
  PROVE  IInv'
<1> USE DEF IInv, Finish
<1>U. \A p : Unusable(p) => Unusable(p)'
  <2> SUFFICES ASSUME NEW p, NEW s \in Requests, Fp[s] = p,
                      outcome[s] \in {"error", "okTooLarge"}
               PROVE  outcome'[s] \in {"error", "okTooLarge"}
    BY DEF Unusable
  <2>1. s # r
    BY NoneAssumption DEF OutcomeIsFinal, Outcomes
  <2>2. QED BY <2>1 DEF TypeOK
<1>1. TypeOK'
  <2>1. /\ DOMAIN stored' \subseteq KeyedPrints
        /\ \A p \in DOMAIN stored' : stored'[p] \in Entry
    BY FinishStores, ZenonT(40) DEF TypeOK, Remembered, Keyed
  <2>2. clock' \in Nat /\ forgotten' \subseteq Prints
    BY PrintsAssumption, SMTT(30) DEF TypeOK, Remember
  <2>3. future' \in [Requests -> {"unset", "pending", "reusable", "nothing"}]
    BY DEF TypeOK, Captured
  <2>4. QED BY <2>1, <2>2, <2>3, PrintsAssumption DEF TypeOK
<1>2. OwnerIsRunning'
  BY NoneAssumption DEF OwnerIsRunning, TypeOK
<1>3. OutcomeIsFinal'
  BY NoneAssumption DEF OutcomeIsFinal, TypeOK, Captured, Outcomes
<1>4. WaitsForTwin'
  BY DEF WaitsForTwin, TypeOK
<1>5. StoredIsGood'
  <2> SUFFICES ASSUME NEW p \in DOMAIN stored'
               PROVE  /\ Fp[stored'[p].by] = p
                      /\ Body[stored'[p].by] = stored'[p].body
                      /\ outcome'[stored'[p].by] = "ok"
    BY DEF StoredIsGood
  <2>1. CASE p \in DOMAIN stored /\ stored'[p] = stored[p]
    <3>1. stored[p].by \in Requests /\ outcome[stored[p].by] = "ok"
      BY <2>1 DEF TypeOK, Entry, StoredIsGood
    <3>2. stored[p].by # r
      BY <3>1, NoneAssumption DEF OutcomeIsFinal, Outcomes
    <3>3. QED BY <2>1, <3>1, <3>2 DEF StoredIsGood, TypeOK
  <2>2. CASE p = Fp[r] /\ Remembered(r, o) /\ stored'[p] = NewEntry(r)
    BY <2>2 DEF NewEntry, Remembered, TypeOK
  <2>3. QED BY <2>1, <2>2, FinishStores
<1>6. ReplayIsFaithful'
  <2> SUFFICES ASSUME NEW q \in Requests, answeredBy[q] \in Requests
               PROVE  /\ Fp[answeredBy[q]] = Fp[q] /\ Body[answeredBy[q]] = Body[q]
                      /\ outcome'[answeredBy[q]] \in {"ok", "refused"}
    BY DEF ReplayIsFaithful
  <2>1. outcome[answeredBy[q]] \in {"ok", "refused"}
    BY DEF ReplayIsFaithful
  <2>2. answeredBy[q] # r
    BY <2>1, NoneAssumption DEF OutcomeIsFinal, Outcomes
  <2>3. QED BY <2>1, <2>2 DEF ReplayIsFaithful, TypeOK
<1>7. OnlyOwnerRuns'
  <2> SUFFICES ASSUME NEW q \in Requests, pc'[q] = "running", ~Unusable(Fp[q])'
               PROVE  inFlight'[Fp[q]] = q
    BY DEF OnlyOwnerRuns
  <2>1. q # r /\ pc[q] = "running"
    BY DEF TypeOK
  <2>2. ~Unusable(Fp[q])
    BY <1>U
  <2>3. inFlight[Fp[q]] = q
    BY <2>1, <2>2 DEF OnlyOwnerRuns
  <2>4. Fp[q] # Fp[r]
    <3> SUFFICES ASSUME Fp[q] = Fp[r] PROVE FALSE
      OBVIOUS
    <3>1. inFlight[Fp[r]] = r
      BY <2>2 DEF OnlyOwnerRuns
    <3>2. QED BY <3>1, <2>1, <2>3
  <2>5. QED BY <2>3, <2>4, PrintsAssumption DEF TypeOK
<1>8. KeyIsAnswered'
  <2> SUFFICES ASSUME NEW q \in Requests, Keyed(q), outcome'[q] = "ok",
                      ~Unusable(Fp[q])', Fp[q] \notin forgotten'
               PROVE  /\ HasStored(q)'
                      /\ stored'[Fp[q]].by = q
                      /\ \A s \in Requests : Fp[s] = Fp[q] => pc'[s] # "running"
    BY DEF KeyIsAnswered, Keyed
  <2>1. ~Unusable(Fp[q])
    BY <1>U
  <2>2. CASE q = r
    <3>1. Remembered(r, o)
      BY <2>2 DEF TypeOK, Remembered
    <3>2. HasStored(r)' /\ stored'[Fp[r]].by = r
      <4>1. NewEntry(r).live = TRUE /\ NewEntry(r).by = r
        BY DEF NewEntry
      <4>2. Fp[r] \in DOMAIN stored' /\ stored'[Fp[r]] = NewEntry(r)
        BY <3>1, FinishStores
      <4>3. QED BY <4>1, <4>2 DEF HasStored
    <3>3. ASSUME NEW s \in Requests, Fp[s] = Fp[r], pc'[s] = "running" PROVE FALSE
      <4>1. s # r /\ pc[s] = "running"
        BY <3>3 DEF TypeOK
      <4>2. inFlight[Fp[r]] = s /\ inFlight[Fp[r]] = r
        BY <2>1, <2>2, <3>3, <4>1 DEF OnlyOwnerRuns
      <4>3. QED BY <4>1, <4>2
    <3>4. QED BY <2>2, <3>2, <3>3
  <2>3. CASE q # r
    <3>1. outcome[q] = "ok" /\ Fp[q] \notin forgotten
      BY <2>3 DEF TypeOK, Remember
    <3>2. /\ HasStored(q) /\ stored[Fp[q]].by = q
          /\ \A s \in Requests : Fp[s] = Fp[q] => pc[s] # "running"
      BY <2>1, <3>1 DEF KeyIsAnswered
    <3>3. Fp[q] # Fp[r]
      BY <3>2
    <3>4. stored'[Fp[q]] = stored[Fp[q]] /\ Fp[q] \in DOMAIN stored'
      BY <3>2, <3>3, FinishStores DEF HasStored
    <3>5. QED BY <3>2, <3>3, <3>4 DEF HasStored, TypeOK
  <2>4. QED BY <2>2, <2>3
<1>9. QED BY <1>1, <1>2, <1>3, <1>4, <1>5, <1>6, <1>7, <1>8

\* An expired response is dropped, and counted as forgotten.
LEMMA ExpirePreserves ==
  ASSUME IInv, NEW p \in Prints, Expire(p)
  PROVE  IInv'
<1> USE DEF IInv, Expire
<1>1. TypeOK'
  BY ZenonT(40) DEF TypeOK, Entry
<1>2. OwnerIsRunning'
  BY DEF OwnerIsRunning, TypeOK
<1>3. OutcomeIsFinal'
  BY DEF OutcomeIsFinal, TypeOK
<1>4. WaitsForTwin'
  BY DEF WaitsForTwin, TypeOK
<1>5. StoredIsGood'
  BY DEF StoredIsGood, TypeOK, Entry
<1>6. ReplayIsFaithful'
  BY DEF ReplayIsFaithful, TypeOK
<1>7. OnlyOwnerRuns'
  BY DEF OnlyOwnerRuns, TypeOK, Unusable
<1>8. KeyIsAnswered'
  BY DEF KeyIsAnswered, TypeOK, HasStored, Keyed, Unusable
<1>9. QED BY <1>1, <1>2, <1>3, <1>4, <1>5, <1>6, <1>7, <1>8

-----------------------------------------------------------------------------
\* Every action keeps the invariant.
LEMMA NextPreserves == IInv /\ [Next]_vars => IInv'
<1> SUFFICES ASSUME IInv, [Next]_vars PROVE IInv'
  OBVIOUS
<1>1. ASSUME NEW r \in Requests, Arrive(r) PROVE IInv'
  BY <1>1, ArriveStoredPreserves, ArriveReusedPreserves, ArriveWaitPreserves,
     ArriveRunPreserves DEF Arrive
<1>2. ASSUME NEW r \in Requests, Wake(r) PROVE IInv'
  BY <1>2, WakeReplayPreserves, WakeRunPreserves DEF Wake
<1>3. ASSUME NEW r \in Requests, NEW o \in Outcomes, Finish(r, o) PROVE IInv'
  BY <1>3, FinishPreserves
<1>4. ASSUME NEW p \in Prints, Expire(p) PROVE IInv'
  BY <1>4, ExpirePreserves
<1>5. CASE UNCHANGED vars
  BY <1>5 DEF vars, IInv, TypeOK, OwnerIsRunning, OutcomeIsFinal, WaitsForTwin, StoredIsGood,
     ReplayIsFaithful, OnlyOwnerRuns, KeyIsAnswered, Unusable, HasStored, Keyed
<1>6. QED BY <1>1, <1>2, <1>3, <1>4, <1>5 DEF Next

\* The invariant holds in every state.
THEOREM Invariance == Spec => []IInv
<1>1. QED BY InitEstablishes, NextPreserves, PTL DEF Spec

\* The state of the middleware is always of the declared shape; in particular
\* the store holds responses of keyed requests only (idempotency.py:115-116).
THEOREM TypeCorrect == Spec => []TypeOK
<1>1. IInv => TypeOK
  BY DEF IInv
<1>2. QED BY <1>1, Invariance, PTL

\* Overlapping identical requests: one at a time inside the application until
\* an execution fails (idempotency.py:86-95, 117-121).
THEOREM OneRequestInFlight == Spec => []OneInFlight
<1>1. IInv => OneInFlight
  BY DEF IInv, OnlyOwnerRuns, OneInFlight, Running
<1>2. QED BY <1>1, Invariance, PTL

\* A key's write is carried out at most once until an execution fails or the
\* stored response is dropped (idempotency.py:79-84, 115-116).
THEOREM KeyCarriedOutOnce == Spec => []OncePerKey
<1>1. IInv => OncePerKey
  <2> SUFFICES ASSUME IInv, NEW r \in Requests, NEW s \in Requests,
                      Keyed(r), Fp[r] = Fp[s], CarriedOut(r), CarriedOut(s),
                      ~Unusable(Fp[r]), Fp[r] \notin forgotten
               PROVE  r = s
    BY DEF OncePerKey
  <2>1. outcome[r] = "ok" /\ outcome[s] = "ok"
    BY DEF CarriedOut, Unusable
  <2>2. stored[Fp[r]].by = r /\ stored[Fp[s]].by = s
    BY <2>1 DEF IInv, KeyIsAnswered, Keyed
  <2>3. QED BY <2>2
<1>2. QED BY <1>1, Invariance, PTL

\* A replayed response is that of an execution of the same request, whatever
\* was evicted, expired or failed meanwhile (idempotency.py:82-90).
THEOREM FaithfulReplay == Spec => []ReplayIsFaithful
<1>1. IInv => ReplayIsFaithful
  BY DEF IInv
<1>2. QED BY <1>1, Invariance, PTL
=============================================================================
