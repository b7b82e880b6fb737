---------------------------- MODULE UploadService ----------------------------
(***************************************************************************)
(* What the uploads of one company may count on, whatever locks and        *)
(* receipts bring it about (the promise made in the docstrings of          *)
(* src/backend/app/services/inbound_receipts.py and core/sync_guard.py):   *)
(* an upload is imported, refused, or answered with what an import of the  *)
(* same payload under the same key once returned, and two imports never    *)
(* run together unless the lock of one of them was lost.                   *)
(***************************************************************************)
CONSTANTS Uploads, Key, Sha, None

VARIABLES phase,     \* where an upload stands
          kept,      \* (key, payload) of the imports that succeeded
          orphaned   \* uploads whose lock was lost

serviceVars == <<phase, kept, orphaned>>

Phases == {"asked", "running", "done", "failed", "replayed", "refused", "gone"}

ServiceInit ==
  /\ phase = [u \in Uploads |-> "asked"]
  /\ kept = {}
  /\ orphaned = {}

Move(u, from, to) == phase[u] = from /\ phase' = [phase EXCEPT ![u] = to]

Run(u) ==
  /\ Move(u, "asked", "running")
  /\ \A v \in Uploads : phase[v] = "running" => v \in orphaned \/ u \in orphaned
  /\ UNCHANGED <<kept, orphaned>>

Succeed(u) ==
  /\ Move(u, "running", "done")
  /\ kept' = kept \cup {<<Key[u], Sha[u]>>}
  /\ UNCHANGED orphaned

Fail(u) == Move(u, "running", "failed") /\ UNCHANGED <<kept, orphaned>>

Replay(u) ==
  /\ Move(u, "asked", "replayed")
  /\ Key[u] # None /\ <<Key[u], Sha[u]>> \in kept
  /\ UNCHANGED <<kept, orphaned>>

Refuse(u) == Move(u, "asked", "refused") /\ UNCHANGED <<kept, orphaned>>

\* A backend dies with the uploads it was serving.
Die(S) ==
  /\ \A u \in S : phase[u] \in {"asked", "running"}
  /\ phase' = [u \in Uploads |-> IF u \in S THEN "gone" ELSE phase[u]]
  /\ UNCHANGED <<kept, orphaned>>

LoseLock(u) == orphaned' = orphaned \cup {u} /\ UNCHANGED <<phase, kept>>

ServiceNext ==
  \/ \E u \in Uploads : \/ Run(u) \/ Succeed(u) \/ Fail(u)
                        \/ Replay(u) \/ Refuse(u) \/ LoseLock(u)
  \/ \E S \in SUBSET Uploads : Die(S)

Service == ServiceInit /\ [][ServiceNext]_serviceVars
=============================================================================
