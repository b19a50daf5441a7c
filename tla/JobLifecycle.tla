---------------------------- MODULE JobLifecycle ----------------------------
(***************************************************************************)
(* What the job table promises to the rest of papercrate, without workers' *)
(* transactions, row locks or clocks: a submitted job is executed by at    *)
(* most one worker at a time, only that worker may end it or put it back,  *)
(* an ended job never runs again, and a worker that disappears leaves its  *)
(* job in `processing' for good (nothing in the code reclaims it).         *)
(* JobQueue implements this specification.                                 *)
(***************************************************************************)
CONSTANTS Jobs, Workers

VARIABLES status,   \* status[j]: the status column of job j, or "absent"
          claims    \* the pairs <<w, j>> such that worker w executes job j

lifecycleVars == <<status, claims>>

Statuses == {"absent", "queued", "processing", "succeeded", "failed"}

LifecycleTypeOK ==
  /\ status \in [Jobs -> Statuses]
  /\ claims \subseteq Workers \X Jobs

Idle(w) == \A j \in Jobs : <<w, j>> \notin claims

Unclaimed(j) == \A w \in Workers : <<w, j>> \notin claims

LifecycleInit ==
  /\ status = [j \in Jobs |-> "absent"]
  /\ claims = {}

Submit(j) ==
  /\ status[j] = "absent"
  /\ status' = [status EXCEPT ![j] = "queued"]
  /\ UNCHANGED claims

Start(w, j) ==
  /\ status[j] = "queued"
  /\ Idle(w)
  /\ Unclaimed(j)
  /\ status' = [status EXCEPT ![j] = "processing"]
  /\ claims' = claims \union {<<w, j>>}

\* The claimant ends the job, or puts it back for a later attempt.
Settle(w, j) ==
  /\ <<w, j>> \in claims
  /\ status[j] = "processing"
  /\ \E s \in {"succeeded", "failed", "queued"} :
       status' = [status EXCEPT ![j] = s]
  /\ claims' = claims \ {<<w, j>>}

\* The claimant dies, or cannot write the outcome.
Abandon(w, j) ==
  /\ <<w, j>> \in claims
  /\ claims' = claims \ {<<w, j>>}
  /\ UNCHANGED status

LifecycleNext ==
  \/ \E j \in Jobs : Submit(j)
  \/ \E w \in Workers, j \in Jobs :
       Start(w, j) \/ Settle(w, j) \/ Abandon(w, j)

LifecycleSpec == LifecycleInit /\ [][LifecycleNext]_lifecycleVars
=============================================================================
