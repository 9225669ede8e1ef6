------------------------------ MODULE VectorDb ------------------------------
(***************************************************************************)
(* The Qdrant instance of the agents and the programs that write to it:    *)
(* seed_vector_db.py, which ensures the attack_vectors collection and      *)
(* upserts the whole corpus in one request (services/agents/tools/rag.py), *)
(* and validate-vector-db.py, which creates, reads and deletes a           *)
(* collection of its own.  Several may run at once; a seeder may be run    *)
(* again.                                                                  *)
(*                                                                         *)
(* A client gives a request up after some seconds, but the server may      *)
(* still get to it.  Qdrant keeps its data on an emptyDir                  *)
(* (k8s/vector-db.yaml), so a pod that is replaced starts empty.           *)
(*                                                                         *)
(* An operator placed directly above a definition, with the same           *)
(* parameters and no comment, is a way to get that definition wrong.       *)
(***************************************************************************)
EXTENDS Naturals

CONSTANTS
  Corpus,      \* point ids of SEED_POINTS
  Seeders,     \* runs of seed_vector_db.py, each of which may be repeated
  Validators,  \* runs of validate-vector-db.py; also the names of their collections
  Attacks,     \* the attack_vectors collection
  MaxRestarts  \* bound on replacements of the pod

\* What is assumed of the constants.
VectorDbAssumption ==
  /\ Seeders \cap Validators = {} /\ Attacks \notin Validators
  /\ MaxRestarts \in Nat

VARIABLES
  store,     \* the points of each collection that exists
  request,   \* the request each program waits for, or how it ended
  late,      \* requests given up that the server may still get to
  restarts,  \* replacements of the pod so far
  seeded     \* history: a seeder has succeeded since the pod started

vars == <<store, request, late, restarts, seeded>>

Programs == Seeders \cup Validators

Init ==
  /\ store = << >>
  /\ request = [p \in Programs |-> "none"]
  /\ late = {} /\ restarts = 0 /\ seeded = FALSE

-----------------------------------------------------------------------------
(* The server *)

Exists(name) == name \in DOMAIN store

Status(op, name) ==
  CASE op = "health" -> 200
    [] op = "create" -> IF Exists(name) THEN 409 ELSE 200
    [] OTHER -> IF Exists(name) THEN 200 ELSE 404

Holding(name, points) ==
  [n \in DOMAIN store \cup {name} |-> IF n = name THEN points ELSE store[n]]

\* The store once the server has handled a request.
After(op, name) ==
  IF Status(op, name) # 200 THEN store
  ELSE CASE op \in {"health", "get"} -> store
         [] op = "create" -> Holding(name, {})
         [] op = "upsert" -> Holding(name, Corpus)
         [] op = "delete" -> [n \in DOMAIN store \ {name} |-> store[n]]

-----------------------------------------------------------------------------
(* The programs *)

Collection(p) == IF p \in Seeders THEN Attacks ELSE p

First(p) == IF p \in Seeders THEN "get" ELSE "health"

\* main of either script: the request after each.
Following(p) ==
  IF p \in Seeders THEN [get |-> "upsert", create |-> "upsert", upsert |-> "success"]
  ELSE [health |-> "create", create |-> "get", get |-> "delete", delete |-> "success"]

StatusIgnored(p, status) == Following(p)[request[p]]
\* ensure_collection takes any answer to its GET but 200 for "not there yet";
\* raise_for_status and the script's own checks end the program.
Answered(p, status) ==
  IF status = 200 THEN Following(p)[request[p]]
  ELSE IF p \in Seeders /\ request[p] = "get" THEN "create"
  ELSE "failure"

Busy(p) == request[p] \notin {"none", "success", "failure"}

Run(p) ==
  /\ request[p] = "none" \/ (p \in Seeders /\ ~Busy(p))
  /\ request' = [request EXCEPT ![p] = First(p)]
  /\ UNCHANGED <<store, late, restarts, seeded>>

Serve(p) ==
  /\ Busy(p)
  /\ store' = After(request[p], Collection(p))
  /\ request' = [request EXCEPT ![p] = Answered(p, Status(request[p], Collection(p)))]
  /\ seeded' = (seeded \/ (p \in Seeders /\ request'[p] = "success"))
  /\ UNCHANGED <<late, restarts>>

\* The server answers with an error of its own, say while it starts.
ServerError(p) ==
  /\ Busy(p)
  /\ request' = [request EXCEPT ![p] = Answered(p, 500)]
  /\ seeded' = (seeded \/ (p \in Seeders /\ request'[p] = "success"))
  /\ UNCHANGED <<store, late, restarts>>

\* No answer: httpx or urllib raises.
GiveUp(p) ==
  /\ Busy(p)
  /\ late' \in {late, late \cup {<<request[p], Collection(p)>>}}
  /\ request' = [request EXCEPT ![p] = "failure"]
  /\ UNCHANGED <<store, restarts, seeded>>

Arrive ==
  /\ \E r \in late : store' = After(r[1], r[2]) /\ late' = late \ {r}
  /\ UNCHANGED <<request, restarts, seeded>>

\* The pod is replaced.
Restart ==
  /\ restarts < MaxRestarts
  /\ restarts' = restarts + 1
  /\ store' = << >> /\ late' = {} /\ seeded' = FALSE
  /\ UNCHANGED request

Next ==
  \/ \E p \in Programs : Run(p) \/ Serve(p) \/ ServerError(p) \/ GiveUp(p)
  \/ Arrive \/ Restart

-----------------------------------------------------------------------------
(* Properties *)

TypeOK ==
  /\ DOMAIN store \subseteq {Attacks} \cup Validators
  /\ \A n \in DOMAIN store : store[n] \subseteq Corpus
  /\ request \in [Programs -> {"none", "health", "get", "create", "upsert", "delete",
                               "success", "failure"}]
  /\ restarts \in 0 .. MaxRestarts /\ seeded \in BOOLEAN

(***************************************************************************)
(* What a script reported as done is done, whatever other runs, requests   *)
(* that arrive late and a pod that is replaced in the middle do: once a    *)
(* seeder has succeeded, a search sees the whole corpus until the pod is   *)
(* replaced, and a validator that succeeded left nothing behind.           *)
(***************************************************************************)
SuccessesHold ==
  /\ seeded => Exists(Attacks) /\ store[Attacks] = Corpus
  /\ \A v \in Validators : request[v] = "success" => ~Exists(v)
=============================================================================
