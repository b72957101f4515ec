------------------------------- MODULE SmokeTest -------------------------------
(***************************************************************************)
(* Stage 1 of the equivalence workflow against a frozen contract           *)
(* (run_stage1.py): the tokens of the target are compared with those that  *)
(* the pinned checkpoint generates, or generated before, in the cache of   *)
(* ReferenceCache.  Several invocations share the cache; meanwhile the     *)
(* checkpoint directory may be overwritten by later weights.               *)
(*                                                                         *)
(* Greedy tokens are a function of weights and prompts, so they are named  *)
(* by the two.  Weights that were overwritten do not come back, and a      *)
(* directory is read at one instant.  The reference document written       *)
(* beside the result is left out, but not that writing it can fail.        *)
(***************************************************************************)
EXTENDS ReferenceCache

CONSTANTS
  Invocations,  \* what a runner may be started with
  KeyOf,        \* the digest of the identity <<weights, prompts>>
  LastWeights,  \* bound: the checkpoint is 1, then 2, ... up to it
  NoJob

ASSUME WeightsAssumption == LastWeights \in Nat \ {0}
\* Digests do not collide.
ASSUME DigestAssumption ==
  /\ \A x, y \in DOMAIN KeyOf : KeyOf[x] = KeyOf[y] => x = y
  /\ \A x \in DOMAIN KeyOf : KeyOf[x] \in Key
  /\ \A q \in Invocations, w \in 1..LastWeights : <<w, q.prompts>> \in DOMAIN KeyOf
ASSUME NoJobAssumption == NoJob \notin Invocations \cup DOMAIN KeyOf

VARIABLES
  weights,  \* what the checkpoint directory holds
  job,      \* per runner: the invocation it serves, or NoJob
  expect,   \* per runner: the reference tokens, once it has them
  held,     \* the tokens in the file of each key
  output    \* per runner: the document at --output

smokeVars == <<cacheVars, weights, job, expect, held, output>>

-----------------------------------------------------------------------------
(* The checks of run_exact_comparison, in their order. *)

MatchesGrant(q) ==
  /\ q.sealed /\ q.task.capability = "equivalence"
  /\ q.task.contract = q.contract /\ q.task.source = q.source

ExactGreedy(c) ==
  /\ c.criterion \in {"greedy_token_match", "greedy_token_exact"}
  /\ c.method \in {"exact_tokens", "hf_greedy"}
  /\ ~c.logits

\* checkpoint_identity is the digest of the directory.
Pinned(c) == c.checkpoint = weights

\* Of these prompts, by the granted run, of the declared length.
IsGrantedTarget(q) ==
  /\ q.prompts = q.contract.prompts /\ q.target.prompts = q.prompts
  /\ q.target.run # NoJob /\ q.target.source = q.source /\ q.target.run = q.task.run
  /\ q.target.whole

Refusal(q) ==
  CASE ~MatchesGrant(q) -> "missing_evidence"
    [] MatchesGrant(q) /\ ~ExactGreedy(q.contract) -> "unsupported_tooling"
    [] OTHER ->
         IF ~Pinned(q.contract) THEN "missing_evidence"
         ELSE IF q.contract.precision \notin {"fp32", "bf16", "fp16"} THEN "unsupported_tooling"
         ELSE IF ~IsGrantedTarget(q) THEN "missing_evidence"
         ELSE "none"

-----------------------------------------------------------------------------
(* One invocation. *)

Failed(state) == [state |-> state, by |-> NoJob]
Answer(r, document) == output' = [output EXCEPT ![r] = document]
Forget(r) == job' = [job EXCEPT ![r] = NoJob] /\ expect' = [expect EXCEPT ![r] = NoJob]

\* main turns every error it knows into a failed document.
Fail(r, state) == Answer(r, Failed(state)) /\ Forget(r)

\* Bound: a document that holds a comparison is not written again.
Idle(r) == job[r] = NoJob /\ output[r].by = NoJob

Decline(r, q) ==
  /\ Idle(r) /\ Refusal(q) # "none"
  /\ Answer(r, Failed(Refusal(q)))
  /\ UNCHANGED <<cacheVars, weights, job, expect, held>>

FindBusy(r, q) ==
  /\ Idle(r) /\ Refusal(q) = "none"
  /\ Refuse(r) /\ Answer(r, Failed("execution_failed"))
  /\ UNCHANGED <<weights, job, expect, held>>

Serve(r, q) ==
  /\ Idle(r) /\ Refusal(q) = "none"
  /\ Enter(r, KeyOf[<<q.contract.checkpoint, q.prompts>>])
  /\ job' = [job EXCEPT ![r] = q]
  /\ UNCHANGED <<weights, expect, held, output>>

\* Steps in the cache that the comparison does not look at.
Proceed(r) ==
  /\ RemoveLeftovers(r) \/ Miss(r) \/ Evict(r) \/ Create(r) \/ Dump(r)
  /\ UNCHANGED <<weights, job, expect, held, output>>

Reuse(r) ==
  /\ Hit(r)
  /\ expect' = [expect EXCEPT ![r] = held[key[r]]]
  /\ UNCHANGED <<weights, job, held, output>>

\* from_pretrained reads the directory as it is by now.
LoadModel(r) ==
  /\ at[r] = "generate" /\ expect[r] = NoJob
  /\ expect' = [expect EXCEPT ![r] = <<weights, job[r].prompts>>]
  /\ UNCHANGED <<cacheVars, weights, job, held, output>>

\* Mutant: the checkpoint is not looked at again.
StillThere(r) == TRUE
\* The checkpoint is identified again after the model has run.
Unmoved(r) == Pinned(job[r].contract)

RunModel(r) ==
  /\ Generate(r) /\ expect[r] # NoJob /\ Unmoved(r)
  /\ UNCHANGED <<weights, job, expect, held, output>>

\* Out of memory, "checkpoint changed during reference generation", or the
\* reference is too large.
ModelFails(r) ==
  /\ GenerateFails(r)
  /\ \E state \in {"execution_failed", "missing_evidence"} : Fail(r, state)
  /\ UNCHANGED <<weights, held>>

Publish(r) ==
  /\ Rename(r) /\ held' = [held EXCEPT ![key[r]] = expect[r]]
  /\ UNCHANGED <<weights, job, expect, output>>

PublishFails(r) ==
  /\ WriteFails(r) /\ Fail(r, "missing_evidence")
  /\ UNCHANGED <<weights, held>>

\* The comparison itself.
Compare(r) ==
  /\ at[r] = "out"
  /\ Answer(r, [state |-> IF expect[r] = job[r].target.tokens THEN "matched" ELSE "mismatch", by |-> job[r]])
  /\ Forget(r)
  /\ UNCHANGED <<cacheVars, weights, held>>

\* The reference document cannot be written.
ReferenceLost(r) ==
  /\ at[r] = "out" /\ Fail(r, "missing_evidence")
  /\ UNCHANGED <<cacheVars, weights, held>>

\* The runner dies, and the document of an earlier invocation stays.
Die(r) ==
  /\ job[r] # NoJob /\ Forget(r)
  /\ IF at[r] = "out" THEN UNCHANGED cacheVars ELSE Crash(r)
  /\ UNCHANGED <<weights, held, output>>

Overwrite ==
  /\ weights < LastWeights /\ weights' = weights + 1
  /\ UNCHANGED <<cacheVars, job, expect, held, output>>

SmokeInit ==
  /\ CacheInit /\ key = [r \in Runner |-> CHOOSE k \in Key : TRUE]
  /\ weights = 1 /\ held = [k \in Key |-> NoJob]
  /\ job = [r \in Runner |-> NoJob] /\ expect = [r \in Runner |-> NoJob]
  /\ output = [r \in Runner |-> Failed("none")]

Work(r) ==
  /\ job[r] # NoJob
  /\ \/ Proceed(r) \/ Reuse(r) \/ LoadModel(r) \/ RunModel(r) \/ ModelFails(r)
     \/ Publish(r) \/ PublishFails(r) \/ Compare(r) \/ ReferenceLost(r)

SmokeNext ==
  \/ Overwrite
  \/ \E r \in Runner :
       Work(r) \/ Die(r) \/ \E q \in Invocations : Decline(r, q) \/ FindBusy(r, q) \/ Serve(r, q)

SmokeSpec == SmokeInit /\ [][SmokeNext]_smokeVars

\* A runner that is inside goes on.
SmokeFairness == \A r \in Runner : WF_smokeVars(Work(r))

-----------------------------------------------------------------------------
(* Properties. *)

\* "Compare a producer's current target tokens against a pinned HF reference"
\* (run_stage1.py): a result that matched is about the granted run under the
\* granted contract, and its tokens are those of the very checkpoint and
\* prompts the contract froze, whoever generated them, whatever has become of
\* the directory; and nothing else is ever cached under that identity.
MatchedIsPinned ==
  /\ \A r \in Runner :
       output[r].state = "matched" =>
         LET q == output[r].by
         IN /\ q.sealed /\ q.task.contract = q.contract
            /\ q.target.run = q.task.run /\ q.target.source = q.task.source
            /\ q.target.tokens = <<q.contract.checkpoint, q.contract.prompts>>
  /\ \A i \in DOMAIN entries :
       LET k == entries[i].key IN held[k] # NoJob => KeyOf[held[k]] = k
=============================================================================
