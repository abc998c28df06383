----------------------------- MODULE ModelGateway ------------------------------
(***************************************************************************)
(* ModelGateway.complete of gateway/model_gateway.py over the chain of       *)
(* gateway/backends.py: each backend in order, a fallback recorded for each *)
(* that raises, the answer metered and recorded.  The local backend marks   *)
(* itself dead at its first failure and never connects again.              *)
(***************************************************************************)
EXTENDS Naturals, Sequences, FiniteSets

CONSTANTS Callers,
          Chains,       \* the configurations of AETHEROPS_BACKENDS
          MaxFlips      \* bound: times the local server goes up or down

(* build_backend_chain: any sequence of known names; an empty one, or one    *)
(* never set, is the offline backend alone.                                *)
ASSUME ModelAssumption ==
  /\ \A chain \in Chains : chain # <<>> /\ \A i \in DOMAIN chain :
                                             chain[i] \in {"ollama", "offline"}
  /\ MaxFlips \in Nat

VARIABLES
  chain,
  up,           \* the local model server answers
  flips,
  dead,         \* _dead of the local backend
  ask,          \* per thread: the completion it is in, and the link it tries
  tokensUsed,   \* tokens_used, one per answer
  refused       \* history: connections the local server refused

modelVars == <<chain, up, flips, dead, ask, tokensUsed, refused>>

NoAsk == [stage |-> "idle", link |-> 1, read |-> 0]

ModelInit ==
  /\ chain \in Chains
  /\ up = FALSE /\ flips = 0
  /\ dead = FALSE
  /\ ask = [t \in Callers |-> NoAsk]
  /\ tokensUsed = 0
  /\ refused = 0

Asking(t, stage) == ask[t].stage = stage
Now(t, stage) == ask' = [ask EXCEPT ![t].stage = stage]
Backend(t) == chain[ask[t].link]

StartAsk(t) ==
  /\ ask' = [ask EXCEPT ![t] = [NoAsk EXCEPT !.stage = "try"]]
  /\ UNCHANGED <<chain, up, flips, dead, tokensUsed, refused>>

(* route() and the price only label the answer.  The offline backend        *)
(* computes its answer; the local one first tests whether it is dead.       *)
Try(t) ==
  /\ Asking(t, "try")
  /\ Now(t, IF ask[t].link > Len(chain) THEN "failed"
            ELSE IF Backend(t) = "offline" THEN "meter"
            ELSE IF dead THEN "fallback" ELSE "connect")
  /\ UNCHANGED <<chain, up, flips, dead, tokensUsed, refused>>

(* Fault: every call connects again.                                       *)
ConnectAfresh(t) ==
  /\ Asking(t, "connect")
  /\ Now(t, IF up THEN "meter" ELSE "fallback")
  /\ refused' = refused + IF up THEN 0 ELSE 1
  /\ UNCHANGED <<chain, up, flips, dead, tokensUsed>>

Connect(t) ==
  /\ Asking(t, "connect")
  /\ IF up THEN Now(t, "meter") /\ UNCHANGED <<dead, refused>>
     ELSE /\ dead' = TRUE
          /\ refused' = refused + 1
          /\ Now(t, "fallback")
  /\ UNCHANGED <<chain, up, flips, tokensUsed>>

(* An answer that is JSON and no completion raises what the local backend    *)
(* does not catch: it stays alive.                                         *)
Garbage(t) ==
  /\ Asking(t, "connect") /\ up
  /\ Now(t, "fallback")
  /\ UNCHANGED <<chain, up, flips, dead, tokensUsed, refused>>

FallBackTo(t) ==
  /\ Asking(t, "fallback")
  /\ ask' = [ask EXCEPT ![t].stage = "try", ![t].link = @ + 1]
  /\ UNCHANGED <<chain, up, flips, dead, tokensUsed, refused>>

(* tokens_used += total reads and writes; est_cost_usd does the same.        *)
ReadMeter(t) ==
  /\ Asking(t, "meter")
  /\ ask' = [ask EXCEPT ![t].stage = "add", ![t].read = tokensUsed]
  /\ UNCHANGED <<chain, up, flips, dead, tokensUsed, refused>>

AddToMeter(t) ==
  /\ Asking(t, "add")
  /\ tokensUsed' = ask[t].read + 1
  /\ Now(t, "record")
  /\ UNCHANGED <<chain, up, flips, dead, refused>>

Record(t) ==
  /\ Asking(t, "record")
  /\ Now(t, "answered")
  /\ UNCHANGED <<chain, up, flips, dead, tokensUsed, refused>>

(* Either audit record may be refused by the ledger.                        *)
RecordRaises(t) ==
  /\ Asking(t, "fallback") \/ Asking(t, "record")
  /\ Now(t, "raised")
  /\ UNCHANGED <<chain, up, flips, dead, tokensUsed, refused>>

AskStep(t) ==
  \/ Try(t) \/ Connect(t) \/ Garbage(t) \/ FallBackTo(t)
  \/ ReadMeter(t) \/ AddToMeter(t) \/ Record(t) \/ RecordRaises(t)

(* The server goes up or down: a step taken only when a thread is about to    *)
(* see the difference.                                                     *)
Flip ==
  /\ flips < MaxFlips /\ \E t \in Callers : Asking(t, "connect")
  /\ up' = ~up /\ flips' = flips + 1
  /\ UNCHANGED <<chain, dead, ask, tokensUsed, refused>>

(* "A missing Ollama costs one connection attempt, not one per call": one    *)
(* for every thread that was past the test when it was found dead, however  *)
(* long the gateway lives (OllamaBackend).                                 *)
DeadCostsOneAttempt == refused <= Cardinality(Callers)
=============================================================================
