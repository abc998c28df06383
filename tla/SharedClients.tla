----------------------------- MODULE SharedClients -----------------------------
(***************************************************************************)
(* The gateways of one incident (ctx.connectors and ctx.gateway) under the   *)
(* threads that may use them at once: the one that executes the workflow,   *)
(* and attempts given up at their timeout.  Each follows the calls its      *)
(* nodes make, in their order; a call that raises ends it.                  *)
(***************************************************************************)
EXTENDS ConnectorGateway, ModelGateway

CONSTANT Cases      \* programs of the threads, each with a chain of backends

(* What the threads may ask of the gateways.                                *)
Operations ==
  UNION {{case.program[t][i] : i \in DOMAIN case.program[t]} :
           case \in Cases, t \in Threads}

ASSUME SharedAssumption ==
  /\ Callers = Threads /\ IsFiniteSet(Threads)
  /\ \A case \in Cases : case.program \in [Threads -> Seq(Operations)]

VARIABLES program,  \* per thread: the operations still to make
          wrote     \* history, per thread: the version its last write made

vars == <<connectorVars, modelVars, program, wrote>>

Complete == [kind |-> "complete"]
CallTool(tool, args, principal) ==
  [kind |-> "call", tool |-> tool, args |-> args, principal |-> principal]

Init ==
  /\ ConnectorInit /\ ModelInit
  /\ \E case \in Cases : program = case.program /\ chain = case.chain
  /\ wrote = [t \in Threads |-> 0]

Begin(t) ==
  /\ program[t] # <<>> /\ At(t, "idle") /\ Asking(t, "idle")
  /\ LET op == Head(program[t])
     IN  IF op.kind = "complete" THEN StartAsk(t) /\ UNCHANGED connectorVars
         ELSE StartCall(t, op.tool, op.args, op.principal) /\ UNCHANGED modelVars
  /\ UNCHANGED <<program, wrote>>

Progress(t) ==
  /\ \/ CallStep(t) /\ UNCHANGED modelVars
     \/ AskStep(t) /\ UNCHANGED connectorVars
  /\ UNCHANGED <<program, wrote>>

EndCall(t) ==
  /\ call[t].stage \in {"returned", "raised"}
  /\ program' = [program EXCEPT ![t] = IF At(t, "raised") THEN <<>> ELSE Tail(@)]
  /\ wrote' = [wrote EXCEPT ![t] =
                 IF At(t, "returned") /\ call[t].tool \in Writes
                 THEN call[t].answer ELSE @]
  /\ call' = [call EXCEPT ![t] = NoCall]
  /\ UNCHANGED <<clock, production, windows, cache, admitted, users, modelVars>>

EndAsk(t) ==
  /\ ask[t].stage \in {"answered", "failed", "raised"}
  /\ program' = [program EXCEPT ![t] = IF Asking(t, "answered") THEN Tail(@) ELSE <<>>]
  /\ ask' = [ask EXCEPT ![t] = NoAsk]
  /\ UNCHANGED <<connectorVars, chain, up, flips, dead, tokensUsed, refused,
                 wrote>>

ThreadStep(t) == Begin(t) \/ Progress(t) \/ EndCall(t) \/ EndAsk(t)

Environment ==
  /\ \/ (Tick \/ ChangeOutside) /\ UNCHANGED modelVars
     \/ Flip /\ UNCHANGED connectorVars
  /\ UNCHANGED <<program, wrote>>

Next == Environment \/ \E t \in Threads : ThreadStep(t)

Spec == Init /\ [][Next]_vars
-----------------------------------------------------------------------------
(* The window is longer than rate_per_min by at most one entry for each     *)
(* other thread between the test of the limit and its append; and a tool    *)
(* that one thread alone has called is admitted at most rate_per_min times  *)
(* in any minute (_check_rate).  Several threads may be admitted more often:*)
(* two that each drop the head for one expired entry let two calls in.      *)
RateBounded ==
  \A tool \in Declared :
    /\ Len(windows[tool]) <= RatePerMin + Cardinality(Threads) - 1
    /\ Cardinality(users[tool]) <= 1 => \A from \in 0..MaxTime :
         Cardinality({i \in DOMAIN admitted[tool] :
                        admitted[tool][i] \in from..(from + Minute)}) <= RatePerMin

(* The verifier never accepts metrics from before the remediation: what it   *)
(* reads after the writes of its own thread is at least as recent, although *)
(* nothing in the cache expires (verifier.py asks under a key of its own).  *)
VerifierReadsItsWrites ==
  \A t \in Threads :
    At(t, "returned") /\ call[t].args = "post-remediation"
      => call[t].answer >= wrote[t]
=============================================================================
