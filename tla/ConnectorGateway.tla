--------------------------- MODULE ConnectorGateway ----------------------------
(***************************************************************************)
(* Connector.call of connectors/base.py, the choke point before every        *)
(* external system: declared tool, write guard, rate window, cache, the     *)
(* call itself, redaction (not modelled: it rewrites text), audit, cache.   *)
(* No step of it holds a lock, and two attempts of one incident may be in   *)
(* it at once (DagExecutor: a worker given up at its timeout).              *)
(*                                                                         *)
(* The tools have distinct names, so the windows and caches of all          *)
(* connectors of an incident are one map here.  An answer is the version of  *)
(* production it was taken from.                                           *)
(***************************************************************************)
EXTENDS Naturals, Sequences, FiniteSets

CONSTANTS Threads,
          Declared,     \* the tools of the registered connectors
          Writes,       \* those of MEDIUM risk or above, never cacheable
          RatePerMin,   \* rate_per_min of every tool
          Minute,       \* the 60 seconds of a window, in ticks
          MaxTime,      \* bound: ticks of the clock
          MaxVersion    \* bound: versions of production

WritePrincipals == {"executor", "compensator"}

ASSUME ConnectorAssumption ==
  /\ Writes \subseteq Declared
  /\ RatePerMin \in Nat \ {0} /\ Minute \in Nat \ {0}
  /\ MaxTime \in Nat /\ MaxVersion \in Nat

VARIABLES
  clock,
  production,   \* version: every write, and every change from outside
  windows,      \* _call_times: per tool, the admissions of the last minute
  cache,        \* _cache: keys <<tool, args>> and answers
  call,         \* per thread: the call it is in, how far, and its answer
  admitted,     \* history: per tool, the times of all admissions
  users         \* history: per tool, the threads whose calls reached its window

connectorVars == <<clock, production, windows, cache, call, admitted, users>>

NoCall ==
  [stage |-> "idle", tool |-> "none", args |-> "none", at |-> 0, answer |-> 0,
   hit |-> FALSE]

ConnectorInit ==
  /\ clock = 0 /\ production = 0
  /\ windows = [tool \in Declared |-> <<>>]
  /\ cache = {}
  /\ call = [t \in Threads |-> NoCall]
  /\ admitted = [tool \in Declared |-> <<>>]
  /\ users = [tool \in Declared |-> {}]

At(t, stage) == call[t].stage = stage
Goto(t, stage) == call' = [call EXCEPT ![t].stage = stage]
Cacheable(tool) == tool \notin Writes

(* Fault: the arguments are not part of the key.                            *)
KeyOfTool(t) == <<call[t].tool, "any">>

Key(t) == <<call[t].tool, call[t].args>>

(* An undeclared tool, and a write by anybody but the executor and the       *)
(* compensator, raise before they cost anything.                           *)
StartCall(t, tool, args, principal) ==
  LET refused == \/ tool \notin Declared
                 \/ tool \in Writes /\ principal \notin WritePrincipals
  IN  /\ call' = [call EXCEPT ![t] =
                    [NoCall EXCEPT !.stage = IF refused THEN "raised" ELSE "clock",
                                   !.tool = tool, !.args = args]]
      /\ UNCHANGED <<clock, production, windows, cache, admitted, users>>

(* _check_rate: the time is read, heads older than a minute are dropped one  *)
(* by one, each test and its drop apart, and the length is tested apart     *)
(* from the append.                                                        *)
ReadClock(t) ==
  /\ At(t, "clock")
  /\ call' = [call EXCEPT ![t].stage = "expire", ![t].at = clock]
  /\ users' = [users EXCEPT ![call[t].tool] = @ \cup {t}]
  /\ UNCHANGED <<clock, production, windows, cache, admitted>>

HeadExpired(t) ==
  LET window == windows[call[t].tool]
  IN  window # <<>> /\ Head(window) + Minute < call[t].at

TestHead(t) ==
  /\ At(t, "expire")
  /\ Goto(t, IF HeadExpired(t) THEN "drop" ELSE "limit")
  /\ UNCHANGED <<clock, production, windows, cache, admitted, users>>

DropHead(t) ==
  /\ At(t, "drop")
  /\ IF windows[call[t].tool] = <<>>
     THEN Goto(t, "raised") /\ UNCHANGED windows
     ELSE Goto(t, "expire") /\ windows' = [windows EXCEPT ![call[t].tool] = Tail(@)]
  /\ UNCHANGED <<clock, production, cache, admitted, users>>

(* Fault: off by one.                                                      *)
TestLimitPassed(t) ==
  /\ At(t, "limit")
  /\ Goto(t, IF Len(windows[call[t].tool]) > RatePerMin THEN "raised" ELSE "admit")
  /\ UNCHANGED <<clock, production, windows, cache, admitted, users>>

TestLimit(t) ==
  /\ At(t, "limit")
  /\ Goto(t, IF Len(windows[call[t].tool]) >= RatePerMin THEN "raised" ELSE "admit")
  /\ UNCHANGED <<clock, production, windows, cache, admitted, users>>

Admit(t) ==
  /\ At(t, "admit")
  /\ windows' = [windows EXCEPT ![call[t].tool] = Append(@, call[t].at)]
  /\ admitted' = [admitted EXCEPT ![call[t].tool] = Append(@, call[t].at)]
  /\ Goto(t, "lookup")
  /\ UNCHANGED <<clock, production, cache, users>>

(* A hit is served for ever: nothing expires, and no write invalidates.      *)
LookUp(t) ==
  /\ At(t, "lookup")
  /\ LET hits == {entry \in cache : Cacheable(call[t].tool) /\ entry.key = Key(t)}
     IN  IF hits = {} THEN Goto(t, "invoke")
         ELSE call' = [call EXCEPT ![t].stage = "log", ![t].hit = TRUE,
                         ![t].answer = (CHOOSE entry \in hits : TRUE).answer]
  /\ UNCHANGED <<clock, production, windows, cache, admitted, users>>

Invoke(t) ==
  /\ At(t, "invoke")
  /\ LET version == production + IF call[t].tool \in Writes THEN 1 ELSE 0
     IN  /\ version <= MaxVersion
         /\ production' = version
         /\ call' = [call EXCEPT ![t].stage = "log", ![t].answer = version]
  /\ UNCHANGED <<clock, windows, cache, admitted, users>>

(* The external system is unreachable, or refuses (adapters.py _get_json).   *)
InvokeRaises(t) ==
  /\ At(t, "invoke")
  /\ Goto(t, "raised")
  /\ UNCHANGED <<clock, production, windows, cache, admitted, users>>

(* The audit record; the ledger may refuse it, after a write was made.       *)
LogCall(t) ==
  /\ At(t, "log")
  /\ Goto(t, IF Cacheable(call[t].tool) /\ ~call[t].hit THEN "store" ELSE "returned")
  /\ UNCHANGED <<clock, production, windows, cache, admitted, users>>

LogRaises(t) ==
  /\ At(t, "log")
  /\ Goto(t, "raised")
  /\ UNCHANGED <<clock, production, windows, cache, admitted, users>>

Store(t) ==
  /\ At(t, "store")
  /\ cache' = {entry \in cache : entry.key # Key(t)}
                \cup {[key |-> Key(t), answer |-> call[t].answer]}
  /\ Goto(t, "returned")
  /\ UNCHANGED <<clock, production, windows, admitted, users>>

CallStep(t) ==
  \/ ReadClock(t) \/ TestHead(t) \/ DropHead(t) \/ TestLimit(t) \/ Admit(t)
  \/ LookUp(t) \/ Invoke(t) \/ InvokeRaises(t) \/ LogCall(t) \/ LogRaises(t)
  \/ Store(t)

(* Time passes, and somebody else deploys or the load changes: steps taken    *)
(* only when a thread is about to see the difference.                       *)
Tick ==
  /\ clock < MaxTime /\ \E t \in Threads : At(t, "clock")
  /\ clock' = clock + 1
  /\ UNCHANGED <<production, windows, cache, call, admitted, users>>

ChangeOutside ==
  /\ production < MaxVersion /\ \E t \in Threads : At(t, "invoke")
  /\ production' = production + 1
  /\ UNCHANGED <<clock, windows, cache, call, admitted, users>>
=============================================================================
