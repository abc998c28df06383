-------------------------- MODULE SharedClientsProofs --------------------------
(***************************************************************************)
(* Proofs about the gateways one incident's threads share, for every number *)
(* of threads, every program they run and every limit.                     *)
(*                                                                         *)
(* The argument, one invariant per property: a thread past the test of the  *)
(* limit, or past the test of the dead flag, is counted as if it had        *)
(* already appended, or been refused; while one thread alone uses a tool,   *)
(* the window is the end of the list of admissions and what was dropped is  *)
(* older than a minute; and what is cached under the verifier's key was     *)
(* read when its thread had nothing left to write.                         *)
(***************************************************************************)
EXTENDS SharedClients, Integers, FiniteSetTheorems, SequenceTheorems, TLAPS

Stages ==
  {"idle", "raised", "clock", "expire", "drop", "limit", "admit", "lookup", "invoke",
   "log", "store", "returned"}
AskStages ==
  {"idle", "try", "connect", "fallback", "meter", "add", "record", "answered",
   "failed", "raised"}

Calls == {op \in Operations : op.kind # "complete"}
Tools == {"none"} \cup {op.tool : op \in Calls}
Args  == {"none"} \cup {op.args : op \in Calls}

CallRecord ==
  [stage : Stages, tool : Tools, args : Args, at : Nat, answer : Nat, hit : BOOLEAN]

(* The call a thread is in, if any, is the first of its program.            *)
Started(t) ==
  /\ program[t] # <<>> /\ Head(program[t]).kind # "complete"
  /\ call[t].tool = Head(program[t]).tool /\ call[t].args = Head(program[t]).args

ConnectorTyped ==
  /\ clock \in Nat /\ production \in Nat
  /\ windows \in [Declared -> Seq(Nat)] /\ admitted \in [Declared -> Seq(Nat)]
  /\ users \in [Declared -> SUBSET Threads]
  /\ cache \in SUBSET [key : Tools \X Args, answer : Nat]
  /\ call \in [Threads -> CallRecord]

ModelTyped ==
  /\ up \in BOOLEAN /\ dead \in BOOLEAN
  /\ tokensUsed \in Nat /\ refused \in Nat /\ flips \in Nat
  /\ ask \in [Threads -> [stage : AskStages, link : Nat, read : Nat]]

Typed ==
  /\ ConnectorTyped /\ ModelTyped
  /\ program \in [Threads -> Seq(Operations)]
  /\ wrote \in [Threads -> Nat]

CallInv ==
  \A t \in Threads :
    /\ ~At(t, "idle") => Started(t) /\ Asking(t, "idle")
    /\ ~Asking(t, "idle") => program[t] # <<>>
    /\ ~At(t, "idle") /\ ~At(t, "raised") => call[t].tool \in Declared
-----------------------------------------------------------------------------
Admitting(tool) == {t \in Threads : At(t, "admit") /\ call[t].tool = tool}

WindowInv ==
  \A tool \in Declared :
    Len(windows[tool]) + Cardinality(Admitting(tool))
      <= RatePerMin + Cardinality(Threads) - 1

(* One thread alone has used the tool.                                      *)
Solo(tool) == Cardinality(users[tool]) <= 1

InWindow(t, tool) ==
  call[t].stage \in {"expire", "drop", "limit", "admit"} /\ call[t].tool = tool

Dropped(tool) == Len(admitted[tool]) - Len(windows[tool])

SoloTool(tool) ==
  /\ Dropped(tool) >= 0
  /\ \A i \in DOMAIN windows[tool] :
       windows[tool][i] = admitted[tool][Dropped(tool) + i]
  /\ \A i \in 1..Dropped(tool) : admitted[tool][i] + Minute < clock
  /\ \A i \in DOMAIN admitted[tool] : admitted[tool][i] <= clock
  /\ \A i, j \in DOMAIN admitted[tool] :
       /\ i <= j => admitted[tool][i] <= admitted[tool][j]
       /\ i + RatePerMin <= j => admitted[tool][i] + Minute < admitted[tool][j]

SoloThread(t, tool) ==
  InWindow(t, tool) =>
    /\ call[t].at <= clock
    /\ \A i \in DOMAIN admitted[tool] : admitted[tool][i] <= call[t].at
    /\ \A i \in 1..Dropped(tool) : admitted[tool][i] + Minute < call[t].at
    /\ At(t, "drop") => HeadExpired(t)
    /\ At(t, "admit") => Len(windows[tool]) < RatePerMin

UserInv == \A t \in Threads, tool \in Declared : InWindow(t, tool) => t \in users[tool]

SoloInv ==
  \A tool \in Declared : Solo(tool) =>
    SoloTool(tool) /\ \A t \in Threads : SoloThread(t, tool)
-----------------------------------------------------------------------------
Connecting == {t \in Threads : Asking(t, "connect")}

DeadInv ==
  IF dead THEN refused + Cardinality(Connecting) <= Cardinality(Callers)
  ELSE refused = 0
-----------------------------------------------------------------------------
Verifies(op) == op.kind # "complete" /\ op.args = "post-remediation"
WritesTool(op) == op.kind # "complete" /\ op.tool \in Writes

(* verifier.py alone asks under this key, the verify node is the last but    *)
(* one of the workflow, and no node after it writes.                       *)
VerifiesLast ==
  \A case \in Cases, t \in Threads : \A i \in DOMAIN case.program[t] :
    Verifies(case.program[t][i]) =>
      /\ \A j \in DOMAIN case.program[t] : WritesTool(case.program[t][j]) => j < i
      /\ \A u \in Threads \ {t} : \A j \in DOMAIN case.program[u] :
           ~Verifies(case.program[u][j])

ToVerify(t) == \E i \in DOMAIN program[t] : Verifies(program[t][i])
ToWrite(t)  == \E i \in DOMAIN program[t] : WritesTool(program[t][i])
Fresh == {entry \in cache : entry.key[2] = "post-remediation"}

VersionInv ==
  /\ \A t \in Threads : wrote[t] <= production /\ call[t].answer <= production
  /\ \A entry \in cache : entry.answer <= production

VerifierAlone ==
  \A t \in Threads : ToVerify(t) =>
    /\ \A u \in Threads \ {t} : ~ToVerify(u)
    /\ \A i, j \in DOMAIN program[t] :
         Verifies(program[t][i]) /\ WritesTool(program[t][j]) => j < i

VerifierFresh ==
  \A t \in Threads : ToVerify(t) =>
    /\ ToWrite(t) => Fresh = {}
    /\ \A entry \in Fresh : entry.answer >= wrote[t]
    /\ call[t].args = "post-remediation" /\ call[t].stage \in {"log", "store", "returned"}
         => call[t].answer >= wrote[t]

VerifierInv == VersionInv /\ VerifierAlone /\ VerifierFresh

IInv == Typed /\ CallInv /\ WindowInv /\ UserInv /\ SoloInv /\ DeadInv
-----------------------------------------------------------------------------
(* What the head of a program is.                                           *)
LEMMA HeadOfProgram ==
  ASSUME NEW t \in Threads, program \in [Threads -> Seq(Operations)],
         program[t] # <<>>
  PROVE  /\ Head(program[t]) \in Operations
         /\ Tail(program[t]) \in Seq(Operations)
         /\ Head(program[t]).kind # "complete" =>
              /\ Head(program[t]).tool \in Tools
              /\ Head(program[t]).args \in Args
<1>1. Head(program[t]) \in Operations /\ Tail(program[t]) \in Seq(Operations)
  BY HeadTailProperties
<1> QED BY <1>1 DEF Tools, Args, Calls

LEMMA NoCallType == NoCall \in CallRecord
  BY DEF NoCall, CallRecord, Stages, Tools, Args

LEMMA InitTyped == Init => Typed
<1> SUFFICES ASSUME Init PROVE Typed
  OBVIOUS
<1>1. ConnectorTyped
  BY NoCallType DEF Init, ConnectorInit, ConnectorTyped
<1>2. ModelTyped
  BY SharedAssumption DEF Init, ModelInit, ModelTyped, NoAsk, AskStages
<1>3. program \in [Threads -> Seq(Operations)] /\ wrote \in [Threads -> Nat]
  BY SharedAssumption DEF Init
<1> QED BY <1>1, <1>2, <1>3 DEF Typed

(* One step of a call, and one of a completion.                             *)
LEMMA CallStepTyped ==
  ASSUME ConnectorTyped, CallInv, NEW t \in Threads, CallStep(t)
  PROVE  ConnectorTyped'
<1> USE ConnectorAssumption
<1>1. call[t] \in CallRecord /\ call \in [Threads -> CallRecord]
  BY DEF ConnectorTyped
<1>2. ASSUME NEW s \in Stages, Goto(t, s)
      PROVE  call' \in [Threads -> CallRecord]
  BY <1>1, <1>2 DEF Goto, CallRecord
<1>3. ~At(t, "idle") /\ ~At(t, "raised") => call[t].tool \in Declared
  BY DEF CallInv
<1>4. CASE ReadClock(t)
  <2>1. call' \in [Threads -> CallRecord]
    BY <1>1, <1>4 DEF ReadClock, CallRecord, Stages, ConnectorTyped
  <2>2. users' \in [Declared -> SUBSET Threads]
    BY <1>4 DEF ReadClock, ConnectorTyped
  <2> QED BY <1>4, <2>1, <2>2 DEF ReadClock, ConnectorTyped
<1>5. CASE TestHead(t)
  <2>1. call' \in [Threads -> CallRecord]
    BY <1>2, <1>5 DEF TestHead, Stages
  <2> QED BY <1>5, <2>1 DEF TestHead, ConnectorTyped
<1>6. CASE DropHead(t)
  <2>1. call' \in [Threads -> CallRecord]
    BY <1>2, <1>6 DEF DropHead, Stages
  <2>2. windows' \in [Declared -> Seq(Nat)]
    <3>1. CASE windows[call[t].tool] = <<>>
      BY <1>6, <3>1 DEF DropHead, ConnectorTyped
    <3>2. CASE windows[call[t].tool] # <<>>
      <4>1. call[t].tool \in Declared
        BY <1>3, <1>6 DEF DropHead, At
      <4>2. Tail(windows[call[t].tool]) \in Seq(Nat)
        BY <3>2, <4>1, HeadTailProperties DEF ConnectorTyped
      <4> QED BY <1>6, <3>2, <4>2 DEF DropHead, ConnectorTyped
    <3> QED BY <3>1, <3>2
  <2> QED BY <1>6, <2>1, <2>2 DEF DropHead, ConnectorTyped
<1>7. CASE TestLimit(t)
  <2>1. call' \in [Threads -> CallRecord]
    BY <1>2, <1>7 DEF TestLimit, Stages
  <2> QED BY <1>7, <2>1 DEF TestLimit, ConnectorTyped
<1>8. CASE Admit(t)
  <2>1. call' \in [Threads -> CallRecord]
    BY <1>2, <1>8 DEF Admit, Stages
  <2>2. call[t].tool \in Declared /\ call[t].at \in Nat
    BY <1>1, <1>3, <1>8 DEF Admit, At, CallRecord
  <2>3. windows' \in [Declared -> Seq(Nat)] /\ admitted' \in [Declared -> Seq(Nat)]
    BY <1>8, <2>2, AppendProperties DEF Admit, ConnectorTyped
  <2> QED BY <1>8, <2>1, <2>3 DEF Admit, ConnectorTyped
<1>9. CASE LookUp(t)
  <2>1. call' \in [Threads -> CallRecord]
    <3> DEFINE hits == {entry \in cache : Cacheable(call[t].tool) /\ entry.key = Key(t)}
    <3>1. CASE hits = {}
      BY <1>2, <1>9, <3>1 DEF LookUp, Stages
    <3>2. CASE hits # {}
      <4>1. (CHOOSE entry \in hits : TRUE) \in hits
        BY <3>2
      <4>2. (CHOOSE entry \in hits : TRUE).answer \in Nat
        BY <4>1 DEF ConnectorTyped
      <4> HIDE DEF hits
      <4>3. call' = [call EXCEPT ![t].stage = "log", ![t].hit = TRUE,
                       ![t].answer = (CHOOSE entry \in hits : TRUE).answer]
        BY <1>9, <3>2 DEF LookUp, hits
      <4> DEFINE answer == (CHOOSE entry \in hits : TRUE).answer
      <4>4. answer \in Nat /\ call' = [call EXCEPT ![t].stage = "log", ![t].hit = TRUE,
                       ![t].answer = answer]
        BY <4>2, <4>3
      <4> HIDE DEF answer
      <4> QED BY <1>1, <4>4 DEF CallRecord, Stages
    <3> QED BY <3>1, <3>2
  <2> QED BY <1>9, <2>1 DEF LookUp, ConnectorTyped
<1>10. CASE Invoke(t)
  <2>1. production' \in Nat /\ call' = [call EXCEPT ![t].stage = "log",
                                                    ![t].answer = production']
    BY <1>10 DEF Invoke, ConnectorTyped
  <2>2. call' \in [Threads -> CallRecord]
    BY <1>1, <2>1 DEF CallRecord, Stages
  <2> QED BY <1>10, <2>1, <2>2 DEF Invoke, ConnectorTyped
<1>11. CASE InvokeRaises(t) \/ LogRaises(t) \/ LogCall(t)
  <2>1. call' \in [Threads -> CallRecord]
    BY <1>2, <1>11 DEF InvokeRaises, LogRaises, LogCall, Stages
  <2> QED BY <1>11, <2>1 DEF InvokeRaises, LogRaises, LogCall, ConnectorTyped
<1>12. CASE Store(t)
  <2>1. call' \in [Threads -> CallRecord]
    BY <1>2, <1>12 DEF Store, Stages
  <2>2. cache' \in SUBSET [key : Tools \X Args, answer : Nat]
    BY <1>1, <1>12 DEF Store, Key, ConnectorTyped, CallRecord
  <2> QED BY <1>12, <2>1, <2>2 DEF Store, ConnectorTyped
<1> QED BY <1>4, <1>5, <1>6, <1>7, <1>8, <1>9, <1>10, <1>11, <1>12 DEF CallStep

LEMMA AskStepTyped ==
  ASSUME ModelTyped, NEW t \in Threads, AskStep(t)
  PROVE  ModelTyped'
<1>1. ask[t] \in [stage : AskStages, link : Nat, read : Nat]
  BY DEF ModelTyped
<1>2. ASSUME NEW s \in AskStages, Now(t, s)
      PROVE  ask' \in [Threads -> [stage : AskStages, link : Nat, read : Nat]]
  BY <1>1, <1>2 DEF Now, ModelTyped
<1>3. CASE Try(t)
  BY <1>2, <1>3 DEF Try, AskStages, ModelTyped
<1>4. CASE Connect(t)
  <2>1. ask' \in [Threads -> [stage : AskStages, link : Nat, read : Nat]]
    BY <1>2, <1>4 DEF Connect, AskStages
  <2>2. CASE up
    BY <1>4, <2>1, <2>2 DEF Connect, ModelTyped
  <2>3. CASE ~up
    BY <1>4, <2>1, <2>3 DEF Connect, ModelTyped
  <2> QED BY <2>2, <2>3
<1>5. CASE Garbage(t)
  BY <1>2, <1>5 DEF Garbage, AskStages, ModelTyped
<1>6. CASE FallBackTo(t)
  <2>1. ask' = [ask EXCEPT ![t] = [stage |-> "try", link |-> ask[t].link + 1,
                                   read |-> ask[t].read]]
    BY <1>1, <1>6 DEF FallBackTo, ModelTyped
  <2>2. ask' \in [Threads -> [stage : AskStages, link : Nat, read : Nat]]
    BY <1>1, <2>1 DEF AskStages, ModelTyped
  <2> QED BY <1>6, <2>2 DEF FallBackTo, ModelTyped
<1>7. CASE ReadMeter(t)
  <2>1. ask' \in [Threads -> [stage : AskStages, link : Nat, read : Nat]]
    BY <1>1, <1>7 DEF ReadMeter, AskStages, ModelTyped
  <2> QED BY <1>7, <2>1 DEF ReadMeter, ModelTyped
<1>8. CASE AddToMeter(t)
  BY <1>1, <1>2, <1>8 DEF AddToMeter, AskStages, ModelTyped
<1>9. CASE Record(t) \/ RecordRaises(t)
  BY <1>2, <1>9 DEF Record, RecordRaises, AskStages, ModelTyped
<1> QED BY <1>3, <1>4, <1>5, <1>6, <1>7, <1>8, <1>9 DEF AskStep

-----------------------------------------------------------------------------
(* The call that begins is the first of the program; one that may go on has  *)
(* a declared tool.                                                        *)
LEMMA BeginTyped ==
  ASSUME Typed, CallInv, NEW t \in Threads, Begin(t)
  PROVE  Typed' /\ CallInv'
<1> DEFINE op == Head(program[t])
<1>1. /\ op \in Operations
      /\ op.kind # "complete" => op.tool \in Tools /\ op.args \in Args
  BY HeadOfProgram DEF Begin, Typed
<1>2. program' = program /\ wrote' = wrote
  BY DEF Begin
<1>3. CASE op.kind = "complete"
  <2>1. StartAsk(t) /\ UNCHANGED connectorVars
    BY <1>3 DEF Begin
  <2>2. ask' \in [Threads -> [stage : AskStages, link : Nat, read : Nat]]
    BY <2>1 DEF StartAsk, NoAsk, AskStages, Typed, ModelTyped
  <2>3. ConnectorTyped' /\ ModelTyped'
    BY <2>1, <2>2 DEF StartAsk, connectorVars, Typed, ConnectorTyped, ModelTyped
  <2>4. CallInv'
    BY <1>2, <2>1 DEF Begin, StartAsk, Typed, ModelTyped, CallInv, connectorVars, Started,
                      At, Asking
  <2> QED BY <1>2, <2>3, <2>4 DEF Typed
<1>4. CASE op.kind # "complete"
  <2> DEFINE no == \/ op.tool \notin Declared
                   \/ op.tool \in Writes /\ op.principal \notin WritePrincipals
  <2> DEFINE new == [stage |-> IF no THEN "raised" ELSE "clock", tool |-> op.tool,
                     args |-> op.args, at |-> 0, answer |-> 0, hit |-> FALSE]
  <2>1. /\ call' = [call EXCEPT ![t] = new]
        /\ UNCHANGED <<clock, production, windows, cache, admitted, users>>
        /\ UNCHANGED modelVars
    BY <1>4 DEF Begin, StartCall, NoCall
  <2>2. new \in CallRecord
    BY <1>1, <1>4 DEF CallRecord, Stages
  <2>3. new.tool = op.tool /\ new.args = op.args
        /\ (new.stage # "raised" => op.tool \in Declared)
    OBVIOUS
  <2> HIDE DEF new
  <2>4. ConnectorTyped'
    BY <2>1, <2>2 DEF Typed, ConnectorTyped
  <2>5. ModelTyped'
    BY <2>1 DEF modelVars, Typed, ModelTyped
  <2>6. ASSUME NEW u \in Threads
        PROVE  /\ (~At(u, "idle"))' => Started(u)' /\ Asking(u, "idle")'
               /\ (~Asking(u, "idle"))' => program'[u] # <<>>
               /\ (~At(u, "idle") /\ ~At(u, "raised"))' => call'[u].tool \in Declared
    <3>1. CASE u = t
      <4>1. call'[u] = new
        BY <2>1, <3>1 DEF Typed, ConnectorTyped
      <4>2. Started(u)'
        BY <1>2, <1>4, <2>3, <3>1, <4>1 DEF Started, Begin
      <4> QED BY <2>1, <2>3, <3>1, <4>1, <4>2 DEF At, Asking, Begin, modelVars
    <3>2. CASE u # t
      <4>1. call'[u] = call[u]
        BY <2>1, <3>2 DEF Typed, ConnectorTyped
      <4> QED BY <1>2, <2>1, <4>1 DEF CallInv, Started, At, Asking, modelVars
    <3> QED BY <3>1, <3>2
  <2>7. CallInv'
    BY <2>6 DEF CallInv
  <2> QED BY <1>2, <2>4, <2>5, <2>7 DEF Typed
<1> QED BY <1>3, <1>4

(* A step of a call changes no other call, and not what it is for.           *)
LEMMA CallStepFrame ==
  ASSUME ConnectorTyped, NEW t \in Threads, CallStep(t)
  PROVE  /\ \A u \in Threads \ {t} : call'[u] = call[u]
         /\ call'[t].tool = call[t].tool /\ call'[t].args = call[t].args
         /\ call[t].stage \notin {"idle", "raised"}
         /\ call'[t].stage # "idle"
<1>1. call[t] \in CallRecord /\ call \in [Threads -> CallRecord]
  BY DEF ConnectorTyped
<1>2. ASSUME NEW s \in Stages, Goto(t, s), s # "idle"
      PROVE  /\ \A u \in Threads \ {t} : call'[u] = call[u]
             /\ call'[t].tool = call[t].tool /\ call'[t].args = call[t].args
             /\ call'[t].stage # "idle"
  BY <1>1, <1>2 DEF Goto, CallRecord
<1>3. CASE ReadClock(t)
  BY <1>1, <1>3 DEF ReadClock, At, CallRecord
<1>4. CASE TestHead(t) \/ DropHead(t)
  BY <1>2, <1>4 DEF TestHead, DropHead, At, Stages
<1>5. CASE TestLimit(t) \/ Admit(t)
  BY <1>2, <1>5 DEF TestLimit, Admit, At, Stages
<1>6. CASE LookUp(t)
  <2> DEFINE hits == {entry \in cache : Cacheable(call[t].tool) /\ entry.key = Key(t)}
  <2> DEFINE answer == (CHOOSE entry \in hits : TRUE).answer
  <2>1. CASE hits = {}
    BY <1>2, <1>6, <2>1 DEF LookUp, At, Stages
  <2>2. CASE hits # {}
    <3>1. /\ At(t, "lookup")
          /\ call' = [call EXCEPT ![t].stage = "log", ![t].hit = TRUE, ![t].answer = answer]
      BY <1>6, <2>2 DEF LookUp
    <3> HIDE DEF answer
    <3> QED BY <1>1, <3>1 DEF CallRecord, At
  <2> QED BY <2>1, <2>2
<1>7. CASE Invoke(t)
  <2>1. At(t, "invoke")
        /\ call' = [call EXCEPT ![t].stage = "log", ![t].answer = production']
    BY <1>7 DEF Invoke
  <2> QED BY <1>1, <2>1 DEF CallRecord, At
<1>8. CASE InvokeRaises(t) \/ LogCall(t) \/ LogRaises(t) \/ Store(t)
  BY <1>2, <1>8 DEF InvokeRaises, LogCall, LogRaises, Store, At, Stages
<1> QED BY <1>3, <1>4, <1>5, <1>6, <1>7, <1>8 DEF CallStep

(* A step of a completion changes no other.                                 *)
LEMMA AskStepFrame ==
  ASSUME ModelTyped, NEW t \in Threads, AskStep(t)
  PROVE  ~Asking(t, "idle") /\ \A u \in Threads \ {t} : ask'[u] = ask[u]
<1>1. CASE Try(t) \/ Garbage(t)
  BY <1>1 DEF Try, Garbage, Now, Asking, ModelTyped
<1>2. CASE Connect(t)
  BY <1>2 DEF Connect, Now, Asking, ModelTyped
<1>3. CASE FallBackTo(t)
  BY <1>3 DEF FallBackTo, Asking, ModelTyped
<1>4. CASE ReadMeter(t)
  BY <1>4 DEF ReadMeter, Asking, ModelTyped
<1>5. CASE AddToMeter(t) \/ Record(t) \/ RecordRaises(t)
  BY <1>5 DEF AddToMeter, Record, RecordRaises, Now, Asking, ModelTyped
<1> QED BY <1>1, <1>2, <1>3, <1>4, <1>5 DEF AskStep

LEMMA ProgressTyped ==
  ASSUME Typed, CallInv, NEW t \in Threads, Progress(t)
  PROVE  Typed' /\ CallInv'
<1>1. program' = program /\ wrote' = wrote
  BY DEF Progress
<1>2. CASE CallStep(t) /\ UNCHANGED modelVars
  <2>1. ConnectorTyped' /\ ModelTyped'
    BY <1>2, CallStepTyped DEF Typed, ModelTyped, modelVars
  <2>2. ASSUME NEW u \in Threads
        PROVE  /\ (~At(u, "idle"))' => Started(u)' /\ Asking(u, "idle")'
               /\ (~Asking(u, "idle"))' => program'[u] # <<>>
               /\ (~At(u, "idle") /\ ~At(u, "raised"))' => call'[u].tool \in Declared
    <3>1. CASE u = t
      BY <1>1, <1>2, <3>1, CallStepFrame DEF Typed, CallInv, Started, At, Asking, modelVars
    <3>2. CASE u # t
      <4>1. call'[u] = call[u]
        BY <1>2, <3>2, CallStepFrame DEF Typed
      <4> QED BY <1>1, <1>2, <4>1 DEF CallInv, Started, At, Asking, modelVars
    <3> QED BY <3>1, <3>2
  <2>3. CallInv'
    BY <2>2 DEF CallInv
  <2> QED BY <1>1, <2>1, <2>3 DEF Typed
<1>3. CASE AskStep(t) /\ UNCHANGED connectorVars
  <2>1. ConnectorTyped' /\ ModelTyped'
    BY <1>3, AskStepTyped DEF Typed, ConnectorTyped, connectorVars
  <2>2. ~Asking(t, "idle") /\ \A u \in Threads \ {t} : ask'[u] = ask[u]
    BY <1>3, AskStepFrame DEF Typed
  <2>3. ASSUME NEW u \in Threads
        PROVE  /\ (~At(u, "idle"))' => Started(u)' /\ Asking(u, "idle")'
               /\ (~Asking(u, "idle"))' => program'[u] # <<>>
               /\ (~At(u, "idle") /\ ~At(u, "raised"))' => call'[u].tool \in Declared
    BY <1>1, <1>3, <2>2 DEF CallInv, connectorVars, Started, At, Asking
  <2>4. CallInv'
    BY <2>3 DEF CallInv
  <2> QED BY <1>1, <2>1, <2>4 DEF Typed
<1> QED BY <1>2, <1>3 DEF Progress

LEMMA EndTyped ==
  ASSUME Typed, CallInv, NEW t \in Threads, EndCall(t) \/ EndAsk(t)
  PROVE  Typed' /\ CallInv'

<1>1. CASE EndCall(t)
  <2>1. Started(t) /\ ~At(t, "idle") /\ Asking(t, "idle")
    BY <1>1 DEF EndCall, CallInv, At
  <2>2. /\ call' = [call EXCEPT ![t] = NoCall]
        /\ UNCHANGED <<clock, production, windows, cache, admitted, users>>
        /\ UNCHANGED modelVars
    BY <1>1 DEF EndCall
  <2>3. ConnectorTyped' /\ ModelTyped'
    BY <2>2, NoCallType DEF Typed, ConnectorTyped, ModelTyped, modelVars
  <2>4. /\ program' \in [Threads -> Seq(Operations)]
        /\ \A u \in Threads \ {t} : program'[u] = program[u]
    BY <1>1, <2>1, HeadOfProgram DEF EndCall, Typed, Started
  <2>5. wrote' \in [Threads -> Nat]
    BY <1>1 DEF EndCall, Typed, ConnectorTyped, CallRecord
  <2>6. ASSUME NEW u \in Threads
        PROVE  /\ (~At(u, "idle"))' => Started(u)' /\ Asking(u, "idle")'
               /\ (~Asking(u, "idle"))' => program'[u] # <<>>
               /\ (~At(u, "idle") /\ ~At(u, "raised"))' => call'[u].tool \in Declared
    <3>1. CASE u = t
      BY <2>1, <2>2, <3>1 DEF At, Asking, NoCall, Typed, ConnectorTyped, modelVars
    <3>2. CASE u # t
      <4>1. call'[u] = call[u] /\ program'[u] = program[u]
        BY <2>2, <2>4, <3>2 DEF Typed, ConnectorTyped
      <4> QED BY <2>2, <4>1 DEF CallInv, Started, At, Asking, modelVars
    <3> QED BY <3>1, <3>2
  <2>7. CallInv'
    BY <2>6 DEF CallInv
  <2> QED BY <2>3, <2>4, <2>5, <2>7 DEF Typed
<1>2. CASE EndAsk(t)
  <2>1. At(t, "idle") /\ call' = call
    BY <1>2 DEF EndAsk, CallInv, Asking, connectorVars
  <2>2. ask' \in [Threads -> [stage : AskStages, link : Nat, read : Nat]]
    BY <1>2 DEF EndAsk, NoAsk, AskStages, Typed, ModelTyped
  <2>3. ConnectorTyped' /\ ModelTyped'
    BY <1>2, <2>2 DEF EndAsk, Typed, ConnectorTyped, ModelTyped, connectorVars
  <2>4. /\ program' \in [Threads -> Seq(Operations)]
        /\ \A u \in Threads \ {t} : program'[u] = program[u] /\ ask'[u] = ask[u]
    <3>1. program[t] # <<>>
      BY <1>2 DEF EndAsk, CallInv, Asking
    <3>2. Tail(program[t]) \in Seq(Operations)
      BY <3>1, HeadOfProgram DEF Typed
    <3> QED BY <1>2, <3>2 DEF EndAsk, Typed, ModelTyped
  <2>5. ASSUME NEW u \in Threads
        PROVE  /\ (~At(u, "idle"))' => Started(u)' /\ Asking(u, "idle")'
               /\ (~Asking(u, "idle"))' => program'[u] # <<>>
               /\ (~At(u, "idle") /\ ~At(u, "raised"))' => call'[u].tool \in Declared
    <3>1. CASE u = t
      BY <1>2, <2>1, <3>1 DEF At, Asking, EndAsk, NoAsk, Typed, ModelTyped
    <3>2. CASE u # t
      BY <2>1, <2>4, <3>2 DEF CallInv, Started, At, Asking
    <3> QED BY <3>1, <3>2
  <2>6. CallInv'
    BY <2>5 DEF CallInv
  <2>7. wrote' = wrote
    BY <1>2 DEF EndAsk
  <2> QED BY <2>3, <2>4, <2>6, <2>7 DEF Typed
<1> QED BY <1>1, <1>2

LEMMA EnvironmentTyped ==
  ASSUME Typed, CallInv, Environment
  PROVE  Typed' /\ CallInv'
<1>1. program' = program /\ wrote' = wrote /\ call' = call /\ ask' = ask
  BY DEF Environment, Tick, ChangeOutside, Flip, modelVars, connectorVars
<1>2. /\ clock' \in Nat /\ production' \in Nat /\ up' \in BOOLEAN /\ flips' \in Nat
      /\ UNCHANGED <<windows, cache, admitted, users, dead, tokensUsed, refused>>
  <2>1. CASE Tick /\ UNCHANGED modelVars
    BY <2>1 DEF Tick, modelVars, Typed, ConnectorTyped, ModelTyped
  <2>2. CASE ChangeOutside /\ UNCHANGED modelVars
    BY <2>2 DEF ChangeOutside, modelVars, Typed, ConnectorTyped, ModelTyped
  <2>3. CASE Flip /\ UNCHANGED connectorVars
    BY <2>3 DEF Flip, connectorVars, Typed, ConnectorTyped, ModelTyped
  <2> QED BY <2>1, <2>2, <2>3 DEF Environment
<1>4. ConnectorTyped' /\ ModelTyped'
  BY <1>1, <1>2 DEF Typed, ConnectorTyped, ModelTyped
<1>3. CallInv'
  BY <1>1 DEF CallInv, Started, At, Asking
<1> QED BY <1>1, <1>3, <1>4 DEF Typed

LEMMA TypedNext ==
  ASSUME Typed, CallInv, [Next]_vars
  PROVE  Typed' /\ CallInv'
<1>1. CASE UNCHANGED vars
  <2>1. UNCHANGED <<clock, production, windows, cache, call, admitted, users, up, flips,
                    dead, ask, tokensUsed, refused, program, wrote>>
    BY <1>1 DEF vars, connectorVars, modelVars
  <2> QED BY <2>1 DEF Typed, ConnectorTyped, ModelTyped, CallInv, Started, At, Asking
<1>2. CASE Environment
  BY <1>2, EnvironmentTyped
<1>3. ASSUME NEW t \in Threads, ThreadStep(t)
      PROVE  Typed' /\ CallInv'
  BY <1>3, BeginTyped, ProgressTyped, EndTyped DEF ThreadStep
<1> QED BY <1>1, <1>2, <1>3 DEF Next

LEMMA InitCallInv == Init => CallInv
  BY SharedAssumption DEF Init, ConnectorInit, ModelInit, NoCall, NoAsk, CallInv, At, Asking

-----------------------------------------------------------------------------
(* A thread that leaves the connection is no longer counted.                *)
LEMMA NotConnecting ==
  ASSUME NEW t \in Threads, \A u \in Threads \ {t} : ask'[u] = ask[u],
         ask'[t].stage # "connect"
  PROVE  /\ Cardinality(Connecting) \in Nat /\ Cardinality(Connecting') \in Nat
         /\ Cardinality(Connecting') =
              IF Asking(t, "connect") THEN Cardinality(Connecting) - 1
              ELSE Cardinality(Connecting)
<1>1. Connecting' = Connecting \ {t}
  BY DEF Connecting, Asking
<1>2. Connecting \in SUBSET Threads /\ IsFiniteSet(Threads)
  BY SharedAssumption DEF Connecting
<1>3. IsFiniteSet(Connecting)
  BY <1>2, FS_Subset
<1>4. t \in Connecting <=> Asking(t, "connect")
  BY DEF Connecting
<1>5. Cardinality(Connecting) \in Nat
  BY <1>3, FS_CardinalityType
<1>6. /\ IsFiniteSet(Connecting \ {t})
      /\ Cardinality(Connecting \ {t}) =
           IF t \in Connecting THEN Cardinality(Connecting) - 1 ELSE Cardinality(Connecting)
  BY <1>3, FS_RemoveElement
<1>7. Cardinality(Connecting \ {t}) \in Nat
  BY <1>6, FS_CardinalityType
<1> QED BY <1>1, <1>4, <1>5, <1>6, <1>7

LEMMA InitDead == Init => DeadInv
  BY DEF Init, ModelInit, DeadInv

(* A refusal moves a thread from those that may still connect to those that  *)
(* were refused; no thread joins the former once the flag is set.          *)
LEMMA AskStepDead ==
  ASSUME ModelTyped, DeadInv, NEW t \in Threads, AskStep(t)
  PROVE  DeadInv'
<1>1. \A u \in Threads \ {t} : ask'[u] = ask[u]
  BY AskStepFrame
<1>2. ASSUME ask'[t].stage # "connect", dead' = dead, refused' = refused
      PROVE  DeadInv'
  <2>1. /\ Cardinality(Connecting) \in Nat /\ Cardinality(Connecting') \in Nat
        /\ Cardinality(Connecting') <= Cardinality(Connecting)
    BY <1>1, <1>2, NotConnecting
  <2>2. refused \in Nat /\ Cardinality(Callers) \in Nat
    BY SharedAssumption, FS_CardinalityType DEF ModelTyped
  <2> QED BY <1>2, <2>1, <2>2 DEF DeadInv
<1>3. CASE Try(t)
  <2>1. dead' = dead /\ refused' = refused
    BY <1>3 DEF Try
  <2>2. CASE ask'[t].stage # "connect"
    BY <1>2, <2>1, <2>2
  <2>3. CASE ask'[t].stage = "connect"
    <3>1. ~dead
      BY <1>3, <2>3 DEF Try, Now, ModelTyped
    <3> QED BY <2>1, <3>1 DEF DeadInv
  <2> QED BY <2>2, <2>3
<1>4. CASE Connect(t)
  <2>1. Asking(t, "connect") /\ ask'[t].stage # "connect"
    BY <1>4 DEF Connect, Now, ModelTyped
  <2>2. CASE up
    <3>1. dead' = dead /\ refused' = refused
      BY <1>4, <2>2 DEF Connect
    <3> QED BY <1>2, <2>1, <3>1
  <2>3. CASE ~up
    <3>1. dead' = TRUE /\ refused' = refused + 1
      BY <1>4, <2>3 DEF Connect
    <3>2. /\ Cardinality(Connecting) \in Nat /\ Cardinality(Connecting') \in Nat
          /\ Cardinality(Connecting') = Cardinality(Connecting) - 1
      BY <1>1, <2>1, NotConnecting
    <3>3. Connecting \in SUBSET Threads /\ IsFiniteSet(Threads)
      BY SharedAssumption DEF Connecting
    <3>4. Cardinality(Connecting) <= Cardinality(Callers)
      BY <3>3, SharedAssumption, FS_Subset
    <3>5. refused \in Nat /\ Cardinality(Callers) \in Nat
      BY SharedAssumption, FS_CardinalityType DEF ModelTyped
    <3> QED BY <3>1, <3>2, <3>4, <3>5 DEF DeadInv
  <2> QED BY <2>2, <2>3
<1>5. CASE Garbage(t)
  BY <1>2, <1>5 DEF Garbage, Now, ModelTyped
<1>6. CASE FallBackTo(t)
  BY <1>2, <1>6 DEF FallBackTo, ModelTyped
<1>7. CASE ReadMeter(t)
  BY <1>2, <1>7 DEF ReadMeter, ModelTyped
<1>8. CASE AddToMeter(t) \/ Record(t) \/ RecordRaises(t)
  BY <1>2, <1>8 DEF AddToMeter, Record, RecordRaises, Now, ModelTyped
<1> QED BY <1>3, <1>4, <1>5, <1>6, <1>7, <1>8 DEF AskStep

LEMMA DeadNext ==
  ASSUME Typed, CallInv, DeadInv, [Next]_vars
  PROVE  DeadInv'
<1>1. ASSUME dead' = dead, refused' = refused, Connecting' = Connecting
      PROVE  DeadInv'
  BY <1>1 DEF DeadInv
<1>2. CASE UNCHANGED modelVars
  BY <1>1, <1>2 DEF modelVars, Connecting, Asking
<1>3. CASE UNCHANGED vars
  BY <1>2, <1>3 DEF vars
<1>4. CASE Environment
  <2>1. CASE Flip
    BY <1>1, <2>1 DEF Flip, Connecting, Asking
  <2> QED BY <1>2, <1>4, <2>1 DEF Environment
<1>5. ASSUME NEW t \in Threads, ThreadStep(t)
      PROVE  DeadInv'
  <2>1. CASE Begin(t)
    <3>1. CASE StartAsk(t)
      <4>1. Connecting' = Connecting
        BY <2>1, <3>1 DEF Begin, StartAsk, Connecting, Asking, Typed, ModelTyped, NoAsk
      <4> QED BY <1>1, <3>1, <4>1 DEF StartAsk
    <3> QED BY <1>2, <2>1, <3>1 DEF Begin
  <2>2. CASE Progress(t)
    BY <1>2, <2>2, AskStepDead DEF Progress, Typed
  <2>3. CASE EndCall(t)
    BY <1>2, <2>3 DEF EndCall
  <2>4. CASE EndAsk(t)
    <3>1. Connecting' = Connecting
      BY <2>4 DEF EndAsk, Connecting, Asking, Typed, ModelTyped, NoAsk
    <3> QED BY <1>1, <2>4, <3>1 DEF EndAsk
  <2> QED BY <1>5, <2>1, <2>2, <2>3, <2>4 DEF ThreadStep
<1> QED BY <1>3, <1>4, <1>5 DEF Next

-----------------------------------------------------------------------------
(* The threads between the test of a window and their append.               *)
LEMMA AdmittingBounded ==
  ASSUME NEW tool
  PROVE  /\ IsFiniteSet(Admitting(tool)) /\ Cardinality(Admitting(tool)) \in Nat
         /\ Cardinality(Admitting(tool)) <= Cardinality(Threads)
         /\ Cardinality(Threads) \in Nat
<1>1. Admitting(tool) \in SUBSET Threads /\ IsFiniteSet(Threads)
  BY SharedAssumption DEF Admitting
<1>2. IsFiniteSet(Admitting(tool)) /\ Cardinality(Admitting(tool)) <= Cardinality(Threads)
  BY <1>1, FS_Subset
<1> QED BY <1>1, <1>2, FS_CardinalityType

LEMMA NotAdmitting ==
  ASSUME NEW t \in Threads, \A u \in Threads \ {t} : call'[u] = call[u],
         call'[t].stage # "admit", NEW tool
  PROVE  /\ Cardinality(Admitting(tool)') \in Nat
         /\ Cardinality(Admitting(tool)') =
              IF t \in Admitting(tool) THEN Cardinality(Admitting(tool)) - 1
              ELSE Cardinality(Admitting(tool))
<1>1. Admitting(tool)' = Admitting(tool) \ {t}
  BY DEF Admitting, At
<1>2. IsFiniteSet(Admitting(tool)) /\ Cardinality(Admitting(tool)) \in Nat
  BY AdmittingBounded
<1>3. /\ IsFiniteSet(Admitting(tool) \ {t})
      /\ Cardinality(Admitting(tool) \ {t}) =
           IF t \in Admitting(tool) THEN Cardinality(Admitting(tool)) - 1
           ELSE Cardinality(Admitting(tool))
  BY <1>2, FS_RemoveElement
<1>4. Cardinality(Admitting(tool) \ {t}) \in Nat
  BY <1>3, FS_CardinalityType
<1> QED BY <1>1, <1>2, <1>3, <1>4

LEMMA InitWindow == Init => WindowInv
<1> SUFFICES ASSUME Init, NEW tool \in Declared
             PROVE  Len(windows[tool]) + Cardinality(Admitting(tool))
                      <= RatePerMin + Cardinality(Threads) - 1
  BY DEF WindowInv
<1>1. Len(windows[tool]) = 0
  BY DEF Init, ConnectorInit
<1>2. Cardinality(Admitting(tool)) <= Cardinality(Threads)
      /\ Cardinality(Admitting(tool)) \in Nat /\ Cardinality(Threads) \in Nat
  BY AdmittingBounded
<1> QED BY <1>1, <1>2, ConnectorAssumption

(* A step that leaves its thread outside the gap, and no window longer.      *)
LEMMA QuietWindow ==
  ASSUME ConnectorTyped, WindowInv, NEW t \in Threads,
         \A u \in Threads \ {t} : call'[u] = call[u], call'[t].stage # "admit",
         windows' = windows
  PROVE  WindowInv'
<1> SUFFICES ASSUME NEW tool \in Declared
             PROVE  Len(windows[tool]) + Cardinality(Admitting(tool)')
                      <= RatePerMin + Cardinality(Threads) - 1
  BY DEF WindowInv
<1>1. Len(windows[tool]) \in Nat
  BY LenProperties DEF ConnectorTyped
<1>2. /\ Cardinality(Admitting(tool)') \in Nat /\ Cardinality(Admitting(tool)) \in Nat
      /\ Cardinality(Admitting(tool)') <= Cardinality(Admitting(tool))
  BY NotAdmitting, AdmittingBounded
<1>3. Cardinality(Threads) \in Nat
  BY AdmittingBounded
<1> QED BY <1>1, <1>2, <1>3, ConnectorAssumption DEF WindowInv

(* Past its admission a call does not come back to the window.               *)
LEMMA LateStage ==
  ASSUME ConnectorTyped, NEW t \in Threads,
         \/ LookUp(t) \/ Invoke(t) \/ InvokeRaises(t) \/ LogCall(t) \/ LogRaises(t)
         \/ Store(t)
  PROVE  call'[t].stage \in {"invoke", "log", "raised", "store", "returned"}
<1>1. call[t] \in CallRecord /\ call \in [Threads -> CallRecord]
  BY DEF ConnectorTyped
<1>2. ASSUME NEW s \in Stages, Goto(t, s)
      PROVE  call'[t].stage = s
  BY <1>1, <1>2 DEF Goto, CallRecord
<1>3. CASE LookUp(t)
  <2> DEFINE hits == {entry \in cache : Cacheable(call[t].tool) /\ entry.key = Key(t)}
  <2> DEFINE answer == (CHOOSE entry \in hits : TRUE).answer
  <2>1. CASE hits = {}
    BY <1>2, <1>3, <2>1 DEF LookUp, Stages
  <2>2. CASE hits # {}
    <3>1. call' = [call EXCEPT ![t].stage = "log", ![t].hit = TRUE, ![t].answer = answer]
      BY <1>3, <2>2 DEF LookUp
    <3> HIDE DEF answer
    <3> QED BY <1>1, <3>1 DEF CallRecord
  <2> QED BY <2>1, <2>2
<1>4. CASE Invoke(t)
  <2>1. call' = [call EXCEPT ![t].stage = "log", ![t].answer = production']
    BY <1>4 DEF Invoke
  <2> QED BY <1>1, <2>1 DEF CallRecord
<1>5. CASE InvokeRaises(t) \/ LogCall(t) \/ LogRaises(t) \/ Store(t)
  BY <1>2, <1>5 DEF InvokeRaises, LogCall, LogRaises, Store, Stages
<1> QED BY <1>3, <1>4, <1>5

LEMMA CallStepWindow ==
  ASSUME ConnectorTyped, CallInv, WindowInv, NEW t \in Threads, CallStep(t)
  PROVE  WindowInv'
<1>1. \A u \in Threads \ {t} : call'[u] = call[u]
  BY CallStepFrame
<1>2. call[t] \in CallRecord /\ call \in [Threads -> CallRecord]
  BY DEF ConnectorTyped
<1>3. ~At(t, "idle") /\ ~At(t, "raised") => call[t].tool \in Declared
  BY DEF CallInv
<1>4. ASSUME windows' = windows, call'[t].stage # "admit"
      PROVE  WindowInv'
  BY <1>1, <1>4, QuietWindow
<1>5. ASSUME NEW s \in Stages, Goto(t, s)
      PROVE  call'[t].stage = s
  BY <1>2, <1>5 DEF Goto, CallRecord
<1>6. CASE ReadClock(t)
  BY <1>2, <1>4, <1>6 DEF ReadClock, CallRecord
<1>7. CASE TestHead(t)
  BY <1>4, <1>5, <1>7 DEF TestHead, Stages
<1>8. CASE DropHead(t)
  <2>1. call'[t].stage # "admit"
    BY <1>5, <1>8 DEF DropHead, Stages
  <2>2. CASE windows[call[t].tool] = <<>>
    BY <1>4, <1>8, <2>1, <2>2 DEF DropHead
  <2>3. CASE windows[call[t].tool] # <<>>
    <3> SUFFICES ASSUME NEW tool \in Declared
                 PROVE  Len(windows'[tool]) + Cardinality(Admitting(tool)')
                          <= RatePerMin + Cardinality(Threads) - 1
      BY DEF WindowInv
    <3>1. windows' = [windows EXCEPT ![call[t].tool] = Tail(@)]
      BY <1>8, <2>3 DEF DropHead
    <3>2. Len(windows[tool]) \in Nat /\ Len(windows'[tool]) \in Nat
          /\ Len(windows'[tool]) <= Len(windows[tool])
      BY <2>3, <3>1, HeadTailProperties, LenProperties DEF ConnectorTyped
    <3>3. /\ Cardinality(Admitting(tool)') \in Nat /\ Cardinality(Admitting(tool)) \in Nat
          /\ Cardinality(Admitting(tool)') <= Cardinality(Admitting(tool))
      BY <1>1, <2>1, NotAdmitting, AdmittingBounded
    <3>4. Cardinality(Threads) \in Nat
      BY AdmittingBounded
    <3> QED BY <3>2, <3>3, <3>4, ConnectorAssumption DEF WindowInv
  <2> QED BY <2>2, <2>3
<1>9. CASE TestLimit(t)
  <2>1. windows' = windows
    BY <1>9 DEF TestLimit
  <2>2. CASE call'[t].stage # "admit"
    BY <1>4, <2>1, <2>2
  <2>3. CASE call'[t].stage = "admit"
    <3>1. ~(Len(windows[call[t].tool]) >= RatePerMin)
      BY <1>5, <1>9, <2>3 DEF TestLimit, Stages
    <3>2. At(t, "limit") /\ call'[t].tool = call[t].tool
      BY <1>9, CallStepFrame DEF TestLimit
    <3> SUFFICES ASSUME NEW tool \in Declared
                 PROVE  Len(windows[tool]) + Cardinality(Admitting(tool)')
                          <= RatePerMin + Cardinality(Threads) - 1
      BY <2>1 DEF WindowInv
    <3>3. Len(windows[tool]) \in Nat
      BY LenProperties DEF ConnectorTyped
    <3>4. CASE tool = call[t].tool
      <4>1. Admitting(tool)' \in SUBSET Threads /\ IsFiniteSet(Threads)
        BY SharedAssumption DEF Admitting
      <4>2. /\ Cardinality(Admitting(tool)') <= Cardinality(Threads)
            /\ IsFiniteSet(Admitting(tool)')
        BY <4>1, FS_Subset
      <4>3. Cardinality(Admitting(tool)') \in Nat /\ Cardinality(Threads) \in Nat
        BY <4>1, <4>2, FS_CardinalityType
      <4> QED BY <3>1, <3>3, <3>4, <4>2, <4>3, ConnectorAssumption
    <3>5. CASE tool # call[t].tool
      <4>1. Admitting(tool)' = Admitting(tool)
        BY <1>1, <3>2, <3>5 DEF Admitting, At
      <4> QED BY <4>1 DEF WindowInv
    <3> QED BY <3>4, <3>5
  <2> QED BY <2>2, <2>3
<1>10. CASE Admit(t)
  <2>1. /\ call'[t].stage = "lookup" /\ At(t, "admit")
        /\ windows' = [windows EXCEPT ![call[t].tool] = Append(@, call[t].at)]
    BY <1>5, <1>10 DEF Admit, Stages
  <2>2. call[t].at \in Nat /\ call[t].tool \in Declared
    BY <1>2, <1>3, <2>1 DEF At, CallRecord
  <2> SUFFICES ASSUME NEW tool \in Declared
               PROVE  Len(windows'[tool]) + Cardinality(Admitting(tool)')
                        <= RatePerMin + Cardinality(Threads) - 1
    BY DEF WindowInv
  <2>3. /\ Len(windows[tool]) \in Nat
        /\ Len(windows'[tool]) =
             IF tool = call[t].tool THEN Len(windows[tool]) + 1 ELSE Len(windows[tool])
    BY <2>1, <2>2, AppendProperties, LenProperties DEF ConnectorTyped
  <2>4. t \in Admitting(tool) <=> tool = call[t].tool
    BY <2>1 DEF Admitting
  <2>5. /\ Cardinality(Admitting(tool)') \in Nat
        /\ Cardinality(Admitting(tool)') =
             IF t \in Admitting(tool) THEN Cardinality(Admitting(tool)) - 1
             ELSE Cardinality(Admitting(tool))
    BY <1>1, <2>1, NotAdmitting
  <2>6. Cardinality(Admitting(tool)) \in Nat /\ Cardinality(Threads) \in Nat
    BY AdmittingBounded
  <2> QED BY <2>3, <2>4, <2>5, <2>6, ConnectorAssumption DEF WindowInv
<1>11. CASE \/ LookUp(t) \/ Invoke(t) \/ InvokeRaises(t) \/ LogCall(t) \/ LogRaises(t)
            \/ Store(t)
  <2>1. windows' = windows
    BY <1>11 DEF LookUp, Invoke, InvokeRaises, LogCall, LogRaises, Store
  <2>2. call'[t].stage # "admit"
    BY <1>11, LateStage
  <2> QED BY <1>4, <2>1, <2>2
<1> QED BY <1>6, <1>7, <1>8, <1>9, <1>10, <1>11 DEF CallStep

LEMMA WindowNext ==
  ASSUME Typed, CallInv, WindowInv, [Next]_vars
  PROVE  WindowInv'
<1>1. CASE UNCHANGED <<call, windows>>
  BY <1>1 DEF WindowInv, Admitting, At
<1>2. CASE UNCHANGED vars
  BY <1>1, <1>2 DEF vars, connectorVars
<1>3. CASE Environment
  BY <1>1, <1>3 DEF Environment, Tick, ChangeOutside, Flip, connectorVars
<1>4. ASSUME NEW t \in Threads, ThreadStep(t)
      PROVE  WindowInv'
  <2>1. CASE Begin(t)
    <3>1. CASE StartCall(t, Head(program[t]).tool, Head(program[t]).args,
                         Head(program[t]).principal)
      <4>1. /\ call'[t].stage # "admit" /\ windows' = windows
            /\ \A u \in Threads \ {t} : call'[u] = call[u]
        BY <3>1 DEF StartCall, NoCall, Typed, ConnectorTyped
      <4> QED BY <4>1, QuietWindow DEF Typed
    <3> QED BY <1>1, <2>1, <3>1 DEF Begin, connectorVars
  <2>2. CASE Progress(t)
    BY <1>1, <2>2, CallStepWindow DEF Progress, Typed, connectorVars
  <2>3. CASE EndCall(t)
    <3>1. /\ call'[t].stage # "admit" /\ windows' = windows
          /\ \A u \in Threads \ {t} : call'[u] = call[u]
      BY <2>3 DEF EndCall, NoCall, Typed, ConnectorTyped
    <3> QED BY <3>1, QuietWindow DEF Typed
  <2>4. CASE EndAsk(t)
    BY <1>1, <2>4 DEF EndAsk, connectorVars
  <2> QED BY <1>4, <2>1, <2>2, <2>3, <2>4 DEF ThreadStep
<1> QED BY <1>2, <1>3, <1>4 DEF Next

-----------------------------------------------------------------------------
(* A tool used by one thread has one user.                                  *)
LEMMA SoloUnique ==
  ASSUME ConnectorTyped, NEW tool \in Declared, Solo(tool),
         NEW t \in users[tool], NEW u \in users[tool]
  PROVE  t = u
<1> SUFFICES ASSUME t # u PROVE FALSE
  OBVIOUS
<1>1. users[tool] \in SUBSET Threads /\ IsFiniteSet(Threads)
  BY SharedAssumption DEF ConnectorTyped
<1>2. IsFiniteSet(users[tool])
  BY <1>1, FS_Subset
<1>3. {t} \cup {u} \in SUBSET users[tool]
  OBVIOUS
<1>4. Cardinality({t} \cup {u}) <= Cardinality(users[tool])
  BY <1>2, <1>3, FS_Subset
<1>5. IsFiniteSet({t}) /\ Cardinality({t}) = 1
  BY FS_Singleton
<1>6. Cardinality({t} \cup {u}) = 2
  <2>1. Cardinality({t} \cup {u}) =
          IF u \in {t} THEN Cardinality({t}) ELSE Cardinality({t}) + 1
    BY <1>5, FS_AddElement
  <2>2. u \notin {t}
    OBVIOUS
  <2> QED BY <1>5, <2>1, <2>2
<1>7. Cardinality(users[tool]) \in Nat
  BY <1>2, FS_CardinalityType
<1> QED BY <1>4, <1>6, <1>7 DEF Solo

(* Users only join.                                                         *)
LEMMA SoloBefore ==
  ASSUME ConnectorTyped, ConnectorTyped', NEW tool \in Declared, Solo(tool)',
         users[tool] \subseteq users'[tool]
  PROVE  Solo(tool)
<1>1. users[tool] \in SUBSET users'[tool] /\ users'[tool] \in SUBSET Threads
      /\ IsFiniteSet(Threads)
  BY SharedAssumption DEF ConnectorTyped
<1>2. IsFiniteSet(users'[tool])
  BY <1>1, FS_Subset
<1>3. IsFiniteSet(users[tool]) /\ Cardinality(users[tool]) <= Cardinality(users'[tool])
  BY <1>1, <1>2, FS_Subset
<1>4. Cardinality(users[tool]) \in Nat /\ Cardinality(users'[tool]) \in Nat
  BY <1>2, <1>3, FS_CardinalityType
<1> QED BY <1>3, <1>4 DEF Solo

LEMMA WindowTypes ==
  ASSUME ConnectorTyped, NEW tool \in Declared
  PROVE  /\ windows[tool] \in Seq(Nat) /\ admitted[tool] \in Seq(Nat)
         /\ Len(windows[tool]) \in Nat /\ Len(admitted[tool]) \in Nat
         /\ DOMAIN windows[tool] = 1..Len(windows[tool])
         /\ DOMAIN admitted[tool] = 1..Len(admitted[tool])
         /\ \A i \in DOMAIN windows[tool] : windows[tool][i] \in Nat
         /\ \A i \in DOMAIN admitted[tool] : admitted[tool][i] \in Nat
         /\ clock \in Nat /\ Minute \in Nat /\ RatePerMin \in Nat \ {0}
<1>1. windows[tool] \in Seq(Nat) /\ admitted[tool] \in Seq(Nat) /\ clock \in Nat
  BY DEF ConnectorTyped
<1> QED BY <1>1, LenProperties, ConnectorAssumption

LEMMA DroppedType ==
  ASSUME ConnectorTyped, NEW tool \in Declared
  PROVE  /\ Dropped(tool) \in Int /\ Dropped(tool) <= Len(admitted[tool])
         /\ Dropped(tool) + Len(windows[tool]) = Len(admitted[tool])
<1>1. Len(windows[tool]) \in Nat /\ Len(admitted[tool]) \in Nat
  BY WindowTypes
<1>2. \A m, n \in Nat : m - n \in Int /\ m - n <= m /\ (m - n) + n = m
  OBVIOUS
<1> QED BY <1>1, <1>2 DEF Dropped

(* A step that leaves the window of a tool.                                 *)
LEMMA SoloFrame ==
  ASSUME ConnectorTyped, ConnectorTyped', NEW tool \in Declared,
         Solo(tool)' => SoloTool(tool) /\ \A u \in Threads : SoloThread(u, tool),
         windows'[tool] = windows[tool], admitted'[tool] = admitted[tool],
         clock <= clock',
         \A u \in Threads :
           Solo(tool)' /\ InWindow(u, tool)' => call'[u] = call[u] \/ SoloThread(u, tool)'
  PROVE  Solo(tool)' => SoloTool(tool)' /\ \A u \in Threads : SoloThread(u, tool)'
<1> SUFFICES ASSUME Solo(tool)'
             PROVE  SoloTool(tool)' /\ \A u \in Threads : SoloThread(u, tool)'
  OBVIOUS
<1>1. SoloTool(tool) /\ \A u \in Threads : SoloThread(u, tool)
  OBVIOUS
<1>2. clock \in Nat /\ clock' \in Nat
  BY DEF ConnectorTyped
<1>3. /\ DOMAIN admitted[tool] = 1..Len(admitted[tool]) /\ Len(admitted[tool]) \in Nat
      /\ Len(windows[tool]) \in Nat /\ Minute \in Nat
      /\ \A i \in DOMAIN admitted[tool] : admitted[tool][i] \in Nat
  BY WindowTypes
<1>4. Dropped(tool)' = Dropped(tool) /\ Dropped(tool) \in Int
      /\ Dropped(tool) <= Len(admitted[tool])
  <2>1. Dropped(tool)' = Dropped(tool)
    BY DEF Dropped
  <2> QED BY <2>1, DroppedType
<1>5. SoloTool(tool)'
  <2>1. \A i \in 1..Dropped(tool) : admitted[tool][i] + Minute < clock'
    <3> SUFFICES ASSUME NEW i \in 1..Dropped(tool)
                 PROVE  admitted[tool][i] + Minute < clock'
      OBVIOUS
    <3>1. admitted[tool][i] + Minute < clock
      BY <1>1 DEF SoloTool
    <3>2. i \in DOMAIN admitted[tool]
      BY <1>3, <1>4
    <3>3. admitted[tool][i] \in Nat
      BY <1>3, <3>2
    <3> QED BY <1>2, <1>3, <3>1, <3>3
  <2>2. \A i \in DOMAIN admitted[tool] : admitted[tool][i] <= clock'
    BY <1>1, <1>2, <1>3 DEF SoloTool
  <2> QED BY <1>1, <1>4, <2>1, <2>2 DEF SoloTool
<1>6. ASSUME NEW u \in Threads, InWindow(u, tool)', call'[u] = call[u]
      PROVE  SoloThread(u, tool)'
  <2>1. call'[u] = call[u] /\ InWindow(u, tool)
    BY <1>6 DEF InWindow
  <2>2. call[u].tool = tool /\ call[u].at \in Nat
    BY <2>1 DEF InWindow, ConnectorTyped, CallRecord
  <2>3. SoloThread(u, tool)
    BY <1>1
  <2>4. call[u].at <= clock'
    BY <1>2, <2>1, <2>2, <2>3 DEF SoloThread
  <2>5. HeadExpired(u)' <=> HeadExpired(u)
    BY <2>1, <2>2 DEF HeadExpired
  <2> QED BY <1>4, <2>1, <2>3, <2>4, <2>5 DEF SoloThread, At
<1>7. \A u \in Threads : SoloThread(u, tool)'
  BY <1>6 DEF SoloThread
<1> QED BY <1>5, <1>7

(* The head of a window that has expired is dropped.                        *)
LEMMA DropSolo ==
  ASSUME ConnectorTyped, ConnectorTyped', CallInv, UserInv, SoloInv,
         NEW t \in Threads, DropHead(t), NEW tool \in Declared, call[t].tool = tool,
         Solo(tool)
  PROVE  SoloTool(tool)' /\ \A u \in Threads : SoloThread(u, tool)'
<1>1. At(t, "drop") /\ tool \in Declared /\ InWindow(t, tool)
  BY DEF DropHead, CallInv, At, InWindow
<1>2. SoloTool(tool) /\ SoloThread(t, tool)
  BY <1>1 DEF SoloInv
<1>3. HeadExpired(t)
  BY <1>1, <1>2 DEF SoloThread
<1>4. windows[tool] # <<>> /\ Head(windows[tool]) + Minute < call[t].at
  BY <1>3 DEF HeadExpired
<1>5. /\ windows' = [windows EXCEPT ![tool] = Tail(@)]
      /\ call' = [call EXCEPT ![t].stage = "expire"]
      /\ UNCHANGED <<clock, admitted, users>>
  BY <1>4 DEF DropHead, Goto
<1>6. call[t] \in CallRecord /\ call \in [Threads -> CallRecord]
  BY DEF ConnectorTyped
<1>7. /\ call'[t].tool = tool /\ call'[t].at = call[t].at /\ call'[t].stage = "expire"
      /\ \A u \in Threads \ {t} : call'[u] = call[u]
  BY <1>5, <1>6 DEF CallRecord
<1>8. /\ windows[tool] \in Seq(Nat) /\ admitted[tool] \in Seq(Nat)
      /\ Len(windows[tool]) \in Nat /\ Len(admitted[tool]) \in Nat
      /\ DOMAIN windows[tool] = 1..Len(windows[tool])
      /\ DOMAIN admitted[tool] = 1..Len(admitted[tool])
      /\ clock \in Nat /\ Minute \in Nat
  BY <1>1, WindowTypes
<1>9. call[t].at \in Nat /\ tool \in Declared
  BY <1>1, <1>6 DEF CallRecord
<1>10. /\ Head(windows[tool]) = windows[tool][1] /\ Len(windows[tool]) >= 1
       /\ windows'[tool] = Tail(windows[tool])
       /\ Len(windows'[tool]) = Len(windows[tool]) - 1
       /\ \A i \in 1..Len(windows'[tool]) : windows'[tool][i] = windows[tool][i + 1]
       /\ DOMAIN windows'[tool] = 1..Len(windows'[tool])
  <2>1. windows'[tool] = Tail(windows[tool])
    BY <1>1, <1>5 DEF ConnectorTyped
  <2>2. Len(windows[tool]) # 0
    BY <1>4, <1>8, EmptySeq
  <2> QED BY <1>4, <1>8, <2>1, <2>2, HeadTailProperties, LenProperties
<1>11. Dropped(tool) \in Int /\ Dropped(tool)' = Dropped(tool) + 1
       /\ Dropped(tool) + Len(windows[tool]) = Len(admitted[tool])
  <2>1. Dropped(tool) \in Int /\ Dropped(tool) + Len(windows[tool]) = Len(admitted[tool])
    BY <1>9, DroppedType
  <2>2. Dropped(tool)' = Len(admitted[tool]) - (Len(windows[tool]) - 1)
    BY <1>5, <1>10 DEF Dropped
  <2>3. \A m, n \in Nat, k \in Int : k + n = m => m - (n - 1) = k + 1
    OBVIOUS
  <2>4. Len(windows[tool]) \in Nat /\ Len(admitted[tool]) \in Nat
    BY <1>8
  <2>5. Len(admitted[tool]) - (Len(windows[tool]) - 1) = Dropped(tool) + 1
    BY <2>1, <2>3, <2>4
  <2> QED BY <2>1, <2>2, <2>5
<1>12. Dropped(tool) >= 0
  BY <1>2 DEF SoloTool
<1>13. admitted[tool][Dropped(tool) + 1] = windows[tool][1]
  <2>1. 1 \in DOMAIN windows[tool]
    BY <1>8, <1>10
  <2> QED BY <1>2, <2>1 DEF SoloTool
<1>14. \A i \in 1..(Dropped(tool) + 1) : admitted[tool][i] + Minute < call[t].at
  <2> SUFFICES ASSUME NEW i \in 1..(Dropped(tool) + 1)
               PROVE  admitted[tool][i] + Minute < call[t].at
    OBVIOUS
  <2>1. CASE i \in 1..Dropped(tool)
    BY <1>1, <1>2, <2>1 DEF SoloThread
  <2>2. CASE i = Dropped(tool) + 1
    BY <1>4, <1>10, <1>13, <2>2
  <2>3. i \in 1..Dropped(tool) \/ i = Dropped(tool) + 1
    BY <1>11, <1>12
  <2> QED BY <2>1, <2>2, <2>3
<1>15. call[t].at <= clock
  BY <1>1, <1>2 DEF SoloThread
<1>16. \A i \in 1..(Dropped(tool) + 1) : admitted[tool][i] \in Nat
  <2>1. Dropped(tool) + 1 <= Len(admitted[tool])
    BY <1>8, <1>10, <1>11
  <2>2. ASSUME NEW i \in 1..(Dropped(tool) + 1) PROVE i \in 1..Len(admitted[tool])
    BY <1>8, <1>11, <2>1
  <2> QED BY <1>8, <2>2
<1>17. SoloTool(tool)'
  <2>1. ASSUME NEW i \in DOMAIN windows'[tool]
        PROVE  windows'[tool][i] = admitted'[tool][Dropped(tool)' + i]
    <3>1. i + 1 \in DOMAIN windows[tool] /\ windows'[tool][i] = windows[tool][i + 1]
      BY <1>8, <1>10
    <3>2. windows[tool][i + 1] = admitted[tool][Dropped(tool) + (i + 1)]
      BY <1>2, <3>1 DEF SoloTool
    <3>3. Dropped(tool) + (i + 1) = Dropped(tool)' + i
      <4>1. i \in Nat
        BY <1>10
      <4> QED BY <1>11, <4>1
    <3> QED BY <1>5, <3>1, <3>2, <3>3
  <2>2. \A i \in 1..Dropped(tool)' : admitted'[tool][i] + Minute < clock'
    <3>1. ASSUME NEW i \in 1..(Dropped(tool) + 1)
          PROVE  admitted[tool][i] + Minute < clock
      <4>1. /\ admitted[tool][i] \in Nat /\ admitted[tool][i] + Minute < call[t].at
            /\ Minute \in Nat /\ clock \in Nat /\ call[t].at \in Nat
        BY <1>8, <1>9, <1>14, <1>16
      <4> QED BY <1>15, <4>1
    <3> QED BY <1>5, <1>11, <3>1
  <2>3. Dropped(tool)' >= 0
    BY <1>11, <1>12
  <2> QED BY <1>2, <1>5, <2>1, <2>2, <2>3 DEF SoloTool
<1>18. ASSUME NEW u \in Threads, InWindow(u, tool)'
       PROVE  u = t
  <2>1. InWindow(u, tool)
    BY <1>1, <1>7, <1>18 DEF InWindow
  <2>2. u \in users[tool] /\ t \in users[tool]
    BY <1>1, <1>9, <2>1 DEF UserInv
  <2> QED BY <1>9, <2>2, SoloUnique
<1>19. SoloThread(t, tool)'
  <2>1. \A i \in DOMAIN admitted[tool] : admitted[tool][i] <= call[t].at
    BY <1>1, <1>2 DEF SoloThread
  <2>2. Dropped(tool)' = Dropped(tool) + 1
    BY <1>11
  <2> QED BY <1>5, <1>7, <1>14, <1>15, <2>1, <2>2 DEF SoloThread, At
<1>20. \A u \in Threads : SoloThread(u, tool)'
  BY <1>18, <1>19 DEF SoloThread
<1> QED BY <1>17, <1>20
(* What is admitted comes after what was dropped by more than a minute, and  *)
(* the window it joins held fewer than the limit.                          *)
LEMMA AdmitSolo ==
  ASSUME ConnectorTyped, ConnectorTyped', CallInv, UserInv, SoloInv,
         NEW t \in Threads, Admit(t), NEW tool \in Declared, call[t].tool = tool,
         Solo(tool)
  PROVE  SoloTool(tool)' /\ \A u \in Threads : SoloThread(u, tool)'
<1>1. At(t, "admit") /\ InWindow(t, tool)
  BY DEF Admit, At, InWindow
<1>2. SoloTool(tool) /\ SoloThread(t, tool)
  BY <1>1 DEF SoloInv
<1>3. call[t] \in CallRecord /\ call \in [Threads -> CallRecord]
  BY DEF ConnectorTyped
<1> DEFINE at == call[t].at
<1>4. at \in Nat
  BY <1>3 DEF CallRecord
<1>5. /\ windows' = [windows EXCEPT ![tool] = Append(@, at)]
      /\ admitted' = [admitted EXCEPT ![tool] = Append(@, at)]
      /\ call' = [call EXCEPT ![t].stage = "lookup"]
      /\ UNCHANGED <<clock, users>>
  BY DEF Admit, Goto
<1>6. /\ call'[t].stage = "lookup"
      /\ \A u \in Threads \ {t} : call'[u] = call[u]
  BY <1>3, <1>5 DEF CallRecord
<1> DEFINE n == Len(admitted[tool])
<1> DEFINE w == Len(windows[tool])
<1>7. /\ windows[tool] \in Seq(Nat) /\ admitted[tool] \in Seq(Nat)
      /\ w \in Nat /\ n \in Nat
      /\ DOMAIN windows[tool] = 1..w /\ DOMAIN admitted[tool] = 1..n
      /\ \A i \in 1..n : admitted[tool][i] \in Nat
      /\ clock \in Nat /\ Minute \in Nat /\ RatePerMin \in Nat \ {0}
  BY WindowTypes
<1>8. /\ w < RatePerMin
      /\ at <= clock
      /\ \A i \in 1..n : admitted[tool][i] <= at
      /\ \A i \in 1..Dropped(tool) : admitted[tool][i] + Minute < at
  BY <1>1, <1>2, <1>7 DEF SoloThread
<1>9. /\ Dropped(tool) \in Int /\ Dropped(tool) + w = n /\ Dropped(tool) >= 0
  BY <1>2, DroppedType DEF SoloTool
<1>10. /\ DOMAIN windows'[tool] = 1..(w + 1) /\ Len(windows'[tool]) = w + 1
       /\ DOMAIN admitted'[tool] = 1..(n + 1) /\ Len(admitted'[tool]) = n + 1
       /\ \A i \in 1..w : windows'[tool][i] = windows[tool][i]
       /\ \A i \in 1..n : admitted'[tool][i] = admitted[tool][i]
       /\ windows'[tool][w + 1] = at /\ admitted'[tool][n + 1] = at
  <2>1. /\ windows'[tool] = Append(windows[tool], at)
        /\ admitted'[tool] = Append(admitted[tool], at)
    BY <1>5 DEF ConnectorTyped
  <2> QED BY <1>4, <1>7, <2>1, AppendProperties, LenProperties
<1> HIDE DEF at, n, w
<1>11. Dropped(tool)' = Dropped(tool)
  <2>1. Dropped(tool)' = (n + 1) - (w + 1)
    BY <1>10 DEF Dropped
  <2> QED BY <1>7, <1>9, <2>1
<1>12. ASSUME NEW i \in 1..n, i + RatePerMin <= n + 1
       PROVE  admitted[tool][i] + Minute < at
  <2>1. i \in 1..Dropped(tool)
    BY <1>7, <1>8, <1>9, <1>12
  <2> QED BY <1>8, <2>1
<1>13. SoloTool(tool)'
  <2>1. ASSUME NEW i \in DOMAIN windows'[tool]
        PROVE  windows'[tool][i] = admitted'[tool][Dropped(tool) + i]
    <3>1. CASE i \in 1..w
      <4>1. windows[tool][i] = admitted[tool][Dropped(tool) + i]
        BY <1>2, <1>7, <3>1 DEF SoloTool
      <4>2. Dropped(tool) + i \in 1..n
        BY <1>7, <1>9, <3>1
      <4> QED BY <1>10, <3>1, <4>1, <4>2
    <3>2. CASE i = w + 1
      <4>1. Dropped(tool) + i = n + 1
        BY <1>7, <1>9, <3>2
      <4> QED BY <1>10, <3>2, <4>1
    <3>3. i \in 1..w \/ i = w + 1
      BY <1>7, <1>10
    <3> QED BY <3>1, <3>2, <3>3
  <2>2. ASSUME NEW i \in 1..Dropped(tool)
        PROVE  admitted'[tool][i] + Minute < clock'
    <3>1. i \in 1..n
      BY <1>7, <1>9
    <3>2. admitted[tool][i] + Minute < clock
      BY <1>2 DEF SoloTool
    <3> QED BY <1>5, <1>10, <3>1, <3>2
  <2>3. ASSUME NEW i \in DOMAIN admitted'[tool]
        PROVE  /\ i = n + 1 => admitted'[tool][i] = at
               /\ i # n + 1 => i \in 1..n /\ admitted'[tool][i] = admitted[tool][i]
               /\ admitted'[tool][i] \in Nat /\ admitted'[tool][i] <= at
    <3>1. CASE i = n + 1
      BY <1>4, <1>10, <3>1 DEF at
    <3>2. CASE i # n + 1
      <4>1. i \in 1..n
        BY <1>7, <1>10, <3>2
      <4> QED BY <1>7, <1>8, <1>10, <3>2, <4>1
    <3> QED BY <3>1, <3>2
  <2>4. ASSUME NEW i \in DOMAIN admitted'[tool]
        PROVE  admitted'[tool][i] <= clock'
    <3>1. at \in Nat /\ clock \in Nat /\ at <= clock /\ clock' = clock
      BY <1>4, <1>5, <1>7, <1>8 DEF at
    <3> QED BY <2>3, <3>1
  <2>5. ASSUME NEW i \in DOMAIN admitted'[tool], NEW j \in DOMAIN admitted'[tool]
        PROVE  /\ i <= j => admitted'[tool][i] <= admitted'[tool][j]
               /\ i + RatePerMin <= j => admitted'[tool][i] + Minute < admitted'[tool][j]
    <3>1. i \in Nat /\ j \in Nat /\ i <= n + 1 /\ j <= n + 1
      BY <1>7, <1>10
    <3>2. CASE j = n + 1
      <4>1. admitted'[tool][j] = at /\ admitted'[tool][i] <= at
        BY <2>3, <3>2
      <4>2. i + RatePerMin <= j => i \in 1..n
        BY <1>7, <1>10, <3>1, <3>2
      <4>3. i + RatePerMin <= j => admitted'[tool][i] + Minute < at
        BY <1>10, <1>12, <3>2, <4>2
      <4> QED BY <4>1, <4>3
    <3>3. CASE j # n + 1 /\ i # n + 1
      BY <1>2, <1>7, <2>3, <3>3 DEF SoloTool
    <3>4. CASE j # n + 1 /\ i = n + 1
      BY <1>7, <3>1, <3>4
    <3> QED BY <3>2, <3>3, <3>4
  <2>6. Dropped(tool)' >= 0
    BY <1>9, <1>11
  <2> QED BY <1>11, <2>1, <2>2, <2>4, <2>5, <2>6 DEF SoloTool
<1>14. ASSUME NEW u \in Threads, InWindow(u, tool)'
       PROVE  FALSE
  <2>1. u # t
    BY <1>6, <1>14 DEF InWindow
  <2>2. InWindow(u, tool)
    BY <1>6, <1>14, <2>1 DEF InWindow
  <2>3. u \in users[tool] /\ t \in users[tool]
    BY <1>1, <2>2 DEF UserInv
  <2> QED BY <2>1, <2>3, SoloUnique
<1> QED BY <1>13, <1>14 DEF SoloThread

(* The call of a thread that tests the window: what its stage says of it.     *)
LEMMA TestSolo ==
  ASSUME ConnectorTyped, ConnectorTyped', CallInv, UserInv, SoloInv,
         NEW t \in Threads, ReadClock(t) \/ TestHead(t) \/ TestLimit(t),
         NEW tool \in Declared, call[t].tool = tool, Solo(tool)
  PROVE  SoloThread(t, tool)'
<1>1. call[t] \in CallRecord /\ call \in [Threads -> CallRecord]
  BY DEF ConnectorTyped
<1>2. /\ UNCHANGED <<clock, windows, admitted>>
      /\ Dropped(tool)' = Dropped(tool)
  BY DEF ReadClock, TestHead, TestLimit, Dropped
<1>3. SoloTool(tool)
  BY DEF SoloInv
<1>4. CASE ReadClock(t)
  <2>1. call'[t].at = clock /\ call'[t].stage = "expire"
    BY <1>1, <1>4 DEF ReadClock, CallRecord
  <2>2. clock \in Nat
    BY DEF ConnectorTyped
  <2> QED BY <1>2, <1>3, <2>1, <2>2 DEF SoloTool, SoloThread, At
<1>5. CASE TestHead(t)
  <2>1. InWindow(t, tool)
    BY <1>5 DEF TestHead, At, InWindow
  <2>2. SoloThread(t, tool)
    BY DEF SoloInv
  <2>3. /\ call'[t].at = call[t].at /\ call'[t].tool = tool
        /\ call'[t].stage = IF HeadExpired(t) THEN "drop" ELSE "limit"
    BY <1>1, <1>5 DEF TestHead, Goto, CallRecord
  <2>4. HeadExpired(t)' <=> HeadExpired(t)
    BY <1>2, <2>3 DEF HeadExpired
  <2> QED BY <1>2, <2>1, <2>2, <2>3, <2>4 DEF SoloThread, At
<1>6. CASE TestLimit(t)
  <2>1. InWindow(t, tool)
    BY <1>6 DEF TestLimit, At, InWindow
  <2>2. SoloThread(t, tool)
    BY DEF SoloInv
  <2>3. /\ call'[t].at = call[t].at
        /\ call'[t].stage = IF Len(windows[tool]) >= RatePerMin THEN "raised" ELSE "admit"
    BY <1>1, <1>6 DEF TestLimit, Goto, CallRecord
  <2>4. Len(windows[tool]) \in Nat /\ RatePerMin \in Nat
    BY WindowTypes
  <2>5. (At(t, "admit") => Len(windows[tool]) < RatePerMin)' /\ (~At(t, "drop"))'
    BY <1>2, <2>3, <2>4 DEF At
  <2> QED BY <1>2, <2>1, <2>2, <2>3, <2>5 DEF SoloThread
<1> QED BY <1>4, <1>5, <1>6

LEMMA CallStepUsers ==
  ASSUME ConnectorTyped, CallInv, UserInv, NEW t \in Threads, CallStep(t)
  PROVE  UserInv' /\ \A tool \in Declared : users[tool] \subseteq users'[tool]
<1>1. call[t] \in CallRecord /\ call \in [Threads -> CallRecord]
  BY DEF ConnectorTyped
<1>2. /\ \A u \in Threads \ {t} : call'[u] = call[u]
      /\ call'[t].tool = call[t].tool
  BY CallStepFrame
<1>3. ASSUME \A tool \in Declared : users[tool] \subseteq users'[tool],
             \A tool \in Declared : InWindow(t, tool)' => t \in users'[tool]
      PROVE  UserInv'
  <2> SUFFICES ASSUME NEW u \in Threads, NEW tool \in Declared, InWindow(u, tool)'
               PROVE  u \in users'[tool]
    BY DEF UserInv
  <2>1. CASE u = t
    BY <1>3, <2>1
  <2>2. CASE u # t
    <3>1. InWindow(u, tool)
      BY <1>2, <2>2 DEF InWindow
    <3> QED BY <1>3, <3>1 DEF UserInv
  <2> QED BY <2>1, <2>2
<1>4. CASE ReadClock(t)
  <2>1. users' = [users EXCEPT ![call[t].tool] = @ \cup {t}]
    BY <1>4 DEF ReadClock
  <2>2. \A tool \in Declared : users[tool] \subseteq users'[tool]
    BY <2>1 DEF ConnectorTyped
  <2>3. \A tool \in Declared : InWindow(t, tool)' => t \in users'[tool]
    BY <1>2, <2>1 DEF ConnectorTyped, InWindow
  <2> QED BY <1>3, <2>2, <2>3
<1>5. CASE users' = users /\ \A tool \in Declared : InWindow(t, tool)' => InWindow(t, tool)
  BY <1>3, <1>5 DEF UserInv
<1>6. ASSUME NEW s \in Stages, Goto(t, s)
      PROVE  call'[t].stage = s
  BY <1>1, <1>6 DEF Goto, CallRecord
<1>7. CASE TestHead(t) \/ DropHead(t) \/ TestLimit(t)
  <2>1. users' = users
    BY <1>7 DEF TestHead, DropHead, TestLimit
  <2>2. \A tool \in Declared : InWindow(t, tool)' => InWindow(t, tool)
    BY <1>2, <1>7 DEF TestHead, DropHead, TestLimit, At, InWindow
  <2> QED BY <1>5, <2>1, <2>2
<1>8. CASE Admit(t)
  <2>1. users' = users /\ call'[t].stage = "lookup"
    BY <1>6, <1>8 DEF Admit, Stages
  <2> QED BY <1>5, <2>1 DEF InWindow
<1>9. CASE \/ LookUp(t) \/ Invoke(t) \/ InvokeRaises(t) \/ LogCall(t) \/ LogRaises(t)
           \/ Store(t)
  <2>1. users' = users
    BY <1>9 DEF LookUp, Invoke, InvokeRaises, LogCall, LogRaises, Store
  <2>2. call'[t].stage \in {"invoke", "log", "raised", "store", "returned"}
    BY <1>9, LateStage
  <2> QED BY <1>5, <2>1, <2>2 DEF InWindow
<1> QED BY <1>4, <1>7, <1>8, <1>9 DEF CallStep

LEMMA CallStepSolo ==
  ASSUME ConnectorTyped, ConnectorTyped', CallInv, UserInv, SoloInv,
         NEW t \in Threads, CallStep(t)
  PROVE  SoloInv'
<1> SUFFICES ASSUME NEW tool \in Declared, Solo(tool)'
             PROVE  SoloTool(tool)' /\ \A u \in Threads : SoloThread(u, tool)'
  BY DEF SoloInv
<1>1. Solo(tool)
  BY CallStepUsers, SoloBefore
<1>2. SoloTool(tool) /\ \A u \in Threads : SoloThread(u, tool)
  BY <1>1 DEF SoloInv
<1>3. /\ \A u \in Threads \ {t} : call'[u] = call[u]
      /\ call'[t].tool = call[t].tool
  BY CallStepFrame
<1>4. clock' = clock /\ clock \in Nat
  BY DEF CallStep, ReadClock, TestHead, DropHead, TestLimit, Admit, LookUp, Invoke,
         InvokeRaises, LogCall, LogRaises, Store, ConnectorTyped
<1>5. CASE DropHead(t) /\ call[t].tool = tool
  BY <1>1, <1>5, DropSolo
<1>6. CASE Admit(t) /\ call[t].tool = tool
  BY <1>1, <1>6, AdmitSolo
<1>7. CASE (ReadClock(t) \/ TestHead(t) \/ TestLimit(t)) /\ call[t].tool = tool
  <2>1. SoloThread(t, tool)'
    BY <1>1, <1>7, TestSolo
  <2>2. windows' = windows /\ admitted' = admitted
    BY <1>7 DEF ReadClock, TestHead, TestLimit
  <2> QED BY <1>2, <1>3, <1>4, <2>1, <2>2, SoloFrame
<1>8. CASE call[t].tool # tool
  <2>1. windows'[tool] = windows[tool] /\ admitted'[tool] = admitted[tool]
    BY <1>8 DEF CallStep, ReadClock, TestHead, DropHead, TestLimit, Admit, LookUp, Invoke,
                InvokeRaises, LogCall, LogRaises, Store, ConnectorTyped
  <2>2. \A u \in Threads : InWindow(u, tool)' => call'[u] = call[u]
    BY <1>3, <1>8 DEF InWindow
  <2> QED BY <1>2, <1>4, <2>1, <2>2, SoloFrame
<1>9. CASE /\ LookUp(t) \/ Invoke(t) \/ InvokeRaises(t) \/ LogCall(t) \/ LogRaises(t)
              \/ Store(t)
           /\ call[t].tool = tool
  <2>1. windows' = windows /\ admitted' = admitted
    BY <1>9 DEF LookUp, Invoke, InvokeRaises, LogCall, LogRaises, Store
  <2>2. call'[t].stage \in {"invoke", "log", "raised", "store", "returned"}
    BY <1>9, LateStage
  <2>3. \A u \in Threads : InWindow(u, tool)' => call'[u] = call[u]
    BY <1>3, <2>2 DEF InWindow
  <2> QED BY <1>2, <1>4, <2>1, <2>3, SoloFrame
<1> QED BY <1>5, <1>6, <1>7, <1>8, <1>9 DEF CallStep

LEMMA InitSolo == Init => UserInv /\ SoloInv
<1> SUFFICES ASSUME Init PROVE UserInv /\ SoloInv
  OBVIOUS
<1>1. \A t \in Threads : ~InWindow(t, "none") /\ call[t].stage = "idle"
  BY DEF Init, ConnectorInit, NoCall, InWindow
<1>2. \A t \in Threads, tool \in Declared : ~InWindow(t, tool)
  BY <1>1 DEF InWindow
<1>3. ASSUME NEW tool \in Declared
      PROVE  SoloTool(tool)
  <2>1. windows[tool] = <<>> /\ admitted[tool] = <<>>
    BY DEF Init, ConnectorInit
  <2>2. Len(windows[tool]) = 0 /\ Len(admitted[tool]) = 0 /\ DOMAIN windows[tool] = {}
        /\ DOMAIN admitted[tool] = {}
    BY <2>1
  <2>3. Dropped(tool) = 0
    BY <2>2 DEF Dropped
  <2> QED BY <2>2, <2>3 DEF SoloTool
<1> QED BY <1>2, <1>3 DEF UserInv, SoloInv, SoloThread

LEMMA SoloNext ==
  ASSUME Typed, CallInv, UserInv, SoloInv, [Next]_vars
  PROVE  UserInv' /\ SoloInv'
<1>1. ConnectorTyped /\ ConnectorTyped'
  BY TypedNext DEF Typed
<1>2. ASSUME UNCHANGED <<windows, admitted, users>>, clock <= clock',
             \A u \in Threads, tool \in Declared : InWindow(u, tool)' => call'[u] = call[u]
      PROVE  UserInv' /\ SoloInv'
  <2>1. UserInv'
    BY <1>2 DEF UserInv, InWindow
  <2> SUFFICES ASSUME NEW tool \in Declared, Solo(tool)'
               PROVE  SoloTool(tool)' /\ \A u \in Threads : SoloThread(u, tool)'
    BY <2>1 DEF SoloInv
  <2>2. Solo(tool)
    BY <1>2 DEF Solo
  <2>3. SoloTool(tool) /\ \A u \in Threads : SoloThread(u, tool)
    BY <2>2 DEF SoloInv
  <2> QED BY <1>1, <1>2, <2>3, SoloFrame
<1>3. clock \in Nat
  BY <1>1 DEF ConnectorTyped
<1>4. CASE UNCHANGED <<windows, admitted, users, clock, call>>
  BY <1>2, <1>3, <1>4
<1>5. CASE UNCHANGED vars
  BY <1>4, <1>5 DEF vars, connectorVars
<1>6. CASE Environment
  <2>1. CASE Tick
    BY <1>2, <1>3, <2>1 DEF Tick
  <2> QED BY <1>4, <1>6, <2>1 DEF Environment, ChangeOutside, Flip, connectorVars
<1>7. ASSUME NEW t \in Threads, ThreadStep(t)
      PROVE  UserInv' /\ SoloInv'
  <2>1. CASE Begin(t)
    <3>1. CASE StartCall(t, Head(program[t]).tool, Head(program[t]).args,
                         Head(program[t]).principal)
      <4>1. /\ call'[t].stage \in {"raised", "clock"}
            /\ \A u \in Threads \ {t} : call'[u] = call[u]
            /\ UNCHANGED <<windows, admitted, users, clock>>
        BY <1>1, <3>1 DEF StartCall, NoCall, ConnectorTyped
      <4>2. \A u \in Threads, tool \in Declared : InWindow(u, tool)' => call'[u] = call[u]
        BY <4>1 DEF InWindow
      <4> QED BY <1>2, <1>3, <4>1, <4>2
    <3> QED BY <1>4, <2>1, <3>1 DEF Begin, connectorVars
  <2>2. CASE Progress(t)
    <3>1. CASE CallStep(t)
      BY <1>1, <3>1, CallStepUsers, CallStepSolo
    <3> QED BY <1>4, <2>2, <3>1 DEF Progress, connectorVars
  <2>3. CASE EndCall(t)
    <3>1. /\ call'[t].stage = "idle"
          /\ \A u \in Threads \ {t} : call'[u] = call[u]
          /\ UNCHANGED <<windows, admitted, users, clock>>
      BY <1>1, <2>3 DEF EndCall, NoCall, ConnectorTyped
    <3>2. \A u \in Threads, tool \in Declared : InWindow(u, tool)' => call'[u] = call[u]
      BY <3>1 DEF InWindow
    <3> QED BY <1>2, <1>3, <3>1, <3>2
  <2>4. CASE EndAsk(t)
    BY <1>4, <2>4 DEF EndAsk, connectorVars
  <2> QED BY <1>7, <2>1, <2>2, <2>3, <2>4 DEF ThreadStep
<1> QED BY <1>5, <1>6, <1>7 DEF Next
-----------------------------------------------------------------------------
(* Two numbers of one residue are at least the modulus apart.                *)
LEMMA SameResidue ==
  ASSUME NEW m \in Nat \ {0}, NEW x \in Nat, NEW y \in Nat, x < y, x % m = y % m
  PROVE  x + m <= y
<1>1. \A z \in Nat : z = m * (z \div m) + (z % m) /\ z \div m \in Nat /\ z % m \in 0..(m - 1)
  OBVIOUS
<1>2. PICK a \in Nat : a = x \div m
  BY <1>1
<1>3. PICK b \in Nat : b = y \div m
  BY <1>1
<1>4. x = m * a + (x % m) /\ y = m * b + (y % m) /\ x % m \in Nat
  BY <1>1, <1>2, <1>3
<1>5. m * a \in Nat /\ m * b \in Nat /\ y - x = m * b - m * a
  BY <1>4
<1>6. m * b - m * a = m * (b - a) /\ b - a \in Int
  OBVIOUS
<1>7. \A c \in Int : c <= 0 => m * c <= 0
  OBVIOUS
<1>8. b - a > 0
  BY <1>5, <1>6, <1>7
<1>9. \A c \in Nat \ {0} : m * c >= m
  OBVIOUS
<1>10. m * (b - a) >= m
  BY <1>6, <1>8, <1>9
<1> QED BY <1>5, <1>6, <1>10

(* Admissions that are more than a minute apart after every RatePerMin-th:   *)
(* no minute holds more than that many.                                    *)
LEMMA FewPerMinute ==
  ASSUME ConnectorTyped, NEW tool \in Declared, SoloTool(tool), NEW from \in Nat
  PROVE  Cardinality({i \in DOMAIN admitted[tool] :
                        admitted[tool][i] \in from..(from + Minute)}) <= RatePerMin
<1> DEFINE here == {i \in DOMAIN admitted[tool] :
                      admitted[tool][i] \in from..(from + Minute)}
<1> DEFINE rest == 0..(RatePerMin - 1)
<1>1. /\ DOMAIN admitted[tool] = 1..Len(admitted[tool]) /\ Len(admitted[tool]) \in Nat
      /\ \A i \in DOMAIN admitted[tool] : admitted[tool][i] \in Nat
      /\ Minute \in Nat /\ RatePerMin \in Nat \ {0}
  BY WindowTypes
<1>2. here \in SUBSET (1..Len(admitted[tool])) /\ IsFiniteSet(1..Len(admitted[tool]))
  BY <1>1, FS_Interval
<1>3. IsFiniteSet(here)
  BY <1>2, FS_Subset
<1>4. Cardinality(here) \in Nat
  BY <1>3, FS_CardinalityType
<1>5. IsFiniteSet(rest) /\ Cardinality(rest) = RatePerMin
  <2>1. /\ IsFiniteSet(0..(RatePerMin - 1))
        /\ Cardinality(0..(RatePerMin - 1)) =
             IF 0 > RatePerMin - 1 THEN 0 ELSE (RatePerMin - 1) - 0 + 1
    BY <1>1, FS_Interval
  <2> QED BY <1>1, <2>1
<1>6. ASSUME NEW x \in here, NEW y \in here, x < y, x % RatePerMin = y % RatePerMin
      PROVE  FALSE
  <2>1. x \in Nat /\ y \in Nat /\ x \in DOMAIN admitted[tool] /\ y \in DOMAIN admitted[tool]
    BY <1>1
  <2>2. x + RatePerMin <= y
    BY <1>1, <1>6, <2>1, SameResidue
  <2>3. admitted[tool][x] + Minute < admitted[tool][y]
    BY <2>1, <2>2 DEF SoloTool
  <2>4. /\ admitted[tool][x] >= from /\ admitted[tool][y] <= from + Minute
        /\ admitted[tool][x] \in Nat /\ admitted[tool][y] \in Nat
    BY <1>1
  <2> QED BY <1>1, <2>3, <2>4
<1>7. \A i \in here : i \in Nat /\ i % RatePerMin \in rest
  <2>1. \A i \in here : i \in Nat
    BY <1>1
  <2>2. \A i \in Nat : i % RatePerMin \in 0..(RatePerMin - 1)
    BY <1>1
  <2> QED BY <2>1, <2>2
<1> HIDE DEF here, rest
<1>8. ASSUME RatePerMin < Cardinality(here)
      PROVE  FALSE
  <2> DEFINE f == [i \in here |-> i % RatePerMin]
  <2>1. f \in [here -> rest]
    BY <1>7
  <2>2. \E x, y \in here : x # y /\ f[x] = f[y]
    <3> HIDE DEF f
    <3> QED BY <1>3, <1>5, <1>8, <2>1, FS_PigeonHole
  <2>3. PICK x \in here, y \in here : x # y /\ x % RatePerMin = y % RatePerMin
    BY <2>2
  <2>4. x < y \/ y < x
    BY <1>7, <2>3
  <2> QED BY <1>6, <2>3, <2>4
<1>9. Cardinality(here) <= RatePerMin
  BY <1>1, <1>4, <1>8
<1> QED BY <1>9 DEF here

-----------------------------------------------------------------------------
(* The invariant of the shared gateways holds in every state.               *)
THEOREM Invariance == Spec => []IInv
<1>1. Init => IInv
  BY InitTyped, InitCallInv, InitWindow, InitSolo, InitDead DEF IInv
<1>2. IInv /\ [Next]_vars => IInv'
  BY TypedNext, WindowNext, SoloNext, DeadNext DEF IInv
<1> QED BY <1>1, <1>2, PTL DEF Spec

(* However many threads are in _check_rate at once, a window is longer than *)
(* the limit by less than their number -- its length, not the calls that it *)
(* admits: threads that each drop an entry let others in.  A tool that one  *)
(* thread alone has called is admitted at most rate_per_min times in any    *)
(* minute.  Both for every limit, length of the minute and program.         *)
THEOREM RateIsBounded == Spec => []RateBounded
<1>1. IInv => RateBounded
  <2> SUFFICES ASSUME IInv, NEW tool \in Declared
               PROVE  /\ Len(windows[tool]) <= RatePerMin + Cardinality(Threads) - 1
                      /\ Cardinality(users[tool]) <= 1 => \A from \in 0..MaxTime :
                           Cardinality({i \in DOMAIN admitted[tool] :
                                          admitted[tool][i] \in from..(from + Minute)})
                             <= RatePerMin
    BY DEF RateBounded
  <2>1. ConnectorTyped
    BY DEF IInv, Typed
  <2>2. Len(windows[tool]) <= RatePerMin + Cardinality(Threads) - 1
    <3>1. /\ Len(windows[tool]) + Cardinality(Admitting(tool))
               <= RatePerMin + Cardinality(Threads) - 1
          /\ Len(windows[tool]) \in Nat /\ RatePerMin \in Nat
      BY <2>1, WindowTypes DEF IInv, WindowInv
    <3>2. Cardinality(Admitting(tool)) \in Nat /\ Cardinality(Threads) \in Nat
      BY AdmittingBounded
    <3> QED BY <3>1, <3>2
  <2>3. ASSUME Cardinality(users[tool]) <= 1, NEW from \in 0..MaxTime
        PROVE  Cardinality({i \in DOMAIN admitted[tool] :
                              admitted[tool][i] \in from..(from + Minute)}) <= RatePerMin
    <3>1. SoloTool(tool)
      BY <2>3 DEF IInv, SoloInv, Solo
    <3>2. from \in Nat
      BY ConnectorAssumption
    <3> QED BY <2>1, <3>1, <3>2, FewPerMinute
  <2> QED BY <2>2, <2>3
<1> QED BY <1>1, Invariance, PTL

(* The local server refuses at most one connection for every thread, however *)
(* long the gateway lives and however often the server goes up and down.     *)
THEOREM DeadIsRemembered == Spec => []DeadCostsOneAttempt
<1>1. IInv => DeadCostsOneAttempt
  <2> SUFFICES ASSUME IInv PROVE refused <= Cardinality(Callers)
    BY DEF DeadCostsOneAttempt
  <2>1. Connecting \in SUBSET Threads /\ IsFiniteSet(Threads)
    BY SharedAssumption DEF Connecting
  <2>2. IsFiniteSet(Connecting)
    BY <2>1, FS_Subset
  <2>3. Cardinality(Connecting) \in Nat /\ Cardinality(Callers) \in Nat
    BY <2>2, SharedAssumption, FS_CardinalityType
  <2>4. refused \in Nat
    BY DEF IInv, Typed, ModelTyped
  <2> QED BY <2>3, <2>4 DEF IInv, DeadInv
<1> QED BY <1>1, Invariance, PTL
-----------------------------------------------------------------------------
(* A hit is an entry of the cache under the key of the call.                 *)
LEMMA LookUpAnswer ==
  ASSUME ConnectorTyped, NEW t \in Threads, LookUp(t)
  PROVE  \/ call'[t].answer = call[t].answer /\ call'[t].stage = "invoke"
         \/ /\ call'[t].stage = "log"
            /\ \E entry \in cache : entry.key = Key(t) /\ call'[t].answer = entry.answer
<1>1. call[t] \in CallRecord /\ call \in [Threads -> CallRecord]
  BY DEF ConnectorTyped
<1> DEFINE hits == {entry \in cache : Cacheable(call[t].tool) /\ entry.key = Key(t)}
<1> DEFINE hit == CHOOSE entry \in hits : TRUE
<1>2. CASE hits = {}
  <2>1. Goto(t, "invoke")
    BY <1>2 DEF LookUp
  <2> QED BY <1>1, <2>1 DEF Goto, CallRecord
<1>3. CASE hits # {}
  <2>1. hit \in hits
    BY <1>3
  <2>2. call' = [call EXCEPT ![t].stage = "log", ![t].hit = TRUE, ![t].answer = hit.answer]
    BY <1>3 DEF LookUp
  <2>3. hit \in cache /\ hit.key = Key(t)
    BY <2>1
  <2> HIDE DEF hit
  <2> QED BY <1>1, <2>2, <2>3 DEF CallRecord
<1> QED BY <1>2, <1>3

(* Versions only grow, and nothing is newer than production.                *)
LEMMA CallStepVersion ==
  ASSUME ConnectorTyped, VersionInv, \A t \in Threads : wrote[t] \in Nat,
         NEW t \in Threads, CallStep(t)
  PROVE  /\ production <= production' /\ call'[t].answer <= production'
         /\ \A entry \in cache' : entry.answer <= production'
<1>1. call[t] \in CallRecord /\ call \in [Threads -> CallRecord] /\ production \in Nat
  BY DEF ConnectorTyped
<1>2. call[t].answer \in Nat /\ call[t].answer <= production
  BY <1>1 DEF VersionInv, CallRecord
<1>3. \A entry \in cache : entry.answer \in Nat /\ entry.answer <= production
  BY DEF VersionInv, ConnectorTyped
<1>4. ASSUME NEW s \in Stages, Goto(t, s)
      PROVE  call'[t].answer = call[t].answer
  BY <1>1, <1>4 DEF Goto, CallRecord
<1>5. CASE ReadClock(t)
  <2>1. production' = production /\ cache' = cache /\ call'[t].answer = call[t].answer
    BY <1>1, <1>5 DEF ReadClock, CallRecord
  <2> QED BY <1>1, <1>2, <1>3, <2>1
<1>6. CASE \/ TestHead(t) \/ DropHead(t) \/ TestLimit(t) \/ Admit(t) \/ InvokeRaises(t)
           \/ LogCall(t) \/ LogRaises(t)
  <2>1. production' = production /\ cache' = cache
    BY <1>6 DEF TestHead, DropHead, TestLimit, Admit, InvokeRaises, LogCall, LogRaises
  <2>2. call'[t].answer = call[t].answer
    BY <1>4, <1>6 DEF TestHead, DropHead, TestLimit, Admit, InvokeRaises, LogCall,
                      LogRaises, Stages
  <2> QED BY <1>1, <1>2, <1>3, <2>1, <2>2
<1>7. CASE LookUp(t)
  <2>1. production' = production /\ cache' = cache
    BY <1>7 DEF LookUp
  <2>2. call'[t].answer = call[t].answer \/ \E entry \in cache : call'[t].answer = entry.answer
    BY <1>7, LookUpAnswer
  <2> QED BY <1>1, <1>2, <1>3, <2>1, <2>2
<1>8. CASE Invoke(t)
  <2>1. /\ call' = [call EXCEPT ![t].stage = "log", ![t].answer = production']
        /\ cache' = cache
    BY <1>8 DEF Invoke
  <2>2. production' \in Nat /\ production <= production'
    BY <1>1, <1>8 DEF Invoke
  <2>3. call'[t].answer = production'
    BY <1>1, <2>1 DEF CallRecord
  <2> QED BY <1>1, <1>3, <2>1, <2>2, <2>3
<1>9. CASE Store(t)
  <2>1. production' = production /\ call'[t].answer = call[t].answer
    BY <1>4, <1>9 DEF Store, Stages
  <2>2. ASSUME NEW entry \in cache'
        PROVE  entry.answer <= production
    <3>1. entry \in cache \/ entry = [key |-> Key(t), answer |-> call[t].answer]
      BY <1>9 DEF Store
    <3> QED BY <1>2, <1>3, <3>1
  <2> QED BY <1>1, <1>2, <2>1, <2>2
<1> QED BY <1>5, <1>6, <1>7, <1>8, <1>9 DEF CallStep

LEMMA VersionNext ==
  ASSUME Typed, CallInv, VersionInv, [Next]_vars
  PROVE  VersionInv'
<1>1. /\ production \in Nat /\ call \in [Threads -> CallRecord]
      /\ \A t \in Threads : wrote[t] \in Nat /\ call[t].answer \in Nat
      /\ \A entry \in cache : entry.answer \in Nat
  BY DEF Typed, ConnectorTyped, CallRecord
<1>2. ASSUME production <= production', production' \in Nat, cache' = cache, wrote' = wrote,
             \A u \in Threads : call'[u] = call[u] \/ call'[u].answer = 0
      PROVE  VersionInv'
  <2>1. ASSUME NEW u \in Threads
        PROVE  wrote[u] <= production' /\ call'[u].answer <= production'
    BY <1>1, <1>2 DEF VersionInv
  <2>2. ASSUME NEW entry \in cache
        PROVE  entry.answer <= production'
    BY <1>1, <1>2 DEF VersionInv
  <2> QED BY <1>2, <2>1, <2>2 DEF VersionInv
<1>3. CASE UNCHANGED <<production, cache, wrote, call>>
  BY <1>1, <1>2, <1>3
<1>4. CASE UNCHANGED vars
  BY <1>3, <1>4 DEF vars, connectorVars
<1>5. CASE Environment
  <2>1. CASE ChangeOutside
    BY <1>1, <1>2, <1>5, <2>1 DEF Environment, ChangeOutside
  <2> QED BY <1>3, <1>5, <2>1 DEF Environment, Tick, Flip, connectorVars
<1>6. ASSUME NEW t \in Threads, ThreadStep(t)
      PROVE  VersionInv'
  <2>1. CASE Begin(t)
    <3>1. CASE StartCall(t, Head(program[t]).tool, Head(program[t]).args,
                         Head(program[t]).principal)
      <4>1. \A u \in Threads : call'[u] = call[u] \/ call'[u].answer = 0
        BY <1>1, <3>1 DEF StartCall, NoCall
      <4> QED BY <1>1, <1>2, <2>1, <3>1, <4>1 DEF Begin, StartCall
    <3> QED BY <1>3, <2>1, <3>1 DEF Begin, connectorVars
  <2>2. CASE Progress(t)
    <3>1. CASE CallStep(t)
      <4>1. /\ production <= production' /\ call'[t].answer <= production'
            /\ \A entry \in cache' : entry.answer <= production'
        BY <1>1, <3>1, CallStepVersion DEF Typed
      <4>2. production' \in Nat
        BY TypedNext DEF Typed, ConnectorTyped
      <4>3. wrote' = wrote /\ \A u \in Threads \ {t} : call'[u] = call[u]
        BY <2>2, <3>1, CallStepFrame DEF Progress, Typed
      <4>4. ASSUME NEW u \in Threads
            PROVE  wrote[u] <= production' /\ call'[u].answer <= production'
        BY <1>1, <4>1, <4>2, <4>3 DEF VersionInv
      <4> QED BY <4>1, <4>3, <4>4 DEF VersionInv
    <3> QED BY <1>3, <2>2, <3>1 DEF Progress, connectorVars
  <2>3. CASE EndCall(t)
    <3>1. /\ UNCHANGED <<production, cache>>
          /\ call' = [call EXCEPT ![t] = NoCall]
          /\ \A u \in Threads : wrote'[u] = wrote[u] \/ wrote'[u] = call[u].answer
      BY <2>3 DEF EndCall, Typed
    <3>2. \A u \in Threads : call'[u] = call[u] \/ call'[u].answer = 0
      BY <1>1, <3>1 DEF NoCall
    <3>3. ASSUME NEW u \in Threads
          PROVE  wrote'[u] <= production /\ call'[u].answer <= production
      BY <1>1, <3>1, <3>2 DEF VersionInv
    <3> QED BY <3>1, <3>3 DEF VersionInv
  <2>4. CASE EndAsk(t)
    BY <1>3, <2>4 DEF EndAsk, connectorVars
  <2> QED BY <1>6, <2>1, <2>2, <2>3, <2>4 DEF ThreadStep
<1> QED BY <1>4, <1>5, <1>6 DEF Next

(* A program only gets shorter, from its head.                              *)
Shorter(t) ==
  /\ program'[t] = program[t] \/ program'[t] = <<>>
     \/ (program[t] # <<>> /\ program'[t] = Tail(program[t]))
  /\ \A u \in Threads \ {t} : program'[u] = program[u]

LEMMA ShorterProgram ==
  ASSUME Typed, NEW t \in Threads, Shorter(t), NEW u \in Threads
  PROVE  /\ ToVerify(u)' => ToVerify(u)
         /\ ToWrite(u)' => ToWrite(u)
         /\ (\A i, j \in DOMAIN program[u] :
               Verifies(program[u][i]) /\ WritesTool(program[u][j]) => j < i)
            => (\A i, j \in DOMAIN program'[u] :
                  Verifies(program'[u][i]) /\ WritesTool(program'[u][j]) => j < i)
<1>1. CASE program'[u] = program[u]
  BY <1>1 DEF ToVerify, ToWrite
<1>2. CASE program'[u] = <<>>
  <2>1. DOMAIN program'[u] = {}
    BY <1>2
  <2> QED BY <2>1 DEF ToVerify, ToWrite
<1>3. CASE program[u] # <<>> /\ program'[u] = Tail(program[u])
  <2>1. program[u] \in Seq(Operations)
    BY DEF Typed
  <2>2. /\ DOMAIN program[u] = 1..Len(program[u]) /\ Len(program[u]) \in Nat
        /\ DOMAIN program'[u] = 1..(Len(program[u]) - 1)
        /\ \A i \in 1..(Len(program[u]) - 1) : program'[u][i] = program[u][i + 1]
    BY <1>3, <2>1, HeadTailProperties, LenProperties
  <2>3. ASSUME NEW i \in DOMAIN program'[u]
        PROVE  i \in Nat /\ i + 1 \in DOMAIN program[u] /\ program'[u][i] = program[u][i + 1]
    BY <2>2
  <2>4. ToVerify(u)' => ToVerify(u)
    BY <2>3 DEF ToVerify
  <2>5. ToWrite(u)' => ToWrite(u)
    BY <2>3 DEF ToWrite
  <2>6. ASSUME \A i, j \in DOMAIN program[u] :
                 Verifies(program[u][i]) /\ WritesTool(program[u][j]) => j < i,
               NEW i \in DOMAIN program'[u], NEW j \in DOMAIN program'[u],
               Verifies(program'[u][i]), WritesTool(program'[u][j])
        PROVE  j < i
    <3>1. j + 1 < i + 1
      BY <2>3, <2>6
    <3> QED BY <2>3, <3>1
  <2> QED BY <2>4, <2>5, <2>6
<1> QED BY <1>1, <1>2, <1>3 DEF Shorter

LEMMA ProgramsShorten ==
  ASSUME Typed, CallInv, [Next]_vars
  PROVE  \/ program' = program
         \/ \E t \in Threads : Shorter(t)
<1>1. CASE UNCHANGED vars
  BY <1>1 DEF vars
<1>2. CASE Environment
  BY <1>2 DEF Environment
<1>3. ASSUME NEW t \in Threads, ThreadStep(t)
      PROVE  program' = program \/ Shorter(t)
  <2>1. CASE EndCall(t)
    <3>1. program[t] # <<>>
      BY <2>1 DEF EndCall, CallInv, Started, At
    <3> QED BY <2>1, <3>1 DEF EndCall, Shorter, Typed
  <2>2. CASE EndAsk(t)
    <3>1. program[t] # <<>>
      BY <2>2 DEF EndAsk, CallInv, Asking
    <3> QED BY <2>2, <3>1 DEF EndAsk, Shorter, Typed
  <2> QED BY <1>3, <2>1, <2>2 DEF ThreadStep, Begin, Progress
<1> QED BY <1>1, <1>2, <1>3 DEF Next

LEMMA VerifierAloneNext ==
  ASSUME Typed, CallInv, VerifierAlone, [Next]_vars
  PROVE  VerifierAlone'
<1>1. CASE program' = program
  BY <1>1 DEF VerifierAlone, ToVerify
<1>2. ASSUME NEW t \in Threads, Shorter(t)
      PROVE  VerifierAlone'
  <2> SUFFICES ASSUME NEW u \in Threads, ToVerify(u)'
               PROVE  /\ \A v \in Threads \ {u} : ~ToVerify(v)'
                      /\ \A i, j \in DOMAIN program'[u] :
                           Verifies(program'[u][i]) /\ WritesTool(program'[u][j]) => j < i
    BY DEF VerifierAlone
  <2>1. ToVerify(u)
    BY <1>2, ShorterProgram
  <2>2. \A v \in Threads \ {u} : ~ToVerify(v)'
    BY <1>2, <2>1, ShorterProgram DEF VerifierAlone
  <2>3. \A i, j \in DOMAIN program[u] :
          Verifies(program[u][i]) /\ WritesTool(program[u][j]) => j < i
    BY <2>1 DEF VerifierAlone
  <2>4. \A i, j \in DOMAIN program'[u] :
          Verifies(program'[u][i]) /\ WritesTool(program'[u][j]) => j < i
    BY <1>2, <2>3, ShorterProgram
  <2> QED BY <2>2, <2>4
<1> QED BY <1>1, <1>2, ProgramsShorten

(* What is cached under the verifier's key was read by the one thread that    *)
(* verifies, when it had nothing left to write.                            *)
LEMMA StoreFresh ==
  ASSUME Typed, CallInv, VerifierAlone, VerifierFresh, NEW t \in Threads, Store(t),
         program' = program, wrote' = wrote
  PROVE  VerifierFresh'
<1>1. /\ call[t].stage = "store" /\ production' = production
      /\ cache' = {entry \in cache : entry.key # Key(t)}
                    \cup {[key |-> Key(t), answer |-> call[t].answer]}
      /\ call' = [call EXCEPT ![t].stage = "returned"]
  BY DEF Store, At, Goto
<1>2. call[t] \in CallRecord /\ call \in [Threads -> CallRecord]
  BY DEF Typed, ConnectorTyped
<1>3. /\ call'[t].answer = call[t].answer /\ call'[t].args = call[t].args
      /\ \A u \in Threads \ {t} : call'[u] = call[u]
  BY <1>1, <1>2 DEF CallRecord
<1>4. CASE call[t].args # "post-remediation"
  <2>1. Fresh' = Fresh
    BY <1>1, <1>4 DEF Fresh, Key
  <2> SUFFICES ASSUME NEW u \in Threads, ToVerify(u)
               PROVE  /\ ToWrite(u) => Fresh = {}
                      /\ \A entry \in Fresh : entry.answer >= wrote[u]
                      /\ call'[u].args = "post-remediation"
                         /\ call'[u].stage \in {"log", "store", "returned"}
                           => call'[u].answer >= wrote[u]
    BY <2>1 DEF VerifierFresh, ToVerify, ToWrite
  <2>2. CASE u = t
    BY <1>3, <1>4, <2>2 DEF VerifierFresh
  <2>3. CASE u # t
    BY <1>3, <2>3 DEF VerifierFresh
  <2> QED BY <2>2, <2>3
<1>5. CASE call[t].args = "post-remediation"
  <2>1. /\ program[t] # <<>> /\ Verifies(Head(program[t]))
    BY <1>1, <1>5 DEF CallInv, Started, At, Verifies
  <2>2. 1 \in DOMAIN program[t] /\ Head(program[t]) = program[t][1]
        /\ DOMAIN program[t] = 1..Len(program[t]) /\ Len(program[t]) \in Nat
    <3>1. program[t] \in Seq(Operations)
      BY DEF Typed
    <3>2. Len(program[t]) \in Nat /\ Len(program[t]) # 0
          /\ DOMAIN program[t] = 1..Len(program[t])
      BY <2>1, <3>1, EmptySeq, LenProperties
    <3>3. Head(program[t]) = program[t][1]
      BY <2>1, <3>1, HeadTailProperties
    <3> QED BY <3>2, <3>3
  <2>3. ToVerify(t)
    BY <2>1, <2>2 DEF ToVerify
  <2>4. ~ToWrite(t)
    <3>1. ASSUME NEW j \in DOMAIN program[t], WritesTool(program[t][j])
          PROVE  FALSE
      <4>1. j < 1
        BY <2>1, <2>2, <2>3, <3>1 DEF VerifierAlone
      <4> QED BY <2>2, <4>1
    <3> QED BY <3>1 DEF ToWrite
  <2>5. call[t].answer >= wrote[t]
    BY <1>1, <1>5, <2>3 DEF VerifierFresh
  <2> SUFFICES ASSUME NEW u \in Threads, ToVerify(u)
               PROVE  /\ ToWrite(u) => Fresh' = {}
                      /\ \A entry \in Fresh' : entry.answer >= wrote[u]
                      /\ call'[u].args = "post-remediation"
                         /\ call'[u].stage \in {"log", "store", "returned"}
                           => call'[u].answer >= wrote[u]
    BY DEF VerifierFresh, ToVerify, ToWrite
  <2>6. u = t
    BY <2>3 DEF VerifierAlone
  <2>7. ASSUME NEW entry \in Fresh'
        PROVE  entry.answer >= wrote[u]
    <3>1. entry \in Fresh \/ entry = [key |-> Key(t), answer |-> call[t].answer]
      BY <1>1 DEF Fresh
    <3> QED BY <2>3, <2>5, <2>6, <3>1 DEF VerifierFresh
  <2> QED BY <1>3, <2>4, <2>5, <2>6, <2>7
<1> QED BY <1>4, <1>5

LEMMA AnswerFresh ==
  ASSUME Typed, CallInv, VersionInv, VerifierAlone, VerifierFresh, NEW t \in Threads,
         CallStep(t), ~Store(t), program' = program, wrote' = wrote
  PROVE  VerifierFresh'
<1>1. call[t] \in CallRecord /\ call \in [Threads -> CallRecord]
  BY DEF Typed, ConnectorTyped
<1>2. /\ \A u \in Threads \ {t} : call'[u] = call[u]
      /\ call'[t].args = call[t].args /\ call'[t].tool = call[t].tool
  BY CallStepFrame DEF Typed
<1>3. cache' = cache
  BY DEF CallStep, ReadClock, TestHead, DropHead, TestLimit, Admit, LookUp, Invoke,
         InvokeRaises, LogCall, LogRaises
<1> SUFFICES ASSUME NEW u \in Threads, ToVerify(u),
                    call'[u].args = "post-remediation",
                    call'[u].stage \in {"log", "store", "returned"}
             PROVE  call'[u].answer >= wrote[u]
  <2>1. Fresh' = Fresh /\ \A u \in Threads : (ToVerify(u)' <=> ToVerify(u))
                                         /\ (ToWrite(u)' <=> ToWrite(u))
    BY <1>3 DEF Fresh, ToVerify, ToWrite
  <2> QED BY <2>1 DEF VerifierFresh
<1>4. CASE u # t
  BY <1>2, <1>4 DEF VerifierFresh
<1>5. ASSUME u = t, NEW s \in Stages, Goto(t, s)
      PROVE  call'[u].stage = s /\ call'[u].answer = call[u].answer
  BY <1>1, <1>5 DEF Goto, CallRecord
<1>6. CASE u = t /\ ReadClock(t)
  <2>1. call'[u].stage = "expire"
    BY <1>1, <1>6 DEF ReadClock, CallRecord
  <2> QED BY <2>1
<1>7. CASE u = t /\ \/ TestHead(t) \/ DropHead(t) \/ TestLimit(t) \/ Admit(t)
                    \/ InvokeRaises(t) \/ LogRaises(t)
  BY <1>5, <1>7 DEF TestHead, DropHead, TestLimit, Admit, InvokeRaises, LogRaises, Stages
<1>8. CASE u = t /\ LookUp(t)
  <2>1. PICK entry \in cache : entry.key = Key(t) /\ call'[t].answer = entry.answer
    BY <1>8, LookUpAnswer DEF Typed
  <2>2. entry \in Fresh
    BY <1>2, <1>8, <2>1 DEF Fresh, Key
  <2> QED BY <1>8, <2>1, <2>2 DEF VerifierFresh
<1>9. CASE u = t /\ Invoke(t)
  <2>1. /\ call' = [call EXCEPT ![t].stage = "log", ![t].answer = production']
        /\ production' = production \/ production' = production + 1
    BY <1>9 DEF Invoke, Typed, ConnectorTyped
  <2>2. call'[t].answer = production'
    BY <1>1, <2>1 DEF CallRecord
  <2>3. wrote[u] \in Nat /\ production \in Nat /\ wrote[u] <= production
    BY DEF Typed, ConnectorTyped, VersionInv
  <2> QED BY <1>9, <2>1, <2>2, <2>3
<1>10. CASE u = t /\ LogCall(t)
  <2>1. call[u].stage = "log" /\ call'[u].answer = call[u].answer
    BY <1>5, <1>10 DEF LogCall, At, Stages
  <2> QED BY <1>2, <1>10, <2>1 DEF VerifierFresh
<1> QED BY <1>4, <1>6, <1>7, <1>8, <1>9, <1>10 DEF CallStep

LEMMA VerifierFreshNext ==
  ASSUME Typed, CallInv, VersionInv, VerifierAlone, VerifierFresh, [Next]_vars
  PROVE  VerifierFresh'
<1>1. \A u \in Threads : (ToVerify(u)' => ToVerify(u)) /\ (ToWrite(u)' => ToWrite(u))
  <2>1. CASE program' = program
    BY <2>1 DEF ToVerify, ToWrite
  <2>2. CASE \E t \in Threads : Shorter(t)
    BY <2>2, ShorterProgram
  <2> QED BY <2>1, <2>2, ProgramsShorten
<1>2. ASSUME cache' = cache,
             \A u \in Threads :
               /\ wrote'[u] = wrote[u]
               /\ call'[u] = call[u] \/ call'[u].stage \notin {"log", "store", "returned"}
      PROVE  VerifierFresh'
  <2>1. Fresh' = Fresh
    BY <1>2 DEF Fresh
  <2> SUFFICES ASSUME NEW u \in Threads, ToVerify(u)'
               PROVE  /\ ToWrite(u)' => Fresh = {}
                      /\ \A entry \in Fresh : entry.answer >= wrote'[u]
                      /\ call'[u].args = "post-remediation"
                         /\ call'[u].stage \in {"log", "store", "returned"}
                           => call'[u].answer >= wrote'[u]
    BY <2>1 DEF VerifierFresh
  <2> QED BY <1>1, <1>2 DEF VerifierFresh
<1>3. CASE UNCHANGED <<cache, wrote, call>>
  BY <1>2, <1>3
<1>4. CASE UNCHANGED vars
  BY <1>3, <1>4 DEF vars, connectorVars
<1>5. CASE Environment
  BY <1>3, <1>5 DEF Environment, Tick, ChangeOutside, Flip, connectorVars
<1>6. ASSUME NEW t \in Threads, ThreadStep(t)
      PROVE  VerifierFresh'
  <2>1. CASE Begin(t)
    <3>1. CASE StartCall(t, Head(program[t]).tool, Head(program[t]).args,
                         Head(program[t]).principal)
      <4>1. \A u \in Threads : call'[u] = call[u] \/ call'[u].stage \in {"raised", "clock"}
        BY <3>1 DEF StartCall, NoCall, Typed, ConnectorTyped
      <4>2. cache' = cache /\ wrote' = wrote
        BY <2>1, <3>1 DEF Begin, StartCall
      <4> QED BY <1>2, <4>1, <4>2
    <3> QED BY <1>3, <2>1, <3>1 DEF Begin, connectorVars
  <2>2. CASE Progress(t)
    <3>1. CASE CallStep(t)
      BY <2>2, <3>1, StoreFresh, AnswerFresh DEF Progress
    <3> QED BY <1>3, <2>2, <3>1 DEF Progress, connectorVars
  <2>3. CASE EndCall(t)
    <3>1. /\ cache' = cache /\ call' = [call EXCEPT ![t] = NoCall]
          /\ \A u \in Threads \ {t} : wrote'[u] = wrote[u]
      BY <2>3 DEF EndCall, Typed
    <3>2. \A u \in Threads : call'[u] = call[u] \/ call'[u].stage = "idle"
      BY <3>1 DEF NoCall, Typed, ConnectorTyped
    <3>3. CASE call[t].tool \notin Writes \/ ~At(t, "returned")
      <4>1. wrote'[t] = wrote[t]
        BY <2>3, <3>3 DEF EndCall, Typed
      <4> QED BY <1>2, <3>1, <3>2, <4>1
    <3>4. CASE call[t].tool \in Writes /\ At(t, "returned")
      <4>1. program[t] # <<>> /\ WritesTool(Head(program[t]))
        BY <3>4 DEF CallInv, Started, At, WritesTool
      <4>2. 1 \in DOMAIN program[t] /\ Head(program[t]) = program[t][1]
        <5>1. program[t] \in Seq(Operations)
          BY DEF Typed
        <5>2. Len(program[t]) \in Nat /\ Len(program[t]) # 0
              /\ DOMAIN program[t] = 1..Len(program[t])
          BY <4>1, <5>1, EmptySeq, LenProperties
        <5> QED BY <4>1, <5>1, <5>2, HeadTailProperties
      <4>3. ToWrite(t)
        BY <4>1, <4>2 DEF ToWrite
      <4>4. Fresh' = Fresh
        BY <3>1 DEF Fresh
      <4>5. ASSUME NEW u \in Threads, ToVerify(u)'
            PROVE  /\ ToWrite(u)' => Fresh = {}
                   /\ \A entry \in Fresh : entry.answer >= wrote'[u]
                   /\ call'[u].args = "post-remediation"
                      /\ call'[u].stage \in {"log", "store", "returned"}
                        => call'[u].answer >= wrote'[u]
        <5>1. ToVerify(u) /\ (ToWrite(u)' => ToWrite(u))
          BY <1>1, <4>5
        <5>2. CASE u = t
          <6>1. Fresh = {}
            BY <4>3, <5>1, <5>2 DEF VerifierFresh
          <6>2. call'[u].stage = "idle"
            BY <3>1, <5>2 DEF NoCall, Typed, ConnectorTyped
          <6> QED BY <6>1, <6>2
        <5>3. CASE u # t
          BY <3>1, <3>2, <5>1, <5>3 DEF VerifierFresh
        <5> QED BY <5>2, <5>3
      <4> QED BY <4>4, <4>5 DEF VerifierFresh
    <3> QED BY <3>3, <3>4
  <2>4. CASE EndAsk(t)
    BY <1>3, <2>4 DEF EndAsk, connectorVars
  <2> QED BY <1>6, <2>1, <2>2, <2>3, <2>4 DEF ThreadStep
<1> QED BY <1>4, <1>5, <1>6 DEF Next

LEMMA InitVerifier ==
  ASSUME VerifiesLast, Init
  PROVE  VerifierInv
<1>1. VersionInv
  BY DEF Init, ConnectorInit, NoCall, VersionInv
<1>2. PICK case \in Cases : program = case.program
  BY DEF Init
<1>3. VerifierAlone
  BY <1>2 DEF VerifiesLast, VerifierAlone, ToVerify
<1>4. VerifierFresh
  BY DEF Init, ConnectorInit, NoCall, VerifierFresh, Fresh
<1> QED BY <1>1, <1>3, <1>4 DEF VerifierInv

(* In every program in which one thread verifies, and only after its writes,  *)
(* what the verifier reads is at least as recent as every write of its       *)
(* thread, through a cache in which nothing expires.                         *)
THEOREM VerifierReadsThrough ==
  ASSUME VerifiesLast
  PROVE  Spec => []VerifierReadsItsWrites
<1>1. Init => IInv /\ VerifierInv
  BY InitTyped, InitCallInv, InitWindow, InitSolo, InitDead, InitVerifier DEF IInv
<1>2. IInv /\ VerifierInv /\ [Next]_vars => (IInv /\ VerifierInv)'
  <2> SUFFICES ASSUME IInv, VerifierInv, [Next]_vars
               PROVE  IInv' /\ VerifierInv'
    OBVIOUS
  <2>1. IInv'
    BY TypedNext, WindowNext, SoloNext, DeadNext DEF IInv
  <2>2. VersionInv' /\ VerifierAlone' /\ VerifierFresh'
    BY VersionNext, VerifierAloneNext, VerifierFreshNext DEF IInv, VerifierInv
  <2> QED BY <2>1, <2>2 DEF VerifierInv
<1>3. IInv /\ VerifierInv => VerifierReadsItsWrites
  <2> SUFFICES ASSUME IInv, VerifierInv, NEW t \in Threads, At(t, "returned"),
                      call[t].args = "post-remediation"
               PROVE  call[t].answer >= wrote[t]
    BY DEF VerifierReadsItsWrites
  <2>1. program[t] # <<>> /\ Verifies(Head(program[t]))
    BY DEF IInv, CallInv, Started, At, Verifies
  <2>2. 1 \in DOMAIN program[t] /\ Head(program[t]) = program[t][1]
    <3>1. program[t] \in Seq(Operations)
      BY DEF IInv, Typed
    <3>2. Len(program[t]) \in Nat /\ Len(program[t]) # 0
          /\ DOMAIN program[t] = 1..Len(program[t])
      BY <2>1, <3>1, EmptySeq, LenProperties
    <3> QED BY <2>1, <3>1, <3>2, HeadTailProperties
  <2>3. ToVerify(t)
    BY <2>1, <2>2 DEF ToVerify
  <2> QED BY <2>3 DEF VerifierInv, VerifierFresh, At
<1> QED BY <1>1, <1>2, <1>3, PTL DEF Spec

================================================================================
