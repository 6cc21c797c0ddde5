--------------------------- MODULE CompletionProofs ---------------------------
(***************************************************************************)
(* Theorems about the completion handshake, for any set of invocations.    *)
(*                                                                         *)
(* HandshakeInv is what holds whatever the caller does; SerialInv is what  *)
(* a serial caller adds; together they are inductive.                      *)
(***************************************************************************)
EXTENDS Completion, TLAPS

\* How far an invocation and its instance have come, relative to each other.
PhaseInv ==
  \A i \in Invocation :
    /\ pc[i] \in {"idle", "preparing", "starting", "binding", "posting"} =>
         instance[i] = "none"
    /\ pc[i] = "returned" <=> result[i] # None
    /\ engine = "langgraph" =>
         pc[i] \notin {"binding", "posting", "calling"}
    /\ engine = "http" /\ (pc[i] = "waiting" \/ result[i] \in Invocation) =>
         instance[i] \in Over

\* Where a resolved future comes from.
FutureInv ==
  /\ \A i \in Invocation : future[i] # None => instance[future[i]] \in Reported
  /\ \A i, j \in Invocation : future[i] = future[j] /\ future[i] # None => i = j
  /\ \A i \in Invocation : result[i] \in Invocation => result[i] = future[i]

\* The setting of a run is one of those the constants allow.
SettingInv == engine \in Engines /\ caller \in Callers

HandshakeInv == TypeOK /\ SettingInv /\ NoLeakedFuture /\ PhaseInv /\ FutureInv

\* An instance whose caller has gone although it was told nothing but an error.
Abandoned(i) == engine = "http" /\ MayTimeOut /\ result[i] = Error

SerialInv ==
  caller = "serial" =>
    /\ \A i, j \in Invocation : Active(i) /\ Active(j) => i = j
    /\ \A i \in Invocation : pc[i] \in Registered => pending = i
    /\ \A i \in Invocation : instance[i] = "running" => Active(i) \/ Abandoned(i)
    /\ \A i, j \in Invocation : i # j /\ future[i] = j => Abandoned(j)

IInv == HandshakeInv /\ SerialInv

-----------------------------------------------------------------------------
\* The table is empty and nothing has been started or returned.
LEMMA InitInv == Init => IInv
BY SentinelAssumption, EnginesAssumption, CallersAssumption
DEF Init, IInv, HandshakeInv, SettingInv, SerialInv, TypeOK, NoLeakedFuture, PhaseInv, FutureInv,
    Invoking, Registered, Reported, Over, Active, Abandoned

\* Every step keeps the variables in their types.
LEMMA TypeStep ==
  ASSUME TypeOK, [Next]_vars
  PROVE  TypeOK'
<1>. USE DEF TypeOK
<1>1. ASSUME NEW i \in Invocation, Invoke(i) PROVE TypeOK'
  BY <1>1 DEF Invoke, setting, Goto, Invoking, Reported
<1>2. ASSUME NEW i \in Invocation, Register(i) PROVE TypeOK'
  BY <1>2 DEF Register, setting, Goto, Invoking, Reported
<1>3. ASSUME NEW i \in Invocation, Deliver(i) PROVE TypeOK'
  BY <1>3 DEF Deliver, setting, Return, Goto, Invoking, Reported
<1>4. ASSUME NEW i \in Invocation, Launch(i) PROVE TypeOK'
  BY <1>4 DEF Launch, setting, Goto, Invoking, Reported
<1>5. ASSUME NEW i \in Invocation, EnsureHttpServer(i) PROVE TypeOK'
  BY <1>5 DEF EnsureHttpServer, setting, Goto, Invoking, Reported
<1>6. ASSUME NEW i \in Invocation, SeeListener(i) PROVE TypeOK'
  BY <1>6 DEF SeeListener, setting, Goto, Invoking, Reported
<1>7. ASSUME NEW i \in Invocation, Post(i) PROVE TypeOK'
  BY <1>7 DEF Post, setting, Goto, Invoking, Reported
<1>8. ASSUME NEW i \in Invocation, PostRefused(i) PROVE TypeOK'
  BY <1>8 DEF PostRefused, setting, Return, Goto, Invoking, Reported
<1>9. ASSUME NEW i \in Invocation, PostAnswered(i) PROVE TypeOK'
  BY <1>9 DEF PostAnswered, setting, Return, Goto, Invoking, Reported
<1>10. ASSUME NEW i \in Invocation, PostTimesOut(i) PROVE TypeOK'
  BY <1>10 DEF PostTimesOut, setting, Return, Goto, Invoking, Reported
<1>11. ASSUME NEW i \in Invocation, Complete(i) PROVE TypeOK'
  BY <1>11 DEF Complete, setting, Resolve, Invoking, Reported
<1>12. ASSUME NEW i \in Invocation, End(i) PROVE TypeOK'
  BY <1>12 DEF End, setting, Invoking, Reported
<1>13. ASSUME NEW i \in Invocation, Fail(i) PROVE TypeOK'
  BY <1>13 DEF Fail, setting, Invoking, Reported
<1>14. ASSUME ListenerUp PROVE TypeOK'
  BY <1>14 DEF ListenerUp, setting, Invoking, Reported
<1>15. ASSUME UNCHANGED vars PROVE TypeOK'
  BY <1>15 DEF vars, setting, Invoking, Reported
<1>16. ASSUME NEW i \in Invocation, EndUnreported(i) PROVE TypeOK'
  BY <1>16 DEF EndUnreported, setting, Invoking, Reported
<1>17. QED
  BY <1>1, <1>2, <1>3, <1>4, <1>5, <1>6, <1>7, <1>8, <1>9, <1>10, <1>11, <1>12, <1>13, <1>14, <1>15, <1>16
  DEF Next, InvokeStep, RunProcessStep, InstanceStep

\* No step changes the setting.
LEMMA SettingStep ==
  ASSUME SettingInv, [Next]_vars
  PROVE  SettingInv'
<1>1. UNCHANGED setting
  BY DEF Next, InvokeStep, RunProcessStep, InstanceStep, vars, ListenerUp,
     Invoke, Register, Deliver, Launch, EnsureHttpServer, SeeListener, Post,
     PostRefused, PostAnswered, PostTimesOut, Complete, End, EndUnreported, Fail
<1>2. QED
  BY <1>1 DEF SettingInv, setting

\* An invocation that leaves clears the slot; no other one can be in it.
LEMMA NoLeakStep ==
  ASSUME TypeOK, NoLeakedFuture, [Next]_vars
  PROVE  NoLeakedFuture'
<1>. USE SentinelAssumption DEF TypeOK, NoLeakedFuture
<1>1. ASSUME NEW i \in Invocation, Invoke(i) PROVE NoLeakedFuture'
  BY <1>1 DEF Invoke, Goto, Registered, Invoking
<1>2. ASSUME NEW i \in Invocation, Register(i) PROVE NoLeakedFuture'
  BY <1>2 DEF Register, Goto, Registered, Invoking
<1>3. ASSUME NEW i \in Invocation, Deliver(i) PROVE NoLeakedFuture'
  BY <1>3 DEF Deliver, Return, Goto, Registered, Invoking
<1>4. ASSUME NEW i \in Invocation, Launch(i) PROVE NoLeakedFuture'
  BY <1>4 DEF Launch, Goto, Registered, Invoking
<1>5. ASSUME NEW i \in Invocation, EnsureHttpServer(i) PROVE NoLeakedFuture'
  BY <1>5 DEF EnsureHttpServer, Goto, Registered, Invoking
<1>6. ASSUME NEW i \in Invocation, SeeListener(i) PROVE NoLeakedFuture'
  BY <1>6 DEF SeeListener, Goto, Registered, Invoking
<1>7. ASSUME NEW i \in Invocation, Post(i) PROVE NoLeakedFuture'
  BY <1>7 DEF Post, Goto, Registered, Invoking
<1>8. ASSUME NEW i \in Invocation, PostRefused(i) PROVE NoLeakedFuture'
  BY <1>8 DEF PostRefused, Return, Goto, Registered, Invoking
<1>9. ASSUME NEW i \in Invocation, PostAnswered(i) PROVE NoLeakedFuture'
  BY <1>9 DEF PostAnswered, Return, Goto, Registered, Invoking
<1>10. ASSUME NEW i \in Invocation, PostTimesOut(i) PROVE NoLeakedFuture'
  BY <1>10 DEF PostTimesOut, Return, Goto, Registered, Invoking
<1>11. ASSUME NEW i \in Invocation, Complete(i) PROVE NoLeakedFuture'
  BY <1>11 DEF Complete, Resolve, Registered, Invoking
<1>12. ASSUME NEW i \in Invocation, End(i) PROVE NoLeakedFuture'
  BY <1>12 DEF End, Registered, Invoking
<1>13. ASSUME NEW i \in Invocation, Fail(i) PROVE NoLeakedFuture'
  BY <1>13 DEF Fail, Registered, Invoking
<1>14. ASSUME ListenerUp PROVE NoLeakedFuture'
  BY <1>14 DEF ListenerUp, Registered, Invoking
<1>15. ASSUME UNCHANGED vars PROVE NoLeakedFuture'
  BY <1>15 DEF vars, Registered, Invoking
<1>16. ASSUME NEW i \in Invocation, EndUnreported(i) PROVE NoLeakedFuture'
  BY <1>16 DEF EndUnreported, Registered, Invoking
<1>17. QED
  BY <1>1, <1>2, <1>3, <1>4, <1>5, <1>6, <1>7, <1>8, <1>9, <1>10, <1>11, <1>12, <1>13, <1>14, <1>15, <1>16
  DEF Next, InvokeStep, RunProcessStep, InstanceStep

\* An instance is created once, and a POST is answered after its instance is over.
LEMMA PhaseStep ==
  ASSUME TypeOK, PhaseInv, FutureInv, [Next]_vars
  PROVE  PhaseInv'
<1>. USE SentinelAssumption DEF TypeOK, PhaseInv, Over
<1>1. ASSUME NEW i \in Invocation, Invoke(i) PROVE PhaseInv'
  BY <1>1 DEF Invoke, setting, Goto, Invoking, Reported
<1>2. ASSUME NEW i \in Invocation, Register(i) PROVE PhaseInv'
  BY <1>2 DEF Register, setting, Goto, Invoking, Reported
<1>3. ASSUME NEW i \in Invocation, Deliver(i) PROVE PhaseInv'
  BY <1>3 DEF Deliver, setting, Return, Goto, Invoking, Reported
<1>4. ASSUME NEW i \in Invocation, Launch(i) PROVE PhaseInv'
  BY <1>4 DEF Launch, setting, Goto, Invoking, Reported
<1>5. ASSUME NEW i \in Invocation, EnsureHttpServer(i) PROVE PhaseInv'
  BY <1>5 DEF EnsureHttpServer, setting, Goto, Invoking, Reported
<1>6. ASSUME NEW i \in Invocation, SeeListener(i) PROVE PhaseInv'
  BY <1>6 DEF SeeListener, setting, Goto, Invoking, Reported
<1>7. ASSUME NEW i \in Invocation, Post(i) PROVE PhaseInv'
  BY <1>7 DEF Post, setting, Goto, Invoking, Reported
<1>8. ASSUME NEW i \in Invocation, PostRefused(i) PROVE PhaseInv'
  BY <1>8 DEF PostRefused, setting, Return, Goto, Invoking, Reported
<1>9. ASSUME NEW i \in Invocation, PostAnswered(i) PROVE PhaseInv'
  BY <1>9 DEF PostAnswered, setting, Return, Goto, Invoking, Reported
<1>10. ASSUME NEW i \in Invocation, PostTimesOut(i) PROVE PhaseInv'
  BY <1>10 DEF PostTimesOut, setting, Return, Goto, Invoking, Reported
<1>11. ASSUME NEW i \in Invocation, Complete(i) PROVE PhaseInv'
  BY <1>11 DEF Complete, setting, Resolve, Invoking, Reported
<1>12. ASSUME NEW i \in Invocation, End(i) PROVE PhaseInv'
  BY <1>12 DEF End, setting, Invoking, Reported
<1>13. ASSUME NEW i \in Invocation, Fail(i) PROVE PhaseInv'
  BY <1>13 DEF Fail, setting, Invoking, Reported
<1>14. ASSUME ListenerUp PROVE PhaseInv'
  BY <1>14 DEF ListenerUp, setting, Invoking, Reported
<1>15. ASSUME UNCHANGED vars PROVE PhaseInv'
  BY <1>15 DEF vars, setting, Invoking, Reported
<1>16. ASSUME NEW i \in Invocation, EndUnreported(i) PROVE PhaseInv'
  BY <1>16 DEF EndUnreported, setting, Invoking, Reported
<1>17. QED
  BY <1>1, <1>2, <1>3, <1>4, <1>5, <1>6, <1>7, <1>8, <1>9, <1>10, <1>11, <1>12, <1>13, <1>14, <1>15, <1>16
  DEF Next, InvokeStep, RunProcessStep, InstanceStep

\* Only a running instance resolves a future, and it stops being one by doing so.
LEMMA FutureStep ==
  ASSUME TypeOK, PhaseInv, FutureInv, [Next]_vars
  PROVE  FutureInv'
<1>. USE SentinelAssumption DEF TypeOK, PhaseInv, FutureInv
<1>1. ASSUME NEW i \in Invocation, Invoke(i) PROVE FutureInv'
  BY <1>1 DEF Invoke, Goto, Invoking, Reported
<1>2. ASSUME NEW i \in Invocation, Register(i) PROVE FutureInv'
  BY <1>2 DEF Register, Goto, Invoking, Reported
<1>3. ASSUME NEW i \in Invocation, Deliver(i) PROVE FutureInv'
  BY <1>3 DEF Deliver, Return, Goto, Invoking, Reported
<1>4. ASSUME NEW i \in Invocation, Launch(i) PROVE FutureInv'
  BY <1>4 DEF Launch, Goto, Invoking, Reported
<1>5. ASSUME NEW i \in Invocation, EnsureHttpServer(i) PROVE FutureInv'
  BY <1>5 DEF EnsureHttpServer, Goto, Invoking, Reported
<1>6. ASSUME NEW i \in Invocation, SeeListener(i) PROVE FutureInv'
  BY <1>6 DEF SeeListener, Goto, Invoking, Reported
<1>7. ASSUME NEW i \in Invocation, Post(i) PROVE FutureInv'
  BY <1>7 DEF Post, Goto, Invoking, Reported
<1>8. ASSUME NEW i \in Invocation, PostRefused(i) PROVE FutureInv'
  BY <1>8 DEF PostRefused, Return, Goto, Invoking, Reported
<1>9. ASSUME NEW i \in Invocation, PostAnswered(i) PROVE FutureInv'
  BY <1>9 DEF PostAnswered, Return, Goto, Invoking, Reported
<1>10. ASSUME NEW i \in Invocation, PostTimesOut(i) PROVE FutureInv'
  BY <1>10 DEF PostTimesOut, Return, Goto, Invoking, Reported
<1>11. ASSUME NEW i \in Invocation, Complete(i) PROVE FutureInv'
  BY <1>11 DEF Complete, Resolve, Invoking, Reported
<1>12. ASSUME NEW i \in Invocation, End(i) PROVE FutureInv'
  BY <1>12 DEF End, Invoking, Reported
<1>13. ASSUME NEW i \in Invocation, Fail(i) PROVE FutureInv'
  BY <1>13 DEF Fail, Invoking, Reported
<1>14. ASSUME ListenerUp PROVE FutureInv'
  BY <1>14 DEF ListenerUp, Invoking, Reported
<1>15. ASSUME UNCHANGED vars PROVE FutureInv'
  BY <1>15 DEF vars, Invoking, Reported
<1>16. ASSUME NEW i \in Invocation, EndUnreported(i) PROVE FutureInv'
  BY <1>16 DEF EndUnreported, Invoking, Reported
<1>17. QED
  BY <1>1, <1>2, <1>3, <1>4, <1>5, <1>6, <1>7, <1>8, <1>9, <1>10, <1>11, <1>12, <1>13, <1>14, <1>15, <1>16
  DEF Next, InvokeStep, RunProcessStep, InstanceStep

\* With one caller at a time, only an abandoned instance can meet a future that
\* is not its own.
LEMMA SerialStep ==
  ASSUME HandshakeInv, SerialInv, [Next]_vars
  PROVE  SerialInv'
<1>. SUFFICES ASSUME caller' = "serial" PROVE SerialInv'
  BY DEF SerialInv
<1>. USE SentinelAssumption
     DEF HandshakeInv, TypeOK, NoLeakedFuture, PhaseInv, FutureInv, SerialInv, Abandoned, Active
<1>1. ASSUME NEW i \in Invocation, Invoke(i) PROVE SerialInv'
  BY <1>1 DEF Invoke, setting, Goto, Invoking, Registered, Reported
<1>2. ASSUME NEW i \in Invocation, Register(i) PROVE SerialInv'
  BY <1>2 DEF Register, setting, Goto, Invoking, Registered, Reported
<1>3. ASSUME NEW i \in Invocation, Deliver(i) PROVE SerialInv'
  <2>1. caller = "serial" /\ pc[i] = "waiting" /\ future[i] \in Invocation
    BY <1>3 DEF Deliver, setting
  <2>2. instance[i] # "running"
    <3>1. CASE future[i] = i
      BY <2>1, <3>1 DEF Reported
    <3>2. CASE future[i] # i
      BY <2>1, <3>2 DEF Over
    <3>3. QED
      BY <3>1, <3>2
  <2>3. PICK r \in {future[i], Error} : Return(i, r)
    BY <1>3 DEF Deliver
  <2>4. result[i] = None
    BY <2>1
  <2>5. QED
    BY <1>3, <2>1, <2>2, <2>3, <2>4 DEF Deliver, setting, Return, Goto, Invoking, Registered
<1>4. ASSUME NEW i \in Invocation, Launch(i) PROVE SerialInv'
  BY <1>4 DEF Launch, setting, Goto, Invoking, Registered, Reported
<1>5. ASSUME NEW i \in Invocation, EnsureHttpServer(i) PROVE SerialInv'
  BY <1>5 DEF EnsureHttpServer, setting, Goto, Invoking, Registered, Reported
<1>6. ASSUME NEW i \in Invocation, SeeListener(i) PROVE SerialInv'
  BY <1>6 DEF SeeListener, setting, Goto, Invoking, Registered, Reported
<1>7. ASSUME NEW i \in Invocation, Post(i) PROVE SerialInv'
  BY <1>7 DEF Post, setting, Goto, Invoking, Registered, Reported
<1>8. ASSUME NEW i \in Invocation, PostRefused(i) PROVE SerialInv'
  BY <1>8 DEF PostRefused, setting, Return, Goto, Invoking, Registered, Reported
<1>9. ASSUME NEW i \in Invocation, PostAnswered(i) PROVE SerialInv'
  BY <1>9 DEF PostAnswered, setting, Return, Goto, Invoking, Registered, Reported
<1>10. ASSUME NEW i \in Invocation, PostTimesOut(i) PROVE SerialInv'
  BY <1>10 DEF PostTimesOut, setting, Return, Goto, Invoking, Registered, Reported
<1>11. ASSUME NEW i \in Invocation, Complete(i) PROVE SerialInv'
  BY <1>11 DEF Complete, setting, Resolve, Invoking, Registered, Reported
<1>12. ASSUME NEW i \in Invocation, End(i) PROVE SerialInv'
  BY <1>12 DEF End, setting, Invoking, Registered, Reported
<1>13. ASSUME NEW i \in Invocation, Fail(i) PROVE SerialInv'
  BY <1>13 DEF Fail, setting, Invoking, Registered, Reported
<1>14. ASSUME ListenerUp PROVE SerialInv'
  BY <1>14 DEF ListenerUp, setting, Invoking, Registered, Reported
<1>15. ASSUME UNCHANGED vars PROVE SerialInv'
  BY <1>15 DEF vars, setting, Invoking, Registered, Reported
<1>16. ASSUME NEW i \in Invocation, EndUnreported(i) PROVE SerialInv'
  BY <1>16 DEF EndUnreported, setting, Invoking, Registered, Reported
<1>17. QED
  BY <1>1, <1>2, <1>3, <1>4, <1>5, <1>6, <1>7, <1>8, <1>9, <1>10, <1>11, <1>12, <1>13, <1>14, <1>15, <1>16
  DEF Next, InvokeStep, RunProcessStep, InstanceStep

\* The strengthened invariant holds of every behaviour.
LEMMA Inductive == Spec => []IInv
<1>1. IInv /\ [Next]_vars => IInv'
  BY TypeStep, SettingStep, NoLeakStep, PhaseStep, FutureStep, SerialStep DEF IInv, HandshakeInv
<1>2. QED
  BY InitInv, <1>1, PTL DEF Spec

-----------------------------------------------------------------------------
\* Type correctness of the handshake.
THEOREM TypeCorrect == Spec => []TypeOK
<1>1. IInv => TypeOK
  BY DEF IInv, HandshakeInv
<1>2. QED
  BY Inductive, <1>1, PTL

\* _pending_completions never holds the future of an invocation that returned.
THEOREM NoLeak == Spec => []NoLeakedFuture
<1>1. IInv => NoLeakedFuture
  BY DEF IInv, HandshakeInv
<1>2. QED
  BY Inductive, <1>1, PTL

\* However calls overlap, time out and are retried, no terminal state that
\* _handle_complete hands over is returned by two invocations.
THEOREM NoSharing == Spec => []NoSharedResult
<1>1. IInv => NoSharedResult
  <2>. SUFFICES ASSUME IInv,
                       NEW i \in Invocation, NEW j \in Invocation,
                       result[i] = result[j], result[i] \in Invocation
                PROVE  i = j
    BY DEF NoSharedResult
  <2>1. future[i] = result[i] /\ future[j] = result[j]
    BY DEF IInv, HandshakeInv, FutureInv
  <2>2. QED
    BY <2>1, SentinelAssumption DEF IInv, HandshakeInv, FutureInv
<1>2. QED
  BY Inductive, <1>1, PTL

\* start_process is synchronous: over HTTP, an invocation that returns a state
\* does so after the process it started is over.
THEOREM SynchronousStart == Spec => []ReturnsAfterOwnProcess
<1>1. IInv => ReturnsAfterOwnProcess
  BY DEF IInv, HandshakeInv, PhaseInv, ReturnsAfterOwnProcess
<1>2. QED
  BY Inductive, <1>1, PTL

\* A serial caller gets another invocation's state only from an instance whose
\* own POST was given up.
THEOREM ForeignOnlyFromAbandoned == Spec => []ForeignResultOnlyFromAbandoned
<1>1. IInv => ForeignResultOnlyFromAbandoned
  <2>. SUFFICES ASSUME IInv, caller = "serial",
                       NEW i \in Invocation, NEW j \in Invocation,
                       i # j, result[i] = j
                PROVE  result[j] = Error
    BY DEF ForeignResultOnlyFromAbandoned
  <2>1. future[i] = j
    BY DEF IInv, HandshakeInv, FutureInv
  <2>2. QED
    BY <2>1 DEF IInv, SerialInv, Abandoned
<1>2. QED
  BY Inductive, <1>1, PTL

\* The assumption under which the service is what its callers are promised.
PatientCaller == Callers = {"serial"} /\ ~ MayTimeOut

\* With such a caller, a future is only ever resolved by its own instance.
LEMMA OwnFuture ==
  ASSUME PatientCaller, IInv, NEW i \in Invocation, future[i] # None
  PROVE  future[i] = i
<1>1. future[i] \in Invocation
  BY DEF IInv, HandshakeInv, TypeOK
<1>2. QED
  BY <1>1 DEF PatientCaller, IInv, HandshakeInv, SettingInv, SerialInv, Abandoned

\* A serial caller whose POSTs never time out gets the state of the process it ran.
THEOREM OwnResults == ASSUME PatientCaller PROVE Spec => []OwnResult
<1>1. IInv => OwnResult
  BY OwnFuture, SentinelAssumption DEF OwnResult, IInv, HandshakeInv, FutureInv
<1>2. QED
  BY Inductive, <1>1, PTL

\* For such a caller every step of the handshake is a step of the service that
\* invoke() promises, or is hidden from it.
LEMMA ServiceStep ==
  ASSUME PatientCaller, IInv, [Next]_vars
  PROVE  [Service!ServiceNext]_(Service!serviceVars)
<1>. USE SentinelAssumption DEF IInv, HandshakeInv, TypeOK, Active, Invoking, Reported
<1>. USE DEF Service!ServiceNext, Service!serviceVars
<1>1. ASSUME NEW i \in Invocation, Invoke(i)
      PROVE  Service!Open(i)
  BY <1>1 DEF Invoke, Goto, Service!Open
<1>2. ASSUME NEW i \in Invocation, Complete(i)
      PROVE  Service!Terminate(i)
  BY <1>2 DEF Complete, Service!Terminate, PhaseInv
<1>3. ASSUME NEW i \in Invocation, Deliver(i)
      PROVE  Service!Answer(i)
  <2>1. future[i] = i /\ instance[i] \in Reported
    BY <1>3, OwnFuture DEF Deliver, FutureInv
  <2>2. PICK r \in {i, Error} : Return(i, r)
    BY <1>3, <2>1 DEF Deliver
  <2>3. QED
    BY <1>3, <2>1, <2>2 DEF Deliver, Return, Goto, Service!Answer
<1>4. ASSUME NEW i \in Invocation, Active(i), Return(i, Error), UNCHANGED instance
      PROVE  Service!Answer(i)
  BY <1>4 DEF Return, Goto, Service!Answer
<1>5. ASSUME NEW i \in Invocation,
             Register(i) \/ Launch(i) \/ EnsureHttpServer(i) \/ SeeListener(i) \/ Post(i)
      PROVE  UNCHANGED Service!serviceVars
  BY <1>5 DEF Register, Launch, EnsureHttpServer, SeeListener, Post, Goto, PhaseInv
<1>6. ASSUME NEW i \in Invocation, End(i) \/ Fail(i)
      PROVE  UNCHANGED Service!serviceVars
  BY <1>6 DEF End, Fail
<1>7. ASSUME NEW i \in Invocation, PostRefused(i) \/ PostTimesOut(i)
      PROVE  Service!Answer(i)
  BY <1>4, <1>7 DEF PostRefused, PostTimesOut
<1>8. ASSUME NEW i \in Invocation, PostAnswered(i)
      PROVE  Service!Answer(i) \/ UNCHANGED Service!serviceVars
  <2>1. CASE Return(i, Error)
    BY <1>4, <1>8, <2>1 DEF PostAnswered
  <2>2. CASE Goto(i, "waiting") /\ UNCHANGED <<pending, result>>
    BY <1>8, <2>2 DEF PostAnswered, Goto
  <2>3. QED
    BY <1>8, <2>1, <2>2 DEF PostAnswered
<1>9. ASSUME ListenerUp \/ UNCHANGED vars
      PROVE  UNCHANGED Service!serviceVars
  BY <1>9 DEF ListenerUp, vars
<1>10. ASSUME NEW i \in Invocation, EndUnreported(i)
      PROVE  Service!Terminate(i)
  BY <1>10 DEF EndUnreported, Service!Terminate, PhaseInv
<1>11. QED
  BY <1>1, <1>2, <1>3, <1>5, <1>6, <1>7, <1>8, <1>9, <1>10
  DEF Next, InvokeStep, RunProcessStep, InstanceStep

\* The handshake implements the service promised to a patient caller.
THEOREM Implements == ASSUME PatientCaller PROVE Spec => ServiceSpec
<1>1. Init => Service!ServiceInit
  BY DEF Init, Service!ServiceInit, Active, Invoking, Reported
<1>2. QED
  BY Inductive, ServiceStep, <1>1, PTL DEF Spec, ServiceSpec, Service!ServiceSpec
=============================================================================
