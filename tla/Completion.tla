------------------------------ MODULE Completion ------------------------------
(***************************************************************************)
(* The completion handshake of one FlowAgent: invoke() registers a future  *)
(* under the process key, asks the workflow engine over MCP to run the     *)
(* process, and waits for the engine to call complete_process back.        *)
(*                                                                         *)
(* The table _pending_completions has ONE slot per process key, so it is   *)
(* the single variable `pending'; each invocation has a future of its own, *)
(* and each invocation that reaches the engine starts one process instance *)
(* (named after the invocation that started it).                           *)
(*                                                                         *)
(* Two engines are modelled.  "langgraph" runs the process in a task of    *)
(* the same event loop, fire-and-forget.  "http" is Kogito or Flowable:    *)
(* run_process blocks in a POST for as long as the process runs, and the   *)
(* process calls back over an HTTP listener that is started lazily.        *)
(***************************************************************************)
CONSTANTS
  Invocation,   \* the calls of invoke()
  Engines,      \* the engines the FlowAgent may be deployed with
  Callers,      \* "serial" waits for an answer before it calls again
  MayTimeOut,   \* may the POST that starts a process time out?
  None,         \* an unresolved future, an empty table slot
  Error         \* the halted error state invoke() returns from its handler

ASSUME EnginesAssumption == Engines \subseteq {"langgraph", "http"}
ASSUME CallersAssumption == Callers \subseteq {"serial", "overlapping"}
ASSUME MayTimeOutAssumption == MayTimeOut \in BOOLEAN
ASSUME SentinelAssumption ==
  None \notin Invocation /\ Error \notin Invocation /\ None # Error

VARIABLES
  engine,     \* the engine deployed: fixed for a run
  caller,     \* how the FlowAgent is called: fixed for a run
  pc,         \* where each invocation of invoke() stands
  future,     \* the completion future of each invocation: None or an instance
  pending,    \* _pending_completions[process_key]
  instance,   \* the process instance each invocation started
  result,     \* what each invocation returned
  listener    \* the MCP HTTP listener: "off", "starting" or "up"

setting == <<engine, caller>>
vars == <<setting, pc, future, pending, instance, result, listener>>

Invoking == {"preparing", "starting", "binding", "posting", "calling", "waiting"}
Registered == Invoking \ {"preparing"}
Reported == {"reported", "ended", "broken"}   \* instances that called complete_process
Over == {"ended", "silent"}   \* instances that ended without an error, reported or not

Active(i) == pc[i] \in Invoking

\* The type invariant: what each variable of the handshake may hold.
TypeOK ==
  /\ engine \in {"langgraph", "http"}
  /\ caller \in {"serial", "overlapping"}
  /\ pc \in [Invocation -> Invoking \union {"idle", "returned"}]
  /\ future \in [Invocation -> Invocation \union {None}]
  /\ pending \in Invocation \union {None}
  /\ instance \in [Invocation -> {"none", "running", "failed", "silent"} \union Reported]
  /\ result \in [Invocation -> Invocation \union {None, Error}]
  /\ listener \in {"off", "starting", "up"}

Init ==
  /\ engine \in Engines
  /\ caller \in Callers
  /\ pc = [i \in Invocation |-> "idle"]
  /\ future = [i \in Invocation |-> None]
  /\ pending = None
  /\ instance = [i \in Invocation |-> "none"]
  /\ result = [i \in Invocation |-> None]
  /\ listener = "off"

-----------------------------------------------------------------------------
(* FlowAgent.invoke *)

Goto(i, label) == pc' = [pc EXCEPT ![i] = label]

\* Mutant of Return: there is no finally clause.
ReturnNoPop(i, r) ==
  /\ Goto(i, "returned")
  /\ result' = [result EXCEPT ![i] = r]
  /\ UNCHANGED pending

\* invoke returns r; its finally clause pops the slot whoever owns it.
Return(i, r) ==
  /\ Goto(i, "returned")
  /\ result' = [result EXCEPT ![i] = r]
  /\ pending' = None

\* invoke is called and awaits the extraction of the initial variables.
Invoke(i) ==
  /\ pc[i] = "idle"
  /\ caller = "serial" => \A j \in Invocation : ~ Active(j)
  /\ Goto(i, "preparing")
  /\ UNCHANGED <<setting, future, pending, instance, result, listener>>

\* The future is created and put in the table, over any other in the slot.
Register(i) ==
  /\ pc[i] = "preparing"
  /\ Goto(i, "starting")
  /\ pending' = i
  /\ UNCHANGED <<setting, future, instance, result, listener>>

\* The future is done: invoke builds the final state out of it, or fails to
\* (the payload is not a process and a state it can read) and returns an error.
Deliver(i) ==
  /\ pc[i] = "waiting"
  /\ future[i] # None
  /\ \E r \in {future[i], Error} : Return(i, r)
  /\ UNCHANGED <<setting, future, instance, listener>>

-----------------------------------------------------------------------------
(* The run_process tool of the bridge *)

\* LangGraph: run_process creates a task and answers at once.
Launch(i) ==
  /\ engine = "langgraph"
  /\ pc[i] = "starting"
  /\ Goto(i, "waiting")
  /\ instance' = [instance EXCEPT ![i] = "running"]
  /\ UNCHANGED <<setting, future, pending, result, listener>>

\* HTTP engines: the first run_process starts the listener and polls until it
\* is up; a later one finds _http_started set and goes on, up or not.
EnsureHttpServer(i) ==
  /\ engine = "http"
  /\ pc[i] = "starting"
  /\ IF listener = "off"
     THEN Goto(i, "binding") /\ listener' = "starting"
     ELSE Goto(i, "posting") /\ UNCHANGED listener
  /\ UNCHANGED <<setting, future, pending, instance, result>>

ListenerUp ==
  /\ listener = "starting"
  /\ listener' = "up"
  /\ UNCHANGED <<setting, pc, future, pending, instance, result>>

SeeListener(i) ==
  /\ pc[i] = "binding"
  /\ listener = "up"
  /\ Goto(i, "posting")
  /\ UNCHANGED <<setting, future, pending, instance, result, listener>>

\* The POST reaches the engine, which starts an instance.
Post(i) ==
  /\ pc[i] = "posting"
  /\ Goto(i, "calling")
  /\ instance' = [instance EXCEPT ![i] = "running"]
  /\ UNCHANGED <<setting, future, pending, result, listener>>

\* The BPMN cannot be read, or the engine is down or refuses: nothing started.
PostRefused(i) ==
  /\ pc[i] = "posting"
  /\ Return(i, Error)
  /\ UNCHANGED <<setting, future, instance, listener>>

\* Mutant of PostAnswered: the POST is answered as soon as the instance starts.
PostAnsweredAtOnce(i) ==
  /\ pc[i] = "calling"
  /\ Goto(i, "waiting")
  /\ UNCHANGED <<setting, future, pending, instance, result, listener>>

\* Mutant of PostAnswered: an error status is not raised.
PostErrorIgnored(i) ==
  /\ pc[i] = "calling"
  /\ instance[i] \in Over \union {"failed", "broken"}
  /\ Goto(i, "waiting")
  /\ UNCHANGED <<setting, future, pending, instance, result, listener>>

\* The engine answers the POST once the instance is over, whether or not it has
\* called complete_process; an instance that failed is answered with an error
\* status, which start_process raises.
PostAnswered(i) ==
  /\ pc[i] = "calling"
  /\ \/ /\ instance[i] \in Over
        /\ Goto(i, "waiting")
        /\ UNCHANGED <<pending, result>>
     \/ /\ instance[i] \in {"failed", "broken"}
        /\ Return(i, Error)
  /\ UNCHANGED <<setting, future, instance, listener>>

\* The client gives up on the POST; the instance runs on regardless.
PostTimesOut(i) ==
  /\ MayTimeOut
  /\ pc[i] = "calling"
  /\ Return(i, Error)
  /\ UNCHANGED <<setting, future, instance, listener>>

-----------------------------------------------------------------------------
(* The process instance, in the engine *)

\* Mutant of Resolve: every future that waits is resolved.
ResolveAll(i) ==
  future' = [j \in Invocation |->
               IF pc[j] \in Registered /\ future[j] = None THEN i ELSE future[j]]

\* Mutant of Resolve: the future is resolved with an error.
ResolveAsError(i) ==
  future' = IF pending # None /\ future[pending] = None
            THEN [future EXCEPT ![pending] = Error]
            ELSE future

\* _handle_complete: resolve the future in the slot unless it is done.
Resolve(i) ==
  future' = IF pending # None /\ future[pending] = None
            THEN [future EXCEPT ![pending] = i]
            ELSE future

\* The instance reaches its terminal state and calls complete_process.
Complete(i) ==
  /\ instance[i] = "running"
  /\ engine = "http" => listener = "up"
  /\ instance' = [instance EXCEPT ![i] = "reported"]
  /\ Resolve(i)
  /\ UNCHANGED <<setting, pc, pending, result, listener>>

\* Mutant of End: the instance reports a second time when it ends.
EndReportsAgain(i) ==
  /\ instance[i] = "reported"
  /\ instance' = [instance EXCEPT ![i] = "ended"]
  /\ Resolve(i)
  /\ UNCHANGED <<setting, pc, pending, result, listener>>

\* complete_process has been answered and the instance is over.
End(i) ==
  /\ instance[i] = "reported"
  /\ instance' = [instance EXCEPT ![i] = "ended"]
  /\ UNCHANGED <<setting, pc, future, pending, result, listener>>

\* A hook of an HTTP engine's instance redirects past the task that reports, to
\* an end event: the instance ends normally and nobody calls complete_process.
EndUnreported(i) ==
  /\ engine = "http"
  /\ instance[i] = "running"
  /\ listener = "up"
  /\ instance' = [instance EXCEPT ![i] = "silent"]
  /\ UNCHANGED <<setting, pc, future, pending, result, listener>>

\* A control point or a callback raises: the instance dies where it is.
Fail(i) ==
  /\ \/ /\ instance[i] = "running"
        /\ instance' = [instance EXCEPT ![i] = "failed"]
     \/ /\ instance[i] = "reported"
        /\ instance' = [instance EXCEPT ![i] = "broken"]
  /\ UNCHANGED <<setting, pc, future, pending, result, listener>>

-----------------------------------------------------------------------------
InvokeStep(i) == Invoke(i) \/ Register(i) \/ Deliver(i)

RunProcessStep(i) ==
  \/ Launch(i) \/ EnsureHttpServer(i) \/ SeeListener(i)
  \/ Post(i) \/ PostRefused(i) \/ PostAnswered(i) \/ PostTimesOut(i)

InstanceStep(i) == Complete(i) \/ End(i) \/ EndUnreported(i) \/ Fail(i)

Next ==
  \/ \E i \in Invocation : InvokeStep(i) \/ RunProcessStep(i) \/ InstanceStep(i)
  \/ ListenerUp

\* The event loop runs every coroutine that is ready, the listener starts and
\* an instance gets through its (finite) process.  Nobody has to call invoke,
\* and nothing has to fail or time out.
Fairness ==
  /\ WF_vars(ListenerUp)
  /\ \A i \in Invocation :
       /\ WF_vars(Register(i)) /\ WF_vars(Deliver(i))
       /\ WF_vars(Launch(i)) /\ WF_vars(EnsureHttpServer(i))
       /\ WF_vars(SeeListener(i)) /\ WF_vars(Post(i)) /\ WF_vars(PostAnswered(i))
       /\ WF_vars(Complete(i)) /\ WF_vars(End(i))

Spec == Init /\ [][Next]_vars
FairSpec == Spec /\ Fairness

-----------------------------------------------------------------------------
(* Properties, whatever the caller does *)

\* The slot never holds the future of an invocation that has returned: the
\* table does not leak, and a completion is never spent on a dead future.
NoLeakedFuture == pending # None => pc[pending] \in Registered

\* A terminal state answers at most one caller: however completions, retries
\* and callers interleave, no two invocations return the same instance's.
NoSharedResult ==
  \A i, j \in Invocation :
    result[i] = result[j] /\ result[i] \in Invocation => i = j

\* With an engine reached over HTTP, an invocation that returns a state (its
\* own or not) returns after the process it started itself is over.
ReturnsAfterOwnProcess ==
  engine = "http" =>
    \A i \in Invocation : result[i] \in Invocation => instance[i] \in Over

(* Properties when the caller is serial *)

\* A late answer reaches the next caller only from an instance whose own
\* caller was told that it had failed.
ForeignResultOnlyFromAbandoned ==
  caller = "serial" =>
    \A i, j \in Invocation : i # j /\ result[i] = j => result[j] = Error

\* A serial caller is left without an answer only by its own instance, and only
\* in two ways: a LangGraph run that dies is fire-and-forget and nobody is told,
\* and an HTTP engine's instance may end without calling complete_process.
AnsweredUnlessUnreported ==
  \A i \in Invocation :
    caller = "serial" /\ pc[i] = "preparing" ~>
      \/ pc[i] = "returned"
      \/ engine = "langgraph" /\ instance[i] = "failed"
      \/ engine = "http" /\ instance[i] = "silent"

\* What the docstring of invoke() says without such exceptions: the engine
\* signals completion, and the caller gets a terminal state.
AlwaysAnswered ==
  \A i \in Invocation :
    caller = "serial" /\ pc[i] = "preparing" ~> pc[i] = "returned"

\* An instance is started only once the listener that it reports to is up.
ListensBeforeStart ==
  \A i \in Invocation : pc[i] = "calling" => listener = "up"

\* What invoke() promises: the state it returns is that of the process it ran.
OwnResult ==
  \A i \in Invocation : result[i] \in Invocation => result[i] = i

\* A serial caller whose POSTs never time out gets the service promised.
Service == INSTANCE InvocationService WITH
  phase    <- [i \in Invocation |-> IF Active(i) THEN "open"
                                   ELSE IF pc[i] = "idle" THEN "idle"
                                   ELSE "answered"],
  terminal <- {i \in Invocation : instance[i] \in Reported \union {"silent"}},
  answer   <- result

ServiceSpec == Service!ServiceSpec
=============================================================================
