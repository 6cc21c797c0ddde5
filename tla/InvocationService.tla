--------------------------- MODULE InvocationService ---------------------------
(***************************************************************************)
(* What FlowAgent.invoke promises its caller: an invocation is opened, the *)
(* process started on its behalf runs to a terminal state, and the         *)
(* invocation is answered once, either with the terminal state of ITS OWN  *)
(* process or with an error.  ("Returns: Terminal FlowState after the      *)
(* process completes or halts", flow_agent.py.)                            *)
(***************************************************************************)
CONSTANTS Invocation,   \* the calls of invoke()
          None,         \* no answer yet
          Error         \* the answer of a failed invocation

VARIABLES phase,        \* "idle", "open" or "answered", per invocation
          terminal,     \* the processes that have reached a terminal state
          answer        \* None, Error, or the process whose state is returned

serviceVars == <<phase, terminal, answer>>

ServiceInit ==
  /\ phase = [i \in Invocation |-> "idle"]
  /\ terminal = {}
  /\ answer = [i \in Invocation |-> None]

Open(i) ==
  /\ phase[i] = "idle"
  /\ phase' = [phase EXCEPT ![i] = "open"]
  /\ UNCHANGED <<terminal, answer>>

\* The process of i reaches its end event or is halted by a hook.
Terminate(i) ==
  /\ phase[i] # "idle"
  /\ terminal' = terminal \union {i}
  /\ UNCHANGED <<phase, answer>>

Answer(i) ==
  /\ phase[i] = "open"
  /\ phase' = [phase EXCEPT ![i] = "answered"]
  /\ \/ /\ i \in terminal
        /\ answer' = [answer EXCEPT ![i] = i]
     \/ answer' = [answer EXCEPT ![i] = Error]
  /\ UNCHANGED terminal

ServiceNext == \E i \in Invocation : Open(i) \/ Terminate(i) \/ Answer(i)

ServiceSpec == ServiceInit /\ [][ServiceNext]_serviceVars
================================================================================
