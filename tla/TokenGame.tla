------------------------------- MODULE TokenGame -------------------------------
(***************************************************************************)
(* What BPMN promises of a process that no hook diverts: the token game.   *)
(* A token waits on a flow.  An element fires when a token waits on one of *)
(* its incoming flows, a parallel gateway when one waits on each; it takes *)
(* what it fires on, and leaves tokens on its outgoing flows, on one of    *)
(* them if it is an exclusive gateway.  The process is over when no token  *)
(* is left and not before; to halt it takes all of its tokens away.        *)
(***************************************************************************)
EXTENDS FlowGraph, FiniteSets

VARIABLES process, tokens, ended, halted, over

gameVars == <<process, tokens, ended, halted, over>>

\* The sets of tokens on which n may fire now.
Consumable(n) ==
  LET in == Ids(Incoming(process, n))
  IN  IF process.kind[n] = Parallel
      THEN {in} \intersect SUBSET tokens
      ELSE {{t} : t \in in \intersect tokens}

\* The sets of tokens that n may leave.
Producible(n) ==
  LET out == Ids(Outgoing(process, n))
  IN  IF process.kind[n] = Exclusive THEN {{t} : t \in out} ELSE {out}

GameInit ==
  /\ tokens = {First(Outgoing(process, process.start)).id}
  /\ ended = FALSE
  /\ halted = FALSE
  /\ over = FALSE

\* Element n fires; tokens left on end flows may be absorbed at once.
Fire(n) ==
  \E consumed \in Consumable(n), produced \in Producible(n) :
    \E absorbed \in SUBSET (produced \intersect EndFlows(process)) :
      /\ tokens' = (tokens \ consumed) \union (produced \ absorbed)
      /\ ended' = (ended \/ absorbed # {})
      /\ UNCHANGED <<process, halted, over>>

\* A token on an end flow reaches the end event.
Arrive(t) ==
  /\ t \in tokens \intersect EndFlows(process)
  /\ tokens' = tokens \ {t}
  /\ ended' = TRUE
  /\ UNCHANGED <<process, halted, over>>

Halt ==
  /\ tokens' = {}
  /\ halted' = TRUE
  /\ UNCHANGED <<process, ended, over>>

Over ==
  /\ tokens = {}
  /\ over' = TRUE
  /\ UNCHANGED <<process, tokens, ended, halted>>

GameNext ==
  \/ \E n \in Elements(process) : Fire(n)
  \/ \E t \in tokens : Arrive(t)
  \/ Halt
  \/ Over

GameSpec == GameInit /\ [][GameNext]_gameVars
================================================================================
