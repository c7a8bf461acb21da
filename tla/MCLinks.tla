------------------------------- MODULE MCLinks -------------------------------
(***************************************************************************)
(* Four parts in which somebody waits for somebody else and that share no  *)
(* variable: the saga and its scopes, the quorum of providers, the serial  *)
(* link and the JSON gateway.  A run takes one of them (focus) through its *)
(* steps while the others stay where they start.                           *)
(***************************************************************************)
EXTENDS Saga, AiQuorum, UartLink, Gateway, TLC

CONSTANTS h1, h2, n1, n2, t1, t2

MCNodeOf == h1 :> n1 @@ h2 :> n2
MCMaxCommands == t1 :> 2 @@ t2 :> 1

VARIABLE focus

sagaStill    == UNCHANGED <<sagaVars, focus>>
quorumStill  == UNCHANGED <<quorumVars, focus>>
uartStill    == UNCHANGED <<uartVars, focus>>
gatewayStill == UNCHANGED <<gatewayVars, focus>>

linksVars == <<sagaVars, quorumVars, uartVars, gatewayVars, focus>>

LinksInit ==
  /\ focus \in {"saga", "quorum", "uart", "gateway"}
  /\ SagaInit /\ QuorumInit /\ UartInit /\ GatewayInit
  /\ focus = "saga" \/ worker = [i \in Step |-> h1]

\* A step of the part the run is about.
InSaga(A)    == focus = "saga" /\ A /\ quorumStill /\ uartStill /\ gatewayStill
InQuorum(A)  == focus = "quorum" /\ A /\ sagaStill /\ uartStill /\ gatewayStill
InUart(A)    == focus = "uart" /\ A /\ sagaStill /\ quorumStill /\ gatewayStill
InGateway(A) == focus = "gateway" /\ A /\ sagaStill /\ quorumStill /\ uartStill

LinksNext ==
  InSaga(SagaNext) \/ InQuorum(QuorumNext) \/ InUart(UartNext)
  \/ InGateway(GatewayNext)

\* What is scheduled fairly is what SagaSpec, QuorumSpec and GatewaySpec say.
LinksSpec ==
  /\ LinksInit /\ [][LinksNext]_linksVars
  /\ WF_linksVars(InSaga(SagaActor))
  /\ WF_linksVars(InQuorum(QuorumStep))
  /\ \A n \in Nodes : WF_linksVars(InGateway(GatewayThread(n)))
  /\ \A h \in Hosted : WF_linksVars(InGateway(Worker(h)))

\* SagaEnds, of the runs in which there is a saga: a scope that waits for a
\* worker that hangs gives up, and the saga comes to an end.
SagaRunEnds == focus = "saga" => SagaEnds

LinksTypes == SagaTypes /\ QuorumTypes /\ UartTypes /\ GatewayTypes
=============================================================================
