---------------------------- MODULE MCConnections -----------------------------
(***************************************************************************)
(* A connector for TLC, in two parts that share no variable: its tokens    *)
(* (MCConnector) and the logins that connect it (LoginFlows).  The part    *)
(* that moves is chosen at the start.  See Connector.cfg.                  *)
(***************************************************************************)
EXTENDS MCConnector, LoginFlows

CONSTANTS l1, l2, w1, w2

VARIABLE loggingIn \* it is the logins that move

allVars == <<loggingIn, vars, loginVars>>

ConnectionsInit == loggingIn \in BOOLEAN /\ Init /\ LoginInit

TokensMove == ~loggingIn /\ UNCHANGED <<loggingIn, loginVars>>
LoginsMove == loggingIn /\ UNCHANGED <<loggingIn, vars>>

\* All logins have ended and nothing is stored.
LoginsOver ==
  /\ \A l \in Logins : login[l].pc \in {"ok", "failed"}
  /\ UNCHANGED loginVars

ConnectionsNext ==
  \/ TokensMove /\ Next
  \/ LoginsMove /\ (LoginNext \/ LoginsOver)

\* The fairness of ConnectorState, where it is the tokens that move.
ConnectionsSpec ==
  /\ ConnectionsInit /\ [][ConnectionsNext]_allVars
  /\ \A p \in Callers : WF_allVars(TokensMove /\ Refresh(p))
===============================================================================
