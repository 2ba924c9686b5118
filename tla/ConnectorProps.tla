---------------------------- MODULE ConnectorProps ----------------------------
(***************************************************************************)
(* What holds of a connector's row and its refreshes.                      *)
(***************************************************************************)
EXTENDS ConnectorState

(***************************************************************************)
(* "refreshOnce ensures only one refresh runs per connector at a time"     *)
(* (manager.go:358): within one Manager, the one that leads the flight.    *)
(***************************************************************************)
OneRefreshPerManager ==
    \A p \in Procs :
        pc[p] \in RefreshPcs \cup {"clear"} => flight[Of(p)].leader = p

(***************************************************************************)
(* A token obtained in a refresh is stored only over the token it was      *)
(* exchanged for: a refresh that was overtaken by a login, a revoke or     *)
(* another process's refresh never writes over what they left.             *)
(***************************************************************************)
RefreshReplacesItsOwn ==
    [][\A p \in Procs :
          (pc[p] = "save" /\ pc'[p] # "save" /\ row' # row) =>
              /\ row # NoRow /\ row' # NoRow
              /\ row'.token = row.token \/ origin[row'.token] = row.token]_vars

(***************************************************************************)
(* After kimbap auth revoke has deleted the row ("Local token material     *)
(* removed.", auth_revoke.go:120) its token never comes back to the store, *)
(* whatever refresh was in flight.                                         *)
(***************************************************************************)
RevokedTokensStayGone == row.token \notin revoked

(***************************************************************************)
(* A caller that joined another caller's refresh gets an answer, whatever  *)
(* happens to that refresh.                                                *)
(***************************************************************************)
WaitersReturn == \A p \in Callers : pc[p] = "wait" ~> pc[p] # "wait"

(***************************************************************************)
(* "Reauthorization required. Run: kimbap auth connect <provider>"         *)
(* (auth.go:459): a connection stored by a login that has just succeeded   *)
(* no longer asks for re-authorisation.                                    *)
(***************************************************************************)
ReconnectHeals ==
    [][\A p \in Commands :
          (pc[p] = "store_save" /\ pc'[p] # "store_save" /\ row' # row) => ~row'.reauth]_vars
===============================================================================
