-------------------------------- MODULE Publication --------------------------------
(***************************************************************************)
(* The deployment of Pages and the start of a page of BuildIdentity: the   *)
(* page meets every commit that the workflow deploys, late, in any order,  *)
(* and from two sides.                                                     *)
(***************************************************************************)
EXTENDS Pages

CONSTANTS MaxOpens, MaxMoves, MaxFaults

ASSUME PublicationAssumption == MaxOpens \in Nat /\ MaxMoves \in Nat /\ MaxFaults \in Nat

VARIABLES shellAnswer, metaAnswer, page, reloadKey, opens, moves, faults

Browser == INSTANCE BuildIdentity

browserVars == <<shellAnswer, metaAnswer, page, reloadKey, opens, moves, faults>>

allVars == <<vars, browserVars>>

PublicationInit == Init /\ Browser!PageInit

PublicationNext ==
    \/ Next /\ UNCHANGED browserVars
    \/ Browser!PageNext /\ UNCHANGED <<main, pending, running, dispatches, failures, heads,
                                       verified, lastResult>>

\* GitHub goes on with the run it has started, and the browser with the page.
Fairness == WF_vars(Run) /\ WF_allVars(Browser!Startup /\ UNCHANGED vars)

PublicationSpec == PublicationInit /\ [][PublicationNext]_allVars /\ Fairness

---------------------------------------------------------------------------------
(* Properties. *)

PublicationTypeOK == TypeOK /\ Browser!PageTypeOK

ReloadsStop == Browser!ReloadsStop

\* README.md:36: an address that shares a file opens without the password screen of
\* the whole vault.  The reload of a stale shell goes to the address without the link.
ShareLinkSkipsPassword == page.link => page.phase # "password"
=================================================================================
