----------------------------- MODULE PlanLedger -----------------------------
(***************************************************************************)
(* What the propose/confirm round trip promises about a staged proposal,   *)
(* with no store, no request and no failure in sight: a proposal is opened *)
(* once, is applied to the stored plan at most once, and after it was      *)
(* applied or closed (refused, expired, lost) it is never open again.      *)
(*                                                                         *)
(* PlanLifecycle implements this module: an open proposal is there a row   *)
(* of pending_mutations or the private copy of one request in flight.      *)
(***************************************************************************)
EXTENDS Naturals

CONSTANT Proposals          \* the pendingMutationIds that can be minted

VARIABLES
    status,                 \* status[p]: where proposal p is in its life
    uses                    \* uses[p]: plans stored on behalf of p

ledgerVars == <<status, uses>>

Status == {"unused", "open", "applied", "closed"}

LedgerInit ==
    /\ status = [p \in Proposals |-> "unused"]
    /\ uses = [p \in Proposals |-> 0]

\* A propose stage mints the id and will stage it.
Open(p) ==
    /\ status[p] = "unused"
    /\ status' = [status EXCEPT ![p] = "open"]
    /\ UNCHANGED uses

\* A confirm stores the plan the proposal leads to.
Apply(p) ==
    /\ status[p] = "open"
    /\ status' = [status EXCEPT ![p] = "applied"]
    /\ uses' = [uses EXCEPT ![p] = uses[p] + 1]

\* Refusals, expiry, failures and the deletion of the account close open
\* proposals; a deletion closes several at once.
Close(S) ==
    /\ S # {}
    /\ \A p \in S : status[p] = "open"
    /\ status' = [p \in Proposals |-> IF p \in S THEN "closed" ELSE status[p]]
    /\ UNCHANGED uses

LedgerNext ==
    \/ \E p \in Proposals : Open(p) \/ Apply(p)
    \/ \E S \in SUBSET Proposals : Close(S)

LedgerSpec == LedgerInit /\ [][LedgerNext]_ledgerVars
=============================================================================
