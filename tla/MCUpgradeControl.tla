-------------------------- MODULE MCUpgradeControl --------------------------
(***************************************************************************)
(* Model values and symmetry for checking UpgradeControl.                  *)
(***************************************************************************)
EXTENDS UpgradeControl, TLC

CONSTANTS token, dao, timelock, holder, v1, v2, wallet, first, second, third

\* One contract of each way of control; router and reward token are controlled as the token is.
MCContracts == {token, dao, timelock}
MCAccounts == {holder}
MCImplementations == {v1, v2}
MCAddresses == {v1, v2, wallet}
MCProposals == {first, second, third}
MCSymmetry == Permutations(MCProposals)
=============================================================================
