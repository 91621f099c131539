---------------------------- MODULE MCCTLogSetup ----------------------------
(***************************************************************************)
(* Fulcio serves three chains: it first changes its intermediate under the *)
(* same root, then its root.  An old secret holds the first root or one    *)
(* that Fulcio no longer serves.                                           *)
(***************************************************************************)
EXTENDS CTLogSetup, TLC

MCNames == {"ctlog-secrets", "ctlog-public-key"}
MCFulcioKeys == <<"fulcio-0", "fulcio-1", "fulcio-2", "fulcio-3", "fulcio-4">>
MCChains == <<<<"i1", "r1">>, <<"i2", "r1">>, <<"i3", "r2">>>>
MCTwoChains == <<<<"i1", "r1">>, <<"i3", "r2">>>>
MCLegacyRoots == {"r0", "r1"}

\* The pods of createctconfig are interchangeable.
MCSymmetry == Permutations(Procs)

=============================================================================
