----------------------------- MODULE MCAcquirer -----------------------------
(***************************************************************************)
(* Instances of Acquirer for TLC: calls that share one domain, and calls   *)
(* of two domains.  plain is the domain of untagged provisioners, onPrem   *)
(* that of provisioners with one more tag.                                 *)
(***************************************************************************)
EXTENDS Acquirer, TLC

CONSTANTS c1, c2, c3

MCUntagged == {"scope=organization", "owner="}
plain == [org |-> "org", types |-> {"terraform"}, tags |-> MCUntagged]
onPrem == [plain EXCEPT !.tags = @ \cup {"env=on-prem"}]

\* Every call in the onPrem domain, with jobs for on-prem.
OneKey == {onPrem}
OneKeyOf == [c \in Calls |-> onPrem]
OnPremJob == [j \in Jobs |->
    [org |-> "org", type |-> "terraform", tags |-> onPrem.tags]]
CallSymmetry == Permutations(Calls)

\* c1 in the plain domain, the others in onPrem.  Job 1 is untagged, so that
\* onPrem contains its posting but cannot acquire it; the others want on-prem.
TwoKeys == {plain, onPrem}
TwoKeyOf == [c \in Calls |-> IF c = c1 THEN plain ELSE onPrem]
MixedJob == [j \in Jobs |-> IF j = 1 THEN [OnPremJob[1] EXCEPT !.tags = MCUntagged]
                             ELSE OnPremJob[j]]
=============================================================================
