--------------------------- MODULE KillSwitchModes ---------------------------
(* The kill switch's modes and what they mean, shared by the modules that    *)
(* model its state (KillSwitch, Classify, Lifecycle).                        *)
EXTENDS Integers

Off == 0
BlockAll == 1
AllowVpnOnly == 2
Restore == 3
Modes == {Off, BlockAll, AllowVpnOnly, Restore}

\* Definitions named Bad... are altered forms of the definition that follows
\* them, used only to show that a property notices such a change.

\* GuardianKillSwitchInitialize: the mode taken over from what the query for
\* the stored value left in the variable it is given.  That variable holds the
\* four bytes of the value, KeyValuePartialInformation a header as well, so the
\* query fails and leaves 0; callers of this operator also allow a query that
\* delivers a value, and their properties do not rest on its failure.
BadStoredMode(v) == IF v <= Restore + 1 THEN v ELSE Off

StoredMode(v) == IF v <= Restore THEN v ELSE Off

\* GuardianKillSwitchSet: the mode and the interface a request puts in place;
\* Restore means off, and forgets the interface
Effect(r) == IF r.mode = Restore THEN <<Off, 0>> ELSE <<r.mode, r.luid>>

\* GuardianKillSwitchEvaluate: the verdict on a connection over an interface;
\* "none" leaves the decision to the policy and the route
Verdict(pair, luid) ==
  CASE pair[1] = BlockAll -> "block"
    [] pair[1] = AllowVpnOnly ->
         IF pair[2] # 0 /\ luid = pair[2] THEN "permit" ELSE "block"
    [] OTHER -> "none"
=============================================================================
