----------------------------- MODULE PolicyList -----------------------------
(* What driver/policy/app_policy.c does to and with its list of policies,    *)
(* as operators on sequences: shared by PolicyTable, which models the        *)
(* threads that change the list, and Classify, which models its readers.     *)
EXTENDS Integers, Sequences

CONSTANTS
  Policies,      \* records with fields app, match, action and ver
  MaxPolicies    \* GUARDIAN_MAX_POLICIES

PolicyVersion == 1   \* GUARDIAN_APP_POLICY_VERSION

\* GuardianPolicyFindLocked: the places that hold a policy of an application
PlacesOf(list, app) == {i \in 1..Len(list) : list[i].app = app}

(* Definitions named Bad... are altered forms of the definition that follows *)
(* them, used only to show that a property notices such a change.            *)

\* The limit is on g_PolicyCount, not on the list
BadHasRoom(count) == count <= MaxPolicies

HasRoom(count) == count < MaxPolicies

\* GuardianAppPolicySet succeeds, given memory: a known version, and either a
\* policy to replace or room for another
Accepts(list, count, p) ==
  /\ p.ver = PolicyVersion
  /\ PlacesOf(list, p.app) # {} \/ HasRoom(count)

\* The policy overwrites the one of its application, in its place: the first,
\* should a raced re-initialization have let in a second
BadReplaced(list, p) ==
  Append(SelectSeq(list, LAMBDA q : q.app # p.app), p)

Replaced(list, p) ==
  [i \in 1..Len(list) |->
     IF list[i].app = p.app /\ \A j \in 1..(i - 1) : list[j].app # p.app
       THEN p ELSE list[i]]

\* The list a successful set leaves: replaced, or linked at the tail
Updated(list, p) ==
  IF PlacesOf(list, p.app) = {} THEN Append(list, p) ELSE Replaced(list, p)

\* GuardianAppPolicyLookup: a ProcessPath policy matches any connection with a
\* non-empty application id, a None policy any connection, and the other kinds
\* (ExeHash, Sid, PackageFamily) no connection at all
Matching(list, hasAppId) ==
  {i \in 1..Len(list) : \/ list[i].match = "path" /\ hasAppId
                        \/ list[i].match = "none"}

\* The first match in list order; <<>> when there is none
FirstMatch(list, hasAppId) ==
  LET m == Matching(list, hasAppId) IN
  IF m = {} THEN <<>>
            ELSE <<list[CHOOSE i \in m : \A j \in m : i <= j]>>
=============================================================================
