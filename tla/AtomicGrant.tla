----------------------------- MODULE AtomicGrant -----------------------------
(***************************************************************************)
(* What a connection attempt promises, as if authentication and the choice *)
(* of the policy were one instant: a grant goes to a credential that is    *)
(* usable then, under the policy its catalog has then, and never changes;  *)
(* an attempt opens at most one session, and that session holds its grant. *)
(***************************************************************************)
CONSTANTS Attempt, Credential, Catalog, CatalogOf, Policy, Ungranted

VARIABLES usable,    \* the credentials that open sessions
          policy,    \* the policy of every catalog
          grant,     \* what an attempt was granted: its credential and policy
          opened,    \* the attempts that have opened their session
          sessions   \* the sessions that are open, each with its grant

vars == <<usable, policy, grant, opened, sessions>>

Init ==
    /\ usable = {}
    /\ policy \in [Catalog -> Policy]
    /\ grant = [a \in Attempt |-> Ungranted]
    /\ opened = {}
    /\ sessions = {}

\* Credentials are issued, revoked and expire; policies are put and deleted.
Administer ==
    /\ usable' \subseteq Credential
    /\ policy' \in [Catalog -> Policy]
    /\ UNCHANGED <<grant, opened, sessions>>

Grant(a, c) ==
    /\ grant[a] = Ungranted
    /\ c \in usable
    /\ grant' = [grant EXCEPT ![a] = [credential |-> c, policy |-> policy[CatalogOf[c]]]]
    /\ UNCHANGED <<usable, policy, opened, sessions>>

Open(a) ==
    /\ grant[a] # Ungranted
    /\ a \notin opened
    /\ opened' = opened \cup {a}
    /\ sessions' = sessions \cup {[attempt |-> a, grant |-> grant[a]]}
    /\ UNCHANGED <<usable, policy, grant>>

Close(a) ==
    /\ sessions' = {s \in sessions : s.attempt # a}
    /\ UNCHANGED <<usable, policy, grant, opened>>

Next ==
    \/ Administer
    \/ \E a \in Attempt :
          \/ \E c \in Credential : Grant(a, c)
          \/ Open(a)
          \/ Close(a)

Spec == Init /\ [][Next]_vars
=============================================================================
