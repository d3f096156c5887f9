----------------------------- MODULE Savepoints -----------------------------
(***************************************************************************)
(* What the README promises of "explicit transaction emulation with        *)
(* snapshot restore on ROLLBACK", with no SQL in it: one shared database,  *)
(* and for every session at most one saved copy of it.  Sessions are not   *)
(* isolated: a write, inside a transaction or not, is visible at once, and *)
(* an undo puts back the whole database, other sessions' work included     *)
(* ("cross-session transactional conflict detection" is listed by the      *)
(* README as not implemented).                                             *)
(***************************************************************************)
CONSTANTS Session,   \* client sessions
          State,     \* the states the database can be in
          Nothing    \* no saved copy

VARIABLES db,        \* the database every session sees
          saved      \* the copy an open transaction of a session goes back to

vars == <<db, saved>>

Init ==
    /\ db \in State
    /\ saved = [s \in Session |-> Nothing]

\* Any statement that is not transaction control.
Write ==
    /\ db' \in State
    /\ UNCHANGED saved

Save(s) ==
    /\ saved[s] = Nothing
    /\ saved' = [saved EXCEPT ![s] = db]
    /\ UNCHANGED db

\* COMMIT, and the end of the session: the data stays as it is.
Forget(s) ==
    /\ saved' = [saved EXCEPT ![s] = Nothing]
    /\ UNCHANGED db

Undo(s) ==
    /\ saved[s] # Nothing
    /\ db' = saved[s]
    /\ saved' = [saved EXCEPT ![s] = Nothing]

Next == Write \/ \E s \in Session : Save(s) \/ Forget(s) \/ Undo(s)

Spec == Init /\ [][Next]_vars
=============================================================================
