-------------------------- MODULE MCOidcResolution ---------------------------
(***************************************************************************)
(* Two providers and configurations that agree and disagree about a token, *)
(* with keys of their own and with keys that are fetched.                  *)
(***************************************************************************)
EXTENDS OidcResolution

CONSTANTS t, alice, bob

TwoProviders == 1..2

Answering(user, remote) == [answer |-> [token \in Token |-> user], remote |-> remote]
FourConfigs ==
    {Answering(alice, FALSE), Answering(alice, TRUE), Answering(bob, FALSE), Answering(Refused, FALSE)}

Matching(p, user) == [provider |-> p, user |-> user]
\* Among them a document with an entry for each provider; the empty one is DELETE's.
TwoDocuments == {{Matching(1, alice)}, {Matching(1, bob), Matching(2, alice)}}
=============================================================================
