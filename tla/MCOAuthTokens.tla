---------------------------- MODULE MCOAuthTokens ----------------------------
(* OAuthTokens on small instances. *)
EXTENDS OAuthTokens

CONSTANTS f1, f2,       \* flows
          w1            \* a detached worker
=============================================================================
