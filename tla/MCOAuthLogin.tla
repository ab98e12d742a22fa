---- MODULE MCOAuthLogin ----
(* OAuthLogin with the logins TLC looks at. *)
EXTENDS OAuthLogin
CONSTANTS l1, l2
====
