---- MODULE MCQuotaPage ----
(* QuotaPage with three accounts, one of claude's, on two pages; a filter leaves one. *)
EXTENDS QuotaPage
CONSTANTS a, b, c
MCPages == [all |-> <<{a, c}, {b}>>, codex |-> <<{a}>>]
====
