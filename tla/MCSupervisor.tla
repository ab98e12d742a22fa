---- MODULE MCSupervisor ----
(* Supervisor with the children TLC looks at. *)
EXTENDS Supervisor
CONSTANTS p1, p2, p3, d1, d2
Three == {"headroom", "cloudflared", "tailscale"}
====
