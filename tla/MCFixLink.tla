------------------------------ MODULE MCFixLink ------------------------------
(* Small instances of FixLink for TLC.                                      *)
EXTENDS FixLink

CONSTANTS alice, bob, w1, w2

(* Bound: a behaviour has either a heartbeat or a restart.                  *)
HeartbeatOrRestart == beats + restarts <= 1
=============================================================================
