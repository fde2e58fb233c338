----------------------------- MODULE HostQueue -----------------------------
(***************************************************************************)
(* What the user of sesh is promised about a run over n hosts: hosts are   *)
(* started in the order of the list, each at most once; those that run at  *)
(* a time lie within limit consecutive places of the list; a whole group   *)
(* of hosts may be dropped, but only while nothing runs; a run is reported *)
(* finished only when every host has been dealt with and nothing runs.     *)
(***************************************************************************)
EXTENDS Integers

VARIABLES
  n, limit,  \* hosts, and the most that may run at a time; never change
  next,      \* hosts started or dropped so far
  running,   \* hosts being worked on
  done,      \* hosts worked on to the end
  outcome    \* "running", "finished" or "aborted"

queueVars == <<n, limit, next, running, done, outcome>>

Init ==
  /\ n \in Nat /\ limit \in Nat \ {0}
  /\ next = 0 /\ running = {} /\ done = {}
  /\ outcome = "running"

Launch ==
  /\ next < n /\ \A i \in running : next - i < limit
  /\ running' = running \cup {next}
  /\ next' = next + 1
  /\ UNCHANGED <<n, limit, done, outcome>>

Complete(i) ==
  /\ i \in running
  /\ running' = running \ {i}
  /\ done' = done \cup {i}
  /\ UNCHANGED <<n, limit, next, outcome>>

Drop(k) ==
  /\ running = {} /\ next + k <= n
  /\ next' = next + k
  /\ UNCHANGED <<n, limit, running, done, outcome>>

Finish ==
  /\ running = {} /\ next = n
  /\ outcome' = "finished"
  /\ UNCHANGED <<n, limit, next, running, done>>

Abort ==
  /\ outcome' = "aborted"
  /\ UNCHANGED <<n, limit, next, running, done>>

Next ==
  /\ outcome = "running"
  /\ \/ Launch
     \/ \E i \in running : Complete(i)
     \/ \E k \in 1 .. limit : Drop(k)
     \/ Finish
     \/ Abort

Spec == Init /\ [][Next]_queueVars

=============================================================================
