----------------------------- MODULE KnownHosts -----------------------------
(***************************************************************************)
(* BuildKnownHosts (util.go) run by several invocations of sesh at once:   *)
(* the file is read, hosts are looked for in its text, and a shell appends *)
(* what ssh-keyscan finds for the missing ones.                            *)
(***************************************************************************)
EXTENDS Naturals, Sequences, Functions

CONSTANTS
  HostNames,
  Calls,        \* the host lists the invocations are given
  Entries,      \* the hosts that known_hosts may have at first
  Within(_, _)  \* Within(h, e): the name h is part of the entry of host e

(* An entry holds the name of its host, and a host had one entry at most.  *)
ASSUME KnownHostsAssumption ==
  /\ Calls \subseteq Seq(Seq(HostNames)) /\ Entries \subseteq Seq(HostNames)
  /\ \A h \in HostNames : Within(h, h)
  /\ \A e \in Entries : IsInjective(e)

VARIABLES
  args,       \* the hosts of each invocation
  kpc,
  content,    \* what each has read, as in the code
  looked,     \* how many hosts it has looked for in it
  not_exists, \* as in the code
  known_hosts,\* the hosts of the entries of the file
  silent      \* hosts that did not answer an invocation's scan

knownVars == <<args, kpc, content, looked, not_exists, known_hosts, silent>>

Procs == DOMAIN args
Mentions(text, h) == \E i \in DOMAIN text : Within(h, text[i])

KnownInit ==
  /\ args \in Calls /\ known_hosts \in Entries
  /\ kpc = [p \in Procs |-> "read"]
  /\ content = [p \in Procs |-> <<>>] /\ looked = [p \in Procs |-> 0]
  /\ not_exists = [p \in Procs |-> <<>>] /\ silent = [p \in Procs |-> {}]

ReadFile(p) ==
  /\ kpc[p] = "read"
  /\ content' = [content EXCEPT ![p] = known_hosts]
  /\ kpc' = [kpc EXCEPT ![p] = "look"]
  /\ UNCHANGED <<args, looked, not_exists, known_hosts, silent>>

\* mutant: known hosts are scanned again
LookAll(p) ==
  /\ kpc[p] = "look" /\ looked[p] < Len(args[p])
  /\ not_exists' = [not_exists EXCEPT ![p] = Append(@, args[p][looked[p] + 1])]
  /\ looked' = [looked EXCEPT ![p] = @ + 1]
  /\ UNCHANGED <<args, kpc, content, known_hosts, silent>>

(* A turn of the loop over the hosts.                                      *)
Look(p) ==
  /\ kpc[p] = "look" /\ looked[p] < Len(args[p])
  /\ LET host == args[p][looked[p] + 1]
     IN not_exists' = IF Mentions(content[p], host) THEN not_exists
                      ELSE [not_exists EXCEPT ![p] = Append(@, host)]
  /\ looked' = [looked EXCEPT ![p] = @ + 1]
  /\ UNCHANGED <<args, kpc, content, known_hosts, silent>>

Looked(p) ==
  /\ kpc[p] = "look" /\ looked[p] = Len(args[p])
  /\ kpc' = [kpc EXCEPT ![p] = IF not_exists[p] = <<>> THEN "done" ELSE "scan"]
  /\ UNCHANGED <<args, content, looked, not_exists, known_hosts, silent>>

(* ssh-keyscan writes the entry of a host that answers.                    *)
Scan(p) ==
  /\ kpc[p] = "scan" /\ not_exists[p] # <<>>
  /\ LET h == Head(not_exists[p])
     IN \/ known_hosts' = Append(known_hosts, h) /\ UNCHANGED silent
        \/ silent' = [silent EXCEPT ![p] = @ \cup {h}] /\ UNCHANGED known_hosts
  /\ not_exists' = [not_exists EXCEPT ![p] = Tail(@)]
  /\ UNCHANGED <<args, kpc, content, looked>>

Scanned(p) ==
  /\ kpc[p] = "scan" /\ not_exists[p] = <<>>
  /\ kpc' = [kpc EXCEPT ![p] = "done"]
  /\ UNCHANGED <<args, content, looked, not_exists, known_hosts, silent>>

KnownNext == \E p \in Procs : ReadFile(p) \/ Look(p) \/ Looked(p) \/ Scan(p) \/ Scanned(p)

KnownSpec == KnownInit /\ [][KnownNext]_knownVars

-----------------------------------------------------------------------------
(* When a call returns, the text of known_hosts holds the name of each of  *)
(* its hosts that answered, whatever other invocations do meanwhile.       *)
ListedOrSilent ==
  \A p \in Procs : kpc[p] = "done" =>
    \A i \in DOMAIN args[p] : Mentions(known_hosts, args[p][i]) \/ args[p][i] \in silent[p]

(* A host is entered again only by another invocation that was under way,  *)
(* or because a call names it twice.                                       *)
TwiceOnlyWhenRacing ==
  Len(args) = 1 /\ IsInjective(args[1]) => IsInjective(known_hosts)

(* After BuildKnownHosts a host is in the file or did not answer; two      *)
(* entries of it need two invocations, or a host named twice.              *)
KnownHostsComplete == ListedOrSilent /\ TwiceOnlyWhenRacing

=============================================================================
