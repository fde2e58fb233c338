----------------------------- MODULE SshSession -----------------------------
(***************************************************************************)
(* A Session (ssh/session.go) over a channel: Start, the goroutines that   *)
(* copy standard input, output and error, the goroutine wait that reads    *)
(* the requests of the remote side, and Wait.  The channel is what SshMux  *)
(* promises: data in order, requests in order and blocking when their      *)
(* queue is full, an end after all of it.  A piece of output or a request  *)
(* is known by its place in what the remote sends.                         *)
(***************************************************************************)
EXTENDS Integers, Sequences, FiniteSets

CONSTANTS
  Runs,       \* [reply, events the remote sends, stdin, sinks: streams that are copied, writer]
  ReqSize     \* capacity of the queue of requests (16)

(* The remote closes the channel at the end; it has no other streams.      *)
ASSUME RunsAssumption ==
  \A x \in Runs :
    /\ x.events \in Seq({x.events[n] : n \in DOMAIN x.events}) /\ x.sinks \subseteq {"out", "err"}
    /\ \A n \in DOMAIN x.events : x.events[n].t = "close" => n = Len(x.events)

VARIABLES
  r,
  came,       \* how many events have come through the mux
  buf,        \* out and err read from the wire, not yet copied
  eof,        \* the channel is closed
  reqs,       \* queue of requests
  wm,         \* Waitmsg of wait; st: reading, ended or, for a bad signal, failed
  copy,       \* each copyFunc: run, ok, fail
  pipeEnd,    \* the write end of the pipe for Stdin is closed
  dest,       \* what the writers got
  call,       \* the user: new, started, waiting, returned
  result

seVars == <<r, came, buf, eof, reqs, wm, copy, pipeEnd, dest, call, result>>

Streams == {"out", "err"}

SessionInit ==
  /\ r \in Runs
  /\ came = 0 /\ buf = [s \in Streams |-> <<>>] /\ eof = FALSE /\ reqs = <<>>
  /\ wm = [status |-> -1, signal |-> "", st |-> "reading"]
  /\ copy = [s \in {} |-> "run"] /\ pipeEnd = FALSE /\ dest = <<>> /\ call = "new" /\ result = "none"

(* Start and start: the request, then one goroutine for each stream that   *)
(* is not a pipe of the user's.                                            *)
Start ==
  /\ call = "new"
  /\ IF r.reply = "yes"
     THEN /\ call' = "started"
          /\ copy' = [s \in r.sinks \cup (IF r.stdin = "pipe" THEN {} ELSE {"in"}) |-> "run"]
          /\ UNCHANGED result
     ELSE call' = "returned" /\ result' = "refused" /\ UNCHANGED copy
  /\ UNCHANGED <<r, came, buf, eof, reqs, wm, pipeEnd, dest>>

(* The mux brings what the remote sends; a full queue of requests stops it.*)
Arrive ==
  /\ call # "new" /\ came < Len(r.events) /\ came' = came + 1
  /\ LET e == r.events[came + 1]
     IN \/ e.t \in Streams /\ buf' = [buf EXCEPT ![e.t] = Append(@, came + 1)] /\ UNCHANGED <<reqs, eof>>
        \/ e.t = "req" /\ Len(reqs) < ReqSize /\ reqs' = Append(reqs, came + 1) /\ UNCHANGED <<buf, eof>>
        \/ e.t = "close" /\ eof' = TRUE /\ UNCHANGED <<buf, reqs>>
  /\ UNCHANGED <<r, wm, copy, pipeEnd, dest, call, result>>

(* wait: requests until the queue is closed; a signal that cannot be       *)
(* parsed ends it at once.                                                 *)
WaitReads ==
  /\ wm.st = "reading" /\ reqs # <<>>
  /\ LET q == r.events[Head(reqs)]
     IN wm' = CASE q.name = "exit-status" -> [wm EXCEPT !.status = q.arg]
                [] q.name = "exit-signal" -> [wm EXCEPT !.signal = "TERM"]
                [] q.name = "bad-signal" -> [wm EXCEPT !.st = "failed"]
                [] OTHER -> wm
  /\ reqs' = Tail(reqs)
  /\ UNCHANGED <<r, came, buf, eof, copy, pipeEnd, dest, call, result>>

WaitEnds ==
  /\ wm.st = "reading" /\ reqs = <<>> /\ eof
  /\ wm' = [wm EXCEPT !.st = "ended"]
  /\ UNCHANGED <<r, came, buf, eof, reqs, copy, pipeEnd, dest, call, result>>

(* The value of wait: nil only for status 0, an ExitError for another      *)
(* status or a signal, a plain error when there was neither.               *)
verdict(w) ==
  CASE w.st = "failed" -> "parse"
    [] w.st = "ended" /\ w.status = 0 -> "nil"
    [] w.st = "ended" /\ w.status = -1 /\ w.signal = "" -> "missing"
    [] OTHER -> "exit"

(* io.Copy of out or err; a writer may fail.                               *)
Copy(s) ==
  /\ s \in DOMAIN copy /\ copy[s] = "run"
  /\ \/ /\ buf[s] # <<>>
        /\ \/ dest' = Append(dest, Head(buf[s])) /\ UNCHANGED copy
           \/ r.writer = "fails" /\ copy' = [copy EXCEPT ![s] = "fail"] /\ UNCHANGED dest
        /\ buf' = [buf EXCEPT ![s] = Tail(@)]
     \/ buf[s] = <<>> /\ eof /\ copy' = [copy EXCEPT ![s] = "ok"] /\ UNCHANGED <<buf, dest>>
  /\ UNCHANGED <<r, came, eof, reqs, wm, pipeEnd, call, result>>

(* Standard input: nil and a short reader come to their end, one with more *)
(* data ("busy") fails when the channel is closed, and one that blocks is  *)
(* cut off when Wait closes the pipe it is copied through.                 *)
CopyIn ==
  /\ "in" \in DOMAIN copy /\ copy["in"] = "run"
  /\ \/ (r.stdin \in {"nil", "short"} \/ pipeEnd) /\ copy' = [copy EXCEPT !["in"] = "ok"]
     \/ r.stdin = "busy" /\ eof /\ copy' = [copy EXCEPT !["in"] = "fail"]
  /\ UNCHANGED <<r, came, buf, eof, reqs, wm, pipeEnd, dest, call, result>>

Wait ==
  /\ call = "started" /\ call' = "waiting"
  /\ UNCHANGED <<r, came, buf, eof, reqs, wm, copy, pipeEnd, dest, result>>

(* <-s.exitStatus, then the pipe is closed.                                *)
GotStatus ==
  /\ call = "waiting" /\ wm.st # "reading"
  /\ call' = "copies" /\ pipeEnd' = TRUE
  /\ UNCHANGED <<r, came, buf, eof, reqs, wm, copy, dest, result>>

\* mutant: Wait returns with the first copy that ends
ReturnsEarly ==
  /\ call = "copies" /\ \E s \in DOMAIN copy : copy[s] # "run"
  /\ call' = "returned"
  /\ result' = IF verdict(wm) # "nil" THEN verdict(wm)
               ELSE IF \E s \in DOMAIN copy : copy[s] = "fail" THEN "copy" ELSE "nil"
  /\ UNCHANGED <<r, came, buf, eof, reqs, wm, copy, pipeEnd, dest>>

Returns ==
  /\ call = "copies" /\ \A s \in DOMAIN copy : copy[s] # "run"
  /\ call' = "returned"
  /\ result' = IF verdict(wm) # "nil" THEN verdict(wm)
               ELSE IF \E s \in DOMAIN copy : copy[s] = "fail" THEN "copy" ELSE "nil"
  /\ UNCHANGED <<r, came, buf, eof, reqs, wm, copy, pipeEnd, dest>>

SessionNext ==
  \/ Start \/ Arrive \/ WaitReads \/ WaitEnds \/ (\E s \in Streams : Copy(s)) \/ CopyIn
  \/ Wait \/ GotStatus \/ Returns

SessionSpec == SessionInit /\ [][SessionNext]_seVars

-----------------------------------------------------------------------------
Of(s) == {n \in DOMAIN r.events : r.events[n].t = s}

(* The writers get the output of the streams they are for, each stream in  *)
(* order, without a gap and nothing twice, at any time.  Both may be one   *)
(* and the same, as in a sesh task: then they are mixed but not torn.      *)
Gapless ==
  \A i \in DOMAIN dest :
    /\ dest[i] \in UNION {Of(s) : s \in r.sinks}
    /\ \A n \in Of(r.events[dest[i]].t) : n < dest[i] => \E j \in 1 .. i - 1 : dest[j] = n
    /\ \A j \in 1 .. i - 1 : dest[j] # dest[i]

(* When Run returns, a writer that has not failed has all the remote sent. *)
AllOutput ==
  call = "returned" /\ result # "refused" =>
    \A s \in r.sinks : copy[s] # "fail" => \A n \in Of(s) : \E i \in DOMAIN dest : dest[i] = n

Statuses == {n \in Of("req") : r.events[n].name = "exit-status"}
BadSignals == {n \in Of("req") : r.events[n].name = "bad-signal"}

(* Run returns nil if and only if the last status was zero, every copy was *)
(* good and no signal was unreadable ("has no problems copying stdin,      *)
(* stdout, and stderr, and exits with a zero exit status", session.go).    *)
NilMeansSuccess ==
  call = "returned" /\ result # "refused" =>
    (result = "nil" <=>
       /\ BadSignals = {} /\ \A s \in DOMAIN copy : copy[s] = "ok"
       /\ \E n \in Statuses : r.events[n].arg = 0 /\ \A m \in Statuses : m <= n)

(* Run returns with all the output, and with nil just for a status of zero *)
(* and good copies, in whatever order output, requests and the end of the  *)
(* channel come and the goroutines run (Start, wait, Wait).                *)
RunReports == Gapless /\ AllOutput /\ NilMeansSuccess

(* Run returns once the channel is closed, though the command never read   *)
(* its input, unless wait gave up on a signal it could not parse and left  *)
(* more requests behind than the queue has room for.                       *)
Unread == \E n \in BadSignals : Cardinality({m \in Of("req") : m > n}) > ReqSize

=============================================================================
