------------------------------ MODULE SshCerts ------------------------------
(***************************************************************************)
(* Certificates of golang.org/x/crypto/ssh (certs.go): how they are signed *)
(* and what CertChecker accepts, and the source-address restriction that   *)
(* serverAuthenticate enforces (server.go).  A key is a record; a plain    *)
(* key and a certificate differ in their field cert.  Times are uint64 in  *)
(* a certificate and int64 on the clock: both keep their width.            *)
(***************************************************************************)
EXTENDS Integers

CONSTANT W   \* width of a time (64)

Half == 2^(W - 1)   \* the first uint64 that is no int64
ASSUME WidthAssumption == Half \in Nat \ {0}

CertTimeInfinity == 2 * Half - 1

(* The conversion int64(t) of a uint64. *)
Int64(t) == IF t >= Half THEN t - 2 * Half ELSE t

(* What a signature covers: every field but the signature.                 *)
bytesForSigning(c) == [f \in DOMAIN c \ {"sig"} |-> c[f]]

SignCert(c, authority, nonce) ==
  LET c2 == [c EXCEPT !.nonce = nonce, !.signer = authority]
  IN [c2 EXCEPT !.sig = [by |-> authority, over |-> bytesForSigning(c2)]]

Verify(key, data, sig) == sig = [by |-> key, over |-> data]

InTime(c, now) ==
  /\ Int64(c.after) >= 0 /\ now >= Int64(c.after)
  /\ c.before = CertTimeInfinity \/ (now < Int64(c.before) /\ Int64(c.before) >= 0)

(* checker: revoked and authorities are sets, supported the critical       *)
(* options the application understands.                                    *)
CheckCert(checker, principal, c, now) ==
  /\ c.serial \notin checker.revoked
  /\ c.options \ {"source-address"} \subseteq checker.supported
  /\ c.principals = {} \/ principal \in c.principals
  /\ c.signer \in checker.authorities
  /\ InTime(c, now)
  /\ Verify(c.signer, bytesForSigning(c), c.sig)

(* CertChecker.Authenticate and CheckHostKey: the same test for a user and *)
(* for a host, on the other type of certificate; plain are the keys the    *)
(* fallback takes.                                                         *)
CheckKey(checker, plain, type, principal, key, now) ==
  IF key.cert
  THEN key.type = type /\ CheckCert(checker, principal, key, now)
  ELSE key.id \in plain

(* checkSourceAddress.  A literal address is parsed to its 16-byte form    *)
(* and compared byte by byte with the address of the connection, which may *)
(* be in its 4-byte form; a network contains either form.                  *)
checkSourceAddress(addr, option) ==
  /\ addr.tcp
  /\ \/ option.kind = "ip" /\ addr.ip = option.ip /\ addr.bytes = 16
     \/ option.kind = "cidr" /\ addr.ip \in option.ips

=============================================================================
