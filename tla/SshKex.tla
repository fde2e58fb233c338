------------------------------- MODULE SshKex -------------------------------
(***************************************************************************)
(* Key exchange of golang.org/x/crypto/ssh (kex.go) and the choice of      *)
(* algorithms (common.go), as operators.  Hashes are tuples of what is     *)
(* hashed, and a signature names its key and its text.  The groups are     *)
(* small: multiplication modulo P for Diffie-Hellman, a cyclic group of    *)
(* order Q for crypto/elliptic, one of order 8 * Q for curve25519, whose   *)
(* scalars are multiples of 8.                                             *)
(***************************************************************************)
EXTENDS Naturals, Sequences

CONSTANTS P, G, Q   \* modulus and generator of dhGroup, order of the curves

None == "none"
NoSecret == 0

(* findCommon: the first of the client's that the server also has.         *)
findCommon(client, server) ==
  LET ok == {i \in DOMAIN client : \E j \in DOMAIN server : server[j] = client[i]}
  IN IF ok = {} THEN None ELSE client[CHOOSE i \in ok : \A j \in ok : i <= j]

(* Both ends take w for writing and r for reading, though w is always the  *)
(* direction from client to server.                                        *)
findAgreedAlgorithms(c, s) ==
  [kex |-> findCommon(c.kex, s.kex), hostKey |-> findCommon(c.hostKey, s.hostKey),
   w |-> <<findCommon(c.cipherCS, s.cipherCS), findCommon(c.macCS, s.macCS)>>,
   r |-> <<findCommon(c.cipherSC, s.cipherSC), findCommon(c.macSC, s.macSC)>>]

Agreed(a) == a.kex # None /\ a.hostKey # None /\ \A i \in 1..2 : a.w[i] # None /\ a.r[i] # None

Sign(key, text) == [by |-> key, over |-> text]

(* dhGroup.  A public value out of bounds gives no secret.                 *)
diffieHellman(theirs, mine) == IF theirs \in 1..(P - 1) THEN theirs^mine % P ELSE NoSecret

dhClient(x, reply, magics) ==
  LET K == diffieHellman(reply.Y, x)
  IN [K |-> K, H |-> <<magics, reply.hostKey, G^x % P, reply.Y, K>>,
      hostKey |-> reply.hostKey, sig |-> reply.sig]

dhServer(y, init, magics, hostKey) ==
  LET Y == G^y % P
      K == diffieHellman(init.X, y)
      H == <<magics, hostKey, init.X, Y, K>>
  IN [K |-> K, H |-> H, hostKey |-> hostKey, sig |-> Sign(hostKey, H), Y |-> Y]

(* ecdh over a curve of crypto/elliptic; 0 is the point at infinity.       *)
validateECPublicKey(p) == p \in 1..(Q - 1)
ScalarMult(p, d) == IF validateECPublicKey(p) THEN (p * d) % Q ELSE NoSecret

ecdhClient(x, reply, magics) ==
  LET K == ScalarMult(reply.Y, x)
  IN [K |-> K, H |-> <<magics, reply.hostKey, x % Q, reply.Y, K>>,
      hostKey |-> reply.hostKey, sig |-> reply.sig]

ecdhServer(y, init, magics, hostKey) ==
  LET K == ScalarMult(init.X, y)
      H == <<magics, hostKey, init.X, y % Q, K>>
  IN [K |-> K, H |-> H, hostKey |-> hostKey, sig |-> Sign(hostKey, H), Y |-> y % Q]

(* curve25519sha256: a secret of zeros (a point of low order) is refused.  *)
X25519(p, d) == (p * 8 * d) % (8 * Q)

curveClient(x, reply, magics) ==
  LET K == X25519(reply.Y, x)
  IN [K |-> K, H |-> <<magics, reply.hostKey, X25519(1, x), reply.Y, K>>,
      hostKey |-> reply.hostKey, sig |-> reply.sig]

curveServer(y, init, magics, hostKey) ==
  LET K == X25519(init.X, y)
      H == <<magics, hostKey, init.X, X25519(1, y), K>>
  IN [K |-> K, H |-> H, hostKey |-> hostKey, sig |-> Sign(hostKey, H), Y |-> X25519(1, y)]

(* kexAlgoMap.                                                             *)
KexInit(alg, x) == CASE alg = "dh" -> G^x % P [] alg = "ecdh" -> x % Q [] alg = "curve25519" -> X25519(1, x)

KexClient(alg, x, reply, magics) ==
  CASE alg = "dh" -> dhClient(x, reply, magics)
    [] alg = "ecdh" -> ecdhClient(x, reply, magics)
    [] alg = "curve25519" -> curveClient(x, reply, magics)

KexServer(alg, y, init, magics, hostKey) ==
  CASE alg = "dh" -> dhServer(y, init, magics, hostKey)
    [] alg = "ecdh" -> ecdhServer(y, init, magics, hostKey)
    [] alg = "curve25519" -> curveServer(y, init, magics, hostKey)

=============================================================================
