--------------------------- MODULE MCSshConnection ---------------------------
(* Instances of SshTransport, SshAuth and SshMux, the layers of an SSH     *)
(* connection: part names the one a behaviour is about, the variables of   *)
(* the others are idle, those of SshAuth rest in one first state.          *)
EXTENDS SshAuth

CONSTANTS Parts, TransportConfigs

VARIABLES part,
  bounds, net, lost, closed, loop, fault, chans, incoming, obj, asking, global,
  cfg, up, wire, t

Idle == "idle"

-----------------------------------------------------------------------------
(* Data on three streams of one channel; two channels one after the other  *)
(* or at once; requests; a connection that ends.                           *)
Case(opens, writers, bytes, streams, requests, globals, breaks) ==
  [opens |-> opens, writers |-> writers, bytes |-> bytes, streams |-> streams,
   requests |-> requests, globals |-> globals, breaks |-> breaks]

MCScenarios == {
  Case(1, {"client"}, 4, {0}, 0, 0, FALSE),
  Case(1, {"server"}, 2, {0, 1}, 0, 0, FALSE),
  Case(1, {"client"}, 3, {0, 2}, 0, 0, FALSE),
  Case(1, {}, 0, {}, 3, 0, FALSE),
  Case(2, {}, 0, {}, 0, 0, FALSE),
  Case(1, {"server"}, 1, {0}, 0, 0, TRUE),
  Case(1, {}, 0, {}, 1, 0, TRUE),
  Case(0, {}, 0, {}, 0, 2, TRUE)
}

MX == INSTANCE SshMux WITH Scenarios <- MCScenarios, Window <- 3, MaxPacket <- 2, QueueSize <- 1, MaxUint32 <- 5

-----------------------------------------------------------------------------
(* Every key exchange, lists that agree in another order or not at all, an *)
(* unknown host, a broken connection, and readers that answer from their   *)
(* read loop.                                                              *)
Lists(kex, ciphers, hostKey) == [kex |-> kex, ciphers |-> ciphers, hostKey |-> hostKey, macs |-> <<"sha1">>]
Std(kex) == Lists(<<kex>>, <<"ctr", "gcm">>, <<"rsa">>)
Conf(c, s, secrets, writes, known, breaks) ==
  [client |-> c, server |-> s, secrets |-> secrets, known |-> known, breaks |-> breaks, echo |-> {},
   writes |-> [client |-> writes[1], server |-> writes[2]]]

MCConfigs == {
  Conf(Std("curve25519"), Std("curve25519"), {2, 3}, <<0, 0>>, TRUE, FALSE),
  Conf(Std("ecdh"), Std("ecdh"), {2}, <<2, 1>>, TRUE, TRUE),
  Conf(Lists(<<"ecdh", "dh">>, <<"gcm", "ctr">>, <<"dsa", "rsa">>), Lists(<<"dh", "ecdh">>, <<"ctr", "gcm">>, <<"rsa">>),
       {3}, <<3, 2>>, TRUE, FALSE),
  Conf(Std("dh"), Std("dh"), {2, 3}, <<1, 1>>, FALSE, FALSE),
  Conf(Lists(<<"dh">>, <<"gcm">>, <<"rsa">>), Lists(<<"dh">>, <<"ctr">>, <<"rsa">>), {2}, <<1, 1>>, TRUE, FALSE),
  [Conf(Std("ecdh"), Std("ecdh"), {2}, <<1, 1>>, TRUE, FALSE) EXCEPT !.echo = {"client", "server"}]}

(* A mux writes from the goroutine that reads incoming.                    *)
EchoConfigs == {[Conf(Std("ecdh"), Std("ecdh"), {2}, <<2, 4>>, TRUE, FALSE) EXCEPT !.echo = {"client"}]}

TR == INSTANCE SshTransport WITH
        P <- 7, G <- 3, Q <- 5, Configs <- TransportConfigs, RekeyThreshold <- 1, IncomingSize <- 1, SeqNums <- 4

-----------------------------------------------------------------------------
(* The two lists of methods of sesh and two others, a plain key, one of an *)
(* algorithm the server does not know, a certificate that holds, one that  *)
(* has just expired, and the two that hold and are refused.                *)
Plain == [cert |-> FALSE, id |-> 1, algo |-> "rsa", source |-> [kind |-> ""]]
Odd == [Plain EXCEPT !.algo = "ed25519"]
Blank == [cert |-> TRUE, id |-> 2, algo |-> "ecdsa", source |-> [kind |-> ""], serial |-> 1,
          type |-> "user", options |-> {}, principals |-> {"u"}, nonce |-> 0,
          after |-> 0, before |-> 2, signer |-> "", sig |-> ""]
Good == SignCert([Blank EXCEPT !.before = CertTimeInfinity, !.options = {"source-address"},
                                  !.source = [kind |-> "cidr", ips |-> {"here"}]], "ca", 7)
Late == SignCert(Blank, "ca", 8)
Far == SignCert([Blank EXCEPT !.before = Half + 1], "ca", 9)
Here == SignCert([Blank EXCEPT !.before = CertTimeInfinity, !.options = {"source-address"},
                               !.source = [kind |-> "ip", ip |-> "here"]], "ca", 10)

MCClients ==
  {[auth |-> a, password |-> p, signers |-> <<Plain>>, work |-> TRUE] :
     a \in {<<"password">>, <<"password", "publickey">>}, p \in {"", "right", "wrong"}}
  \cup {[auth |-> a, password |-> p, signers |-> k, work |-> FALSE] :
     a \in {<<"publickey", "password">>, <<"keyboard-interactive", "publickey">>},
     p \in {"right", "wrong"}, k \in {<<Late, Plain>>, <<Plain, Good>>, <<Late, Odd>>, <<Far, Here>>}}

MCServers ==
  {[none |-> FALSE, on |-> on, keys |-> ks, secret |-> "right", algos |-> {"rsa", "ecdsa"},
    checker |-> [revoked |-> {}, authorities |-> {"ca"}, supported |-> {}]] :
     on \in SUBSET {"password", "publickey", "keyboard-interactive"}, ks \in {{}, {1}}}
  \cup {[none |-> TRUE, on |-> {"password"}, keys |-> {}, secret |-> "right", algos |-> {"rsa", "ecdsa"},
         checker |-> [revoked |-> {}, authorities |-> {}, supported |-> {}]]}

MCAddr == [tcp |-> TRUE, ip |-> "here", bytes |-> 4]

-----------------------------------------------------------------------------
mxVars == <<bounds, net, lost, closed, loop, fault, chans, incoming, obj, asking, global>>
trVars == <<cfg, up, wire, t>>
vars == <<part, mxVars, trVars, authVars>>

IdleMX ==
  /\ bounds = Idle /\ net = Idle /\ lost = Idle /\ closed = Idle /\ loop = Idle /\ fault = Idle
  /\ chans = Idle /\ incoming = Idle /\ obj = Idle /\ asking = Idle /\ global = Idle
IdleTR == cfg = Idle /\ up = Idle /\ wire = Idle /\ t = Idle
RestAU == AuthInit /\ config = (CHOOSE c \in Clients : TRUE) /\ srv = (CHOOSE s \in Servers : TRUE)

Init ==
  /\ part \in Parts
  /\ \/ part = "mux" /\ MX!Init /\ IdleTR /\ RestAU
     \/ part = "transport" /\ TR!Init /\ IdleMX /\ RestAU
     \/ part = "auth" /\ AuthInit /\ IdleMX /\ IdleTR

Next ==
  \/ part = "mux" /\ MX!Next /\ UNCHANGED <<part, trVars, authVars>>
  \/ part = "transport" /\ TR!Next /\ UNCHANGED <<part, mxVars, authVars>>
  \/ part = "auth" /\ AuthNext /\ UNCHANGED <<part, mxVars, trVars>>

Progress ==
  \/ part = "mux" /\ MX!Progress /\ UNCHANGED <<part, trVars, authVars>>
  \/ part = "transport" /\ TR!Progress /\ UNCHANGED <<part, mxVars, authVars>>
  \/ part = "auth" /\ AuthProgress /\ UNCHANGED <<part, mxVars, trVars>>

Spec == Init /\ [][Next]_vars /\ WF_vars(Progress)

-----------------------------------------------------------------------------
(* SshMux: no error of the protocol between two ends of this library, no   *)
(* Go channel beyond its capacity; packets reach the channel they are for, *)
(* though numbers are used again, and an answer is that to the request.    *)
ChannelsClean == part = "mux" => MX!TypeOK /\ MX!ProtocolClean /\ MX!RightChannel /\ MX!ReplyMatches

(* SshMux: no credit of a window is lost or made, a stream is read as it   *)
(* was written, and its end comes after all of it (WriteExtended, reserve, *)
(* handleData, ReadExtended, adjustWindow).                                *)
StreamsWhole == part = "mux" => MX!WindowConserved /\ MX!ByteStream /\ MX!EofMeansAll

(* SshMux: no caller waits for ever, and a closed channel is forgotten by  *)
(* both ends (SendRequest, openChannel, reserve, dropAll).                 *)
ChannelCallsReturn == []<>(part = "mux" => MX!CallsOver) /\ []<>(part = "mux" => MX!CloseOver)

(* SshTransport: reader and writer stay in step over every key change,     *)
(* which fails only for a reason; there is one session, whose ID never     *)
(* changes, no data outside it, and packets are read in order              *)
(* (enterKeyExchange, prepareKeyChange, readPacket, writePacket).          *)
KeysInStep ==
  /\ [](part = "transport" => TR!TypeOK /\ TR!KeysInStep /\ TR!KexClean /\ TR!OneSession /\ TR!DataInOrder)
  /\ [][part = "transport" => TR!SessionStep]_vars

(* SshTransport: a key change ends and releases every writer.              *)
WritesReleased == []<>(part = "transport" => TR!Released)

(* SshAuth: both ends finish.                                              *)
AuthEnds == []<>(part = "auth" => Finished)

=============================================================================
