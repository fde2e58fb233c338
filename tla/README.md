# TLA+ model of sesh

sesh runs a command on many hosts over ssh: one after the other, or in
parallel batches with a realtime view of the output. The repository carries its
ssh library, golang.org/x/crypto, with it. This directory holds TLA+ models of
the program and of the protocol parts of the library, TLC configurations that
check them on small instances, and proofs checked by TLAPS.

    tlc -workers 2 -config MCBatchRun.cfg MCBatchRun     # model-check
    tlapm SshAuthProofs.tla                              # check proofs

`PROJECT.json` lists the parts of the system with what is and is not modelled, the
runs with their properties, the lines every definition models, and the hazards,
findings and theorems.

## The system

| Part | Source | Modelled in |
|---|---|---|
| options, hosts, file sending | `main.go` 15-173, `hlp.go`, `templ/`, `util/util.go` ScpRun | `FrontEnd` |
| known hosts | `util/util.go` BuildKnownHosts | `KnownHosts` |
| batch engine, task | `main.go` 174-207, `util/util.go` SerialRun, ParallelRun, `batch/ssh.go` | `BatchRun`, `HostQueue` |
| remote script, `@auth.cmd` | `util/helper.go` | `RemoteScript` |
| realtime view: lifetime, host list, tail | `dircat/`, `gocui/gui.go` | `LiveView`, `SideList`, `TailFile` |
| views, editing, drawing | `gocui/` | `GuiViews` |
| packets, key exchange, transport | `ssh/cipher.go`, `kex.go`, `handshake.go`, `transport.go` | `SshPackets`, `SshKex`, `SshTransport` |
| authentication, certificates | `ssh/client_auth.go`, `server.go`, `certs.go` | `SshAuth`, `SshCerts` |
| channels, sessions, forwarding | `ssh/mux.go`, `channel.go`, `buffer.go`, `session.go`, `tcpip.go` | `SshMux`, `SshSession`, `SshForward` |
| agent | `ssh/agent/` | `SshAgent` |
| line editor | `ssh/terminal/terminal.go` | `Terminal`, `TerminalInput` |
| OTR | `otr/` | `Otr`, `Smp`, `OtrFragments` |
| OpenPGP | `openpgp/` | `PgpPackets`, `PgpCodec`, `PgpEntities`, `PgpKeyRing`, `PgpMessage`, `PgpStream`, `PgpText` |

How the parts interact: `main` reads the options (`FrontEnd`), fills known_hosts
(`KnownHosts`) and calls SerialRun or, batch by batch, ParallelRun (`BatchRun`).
ParallelRun starts a goroutine per host, which dials (`SshAuth`), starts a session
(`SshSession`) with the text of format_cmd (`RemoteScript`) and writes to two tmp
files; a goroutine that serves interrupts; and, on a terminal, a view with three more
goroutines (`LiveView`), which shows a list of hosts (`SideList`) and the tail of the
selected file (`TailFile`). A session is a channel of a mux (`SshMux`) over a transport
with changing keys (`SshTransport`, `SshKex`) over packets (`SshPackets`). The rest of
the library has its own users and is modelled for itself.

What is hard about it: batches must not overlap nor miss or repeat a host, for
any degree, list length and `--check`; concurrent output must come out in
blocks; a signal may come at any step; errors of `os.Create`, `os.Mkdir` and
`dircat.Init` are dropped; Stop addresses two goroutines through one channel of
capacity one; invocations share known_hosts and remote machines. In the library,
both ends of a connection act at once: they open, close and reuse channels, charge
windows, change keys while they write, and may be cut off at any step.

## Modules

### BatchRun, the engine

`pc` is the place of the main goroutine. The labels follow the code: `begin`,
`serial`/`work` (SerialRun), `prompt`/`login`/`confirm` (the operator in
`--check`), `dispatch`, `loop` (the batch loop of `main`), `mkdir`, `notify`,
`create`, `wait`, `merge`, `remove` (ParallelRun), `finish`. `start`, `end` and
`cur` are the slice and loop index of the current call. `task[i]` is the state of
Work for host `i`: `idle`, `dial`, `session`, `failed` or `done`.

The file system is modelled as far as the properties need it: `dirs` are the
directories that exist, `ent` the entries of the current one, `data` the contents
of inodes, `fd` what a task writes to. So a name created twice leads to one
inode that the second Create truncates, a file whose entry was removed is still
written to, and each writer has its own offset (`WriteAt`). A Create fails when
the directory is gone or `FdLimit` files are open.

`notified`, `queued` and `handler` model `signal.Notify`, its channel of capacity
one and the goroutine behind it, which the code never ends. `os.RemoveAll` is two
steps in that goroutine (entries, directory). An interrupt that no channel
receives ends the process. SIGKILL cannot be caught and is left out.

Data abstracted: a line of output is a record of its task and number, a
connection failure is one line on the error file.

*HostQueue* is what the engine promises. Hosts `0 .. n-1` are launched in order, each
once; a host is launched only if every running one is less than `limit` places behind; a
run finishes when nothing runs and nothing is left; a host may be dropped unrun (a batch
whose directory could not be made); the process may abort at any time. `BatchRun`
implements it: `next` is the number of hosts handed out or skipped, `running` the tasks
between NewTask and Done.

### Around the engine

*FrontEnd*: `main` from the options to the run, one action per stretch between two
early returns (`hosts`, `identity`, `verb`, `command`, `send`, `sending`); `sync` are the goroutines of
ScpRun, `told` what they print. Texts are sequences of characters, so that separators and
empty words are what they are; a template is text with names in it that data replaces.

*KnownHosts*: several invocations read the file, test for each host whether its name occurs
in it (as part of a longer name too: `Within`), and append what ssh-keyscan prints.

*RemoteScript*: what the remote shell does with the three forms format_cmd gives a command
(plain, piped, script file), and with `@auth.cmd`. A script file goes through create, write,
chmod, exec, run and remove; the first four may fail, and the next step is then remove. Machines share a disk or not, and names come
from a clock, so files are modelled as in `BatchRun`: `names` lead to inodes (`data`), `>`
truncates what is there, and each shell reads and writes at its own offset (`fd`), also when the
name is gone. `@auth.cmd` tests and appends in two steps; `Matches` is what grep finds, a
constant, because the comment of a key is used as a pattern.

*LiveView*: the main goroutine (`pc`) goes through `dircat.Init` in the steps that write
shared variables (`files`, `file_offset`, the terminal), waits for the tasks, sends the two
messages of Stop, merges, and begins the next batch. `view[b]` and `flusher[b]` are the two
goroutines of batch `b` that Stop addresses; `messages[b]` is the length of `UserMessage`,
`events[b]` the keys in the event channel. The poller of a view outlives it, so `Type` may
give a key to any of them. `term` is the batch whose Init holds the terminal.

*SideList*: `term` is the true height of the terminal, `maxY` the height the Gui saw at its
last Flush; the two differ until the resize is noticed. `side` is what was last written to
the list. Flushes of the flusher goroutine come at any time. The width is left out.

*TailFile*: one action per loop iteration of TailFile and GetLineByPosition, so that appends
(`Grow`) and the removal of the path (`Unlink`) fall between them. `ScanLen` is the part of
`bufio.Scanner` that matters: where the line ends, the dropped carriage return, length 0
for a line beyond the buffer.

*GuiViews*: the list of views with their buffers, cursors and origins, editing in both
modes, focus, and the cells of the screen after a Flush: frames with their corners, and lines
from the origin of each view on.

### The ssh library

*SshPackets*: version lines, then packets in one of four forms (none, stream, gcm, cbc),
with padding, length, MAC and sequence number, over a line that changes, drops and
repeats bytes once. Both ends derive the keys of both directions (newTransport, generateKeys),
and ciphers and MACs depend on them. Ciphers, MACs and hashes are small functions of the same
shape: what matters is which bytes, keys and counters go in.

*SshKex*, *SshTransport*: two ends, each with the read loop, a writer and the `incoming`
queue of a handshakeTransport. The exchange is computed in a small group, so that both
ends really derive a secret and hash what they saw. `t[e]` has the fields of the struct:
the init message that is out, the keys of both directions, the pending packet.

*SshAuth*, *SshCerts*: the method loop of clientAuthenticate against the loop of
serverAuthenticate with its cache of public keys, and the two Dials of Task.Work.
`client.pc` is the read the client waits in (`accept`, `response`, `ack`, `signed`, `info`),
`server.pc` that of the server (`service`, `loop`, `challenge`); `c2s` and `s2c` are the packets
between them. A certificate is checked as CheckCert does, with 64-bit times cut to `W` bits.

*SshMux*: two muxes. `chans[e]` is chanList, `obj[o]` a channel with its windows, buffers,
requests and flags; `net` the packets under way. Writers reserve and send in two steps,
readers read and give the window back in two.

*SshSession*: Start, Wait and the copying goroutines, over the events the remote side
sends; `came` counts those the mux has brought, `buf` and `reqs` are the buffers and the
queue, `dest` what the writers got, by the places of the events. *SshForward*: the list of listeners, the goroutine that forwards under its mutex,
Accept, Close and the end of the connection. *SshAgent*: the keyring behind a mutex, one
ServeAgent per connection, clients shared by goroutines.

*Terminal*: handleKey and the functions it calls on the line, and the escape sequences they
write, carried out by a screen that wraps as terminals do; other goroutines write, resize
and change the prompt while ReadLine or ReadPassword waits; `scr.painted` is what a resize has
painted of a password. *TerminalInput*: bytesToKey on input in
pieces.

### Messages

*Otr*: two conversations in one network that loses and repeats messages; a key is a number,
a MAC the list of what goes into it. *Smp*: the four messages of an authentication in a group
of order 11, also begun by both at once. *OtrFragments*: cutting and joining with real lengths,
and the size that makes encode divide by zero.

*PgpPackets*, *PgpCodec*: headers, partial lengths and the contents of packets as sequences of
bytes, written and read back. *PgpEntities*, *PgpKeyRing*: which packets become part of a
key, how reading recovers, how keys are chosen; a signature is a record of who signed
what. *PgpMessage*: Encrypt, Sign, SymmetricallyEncrypt and DetachSign against ReadMessage
and CheckDetachedSignature, and messages of another program without a modification detection
code. *PgpStream*: cipher feedback with and without that code, with reads of any size. *PgpText*: armor, clear signing, canonical text, the count of
iterated passphrases.

### MC modules

An MC module extends the components whose properties are proved, so that a run and a theorem
speak of the same definition: BatchRun (`MCBatchRun`), LiveView, KnownHosts, RemoteScript and
SideList (`MCFrontEnd`), SshAuth (`MCSshConnection`), SshForward and SshSession (`MCSshServices`). TLC
evaluates their assumptions on every run. The other components are instances.
`MCFrontEnd`, `MCSshConnection`, `MCSshServices` and `MCMessages` hold several components
that share no state: `part` says which one a behaviour is about; meanwhile the extended
components rest in a first state of theirs and the variables of the others are idle. The properties
at the end of each module gather what their comment lists from the component modules, where
each statement has a comment of its own.

## Runs

| Run | Instance | Shows |
|---|---|---|
| batch | 0 to 2 hosts, degrees -1 to 3, all switches; 3 hosts in batches of 2 | types, degree, exactly once, blocks, nothing lost, directories removed, implements HostQueue |
| batch_live | 0 to 2 hosts, degrees 0 and 1 | every run ends if hosts and operator answer; an interrupt received in a batch ends the process even if they do not |
| front_end | 1800 option sets; 7 sets of invocations; 9 of tasks; views of 2 and 1 host; 0 to 5 files at heights 1 to 5; files up to 5 symbols; 5 operations on two views | hosts are the words given; a host is listed or silent; a task alone with its script runs it whole, one that shares it only lines written there, and none leaves it behind; Stop works; the list follows the selection; the tail is exactly the last lines; the last view drawn is shown |
| connection | windows of 3 bytes in packets of 2, 0 to 2 channels; 6 pairs of transports; four lists of methods and eight of keys against every set of callbacks | no protocol error, packets reach their channel, streams whole, callers return; both ends in step over key changes, writers released; both ends agree on who is let in; the second Dial never helps |
| services | 6 remote scripts; 2 listeners, 3 connections; 4 users of one agent; packets of 1, 16, 20 and 21 bytes; 8 ways of using the editor | Run returns all output; connections reach their listener; replies reach their caller; packets in order or refused, and without a fault refused only beyond the limit; the screen shows the line |
| messages | 7 conversations, 5 authentications, 7 fragment sizes; rings of 3 keys, some broken; messages for up to 2 recipients, with faults | ends agree on keys, texts once and in order; authentication exact; formats read back; only signed parts enter a key; which keys of a ring are read; messages changed in transit noticed exactly if they have a code or a known signer |

Runs that are expected to find a violation, each with a finding in `PROJECT.json`
that quotes the comment or document it contradicts:

| Run | Violated | Because |
|---|---|---|
| dial_timeout | DialGivesUp | `Task.Timeout` is assigned and never read |
| interrupt_tmpdir | InterruptRemovesTmpDir | windows before Notify and after Stop, RemoveAll against Create |
| duplicate_hosts | NothingLost | tmp files are named by host |
| view_panic | NeverPanics | `files` and `file_offset` are assigned apart |
| side_list_panic | ListNeverPanics | layout lists `height` files when `height-2` would fit |
| rekey_deadlock | WritesReleased | who empties `incoming` also writes, and a write waits for a key change behind a full `incoming` |

### Further disagreements

Stated in the modules, found not to hold, and not kept as runs. What the runs check instead
describes the behaviour exactly, the cases below included:

- `TerminalRestored` (LiveView): Stop (dir_cat.go:161) does not wait for Close (gui.go:63), so
  the merged output may be printed while the view still holds the terminal, and a late
  Close may act on the next view's.
- `UnlockUndoesLock` (SshAgent): the server decodes an unlock request as a lock
  message, whose number differs, and answers with a failure (ssh/agent/server.go:97, against
  "Unlock undoes the effect of Lock", client.go:51).
- `SlotsSuffice` (Otr): "four slots" (otr.go:1038) are enough within a session
  (`SlotsSufficeInSession` is checked) and not when one is negotiated anew (otr.go:1166).
- `SharedRunWhole` (RemoteScript): tasks whose hosts share a /tmp may have the same script, whose name
  comes from a clock (helper.go:22); one truncates or removes it while another runs it
  (helper.go:28), which then runs a part. `RunsOwnScript` says what it can run.
- `WrittenArrives` (SshPackets): a writer compares the packet with maxPacket (ssh/cipher.go:198; gcm and cbc
  writers compare nothing), a reader the packet with its padding (166), so that a packet of almost
  that size is written without an error and ends the connection. `FitsArrives` says which arrive.
- `PasswordNeverShown` (Terminal): SetSize repaints the line without looking at `echo` (terminal.go:772), so
  a resize shows the password typed so far, against "without echo" (641). `PasswordHidden` says
  that nothing else does, and how long it stays.
- `AllSent` (OtrFragments): a FragmentSize of 18 is not below minFragmentSize (otr.go:1140), leaves 0 bytes
  for a fragment and makes encode divide by zero (1147-1148), against "all messages ... will be
  fragmented" (171). `AllWhole` says that no other size does.
- `Answered` (Smp): two who start at once are told nothing, against "The authentication proceeds until
  either Receive returns SMPComplete, SMPSecretNeeded ... or SMPFailed" (otr.go:463-467);
  `ToldOrAnew` says that both can start anew.
- `IntactKeysRead` (PgpKeyRing): an intact key is lost if an unsupported one follows it (keys.go:346-347),
  if the one before it breaks off where a signature has to come (366-367), or if it is private and
  the one before is skipped (305), against "Unsupported keys are ignored" (251). `KeysRead` says exactly
  which keys of a file are read.
- `RevokedStaysRevoked` (PgpKeyRing): Serialize writes no revocation (keys.go:570-602), so that a revoked key
  that is written and read again is a good one.
- `EveryCipherOpens` (PgpCodec), `PassphraseHoldersCanRead` (PgpMessage): a session key of AES-192 has 24
  bytes, no multiple of the block size, and is refused (symmetric_key_encrypted.go:91): a message locked
  with it is never opened by its passphrase, and the user is asked again each time.
- `AllTamperCaught` (PgpStream), `EncryptedTamperNoticed` (PgpMessage): a message without a modification code
  closes well whatever became of it (symmetrically_encrypted.go:99-101). `TamperCaught` and
  `TamperNoticed` say exactly when a change is noticed.
- The part of a signature that is not signed supplies, besides the issuer, the modification code
  feature and the embedded signature (signature.go:359-382, without the test of isHashed that others
  have); `UnhashedIsAdvisory` names the three.
- Of several keys with the issuer's id CheckDetachedSignature tries them all (read.go:412) on one hash,
  to which the first that can sign has added the suffix (public_key.go:478): only that one can
  verify (`detachedVerdict`).
- `WrongAsksAgain` (PgpMessage): a wrong passphrase may look right (read.go:202) and then ends the
  call, where the comment at 69 promises another question.
- `DecodeEnds` (PgpText): clearsign's Decode does not return for a text without its end line
  (clearsign.go:117-144, against 53-55).
- `LeftWordStart` (Terminal): countToLeftWord passes over a word that follows one leading
  space (terminal.go:363).
- A batch whose `os.Mkdir` fails is skipped and the run still ends with "Finished!"
  (ExactlyOnce states this exception); with fewer descriptors than two per host of a batch,
  NothingLost fails (`FdLimit = 3`).

### Bounds

Two hosts are enough for two tasks to interleave, for a batch of two, for two batches of
one and for `--check` with one host left; three hosts with degree 2 give a full batch
followed by a shorter one. Degrees go from below 1 to above the number of hosts. `MaxLines`
is 2, which separates the first line of a task (after its banner) from a later one.
`FdLimit` allows all files to be open. Two directory names suffice because at most one
directory exists. No symmetry is used: hosts are told apart by their place in the list.

Two batches of views are enough for an old view to meet a new one, and the second is
smaller so that its list is shorter. An event channel of capacity 1 instead of 20 makes it
full; the messages channel has its true capacity. For the tail, steps of 2 instead of 50 and
a scanner buffer of 4 instead of 64K put lines below, at and above both. One known host is
part of another's name; two invocations race; two tasks share a machine, a name, both or
neither; the comment of a key matches itself, a line of another key, or, as a pattern, not even
its own key.

In the library, queues hold one packet instead of 16, windows 3 bytes in packets of 2, a
key change comes after every packet, and cache and banner limits are 1: every limit is met. The
keys of a user are a plain one, one of an algorithm the server does not know, and certificates that hold, have
just expired, end beyond int64, or name a literal address. Two
channels are enough for a number to be used again. Packets lie on both sides of the block
size and of the largest packet; lengths of OpenPGP are the true ones at their boundaries.
Groups are of order 6 and 11, so that unequal exponents exist. The screen has 3 or 4
columns, so that lines wrap exactly at its edge.

### Fairness

Goroutines that can run are run by the Go scheduler: weak fairness of the main
goroutine, of the signal goroutines, of the view and of the flusher; of read loops, writers
that were released, muxes, and agents. A `select` with a message waiting takes it eventually
although other cases are ready, because Go chooses at random among them. No key need be
typed, no call be made, no connection break; the tasks of a batch may last for ever, so
that an old view has to end although the process goes on. The applications of SshMux serve
what comes to them, as Go's documentation of the library asks; a listener that nobody
accepts from (`MayIgnore`) is an exception CallersReturn names, and so is a session that
leaves an unread request queue behind. `LocalSpec` of `BatchRun` assumes nothing about the hosts or the
operator; Termination assumes `WorldFairness` besides: hosts answer, remote commands end and
the operator presses the keys. CallsEnd likewise assumes that every rsync ends:
nothing in the code limits it. FallbackNeverHelps presumes that the methods a server offers do
not change between the two Dials; keys may be revoked in between.

Deadlock is checked for the engine, where a process that has ended stutters explicitly. The
other runs are about calls, which end: nothing is left to do after the last one. That no
call waits for ever is what their liveness properties state.

## Proofs

For every value of the constants, under the named assumptions of the modules:

| Assumption | What it says |
|---|---|
| `ConstantsAssumption` (BatchRun) | host lists are sequences of hosts, degrees are integers, bounds are naturals |
| `LiveViewAssumption` | batches have a size, the event channel a capacity |
| `SideListAssumption` | numbers of files and heights are naturals |
| `JobsAssumption`, `AuthFilesAssumption` (RemoteScript) | format_cmd makes one of four forms, whose marker is no line of the command; authorized_keys has no key twice to begin with |
| `RunsAssumption` (SshSession) | the remote closes the channel last; only standard output and error are copied from it |
| `KnownHostsAssumption` | an entry holds the name of its host; known_hosts has no host twice to begin with |
| `AuthAssumption`, `WidthAssumption` (SshAuth, SshCerts) | a client has a key for the method publickey (Task.Work adds the method with its key; a client without the method uses none) and Task.Work offers a password; times are unsigned words, the clock a positive signed one |

Two theorems have hypotheses besides, each with a run or a remark that shows what happens
without it: `NoDuplicates`, no host is listed twice (`duplicate_hosts` is the violation), and
`EnoughFiles`, the process may open two files for each host (see Further disagreements).

### The engine: BatchRunSteps, BatchOutputSteps, BatchRunProofs, BatchRunRefinement

`TypeCorrect`, `WaitGroupCorrect`, `DegreeCorrect`, `ExactlyOnceCorrect`, `TmpDirsCorrect`,
`BlocksCorrect`, `NothingLostCorrect`, `Implements`. None of these is inductive alone.

`IInv` (BatchRunSteps): the degree follows from where running tasks can be: `PlaceInv` says that a
task runs only inside the call that started it, in `start .. cur - 1` while a batch is
created and in `start .. end - 1` while it is waited for. `FrontInv` separates the hosts before
`Front`, each started exactly once or dropped, from those that nothing has touched;
`Front` is defined from `pc`, `cur`, `end` and the offset, because the code moves the
offset only after the batch. `LoopInv` relates `start`, `end`, `cur`, offset and degree at
each label. The WaitGroup equals the number of running tasks; the cardinality steps are
lemmas on finite sets. `DirInv` says that a tmp directory exists only from Mkdir to
RemoveAll and is the current one; a signal goroutine can only take it away.

The output (BatchOutputSteps): `FileInv` says that an entry of the tmp directory leads to the files
of its own host and that these hold the lines of its task in order, as many as were
written. With `LastInv`, what SerialRun printed last, blocks stay together (`BlocksCorrect`).
`KeepInv` says that what a host has said is in its files while these are to be merged and
on the screen from then on, as long as no signal goroutine has received an interrupt;
`HandlerInv` says which signal goroutines there are, so that a new batch does not meet one
of its own. Every Create succeeds because the open files are counted: two for each task
created so far.

`Implements` is the refinement of `HostQueue`: `next` equals `Front` at all times, so that CreateTask and
SerialNext are Launch, ConnectFails and SessionEnds are Complete, MkdirFails is Drop, Finish
is Finish, the panic and the ends by interrupt are Abort, and all else stutters.

### Around the engine: LiveViewProofs, FrontEndProofs

`TypeCorrect` and `StopAddressesAll` (NoneForgotten) for any number of batches. The
strengthening `StopInv` follows a batch through its life: nothing before its Init; the
flusher leaves only by message, so it or the view that will start it is there until the
first message is taken; after the first at most one of the two is left or the message is
still in the channel with someone to take it.

`ListTypeCorrect`, and `ListFollowsCorrect`, an action property: the window drawSide chooses holds the
selection, and the list on the screen starts where the window starts (`ListInv`).

`ScriptsCorrect` for any tasks, any way machines share a disk and any `Matches`. `PlaceInv` ties the
place of a shell to its kind of command, `FdInv` ties open files and names to inodes of tasks with
the same path, `OwnerInv` says that a name has a shell that has yet to remove it, `TextInv` that
every line of an inode, and every line run, is a hole or that line of a script written there,
`AloneInv` that the file of a task alone with it is its script as far as written, and what it ran
as far as read, `DirectInv` that the other forms run their command, and `KeyInv` that our key or a
line that matches is in authorized_keys when `@auth.cmd` is over, ours at most once on a machine that
no other task uses.

`KnownHostsCorrect` for any number of invocations at once. `SeenInv` says of each that a host it has looked
for is in the file, still to be scanned, or silent, which lasts because the file only grows;
`OnceInv` that a single invocation scans no host the file has.

### The ssh library: SshServicesProofs, SshAuthProofs

`ForwardCorrect` for any listeners, addresses and number of channels. `EntryInv` says that a
registered listener is open and registered once, `HoldInv` that forward, while it waits
for room with the mutex held, has a registered listener, `QueueInv` that the Go channel of
a listener holds a connection of its address that nobody has answered and that no
connection is in two of them, `Answered` that who accepted a connection has its address.

`RunCorrect` for any streams and anything the remote sends. A piece of output or a request is named by its
place in what the remote sends, so that order and completeness are statements about numbers. `BufInv`
and `CopyInv` say that what has come is with the writer or, later, in the buffer of its
stream unless the writer failed, and that a good copy has met the end of the channel; `ReqInv` and
`WaitInv` that the requests wait has taken precede those in the queue, and that its status
is that of the last one; `CallInv` that Wait returns only when wait and all the copies have.

`AuthCorrect` and `FallbackCorrect` for any client and server. `AuthInv` has one part for each question a
reviewer of the two loops would ask:

- whose turn is it: one request or one answer is under way, the request is the one the
  server's code expects (`TurnFits`) and the client waits for (`AskFits`), and the answer is true of
  the server and answers that request (`ReplyTrue`, `ReplyFits`);
- is the server right: what it has accepted it had a reason for (`Accepted`), the cache holds one verdict for a
  key, and each verdict was right when it was made (`CacheFits`, from the lemma `JudgeRight` about CheckCert);
- does the client miss a way in: every method it has tried would not have let the user in
  (`Tried`), and in the two stages of publickey every key the server would take is still
  ahead (`KeyFits`), and so is every key that has a favourable verdict in the cache
  (`VerdictFits`), although the administrator may revoke the key in between;
- what does the second Dial know: the server has neither `none` nor passwords (`DialInv`), which
  follows from the methods the first one had tried when it gave up.

The invariant speaks of a client `c` and a server `s`, so that one lemma for each end
(`ClientMoves`, `ServerMoves`) carries it over a step and the lemmas about the handlers are about
records only. "Would have let the user in" is `SureKey`: a good key by the meaning of its
fields, but for two kinds the code refuses. These are certificates that end beyond int64 but not never
(certs.go:371) and certificates for a literal IPv4 address, which is compared in its 16-byte form with
the 4 bytes of the connection (server.go:251). `GoodKey`, without the exceptions, bounds what is accepted.

### Only model-checked

- All liveness (Termination, InterruptObeyed, StopWorks, CallsEnd, ChannelCallsReturn,
  WritesReleased, AuthEnds, CallersReturn), which the prover does not handle.
- What recursion and folds compute: InvocationSound, TailIsLastLines, GuiShows,
  EditorShows, PacketsArrive, OtrDelivers (fragments), SmpExact and what is said of OpenPGP
  (CodecReadBack, TextsReadBack, RingSound, MessagesReach, MessagesTrue). It needs
  induction over data.
- ChannelsClean and StreamsWhole, which sum what is under way over the wire and the buffers, and KeysInStep
  and OtrAgree, whose keys are computed in a small group; AgentSound, whose
  RemoveStep is about the loop of Remove.

## Not modelled

| Part | Why |
|---|---|
| hashes and block ciphers (`md4`, `ripemd160`, `sha3`, `blowfish`, `cast5`, `twofish`, `tea`, `xtea`, `xts`) | straight-line arithmetic on words with tables; the only specification is test vectors, and a model would be the code again |
| `bcrypt`, `scrypt`, `pbkdf2`, `hkdf` | loops around hashes without state that outlives a call |
| `bn256`, `curve25519`, `poly1305` | arithmetic beyond the integers of TLC, and assembly |
| `nacl`, `salsa20` | compositions of these primitives without control flow |
| `pkcs12`, `ocsp` | structures read in one pass by encoding/asn1, which is external |
| `ssh/messages.go`, `ssh/keys.go` | marshalling by reflection and encodings of keys; the other modules abstract messages to records |
| `ssh/agent/forward.go` | copies bytes between two external streams |
| `ssh/terminal/util*.go` | system calls |
| `cowsay` | layout of a greeting |

Left out of parts that are modelled: colours and the mouse in gocui, the language of
text/template, `Task.Login` (called nowhere), the encoding of certificates, the requests of a
session that only encode arguments, probing for a free port with old servers, key files of
OTR, compression. rsync, ssh, ssh-keyscan and the remote shell's commands are external:
their outcomes are nondeterministic choices.
