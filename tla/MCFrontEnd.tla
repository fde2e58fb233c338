----------------------------- MODULE MCFrontEnd -----------------------------
(* Instances of the modules about what happens on the operator's machine   *)
(* around a batch: FrontEnd, KnownHosts, RemoteScript, LiveView, SideList, *)
(* TailFile and GuiViews.  part names the one a behaviour is about; the    *)
(* modules that are extended rest in a first state of theirs meanwhile,    *)
(* the variables of the others are idle.                                   *)
EXTENDS LiveView, KnownHosts, RemoteScript, SideList

CONSTANTS
  Parts,
  FileLen, CRLen    \* the longest files of the tail, with a carriage return or without

VARIABLES part,
  opt, fpc, host_arr, keyfile, cmd, sync, told,
  file, exists, cnt, tsize, cursor, now, text, tpc,
  objs, views, current, size, cells, over, ops

Idle == "idle"

\* Three hosts in batches of two: the list of the second view is shorter.
Uneven == <<2, 1>>

-----------------------------------------------------------------------------
FrontFiles == [p \in {"hosts.txt", "id_rsa.pub", "my.pub", "job.sh", "."} |->
  CASE p = "hosts.txt" -> <<"a", "nl", "b", "tab", "a", "nl">>
    [] p = "job.sh" -> <<[text |-> <<"r">>], [name |-> <<"n">>]>>
    [] OTHER -> <<>>]

Texts == {<<>>, <<"a", "b", ",", "c">>, <<",", " ", "a", " ", "nl", "b", ",">>}
Verbs == {[src |-> "none", dest |-> "none", cmd |-> c, cmdfile |-> f] :
            c \in {<<>>, <<[text |-> <<"l">>], [name |-> <<"m">>]>>}, f \in {"none", "@auth.cmd", "job.sh", "gone.sh"}}
         \cup {[src |-> "f", dest |-> d, cmd |-> <<>>, cmdfile |-> "none"] : d \in {"none", "dir"}}
Flags == {<<FALSE, FALSE, FALSE, ".">>, <<TRUE, FALSE, FALSE, "gone">>, <<TRUE, FALSE, FALSE, ".">>,
          <<FALSE, TRUE, FALSE, ".">>, <<FALSE, FALSE, TRUE, ".">>}

MCOptions == {
  [hostfile |-> f, hostlist |-> t, stdin |-> <<"z">>, key |-> k, password |-> pw, src |-> v.src, dest |-> v.dest,
   cmd |-> v.cmd, cmdfile |-> v.cmdfile, data |-> <<<<"n", "=", "1">>, <<" ", "n", "=", "=", "2">>, <<"m">>>>,
   parallel |-> g[1], pause |-> g[2], debug |-> g[3], tmpdir |-> g[4]] :
  f \in {"none", "hosts.txt", "gone.txt"}, t \in Texts, k \in {"none", "my"}, pw \in {"none", "pw"},
  v \in Verbs, g \in Flags}

FE == INSTANCE FrontEnd WITH Options <- MCOptions, Files <- FrontFiles, pc <- fpc

-----------------------------------------------------------------------------
(* h1 is part of h10.                                                      *)
MCWithin(h, e) == h = e \/ (h = "h1" /\ e = "h10")
MCCalls == {<<s>> : s \in {<<"h1", "h2">>, <<"h2", "h10", "h1">>, <<"h1", "h1">>}}
           \cup {<<s, t>> : s \in {<<"h1", "h2">>, <<"h10">>}, t \in {<<"h2", "h1">>, <<"h1", "h10">>}}
MCEntries == {<<>>, <<"h1">>, <<"h10">>, <<"h2">>}

-----------------------------------------------------------------------------
Task(kind, name, d, words) == [kind |-> kind, name |-> name, disk |-> d, cmd |-> words, eof |-> "E1OF"]
(* Mine has a comment, Bare none; Odd has one that, as a pattern, does not *)
(* match itself.  Both patterns match lines of other keys.                 *)
Mine == [line |-> "k1 me", comment |-> "me"]
Bare == [line |-> "k2", comment |-> ""]
Odd == [line |-> "k3 ^o", comment |-> "^o"]
MCMatches(p, line) ==
  \/ p = "me" /\ line \in {"k1 me", "k9 home"}
  \/ p = "k2" /\ line \in {"k2", "k2 you"}
  \/ p = "^o" /\ line = "option k8"
MCJobs == {
  <<Task("file", 1, "d1", <<"x", "y">>), Task("file", 1, "d2", <<"x", "y">>), Task("file", 2, "d1", <<"z">>)>>,
  <<Task("file", 1, "d1", <<"x", "y">>), Task("file", 1, "d1", <<"x", "y">>), Task("plain", 1, "d1", <<"z">>)>>,
  <<Task("file", 1, "d1", <<"x">>), Task("file", 1, "d1", <<"y", "w">>), Task("pipe", 1, "d1", <<"z", "EOF", "w">>)>>}
  \cup {<<Task("auth", 1, "d1", k), Task("auth", 1, d, k)>> : k \in {Mine, Bare, Odd}, d \in {"d1", "d2"}}
MCAuthFiles == {<<>>, <<"k1 me">>, <<"k2 you">>, <<"k3 ^o">>, <<"option k8", "k9 home">>}

-----------------------------------------------------------------------------
\* Every file up to a length, and files with carriage returns.
TailFiles ==
  UNION {[1 .. n -> {"x", "n"}] : n \in 0 .. FileLen}
    \cup UNION {[1 .. n -> {"x", "n", "r"}] : n \in 0 .. CRLen}

TF == INSTANCE TailFile WITH
        Chars <- {"x"}, NL <- "n", CR <- "r", Files <- TailFiles, Cnts <- {0, 1, 2, 3},
        BackStep <- 2, MaxToken <- 4, MaxLen <- 5, size <- tsize, pc <- tpc

\* Two views that touch, one of which may shrink; the smaller terminal cuts both.
MCLayouts == {<<"a", 0, 0, 3, 3>>, <<"a", 0, 0, 2, 2>>, <<"b", 3, 0, 5, 3>>, <<"b", 3, 0, 4, 3>>}

GV == INSTANCE GuiViews WITH Layouts <- MCLayouts, Sizes <- {<<6, 4>>, <<4, 3>>}, MaxOps <- 5

-----------------------------------------------------------------------------
feVars == <<opt, fpc, host_arr, keyfile, cmd, sync, told>>
tfVars == <<file, exists, cnt, tsize, cursor, now, text, tpc>>
gvVars == <<objs, views, current, size, cells, over, ops>>
toolVars == <<feVars, knownVars, scriptVars>>
viewVars == <<vars, listVars, tfVars, gvVars>>
allVars == <<part, toolVars, viewVars>>

IdleFE == opt = Idle /\ fpc = Idle /\ host_arr = Idle /\ keyfile = Idle /\ cmd = Idle /\ sync = Idle /\ told = Idle
IdleTF ==
  /\ file = Idle /\ exists = Idle /\ cnt = Idle /\ tsize = Idle
  /\ cursor = Idle /\ now = Idle /\ text = Idle /\ tpc = Idle
IdleGV ==
  /\ objs = Idle /\ views = Idle /\ current = Idle /\ size = Idle
  /\ cells = Idle /\ over = Idle /\ ops = Idle
KnownRests == args = (CHOOSE x \in Calls : TRUE) /\ known_hosts = (CHOOSE e \in Entries : TRUE)
NoKeys == auth \in [DOMAIN auth -> {<<>>}]
ScriptRests == job = (CHOOSE j \in Jobs : TRUE) /\ NoKeys
ListRests == length = (CHOOSE n \in Counts : TRUE) /\ height = (CHOOSE h \in Heights : TRUE)

InitAll ==
  /\ part \in Parts /\ Init /\ KnownInit /\ ScriptInit /\ ListInit
  /\ part = "known" \/ KnownRests
  /\ (part = "script" /\ (job[1].kind = "auth" \/ NoKeys)) \/ ScriptRests
  /\ part = "list" \/ ListRests
  /\ IF part = "main" THEN FE!Init ELSE IdleFE
  /\ IF part = "tail" THEN TF!Init ELSE IdleTF
  /\ IF part = "gui" THEN GV!Init ELSE IdleGV

Fixed == UNCHANGED <<part, listVars, tfVars, gvVars, toolVars>>

NextAll ==
  \/ part = "main" /\ FE!Next /\ UNCHANGED <<part, knownVars, scriptVars, viewVars>>
  \/ part = "known" /\ KnownNext /\ UNCHANGED <<part, feVars, scriptVars, viewVars>>
  \/ part = "script" /\ ScriptNext /\ UNCHANGED <<part, feVars, knownVars, viewVars>>
  \/ part = "view" /\ Next /\ Fixed
  \/ part = "list" /\ ListNext /\ UNCHANGED <<part, vars, tfVars, gvVars, toolVars>>
  \/ part = "tail" /\ TF!Next /\ UNCHANGED <<part, vars, listVars, gvVars, toolVars>>
  \/ part = "gui" /\ GV!Next /\ UNCHANGED <<part, vars, listVars, tfVars, toolVars>>

(* main goes on, and so does the search of TailFile.                       *)
Progress ==
  \/ part = "main" /\ FE!Next /\ UNCHANGED <<part, knownVars, scriptVars, viewVars>>
  \/ part = "tail" /\ ~TF!Over /\ TF!Search /\ UNCHANGED <<part, vars, listVars, gvVars, toolVars>>

(* The goroutines of the view that can run are run; a select with a message*)
(* and other cases ready does not pass over the message for ever.  No key  *)
(* need be typed, no layout need fail, and a task may last for ever.       *)
ViewFairness ==
  /\ WF_allVars(part = "view" /\ proc = "running" /\ MainStep /\ Fixed)
  /\ \A b \in Batches :
       /\ WF_allVars(/\ part = "view" /\ proc = "running"
                     /\ (Boot(b) \/ FirstFlush(b) \/ ViewMessage(b) \/ Close(b)) /\ Fixed)
       /\ WF_allVars(part = "view" /\ proc = "running" /\ FlusherMessage(b) /\ Fixed)

SpecAll == InitAll /\ [][NextAll]_allVars /\ WF_allVars(Progress) /\ ViewFairness

-----------------------------------------------------------------------------
(* FrontEnd: the hosts are the words of the text that was given, nothing   *)
(* is sent or run without a way to log in, and a copy ends when every host *)
(* has been told of, failed or not (parseHostsFromString, main, ScpRun).   *)
InvocationSound == part = "main" => FE!HostsAreWords /\ FE!HasIdentity /\ FE!SendToldAll

(* TailFile: the text is the last lines of the file, though it grows or    *)
(* goes while it is searched (TailFile, GetLineByPosition).                *)
TailIsLastLines == part = "tail" => TF!TailIsLastLines

(* LiveView: Stop returns, and both goroutines of a stopped view end.      *)
StopWorks == StopReturns /\ ViewsEnd

(* FrontEnd, TailFile: an invocation ends or hands over to the batch       *)
(* engine, and the search for lines ends.                                  *)
CallsEnd ==
  <>(/\ part = "main" => fpc \in {"exit", "run", "panic", "finished"}
     /\ part = "tail" => TF!Over)

(* GuiViews: a rune typed and taken back changes nothing, a word has no    *)
(* gap in it, and after a Flush the view drawn last is shown from its      *)
(* origin, in its frame (EditWrite, EditDelete, Flush, drawFrame, draw).   *)
GuiShows ==
  [](part = "gui" => GV!TypeAndBack /\ GV!WordHasNoGap) /\ [][part = "gui" => GV!LastViewStep]_allVars

=============================================================================
