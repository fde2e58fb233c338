-------------------------- MODULE BatchOutputSteps --------------------------
(***************************************************************************)
(* What the steps of BatchRun do to the tmp files and the screen: the      *)
(* invariants behind BlocksIntact and NothingLost, for every list of       *)
(* different hosts, degree and number of lines.                            *)
(***************************************************************************)
EXTENDS BatchRunSteps

(* No host is listed twice.                                                *)
NoDuplicates == \A l \in HostLists : \A i, j \in DOMAIN l : l[i] = l[j] => i = j

(* What a task has in its two files, which are its own: the lines of its   *)
(* output as far as they were written, or the one line of a failed dial.   *)
TaskFiles(i) ==
  /\ \A k \in Kinds : fd[i][k] \in {None, i}
  /\ task[i] = "idle" => \A k \in Kinds : fd[i][k] = None
  /\ task[i] \in {"idle", "dial", "failed"} => wrote[i] = 0
  /\ \A p \in 1 .. Len(data[i]["out"]) : data[i]["out"][p] = Line("out", i, p - 1)
  /\ Len(data[i]["out"]) \in {0, wrote[i]}
  /\ fd[i]["out"] # None => Len(data[i]["out"]) = wrote[i]
  /\ i \in Running /\ fd[i]["out"] = None => data[i]["out"] = <<>>
  /\ data[i]["err"] = <<>> \/ (task[i] = "failed" /\ data[i]["err"] = <<Line("err", i, 0)>>)

(* An entry of the tmp directory leads to the inode of its own host, and   *)
(* files are open only while tasks are created and waited for.             *)
FileInv ==
  /\ \A h \in Hosts : \A k \in Kinds : ent[h][k] # None => HostOf(ent[h][k]) = h
  /\ pc \notin {"create", "wait"} => \A i \in Idx : \A k \in Kinds : fd[i][k] = None
  /\ \A i \in Idx : TaskFiles(i)

(* The end of what is printed while SerialRun works on a host.             *)
LastInv ==
  pc = "work" /\ cur \in Running =>
    /\ Len(shown) > 0
    /\ shown[Len(shown)] = IF wrote[cur] = 0 THEN Banner(cur) ELSE Line("out", cur, wrote[cur] - 1)

-----------------------------------------------------------------------------
(* Two hosts of the list are different.                                    *)
LEMMA Different ==
  ASSUME NoDuplicates, TypeCtl, NEW i \in Idx, NEW j \in Idx, HostOf(i) = HostOf(j)
  PROVE  i = j
<1>1. host_arr \in Seq(Hosts) /\ host_arr \in HostLists BY ConstantsAssumption, Zenon DEF TypeCtl
<1>2. i + 1 \in DOMAIN host_arr /\ j + 1 \in DOMAIN host_arr BY <1>1 DEF Idx, N
<1>3. i + 1 = j + 1 BY <1>1, <1>2, Zenon DEF NoDuplicates, HostOf
<1> QED BY <1>1, <1>3 DEF Idx, N

(* Files with the same lines are equal.                                    *)
LEMMA SameLines ==
  ASSUME NEW S, NEW a \in Seq(S), NEW b \in Seq(S), Len(a) = Len(b), \A p \in 1 .. Len(b) : a[p] = b[p]
  PROVE  a = b
OBVIOUS

(* A write at the end of a file appends to it.                             *)
LEMMA WriteAtEnd ==
  ASSUME NEW S, NEW s \in Seq(S), NEW x \in S
  PROVE  WriteAt(s, Len(s), x) = Append(s, x)
<1> DEFINE w == [p \in 1 .. Len(s) + 1 |-> IF p = Len(s) + 1 THEN x ELSE s[p]]
<1>1. \A p \in 1 .. Len(s) + 1 : p = Len(s) + 1 \/ p <= Len(s) OBVIOUS
<1>2. WriteAt(s, Len(s), x) = w BY <1>1 DEF WriteAt
<1>3. w = Append(s, x)
  <2>1. w \in [1 .. Len(s) + 1 -> S] BY <1>1
  <2>2. w \in Seq(S) /\ Len(w) = Len(s) + 1 BY <2>1
  <2>3. Append(s, x) \in Seq(S) /\ Len(Append(s, x)) = Len(s) + 1 OBVIOUS
  <2>4. \A p \in 1 .. Len(w) : w[p] = Append(s, x)[p] BY <2>2
  <2> HIDE DEF w
  <2> QED BY <2>2, <2>3, <2>4, SameLines, Zenon
<1> QED BY <1>2, <1>3, Zenon

(* The inode that os.Create gives the task of cur is its own.              *)
LEMMA OwnInode ==
  ASSUME NoDuplicates, TypeCtl, TypeFile, FileInv, NEW k \in Kinds, cur \in Idx, ent[HostOf(cur)][k] # None
  PROVE  ent[HostOf(cur)][k] = cur
<1>1. HostOf(cur) \in Hosts BY HostList, Zenon DEF TypeCtl
<1>2. ent[HostOf(cur)][k] \in Idx BY <1>1 DEF TypeFile
<1>3. HostOf(ent[HostOf(cur)][k]) = HostOf(cur) BY <1>1, Zenon DEF FileInv
<1> QED BY <1>2, <1>3, Different, Zenon

(* A task whose state, files and descriptors do not change.                *)
LEMMA TaskFilesFixed ==
  ASSUME NEW i \in Idx, Idx' = Idx, TaskFiles(i),
         task'[i] = task[i], wrote'[i] = wrote[i], fd'[i] = fd[i], data'[i] = data[i]
  PROVE  TaskFiles(i)'
<1>1. i \in Running' <=> i \in Running BY Zenon DEF Running
<1> QED BY <1>1, Zenon DEF TaskFiles

(* os.Create of the two files of the task of cur.                          *)
LEMMA CreateFiles ==
  ASSUME NoDuplicates, IInv, FileInv, CreateTask
  PROVE  /\ cur \in Idx /\ task[cur] = "idle"
         /\ \A k \in Kinds : fd'[cur][k] \in {None, cur}
         /\ \A k \in Kinds : ent'[HostOf(cur)][k] \in {None, cur}
         /\ \A h \in Hosts \ {HostOf(cur)} : ent'[h] = ent[h]
         /\ \A k \in Kinds : data'[cur][k] = <<>>
         /\ \A i \in Idx \ {cur} : fd'[i] = fd[i] /\ data'[i] = data[i]
<1> USE DEF IInv, TypeOK
<1> DEFINE h == HostOf(cur)
           outOk == dir \in dirs /\ OpenFiles < FdLimit
           errOk == dir \in dirs /\ OpenFiles + (IF outOk THEN 1 ELSE 0) < FdLimit
           ok(k) == IF k = "out" THEN outOk ELSE errOk
           inode(k) == IF ent[h][k] = None THEN cur ELSE ent[h][k]
<1>0. N \in Nat /\ cur \in Idx
  BY HostList DEF CreateTask, TypeCtl, LoopInv, BatchPcs, BatchEnd, Idx
<1>1. task[cur] = "idle"
  <2>1. Front = cur BY Zenon DEF CreateTask, Front
  <2> QED BY <1>0, <2>1 DEF FrontInv, Idx
<1>2. h \in Hosts /\ ent[h] \in [Kinds -> Idx \cup {None}]
  BY <1>0, HostList, Zenon DEF TypeCtl, TypeFile
<1>3. \A k \in Kinds : inode(k) = cur BY <1>0, OwnInode, Zenon
<1>4. \A k \in Kinds : data[cur][k] = <<>>
  <2>1. TaskFiles(cur) BY <1>0, Zenon DEF FileInv
  <2>2. data[cur] \in [Kinds -> Seq(LineType)] BY <1>0, Zenon DEF TypeFile
  <2>3. wrote[cur] = 0 BY <1>1, <2>1, Zenon DEF TaskFiles
  <2>4. data[cur]["out"] = <<>> BY <2>1, <2>2, <2>3 DEF TaskFiles, Kinds
  <2>5. data[cur]["err"] = <<>> BY <1>1, <2>1, Zenon DEF TaskFiles
  <2> QED BY <2>4, <2>5, Zenon DEF Kinds
<1>5. fd' = [fd EXCEPT ![cur] = [k \in Kinds |-> IF ok(k) THEN inode(k) ELSE None]]
  BY Zenon DEF CreateTask
<1>6. ent' = [ent EXCEPT ![h] = [k \in Kinds |-> IF ok(k) THEN inode(k) ELSE ent[h][k]]]
  BY Zenon DEF CreateTask
<1>7. data' = [n \in Idx |-> [k \in Kinds |-> IF ok(k) /\ n = inode(k) THEN <<>> ELSE data[n][k]]]
  BY Zenon DEF CreateTask
<1>8. \A k \in Kinds : ent[h][k] # None => ent[h][k] = cur BY <1>0, OwnInode, Zenon
<1> HIDE DEF h, ok, inode
<1>9. \A k \in Kinds : fd'[cur][k] \in {None, cur} BY <1>0, <1>3, <1>5, Zenon DEF TypeFile
<1>10. \A k \in Kinds : ent'[h][k] \in {None, cur} BY <1>2, <1>3, <1>6, <1>8, Zenon DEF TypeFile
<1>11. \A g \in Hosts \ {h} : ent'[g] = ent[g] BY <1>6, Zenon DEF TypeFile
<1>12. \A k \in Kinds : data'[cur][k] = <<>> BY <1>0, <1>4, <1>7, Zenon
<1>13. ASSUME NEW i \in Idx \ {cur} PROVE fd'[i] = fd[i] /\ data'[i] = data[i]
  <2>1. fd'[i] = fd[i] BY <1>5, Zenon DEF TypeFile
  <2>2. \A k \in Kinds : inode(k) # i BY <1>3, Zenon
  <2>3. data[i] \in [Kinds -> Seq(LineType)] BY Zenon DEF TypeFile
  <2>4. data'[i] = [k \in Kinds |-> data[i][k]] BY <1>7, <2>2, Zenon
  <2> QED BY <2>1, <2>3, <2>4, Zenon
<1> QED BY <1>0, <1>1, <1>9, <1>10, <1>11, <1>12, <1>13, Zenon DEF h

(* A task of a batch writes to its own file, if it has one, at its end.    *)
LEMMA EmitFiles ==
  ASSUME IInv, FileInv, NEW i \in Idx, NEW k \in Kinds, NEW n \in Nat, Emit(k, i, n), pc # "work",
         fd[i][k] # None => n = Len(data[i][k])
  PROVE  /\ shown' = shown
         /\ \A j \in Idx \ {i} : data'[j] = data[j]
         /\ \A m \in Kinds \ {k} : data'[i][m] = data[i][m]
         /\ data'[i][k] = IF fd[i][k] = None THEN data[i][k] ELSE Append(data[i][k], Line(k, i, n))
<1>1. CASE fd[i][k] = None
  BY <1>1, Zenon DEF Emit
<1>2. CASE fd[i][k] # None
  <2> DEFINE new == WriteAt(data[i][k], n, Line(k, i, n))
  <2>1. fd[i][k] = i BY <1>2, Zenon DEF FileInv, TaskFiles
  <2>2. data \in [Idx -> [Kinds -> Seq(LineType)]] /\ data[i][k] \in Seq(LineType)
    BY Zenon DEF IInv, TypeOK, TypeFile
  <2>3. Line(k, i, n) \in LineType BY Zenon DEF Line, LineType
  <2>4. new = Append(data[i][k], Line(k, i, n)) BY <1>2, <2>2, <2>3, WriteAtEnd, Zenon
  <2>5. shown' = shown /\ data' = [data EXCEPT ![i][k] = new]
    BY <1>2, <2>1, Zenon DEF Emit
  <2> HIDE DEF new
  <2>6. \A j \in Idx \ {i} : data'[j] = data[j] BY <2>2, <2>5, Zenon
  <2>7. \A m \in Kinds \ {k} : data'[i][m] = data[i][m] BY <2>2, <2>5, Zenon
  <2>8. data'[i][k] = new BY <2>2, <2>5, Zenon
  <2> QED BY <1>2, <2>4, <2>5, <2>6, <2>7, <2>8, Zenon
<1> QED BY <1>1, <1>2, Zenon

(* The tasks keep to their files in every step.                            *)
LEMMA FileStep ==
  ASSUME NoDuplicates, IInv, wg = 0 => Running = {}, FileInv, [Next]_vars
  PROVE  FileInv'
<1> USE DEF IInv, TypeOK
<1>0. N \in Nat /\ Idx' = Idx /\ host_arr' = host_arr
  BY HostList, InputFixed, Zenon DEF N, Idx, TypeCtl
<1>1. CASE /\ UNCHANGED <<task, wrote, fd, data, ent>>
           /\ pc' \notin {"create", "wait"} => pc \notin {"create", "wait"}
  <2>1. \A i \in Idx : TaskFiles(i)' BY <1>0, <1>1, TaskFilesFixed, Zenon DEF FileInv
  <2> QED BY <1>0, <1>1, <2>1, Zenon DEF FileInv, HostOf
<1>2. CASE /\ UNCHANGED <<task, wrote, fd, data>>
           /\ pc' \notin {"create", "wait"} => pc \notin {"create", "wait"}
           /\ \A h \in Hosts : ent'[h] \in {ent[h], [k \in Kinds |-> None]}
  <2>1. \A i \in Idx : TaskFiles(i)' BY <1>0, <1>2, TaskFilesFixed, Zenon DEF FileInv
  <2>2. \A h \in Hosts : \A k \in Kinds : (ent[h][k] # None)' => HostOf(ent[h][k])' = h
    BY <1>0, <1>2 DEF FileInv, HostOf
  <2> QED BY <1>0, <1>2, <2>1, <2>2, Zenon DEF FileInv
<1>3. CASE SerialNext
  <2>0. cur \in Idx /\ task[cur] = "idle"
    <3>1. cur \in Idx /\ Front = cur BY <1>0, <1>3 DEF SerialNext, TypeCtl, Idx, Front
    <3> QED BY <1>0, <3>1 DEF FrontInv, Idx
  <2>1. PICK c \in Idx : c = cur /\ task[c] = "idle" BY <2>0, Zenon
  <2>2. UNCHANGED <<fd, data, ent>> /\ NewTask(c) /\ pc' = "work" /\ pc = "serial"
    BY <1>3, <2>1, Zenon DEF SerialNext, fileVars
  <2>3. \A i \in Idx \ {c} : task'[i] = task[i] /\ wrote'[i] = wrote[i]
    BY <2>2, Zenon DEF NewTask, TypeTask
  <2>4. \A i \in Idx \ {c} : TaskFiles(i)' BY <1>0, <2>2, <2>3, TaskFilesFixed, Zenon DEF FileInv
  <2>5. task'[c] = "dial" /\ wrote'[c] = 0 BY <2>1, <2>2, Zenon DEF NewTask, TypeTask
  <2>6. TaskFiles(c)'
    <3>1. TaskFiles(c) BY <2>1, Zenon DEF FileInv
    <3>2. wrote[c] = 0 BY <2>1, <3>1, Zenon DEF TaskFiles
    <3>3. data[c] \in [Kinds -> Seq(LineType)] BY <2>1, Zenon DEF TypeFile
    <3>4. data[c]["out"] = <<>> BY <3>1, <3>2, <3>3 DEF TaskFiles, Kinds
    <3> QED BY <2>1, <2>2, <2>5, <3>1, <3>4, Zenon DEF TaskFiles, Kinds
  <2> QED BY <1>0, <2>2, <2>4, <2>6, Zenon DEF FileInv, HostOf
<1>4. CASE CreateTask
  <2>0. /\ cur \in Idx /\ task[cur] = "idle"
        /\ \A k \in Kinds : fd'[cur][k] \in {None, cur}
        /\ \A k \in Kinds : ent'[HostOf(cur)][k] \in {None, cur}
        /\ \A h \in Hosts \ {HostOf(cur)} : ent'[h] = ent[h]
        /\ \A k \in Kinds : data'[cur][k] = <<>>
        /\ \A i \in Idx \ {cur} : fd'[i] = fd[i] /\ data'[i] = data[i]
    BY <1>4, CreateFiles, Zenon
  <2>1. PICK c \in Idx :
          /\ c = cur
          /\ \A k \in Kinds : fd'[c][k] \in {None, c} /\ data'[c][k] = <<>>
          /\ \A k \in Kinds : ent'[HostOf(c)][k] \in {None, c}
          /\ \A h \in Hosts \ {HostOf(c)} : ent'[h] = ent[h]
          /\ \A i \in Idx \ {c} : fd'[i] = fd[i] /\ data'[i] = data[i]
    BY <2>0, Zenon
  <2>2. NewTask(c) /\ pc' = "create" BY <1>4, <2>1, Zenon DEF CreateTask
  <2>3. \A i \in Idx \ {c} : task'[i] = task[i] /\ wrote'[i] = wrote[i]
    BY <2>2, Zenon DEF NewTask, TypeTask
  <2>4. \A i \in Idx \ {c} : TaskFiles(i)' BY <1>0, <2>1, <2>3, TaskFilesFixed, Zenon DEF FileInv
  <2>5. task'[c] = "dial" /\ wrote'[c] = 0 BY <2>2, Zenon DEF NewTask, TypeTask
  <2>6. TaskFiles(c)'
    <3>1. /\ fd'[c]["out"] \in {None, c} /\ fd'[c]["err"] \in {None, c}
          /\ data'[c]["out"] = <<>> /\ data'[c]["err"] = <<>>
      BY <2>1, Zenon DEF Kinds
    <3>2. Len(data'[c]["out"]) = 0 BY <3>1
    <3> QED BY <2>5, <3>1, <3>2 DEF TaskFiles, Kinds
  <2>7. \A h \in Hosts : \A k \in Kinds : (ent[h][k] # None)' => HostOf(ent[h][k])' = h
    BY <1>0, <2>1 DEF FileInv, HostOf
  <2> QED BY <1>0, <2>2, <2>4, <2>6, <2>7, Zenon DEF FileInv
<1>5. CASE Waited
  <2>1. Running = {} BY <1>5, Zenon DEF Waited
  <2>2. UNCHANGED <<task, wrote, data, ent>> /\ \A i \in Idx : \A k \in Kinds : fd'[i][k] = None
    BY <1>5, Zenon DEF Waited, taskVars
  <2>3. Running' = {} BY <1>0, <2>1, <2>2, Zenon DEF Running
  <2>4. \A i \in Idx : TaskFiles(i)'
    <3> SUFFICES ASSUME NEW i \in Idx PROVE TaskFiles(i)' BY <1>0, Zenon
    <3>1. TaskFiles(i) BY Zenon DEF FileInv
    <3> QED BY <2>2, <2>3, <3>1, Zenon DEF TaskFiles, Kinds
  <2> QED BY <1>0, <2>2, <2>4, Zenon DEF FileInv, HostOf
<1>6. CASE \E i \in Idx : Connected(i) \/ SessionEnds(i)
  <2>1. PICK i \in Idx : Connected(i) \/ SessionEnds(i) BY <1>6, Zenon
  <2>2. UNCHANGED <<pc, wrote, fd, data, ent>> /\ \A j \in Idx \ {i} : task'[j] = task[j]
    BY <2>1, Zenon DEF Connected, SessionEnds, taskFrame, mainVars, TypeTask
  <2>3. task[i] \in {"dial", "session"} /\ task'[i] \in {"session", "done"}
    BY <2>1, Zenon DEF Connected, SessionEnds, TypeTask
  <2>4. TaskFiles(i)'
    <3>1. TaskFiles(i) /\ i \in Running BY <2>3, Zenon DEF FileInv, Running
    <3> QED BY <2>2, <2>3, <3>1, Zenon DEF TaskFiles
  <2>5. \A j \in Idx \ {i} : TaskFiles(j)' BY <1>0, <2>2, TaskFilesFixed, Zenon DEF FileInv
  <2> QED BY <1>0, <2>2, <2>4, <2>5, Zenon DEF FileInv, HostOf
<1>7. CASE \E i \in Idx : ConnectFails(i)
  <2>1. PICK i \in Idx : ConnectFails(i) BY <1>7, Zenon
  <2>2. UNCHANGED <<pc, wrote, fd, ent>> /\ \A j \in Idx \ {i} : task'[j] = task[j]
    BY <2>1, Zenon DEF ConnectFails, taskFrame, mainVars, TypeTask
  <2>3. task[i] = "dial" /\ task'[i] = "failed" /\ Emit("err", i, 0)
    BY <2>1, Zenon DEF ConnectFails, TypeTask
  <2>4. TaskFiles(i) /\ i \in Running BY <2>3, Zenon DEF FileInv, Running
  <2>5. data[i] \in [Kinds -> Seq(LineType)] /\ data[i]["err"] = <<>> BY <2>3, <2>4, Zenon DEF TaskFiles, TypeFile
  <2>6. /\ \A j \in Idx \ {i} : data'[j] = data[j]
        /\ data'[i]["out"] = data[i]["out"]
        /\ data'[i]["err"] \in {<<>>, <<Line("err", i, 0)>>}
    <3>1. CASE pc = "work" BY <2>3, <2>5, <3>1, Zenon DEF Emit
    <3>2. CASE pc # "work"
      <4>1. "err" \in Kinds /\ "out" \in Kinds \ {"err"} /\ 0 \in Nat /\ Len(data[i]["err"]) = 0
        BY <2>5, Zenon DEF Kinds
      <4>2. /\ \A j \in Idx \ {i} : data'[j] = data[j]
            /\ \A m \in Kinds \ {"err"} : data'[i][m] = data[i][m]
            /\ data'[i]["err"] = IF fd[i]["err"] = None THEN data[i]["err"]
                                ELSE Append(data[i]["err"], Line("err", i, 0))
        BY <2>3, <3>2, <4>1, EmitFiles, Zenon
      <4> QED BY <2>5, <4>1, <4>2
    <3> QED BY <3>1, <3>2, Zenon
  <2>7. TaskFiles(i)' BY <2>2, <2>3, <2>4, <2>6, Zenon DEF TaskFiles
  <2>8. \A j \in Idx \ {i} : TaskFiles(j)' BY <1>0, <2>2, <2>6, TaskFilesFixed, Zenon DEF FileInv
  <2> QED BY <1>0, <2>2, <2>7, <2>8, Zenon DEF FileInv, HostOf
<1>8. CASE \E i \in Idx : Output(i)
  <2>1. PICK i \in Idx : Output(i) BY <1>8, Zenon
  <2>2. UNCHANGED <<pc, task, fd, ent>> /\ \A j \in Idx \ {i} : wrote'[j] = wrote[j]
    BY <2>1, Zenon DEF Output, taskFrame, mainVars, TypeTask
  <2>3. task[i] = "session" /\ wrote[i] \in Nat /\ wrote'[i] = wrote[i] + 1 /\ Emit("out", i, wrote[i])
    BY <2>1, Zenon DEF Output, TypeTask
  <2>4. TaskFiles(i) /\ i \in Running BY <2>3, Zenon DEF FileInv, Running
  <2>5. data[i]["out"] \in Seq(LineType) BY Zenon DEF Kinds, TypeFile
  <2>6. /\ \A j \in Idx \ {i} : data'[j] = data[j]
        /\ data'[i]["err"] = data[i]["err"]
        /\ data'[i]["out"] = IF fd[i]["out"] = None THEN <<>>
                            ELSE Append(data[i]["out"], Line("out", i, wrote[i]))
    <3>1. CASE pc = "work"
      <4>1. fd[i]["out"] = None BY <3>1, Zenon DEF FileInv, Kinds
      <4>2. data' = data BY <2>3, <3>1, Zenon DEF Emit
      <4> QED BY <2>4, <4>1, <4>2, Zenon DEF TaskFiles
    <3>2. CASE pc # "work"
      <4>1. "out" \in Kinds /\ "err" \in Kinds \ {"out"} BY Zenon DEF Kinds
      <4>2. fd[i]["out"] # None => wrote[i] = Len(data[i]["out"]) BY <2>4, Zenon DEF TaskFiles
      <4>3. /\ \A j \in Idx \ {i} : data'[j] = data[j]
            /\ \A m \in Kinds \ {"out"} : data'[i][m] = data[i][m]
            /\ data'[i]["out"] = IF fd[i]["out"] = None THEN data[i]["out"]
                                ELSE Append(data[i]["out"], Line("out", i, wrote[i]))
        BY <2>3, <3>2, <4>1, <4>2, EmitFiles, Zenon
      <4> QED BY <2>4, <4>1, <4>3, Zenon DEF TaskFiles
    <3> QED BY <3>1, <3>2, Zenon
  <2>7. TaskFiles(i)'
    <3>1. CASE fd[i]["out"] = None
      <4>1. data'[i]["out"] = <<>> /\ Len(data'[i]["out"]) = 0 BY <2>6, <3>1
      <4>2. \A p \in 1 .. Len(data'[i]["out"]) : FALSE BY <4>1
      <4> QED BY <2>2, <2>3, <2>4, <2>6, <3>1, <4>1, <4>2, Zenon DEF TaskFiles
    <3>2. CASE fd[i]["out"] # None
      <4>1. Len(data[i]["out"]) = wrote[i] BY <2>4, <3>2, Zenon DEF TaskFiles
      <4>2. \A p \in 1 .. Len(data[i]["out"]) : data[i]["out"][p] = Line("out", i, p - 1)
        BY <2>4, Zenon DEF TaskFiles
      <4>3. Len(data'[i]["out"]) = wrote[i] + 1 BY <2>5, <2>6, <3>2, <4>1
      <4>4. \A p \in 1 .. wrote[i] + 1 : data'[i]["out"][p] = Line("out", i, p - 1)
        BY <2>3, <2>5, <2>6, <3>2, <4>1, <4>2
      <4> QED BY <2>2, <2>3, <2>4, <2>6, <3>2, <4>3, <4>4, Zenon DEF TaskFiles
    <3> QED BY <3>1, <3>2, Zenon
  <2>8. \A j \in Idx \ {i} : TaskFiles(j)' BY <1>0, <2>2, <2>6, TaskFilesFixed, Zenon DEF FileInv
  <2> QED BY <1>0, <2>2, <2>7, <2>8, Zenon DEF FileInv, HostOf
<1>9. CASE RemoveAll \/ Merge \/ \E f \in Idx : HandlerUnlink(f)
  <2>1. \A h \in Hosts : ent'[h] \in {ent[h], [k \in Kinds |-> None]}
    BY <1>9, Zenon DEF RemoveAll, Merge, HandlerUnlink, TypeFile
  <2>2. /\ UNCHANGED <<task, wrote, fd, data>>
        /\ pc' \notin {"create", "wait"} => pc \notin {"create", "wait"}
    BY <1>9, Zenon DEF RemoveAll, Merge, HandlerUnlink, taskVars, mainVars
  <2> QED BY <1>2, <2>1, <2>2, Zenon
<1>10. CASE \/ UNCHANGED vars \/ Finish \/ Interrupt
            \/ \E f \in Idx : HandlerReceive(f) \/ HandlerRmdir(f) \/ HandlerExit(f)
  BY <1>1, <1>10, Zenon DEF vars, Finish, Interrupt, HandlerReceive, HandlerRmdir, HandlerExit, mainVars, taskVars,
                     fileVars
<1>11. CASE \/ BeginCheck \/ BeginAll \/ Operator \/ Dispatch \/ NextBatch
            \/ SerialReturned \/ SerialEnd \/ MkdirFails
  BY <1>1, <1>11, Zenon DEF BeginCheck, BeginAll, Operator, Dispatch, NextBatch, Enter, SerialReturned, SerialEnd,
                     MkdirFails, taskVars, fileVars
<1>12. CASE Mkdir \/ Notify \/ AllCreated \/ SignalStop
  BY <1>1, <1>12, Zenon DEF Mkdir, Notify, AllCreated, SignalStop, taskVars, fileVars
<1> QED BY StepCases, <1>3, <1>4, <1>5, <1>6, <1>7, <1>8, <1>9, <1>10, <1>11, <1>12, Zenon DEF Actions

-----------------------------------------------------------------------------
(* What may come after the last line of s.                                 *)
Fits(s, x) ==
  x.kind # "head" =>
    /\ x.kind \in Kinds /\ Len(s) > 0
    /\ s[Len(s)] = IF x.n = 0 THEN Banner(x.task) ELSE Line(x.kind, x.task, x.n - 1)

(* BlocksIntact, of any sequence of lines.                                 *)
Blocks(s) ==
  \A p \in 1 .. Len(s) :
    s[p].kind # "head" =>
      /\ s[p].kind \in Kinds /\ p > 1
      /\ s[p - 1] = IF s[p].n = 0 THEN Banner(s[p].task) ELSE Line(s[p].kind, s[p].task, s[p].n - 1)

(* A line that fits keeps the blocks whole.                                *)
LEMMA BlocksAppend ==
  ASSUME NEW S, NEW s \in Seq(S), NEW x \in S, Blocks(s), Fits(s, x)
  PROVE  Blocks(Append(s, x))
<1> DEFINE t == Append(s, x)
<1>1. Len(t) = Len(s) + 1 /\ Len(s) \in Nat OBVIOUS
<1>2. \A p \in 1 .. Len(s) : t[p] = s[p] OBVIOUS
<1>3. t[Len(s) + 1] = x OBVIOUS
<1> HIDE DEF t
<1> SUFFICES ASSUME NEW p \in 1 .. Len(s) + 1, t[p].kind # "head"
             PROVE  /\ t[p].kind \in Kinds /\ p > 1
                    /\ t[p - 1] = IF t[p].n = 0 THEN Banner(t[p].task) ELSE Line(t[p].kind, t[p].task, t[p].n - 1)
  BY <1>1, Zenon DEF Blocks, t
<1>4. CASE p = Len(s) + 1
  <2>1. t[p] = x BY <1>3, <1>4, Zenon
  <2>2. Len(s) > 0 BY <2>1, Zenon DEF Fits
  <2>3. p > 1 /\ t[p - 1] = s[Len(s)] BY <1>1, <1>2, <1>4, <2>2
  <2> QED BY <2>1, <2>3, Zenon DEF Fits
<1>5. CASE p # Len(s) + 1
  <2>1. p \in 1 .. Len(s) /\ t[p] = s[p] BY <1>1, <1>2, <1>5
  <2>2. p > 1 BY <2>1, Zenon DEF Blocks
  <2>3. p - 1 \in 1 .. Len(s) BY <1>1, <2>1, <2>2
  <2>4. t[p - 1] = s[p - 1] BY <1>2, <2>3, Zenon
  <2> QED BY <2>1, <2>2, <2>4, Zenon DEF Blocks
<1> QED BY <1>4, <1>5, Zenon

(* A banner and the lines of the host's file after it are a block.         *)
LEMMA BlocksFile ==
  ASSUME NEW S, NEW s \in Seq(S), NEW i \in Int, Blocks(s), Banner(i) \in S, NEW o \in Seq(S),
         \A p \in 1 .. Len(o) : o[p] = Line("out", i, p - 1)
  PROVE  Blocks(Append(s, Banner(i)) \o o)
<1> DEFINE t == Append(s, Banner(i)) \o o
           m == Len(s) + 1
<1>1. Len(t) = m + Len(o) /\ m \in Nat /\ Len(o) \in Nat OBVIOUS
<1>2. \A p \in 1 .. Len(s) : t[p] = s[p] OBVIOUS
<1>3. t[m] = Banner(i) OBVIOUS
<1>4. ASSUME NEW p \in 1 .. Len(o) PROVE t[m + p] = Line("out", i, p - 1)
  <2>1. Append(s, Banner(i)) \in Seq(S) /\ Len(Append(s, Banner(i))) = m OBVIOUS
  <2>2. m + p \in 1 .. m + Len(o) /\ m + p > m /\ m + p - m = p OBVIOUS
  <2>3. t[m + p] = o[p] BY <2>1, <2>2
  <2> QED BY <2>3, Zenon
<1> HIDE DEF t
<1> SUFFICES ASSUME NEW p \in 1 .. m + Len(o), t[p].kind # "head"
             PROVE  /\ t[p].kind \in Kinds /\ p > 1
                    /\ t[p - 1] = IF t[p].n = 0 THEN Banner(t[p].task) ELSE Line(t[p].kind, t[p].task, t[p].n - 1)
  BY <1>1, Zenon DEF Blocks, t
<1>5. CASE p <= Len(s)
  <2>1. p \in 1 .. Len(s) /\ t[p] = s[p] BY <1>1, <1>2, <1>5
  <2>2. p > 1 BY <2>1, Zenon DEF Blocks
  <2>3. p - 1 \in 1 .. Len(s) BY <1>1, <2>1, <2>2
  <2>4. t[p - 1] = s[p - 1] BY <1>2, <2>3, Zenon
  <2> QED BY <2>1, <2>2, <2>4, Zenon DEF Blocks
<1>6. CASE p = m
  BY <1>3, <1>6 DEF Banner, Line
<1>7. CASE p > m
  <2>1. p - m \in 1 .. Len(o) /\ m + (p - m) = p BY <1>1, <1>7
  <2>2. t[p] = Line("out", i, p - m - 1) BY <1>4, <2>1, Zenon
  <2>3. CASE p - m - 1 = 0
    <3>1. t[p - 1] = Banner(i) BY <1>1, <1>3, <2>3
    <3>2. t[p].kind = "out" /\ t[p].task = i /\ t[p].n = 0 BY <2>2, <2>3 DEF Line
    <3>3. p > 1 BY <1>1, <1>7
    <3> QED BY <3>1, <3>2, <3>3, Zenon DEF Kinds
  <2>4. CASE p - m - 1 # 0
    <3>1. p - 1 - m \in 1 .. Len(o) /\ m + (p - 1 - m) = p - 1 BY <1>1, <2>1, <2>4
    <3>2. t[p - 1] = Line("out", i, (p - 1 - m) - 1) BY <1>4, <3>1, Zenon
    <3>3. (p - 1 - m) - 1 = (p - m - 1) - 1 /\ p > 1 BY <1>1, <1>7
    <3>4. t[p].kind = "out" /\ t[p].task = i /\ t[p].n = p - m - 1 BY <2>2 DEF Line
    <3> QED BY <2>4, <3>2, <3>3, <3>4, Zenon DEF Kinds
  <2> QED BY <2>3, <2>4, Zenon
<1> QED BY <1>1, <1>5, <1>6, <1>7

(* The files that are merged for the host of cur are empty or its own, and *)
(* at most one of them has lines.                                          *)
LEMMA OwnContents ==
  ASSUME NoDuplicates, IInv, FileInv, cur \in Idx
  PROVE  /\ Contents(HostOf(cur), "err") \in {<<>>, <<Line("err", cur, 0)>>}
         /\ Contents(HostOf(cur), "out") \in Seq(LineType)
         /\ \A p \in 1 .. Len(Contents(HostOf(cur), "out")) :
              Contents(HostOf(cur), "out")[p] = Line("out", cur, p - 1)
         /\ Contents(HostOf(cur), "err") # <<>> => Contents(HostOf(cur), "out") = <<>>
<1> USE DEF IInv, TypeOK
<1>1. HostOf(cur) \in Hosts BY HostList, Zenon DEF TypeCtl
<1>2. TaskFiles(cur) BY Zenon DEF FileInv
<1>3. \A k \in Kinds : Contents(HostOf(cur), k) \in {<<>>, data[cur][k]} BY OwnInode, Zenon DEF Contents
<1>4. data[cur] \in [Kinds -> Seq(LineType)] BY Zenon DEF TypeFile
<1>5. /\ Contents(HostOf(cur), "err") \in {<<>>, data[cur]["err"]}
      /\ Contents(HostOf(cur), "out") \in {<<>>, data[cur]["out"]}
  BY <1>3, Zenon DEF Kinds
<1>6. Contents(HostOf(cur), "err") \in {<<>>, <<Line("err", cur, 0)>>} BY <1>2, <1>5, Zenon DEF TaskFiles
<1>7. Contents(HostOf(cur), "out") \in Seq(LineType) BY <1>1, ContentsType, Zenon DEF Kinds
<1>8. \A p \in 1 .. Len(Contents(HostOf(cur), "out")) : Contents(HostOf(cur), "out")[p] = Line("out", cur, p - 1)
  <2>1. CASE Contents(HostOf(cur), "out") = <<>> BY <2>1
  <2>2. CASE Contents(HostOf(cur), "out") = data[cur]["out"] BY <1>2, <2>2, Zenon DEF TaskFiles
  <2> QED BY <1>5, <2>1, <2>2, Zenon
<1>9. ASSUME Contents(HostOf(cur), "err") # <<>> PROVE Contents(HostOf(cur), "out") = <<>>
  <2>1. task[cur] = "failed" BY <1>2, <1>5, <1>9, Zenon DEF TaskFiles
  <2>2. Len(data[cur]["out"]) = 0 BY <1>2, <2>1, Zenon DEF TaskFiles
  <2>3. data[cur]["out"] = <<>> BY <1>4, <2>2 DEF Kinds
  <2> QED BY <1>5, <2>3, Zenon
<1> QED BY <1>6, <1>7, <1>8, <1>9, Zenon

(* What a step adds to the screen leaves the blocks whole.                 *)
LEMMA ShownStep ==
  ASSUME NoDuplicates, IInv, FileInv, LastInv, Blocks(shown), [Next]_vars
  PROVE  LastInv' /\ Blocks(shown)'
<1> USE DEF IInv, TypeOK
<1>0. N \in Nat /\ Idx' = Idx /\ Idx \subseteq Nat
  BY HostList, InputFixed DEF N, Idx, TypeCtl
<1>1. shown \in Seq(LineType) /\ \A i \in Idx : Banner(i) \in LineType
  BY Zenon DEF TypeFile, Banner, Line, LineType
<1>2. CASE SerialNext
  <2>1. cur \in Idx BY <1>0, <1>2 DEF SerialNext, TypeCtl, Idx
  <2>2. shown' = Append(shown, Banner(cur)) /\ cur' = cur BY <1>2, Zenon DEF SerialNext
  <2>3. wrote'[cur] = 0 BY <1>2, <2>1, Zenon DEF SerialNext, NewTask, TypeTask
  <2>4. Fits(shown, Banner(cur)) BY Zenon DEF Fits, Banner, Line
  <2>5. Blocks(Append(shown, Banner(cur))) BY <1>1, <2>1, <2>4, BlocksAppend, Zenon
  <2>6. Len(shown') > 0 /\ shown'[Len(shown')] = Banner(cur) BY <1>1, <2>1, <2>2
  <2>7. LastInv' BY <2>2, <2>3, <2>6, Zenon DEF LastInv, Banner
  <2> QED BY <2>2, <2>5, <2>7, Zenon DEF Blocks, Banner
<1>3. CASE Merge
  <2> DEFINE e == Contents(HostOf(cur), "err")
             o == Contents(HostOf(cur), "out")
             b == Append(shown, Banner(cur))
  <2>1. cur \in Idx BY <1>0, <1>3 DEF Merge, TypeCtl, Idx
  <2>2. shown' = b \o e \o o /\ pc' = "merge" BY <1>3, Zenon DEF Merge
  <2>3. e \in {<<>>, <<Line("err", cur, 0)>>} /\ o \in Seq(LineType)
        /\ (\A p \in 1 .. Len(o) : o[p] = Line("out", cur, p - 1)) /\ (e # <<>> => o = <<>>)
    BY <2>1, OwnContents, Zenon
  <2> HIDE DEF e, o
  <2>4. b \in Seq(LineType) /\ Len(b) = Len(shown) + 1 /\ b[Len(shown) + 1] = Banner(cur) BY <1>1, <2>1
  <2>5. CASE e = <<>>
    <3>1. b \o e = b BY <2>4, <2>5
    <3>2. Blocks(b \o o) BY <1>0, <1>1, <2>1, <2>3, BlocksFile
    <3> QED BY <2>2, <3>1, <3>2, Zenon DEF LastInv, Blocks, Banner
  <2>6. CASE e # <<>>
    <3>1. e = <<Line("err", cur, 0)>> /\ o = <<>> BY <2>3, <2>6, Zenon
    <3>2. Line("err", cur, 0) \in LineType BY <2>1, Zenon DEF Line, LineType, Kinds
    <3>3. b \o e \o o = Append(b, Line("err", cur, 0)) BY <2>4, <3>1, <3>2
    <3>4. Fits(shown, Banner(cur)) BY Zenon DEF Fits, Banner, Line
    <3>5. Blocks(b) BY <1>1, <2>1, <3>4, BlocksAppend, Zenon
    <3>6. Fits(b, Line("err", cur, 0))
      BY <1>1, <2>4 DEF Fits, Line, Kinds
    <3>7. Blocks(Append(b, Line("err", cur, 0))) BY <2>4, <3>2, <3>5, <3>6, BlocksAppend, Zenon
    <3> QED BY <2>2, <3>3, <3>7, Zenon DEF LastInv, Blocks, Banner
  <2> QED BY <2>5, <2>6, Zenon
<1>4. CASE \E i \in Idx : Output(i)
  <2>1. PICK i \in Idx : Output(i) BY <1>4, Zenon
  <2>2. i \in Running /\ wrote[i] \in Nat /\ UNCHANGED <<pc, cur, task>> /\ wrote'[i] = wrote[i] + 1
    BY <2>1, Zenon DEF Output, Running, TypeTask, taskFrame, mainVars
  <2>3. CASE pc = "work"
    <3>1. cur = i BY <2>2, <2>3, Zenon DEF PlaceInv
    <3>2. shown' = Append(shown, Line("out", i, wrote[i])) BY <2>1, <2>3, Zenon DEF Output, Emit
    <3>3. Line("out", i, wrote[i]) \in LineType BY <2>2, Zenon DEF Line, LineType, Kinds
    <3>4. Fits(shown, Line("out", i, wrote[i])) BY <2>2, <2>3, <3>1, Zenon DEF LastInv, Fits, Line, Kinds
    <3>5. Blocks(Append(shown, Line("out", i, wrote[i]))) BY <1>1, <3>3, <3>4, BlocksAppend, Zenon
    <3>6. Len(shown') > 0 /\ shown'[Len(shown')] = Line("out", i, wrote[i]) BY <1>1, <3>2, <3>3
    <3>7. LastInv' BY <2>2, <3>1, <3>6 DEF LastInv, Line
    <3> QED BY <3>2, <3>5, <3>7, Zenon DEF Blocks, Banner
  <2>4. CASE pc # "work"
    <3>1. shown' = shown BY <2>1, <2>4, Zenon DEF Output, Emit
    <3> QED BY <2>2, <2>4, <3>1, Zenon DEF LastInv, Blocks, Banner
  <2> QED BY <2>3, <2>4, Zenon
<1>5. CASE \E i \in Idx : ConnectFails(i)
  <2>1. PICK i \in Idx : ConnectFails(i) BY <1>5, Zenon
  <2>2. /\ i \in Running /\ wrote[i] = 0 /\ UNCHANGED <<pc, cur>>
        /\ i \notin Running'
    BY <1>0, <2>1, Zenon DEF ConnectFails, Running, TypeTask, taskFrame, mainVars, FileInv, TaskFiles
  <2>3. CASE pc = "work"
    <3>1. cur = i BY <2>2, <2>3, Zenon DEF PlaceInv
    <3>2. shown' = Append(shown, Line("err", i, 0)) BY <2>1, <2>3, Zenon DEF ConnectFails, Emit
    <3>3. Line("err", i, 0) \in LineType BY Zenon DEF Line, LineType, Kinds
    <3>4. Fits(shown, Line("err", i, 0)) BY <2>2, <2>3, <3>1, Zenon DEF LastInv, Fits, Line, Kinds
    <3>5. Blocks(Append(shown, Line("err", i, 0))) BY <1>1, <3>3, <3>4, BlocksAppend, Zenon
    <3>6. LastInv' BY <2>2, <3>1, Zenon DEF LastInv
    <3> QED BY <3>2, <3>5, <3>6, Zenon DEF Blocks, Banner
  <2>4. CASE pc # "work"
    <3>1. shown' = shown BY <2>1, <2>4, Zenon DEF ConnectFails, Emit
    <3> QED BY <2>2, <2>4, <3>1, Zenon DEF LastInv, Blocks, Banner
  <2> QED BY <2>3, <2>4, Zenon
<1>6. CASE \E i \in Idx : Connected(i) \/ SessionEnds(i)
  <2>1. PICK i \in Idx : Connected(i) \/ SessionEnds(i) BY <1>6, Zenon
  <2>2. UNCHANGED <<pc, cur, shown, wrote>> /\ Running' \subseteq Running
    BY <1>0, <2>1, Zenon DEF Connected, SessionEnds, Running, TypeTask, taskFrame, mainVars
  <2> QED BY <2>2, Zenon DEF LastInv, Blocks, Banner
<1>7. CASE UNCHANGED <<pc, cur, shown, task, wrote>>
  <2>1. Running' = Running BY <1>0, <1>7, Zenon DEF Running
  <2> QED BY <1>7, <2>1, Zenon DEF LastInv, Blocks, Banner
<1>8. CASE UNCHANGED shown /\ pc' # "work"
  BY <1>8, Zenon DEF LastInv, Blocks, Banner
<1>9. CASE \/ UNCHANGED vars \/ Finish \/ Interrupt
           \/ \E f \in Idx : HandlerReceive(f) \/ HandlerUnlink(f) \/ HandlerRmdir(f) \/ HandlerExit(f)
  BY <1>7, <1>9, Zenon DEF vars, Finish, Interrupt, HandlerReceive, HandlerUnlink, HandlerRmdir, HandlerExit, mainVars,
                    taskVars
<1>10. CASE \/ BeginCheck \/ BeginAll \/ Operator \/ Dispatch \/ NextBatch
            \/ SerialReturned \/ SerialEnd \/ MkdirFails
  BY <1>8, <1>10, Zenon DEF BeginCheck, BeginAll, Operator, Dispatch, NextBatch, Enter, SerialReturned, SerialEnd,
                     MkdirFails
<1>11. CASE Mkdir \/ Notify \/ CreateTask \/ AllCreated \/ Waited \/ SignalStop \/ RemoveAll
  BY <1>8, <1>11, Zenon DEF Mkdir, Notify, CreateTask, AllCreated, Waited, SignalStop, RemoveAll
<1> QED BY StepCases, <1>2, <1>3, <1>4, <1>5, <1>6, <1>9, <1>10, <1>11, Zenon DEF Actions

(* Before the first task nothing is printed and no file exists.            *)
LEMMA OutputInit == Init => FileInv /\ LastInv /\ Blocks(shown)
  BY DEF Init, FileInv, LastInv, Blocks, TaskFiles, Running, Kinds, None

-----------------------------------------------------------------------------
(* The process may hold the two files of every host open.                  *)
EnoughFiles == \A l \in HostLists : 2 * Len(l) <= FdLimit

(* There are descriptors for the files of one more task.                   *)
RoomForTwo == pc = "create" /\ cur \in Idx => OpenFiles \in Nat /\ OpenFiles + 1 < FdLimit

(* No signal goroutine has received an interrupt.                          *)
Quiet == \A f \in Idx : handler[f].st \in {"none", "wait"}

(* The signal goroutines there are belong to this batch or an earlier one. *)
HandlerInv ==
  \A f \in Idx : handler[f].st # "none" =>
    f < host_offset \/ (f = start /\ pc \in {"create", "wait", "merge", "remove"})

(* The hosts of the current batch whose files are still to be merged.      *)
Pending(i) ==
  \/ pc = "create" /\ start <= i /\ i < cur
  \/ pc = "wait" /\ start <= i /\ i < end
  \/ pc = "merge" /\ cur <= i /\ i < end

(* The files of host i hold all that it has said so far.                   *)
Kept(i) ==
  /\ \A k \in Kinds : ent[HostOf(i)][k] = i
  /\ pc \in {"create", "wait"} => \A k \in Kinds : fd[i][k] = i
  /\ Len(data[i]["out"]) = wrote[i]
  /\ task[i] = "failed" => data[i]["err"] = <<Line("err", i, 0)>>

(* All that host i has said so far is on the screen.                       *)
Told(i) ==
  /\ \A n \in 0 .. wrote[i] - 1 : Line("out", i, n) \in Printed
  /\ task[i] = "failed" => Line("err", i, 0) \in Printed

(* What a host has said is in its files or on the screen.                  *)
KeptOrTold(i) == IF Pending(i) THEN Kept(i) ELSE Told(i)
AllKept ==
  /\ pc \in {"notify", "create", "wait", "merge"} => dir \in dirs
  /\ \A i \in Idx : KeptOrTold(i)

(* It is, until an interrupt is served.                                    *)
KeepInv == Quiet => AllKept

(* A batch starts its goroutine when there is none of its number yet.      *)
LEMMA HandlerInvStep ==
  ASSUME IInv, HandlerInv, [Next]_vars
  PROVE  HandlerInv'
<1> USE DEF IInv, TypeOK
<1>0. N \in Nat /\ Idx' = Idx /\ Idx \subseteq Int
  BY HostList, InputFixed DEF N, Idx, TypeCtl
<1>1. CASE UNCHANGED <<handler, host_offset, start, pc>>
  BY <1>0, <1>1, Zenon DEF HandlerInv
<1>2. CASE Notify
  <2>1. \A f \in Idx \ {start} : handler'[f] = handler[f] BY <1>2, Zenon DEF Notify, TypeSig
  <2> QED BY <1>0, <1>2, <2>1, Zenon DEF Notify, HandlerInv
<1>3. CASE RemoveAll \/ MkdirFails
  <2>1. /\ host_offset \in Nat /\ ParallelDegree \in Int /\ ParallelDegree > 0 /\ start = host_offset
        /\ host_offset' = host_offset + ParallelDegree /\ handler' = handler
    BY <1>3, Zenon DEF RemoveAll, MkdirFails, TypeCtl, LoopInv, BatchPcs, sigVars
  <2> QED BY <1>0, <2>1 DEF HandlerInv
<1>4. CASE \E f \in Idx : HandlerReceive(f) \/ HandlerUnlink(f) \/ HandlerRmdir(f)
  <2>1. PICK f \in Idx : HandlerReceive(f) \/ HandlerUnlink(f) \/ HandlerRmdir(f) BY <1>4, Zenon
  <2>2. /\ UNCHANGED <<host_offset, start, pc>> /\ handler[f].st # "none"
        /\ \A g \in Idx \ {f} : handler'[g] = handler[g]
    BY <2>1, Zenon DEF HandlerReceive, HandlerUnlink, HandlerRmdir, SetHandler, TypeSig, mainVars
  <2> QED BY <1>0, <2>2, Zenon DEF HandlerInv
<1>5. CASE UNCHANGED <<handler, start, host_offset>> /\ pc \in {"create", "wait", "merge"}
           /\ pc' \in {"create", "wait", "merge", "remove"}
  BY <1>0, <1>5, Zenon DEF HandlerInv
<1>6. CASE handler' = handler /\ pc \notin {"create", "wait", "merge", "remove"} /\ host_offset' >= host_offset
           /\ host_offset' \in Nat
  <2> SUFFICES ASSUME NEW f \in Idx, handler[f].st # "none" PROVE f < host_offset'
    BY <1>0, <1>6, Zenon DEF HandlerInv
  <2>1. f < host_offset BY <1>6, Zenon DEF HandlerInv
  <2>2. f \in Int /\ host_offset \in Int BY <1>0 DEF TypeCtl
  <2> QED BY <1>6, <2>1, <2>2
<1>7. CASE UNCHANGED vars \/ Finish \/ Interrupt \/ \E f \in Idx : HandlerExit(f)
  BY <1>1, <1>7, Zenon DEF vars, Finish, Interrupt, HandlerExit, mainVars, sigVars
<1>8. CASE \/ BeginCheck \/ BeginAll \/ Operator \/ Dispatch \/ NextBatch
           \/ SerialNext \/ SerialReturned \/ SerialEnd \/ Mkdir
  <2>1. handler' = handler /\ pc \notin {"create", "wait", "merge", "remove"}
    BY <1>8, Zenon DEF BeginCheck, BeginAll, Operator, Dispatch, NextBatch, Enter, SerialNext, SerialReturned,
                       SerialEnd, Mkdir, sigVars
  <2>2. host_offset' = host_offset \/ (pc = "confirm" /\ host_offset' = 1)
    BY <1>8, Zenon DEF BeginCheck, BeginAll, Operator, Dispatch, NextBatch, SerialNext, SerialReturned,
                SerialEnd, Mkdir
  <2>3. host_offset \in Nat /\ (pc = "confirm" => host_offset = 0) BY Zenon DEF TypeCtl, LoopInv
  <2>4. host_offset' >= host_offset /\ host_offset' \in Nat BY <2>2, <2>3
  <2> QED BY <1>6, <2>1, <2>4, Zenon
<1>9. CASE CreateTask \/ AllCreated \/ Waited \/ Merge \/ SignalStop
  BY <1>5, <1>9, Zenon DEF CreateTask, AllCreated, Waited, Merge, SignalStop, sigVars
<1>10. CASE \E i \in Idx : Connected(i) \/ ConnectFails(i) \/ Output(i) \/ SessionEnds(i)
  <2>1. PICK i \in Idx : Connected(i) \/ ConnectFails(i) \/ Output(i) \/ SessionEnds(i) BY <1>10, Zenon
  <2> QED BY <1>1, <2>1, Zenon DEF Connected, ConnectFails, Output, SessionEnds, taskFrame, mainVars, sigVars
<1> QED BY StepCases, <1>2, <1>3, <1>4, <1>7, <1>8, <1>9, <1>10, Zenon DEF Actions

(* A step after which no interrupt is being served starts where none was.  *)
LEMMA QuietBefore ==
  ASSUME IInv, HandlerInv, [Next]_vars, Quiet'
  PROVE  /\ Quiet
         /\ ~\E f \in Idx : HandlerReceive(f) \/ HandlerUnlink(f) \/ HandlerRmdir(f) \/ HandlerExit(f)
<1> USE DEF IInv, TypeOK
<1>0. N \in Nat /\ Idx' = Idx /\ Idx \subseteq Int
  BY HostList, InputFixed DEF N, Idx, TypeCtl
<1>1. ASSUME NEW f \in Idx, HandlerReceive(f) \/ HandlerUnlink(f) \/ HandlerRmdir(f) \/ HandlerExit(f)
      PROVE  FALSE
  <2>1. handler'[f].st \in {"unlink", "rmdir", "exit"}
    BY <1>1 DEF HandlerReceive, HandlerUnlink, HandlerRmdir, HandlerExit, SetHandler, TypeSig, sigVars
  <2> QED BY <1>0, <2>1, Zenon DEF Quiet
<1>2. CASE Notify
  <2>1. \A f \in Idx \ {start} : handler'[f] = handler[f] BY <1>2, Zenon DEF Notify, TypeSig
  <2>2. start \in Idx => handler[start].st = "none"
    BY <1>0, <1>2 DEF Notify, HandlerInv, LoopInv, BatchPcs, TypeCtl
  <2> QED BY <1>0, <1>1, <2>1, <2>2, Zenon DEF Quiet
<1>3. CASE handler' = handler BY <1>0, <1>1, <1>3, Zenon DEF Quiet
<1> QED
  BY StepCases, <1>1, <1>2, <1>3, Zenon
  DEF Actions, vars, sigVars, taskFrame, BeginCheck, BeginAll, Operator, Dispatch, NextBatch, Finish,
      SerialNext, SerialReturned, SerialEnd, MkdirFails, Mkdir, CreateTask, AllCreated, Waited, Merge,
      SignalStop, RemoveAll, Interrupt, Connected, ConnectFails, Output, SessionEnds

(* The lines of two files one after the other.                             *)
LEMMA Joined ==
  ASSUME NEW a \in Seq(LineType), NEW c \in Seq(LineType)
  PROVE  /\ a \o c \in Seq(LineType) /\ Len(a \o c) = Len(a) + Len(c)
         /\ \A p \in 1 .. Len(a) : (a \o c)[p] = a[p]
         /\ \A p \in 1 .. Len(c) : (a \o c)[Len(a) + p] = c[p]
<1>1. a \o c \in Seq(LineType) /\ Len(a \o c) = Len(a) + Len(c) OBVIOUS
<1>2. \A p \in 1 .. Len(a) : (a \o c)[p] = a[p] OBVIOUS
<1>3. ASSUME NEW p \in 1 .. Len(c) PROVE (a \o c)[Len(a) + p] = c[p]
  <2>1. Len(a) + p \in 1 .. Len(a) + Len(c) /\ Len(a) + p > Len(a) /\ Len(a) + p - Len(a) = p OBVIOUS
  <2> QED BY <2>1
<1> QED BY <1>1, <1>2, <1>3, Zenon

(* What is on the screen stays there, and the banner and the two files of  *)
(* a host come after it.                                                   *)
LEMMA PrintedMerge ==
  ASSUME shown \in Seq(LineType), NEW x \in LineType, NEW e \in Seq(LineType), NEW o \in Seq(LineType),
         shown' = Append(shown, x) \o e \o o
  PROVE  /\ Printed \subseteq Printed'
         /\ \A p \in 1 .. Len(e) : e[p] \in Printed'
         /\ \A p \in 1 .. Len(o) : o[p] \in Printed'
<1> DEFINE b == Append(shown, x)
           t == b \o e
<1>1. b \in Seq(LineType) /\ Len(b) = Len(shown) + 1 /\ \A p \in 1 .. Len(shown) : b[p] = shown[p] OBVIOUS
<1> HIDE DEF b
<1>2. /\ t \in Seq(LineType) /\ Len(t) = Len(b) + Len(e)
      /\ \A p \in 1 .. Len(b) : t[p] = b[p]
      /\ \A p \in 1 .. Len(e) : t[Len(b) + p] = e[p]
  BY <1>1, Joined, Zenon
<1>3. shown' = t \o o BY DEF b
<1> HIDE DEF t
<1>4. /\ Len(shown') = Len(t) + Len(o)
      /\ \A p \in 1 .. Len(t) : shown'[p] = t[p]
      /\ \A p \in 1 .. Len(o) : shown'[Len(t) + p] = o[p]
  <2>1. /\ Len(t \o o) = Len(t) + Len(o)
        /\ \A p \in 1 .. Len(t) : (t \o o)[p] = t[p]
        /\ \A p \in 1 .. Len(o) : (t \o o)[Len(t) + p] = o[p]
    BY <1>2, Joined, Zenon
  <2> QED BY <1>3, <2>1
<1>5. Len(shown) \in Nat /\ Len(b) \in Nat /\ Len(e) \in Nat /\ Len(t) \in Nat /\ Len(o) \in Nat BY <1>1, <1>2
<1>6. Printed' = {shown'[p] : p \in 1 .. Len(shown')} BY DEF Printed
<1>7. ASSUME NEW p \in 1 .. Len(shown) PROVE shown[p] \in Printed'
  <2>1. p \in 1 .. Len(b) /\ p \in 1 .. Len(t) /\ p \in 1 .. Len(shown') BY <1>1, <1>2, <1>4, <1>5
  <2> QED BY <1>1, <1>2, <1>4, <1>6, <2>1, Zenon
<1>8. ASSUME NEW p \in 1 .. Len(e) PROVE e[p] \in Printed'
  <2>1. Len(b) + p \in 1 .. Len(t) /\ Len(b) + p \in 1 .. Len(shown') BY <1>2, <1>4, <1>5
  <2> QED BY <1>2, <1>4, <1>6, <2>1, Zenon
<1>9. ASSUME NEW p \in 1 .. Len(o) PROVE o[p] \in Printed'
  <2>1. Len(t) + p \in 1 .. Len(shown') BY <1>4, <1>5
  <2> QED BY <1>4, <1>6, <2>1, Zenon
<1> QED BY <1>7, <1>8, <1>9, Zenon DEF Printed

(* The same for one line.                                                  *)
LEMMA PrintedAppend ==
  ASSUME shown \in Seq(LineType), NEW x \in LineType, shown' = Append(shown, x)
  PROVE  Printed \subseteq Printed' /\ x \in Printed'
<1>1. Len(shown) \in Nat /\ Len(shown') = Len(shown) + 1 /\ shown'[Len(shown) + 1] = x OBVIOUS
<1>2. \A p \in 1 .. Len(shown) : shown'[p] = shown[p] /\ p \in 1 .. Len(shown') BY <1>1
<1>3. Len(shown) + 1 \in 1 .. Len(shown') BY <1>1
<1> QED BY <1>1, <1>2, <1>3, Zenon DEF Printed

(* With room for both, os.Create gives the task of cur its two files.      *)
LEMMA CreateBoth ==
  ASSUME NoDuplicates, IInv, FileInv, RoomForTwo, CreateTask, dir \in dirs
  PROVE  \A k \in Kinds : fd'[cur][k] = cur /\ ent'[HostOf(cur)][k] = cur
<1> USE DEF IInv, TypeOK
<1> DEFINE h == HostOf(cur)
           outOk == dir \in dirs /\ OpenFiles < FdLimit
           errOk == dir \in dirs /\ OpenFiles + (IF outOk THEN 1 ELSE 0) < FdLimit
           ok(k) == IF k = "out" THEN outOk ELSE errOk
           inode(k) == IF ent[h][k] = None THEN cur ELSE ent[h][k]
<1>0. cur \in Idx /\ pc = "create"
  BY HostList DEF CreateTask, TypeCtl, Idx
<1>1. OpenFiles \in Nat /\ OpenFiles + 1 < FdLimit /\ FdLimit \in Nat
  BY <1>0, ConstantsAssumption, Zenon DEF RoomForTwo
<1>2. \A k \in Kinds : ok(k) BY <1>1 DEF Kinds
<1>3. h \in Hosts /\ ent[h] \in [Kinds -> Idx \cup {None}]
  BY <1>0, HostList, Zenon DEF TypeCtl, TypeFile
<1>4. \A k \in Kinds : inode(k) = cur BY <1>0, OwnInode, Zenon
<1>5. fd' = [fd EXCEPT ![cur] = [k \in Kinds |-> IF ok(k) THEN inode(k) ELSE None]]
  BY Zenon DEF CreateTask
<1>6. ent' = [ent EXCEPT ![h] = [k \in Kinds |-> IF ok(k) THEN inode(k) ELSE ent[h][k]]]
  BY Zenon DEF CreateTask
<1> HIDE DEF h, ok, inode
<1>7. \A k \in Kinds : fd'[cur][k] = cur BY <1>0, <1>2, <1>4, <1>5, Zenon DEF TypeFile
<1>8. \A k \in Kinds : ent'[h][k] = cur BY <1>2, <1>3, <1>4, <1>6, Zenon DEF TypeFile
<1> QED BY <1>7, <1>8, Zenon DEF h

(* A host whose state, files and lines on the screen stay.                 *)
LEMMA ToldFixed ==
  ASSUME NEW i \in Idx, Told(i), wrote'[i] = wrote[i], task'[i] = "failed" => task[i] = "failed",
         Printed \subseteq Printed'
  PROVE  Told(i)'
BY Zenon DEF Told, Line

(* A host whose state and files stay.                                      *)
LEMMA KeptFixed ==
  ASSUME NEW i \in Idx, Kept(i), HostOf(i)' = HostOf(i), ent'[HostOf(i)] = ent[HostOf(i)], data'[i] = data[i],
         wrote'[i] = wrote[i], task'[i] = "failed" => task[i] = "failed",
         pc' \in {"create", "wait"} => pc \in {"create", "wait"} /\ fd'[i] = fd[i]
  PROVE  Kept(i)'
BY Zenon DEF Kept, Line

(* Either way nothing of what it has said is lost.                         *)
LEMMA KeepFixed ==
  ASSUME NEW i \in Idx, KeptOrTold(i), Pending(i)' <=> Pending(i), Printed \subseteq Printed',
         HostOf(i)' = HostOf(i), ent'[HostOf(i)] = ent[HostOf(i)], data'[i] = data[i],
         wrote'[i] = wrote[i], task'[i] = "failed" => task[i] = "failed",
         pc' \in {"create", "wait"} => pc \in {"create", "wait"} /\ fd'[i] = fd[i]
  PROVE  KeptOrTold(i)'
BY KeptFixed, ToldFixed, Zenon DEF KeptOrTold

(* The hosts of the list stay.                                             *)
LEMMA ListFixed ==
  ASSUME TypeCtl, [Next]_vars
  PROVE  Idx' = Idx /\ Idx \subseteq Nat /\ \A i \in Idx : HostOf(i)' = HostOf(i) /\ HostOf(i) \in Hosts
BY HostList, InputFixed DEF N, Idx, TypeCtl, HostOf

(* A task that begins has said nothing, and its files are created empty.   *)
LEMMA KeepSerial ==
  ASSUME IInv, [Next]_vars, AllKept, SerialNext
  PROVE  AllKept'
<1> USE DEF IInv, TypeOK
<1>0. cur \in Idx BY HostList DEF SerialNext, TypeCtl, Idx
<1>1. PICK c \in Idx : c = cur BY <1>0, Zenon
<1>2. NewTask(c) /\ pc = "serial" /\ pc' = "work" /\ shown' = Append(shown, Banner(c))
  BY <1>1, Zenon DEF SerialNext
<1>3. shown \in Seq(LineType) /\ Banner(c) \in LineType BY Zenon DEF TypeFile, Banner, Line, LineType
<1>4. Printed \subseteq Printed' BY <1>2, <1>3, PrintedAppend, Zenon
<1>5. \A i \in Idx : ~Pending(i) /\ ~Pending(i)' BY <1>2, Zenon DEF Pending
<1>6. \A i \in Idx \ {c} : wrote'[i] = wrote[i] /\ task'[i] = task[i] BY <1>2, Zenon DEF NewTask, TypeTask
<1>7. \A i \in Idx \ {c} : Told(i)' BY <1>4, <1>5, <1>6, ToldFixed, Zenon DEF AllKept, KeptOrTold
<1>8. wrote'[c] = 0 /\ task'[c] = "dial" BY <1>2, Zenon DEF NewTask, TypeTask
<1>9. Told(c)' BY <1>8 DEF Told
<1> QED BY <1>2, <1>5, <1>7, <1>9, ListFixed, Zenon DEF AllKept, KeptOrTold

LEMMA KeepCreate ==
  ASSUME NoDuplicates, IInv, [Next]_vars, FileInv, RoomForTwo, AllKept, CreateTask
  PROVE  AllKept'
<1> USE DEF IInv, TypeOK
<1>0. cur \in Idx /\ start <= cur BY CreateFiles, Zenon DEF CreateTask, LoopInv
<1>1. PICK c \in Idx : c = cur /\ start <= c BY <1>0, Zenon
<1>2. NewTask(c) /\ UNCHANGED <<pc, start, end, dir, dirs, shown>> /\ pc = "create" /\ cur' = c + 1
  BY <1>1, Zenon DEF CreateTask
<1>3. dir \in dirs BY <1>2, Zenon DEF AllKept
<1>4. /\ \A k \in Kinds : fd'[c][k] = c /\ ent'[HostOf(c)][k] = c
      /\ \A k \in Kinds : data'[c][k] = <<>>
      /\ \A h \in Hosts \ {HostOf(c)} : ent'[h] = ent[h]
      /\ \A i \in Idx \ {c} : fd'[i] = fd[i] /\ data'[i] = data[i]
  BY <1>1, <1>3, CreateFiles, CreateBoth, Zenon
<1>5. \A i \in Idx \ {c} : wrote'[i] = wrote[i] /\ task'[i] = task[i] BY <1>2, Zenon DEF NewTask, TypeTask
<1>6. wrote'[c] = 0 /\ task'[c] = "dial" BY <1>2, Zenon DEF NewTask, TypeTask
<1>7. Printed' = Printed BY <1>2, Zenon DEF Printed
<1>8. Idx' = Idx /\ Idx \subseteq Nat /\ \A i \in Idx : HostOf(i)' = HostOf(i) /\ HostOf(i) \in Hosts
  BY ListFixed, Zenon
<1>9. Pending(c)' BY <1>1, <1>2, <1>8 DEF Pending
<1>10. Kept(c)'
  <2>1. data'[c]["out"] = <<>> /\ HostOf(c)' = HostOf(c) BY <1>4, <1>8, Zenon DEF Kinds
  <2>2. Len(data'[c]["out"]) = 0 BY <2>1
  <2> QED BY <1>4, <1>6, <2>1, <2>2, Zenon DEF Kept
<1>11. ASSUME NEW i \in Idx \ {c} PROVE KeptOrTold(i)'
  <2>1. HostOf(i) \in Hosts \ {HostOf(c)} BY <1>8, Different, Zenon
  <2>2. i < c + 1 <=> i < c BY <1>8
  <2>3. Pending(i)' <=> Pending(i) BY <1>1, <1>2, <2>2, Zenon DEF Pending
  <2>4. KeptOrTold(i) BY Zenon DEF AllKept
  <2> QED BY <1>2, <1>4, <1>5, <1>7, <1>8, <2>1, <2>3, <2>4, KeepFixed, Zenon
<1>12. KeptOrTold(c)' BY <1>9, <1>10, Zenon DEF KeptOrTold
<1> QED BY <1>2, <1>3, <1>8, <1>11, <1>12, Zenon DEF AllKept

(* A merge shows the whole of the files of the host of cur.                *)
LEMMA KeepMerge ==
  ASSUME NoDuplicates, IInv, [Next]_vars, FileInv, AllKept, Merge
  PROVE  AllKept'
<1> USE DEF IInv, TypeOK
<1>0. cur \in Idx BY HostList DEF Merge, TypeCtl, Idx
<1>1. PICK c \in Idx : c = cur BY <1>0, Zenon
<1> DEFINE e == Contents(HostOf(c), "err")
           o == Contents(HostOf(c), "out")
<1>2. /\ UNCHANGED <<pc, start, end, dir, dirs, task, wrote, data, fd>> /\ pc = "merge" /\ cur' = c + 1
      /\ c < end
  BY <1>1, Zenon DEF Merge, taskVars
<1>3. \A h \in Hosts \ {HostOf(c)} : ent'[h] = ent[h] BY <1>1, Zenon DEF Merge, TypeFile
<1>4. shown' = Append(shown, Banner(c)) \o e \o o BY <1>1, Zenon DEF Merge
<1>5. Idx' = Idx /\ Idx \subseteq Nat /\ \A i \in Idx : HostOf(i)' = HostOf(i) /\ HostOf(i) \in Hosts
  BY ListFixed, Zenon
<1>6. Kept(c) /\ TaskFiles(c)
  <2>1. cur <= c BY <1>1, <1>5
  <2>2. Pending(c) BY <1>2, <2>1, Zenon DEF Pending
  <2> QED BY <2>2, Zenon DEF FileInv, AllKept, KeptOrTold
<1>7. e = data[c]["err"] /\ o = data[c]["out"]
  BY <1>5, <1>6 DEF Contents, Kept, Kinds, None
<1>8. e \in Seq(LineType) /\ o \in Seq(LineType) /\ Banner(c) \in LineType /\ shown \in Seq(LineType)
  BY <1>5, ContentsType, Zenon DEF Kinds, TypeFile, Banner, Line, LineType
<1> HIDE DEF e, o
<1>9. /\ Printed \subseteq Printed'
      /\ \A p \in 1 .. Len(e) : e[p] \in Printed'
      /\ \A p \in 1 .. Len(o) : o[p] \in Printed'
  BY <1>4, <1>8, PrintedMerge, Zenon
<1>10. Told(c)'
  <2>1. ASSUME NEW n \in 0 .. wrote[c] - 1 PROVE Line("out", c, n) \in Printed'
    <3>1. wrote[c] \in Nat /\ Len(o) = wrote[c] BY <1>6, <1>7, Zenon DEF Kept, TypeTask
    <3>2. n + 1 \in 1 .. Len(o) /\ (n + 1) - 1 = n BY <3>1
    <3>3. o[n + 1] = Line("out", c, n) BY <1>6, <1>7, <3>2, Zenon DEF TaskFiles
    <3> QED BY <1>9, <3>2, <3>3, Zenon
  <2>2. ASSUME task[c] = "failed" PROVE Line("err", c, 0) \in Printed'
    <3>1. e = <<Line("err", c, 0)>> BY <1>6, <1>7, <2>2, Zenon DEF Kept
    <3>2. 1 \in 1 .. Len(e) /\ e[1] = Line("err", c, 0) BY <3>1
    <3> QED BY <1>9, <3>2, Zenon
  <2> QED BY <1>2, <2>1, <2>2, Zenon DEF Told, Line
<1>11. ~Pending(c)' BY <1>2, <1>5 DEF Pending
<1>12. ASSUME NEW i \in Idx \ {c} PROVE KeptOrTold(i)'
  <2>1. HostOf(i) \in Hosts \ {HostOf(c)} BY <1>5, Different, Zenon
  <2>2. c + 1 <= i <=> c <= i BY <1>5
  <2>3. Pending(i)' <=> Pending(i) BY <1>1, <1>2, <2>2, Zenon DEF Pending
  <2>4. KeptOrTold(i) BY Zenon DEF AllKept
  <2> QED BY <1>2, <1>3, <1>5, <1>9, <2>1, <2>3, <2>4, KeepFixed, Zenon
<1>13. KeptOrTold(c)' BY <1>10, <1>11, Zenon DEF KeptOrTold
<1> QED BY <1>2, <1>5, <1>12, <1>13, Zenon DEF AllKept

(* What a step of task i says goes to the screen in a SerialRun and to the *)
(* end of its file in a batch.                                             *)
LEMMA KeepEmit ==
  ASSUME IInv, [Next]_vars, FileInv, AllKept, NEW i \in Running, NEW k \in Kinds, NEW n \in Nat, Emit(k, i, n),
         UNCHANGED <<pc, start, end, cur, dir, dirs, ent, fd>>,
         \A j \in Idx \ {i} : wrote'[j] = wrote[j] /\ task'[j] = task[j],
         Pending(i) => n = Len(data[i][k])
  PROVE  /\ \A j \in Idx \ {i} : KeptOrTold(j)'
         /\ Printed \subseteq Printed'
         /\ IF pc = "work"
            THEN ~Pending(i) /\ Told(i) /\ ~Pending(i)' /\ Line(k, i, n) \in Printed'
            ELSE /\ Pending(i) /\ Kept(i) /\ Pending(i)'
                 /\ \A m \in Kinds \ {k} : data'[i][m] = data[i][m]
                 /\ data'[i][k] = Append(data[i][k], Line(k, i, n))
<1> USE DEF IInv, TypeOK
<1>0. i \in Idx /\ TaskFiles(i) /\ KeptOrTold(i) BY Zenon DEF Running, FileInv, AllKept
<1>1. \A j \in Idx : Pending(j)' <=> Pending(j) BY Zenon DEF Pending
<1>2. Idx' = Idx /\ Idx \subseteq Nat /\ \A j \in Idx : HostOf(j)' = HostOf(j) BY ListFixed, Zenon
<1>3. ASSUME NEW j \in Idx \ {i}, Printed \subseteq Printed', data'[j] = data[j] PROVE KeptOrTold(j)'
  <2>1. KeptOrTold(j) BY Zenon DEF AllKept
  <2> QED BY <1>1, <1>2, <1>3, <2>1, KeepFixed, Zenon
<1>4. CASE pc = "work"
  <2>1. shown' = Append(shown, Line(k, i, n)) /\ data' = data BY <1>4, Zenon DEF Emit
  <2>2. shown \in Seq(LineType) /\ Line(k, i, n) \in LineType BY <1>0, Zenon DEF TypeFile, Line, LineType
  <2>3. Printed \subseteq Printed' /\ Line(k, i, n) \in Printed' BY <2>1, <2>2, PrintedAppend, Zenon
  <2>4. ~Pending(i) BY <1>4, Zenon DEF Pending
  <2>5. ~Pending(i)' BY <1>0, <1>1, <2>4, Zenon
  <2>6. Told(i) BY <1>0, <2>4, Zenon DEF KeptOrTold
  <2>7. \A j \in Idx \ {i} : KeptOrTold(j)' BY <1>3, <2>1, <2>3, Zenon
  <2> QED BY <1>4, <2>3, <2>4, <2>5, <2>6, <2>7, Zenon
<1>5. CASE pc # "work"
  <2>1. Pending(i) /\ pc \in {"create", "wait"} BY <1>5, Zenon DEF PlaceInv, Pending
  <2>2. Kept(i) BY <1>0, <2>1, Zenon DEF KeptOrTold
  <2>3. fd[i][k] = i BY <2>1, <2>2, Zenon DEF Kept
  <2>4. i # None BY <1>0, <1>2 DEF None
  <2>5. /\ shown' = shown
        /\ \A j \in Idx \ {i} : data'[j] = data[j]
        /\ \A m \in Kinds \ {k} : data'[i][m] = data[i][m]
        /\ data'[i][k] = IF fd[i][k] = None THEN data[i][k] ELSE Append(data[i][k], Line(k, i, n))
    BY <1>0, <1>5, <2>1, EmitFiles, Zenon
  <2>6. data'[i][k] = Append(data[i][k], Line(k, i, n)) BY <2>3, <2>4, <2>5, Zenon
  <2>7. Printed' = Printed BY <2>5, Zenon DEF Printed
  <2> QED BY <1>0, <1>1, <1>3, <1>5, <2>1, <2>2, <2>5, <2>6, <2>7, Zenon
<1> QED BY <1>4, <1>5, Zenon

LEMMA KeepFails ==
  ASSUME IInv, [Next]_vars, FileInv, AllKept, NEW i \in Idx, ConnectFails(i)
  PROVE  AllKept'
<1> USE DEF IInv, TypeOK
<1>1. /\ UNCHANGED <<pc, start, end, cur, dir, dirs, ent, fd, wrote>> /\ Emit("err", i, 0)
      /\ task[i] = "dial" /\ task'[i] = "failed" /\ \A j \in Idx \ {i} : task'[j] = task[j]
  BY Zenon DEF ConnectFails, taskFrame, mainVars, TypeTask
<1>2. i \in Running /\ TaskFiles(i) BY <1>1, Zenon DEF Running, FileInv
<1>3. wrote[i] = 0 /\ data[i]["err"] = <<>> /\ 0 = Len(data[i]["err"]) BY <1>1, <1>2, Zenon DEF TaskFiles
<1>4. "err" \in Kinds /\ "out" \in Kinds \ {"err"} /\ 0 \in Nat BY Zenon DEF Kinds
<1>5. /\ \A j \in Idx \ {i} : KeptOrTold(j)'
      /\ IF pc = "work"
         THEN ~Pending(i) /\ Told(i) /\ ~Pending(i)' /\ Line("err", i, 0) \in Printed'
         ELSE /\ Pending(i) /\ Kept(i) /\ Pending(i)'
              /\ \A m \in Kinds \ {"err"} : data'[i][m] = data[i][m]
              /\ data'[i]["err"] = Append(data[i]["err"], Line("err", i, 0))
  BY <1>1, <1>2, <1>3, <1>4, KeepEmit, Zenon
<1>6. CASE pc = "work"
  <2>1. wrote'[i] = 0 BY <1>1, <1>3, Zenon
  <2>2. \A n \in 0 .. wrote'[i] - 1 : FALSE BY <2>1
  <2>3. Told(i)' BY <1>5, <1>6, <2>2, Zenon DEF Told
  <2> QED BY <1>1, <1>5, <1>6, <2>3, ListFixed, Zenon DEF AllKept, KeptOrTold
<1>7. CASE pc # "work"
  <2>1. data'[i]["err"] = Append(<<>>, Line("err", i, 0)) /\ data'[i]["out"] = data[i]["out"]
    BY <1>3, <1>4, <1>5, <1>7, Zenon
  <2>2. \A x : Append(<<>>, x) = <<x>> OBVIOUS
  <2>3. data'[i]["err"] = <<Line("err", i, 0)>> BY <2>1, <2>2, Zenon
  <2>4. Kept(i)' BY <1>1, <1>5, <1>7, <2>1, <2>3, ListFixed, Zenon DEF Kept, Line
  <2>5. KeptOrTold(i)' BY <1>5, <1>7, <2>4, Zenon DEF KeptOrTold
  <2> QED BY <1>1, <1>5, <2>5, ListFixed, Zenon DEF AllKept
<1> QED BY <1>6, <1>7, Zenon

LEMMA KeepOutput ==
  ASSUME IInv, [Next]_vars, FileInv, AllKept, NEW i \in Idx, Output(i)
  PROVE  AllKept'
<1> USE DEF IInv, TypeOK
<1>1. /\ UNCHANGED <<pc, start, end, cur, dir, dirs, ent, fd, task>> /\ Emit("out", i, wrote[i])
      /\ task[i] = "session" /\ wrote[i] \in Nat /\ wrote'[i] = wrote[i] + 1
      /\ \A j \in Idx \ {i} : wrote'[j] = wrote[j]
  BY Zenon DEF Output, taskFrame, mainVars, TypeTask
<1>2. i \in Running BY <1>1, Zenon DEF Running
<1>3. data[i]["out"] \in Seq(LineType) BY Zenon DEF Kinds, TypeFile
<1>4. "out" \in Kinds /\ "err" \in Kinds \ {"out"} BY Zenon DEF Kinds
<1>5. Pending(i) => wrote[i] = Len(data[i]["out"]) BY Zenon DEF AllKept, KeptOrTold, Kept
<1>6. /\ \A j \in Idx \ {i} : KeptOrTold(j)'
      /\ Printed \subseteq Printed'
      /\ IF pc = "work"
         THEN ~Pending(i) /\ Told(i) /\ ~Pending(i)' /\ Line("out", i, wrote[i]) \in Printed'
         ELSE /\ Pending(i) /\ Kept(i) /\ Pending(i)'
              /\ \A m \in Kinds \ {"out"} : data'[i][m] = data[i][m]
              /\ data'[i]["out"] = Append(data[i]["out"], Line("out", i, wrote[i]))
  BY <1>1, <1>2, <1>4, <1>5, KeepEmit, Zenon
<1>7. CASE pc = "work"
  <2>1. \A n \in 0 .. (wrote[i] + 1) - 1 : n \in 0 .. wrote[i] - 1 \/ n = wrote[i] BY <1>1
  <2>2. \A n \in 0 .. (wrote[i] + 1) - 1 : Line("out", i, n) \in Printed' BY <1>6, <1>7, <2>1, Zenon DEF Told
  <2>3. Told(i)' BY <1>1, <2>2, Zenon DEF Told, Line
  <2> QED BY <1>1, <1>6, <1>7, <2>3, ListFixed, Zenon DEF AllKept, KeptOrTold
<1>8. CASE pc # "work"
  <2>0. \A s \in Seq(LineType) : \A x : Len(Append(s, x)) = Len(s) + 1 OBVIOUS
  <2>1. Len(data'[i]["out"]) = wrote[i] + 1 /\ data'[i]["err"] = data[i]["err"]
    BY <1>3, <1>4, <1>5, <1>6, <1>8, <2>0, Zenon
  <2>2. Kept(i)' BY <1>1, <1>6, <1>8, <2>1, ListFixed, Zenon DEF Kept, Line
  <2>3. KeptOrTold(i)' BY <1>6, <1>8, <2>2, Zenon DEF KeptOrTold
  <2> QED BY <1>1, <1>6, <2>3, ListFixed, Zenon DEF AllKept
<1> QED BY <1>7, <1>8, Zenon

(* While no interrupt is served, all that the hosts have said is kept      *)
(* until it is shown.                                                      *)
LEMMA KeepStep ==
  ASSUME NoDuplicates, IInv, FileInv, RoomForTwo, HandlerInv, KeepInv, [Next]_vars
  PROVE  KeepInv'
<1> SUFFICES ASSUME Quiet' PROVE AllKept' BY Zenon DEF KeepInv
<1> USE DEF IInv, TypeOK
<1>0. /\ AllKept
      /\ ~\E f \in Idx : HandlerReceive(f) \/ HandlerUnlink(f) \/ HandlerRmdir(f) \/ HandlerExit(f)
  BY QuietBefore, Zenon DEF KeepInv
<1>1. N \in Nat /\ start \in Nat /\ end \in Nat /\ cur \in Nat /\ Idx' = Idx /\ Idx \subseteq Nat
      /\ \A i \in Idx : HostOf(i)' = HostOf(i)
  BY ListFixed, HostList DEF TypeCtl
<1>2. CASE /\ UNCHANGED <<ent, data, wrote, shown>>
           /\ \A i \in Idx : /\ Pending(i)' <=> Pending(i)
                             /\ task'[i] = "failed" => task[i] = "failed"
           /\ pc' \in {"create", "wait"} => pc \in {"create", "wait"} /\ fd' = fd
           /\ pc' \in {"notify", "create", "wait", "merge"} => dir' \in dirs'
  <2>1. Printed' = Printed BY <1>2, Zenon DEF Printed
  <2>2. ASSUME NEW i \in Idx PROVE KeptOrTold(i)' BY <1>0, <1>1, <1>2, <2>1, KeepFixed, Zenon DEF AllKept
  <2> QED BY <1>1, <1>2, <2>2, Zenon DEF AllKept
<1>3. CASE /\ UNCHANGED <<task, wrote, shown>>
           /\ \A i \in Idx : ~Pending(i) /\ ~Pending(i)'
           /\ pc' \in {"notify", "create", "wait", "merge"} => dir' \in dirs'
  <2>1. Printed' = Printed BY <1>3, Zenon DEF Printed
  <2>2. \A i \in Idx : Told(i)' BY <1>0, <1>3, <2>1, ToldFixed, Zenon DEF AllKept, KeptOrTold
  <2> QED BY <1>1, <1>3, <2>2, Zenon DEF AllKept, KeptOrTold
<1>4. CASE AllCreated
  <2>1. UNCHANGED <<task, wrote, shown, ent, fd, data, dir, dirs, start, end>> /\ pc = "create" /\ pc' = "wait"
    BY <1>4, Zenon DEF AllCreated, taskVars, fileVars
  <2>2. cur = end BY <1>1, <1>4 DEF AllCreated, LoopInv
  <2>3. \A i \in Idx : Pending(i)' <=> Pending(i) BY <2>1, <2>2, Zenon DEF Pending
  <2> QED BY <1>0, <1>2, <2>1, <2>3, Zenon DEF AllKept
<1>5. CASE Waited
  <2>1. /\ UNCHANGED <<task, wrote, shown, ent, data, dir, dirs, start, end>>
        /\ pc = "wait" /\ pc' = "merge" /\ cur' = start
    BY <1>5, Zenon DEF Waited, taskVars
  <2>2. \A i \in Idx : Pending(i)' <=> Pending(i) BY <2>1, Zenon DEF Pending
  <2> QED BY <1>0, <1>2, <2>1, <2>2, Zenon DEF AllKept
<1>6. CASE \E i \in Idx : Connected(i) \/ SessionEnds(i)
  <2>1. /\ UNCHANGED <<pc, start, end, cur, dir, dirs, ent, fd, data, wrote, shown>>
        /\ \A i \in Idx : task'[i] = "failed" => task[i] = "failed"
    BY <1>6, Zenon DEF Connected, SessionEnds, taskFrame, mainVars, TypeTask
  <2>2. \A i \in Idx : Pending(i)' <=> Pending(i) BY <2>1, Zenon DEF Pending
  <2> QED BY <1>0, <1>2, <2>1, <2>2, Zenon DEF AllKept
<1>7. CASE UNCHANGED vars \/ Finish \/ Interrupt
  <2>1. UNCHANGED <<pc, start, end, cur, dir, dirs, ent, fd, data, wrote, shown, task>>
    BY <1>7, Zenon DEF vars, Finish, Interrupt, mainVars, taskVars, fileVars
  <2>2. \A i \in Idx : Pending(i)' <=> Pending(i) BY <2>1, Zenon DEF Pending
  <2> QED BY <1>0, <1>2, <2>1, <2>2, Zenon DEF AllKept
<1>8. CASE \/ BeginCheck \/ BeginAll \/ Operator \/ Dispatch \/ NextBatch
           \/ SerialReturned \/ SerialEnd \/ MkdirFails
  <2>1. UNCHANGED <<task, wrote, shown>>
    BY <1>8, Zenon DEF BeginCheck, BeginAll, Operator, Dispatch, NextBatch, SerialReturned, SerialEnd, MkdirFails,
                taskVars
  <2>2. {pc, pc'} \cap {"notify", "create", "wait", "merge"} = {}
    BY <1>8, Zenon DEF BeginCheck, BeginAll, Operator, Dispatch, NextBatch, Enter, SerialReturned, SerialEnd,
                MkdirFails
  <2> QED BY <1>3, <2>1, <2>2, Zenon DEF Pending
<1>9. CASE Mkdir
  BY <1>3, <1>9, Zenon DEF Mkdir, taskVars, Pending
<1>10. CASE Notify
  <2>1. UNCHANGED <<task, wrote, shown, dir, dirs, start, cur>> /\ pc = "notify" /\ pc' = "create"
    BY <1>10, Zenon DEF Notify, taskVars, fileVars
  <2>2. cur = start /\ \A i \in Idx : ~(start <= i /\ i < cur) BY <1>1, <2>1 DEF LoopInv
  <2>3. \A i \in Idx : ~Pending(i) /\ ~Pending(i)' BY <2>1, <2>2, Zenon DEF Pending
  <2> QED BY <1>0, <1>3, <2>1, <2>3, Zenon DEF AllKept
<1>11. CASE SignalStop
  <2>1. \A i \in Idx : ~(cur <= i /\ i < end) BY <1>1, <1>11 DEF SignalStop
  <2> QED BY <1>3, <1>11, <2>1, Zenon DEF SignalStop, taskVars, Pending
<1>12. CASE RemoveAll
  BY <1>3, <1>12, Zenon DEF RemoveAll, taskVars, Pending
<1> QED
  BY StepCases, <1>0, <1>4, <1>5, <1>6, <1>7, <1>8, <1>9, <1>10, <1>11, <1>12, KeepSerial, KeepCreate, KeepMerge,
     KeepFails, KeepOutput, Zenon
  DEF Actions

=============================================================================
