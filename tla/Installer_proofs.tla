---- MODULE Installer_proofs ----
(***************************************************************************)
(* Proofs about the installer, for any processes, sizes and faults: the    *)
(* types, and what an undisturbed run returns.                             *)
(***************************************************************************)
EXTENDS Installer, TLAPS

USE DEF vars, fsVars, runVars, history

Inodes == [data : SUBSET (1 .. Chunks), exec : BOOLEAN]

LEMMA TypeInit == Init => TypeOK
<1> SUFFICES ASSUME Init PROVE TypeOK
  OBVIOUS
<1>1. inodes \in Seq(Inodes) /\ Len(inodes) \in Nat /\ file = 0
  BY DEF Init
<1>2. pos \in [Runs -> 0 .. Chunks] /\ starts \in [Runs -> 0 .. MaxStarts]
  BY InstallerAssumption DEF Init
<1>3. fd \in [Runs -> {0}] /\ pc \in [Runs -> {"off"}]
      /\ clean \in [Runs -> BOOLEAN] /\ refused \in [Runs -> BOOLEAN]
      /\ dirExists \in BOOLEAN
  BY DEF Init
<1> QED
  BY <1>1, <1>2, <1>3 DEF TypeOK, Idle, Inodes

\* A new inode is the last one and leaves the others as they are.
LEMMA NewInode ==
    ASSUME NEW s \in Seq(Inodes)
    PROVE  LET blank == [data |-> {}, exec |-> FALSE]
               t == Append(s, blank)
           IN /\ t \in Seq(Inodes) /\ Len(t) = Len(s) + 1
              /\ t[Len(s) + 1] = blank
<1> DEFINE blank == [data |-> {}, exec |-> FALSE]
<1>1. blank \in Inodes
  BY DEF Inodes
<1> HIDE DEF blank
<1>2. /\ Append(s, blank) \in Seq(Inodes)
      /\ Len(Append(s, blank)) = Len(s) + 1
      /\ Append(s, blank)[Len(s) + 1] = blank
  BY <1>1
<1> QED
  BY <1>2 DEF blank

\* Writing into an inode keeps the sequence of inodes.
LEMMA SameInodes ==
    ASSUME NEW s \in Seq(Inodes), NEW n \in 1 .. Len(s), NEW i \in Inodes
    PROVE  /\ [s EXCEPT ![n] = i] \in Seq(Inodes)
           /\ Len([s EXCEPT ![n] = i]) = Len(s)
           /\ [s EXCEPT ![n] = i][n] = i
           /\ \A m \in 1 .. Len(s) : m # n => [s EXCEPT ![n] = i][m] = s[m]
  OBVIOUS

LEMMA SetData ==
    ASSUME NEW i \in Inodes, NEW d \in SUBSET (1 .. Chunks)
    PROVE  LET j == [i EXCEPT !.data = d]
           IN j \in Inodes /\ j.data = d /\ j.exec = i.exec
  BY DEF Inodes

LEMMA SetExec ==
    ASSUME NEW i \in Inodes
    PROVE  LET j == [i EXCEPT !.exec = TRUE]
           IN j \in Inodes /\ j.data = i.data /\ j.exec = TRUE
  BY DEF Inodes

\* Every variable keeps its type, and a run that copies has a file open.
LEMMA TypeStep == TypeOK /\ [Next]_vars => TypeOK'
<1> SUFFICES ASSUME TypeOK PROVE [Next]_vars => TypeOK'
  OBVIOUS
<1> USE InstallerAssumption DEF TypeOK, Goto
<1>0. inodes \in Seq(Inodes) /\ Len(inodes) \in Nat
      /\ \A n \in 1 .. Len(inodes) : inodes[n] \in Inodes
  <2>1. inodes \in Seq(Inodes)
    BY DEF Inodes
  <2> QED
    BY <2>1
<1>1. ASSUME NEW p \in Runs, Begin(p) \/ Step(p) \/ Fails(p) \/ Crash(p)
      PROVE  TypeOK'
  <2>1. CASE Begin(p)
    BY <2>1 DEF Begin, Idle
  <2>2. CASE Stat(p) \/ Download(p)
    BY <2>2 DEF Stat, Download, Idle
  <2>3. CASE RemoveAll(p)
    <3>1. /\ dirExists' \in BOOLEAN /\ file' = 0
          /\ clean' \in [Runs -> BOOLEAN] /\ pc' = [pc EXCEPT ![p] = "mkdir"]
          /\ UNCHANGED <<inodes, fd, pos, starts, refused>>
      BY <2>3 DEF RemoveAll
    <3> QED
      BY <3>1, <1>0 DEF Extracting
  <2>4. CASE MkdirAll(p)
    BY <2>4 DEF MkdirAll, Disturbs, Extracting
  <2>5. CASE Create(p)
    <3>1. /\ inodes' \in Seq(Inodes) /\ Len(inodes') >= Len(inodes)
          /\ file' \in 1 .. Len(inodes')
      <4>1. CASE file = 0
        <5>1. inodes' = Append(inodes, [data |-> {}, exec |-> FALSE])
              /\ file' = Len(inodes) + 1
          BY <2>5, <4>1 DEF Create
        <5> QED
          BY <1>0, <5>1, NewInode
      <4>2. CASE file # 0
        <5>1. file \in 1 .. Len(inodes)
              /\ [inodes[file] EXCEPT !.data = {}] \in Inodes
          <6>1. file \in 1 .. Len(inodes)
            BY <4>2
          <6>2. inodes[file] \in Inodes /\ {} \in SUBSET (1 .. Chunks)
            BY <1>0, <6>1
          <6> QED
            BY <6>1, <6>2, SetData
        <5>2. inodes' = [inodes EXCEPT ![file] = [inodes[file] EXCEPT !.data = {}]]
              /\ file' = file
          BY <2>5, <4>2 DEF Create
        <5> QED
          BY <1>0, <5>1, <5>2, SameInodes
      <4> QED
        BY <4>1, <4>2
    <3>2. /\ fd' = [fd EXCEPT ![p] = file'] /\ pos' = [pos EXCEPT ![p] = 0]
          /\ pc' = [pc EXCEPT ![p] = "copy"] /\ UNCHANGED <<dirExists, starts, refused>>
          /\ clean' \in [Runs -> BOOLEAN]
      BY <2>5 DEF Create, Disturbs
    <3> QED
      BY <3>1, <3>2 DEF Extracting, Inodes
  <2>6. CASE Copy(p)
    <3>1. pos[p] + 1 \in 1 .. Chunks
      BY <2>6 DEF Copy, Copied
    <3>2. inodes' \in Seq(Inodes) /\ Len(inodes') = Len(inodes)
      <4>1. fd[p] \in 1 .. Len(inodes)
        <5>1. fd[p] > 0 /\ fd[p] \in 0 .. Len(inodes)
          BY <2>6 DEF Copy
        <5> QED
          BY <1>0, <5>1
      <4> DEFINE i == inodes[fd[p]]
                 d == i.data \cup {pos[p] + 1}
      <4>2. i \in Inodes /\ d \in SUBSET (1 .. Chunks)
        BY <1>0, <3>1, <4>1 DEF Inodes
      <4>3. [i EXCEPT !.data = d] \in Inodes
        BY <4>2, SetData
      <4>4. inodes' = [inodes EXCEPT ![fd[p]] = [i EXCEPT !.data = d]]
        BY <2>6 DEF Copy
      <4> HIDE DEF i, d
      <4> QED
        BY <1>0, <4>1, <4>3, <4>4, SameInodes
    <3>3. /\ pos' = [pos EXCEPT ![p] = @ + 1] /\ clean' \in [Runs -> BOOLEAN]
          /\ UNCHANGED <<dirExists, file, pc, fd, starts, refused>>
      BY <2>6 DEF Copy, Disturbs
    <3> QED
      BY <3>1, <3>2, <3>3 DEF Inodes
  <2>7. CASE CopyEnds(p) \/ Verify(p)
    BY <2>7 DEF CopyEnds, Verify, Extracting, Idle
  <2>8. CASE Chmod(p)
    <3>1. inodes' \in Seq(Inodes) /\ Len(inodes') = Len(inodes)
      <4>1. CASE inodes' = inodes
        BY <4>1, <1>0
      <4>2. CASE inodes' # inodes
        <5>0. file # 0
          BY <2>8, <4>2 DEF Chmod
        <5>1. file \in 1 .. Len(inodes)
              /\ [inodes[file] EXCEPT !.exec = TRUE] \in Inodes
          BY <1>0, <5>0, SetExec
        <5>2. inodes' = [inodes EXCEPT ![file] = [inodes[file] EXCEPT !.exec = TRUE]]
          BY <2>8, <4>2 DEF Chmod
        <5> QED
          BY <1>0, <5>1, <5>2, SameInodes
      <4> QED
        BY <4>1, <4>2
    <3>2. /\ pc' = [pc EXCEPT ![p] = "ok"] /\ clean' \in [Runs -> BOOLEAN]
          /\ refused' \in [Runs -> BOOLEAN]
          /\ UNCHANGED <<dirExists, file, fd, pos, starts>>
      BY <2>8 DEF Chmod, Disturbs
    <3> QED
      BY <3>1, <3>2 DEF Idle, Inodes
  <2>9. CASE Fails(p) \/ Crash(p)
    BY <2>9 DEF Fails, Crash, Idle
  <2> QED
    BY <1>1, <2>1, <2>2, <2>3, <2>4, <2>5, <2>6, <2>7, <2>8, <2>9 DEF Step
<1>2. ASSUME UNCHANGED vars PROVE TypeOK'
  BY <1>2
<1> QED
  BY <1>1, <1>2 DEF Next, Finished

\* Type correctness.
THEOREM TypeCorrect == Spec => []TypeOK
  BY TypeInit, TypeStep, PTL DEF Spec

-----------------------------------------------------------------------------
(* A run that has the directory to itself.                                  *)

Holds(d) == file # 0 /\ inodes[file].data = d

\* What an undisturbed run has made of the directory at each of its steps.
CleanInv ==
    \A p \in Runs : clean[p] =>
        /\ pc[p] \in Extracting \cup {"ok"}
        /\ pc[p] \in {"mkdir", "create"} => file = 0
        /\ pc[p] = "copy" => fd[p] = file /\ Holds(1 .. pos[p])
        /\ pc[p] \in {"verify", "chmod"} => Holds(1 .. Chunks)
        /\ pc[p] = "ok" => Complete /\ (refused[p] \/ Working)

LEMMA CleanStep == TypeOK /\ CleanInv /\ [Next]_vars => CleanInv'
<1> SUFFICES ASSUME TypeOK, CleanInv PROVE [Next]_vars => CleanInv'
  OBVIOUS
<1> USE InstallerAssumption
<1>0. inodes \in Seq(Inodes) /\ \A n \in 1 .. Len(inodes) : inodes[n] \in Inodes
  <2>1. inodes \in Seq(Inodes)
    BY DEF TypeOK, Inodes
  <2> QED
    BY <2>1
<1>1. ASSUME NEW p \in Runs, Begin(p) \/ Fails(p) \/ Crash(p)
      PROVE  CleanInv'
  \* The run gives up its claim and the others keep theirs.
  <2>1. /\ clean' = [clean EXCEPT ![p] = FALSE] /\ UNCHANGED <<fsVars, fd, pos>>
        /\ \A r \in Runs \ {p} : pc'[r] = pc[r] /\ refused'[r] = refused[r]
    BY <1>1 DEF Begin, Fails, Crash, Goto, TypeOK
  <2>2. ~clean'[p] /\ \A r \in Runs : clean'[r] => clean[r]
    BY <2>1 DEF TypeOK
  <2> QED
    BY <2>1, <2>2 DEF CleanInv, Holds, Complete, Working
<1>2. ASSUME NEW p \in Runs, Stat(p) \/ Download(p) PROVE CleanInv'
  <2>1. ~clean[p]
    BY <1>2 DEF Stat, Download, CleanInv, Extracting
  <2>2. UNCHANGED <<fsVars, fd, pos, history>>
        /\ \A r \in Runs \ {p} : pc'[r] = pc[r]
    BY <1>2 DEF Stat, Download, Goto, TypeOK
  <2> QED
    BY <2>1, <2>2 DEF CleanInv, Holds, Complete, Working
<1>3. ASSUME NEW p \in Runs, RemoveAll(p) PROVE CleanInv'
  <2>1. /\ \A r \in Runs : clean'[r] <=> r = p
        /\ pc'[p] = "mkdir" /\ file' = 0
    BY <1>3 DEF RemoveAll, Goto, TypeOK
  <2> QED
    BY <2>1 DEF CleanInv, Extracting
<1>4. ASSUME NEW p \in Runs, MkdirAll(p) PROVE CleanInv'
  <2>1. /\ \A r \in Runs : clean'[r] => r = p /\ clean[p]
        /\ pc[p] = "mkdir" /\ pc'[p] = "create" /\ file' = file
    BY <1>4 DEF MkdirAll, Disturbs, Goto, TypeOK
  <2> QED
    BY <2>1 DEF CleanInv, Extracting
<1>5. ASSUME NEW p \in Runs, Create(p) PROVE CleanInv'
  <2>1. /\ \A r \in Runs : clean'[r] => r = p /\ clean[p]
        /\ pc[p] = "create" /\ pc'[p] = "copy"
        /\ fd'[p] = file' /\ pos'[p] = 0
    BY <1>5 DEF Create, Disturbs, Goto, TypeOK
  <2>2. ASSUME clean[p] PROVE Holds({})'
    <3>1. /\ inodes' = Append(inodes, [data |-> {}, exec |-> FALSE])
          /\ file' = Len(inodes) + 1
      BY <1>5, <2>1, <2>2 DEF Create, CleanInv
    <3>2. inodes'[file'].data = {}
      BY <1>0, <3>1, NewInode
    <3>3. file' # 0
      BY <1>0, <3>1
    <3> QED
      BY <3>2, <3>3 DEF Holds
  <2>3. 1 .. pos'[p] = {}
    BY <2>1
  <2> QED
    BY <2>1, <2>2, <2>3 DEF CleanInv, Extracting, Holds
<1>6. ASSUME NEW p \in Runs, Copy(p) PROVE CleanInv'
  <2> DEFINE n == fd[p]
             i == inodes[n]
             d == i.data \cup {pos[p] + 1}
  <2>1. n \in 1 .. Len(inodes) /\ pos[p] + 1 \in 1 .. Chunks
    BY <1>6 DEF Copy, Copied, TypeOK
  <2>2. /\ inodes' = [inodes EXCEPT ![n] = [i EXCEPT !.data = d]]
        /\ file' = file /\ fd' = fd /\ pc' = pc /\ pc[p] = "copy"
        /\ refused' = refused
        /\ pos'[p] = pos[p] + 1
        /\ \A r \in Runs \ {p} : pos'[r] = pos[r]
        /\ \A r \in Runs : clean'[r] => clean[r]
        /\ n = file => \A r \in Runs : clean'[r] => r = p
    BY <1>6 DEF Copy, Disturbs, TypeOK
  <2>3. i \in Inodes /\ d \in SUBSET (1 .. Chunks)
    BY <1>0, <2>1 DEF Inodes
  <2>4. /\ [i EXCEPT !.data = d] \in Inodes /\ [i EXCEPT !.data = d].data = d
    BY <2>3, SetData
  <2>5. /\ inodes'[n].data = d
        /\ \A m \in 1 .. Len(inodes) : m # n => inodes'[m] = inodes[m]
    <3> HIDE DEF n, i, d
    <3> QED
      BY <1>0, <2>1, <2>2, <2>4, SameInodes
  <2>6. ASSUME clean'[p]
        PROVE  fd'[p] = file' /\ Holds(1 .. pos[p])' /\ pc'[p] = "copy"
    <3>1. n = file /\ Holds(1 .. pos[p]) /\ clean[p]
      BY <2>2, <2>6 DEF CleanInv
    <3>2. inodes'[file'].data = (1 .. pos[p]) \cup {pos[p] + 1}
      BY <2>2, <2>5, <3>1 DEF Holds
    <3>3. (1 .. pos[p]) \cup {pos[p] + 1} = 1 .. pos'[p]
      BY <2>2 DEF TypeOK
    <3> QED
      BY <2>2, <3>1, <3>2, <3>3 DEF Holds
  <2>7. ASSUME NEW r \in Runs \ {p}, clean'[r]
        PROVE  /\ pc'[r] \in Extracting \cup {"ok"}
               /\ pc'[r] \in {"mkdir", "create"} => file' = 0
               /\ pc'[r] = "copy" => fd'[r] = file' /\ Holds(1 .. pos[r])'
               /\ pc'[r] \in {"verify", "chmod"} => Holds(1 .. Chunks)'
               /\ pc'[r] = "ok" => Complete' /\ (refused'[r] \/ Working')
    <3>1. n # file
      BY <2>2, <2>7
    <3>2. file # 0 => inodes'[file] = inodes[file]
      BY <2>5, <3>1 DEF TypeOK
    <3> QED
      BY <2>2, <2>7, <3>2 DEF CleanInv, Holds, Complete, Working
  <2> QED
    BY <2>6, <2>7 DEF CleanInv, Extracting
<1>7. ASSUME NEW p \in Runs, CopyEnds(p) PROVE CleanInv'
  <2>1. /\ UNCHANGED <<fsVars, fd, pos, history>> /\ pc[p] = "copy"
        /\ pc'[p] = "verify" /\ pos[p] = Chunks
        /\ \A r \in Runs \ {p} : pc'[r] = pc[r]
    BY <1>7 DEF CopyEnds, Copied, Goto, TypeOK
  <2> QED
    BY <2>1 DEF CleanInv, Extracting, Holds, Complete, Working
<1>8. ASSUME NEW p \in Runs, Verify(p) PROVE CleanInv'
  <2>1. /\ UNCHANGED <<fsVars, fd, pos, history>> /\ pc[p] = "verify"
        /\ FileThere => pc'[p] = "chmod"
        /\ \A r \in Runs \ {p} : pc'[r] = pc[r]
    BY <1>8 DEF Verify, Goto, TypeOK
  <2>2. clean[p] => FileThere
    <3>1. 1 \in 1 .. Chunks
      OBVIOUS
    <3> QED
      BY <2>1, <3>1 DEF CleanInv, FileThere, Holds
  <2> QED
    BY <2>1, <2>2 DEF CleanInv, Extracting, Holds, Complete, Working
<1>9. ASSUME NEW p \in Runs, Chmod(p) PROVE CleanInv'
  <2>0. pc[p] = "chmod" /\ pc'[p] = "ok" /\ file' = file
        /\ \A r \in Runs \ {p} : pc'[r] = pc[r]
    BY <1>9 DEF Chmod, Goto, TypeOK
  <2>1. CASE file # 0 /\ inodes' = [inodes EXCEPT ![file].exec = TRUE] /\ Disturbs(p)
    <3>1. \A r \in Runs : clean'[r] => r = p /\ clean[p]
      BY <2>1 DEF Disturbs, TypeOK
    <3>2. ASSUME clean[p] PROVE Complete' /\ Working'
      <4>1. file \in 1 .. Len(inodes) /\ inodes[file].data = 1 .. Chunks
        BY <2>0, <3>2 DEF CleanInv, Holds, TypeOK
      <4> DEFINE i == [inodes[file] EXCEPT !.exec = TRUE]
      <4>2. i \in Inodes /\ i.data = 1 .. Chunks /\ i.exec = TRUE
        BY <1>0, <4>1, SetExec
      <4>3. inodes' = [inodes EXCEPT ![file] = i]
        BY <2>1
      <4> HIDE DEF i
      <4>4. inodes'[file'] = i
        BY <1>0, <2>0, <4>1, <4>2, <4>3, SameInodes
      <4> QED
        BY <2>0, <4>1, <4>2, <4>4 DEF Complete, Working
    <3> QED
      BY <2>0, <3>1, <3>2 DEF CleanInv
  <2>2. CASE /\ refused' = [refused EXCEPT ![p] = TRUE]
             /\ UNCHANGED <<inodes, clean>>
    <3>1. /\ refused'[p] /\ \A r \in Runs \ {p} : refused'[r] = refused[r]
          /\ UNCHANGED <<fd, pos>>
      BY <1>9, <2>2 DEF Chmod, TypeOK
    <3>2. clean[p] => Complete
      BY <2>0 DEF CleanInv, Holds, Complete
    <3> QED
      BY <2>0, <2>2, <3>1, <3>2 DEF CleanInv, Holds, Complete, Working
  <2> QED
    BY <1>9, <2>1, <2>2 DEF Chmod
<1>10. ASSUME UNCHANGED vars PROVE CleanInv'
  BY <1>10 DEF CleanInv, Holds, Complete, Working
<1> QED
  BY <1>1, <1>2, <1>3, <1>4, <1>5, <1>6, <1>7, <1>8, <1>9, <1>10
  DEF Next, Step, Finished

\* A run that had the directory to itself since its RemoveAll returns a complete
\* binary, and one that runs unless its own chmod failed.
THEOREM UndisturbedInstallWorks == Spec => []UndisturbedWorks
<1>1. Init => CleanInv
  BY DEF Init, CleanInv
<1>2. CleanInv => UndisturbedWorks
  BY DEF CleanInv, UndisturbedWorks
<1> QED
  BY <1>1, <1>2, TypeCorrect, CleanStep, PTL DEF Spec
====
