---- MODULE Installer ----
(***************************************************************************)
(* proxy.EnsureSingBox: several runs of the program share one cache        *)
(* directory with no lock.  A run stats the cached binary, and on a miss   *)
(* downloads, removes and recreates the directory, extracts file by file   *)
(* in place, and then stats and chmods the target by its path.             *)
(***************************************************************************)
EXTENDS Integers, Sequences

CONSTANTS
    Runs,       \* processes that call EnsureSingBox
    Chunks,     \* pieces io.Copy writes the binary in
    MaxStarts,  \* bound: calls per process
    Faults      \* what may go wrong: subset of {"crash", "error"}

ASSUME InstallerAssumption ==
    /\ Chunks \in Nat \ {0} /\ MaxStarts \in Nat
    /\ Faults \subseteq {"crash", "error"}

VARIABLES
    dirExists,  \* the extraction directory is there
    file,       \* inode the target path names, 0 for none
    inodes,     \* every inode made: the chunks it holds, and its mode
    pc,         \* where each run stands
    fd,         \* inode each run is writing
    pos,        \* chunks each run has written
    starts,     \* calls made by each process
    clean,      \* run that has had the directory to itself since its RemoveAll
    refused     \* run whose chmod failed, the error dropped

fsVars == <<dirExists, file, inodes>>
runVars == <<pc, fd, pos, starts>>
history == <<clean, refused>>
vars == <<fsVars, runVars, history>>

Idle == {"off", "ok", "failed"}
Extracting == {"mkdir", "create", "copy", "verify", "chmod"}

Init ==
    /\ dirExists = FALSE /\ file = 0 /\ inodes = <<>>
    /\ pc = [p \in Runs |-> "off"]
    /\ fd = [p \in Runs |-> 0]
    /\ pos = [p \in Runs |-> 0]
    /\ starts = [p \in Runs |-> 0]
    /\ clean = [p \in Runs |-> FALSE]
    /\ refused = [p \in Runs |-> FALSE]

Goto(p, l) == pc' = [pc EXCEPT ![p] = l]

\* A run that changes the directory disturbs every other run.
Disturbs(p) == clean' = [r \in Runs |-> r = p /\ clean[r]]

\* Stat finds that the path names a file that is not empty.
FileThere == file # 0 /\ inodes[file].data # {}

Begin(p) ==
    /\ pc[p] \in Idle /\ starts[p] < MaxStarts
    /\ Goto(p, "stat")
    /\ starts' = [starts EXCEPT ![p] = @ + 1]
    /\ clean' = [clean EXCEPT ![p] = FALSE]
    /\ refused' = [refused EXCEPT ![p] = FALSE]
    /\ UNCHANGED <<fsVars, fd, pos>>

\* A stat that fails is a miss, whatever the reason.
Stat(p) ==
    /\ pc[p] = "stat"
    /\ \/ FileThere /\ Goto(p, "ok")
       \/ (~FileThere \/ "error" \in Faults) /\ Goto(p, "download")
    /\ UNCHANGED <<fsVars, fd, pos, starts, history>>

Download(p) ==
    /\ pc[p] = "download"
    /\ Goto(p, "remove")
    /\ UNCHANGED <<fsVars, fd, pos, starts, history>>

\* os.RemoveAll unlinks the target; a run still writing it keeps its inode.
RemoveAll(p) ==
    /\ pc[p] = "remove"
    /\ dirExists' = FALSE /\ file' = 0
    /\ clean' = [r \in Runs |-> r = p]
    /\ Goto(p, "mkdir")
    /\ UNCHANGED <<inodes, fd, pos, starts, refused>>

MkdirAll(p) ==
    /\ pc[p] = "mkdir"
    /\ dirExists' = TRUE
    /\ Disturbs(p)
    /\ Goto(p, "create")
    /\ UNCHANGED <<file, inodes, fd, pos, starts, refused>>

\* os.Create truncates the file at the path, or makes a new one, mode 0666.
Create(p) ==
    /\ pc[p] = "create" /\ dirExists
    /\ IF file = 0
       THEN /\ inodes' = Append(inodes, [data |-> {}, exec |-> FALSE])
            /\ file' = Len(inodes) + 1
       ELSE /\ inodes' = [inodes EXCEPT ![file].data = {}]
            /\ file' = file
    /\ fd' = [fd EXCEPT ![p] = file']
    /\ pos' = [pos EXCEPT ![p] = 0]
    /\ Disturbs(p)
    /\ Goto(p, "copy")
    /\ UNCHANGED <<dirExists, starts, refused>>

\* Mutants: extraction stops at the first piece, or runs past the last.
CopiedSome(p) == pos[p] > 0
CopiedPast(p) == pos[p] > Chunks
Copied(p) == pos[p] = Chunks

\* io.Copy writes at this run's own offset, into a file others may have unlinked.
Copy(p) ==
    /\ pc[p] = "copy" /\ ~Copied(p)
    /\ inodes' = [inodes EXCEPT ![fd[p]].data = @ \cup {pos[p] + 1}]
    /\ pos' = [pos EXCEPT ![p] = @ + 1]
    /\ IF fd[p] = file THEN Disturbs(p) ELSE UNCHANGED clean
    /\ UNCHANGED <<dirExists, file, pc, fd, starts, refused>>

CopyEnds(p) ==
    /\ pc[p] = "copy" /\ Copied(p)
    /\ Goto(p, "verify")
    /\ UNCHANGED <<fsVars, fd, pos, starts, history>>

\* The check after extraction looks at the path, not at what this run wrote.
Verify(p) ==
    /\ pc[p] = "verify"
    /\ Goto(p, IF FileThere THEN "chmod" ELSE "failed")
    /\ UNCHANGED <<fsVars, fd, pos, starts, history>>

\* The error of Chmod is dropped: the path is returned whether the file is gone,
\* keeps its mode, or can be run.
Chmod(p) ==
    /\ pc[p] = "chmod"
    /\ \/ /\ file # 0
          /\ inodes' = [inodes EXCEPT ![file].exec = TRUE]
          /\ Disturbs(p)
          /\ UNCHANGED refused
       \/ /\ file = 0 \/ "error" \in Faults
          /\ refused' = [refused EXCEPT ![p] = TRUE]
          /\ UNCHANGED <<inodes, clean>>
    /\ Goto(p, "ok")
    /\ UNCHANGED <<dirExists, file, fd, pos, starts>>

\* The download, a filesystem call, the archive or the copy fails; Create also
\* fails when another run has removed the directory.
Fails(p) ==
    /\ \/ "error" \in Faults /\ pc[p] \in {"download", "remove", "mkdir",
                                           "create", "copy", "verify"}
       \/ pc[p] = "create" /\ ~dirExists
    /\ Goto(p, "failed")
    /\ clean' = [clean EXCEPT ![p] = FALSE]
    /\ UNCHANGED <<fsVars, fd, pos, starts, refused>>

\* The process dies; what it had written stays.
Crash(p) ==
    /\ "crash" \in Faults
    /\ pc[p] \notin Idle
    /\ Goto(p, "off")
    /\ clean' = [clean EXCEPT ![p] = FALSE]
    /\ UNCHANGED <<fsVars, fd, pos, starts, refused>>

Step(p) ==
    \/ Stat(p) \/ Download(p) \/ RemoveAll(p) \/ MkdirAll(p) \/ Create(p)
    \/ Copy(p) \/ CopyEnds(p) \/ Verify(p) \/ Chmod(p)

Finished ==
    /\ \A p \in Runs : pc[p] \in Idle /\ starts[p] = MaxStarts
    /\ UNCHANGED vars

Next ==
    \/ \E p \in Runs : Begin(p) \/ Step(p) \/ Fails(p) \/ Crash(p)
    \/ Finished

Spec == Init /\ [][Next]_vars

-----------------------------------------------------------------------------
(* Properties.                                                              *)

TypeOK ==
    /\ dirExists \in BOOLEAN
    /\ inodes \in Seq([data : SUBSET (1 .. Chunks), exec : BOOLEAN])
    /\ file \in 0 .. Len(inodes)
    /\ pc \in [Runs -> Idle \cup Extracting \cup {"stat", "download", "remove"}]
    /\ fd \in [Runs -> 0 .. Len(inodes)]
    /\ \A p \in Runs : pc[p] = "copy" => fd[p] > 0
    /\ pos \in [Runs -> 0 .. Chunks]
    /\ starts \in [Runs -> 0 .. MaxStarts]
    /\ clean \in [Runs -> BOOLEAN]
    /\ refused \in [Runs -> BOOLEAN]

Complete == file # 0 /\ inodes[file].data = 1 .. Chunks
Working == Complete /\ inodes[file].exec

\* A run that had the directory to itself from its RemoveAll on returns a
\* complete binary, whatever wreck a crash had left there; only a chmod of its
\* own that failed, its error dropped, can leave it one that does not run.
UndisturbedWorks ==
    \A p \in Runs : clean[p] /\ pc[p] = "ok" =>
        Complete /\ (refused[p] \/ Working)

\* installer.go:32-34 - runs may overlap: who was given the path can run it.
HolderCanRun == \A p \in Runs : pc[p] = "ok" => Working
====
