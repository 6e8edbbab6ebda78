---- MODULE DiskCaches ----
(***************************************************************************)
(* The four files under the program's cache directory: geoip.json,         *)
(* cdn-ranges.json, ip2asn.tsv.gz and warp.json.  Every run of the program *)
(* loads one, fetches what it lacks, and rewrites the file in place with   *)
(* os.WriteFile (open with O_TRUNC, then one write), with no lock between  *)
(* runs.  What tells the four apart is when a file is accepted and which   *)
(* answers are saved.  One behaviour is about one of the files.            *)
(***************************************************************************)
EXTENDS Integers, FiniteSets, Functions

CONSTANTS
    Procs,      \* runs of the program that share the directory
    Items,      \* hosts, range lists, routes, fields of a registration
    MaxAge,     \* age limit of the file, in units of time
    MaxTime,    \* bound: the clock
    MaxSize     \* bound: lengths a file may have

ASSUME DiskCachesAssumption ==
    /\ MaxAge \in Nat \ {0} /\ MaxTime \in Nat \ {0} /\ MaxSize \in Nat \ {0}
    /\ Items # {}

VARIABLES
    kind,       \* which file this behaviour is about
    now,        \* the clock
    file,       \* the file on disk; it holds NoDraft when it does not parse
    pc,         \* where each run stands
    wanted,     \* items a run is asked for
    mem,        \* item -> time of the lookup that answered, 0 for an empty answer
    draft,      \* content a run is about to write
    degraded,   \* a run that knows its data to be incomplete
    void,       \* items that the answer a run holds came without, unnoticed
    tidy        \* since its last lone open the file had one writer, undisturbed

runVars == <<pc, wanted, mem, draft, degraded, void>>
vars == <<kind, now, file, runVars, tidy>>

Kinds == {"geo", "cdn", "asn", "warp"}
Nothing == [i \in {} |-> 0]
NoDraft == [whole |-> FALSE, stamp |-> 0, items |-> Nothing, void |-> {}]
NoFile == [there |-> FALSE, mtime |-> 0, size |-> 0, holds |-> NoDraft]

Init ==
    /\ kind \in Kinds /\ now = 1
    /\ file = NoFile
    /\ pc = [p \in Procs |-> "off"]
    /\ wanted = [p \in Procs |-> {}]
    /\ mem = [p \in Procs |-> Nothing]
    /\ draft = [p \in Procs |-> NoDraft]
    /\ degraded = [p \in Procs |-> FALSE]
    /\ void = [p \in Procs |-> {}]
    /\ tidy = TRUE

Goto(p, l) == pc' = [pc EXCEPT ![p] = l]

\* A run starts with an empty memory.  Hosts are asked for by name, the
\* other three files are wanted whole.
Start(p) ==
    /\ pc[p] \in {"off", "done"}
    /\ Goto(p, "load")
    /\ \E w \in SUBSET Items \ {{}} :
         /\ kind = "geo" \/ w = Items
         /\ wanted' = [wanted EXCEPT ![p] = w]
    /\ mem' = [mem EXCEPT ![p] = Nothing]
    /\ degraded' = [degraded EXCEPT ![p] = FALSE]
    /\ void' = [void EXCEPT ![p] = {}]
    /\ UNCHANGED <<kind, now, file, draft, tidy>>

Load(p, next) ==
    /\ mem' = [mem EXCEPT ![p] = file.holds.items]
    /\ void' = [void EXCEPT ![p] = file.holds.void]
    /\ Goto(p, next)
    /\ UNCHANGED <<kind, now, file, wanted, draft, degraded, tidy>>

Miss(p) ==
    /\ Goto(p, "fetch")
    /\ UNCHANGED <<kind, now, file, wanted, mem, draft, degraded, void, tidy>>

\* geoip.New: a file that parses and is not older than the limit goes into
\* memory as it is; hosts found there need no lookup.
GeoLoads(p) ==
    /\ pc[p] = "load" /\ kind = "geo"
    /\ IF file.holds.whole /\ now - file.holds.stamp <= MaxAge
       THEN Load(p, IF wanted[p] \subseteq DOMAIN file.holds.items THEN "done" ELSE "fetch")
       ELSE Miss(p)

\* Mutant: ranges taken from the disk are saved again, as new.
CdnLoadsRenews(p) ==
    /\ pc[p] = "load" /\ kind = "cdn"
    /\ IF file.holds.whole /\ now - file.holds.stamp <= MaxAge /\ DOMAIN file.holds.items # {}
       THEN Load(p, "open")
       ELSE Miss(p)

CdnLoads(p) ==
    /\ pc[p] = "load" /\ kind = "cdn"
    /\ IF file.holds.whole /\ now - file.holds.stamp <= MaxAge /\ DOMAIN file.holds.items # {}
       THEN Load(p, "done")
       ELSE Miss(p)

\* The dataset is accepted by its modification time, before it is known to
\* parse; a file that does not parse is not fetched again.
AsnLoads(p) ==
    /\ pc[p] = "load" /\ kind = "asn"
    /\ IF file.there /\ now - file.mtime < MaxAge
       THEN /\ mem' = [mem EXCEPT ![p] = file.holds.items]
            /\ void' = [void EXCEPT ![p] = file.holds.void]
            /\ degraded' = [degraded EXCEPT ![p] = ~file.holds.whole]
            /\ Goto(p, "done")
            /\ UNCHANGED <<kind, now, file, wanted, draft, tidy>>
       ELSE Miss(p)

WarpLoads(p) ==
    /\ pc[p] = "load" /\ kind = "warp"
    /\ IF file.holds.whole /\ now - file.holds.stamp < MaxAge /\ DOMAIN file.holds.items = Items
       THEN Load(p, "done")
       ELSE Miss(p)

Merge(f, g) == [i \in DOMAIN f \cup DOMAIN g |-> IF i \in DOMAIN f THEN f[i] ELSE g[i]]

\* What a fetch leaves: items answered, items an answer was accepted without,
\* whether the run knows that it lacks some, and what is done next.
Fetched(p, answers, blanks, short, next) ==
    /\ mem' = [mem EXCEPT ![p] = Merge(answers, @)]
    /\ void' = [void EXCEPT ![p] = blanks]
    /\ degraded' = [degraded EXCEPT ![p] = short]
    /\ Goto(p, next)
    /\ UNCHANGED <<kind, now, file, wanted, draft, tidy>>

\* The hosts of those asked that get an address: each is looked up by itself
\* within a timeout.
Resolved(hosts) == SUBSET hosts

\* The hosts that the batch service locates: a batch may be refused, and an
\* address in it may fail.
Batched(hosts) == SUBSET hosts

\* The hosts that the fallback locates, which is asked for each address.
FellBack(hosts) == SUBSET hosts

\* ResolveMany: what the batches did not locate goes to the fallback.  A host
\* that neither located is kept as an empty answer.  The file is always saved.
GeoFetches(p) ==
    /\ pc[p] = "fetch" /\ kind = "geo"
    /\ LET missing == wanted[p] \ DOMAIN mem[p]
       IN \E dns \in Resolved(missing) : \E batch \in Batched(dns) :
          \E fallback \in FellBack(dns \ batch) :
            Fetched(p, [i \in missing |-> IF i \in batch \cup fallback THEN now ELSE 0],
                    {}, FALSE, "open")

\* fetchAll: the lists are asked for at once and any of them may fail.
RangeLists == SUBSET Items

\* What the lists that answered held: a body in which nothing parses is a list
\* of no ranges, and no error.
Ranged(lists) == SUBSET lists

\* Mutant: what the sources that answered sent is saved like a full answer.
CdnFetchesPartial(p) ==
    /\ pc[p] = "fetch" /\ kind = "cdn"
    /\ \E lists \in RangeLists : \E got \in Ranged(lists) :
         Fetched(p, [i \in got |-> now], lists \ got, lists # Items, "open")

\* loadOrFetch: the lists that came are used, but one error keeps the result
\* off the disk.  A list that was answered counts as fetched, empty or not.
CdnFetches(p) ==
    /\ pc[p] = "fetch" /\ kind = "cdn"
    /\ \E lists \in RangeLists : \E got \in Ranged(lists) :
         Fetched(p, [i \in got |-> now], lists \ got, lists # Items,
                 IF lists = Items THEN "open" ELSE "done")

\* The routes of a dataset that parses: rows that do not are passed over.
Datasets == SUBSET Items

\* loadOrFetch saves the body it read, whatever it is, and only then is it
\* parsed: a body that is no dataset goes to disk too.
AsnFetches(p) ==
    /\ pc[p] = "fetch" /\ kind = "asn"
    /\ \/ \E got \in Datasets : Fetched(p, [i \in got |-> now], Items \ got, FALSE, "open")
       \/ \E next \in {"open", "done"} : Fetched(p, Nothing, {}, TRUE, next)

\* register: the key and the address an answer has; neither is required.
Registrations == SUBSET Items

\* ensureRegistration uses and saves an answer that lacks one of them, and
\* says nothing of it.
WarpFetches(p) ==
    /\ pc[p] = "fetch" /\ kind = "warp"
    /\ \/ \E got \in Registrations :
            Fetched(p, [i \in got |-> now], Items \ got, FALSE, "open")
       \/ Fetched(p, Nothing, {}, TRUE, "done")

\* Mutant: the snapshot keeps the empty answers.
KeptAll(p) == DOMAIN mem[p]

Kept(p) == {i \in DOMAIN mem[p] : mem[p][i] # 0}

\* Mutant: the file holds when it runs out, and is read as when it was saved.
StampExpiry(p) == now + MaxAge

\* saveToDisk puts the present on the file; a registration keeps the time of
\* its answer.
Stamp(p) ==
    IF kind = "warp" /\ Kept(p) # {} THEN mem[p][CHOOSE i \in Kept(p) : TRUE] ELSE now

Writing(p) == \E q \in Procs \ {p} : pc[q] = "write"

\* Mutant: the file is opened without O_TRUNC.
OpenedKept == [file EXCEPT !.there = TRUE]

Opened == [NoFile EXCEPT !.there = TRUE, !.mtime = now]

\* What is saved is the memory without its empty answers.
Open(p) ==
    /\ pc[p] = "open"
    /\ draft' = [draft EXCEPT ![p] = [whole |-> kind = "asn" => ~degraded[p],
                                     stamp |-> Stamp(p),
                                     items |-> Restrict(mem[p], Kept(p)),
                                     void |-> void[p]]]
    /\ file' = Opened
    /\ tidy' = ~Writing(p)
    /\ Goto(p, "write")
    /\ UNCHANGED <<kind, now, wanted, mem, degraded, void>>

\* MkdirAll or the open fails; the error is dropped.
OpenFails(p) ==
    /\ pc[p] = "open"
    /\ Goto(p, "done")
    /\ UNCHANGED <<kind, now, file, wanted, mem, draft, degraded, void, tidy>>

Torn(size) == [Opened EXCEPT !.size = size]
Larger(m, n) == IF m > n THEN m ELSE n

\* The write starts at offset 0: over a longer file that another run wrote
\* since the open, it leaves that file's tail behind.
Write(p) ==
    /\ pc[p] = "write"
    /\ \E n \in 1..MaxSize :
         file' = IF draft[p].whole /\ n >= file.size
                 THEN [there |-> TRUE, mtime |-> now, size |-> n, holds |-> draft[p]]
                 ELSE Torn(Larger(n, file.size))
    /\ draft' = [draft EXCEPT ![p] = NoDraft]
    /\ Goto(p, "done")
    /\ UNCHANGED <<kind, now, wanted, mem, degraded, void, tidy>>

\* The disk is full: part of the content is written, the error dropped.
WriteShort(p) ==
    /\ pc[p] = "write"
    /\ \E n \in 1..MaxSize : file' = Torn(Larger(n, file.size))
    /\ tidy' = FALSE
    /\ draft' = [draft EXCEPT ![p] = NoDraft]
    /\ Goto(p, "done")
    /\ UNCHANGED <<kind, now, wanted, mem, degraded, void>>

\* Ctrl-C, a kill or the loss of power; a file just opened stays empty.
Crash(p) ==
    /\ pc[p] # "off"
    /\ tidy' = (tidy /\ pc[p] # "write")
    /\ Goto(p, "off")
    /\ wanted' = [wanted EXCEPT ![p] = {}]
    /\ mem' = [mem EXCEPT ![p] = Nothing]
    /\ draft' = [draft EXCEPT ![p] = NoDraft]
    /\ degraded' = [degraded EXCEPT ![p] = FALSE]
    /\ void' = [void EXCEPT ![p] = {}]
    /\ UNCHANGED <<kind, now, file>>

\* A unit of time is hours: requests time out within 90 seconds, so a run
\* does not stay between its fetch and its save for that long.
Tick ==
    /\ now < MaxTime
    /\ \A p \in Procs : pc[p] \in {"off", "load", "done"}
    /\ now' = now + 1
    /\ UNCHANGED <<kind, file, runVars, tidy>>

Loads(p) == GeoLoads(p) \/ CdnLoads(p) \/ AsnLoads(p) \/ WarpLoads(p)
Fetches(p) == GeoFetches(p) \/ CdnFetches(p) \/ AsnFetches(p) \/ WarpFetches(p)
Saves(p) == Open(p) \/ OpenFails(p) \/ Write(p) \/ WriteShort(p)

Next == Tick \/ \E p \in Procs : Start(p) \/ Loads(p) \/ Fetches(p) \/ Saves(p) \/ Crash(p)

Spec == Init /\ [][Next]_vars

-----------------------------------------------------------------------------
Times == 0..MaxTime
Partial == UNION {[I -> Times] : I \in SUBSET Items}
Contents == [whole : BOOLEAN, stamp : Times, items : Partial, void : SUBSET Items]
Files == [there : BOOLEAN, mtime : Times, size : 0..MaxSize, holds : Contents]

\* The types; a file's times are those of the past.
TypeOK ==
    /\ kind \in Kinds /\ now \in 1..MaxTime
    /\ file \in Files /\ file.mtime <= now /\ file.holds.stamp <= now
    /\ pc \in [Procs -> {"off", "load", "fetch", "open", "write", "done"}]
    /\ wanted \in [Procs -> SUBSET Items]
    /\ mem \in [Procs -> Partial]
    /\ draft \in [Procs -> Contents] /\ \A p \in Procs : draft[p].stamp <= now
    /\ degraded \in [Procs -> BOOLEAN]
    /\ void \in [Procs -> SUBSET Items]
    /\ tidy \in BOOLEAN

\* A lookup that failed is forgotten with the process: no run takes an empty
\* answer for one of its items from the disk, however many runs have merged
\* and saved the file before it (the promise at geoip.go:373-376).
FailuresForgotten ==
    [][\A p \in Procs : pc[p] = "load" => \A i \in DOMAIN mem'[p] : mem'[p][i] # 0]_vars

\* CDN ranges, ASN data and a WARP registration that are taken from the disk
\* were fetched no longer ago than the limit, whoever saved them and whatever
\* crashed, was cut short or overlapped since.
UsedIsFresh ==
    [][\A p \in Procs : kind # "geo" /\ pc[p] = "load" =>
         \A i \in DOMAIN mem'[p] : now - mem'[p][i] <= MaxAge]_vars

\* Of ranges, routes and a registration a run that ends without an error holds
\* all, but for what an answer that was accepted came without: what a list that
\* failed, a crash or a write cut short left out is never taken for the whole,
\* neither by the run it happened to nor by a later one that loads the file.
AnswersComplete ==
    \A p \in Procs : kind # "geo" /\ pc[p] = "done" /\ ~degraded[p] =>
        wanted[p] \subseteq DOMAIN mem[p] \cup void[p]

\* A save that nothing disturbs repairs the file: after a crash, a full disk
\* or two writers at once, the next run that writes alone leaves a file that
\* parses, unless what it was sent does not.
LoneSaveRepairs ==
    tidy /\ file.there /\ kind # "asn" /\ (\A p \in Procs : pc[p] # "write") => file.holds.whole

\* README.md:77 and geoip.go:7-8 promise a 24-hour cache: a location taken
\* from the disk is no older than the limit.
EntriesAgeOut ==
    [][\A p \in Procs : kind = "geo" /\ pc[p] = "load" =>
         \A i \in wanted[p] \cap DOMAIN mem'[p] : now - mem'[p][i] <= MaxAge]_vars
====
