---- MODULE DiskCaches_proofs ----
(***************************************************************************)
(* Proofs about the cache files, for any runs, items, sizes and ages: the  *)
(* types; that failures are forgotten, that what is loaded is fresh, that  *)
(* no run mistakes a part for the whole, and that a lone save repairs.     *)
(***************************************************************************)
EXTENDS DiskCaches, TLAPS

PCs == {"off", "load", "fetch", "open", "write", "done"}

-----------------------------------------------------------------------------
(* Partial functions from items to times.                                   *)

LEMMA NothingPartial == Nothing \in Partial /\ DOMAIN Nothing = {}
  BY DEF Nothing, Partial

LEMMA PartialUse ==
    ASSUME NEW f \in Partial
    PROVE  DOMAIN f \subseteq Items /\ \A i \in DOMAIN f : f[i] \in Times
  BY DEF Partial

LEMMA PartialMake ==
    ASSUME NEW I \in SUBSET Items, NEW f \in [I -> Times]
    PROVE  f \in Partial
  BY DEF Partial

LEMMA Merged ==
    ASSUME NEW f \in Partial, NEW g \in Partial
    PROVE  /\ Merge(f, g) \in Partial
           /\ DOMAIN Merge(f, g) = DOMAIN f \cup DOMAIN g
           /\ \A i \in DOMAIN f : Merge(f, g)[i] = f[i]
           /\ \A i \in DOMAIN g \ DOMAIN f : Merge(f, g)[i] = g[i]
<1>1. Merge(f, g) \in [DOMAIN f \cup DOMAIN g -> Times]
  BY PartialUse DEF Merge
<1> QED
  BY <1>1, PartialUse, PartialMake DEF Merge

LEMMA Restricted ==
    ASSUME NEW f \in Partial, NEW S \in SUBSET DOMAIN f
    PROVE  /\ Restrict(f, S) \in Partial
           /\ DOMAIN Restrict(f, S) = S
           /\ \A i \in S : Restrict(f, S)[i] = f[i]
  BY PartialUse, PartialMake DEF Restrict

\* No time that is kept anywhere lies in the future.
PastInv ==
    /\ \A i \in DOMAIN file.holds.items : file.holds.items[i] <= now
    /\ \A p \in Procs : /\ \A i \in DOMAIN mem[p] : mem[p][i] <= now
                        /\ \A i \in DOMAIN draft[p].items : draft[p].items[i] <= now

-----------------------------------------------------------------------------
(* Types.                                                                   *)

LEMMA EmptyTypes ==
    /\ NoDraft \in Contents /\ NoDraft.stamp = 0 /\ NoDraft.items = Nothing
    /\ ~NoDraft.whole /\ NoDraft.void = {}
    /\ NoFile \in Files /\ NoFile.mtime = 0 /\ NoFile.holds = NoDraft /\ NoFile.size = 0
<1>1. 0 \in Times
  BY DiskCachesAssumption DEF Times
<1>2. NoDraft \in Contents /\ NoDraft.stamp = 0 /\ NoDraft.items = Nothing /\ ~NoDraft.whole
      /\ NoDraft.void = {}
  BY <1>1, NothingPartial DEF NoDraft, Contents
<1>3. 0 \in 0..MaxSize
  BY DiskCachesAssumption
<1> QED
  BY <1>1, <1>2, <1>3 DEF NoFile, Files

LEMMA TypeInit == Init => TypeOK
<1> SUFFICES ASSUME Init PROVE TypeOK
  OBVIOUS
<1>1. now \in 1..MaxTime /\ kind \in Kinds /\ tidy \in BOOLEAN
  BY DiskCachesAssumption DEF Init
<1>2. file \in Files /\ file.mtime <= now /\ file.holds.stamp <= now
  BY EmptyTypes DEF Init
<1>3. /\ pc \in [Procs -> {"off", "load", "fetch", "open", "write", "done"}]
      /\ wanted \in [Procs -> SUBSET Items] /\ degraded \in [Procs -> BOOLEAN]
      /\ void \in [Procs -> SUBSET Items]
  BY DEF Init
<1>4. mem \in [Procs -> Partial]
  BY NothingPartial DEF Init
<1>5. draft \in [Procs -> Contents] /\ \A p \in Procs : draft[p].stamp <= now
  BY EmptyTypes DEF Init
<1> QED
  BY <1>1, <1>2, <1>3, <1>4, <1>5 DEF TypeOK

LEMMA NowIs == TypeOK => now \in Times /\ now \in Nat /\ now > 0 /\ 0 <= now
  BY DiskCachesAssumption DEF TypeOK, Times

\* A file that was just opened, and one that holds what does not parse.
LEMMA OpenedTypes ==
    ASSUME TypeOK
    PROVE  /\ Opened \in Files /\ Opened.mtime = now /\ Opened.holds = NoDraft
           /\ Opened.size = 0 /\ Opened.there = TRUE
           /\ \A n \in 0..MaxSize : /\ Torn(n) \in Files /\ Torn(n).mtime = now
                                    /\ Torn(n).holds = NoDraft /\ Torn(n).size = n
                                    /\ Torn(n).there = TRUE
<1>1. now \in Times
  BY DiskCachesAssumption DEF TypeOK, Times
<1>2. /\ Opened \in Files /\ Opened.mtime = now /\ Opened.holds = NoDraft /\ Opened.size = 0
      /\ Opened.there = TRUE
  BY <1>1, EmptyTypes DEF Opened, NoFile, Files
<1>3. ASSUME NEW n \in 0..MaxSize
      PROVE  /\ Torn(n) \in Files /\ Torn(n).mtime = now /\ Torn(n).holds = NoDraft
             /\ Torn(n).size = n /\ Torn(n).there = TRUE
  BY <1>2 DEF Torn, Files
<1> QED
  BY <1>2, <1>3

LEMMA FetchedTypes ==
    ASSUME TypeOK, NEW p \in Procs, NEW answers \in Partial, NEW blanks \in SUBSET Items,
           NEW short \in BOOLEAN, NEW next \in PCs, Fetched(p, answers, blanks, short, next)
    PROVE  TypeOK'
<1>1. Merge(answers, mem[p]) \in Partial
  BY Merged DEF TypeOK
<1>2. mem' = [mem EXCEPT ![p] = Merge(answers, mem[p])]
  BY DEF Fetched, TypeOK
<1>3. mem' \in [Procs -> Partial]
  BY <1>1, <1>2 DEF TypeOK
<1>4. void' \in [Procs -> SUBSET Items]
  BY DEF Fetched, TypeOK
<1> QED
  BY <1>3, <1>4 DEF Fetched, Goto, TypeOK, PCs

LEMMA LoadTypes ==
    ASSUME TypeOK, NEW p \in Procs, NEW next \in PCs, Load(p, next)
    PROVE  TypeOK'
<1>1. mem' \in [Procs -> Partial] /\ void' \in [Procs -> SUBSET Items]
  BY DEF Load, TypeOK, Files, Contents
<1> QED
  BY <1>1 DEF Load, Goto, TypeOK, PCs

LEMMA MissTypes ==
    ASSUME TypeOK, NEW p \in Procs, Miss(p)
    PROVE  TypeOK'
  BY DEF Miss, Goto, TypeOK

\* What a fetch may answer is of the right type.
LEMMA AnswerTypes ==
    ASSUME TypeOK
    PROVE  /\ \A I \in SUBSET Items : [i \in I |-> now] \in Partial
           /\ \A I \in SUBSET Items : \A J : [i \in I |-> IF i \in J THEN now ELSE 0] \in Partial
<1>1. now \in Times /\ 0 \in Times
  BY DiskCachesAssumption DEF TypeOK, Times
<1>2. ASSUME NEW I \in SUBSET Items, NEW J
      PROVE  /\ [i \in I |-> now] \in [I -> Times]
             /\ [i \in I |-> IF i \in J THEN now ELSE 0] \in [I -> Times]
  BY <1>1
<1> QED
  BY <1>2, PartialMake

\* What is saved is the memory without its empty answers.
LEMMA DraftTypes ==
    ASSUME TypeOK, NEW p \in Procs
    PROVE  /\ Kept(p) \subseteq DOMAIN mem[p] /\ mem[p] \in Partial
           /\ Restrict(mem[p], Kept(p)) \in Partial
           /\ DOMAIN Restrict(mem[p], Kept(p)) = Kept(p)
           /\ \A i \in Kept(p) : Restrict(mem[p], Kept(p))[i] = mem[p][i]
<1>1. Kept(p) \subseteq DOMAIN mem[p] /\ mem[p] \in Partial
  BY DEF Kept, TypeOK
<1> QED
  BY <1>1, Restricted

\* What an answer tells the invariants: when it was given, and that it is
\* enough unless the run knows that it is short.
Sound(p, answers, blanks, short, next) ==
    /\ Fetched(p, answers, blanks, short, next)
    /\ pc[p] = "fetch" /\ next \in {"open", "done"}
    /\ \A i \in DOMAIN answers : answers[i] \in {0, now} /\ (kind # "geo" => answers[i] = now)
    /\ kind # "geo" /\ ~short => DOMAIN answers \cup blanks = Items
    /\ kind = "cdn" /\ next = "open" => ~short

\* Every fetch is an instance of Fetched with sound answers.
LEMMA FetchesAnswer ==
    ASSUME TypeOK, NEW p \in Procs, Fetches(p)
    PROVE  \E answers \in Partial, blanks \in SUBSET Items, short \in BOOLEAN, next \in PCs :
             Sound(p, answers, blanks, short, next)
<1>0. wanted[p] \in SUBSET Items /\ wanted[p] \ DOMAIN mem[p] \in SUBSET Items
  BY DEF TypeOK
<1>1. CASE GeoFetches(p)
  <2> DEFINE missing == wanted[p] \ DOMAIN mem[p]
  <2>1. PICK J \in SUBSET Items :
          Fetched(p, [i \in missing |-> IF i \in J THEN now ELSE 0], {}, FALSE, "open")
    <3>1. PICK dns \in SUBSET missing :
            \E batch \in SUBSET dns : \E fallback \in SUBSET (dns \ batch) :
              Fetched(p, [i \in missing |-> IF i \in batch \cup fallback THEN now ELSE 0],
                      {}, FALSE, "open")
      BY <1>1 DEF GeoFetches, Resolved, Batched, FellBack
    <3> QED
      BY <1>0, <3>1
  <2> DEFINE answers == [i \in missing |-> IF i \in J THEN now ELSE 0]
  <2>2. Sound(p, answers, {}, FALSE, "open")
    BY <2>1, <1>1 DEF Sound, GeoFetches
  <2>3. answers \in Partial
    BY <1>0, AnswerTypes
  <2> QED
    BY <2>2, <2>3 DEF PCs
<1>2. ASSUME NEW lists \in SUBSET Items, NEW got \in SUBSET lists,
             NEW next \in {"open", "done"}, kind # "geo", pc[p] = "fetch",
             kind = "cdn" /\ next = "open" => lists = Items,
             Fetched(p, [i \in got |-> now], lists \ got, lists # Items, next)
      PROVE  \E answers \in Partial, blanks \in SUBSET Items, short \in BOOLEAN, n \in PCs :
               Sound(p, answers, blanks, short, n)
  <2>1. Sound(p, [i \in got |-> now], lists \ got, lists # Items, next)
    <3>1. lists = Items => got \cup (lists \ got) = Items
      BY <1>2
    <3> QED
      BY <1>2, <3>1 DEF Sound
  <2>2. [i \in got |-> now] \in Partial
    <3>1. got \in SUBSET Items
      BY <1>2
    <3> QED
      BY <3>1, AnswerTypes
  <2>3. lists \ got \in SUBSET Items /\ (lists # Items) \in BOOLEAN /\ next \in PCs
    BY <1>2 DEF PCs
  <2> QED
    BY <2>1, <2>2, <2>3
<1>3. CASE CdnFetches(p)
  <2>1. PICK lists \in SUBSET Items : \E got \in SUBSET lists :
          Fetched(p, [i \in got |-> now], lists \ got, lists # Items,
                  IF lists = Items THEN "open" ELSE "done")
    BY <1>3 DEF CdnFetches, RangeLists, Ranged
  <2>2. PICK got \in SUBSET lists :
          Fetched(p, [i \in got |-> now], lists \ got, lists # Items,
                  IF lists = Items THEN "open" ELSE "done")
    BY <2>1
  <2>3. pc[p] = "fetch" /\ kind = "cdn"
    BY <1>3 DEF CdnFetches
  <2>4. CASE lists = Items
    BY <2>2, <2>3, <2>4, <1>2
  <2>5. CASE lists # Items
    BY <2>2, <2>3, <2>5, <1>2
  <2> QED
    BY <2>4, <2>5
<1>4. ASSUME NEW next \in {"open", "done"}, kind # "geo" /\ kind # "cdn", pc[p] = "fetch",
             Fetched(p, Nothing, {}, TRUE, next)
      PROVE  \E answers \in Partial, blanks \in SUBSET Items, short \in BOOLEAN, n \in PCs :
               Sound(p, answers, blanks, short, n)
  <2>1. Sound(p, Nothing, {}, TRUE, next)
    BY <1>4, NothingPartial DEF Sound
  <2> QED
    BY <2>1, NothingPartial DEF PCs
\* A dataset or a registration that is accepted for whole.
<1>5. ASSUME NEW got \in SUBSET Items, kind # "geo" /\ kind # "cdn", pc[p] = "fetch",
             Fetched(p, [i \in got |-> now], Items \ got, FALSE, "open")
      PROVE  \E answers \in Partial, blanks \in SUBSET Items, short \in BOOLEAN, n \in PCs :
               Sound(p, answers, blanks, short, n)
  <2>1. (Items # Items) = FALSE
    OBVIOUS
  <2>2. Fetched(p, [i \in got |-> now], Items \ got, Items # Items, "open")
    BY <1>5, <2>1
  <2> QED
    BY <1>5, <2>2, <1>2
<1>6. CASE AsnFetches(p)
  <2>1. /\ pc[p] = "fetch" /\ kind = "asn"
        /\ \/ \E got \in SUBSET Items :
                Fetched(p, [i \in got |-> now], Items \ got, FALSE, "open")
           \/ \E next \in {"open", "done"} : Fetched(p, Nothing, {}, TRUE, next)
    BY <1>6 DEF AsnFetches, Datasets
  <2> QED
    BY <2>1, <1>4, <1>5
<1>7. CASE WarpFetches(p)
  <2>1. /\ pc[p] = "fetch" /\ kind = "warp"
        /\ \/ \E got \in SUBSET Items :
                Fetched(p, [i \in got |-> now], Items \ got, FALSE, "open")
           \/ Fetched(p, Nothing, {}, TRUE, "done")
    BY <1>7 DEF WarpFetches, Registrations
  <2> QED
    BY <2>1, <1>4, <1>5
<1> QED
  BY <1>1, <1>3, <1>6, <1>7 DEF Fetches

LEMMA OpenTypes ==
    ASSUME TypeOK, PastInv, NEW p \in Procs, Open(p)
    PROVE  TypeOK' /\ \A q \in Procs : q # p => draft'[q] = draft[q]
<1> DEFINE d == [whole |-> kind = "asn" => ~degraded[p], stamp |-> Stamp(p),
                 items |-> Restrict(mem[p], Kept(p)), void |-> void[p]]
<1>1. Stamp(p) \in Times /\ Stamp(p) <= now
  <2>1. CASE kind = "warp" /\ Kept(p) # {}
    <3>1. PICK i \in Kept(p) : Stamp(p) = mem[p][i]
      BY <2>1 DEF Stamp
    <3> QED
      BY <3>1, DraftTypes, PartialUse DEF PastInv
  <2>2. CASE ~(kind = "warp" /\ Kept(p) # {})
    BY <2>2, DiskCachesAssumption DEF Stamp, TypeOK, Times
  <2> QED
    BY <2>1, <2>2
<1>2. d \in Contents /\ d.stamp = Stamp(p)
  BY <1>1, DraftTypes DEF Contents, TypeOK
<1> HIDE DEF d
<1>3. draft' = [draft EXCEPT ![p] = d]
  BY DEF Open, d
<1>4. /\ draft' \in [Procs -> Contents] /\ \A q \in Procs : draft'[q].stamp <= now
      /\ \A q \in Procs : q # p => draft'[q] = draft[q]
  BY <1>1, <1>2, <1>3 DEF TypeOK
<1>5. file' \in Files /\ file'.mtime <= now /\ file'.holds.stamp <= now
  <2>1. file' = Opened
    BY DEF Open
  <2> QED
    BY <2>1, OpenedTypes, EmptyTypes, NowIs
<1> QED
  BY <1>4, <1>5 DEF Open, Goto, Writing, TypeOK

LEMMA WriteTypes ==
    ASSUME TypeOK, NEW p \in Procs, Write(p) \/ WriteShort(p)
    PROVE  /\ TypeOK'
           /\ file'.there = TRUE /\ file'.mtime = now
           /\ file'.holds \in {draft[p], NoDraft}
           /\ draft' = [draft EXCEPT ![p] = NoDraft]
           /\ \A q \in Procs : draft'[q] \in {draft[q], NoDraft}
<1>1. PICK n \in 1..MaxSize :
        \/ file' = [there |-> TRUE, mtime |-> now, size |-> n, holds |-> draft[p]]
        \/ file' = Torn(Larger(n, file.size))
  BY DEF Write, WriteShort
<1>2. Larger(n, file.size) \in 0..MaxSize
  BY DiskCachesAssumption DEF Larger, TypeOK, Files
<1>3. /\ file' \in Files /\ file'.mtime = now /\ file'.there = TRUE
      /\ file'.holds \in {draft[p], NoDraft} /\ file'.holds.stamp <= now
  <2>1. CASE file' = [there |-> TRUE, mtime |-> now, size |-> n, holds |-> draft[p]]
    <3>1. now \in Times /\ n \in 0..MaxSize /\ draft[p] \in Contents /\ draft[p].stamp <= now
      BY DiskCachesAssumption DEF TypeOK, Times
    <3> QED
      BY <2>1, <3>1 DEF Files
  <2>2. CASE file' = Torn(Larger(n, file.size))
    BY <2>2, <1>2, OpenedTypes, EmptyTypes, NowIs
  <2> QED
    BY <1>1, <2>1, <2>2
<1>4. draft' = [draft EXCEPT ![p] = NoDraft]
  BY DEF Write, WriteShort
<1>5. /\ draft' \in [Procs -> Contents] /\ \A q \in Procs : draft'[q].stamp <= now
      /\ \A q \in Procs : draft'[q] \in {draft[q], NoDraft}
  BY <1>4, EmptyTypes, NowIs DEF TypeOK
<1>6. /\ pc' = [pc EXCEPT ![p] = "done"] /\ tidy' \in BOOLEAN
      /\ UNCHANGED <<kind, now, wanted, mem, degraded, void>>
  BY DEF Write, WriteShort, Goto, TypeOK
<1> QED
  BY <1>3, <1>4, <1>5, <1>6 DEF TypeOK

LEMMA CrashTypes ==
    ASSUME TypeOK, NEW p \in Procs, Crash(p)
    PROVE  TypeOK' /\ \A q \in Procs : draft'[q] \in {draft[q], NoDraft}
<1>1. /\ draft' \in [Procs -> Contents] /\ \A q \in Procs : draft'[q].stamp <= now
      /\ \A q \in Procs : draft'[q] \in {draft[q], NoDraft}
  BY EmptyTypes, DiskCachesAssumption DEF Crash, TypeOK
<1>2. mem' \in [Procs -> Partial] /\ void' \in [Procs -> SUBSET Items]
  BY NothingPartial DEF Crash, TypeOK
<1> QED
  BY <1>1, <1>2 DEF Crash, Goto, TypeOK

LEMMA StartTypes ==
    ASSUME TypeOK, NEW p \in Procs, Start(p)
    PROVE  TypeOK'
<1>1. mem' \in [Procs -> Partial]
  BY NothingPartial DEF Start, TypeOK
<1>2. wanted' \in [Procs -> SUBSET Items] /\ void' \in [Procs -> SUBSET Items]
  BY DEF Start, TypeOK
<1> QED
  BY <1>1, <1>2 DEF Start, Goto, TypeOK

LEMMA TypeStep ==
    ASSUME TypeOK, PastInv, [Next]_vars
    PROVE  TypeOK'
<1>1. CASE Tick
  BY <1>1, DiskCachesAssumption DEF Tick, TypeOK, runVars, Files, Contents, Times
<1>2. CASE UNCHANGED vars
  BY <1>2 DEF vars, runVars, TypeOK
<1>3. ASSUME NEW p \in Procs, Loads(p)
      PROVE  TypeOK'
  <2>1. ASSUME NEW next \in PCs, Load(p, next) PROVE TypeOK'
    BY <2>1, LoadTypes
  <2>2. CASE Miss(p)
    BY <2>2, MissTypes
  <2>3. CASE GeoLoads(p)
    BY <2>1, <2>2, <2>3 DEF GeoLoads, PCs
  <2>4. CASE CdnLoads(p)
    BY <2>1, <2>2, <2>4 DEF CdnLoads, PCs
  <2>5. CASE WarpLoads(p)
    BY <2>1, <2>2, <2>5 DEF WarpLoads, PCs
  <2>6. CASE AsnLoads(p)
    <3>1. CASE file.there /\ now - file.mtime < MaxAge
      <4> DEFINE short == ~file.holds.whole
      <4>1. /\ mem' = [mem EXCEPT ![p] = file.holds.items]
            /\ degraded' = [degraded EXCEPT ![p] = short]
            /\ void' = [void EXCEPT ![p] = file.holds.void]
            /\ pc' = [pc EXCEPT ![p] = "done"]
            /\ UNCHANGED <<kind, now, file, wanted, draft, tidy>>
        BY <2>6, <3>1 DEF AsnLoads, Goto
      <4>2. file.holds.items \in Partial /\ short \in BOOLEAN /\ file.holds.void \in SUBSET Items
        BY DEF TypeOK, Files, Contents
      <4> HIDE DEF short
      <4> QED
        BY <4>1, <4>2 DEF TypeOK
    <3> QED
      BY <2>2, <2>6, <3>1 DEF AsnLoads
  <2> QED
    BY <1>3, <2>3, <2>4, <2>5, <2>6 DEF Loads
<1>4. ASSUME NEW p \in Procs, Fetches(p)
      PROVE  TypeOK'
  <2>1. PICK answers \in Partial, blanks \in SUBSET Items, short \in BOOLEAN, next \in PCs :
          Sound(p, answers, blanks, short, next)
    BY <1>4, FetchesAnswer
  <2> QED
    BY <2>1, FetchedTypes DEF Sound
<1>5. ASSUME NEW p \in Procs, Start(p) \/ Saves(p) \/ Crash(p)
      PROVE  TypeOK'
  <2>1. CASE OpenFails(p)
    BY <2>1 DEF OpenFails, Goto, TypeOK
  <2> QED
    BY <1>5, <2>1, StartTypes, OpenTypes, WriteTypes, CrashTypes DEF Saves
<1> QED
  BY <1>1, <1>2, <1>3, <1>4, <1>5 DEF Next

-----------------------------------------------------------------------------
(* What the steps of one run do.                                            *)

Step(p) == Start(p) \/ Loads(p) \/ Fetches(p) \/ Saves(p) \/ Crash(p)

\* They leave the other runs and the clock alone.
LEMMA Frame ==
    ASSUME TypeOK, NEW p \in Procs, Step(p), NEW q \in Procs, q # p
    PROVE  /\ pc'[q] = pc[q] /\ mem'[q] = mem[q] /\ draft'[q] = draft[q]
           /\ wanted'[q] = wanted[q] /\ degraded'[q] = degraded[q] /\ void'[q] = void[q]
<1> USE DEF TypeOK, Goto
<1>1. CASE Start(p) \/ Crash(p)
  BY <1>1 DEF Start, Crash
<1>2. CASE Loads(p)
  BY <1>2 DEF Loads, GeoLoads, CdnLoads, AsnLoads, WarpLoads, Load, Miss
<1>3. CASE Fetches(p)
  <2>1. PICK answers \in Partial, blanks \in SUBSET Items, short \in BOOLEAN, next \in PCs :
          Sound(p, answers, blanks, short, next)
    BY <1>3, FetchesAnswer
  <2> QED
    BY <2>1 DEF Sound, Fetched
<1>4. CASE Saves(p)
  BY <1>4 DEF Saves, Open, OpenFails, Write, WriteShort
<1> QED
  BY <1>1, <1>2, <1>3, <1>4 DEF Step

LEMMA StepNow ==
    ASSUME TypeOK, NEW p \in Procs, Step(p)
    PROVE  now' = now /\ kind' = kind
<1>1. CASE Start(p) \/ Crash(p)
  BY <1>1 DEF Start, Crash
<1>2. CASE Loads(p)
  BY <1>2 DEF Loads, GeoLoads, CdnLoads, AsnLoads, WarpLoads, Load, Miss
<1>3. CASE Fetches(p)
  <2>1. PICK answers \in Partial, blanks \in SUBSET Items, short \in BOOLEAN, next \in PCs :
          Sound(p, answers, blanks, short, next)
    BY <1>3, FetchesAnswer
  <2> QED
    BY <2>1 DEF Sound, Fetched
<1>4. CASE Saves(p)
  BY <1>4 DEF Saves, Open, OpenFails, Write, WriteShort
<1> QED
  BY <1>1, <1>2, <1>3, <1>4 DEF Step

\* Start and Crash forget; what is taken from the disk is the file's content.
LEMMA StartOrCrash ==
    ASSUME TypeOK, NEW p \in Procs, Start(p) \/ Crash(p)
    PROVE  /\ file' = file /\ mem'[p] = Nothing /\ draft'[p] \in {draft[p], NoDraft}
           /\ pc'[p] \in {"load", "off"}
  BY DEF Start, Crash, Goto, TypeOK

LEMMA LoadsEffect ==
    ASSUME TypeOK, NEW p \in Procs, Loads(p)
    PROVE  /\ pc[p] = "load" /\ UNCHANGED <<file, wanted, draft, tidy>>
           /\ \/ mem'[p] = mem[p] /\ pc'[p] = "fetch"
              \/ /\ mem'[p] = file.holds.items /\ void'[p] = file.holds.void
                 /\ kind = "geo" => pc'[p] = "fetch" \/ (pc'[p] = "done" /\ wanted[p] \subseteq DOMAIN mem'[p])
                 /\ kind # "geo" => pc'[p] = "done"
                 /\ kind = "asn" => now - file.mtime < MaxAge /\ (~degraded'[p] => file.holds.whole)
                 /\ kind \in {"cdn", "warp"} => file.holds.whole /\ now - file.holds.stamp <= MaxAge
                 /\ kind = "warp" => DOMAIN mem'[p] = Items
<1> USE DEF Goto
<1>1. file.holds.stamp \in Nat /\ now \in Nat /\ MaxAge \in Nat /\ file.holds.items \in Partial
  BY DiskCachesAssumption DEF TypeOK, Files, Contents, Times
<1>2. pc \in [Procs -> PCs] /\ mem \in [Procs -> Partial] /\ degraded \in [Procs -> BOOLEAN]
      /\ void \in [Procs -> SUBSET Items]
  BY DEF TypeOK, PCs
<1>3. CASE GeoLoads(p)
  <2>1. CASE file.holds.whole /\ now - file.holds.stamp <= MaxAge
    <3>1. PICK next \in {"done", "fetch"} :
            /\ Load(p, next)
            /\ next = "done" => wanted[p] \subseteq DOMAIN file.holds.items
      BY <1>3, <2>1 DEF GeoLoads
    <3>2. /\ mem'[p] = file.holds.items /\ void'[p] = file.holds.void /\ pc'[p] = next
          /\ UNCHANGED <<file, wanted, draft, tidy>>
      BY <3>1, <1>2 DEF Load
    <3>3. pc[p] = "load" /\ kind = "geo"
      BY <1>3 DEF GeoLoads
    <3> QED
      BY <3>1, <3>2, <3>3
  <2>2. CASE ~(file.holds.whole /\ now - file.holds.stamp <= MaxAge)
    <3>1. pc[p] = "load" /\ Miss(p)
      BY <1>3, <2>2 DEF GeoLoads
    <3> QED
      BY <3>1, <1>2 DEF Miss
  <2> QED
    BY <2>1, <2>2
<1>4. CASE CdnLoads(p)
  BY <1>1, <1>2, <1>4 DEF CdnLoads, Load, Miss
<1>5. CASE AsnLoads(p)
  <2>1. CASE file.there /\ now - file.mtime < MaxAge
    <3>1. /\ pc[p] = "load" /\ kind = "asn" /\ mem'[p] = file.holds.items /\ pc'[p] = "done"
          /\ degraded'[p] = ~file.holds.whole /\ void'[p] = file.holds.void
          /\ UNCHANGED <<file, wanted, draft, tidy>>
      BY <1>2, <1>5, <2>1 DEF AsnLoads
    <3> QED
      BY <2>1, <3>1
  <2>2. CASE ~(file.there /\ now - file.mtime < MaxAge)
    BY <1>1, <1>2, <1>5, <2>2 DEF AsnLoads, Miss
  <2> QED
    BY <2>1, <2>2
<1>6. CASE WarpLoads(p)
  BY <1>1, <1>2, <1>6 DEF WarpLoads, Load, Miss
<1> QED
  BY <1>3, <1>4, <1>5, <1>6 DEF Loads

LEMMA FetchesEffect ==
    ASSUME TypeOK, NEW p \in Procs, Fetches(p)
    PROVE  /\ pc[p] = "fetch" /\ UNCHANGED <<file, wanted, draft, tidy>>
           /\ pc'[p] \in {"open", "done"}
           /\ DOMAIN mem[p] \subseteq DOMAIN mem'[p] /\ mem'[p] \in Partial
           /\ \A i \in DOMAIN mem'[p] :
                \/ i \in DOMAIN mem[p] /\ mem'[p][i] = mem[p][i]
                \/ mem'[p][i] \in {0, now} /\ (kind # "geo" => mem'[p][i] = now)
           /\ kind # "geo" /\ ~degraded'[p] => Items \subseteq DOMAIN mem'[p] \cup void'[p]
           /\ kind = "cdn" /\ pc'[p] = "open" => ~degraded'[p]
<1>1. PICK answers \in Partial, blanks \in SUBSET Items, short \in BOOLEAN, next \in PCs :
          Sound(p, answers, blanks, short, next)
  BY FetchesAnswer
<1>2. /\ mem'[p] = Merge(answers, mem[p]) /\ degraded'[p] = short /\ pc'[p] = next
      /\ void'[p] = blanks
      /\ UNCHANGED <<file, wanted, draft, tidy>>
  BY <1>1 DEF Sound, Fetched, Goto, TypeOK
<1>3. mem[p] \in Partial /\ DOMAIN mem[p] \subseteq Items
  BY PartialUse DEF TypeOK
<1> HIDE DEF Merge
<1>4. /\ Merge(answers, mem[p]) \in Partial
      /\ DOMAIN Merge(answers, mem[p]) = DOMAIN answers \cup DOMAIN mem[p]
      /\ \A i \in DOMAIN answers : Merge(answers, mem[p])[i] = answers[i]
      /\ \A i \in DOMAIN mem[p] \ DOMAIN answers : Merge(answers, mem[p])[i] = mem[p][i]
  BY <1>3, Merged
<1> QED
  BY <1>1, <1>2, <1>3, <1>4 DEF Sound

LEMMA OpenEffect ==
    ASSUME TypeOK, NEW p \in Procs, Open(p)
    PROVE  /\ pc[p] = "open" /\ pc'[p] = "write" /\ file' = Opened
           /\ UNCHANGED <<wanted, mem, degraded, void>> /\ tidy' = ~Writing(p)
           /\ draft'[p].whole = (kind = "asn" => ~degraded[p])
           /\ draft'[p].void = void[p]
           /\ draft'[p].stamp = Stamp(p)
           /\ draft'[p].items = Restrict(mem[p], Kept(p))
  BY DEF Open, Goto, TypeOK

LEMMA WriteEffect ==
    ASSUME TypeOK, NEW p \in Procs, Write(p) \/ WriteShort(p)
    PROVE  /\ pc[p] = "write" /\ pc'[p] = "done" /\ UNCHANGED <<wanted, mem, degraded, void>>
           /\ file'.mtime = now /\ file'.holds \in {draft[p], NoDraft} /\ draft'[p] = NoDraft
<1>1. pc[p] = "write" /\ pc'[p] = "done" /\ UNCHANGED <<wanted, mem, degraded, void>>
  BY DEF Write, WriteShort, Goto, TypeOK
<1>2. draft'[p] = NoDraft
  BY WriteTypes DEF TypeOK
<1> QED
  BY <1>1, <1>2, WriteTypes

LEMMA OpenFailsEffect ==
    ASSUME TypeOK, NEW p \in Procs, OpenFails(p)
    PROVE  pc[p] = "open" /\ pc'[p] = "done" /\ UNCHANGED <<file, wanted, mem, draft, degraded, void, tidy>>
  BY DEF OpenFails, Goto, TypeOK

-----------------------------------------------------------------------------
(* The invariants.  Each has a part about the file and one about each run.  *)

PastRun(p) ==
    /\ \A i \in DOMAIN mem[p] : mem[p][i] <= now
    /\ \A i \in DOMAIN draft[p].items : draft[p].items[i] <= now

LEMMA PastStep == ASSUME TypeOK, PastInv, [Next]_vars PROVE PastInv'
<1> USE NowIs
<1>1. CASE Tick
  <2>1. now' = now + 1 /\ UNCHANGED <<file, mem, draft>>
    BY <1>1 DEF Tick, runVars
  <2>2. \A p \in Procs : mem[p] \in Partial /\ draft[p].items \in Partial
    BY DEF TypeOK, Contents
  <2>3. file.holds.items \in Partial
    BY DEF TypeOK, Files, Contents
  <2>4. \A f \in Partial : (\A i \in DOMAIN f : f[i] <= now) => \A i \in DOMAIN f : f[i] <= now + 1
    BY PartialUse DEF Times
  <2> QED
    BY <2>1, <2>2, <2>3, <2>4 DEF PastInv
<1>2. CASE UNCHANGED vars
  BY <1>2 DEF vars, runVars, PastInv
<1>3. ASSUME NEW p \in Procs, Step(p)
      PROVE  PastInv'
  <2>1. now' = now
    BY <1>3, StepNow
  <2>2. \A i \in DOMAIN file.holds.items : file.holds.items[i] <= now
    BY DEF PastInv
  <2>3. PastRun(p)
    BY DEF PastInv, PastRun
  <2>4. SUFFICES PastRun(p)' /\ \A i \in DOMAIN file'.holds.items : file'.holds.items[i] <= now
    BY <1>3, <2>1, Frame DEF PastInv, PastRun
  <2>5. DOMAIN NoDraft.items = {} /\ DOMAIN Nothing = {}
    BY EmptyTypes, NothingPartial
  <2>6. CASE Start(p) \/ Crash(p)
    BY <2>1, <2>2, <2>3, <2>5, <2>6, StartOrCrash DEF PastRun
  <2>7. CASE Loads(p)
    BY <2>1, <2>2, <2>3, <2>7, LoadsEffect DEF PastRun
  <2>8. CASE Fetches(p)
    BY <2>1, <2>2, <2>3, <2>8, FetchesEffect DEF PastRun
  <2>9. CASE Open(p)
    <3>1. \A i \in DOMAIN draft'[p].items : draft'[p].items[i] <= now
      BY <2>3, <2>9, OpenEffect, DraftTypes DEF PastRun
    <3>2. mem' = mem /\ file'.holds = NoDraft
      BY <2>9, OpenEffect, OpenedTypes
    <3> QED
      BY <2>1, <2>3, <2>5, <3>1, <3>2 DEF PastRun
  <2>10. CASE OpenFails(p)
    BY <2>1, <2>2, <2>3, <2>10, OpenFailsEffect DEF PastRun
  <2>11. CASE Write(p) \/ WriteShort(p)
    BY <2>1, <2>2, <2>3, <2>5, <2>11, WriteEffect DEF PastRun
  <2> QED
    BY <1>3, <2>6, <2>7, <2>8, <2>9, <2>10, <2>11 DEF Step, Saves
<1> QED
  BY <1>1, <1>2, <1>3 DEF Next, Step

LEMMA PastInit == Init => PastInv
  BY EmptyTypes, NothingPartial DEF Init, PastInv

\* The types hold, and no saved or remembered time is later than the present.
THEOREM TypeCorrect == Spec => []TypeOK
<1>1. Init => TypeOK /\ PastInv
  BY TypeInit, PastInit
<1>2. TypeOK /\ PastInv /\ [Next]_vars => TypeOK' /\ PastInv'
  BY TypeStep, PastStep
<1> QED
  BY <1>1, <1>2, PTL DEF Spec

-----------------------------------------------------------------------------
(* Failures are forgotten.                                                  *)

\* No empty answer is on the disk or about to be, and a run that loads knows
\* nothing yet.
SolidRun(p) ==
    /\ pc[p] = "load" => DOMAIN mem[p] = {}
    /\ \A i \in DOMAIN draft[p].items : draft[p].items[i] # 0

SolidInv ==
    /\ \A i \in DOMAIN file.holds.items : file.holds.items[i] # 0
    /\ \A p \in Procs : SolidRun(p)

LEMMA SolidInit == Init => SolidInv
  BY EmptyTypes, NothingPartial DEF Init, SolidInv, SolidRun

LEMMA SolidStep == ASSUME TypeOK, SolidInv, [Next]_vars PROVE SolidInv'
<1>1. CASE Tick \/ UNCHANGED vars
  BY <1>1 DEF Tick, vars, runVars, SolidInv, SolidRun
<1>2. ASSUME NEW p \in Procs, Step(p)
      PROVE  SolidInv'
  <2>1. (\A i \in DOMAIN file.holds.items : file.holds.items[i] # 0) /\ SolidRun(p)
    BY DEF SolidInv
  <2>2. SUFFICES SolidRun(p)' /\ \A i \in DOMAIN file'.holds.items : file'.holds.items[i] # 0
    BY <1>2, Frame DEF SolidInv, SolidRun
  <2>3. DOMAIN NoDraft.items = {} /\ DOMAIN Nothing = {}
    BY EmptyTypes, NothingPartial
  <2>4. CASE Start(p) \/ Crash(p)
    BY <2>1, <2>3, <2>4, StartOrCrash DEF SolidRun
  <2>5. CASE Loads(p)
    BY <2>1, <2>5, LoadsEffect DEF SolidRun
  <2>6. CASE Fetches(p)
    BY <2>1, <2>6, FetchesEffect DEF SolidRun
  <2>7. CASE Open(p)
    <3>1. \A i \in DOMAIN draft'[p].items : draft'[p].items[i] # 0
      <4>1. \A i \in Kept(p) : mem[p][i] # 0
        BY DEF Kept
      <4> QED
        BY <2>7, <4>1, OpenEffect, DraftTypes
    <3>2. pc'[p] = "write" /\ file'.holds = NoDraft
      BY <2>7, OpenEffect, OpenedTypes
    <3> QED
      BY <2>3, <3>1, <3>2 DEF SolidRun
  <2>8. CASE OpenFails(p)
    BY <2>1, <2>8, OpenFailsEffect DEF SolidRun
  <2>9. CASE Write(p) \/ WriteShort(p)
    BY <2>1, <2>3, <2>9, WriteEffect DEF SolidRun
  <2> QED
    BY <1>2, <2>4, <2>5, <2>6, <2>7, <2>8, <2>9 DEF Step, Saves
<1> QED
  BY <1>1, <1>2 DEF Next, Step

\* What a run knows at its load and after the step that ends it.
LEMMA AtLoad ==
    ASSUME TypeOK, SolidInv, [Next]_vars, NEW q \in Procs, pc[q] = "load"
    PROVE  \/ DOMAIN mem'[q] = {}
           \/ /\ mem'[q] = file.holds.items
              /\ kind = "asn" => now - file.mtime < MaxAge
              /\ kind \in {"cdn", "warp"} => now - file.holds.stamp <= MaxAge
<1>1. DOMAIN mem[q] = {} /\ DOMAIN Nothing = {}
  BY NothingPartial DEF SolidInv, SolidRun
<1>2. CASE Tick \/ UNCHANGED vars
  BY <1>1, <1>2 DEF Tick, vars, runVars
<1>3. ASSUME NEW p \in Procs, Step(p), p # q
      PROVE  mem'[q] = mem[q]
  BY <1>3, Frame
<1>4. CASE Step(q)
  <2>1. CASE Start(q) \/ Crash(q)
    BY <1>1, <2>1, StartOrCrash
  <2>2. CASE Loads(q)
    BY <1>1, <2>2, LoadsEffect
  <2>3. CASE Fetches(q) \/ Open(q) \/ OpenFails(q) \/ Write(q) \/ WriteShort(q)
    BY <2>3, FetchesEffect, OpenEffect, OpenFailsEffect, WriteEffect
  <2> QED
    BY <1>4, <2>1, <2>2, <2>3 DEF Step, Saves
<1> QED
  BY <1>1, <1>2, <1>3, <1>4 DEF Next, Step

\* No run takes an empty answer from the disk, whoever saved the file.
THEOREM EmptyAnswersStay == Spec => FailuresForgotten
<1>1. Init => TypeOK /\ PastInv /\ SolidInv
  BY TypeInit, PastInit, SolidInit
<1>2. TypeOK /\ PastInv /\ SolidInv /\ [Next]_vars => TypeOK' /\ PastInv' /\ SolidInv'
  BY TypeStep, PastStep, SolidStep
<1> DEFINE Forgotten == \A p \in Procs : pc[p] = "load" => \A i \in DOMAIN mem'[p] : mem'[p][i] # 0
<1>3. TypeOK /\ SolidInv /\ [Next]_vars => Forgotten
  BY AtLoad DEF SolidInv
<1>4. TypeOK /\ SolidInv /\ [Next]_vars => [Forgotten]_vars
  BY <1>3
<1> QED
  BY <1>1, <1>2, <1>4, PTL DEF Spec, FailuresForgotten

-----------------------------------------------------------------------------
(* What is used is fresh.                                                   *)

\* Between its fetch and its write a run holds answers of the present, since
\* the clock waits for it.
FreshRun(p) ==
    /\ pc[p] = "fetch" => DOMAIN mem[p] = {}
    /\ pc[p] = "open" => \A i \in DOMAIN mem[p] : mem[p][i] = now
    /\ pc[p] = "write" => /\ draft[p].stamp = now
                          /\ \A i \in DOMAIN draft[p].items : draft[p].items[i] = now

\* All that a file holds was answered when it was stamped and written.
FreshFile ==
    \A i \in DOMAIN file.holds.items :
      file.holds.items[i] = file.holds.stamp /\ file.holds.items[i] = file.mtime

FreshInv == kind # "geo" => FreshFile /\ \A p \in Procs : FreshRun(p)

LEMMA FreshInit == Init => FreshInv
  BY EmptyTypes, NothingPartial DEF Init, FreshInv, FreshRun, FreshFile

LEMMA FreshStep == ASSUME TypeOK, SolidInv, FreshInv, [Next]_vars PROVE FreshInv'
<1>1. CASE Tick
  <2>1. /\ UNCHANGED <<kind, file, pc, mem, draft>>
        /\ \A p \in Procs : pc[p] \in {"off", "load", "done"}
    BY <1>1 DEF Tick, runVars
  <2> QED
    BY <2>1 DEF FreshInv, FreshRun, FreshFile
<1>2. CASE UNCHANGED vars
  BY <1>2 DEF vars, runVars, FreshInv, FreshRun, FreshFile
<1>3. ASSUME NEW p \in Procs, Step(p)
      PROVE  FreshInv'
  <2>1. now' = now /\ kind' = kind
    BY <1>3, StepNow
  <2>2. SUFFICES ASSUME kind # "geo" PROVE FreshFile' /\ FreshRun(p)'
    BY <1>3, <2>1, Frame DEF FreshInv, FreshRun
  <2>3. FreshFile /\ FreshRun(p) /\ (pc[p] = "load" => DOMAIN mem[p] = {})
    BY <2>2 DEF FreshInv, SolidInv, SolidRun
  <2>4. DOMAIN NoDraft.items = {}
    BY EmptyTypes, NothingPartial
  <2>5. CASE Start(p) \/ Crash(p)
    BY <2>1, <2>3, <2>5, StartOrCrash DEF FreshRun, FreshFile
  <2>6. CASE Loads(p)
    BY <2>1, <2>2, <2>3, <2>6, LoadsEffect DEF FreshRun, FreshFile
  <2>7. CASE Fetches(p)
    BY <2>1, <2>2, <2>3, <2>7, FetchesEffect DEF FreshRun, FreshFile
  <2>8. CASE Open(p)
    <3>1. pc[p] = "open" /\ pc'[p] = "write" /\ file' = Opened
      BY <2>8, OpenEffect
    <3>2. \A i \in Kept(p) : mem[p][i] = now
      BY <2>3, <3>1, DraftTypes DEF FreshRun
    <3>3. Stamp(p) = now
      BY <3>2 DEF Stamp
    <3>4. draft'[p].stamp = now /\ \A i \in DOMAIN draft'[p].items : draft'[p].items[i] = now
      BY <2>8, <3>2, <3>3, OpenEffect, DraftTypes
    <3> QED
      BY <2>1, <2>4, <3>1, <3>4, OpenedTypes DEF FreshRun, FreshFile
  <2>9. CASE OpenFails(p)
    BY <2>1, <2>3, <2>9, OpenFailsEffect DEF FreshRun, FreshFile
  <2>10. CASE Write(p) \/ WriteShort(p)
    BY <2>1, <2>3, <2>4, <2>10, WriteEffect DEF FreshRun, FreshFile
  <2> QED
    BY <1>3, <2>5, <2>6, <2>7, <2>8, <2>9, <2>10 DEF Step, Saves
<1> QED
  BY <1>1, <1>2, <1>3 DEF Next, Step

\* Whatever is taken from the disk was answered within the limit.
THEOREM LoadedIsFresh == Spec => UsedIsFresh
<1>1. Init => TypeOK /\ PastInv /\ SolidInv /\ FreshInv
  BY TypeInit, PastInit, SolidInit, FreshInit
<1>2. TypeOK /\ PastInv /\ SolidInv /\ FreshInv /\ [Next]_vars
        => TypeOK' /\ PastInv' /\ SolidInv' /\ FreshInv'
  BY TypeStep, PastStep, SolidStep, FreshStep
<1> DEFINE Fresh == \A p \in Procs : kind # "geo" /\ pc[p] = "load" =>
                      \A i \in DOMAIN mem'[p] : now - mem'[p][i] <= MaxAge
<1>3. ASSUME TypeOK, SolidInv, FreshInv, [Next]_vars
      PROVE  Fresh
  <2> SUFFICES ASSUME NEW p \in Procs, kind # "geo", pc[p] = "load", NEW i \in DOMAIN mem'[p]
               PROVE  now - mem'[p][i] <= MaxAge
    OBVIOUS
  <2>1. /\ mem'[p] = file.holds.items
        /\ kind = "asn" => now - file.mtime < MaxAge
        /\ kind \in {"cdn", "warp"} => now - file.holds.stamp <= MaxAge
    BY <1>3, AtLoad
  <2>2. mem'[p][i] = file.holds.stamp /\ mem'[p][i] = file.mtime
    BY <1>3, <2>1 DEF FreshInv, FreshFile
  <2>3. kind \in {"asn", "cdn", "warp"} /\ now \in Nat /\ file.mtime \in Nat /\ MaxAge \in Nat
    BY <1>3, DiskCachesAssumption DEF TypeOK, Kinds, Files, Times
  <2> QED
    BY <2>1, <2>2, <2>3
<1>4. TypeOK /\ SolidInv /\ FreshInv /\ [Next]_vars => [Fresh]_vars
  BY <1>3
<1> QED
  BY <1>1, <1>2, <1>4, PTL DEF Spec, UsedIsFresh

-----------------------------------------------------------------------------
(* A part is never taken for the whole.                                     *)

\* What an answer was accepted with and what it came without make all there is.
Accounted(items, blanks) == Items \subseteq DOMAIN items \cup blanks

\* Of ranges and routes only what accounts for all is saved as whole; and a run
\* past its fetch has all it wanted accounted for or knows better.
EnoughRun(p) ==
    /\ pc[p] \in {"open", "write", "done"} /\ ~degraded[p] => Accounted(mem[p], void[p])
    /\ pc[p] = "open" /\ kind = "cdn" => ~degraded[p]
    /\ pc[p] = "write" /\ kind \in {"cdn", "asn"} /\ draft[p].whole =>
         Accounted(draft[p].items, draft[p].void)

EnoughFile ==
    kind \in {"cdn", "asn"} /\ file.holds.whole => Accounted(file.holds.items, file.holds.void)

EnoughInv == kind # "geo" => EnoughFile /\ \A p \in Procs : EnoughRun(p)

LEMMA EnoughInit == Init => EnoughInv
  BY EmptyTypes DEF Init, EnoughInv, EnoughRun, EnoughFile

LEMMA EnoughStep == ASSUME TypeOK, FreshInv, EnoughInv, [Next]_vars PROVE EnoughInv'
<1>1. CASE Tick \/ UNCHANGED vars
  BY <1>1 DEF Tick, vars, runVars, EnoughInv, EnoughRun, EnoughFile
<1>2. ASSUME NEW p \in Procs, Step(p)
      PROVE  EnoughInv'
  <2>1. now' = now /\ kind' = kind
    BY <1>2, StepNow
  <2>2. SUFFICES ASSUME kind # "geo" PROVE EnoughFile' /\ EnoughRun(p)'
    BY <1>2, <2>1, Frame DEF EnoughInv, EnoughRun
  <2>3. EnoughFile /\ EnoughRun(p) /\ FreshRun(p)
    BY <2>2 DEF EnoughInv, FreshInv
  <2>4. ~NoDraft.whole
    BY EmptyTypes
  <2>5. CASE Start(p) \/ Crash(p)
    BY <2>1, <2>3, <2>5, StartOrCrash DEF EnoughRun, EnoughFile
  <2>6. CASE Loads(p)
    <3>1. kind \in Kinds
      BY DEF TypeOK
    <3> QED
      BY <2>1, <2>2, <2>3, <2>6, <3>1, LoadsEffect DEF EnoughRun, EnoughFile, Accounted, Kinds
  <2>7. CASE Fetches(p)
    BY <2>1, <2>2, <2>3, <2>7, FetchesEffect DEF EnoughRun, EnoughFile, Accounted
  <2>8. CASE Open(p)
    <3>1. pc[p] = "open" /\ pc'[p] = "write" /\ file' = Opened /\ UNCHANGED <<wanted, mem, degraded, void>>
      BY <2>8, OpenEffect
    <3>2. Kept(p) = DOMAIN mem[p]
      BY <2>3, <3>1, NowIs DEF FreshRun, Kept
    <3>3. ASSUME kind \in {"cdn", "asn"}, draft'[p].whole
          PROVE  Accounted(draft'[p].items, draft'[p].void)
      <4>1. /\ DOMAIN draft'[p].items = Kept(p) /\ draft'[p].void = void[p]
            /\ kind = "asn" => ~degraded[p]
        BY <2>8, <3>3, OpenEffect, DraftTypes
      <4> QED
        BY <2>3, <3>1, <3>2, <3>3, <4>1 DEF EnoughRun, Accounted
    <3> QED
      BY <2>1, <2>3, <2>4, <3>1, <3>3, OpenedTypes DEF EnoughRun, EnoughFile
  <2>9. CASE OpenFails(p)
    BY <2>1, <2>3, <2>9, OpenFailsEffect DEF EnoughRun, EnoughFile
  <2>10. CASE Write(p) \/ WriteShort(p)
    BY <2>1, <2>3, <2>4, <2>10, WriteEffect DEF EnoughRun, EnoughFile
  <2> QED
    BY <1>2, <2>5, <2>6, <2>7, <2>8, <2>9, <2>10 DEF Step, Saves
<1> QED
  BY <1>1, <1>2 DEF Next, Step

\* A run that ends without an error has all it wanted, but for what an answer
\* that was accepted came without.
THEOREM NoHiddenGap == Spec => []AnswersComplete
<1>1. Init => TypeOK /\ PastInv /\ SolidInv /\ FreshInv /\ EnoughInv
  BY TypeInit, PastInit, SolidInit, FreshInit, EnoughInit
<1>2. TypeOK /\ PastInv /\ SolidInv /\ FreshInv /\ EnoughInv /\ [Next]_vars
        => TypeOK' /\ PastInv' /\ SolidInv' /\ FreshInv' /\ EnoughInv'
  BY TypeStep, PastStep, SolidStep, FreshStep, EnoughStep
<1>3. TypeOK /\ EnoughInv => AnswersComplete
  BY DEF TypeOK, EnoughInv, EnoughRun, Accounted, AnswersComplete
<1> QED
  BY <1>1, <1>2, <1>3, PTL DEF Spec

-----------------------------------------------------------------------------
(* A lone save repairs.                                                     *)

\* While it is undisturbed, the file a run is about to write is its own.
LoneRun(p) ==
    pc[p] = "write" =>
      /\ kind # "asn" => draft[p].whole
      /\ tidy => file.size = 0 /\ \A q \in Procs \ {p} : pc[q] # "write"

LoneInv == LoneSaveRepairs /\ \A p \in Procs : LoneRun(p)

LEMMA LoneInit == Init => LoneInv
  BY EmptyTypes DEF Init, LoneInv, LoneRun, LoneSaveRepairs, NoFile

LEMMA LoneStep == ASSUME TypeOK, LoneInv, [Next]_vars PROVE LoneInv'
<1>1. CASE Tick \/ UNCHANGED vars
  BY <1>1 DEF Tick, vars, runVars, LoneInv, LoneRun, LoneSaveRepairs
<1>2. ASSUME NEW p \in Procs, Step(p)
      PROVE  LoneInv'
  <2>1. kind' = kind
    BY <1>2, StepNow
  <2>2. /\ LoneSaveRepairs /\ \A q \in Procs : LoneRun(q)
        /\ \A q \in Procs \ {p} : pc'[q] = pc[q] /\ draft'[q] = draft[q]
    BY <1>2, Frame DEF LoneInv
  <2>3. ASSUME file' = file, tidy' => tidy, pc[p] # "write", pc'[p] # "write"
        PROVE  LoneInv'
    BY <2>1, <2>2, <2>3 DEF LoneInv, LoneRun, LoneSaveRepairs
  <2>4. CASE Start(p)
    <3>1. file' = file /\ tidy' = tidy /\ pc[p] # "write" /\ pc'[p] = "load"
      BY <2>4 DEF Start, Goto, TypeOK
    <3> QED
      BY <2>3, <3>1
  <2>5. CASE Crash(p)
    <3>1. file' = file /\ tidy' = (tidy /\ pc[p] # "write") /\ pc'[p] = "off"
      BY <2>5 DEF Crash, Goto, TypeOK
    <3>2. CASE pc[p] # "write"
      BY <2>3, <3>1, <3>2
    <3>3. CASE pc[p] = "write"
      BY <2>1, <2>2, <3>1, <3>3 DEF LoneInv, LoneRun, LoneSaveRepairs
    <3> QED
      BY <3>2, <3>3
  <2>6. CASE Loads(p) \/ Fetches(p) \/ OpenFails(p)
    BY <2>3, <2>6, LoadsEffect, FetchesEffect, OpenFailsEffect
  <2>7. CASE Open(p)
    <3>1. /\ pc'[p] = "write" /\ file' = Opened /\ tidy' = ~Writing(p)
          /\ kind # "asn" => draft'[p].whole
      BY <2>7, OpenEffect
    <3>2. Opened.size = 0
      BY OpenedTypes
    <3>3. tidy' => \A q \in Procs \ {p} : pc[q] # "write"
      BY <3>1 DEF Writing
    <3> QED
      BY <2>1, <2>2, <3>1, <3>2, <3>3 DEF LoneInv, LoneRun, LoneSaveRepairs
  <2>8. CASE Write(p)
    <3>1. /\ pc[p] = "write" /\ pc'[p] = "done" /\ tidy' = tidy
          /\ \E n \in 1..MaxSize :
               file' = IF draft[p].whole /\ n >= file.size
                       THEN [there |-> TRUE, mtime |-> now, size |-> n, holds |-> draft[p]]
                       ELSE Torn(Larger(n, file.size))
      BY <2>8 DEF Write, Goto, TypeOK
    <3>2. ASSUME tidy, kind # "asn"
          PROVE  file'.holds.whole
      <4>1. file.size = 0 /\ draft[p].whole
        BY <2>2, <3>1, <3>2 DEF LoneRun
      <4>2. PICK n \in 1..MaxSize :
              file' = IF draft[p].whole /\ n >= file.size
                      THEN [there |-> TRUE, mtime |-> now, size |-> n, holds |-> draft[p]]
                      ELSE Torn(Larger(n, file.size))
        BY <3>1
      <4>3. n >= file.size
        BY <4>1, DiskCachesAssumption
      <4>4. file'.holds = draft[p]
        BY <4>1, <4>2, <4>3
      <4> QED
        BY <4>1, <4>4
    <3>3. tidy => \A q \in Procs \ {p} : pc[q] # "write"
      BY <2>2, <3>1 DEF LoneRun
    <3> QED
      BY <2>1, <2>2, <3>1, <3>2, <3>3 DEF LoneInv, LoneRun, LoneSaveRepairs
  <2>9. CASE WriteShort(p)
    <3>1. pc'[p] = "done" /\ ~tidy'
      BY <2>9 DEF WriteShort, Goto, TypeOK
    <3> QED
      BY <2>1, <2>2, <3>1 DEF LoneInv, LoneRun, LoneSaveRepairs
  <2> QED
    BY <1>2, <2>4, <2>5, <2>6, <2>7, <2>8, <2>9 DEF Step, Saves
<1> QED
  BY <1>1, <1>2 DEF Next, Step

\* A save that nothing disturbed leaves a file that parses, whatever crashes,
\* full disks and overlapping writers came before it.
THEOREM LoneSaveHeals == Spec => []LoneSaveRepairs
<1>1. Init => TypeOK /\ PastInv /\ LoneInv
  BY TypeInit, PastInit, LoneInit
<1>2. TypeOK /\ PastInv /\ LoneInv /\ [Next]_vars => TypeOK' /\ PastInv' /\ LoneInv'
  BY TypeStep, PastStep, LoneStep
<1>3. LoneInv => LoneSaveRepairs
  BY DEF LoneInv
<1> QED
  BY <1>1, <1>2, <1>3, PTL DEF Spec
====
