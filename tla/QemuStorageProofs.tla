------------------------- MODULE QemuStorageProofs -------------------------
(***************************************************************************)
(* Proofs about the storage: for any data directories, configurations and  *)
(* number of tasks, what create and check promise is kept, and allocate    *)
(* leaves alone what a guest has written.                                  *)
(*                                                                         *)
(* A promise is about a moment when nobody is at work on the file and      *)
(* nobody is to blame, and steps of others come before that moment: so the *)
(* invariant has the weaker Kept and Seen, which every step preserves, for *)
(* the entries a caller has behind it and for what it has returned.        *)
(***************************************************************************)
EXTENDS QemuStorage, TLAPS

Kept(d, f) == AtWork(d, f) \/ f \in blame[d] \/ Clash(f) \/ state[d][f] = "whole"
Seen(d, f) == AtWork(d, f) \/ f \in blame[d] \/ Clash(f) \/ state[d][f] # "none"

\* What is written in part is at work, or somebody is to blame.
PartOK == \A d \in Dirs, f \in Files : state[d][f] = "part" => AtWork(d, f) \/ f \in blame[d]

\* A file is in the format of an entry it is for.
FormOK ==
    \A d \in Dirs, f \in Files :
      /\ state[d][f] # "none" \/ AtWork(d, f) => form[d][f] # "none"
      /\ form[d][f] # "none" =>
           \E e \in Entries : HasFile(e) /\ Dest(e) = f /\ Form(e) = form[d][f]

\* Nobody is about to make a disk that a guest uses or has used.
GuestOK ==
    \A d \in Dirs, f \in Files :
      data[d][f] \/ f \in open[d] =>
        state[d][f] # "none" /\ \A c \in Callers : ~At(c, {"make", "making"}, d, f)

JobKept(c) ==
    /\ job[c].at = "done" => job[c].i > Len(job[c].conf)
    /\ ~job[c].err =>
         \A j \in DOMAIN job[c].conf : j < job[c].i =>
           /\ job[c].op = "create" /\ HasFile(job[c].conf[j]) => Kept(job[c].dir, Dest(job[c].conf[j]))
           /\ job[c].op = "check" /\ job[c].conf[j].kind \in {"qcow2", "raw"} =>
                Seen(job[c].dir, Dest(job[c].conf[j]))

ReturnedOK ==
    \A d \in Dirs : /\ \A f \in allocated[d] : Kept(d, f)
                    /\ \A f \in checked[d] : Seen(d, f)

IInv ==
    /\ StorageTypeOK /\ PartOK /\ FormOK /\ GuestOK
    /\ \A c \in Callers : JobKept(c)
    /\ ReturnedOK

----------------------------------------------------------------------------
(* Entries                                                                 *)

LEMMA EntriesType == \A e \in Entries : e.kind \in Kinds /\ e.id \in Names
<1> TAKE e \in Entries
<1>1. PICK conf \in Confs : \E i \in DOMAIN conf : e = conf[i]
  BY DEF Entries, Range
<1>2. conf \in Seq([kind : Kinds, id : Names, path : Names])
  BY StorageAssumption
<1>3. \A S : conf \in Seq(S) => e \in S
  BY <1>1
<1>4. e \in [kind : Kinds, id : Names, path : Names]
  BY <1>2, <1>3, Zenon
<1> QED
  BY <1>4

LEMMA EntryForm ==
    ASSUME NEW e \in Entries, HasFile(e)
    PROVE  Form(e) \in {"qcow2", "raw", "iso"} /\ Dest(e) \in Files
<1>1. Form(e) \in {"qcow2", "raw", "iso"}
  BY DEF HasFile, FileKinds, DiskKinds, Form
<1>2. Dest(e) \in Files
  BY DEF Files
<1> QED
  BY <1>1, <1>2

LEMMA ConfType ==
    ASSUME NEW conf \in Confs \cup {<<>>}
    PROVE  /\ Len(conf) \in Nat /\ DOMAIN conf = 1..Len(conf)
           /\ conf # <<>> => conf \in Confs /\ 1 \in DOMAIN conf
           /\ \A i \in DOMAIN conf : conf[i] \in Entries
<1>1. CASE conf = <<>>
  BY <1>1
<1>2. CASE conf \in Confs /\ conf # <<>>
  <2>1. conf \in Seq([kind : Kinds, id : Names, path : Names])
    BY <1>2, StorageAssumption
  <2>2. Len(conf) \in Nat /\ DOMAIN conf = 1..Len(conf) /\ Len(conf) # 0
    BY <2>1, <1>2
  <2>3. \A i \in DOMAIN conf : conf[i] \in Entries
    BY <1>2 DEF Entries, Range
  <2> QED
    BY <1>2, <2>2, <2>3
<1> QED
  BY <1>1, <1>2

\* The entry a caller is at.
LEMMA EntryFacts ==
    ASSUME StorageTypeOK, NEW c \in Callers, job[c].at \notin {"idle", "done"}
    PROVE  /\ job[c].conf \in Confs /\ job[c].dir \in Dirs /\ Entry(c) \in Entries
           /\ job[c].i \in DOMAIN job[c].conf
           /\ HasFile(Entry(c)) => File(c) \in Files /\ Form(Entry(c)) \in {"qcow2", "raw", "iso"}
           /\ IsDisk(Entry(c)) \/ Entry(c).kind = "iso" => HasFile(Entry(c))
<1>1. job[c] \in Jobs /\ job[c].i \in DOMAIN job[c].conf
  BY DEF StorageTypeOK
<1>2. job[c].conf \in Confs \cup {<<>>} /\ job[c].dir \in Dirs
  BY <1>1 DEF Jobs
<1>3. Entry(c) \in Entries /\ job[c].conf # <<>>
  BY <1>1, <1>2, ConfType DEF Entry
<1>4. HasFile(Entry(c)) => File(c) \in Files /\ Form(Entry(c)) \in {"qcow2", "raw", "iso"}
  BY <1>3, EntryForm DEF File
<1>5. IsDisk(Entry(c)) \/ Entry(c).kind = "iso" => HasFile(Entry(c))
  BY DEF IsDisk, HasFile, FileKinds
<1> QED
  BY <1>1, <1>2, <1>3, <1>4, <1>5

----------------------------------------------------------------------------
(* Jobs                                                                    *)

\* The next entry, for a caller at one.
LEMMA AdvanceFacts ==
    ASSUME StorageTypeOK, NEW c \in Callers, job[c].at \notin {"idle", "done"},
           NEW bad \in BOOLEAN, Advance(c, bad)
    PROVE  /\ job' \in [Callers -> Jobs]
           /\ \A b \in Callers \ {c} : job'[b] = job[b]
           /\ job'[c].at \in {"entry", "done"} /\ job'[c].i = job[c].i + 1
           /\ job'[c].at = "entry" => job'[c].i \in DOMAIN job[c].conf
           /\ job'[c].at = "done" => job'[c].i > Len(job[c].conf)
           /\ job'[c].op = job[c].op /\ job'[c].conf = job[c].conf /\ job'[c].dir = job[c].dir
           /\ ~job'[c].err => ~job[c].err /\ ~bad
<1>1. job \in [Callers -> Jobs] /\ job[c] \in Jobs /\ job[c].i \in DOMAIN job[c].conf
  BY DEF StorageTypeOK
<1>2. Len(job[c].conf) \in Nat /\ DOMAIN job[c].conf = 1..Len(job[c].conf)
  BY <1>1, ConfType DEF Jobs
<1>3. PICK err \in BOOLEAN : err = (job[c].err \/ bad)
  OBVIOUS
<1> DEFINE at == IF job[c].i = Len(job[c].conf) THEN "done" ELSE "entry"
           new == [job[c] EXCEPT !.i = @ + 1, !.err = err, !.at = at]
<1>4. job' = [job EXCEPT ![c] = new]
  BY <1>1, <1>3 DEF Advance
<1>5. job'[c] = new /\ \A b \in Callers \ {c} : job'[b] = job[b]
  BY <1>1, <1>4
<1>6. job[c].i \in Nat /\ job[c].i + 1 \in Nat
  BY <1>1, <1>2
<1>7. /\ new \in Jobs /\ new.i = job[c].i + 1 /\ new.err = err /\ new.at = at
      /\ new.op = job[c].op /\ new.conf = job[c].conf /\ new.dir = job[c].dir
  <2>1. at \in {"entry", "done"}
    OBVIOUS
  <2>2. new = [job[c] EXCEPT !.i = job[c].i + 1, !.err = err, !.at = at]
    OBVIOUS
  <2>3. job[c] \in Jobs /\ job[c].i + 1 \in Nat
    BY <1>1, <1>6
  <2> HIDE DEF at, new
  <2> QED
    BY <2>1, <2>2, <2>3 DEF Jobs
<1>8. job' \in [Callers -> Jobs]
  <2> HIDE DEF new
  <2> QED
    BY <1>1, <1>4, <1>7
<1>9. /\ at = "entry" => job[c].i + 1 \in DOMAIN job[c].conf
      /\ at = "done" => job[c].i + 1 > Len(job[c].conf)
  BY <1>1, <1>2, <1>6
<1>10. ~job'[c].err => ~job[c].err /\ ~bad
  <2> HIDE DEF new
  <2> QED
    BY <1>5, <1>3, <1>7, Zenon
<1>11. job'[c].at = at /\ job'[c].i = job[c].i + 1 /\ job'[c].op = job[c].op
       /\ job'[c].conf = job[c].conf /\ job'[c].dir = job[c].dir
  <2> HIDE DEF new, at
  <2> QED
    BY <1>5, <1>7
<1>12. at \in {"entry", "done"}
  OBVIOUS
<1> HIDE DEF at, new
<1>13. /\ job'[c].at \in {"entry", "done"}
       /\ job'[c].at = "entry" => job'[c].i \in DOMAIN job[c].conf
       /\ job'[c].at = "done" => job'[c].i > Len(job[c].conf)
  BY <1>9, <1>11, <1>12
<1> QED
  BY <1>5, <1>8, <1>10, <1>11, <1>13, Zenon

LEMMA GotoFacts ==
    ASSUME StorageTypeOK, NEW c \in Callers, NEW l \in {"make", "making", "inspect", "copying"},
           Goto(c, l)
    PROVE  /\ job' \in [Callers -> Jobs]
           /\ \A b \in Callers \ {c} : job'[b] = job[b]
           /\ job'[c] = [job[c] EXCEPT !.at = l] /\ job'[c].at = l
           /\ job'[c].i = job[c].i /\ job'[c].op = job[c].op /\ job'[c].conf = job[c].conf
           /\ job'[c].dir = job[c].dir /\ job'[c].err = job[c].err
<1>1. job \in [Callers -> Jobs] /\ job[c] \in Jobs
  BY DEF StorageTypeOK
<1>2. [job[c] EXCEPT !.at = l] \in Jobs
  BY <1>1 DEF Jobs
<1>3. job' = [job EXCEPT ![c] = [job[c] EXCEPT !.at = l]]
  BY <1>1 DEF Goto
<1> QED
  BY <1>1, <1>2, <1>3 DEF Jobs

----------------------------------------------------------------------------
(* What one step of a caller does to the rest                              *)

\* Nothing a step does makes a promise untrue: a file is only begun by who is
\* then at work on it, and who is at work leaves it whole or is to blame.
Stable ==
    \A d \in Dirs, f \in Files :
      /\ Kept(d, f) => Kept(d, f)'
      /\ Seen(d, f) => Seen(d, f)'

\* A step of c that writes nothing, and is no work on a file before or after.
LEMMA QuietWork ==
    ASSUME NEW c \in Callers, \A b \in Callers \ {c} : job'[b] = job[b],
           job[c].at \notin {"making", "copying"}, job'[c].at \notin {"making", "copying"}
    PROVE  \A d, f : AtWork(d, f)' <=> AtWork(d, f)
<1>1. \A b \in Callers \ {c} : \A d, f :
        At(b, {"making", "copying"}, d, f)' <=> At(b, {"making", "copying"}, d, f)
  BY DEF At, File, Entry
<1>2. \A d, f : ~At(c, {"making", "copying"}, d, f) /\ ~At(c, {"making", "copying"}, d, f)'
  BY DEF At
<1> QED
  BY <1>1, <1>2 DEF AtWork

LEMMA QuietStable ==
    ASSUME \A d, f : AtWork(d, f)' <=> AtWork(d, f), UNCHANGED <<state, blame>>
    PROVE  Stable
BY DEF Stable, Kept, Seen

\* Other callers' promises are stable, and so is what was returned.
LEMMA OthersKept ==
    ASSUME IInv, StorageTypeOK, Stable, NEW b \in Callers, job'[b] = job[b]
    PROVE  JobKept(b)'
<1>1. job[b].dir \in Dirs /\ job[b].conf \in Confs \cup {<<>>}
  BY DEF StorageTypeOK, Jobs
<1>2. \A j \in DOMAIN job[b].conf : HasFile(job[b].conf[j]) => Dest(job[b].conf[j]) \in Files
  BY <1>1, ConfType, EntryForm
<1>3. \A j \in DOMAIN job[b].conf :
        job[b].conf[j].kind \in {"qcow2", "raw"} => HasFile(job[b].conf[j])
  BY DEF HasFile, FileKinds, DiskKinds
<1>4. JobKept(b)
  BY DEF IInv
<1>5. job'[b].at = "done" => job'[b].i > Len(job'[b].conf)
  BY <1>4 DEF JobKept
<1>6. ASSUME ~job[b].err, NEW j \in DOMAIN job[b].conf, j < job[b].i
      PROVE  /\ job[b].op = "create" /\ HasFile(job[b].conf[j]) =>
                  Kept(job[b].dir, Dest(job[b].conf[j]))'
             /\ job[b].op = "check" /\ job[b].conf[j].kind \in {"qcow2", "raw"} =>
                  Seen(job[b].dir, Dest(job[b].conf[j]))'
  <2>1. /\ job[b].op = "create" /\ HasFile(job[b].conf[j]) =>
             Kept(job[b].dir, Dest(job[b].conf[j]))
        /\ job[b].op = "check" /\ job[b].conf[j].kind \in {"qcow2", "raw"} =>
             Seen(job[b].dir, Dest(job[b].conf[j]))
    BY <1>4, <1>6 DEF JobKept
  <2> QED
    BY <1>1, <1>2, <1>3, <2>1 DEF Stable
<1> QED
  BY <1>5, <1>6 DEF JobKept

LEMMA ReturnedKept ==
    ASSUME IInv, StorageTypeOK, Stable, UNCHANGED <<allocated, checked>>
    PROVE  ReturnedOK'
BY DEF IInv, StorageTypeOK, ReturnedOK, Stable

----------------------------------------------------------------------------
(* Steps to the next entry                                                 *)

\* StorageTypeOK says this of every caller.
CallerOK(b) ==
    /\ job[b].at \notin {"idle", "done"} => job[b].i \in DOMAIN job[b].conf
    /\ job[b].at \in {"make", "making", "inspect"} => IsDisk(Entry(b))
    /\ job[b].at = "copying" => Entry(b).kind = "iso"
    /\ job[b].at \in {"make", "making", "inspect", "copying"} => job[b].op = "create"

LEMMA SameCaller ==
    ASSUME StorageTypeOK, NEW b \in Callers, job'[b] = job[b]
    PROVE  CallerOK(b)'
BY DEF StorageTypeOK, CallerOK, Entry

LEMMA AdvanceCaller ==
    ASSUME StorageTypeOK, NEW c \in Callers, job[c].at \notin {"idle", "done"},
           NEW bad \in BOOLEAN, Advance(c, bad)
    PROVE  job' \in [Callers -> Jobs] /\ \A b \in Callers : CallerOK(b)'
<1>1. \A b \in Callers \ {c} : CallerOK(b)'
  BY AdvanceFacts, SameCaller
<1>2. CallerOK(c)'
  BY AdvanceFacts DEF CallerOK
<1> QED
  BY <1>1, <1>2, AdvanceFacts

\* Only c stops to work, and nobody begins.
LEMMA AdvanceWork ==
    ASSUME StorageTypeOK, NEW c \in Callers, job[c].at \notin {"idle", "done"},
           NEW bad \in BOOLEAN, Advance(c, bad)
    PROVE  \A d, f :
             /\ AtWork(d, f)' => AtWork(d, f)
             /\ AtWork(d, f) => AtWork(d, f)' \/ At(c, {"making", "copying"}, d, f)
             /\ \A b \in Callers : At(b, {"make", "making"}, d, f)' => At(b, {"make", "making"}, d, f)
<1>1. \A b \in Callers \ {c} : \A d, f :
        /\ At(b, {"making", "copying"}, d, f)' <=> At(b, {"making", "copying"}, d, f)
        /\ At(b, {"make", "making"}, d, f)' <=> At(b, {"make", "making"}, d, f)
  BY AdvanceFacts DEF At, File, Entry
<1>2. \A d, f : ~At(c, {"making", "copying"}, d, f)' /\ ~At(c, {"make", "making"}, d, f)'
  BY AdvanceFacts DEF At
<1> QED
  BY <1>1, <1>2 DEF AtWork

\* The entry that c leaves behind keeps what its Ok will say.
LEMMA AdvanceKept ==
    ASSUME IInv, StorageTypeOK, Stable, NEW c \in Callers, job[c].at \notin {"idle", "done"},
           NEW bad \in BOOLEAN, Advance(c, bad), NEW d, d = job[c].dir, NEW f, f = File(c),
           ~bad /\ job[c].op = "create" /\ HasFile(Entry(c)) => Kept(d, f)',
           ~bad /\ job[c].op = "check" /\ Entry(c).kind \in {"qcow2", "raw"} => Seen(d, f)'
    PROVE  \A b \in Callers : JobKept(b)'
<1>1. \A b \in Callers \ {c} : JobKept(b)'
  BY AdvanceFacts, OthersKept
<1>2. job'[c].at = "done" => job'[c].i > Len(job'[c].conf)
  BY AdvanceFacts
<1>3. JobKept(c)
  BY DEF IInv
<1>4. job[c].dir \in Dirs /\ job[c].conf \in Confs \cup {<<>>} /\ job[c].i \in DOMAIN job[c].conf
  BY EntryFacts
<1>5. ASSUME ~job'[c].err, NEW j \in DOMAIN job[c].conf, j < job[c].i + 1,
             NEW e, e = job[c].conf[j]
      PROVE  /\ job[c].op = "create" /\ HasFile(e) => Kept(d, Dest(e))'
             /\ job[c].op = "check" /\ e.kind \in {"qcow2", "raw"} => Seen(d, Dest(e))'
  <2>1. ~job[c].err /\ ~bad
    BY <1>5, AdvanceFacts
  <2>2. j \in Nat /\ job[c].i \in Nat
    BY <1>4, ConfType
  <2>3. j < job[c].i \/ j = job[c].i
    BY <1>5, <2>2
  <2>4. CASE j = job[c].i
    <3>1. e = Entry(c) /\ Dest(e) = f
      BY <1>5, <2>4 DEF Entry, File
    <3> QED
      BY <2>1, <3>1
  <2>5. CASE j < job[c].i
    <3>1. /\ job[c].op = "create" /\ HasFile(e) => Kept(d, Dest(e))
          /\ job[c].op = "check" /\ e.kind \in {"qcow2", "raw"} => Seen(d, Dest(e))
      BY <1>3, <1>5, <2>1, <2>5 DEF JobKept
    <3>2. e \in Entries
      BY <1>4, <1>5, ConfType
    <3>3. (HasFile(e) \/ e.kind \in {"qcow2", "raw"}) => Dest(e) \in Files
      BY <3>2, EntryForm DEF HasFile, FileKinds, DiskKinds
    <3> QED
      BY <1>4, <3>1, <3>3 DEF Stable
  <2> QED
    BY <2>3, <2>4, <2>5
<1>6. JobKept(c)'
  <2>1. /\ job'[c].i = job[c].i + 1 /\ job'[c].op = job[c].op
        /\ job'[c].conf = job[c].conf /\ job'[c].dir = d
    BY AdvanceFacts
  <2> QED
    BY <1>2, <1>5, <2>1 DEF JobKept
<1> QED
  BY <1>1, <1>6

\* Most steps to the next entry change no file, or only shrink one.
LEMMA QuietAdvance ==
    ASSUME IInv, StorageTypeOK, NEW c \in Callers,
           job[c].at \notin {"idle", "done", "making", "copying"},
           NEW bad \in BOOLEAN, Advance(c, bad), UNCHANGED <<state, form, open, histVars, blame>>,
           data' \in [Dirs -> [Files -> BOOLEAN]],
           \A d \in Dirs, f \in Files : data'[d][f] => data[d][f],
           ~bad /\ job[c].op = "create" /\ HasFile(Entry(c)) => Kept(job[c].dir, File(c)),
           ~bad /\ job[c].op = "check" /\ Entry(c).kind \in {"qcow2", "raw"} =>
             Seen(job[c].dir, File(c))
    PROVE  IInv'
<1>1. \A d, f : AtWork(d, f)' <=> AtWork(d, f)
  BY AdvanceFacts, QuietWork
<1>2. Stable
  BY <1>1, QuietStable
<1>3. job[c].dir \in Dirs /\ (HasFile(Entry(c)) => File(c) \in Files)
      /\ (Entry(c).kind \in {"qcow2", "raw"} => HasFile(Entry(c)))
  BY EntryFacts DEF HasFile, FileKinds, DiskKinds
<1>4. ASSUME NEW d, d = job[c].dir, NEW f, f = File(c)
      PROVE  /\ ~bad /\ job[c].op = "create" /\ HasFile(Entry(c)) => Kept(d, f)'
             /\ ~bad /\ job[c].op = "check" /\ Entry(c).kind \in {"qcow2", "raw"} => Seen(d, f)'
  BY <1>2, <1>3, <1>4 DEF Stable
<1>5. \A b \in Callers : JobKept(b)'
  BY <1>2, <1>4, AdvanceKept
<1>6. StorageTypeOK'
  <2>1. job' \in [Callers -> Jobs] /\ \A b \in Callers : CallerOK(b)'
    BY AdvanceCaller
  <2> QED
    BY <2>1 DEF StorageTypeOK, CallerOK, histVars
<1>7. PartOK' /\ FormOK'
  BY <1>1 DEF IInv, PartOK, FormOK
<1>8. GuestOK'
  BY AdvanceWork DEF IInv, GuestOK
<1>9. ReturnedOK'
  BY <1>2, ReturnedKept DEF histVars
<1> QED
  BY <1>5, <1>6, <1>7, <1>8, <1>9 DEF IInv

LEMMA NoFileInv ==
    ASSUME IInv, NEW c \in Callers, NoFile(c)
    PROVE  IInv'
<1>1. StorageTypeOK /\ data \in [Dirs -> [Files -> BOOLEAN]]
  BY DEF IInv, StorageTypeOK
<1>2. PICK bad \in BOOLEAN : (Entry(c).kind # "block" => bad) /\ Advance(c, bad)
  BY DEF NoFile
<1>3. HasFile(Entry(c)) => bad
  BY <1>2 DEF HasFile, FileKinds, DiskKinds
<1> QED
  BY <1>1, <1>2, <1>3, QuietAdvance DEF NoFile, fileVars

LEMMA CheckInv ==
    ASSUME IInv, NEW c \in Callers, Check(c)
    PROVE  IInv'
<1>1. StorageTypeOK /\ data \in [Dirs -> [Files -> BOOLEAN]]
  BY DEF IInv, StorageTypeOK
<1>2. PICK bad \in BOOLEAN :
        /\ Entry(c).kind \in {"qcow2", "raw"} /\ state[job[c].dir][File(c)] = "none" => bad
        /\ Advance(c, bad)
  BY DEF Check
<1>3. ~bad /\ Entry(c).kind \in {"qcow2", "raw"} => Seen(job[c].dir, File(c))
  BY <1>2 DEF Seen
<1> QED
  BY <1>1, <1>2, <1>3, QuietAdvance DEF Check, fileVars

LEMMA InspectInv ==
    ASSUME IInv, NEW c \in Callers, Inspect(c)
    PROVE  IInv'
<1>1. StorageTypeOK /\ data \in [Dirs -> [Files -> BOOLEAN]] /\ job[c].op = "create"
  BY DEF IInv, StorageTypeOK, Inspect
<1>2. PICK bad \in BOOLEAN :
        (state[job[c].dir][File(c)] = "none" => bad) /\ Advance(c, bad)
  BY DEF Inspect
<1>3. job[c].dir \in Dirs /\ (HasFile(Entry(c)) => File(c) \in Files)
  BY <1>1, EntryFacts DEF Inspect
<1>4. ~bad /\ HasFile(Entry(c)) => Kept(job[c].dir, File(c))
  BY <1>1, <1>2, <1>3 DEF IInv, StorageTypeOK, PartOK, Kept
<1> QED
  BY <1>1, <1>2, <1>4, QuietAdvance DEF Inspect, fileVars

LEMMA SpawnErrorInv ==
    ASSUME IInv, NEW c \in Callers, SpawnError(c)
    PROVE  IInv'
<1>1. StorageTypeOK /\ data \in [Dirs -> [Files -> BOOLEAN]]
  BY DEF IInv, StorageTypeOK
<1> QED
  BY <1>1, QuietAdvance DEF SpawnError, fileVars

LEMMA ResizeInv ==
    ASSUME IInv, NEW c \in Callers, Resize(c)
    PROVE  IInv'
<1>1. StorageTypeOK /\ data \in [Dirs -> [Files -> BOOLEAN]]
  BY DEF IInv, StorageTypeOK
<1>2. job[c].at = "entry" /\ job[c].op = "resize" /\ UNCHANGED <<state, form, open, histVars, blame>>
  BY DEF Resize
<1>3. PICK bad \in BOOLEAN : Advance(c, bad)
  BY DEF Resize
<1>4. /\ data' \in [Dirs -> [Files -> BOOLEAN]]
      /\ \A d \in Dirs, f \in Files : data'[d][f] => data[d][f]
  <2>1. CASE UNCHANGED data
    BY <1>1, <2>1
  <2>2. CASE data' = [data EXCEPT ![job[c].dir][File(c)] = FALSE]
    BY <1>1, <2>2
  <2> QED
    BY <2>1, <2>2 DEF Resize
<1> QED
  BY <1>1, <1>2, <1>3, <1>4, QuietAdvance

----------------------------------------------------------------------------
(* Steps within an entry                                                   *)

LEMMA GotoCaller ==
    ASSUME StorageTypeOK, NEW c \in Callers, job[c].at \notin {"idle", "done"},
           job[c].op = "create", NEW l \in {"make", "making", "inspect", "copying"}, Goto(c, l),
           IF l = "copying" THEN Entry(c).kind = "iso" ELSE IsDisk(Entry(c))
    PROVE  job' \in [Callers -> Jobs] /\ \A b \in Callers : CallerOK(b)'
<1>1. \A b \in Callers \ {c} : CallerOK(b)'
  BY GotoFacts, SameCaller
<1>2. Entry(c)' = Entry(c)
  BY GotoFacts DEF Entry
<1>3. CallerOK(c)'
  BY <1>2, GotoFacts, EntryFacts DEF CallerOK
<1> QED
  BY <1>1, <1>3, GotoFacts

LEMMA GotoKept ==
    ASSUME IInv, StorageTypeOK, Stable, NEW c \in Callers,
           NEW l \in {"make", "making", "inspect", "copying"}, Goto(c, l)
    PROVE  \A b \in Callers : JobKept(b)'
<1>1. \A b \in Callers \ {c} : JobKept(b)'
  BY GotoFacts, OthersKept
<1>2. JobKept(c) /\ job[c].dir \in Dirs /\ job[c].conf \in Confs \cup {<<>>}
  BY DEF IInv, StorageTypeOK, Jobs
<1>3. ASSUME ~job[c].err, NEW j \in DOMAIN job[c].conf, j < job[c].i,
             NEW e, e = job[c].conf[j], NEW d, d = job[c].dir
      PROVE  /\ job[c].op = "create" /\ HasFile(e) => Kept(d, Dest(e))'
             /\ job[c].op = "check" /\ e.kind \in {"qcow2", "raw"} => Seen(d, Dest(e))'
  <2>1. /\ job[c].op = "create" /\ HasFile(e) => Kept(d, Dest(e))
        /\ job[c].op = "check" /\ e.kind \in {"qcow2", "raw"} => Seen(d, Dest(e))
    BY <1>2, <1>3 DEF JobKept
  <2>2. e \in Entries
    BY <1>2, <1>3, ConfType
  <2>3. (HasFile(e) \/ e.kind \in {"qcow2", "raw"}) => Dest(e) \in Files
    BY <2>2, EntryForm DEF HasFile, FileKinds, DiskKinds
  <2> QED
    BY <1>2, <1>3, <2>1, <2>3 DEF Stable
<1>4. JobKept(c)'
  BY <1>3, GotoFacts DEF JobKept
<1> QED
  BY <1>1, <1>4

LEMMA LookInv ==
    ASSUME IInv, NEW c \in Callers, Look(c)
    PROVE  IInv'
<1>1. PICK l \in {"make", "inspect"} :
        /\ Goto(c, l)
        /\ l = "make" => state[job[c].dir][File(c)] = "none"
  BY DEF Look
<1>2. /\ job[c].at = "entry" /\ job[c].op = "create" /\ IsDisk(Entry(c))
      /\ UNCHANGED <<state, form, data, open, allocated, checked, blame>>
  BY DEF Look, fileVars, histVars
<1>3. StorageTypeOK
  BY DEF IInv
<1>4. \A b \in Callers \ {c} : job'[b] = job[b]
  BY <1>1, <1>3, GotoFacts
<1>5. job'[c].at = l /\ File(c)' = File(c) /\ job'[c].dir = job[c].dir
  BY <1>1, <1>3, GotoFacts DEF File, Entry
<1>6. \A d, f : AtWork(d, f)' <=> AtWork(d, f)
  BY <1>2, <1>4, <1>5, QuietWork
<1>7. Stable
  BY <1>2, <1>6, QuietStable
<1>8. StorageTypeOK'
  <2>1. job' \in [Callers -> Jobs] /\ \A b \in Callers : CallerOK(b)'
    BY <1>1, <1>2, <1>3, GotoCaller
  <2> QED
    BY <1>2, <1>3, <2>1 DEF StorageTypeOK, CallerOK
<1>9. PartOK' /\ FormOK'
  BY <1>2, <1>6 DEF IInv, PartOK, FormOK
<1>10. GuestOK'
  <2>1. ASSUME NEW d \in Dirs, NEW f \in Files, data[d][f] \/ f \in open[d]
        PROVE  state[d][f] # "none" /\ \A b \in Callers : ~At(b, {"make", "making"}, d, f)'
    <3>1. state[d][f] # "none" /\ \A b \in Callers : ~At(b, {"make", "making"}, d, f)
      BY <2>1 DEF IInv, GuestOK
    <3>2. \A b \in Callers \ {c} : ~At(b, {"make", "making"}, d, f)'
      BY <1>4, <3>1 DEF At, File, Entry
    <3>3. ~At(c, {"make", "making"}, d, f)'
      BY <1>1, <1>5, <3>1 DEF At
    <3> QED
      BY <3>1, <3>2, <3>3
  <2> QED
    BY <1>2, <2>1 DEF GuestOK
<1>11. (\A b \in Callers : JobKept(b)') /\ ReturnedOK'
  BY <1>1, <1>2, <1>3, <1>7, GotoKept, ReturnedKept
<1> QED
  BY <1>8, <1>9, <1>10, <1>11 DEF IInv

LEMMA WriteInv ==
    ASSUME IInv, NEW c \in Callers, Make(c) \/ Copy(c)
    PROVE  IInv'
<1> DEFINE l == IF Make(c) THEN "making" ELSE "copying"
<1>1. /\ Write(c, l) /\ job[c].at \in {"make", "entry"} /\ job[c].op = "create"
      /\ IF l = "copying" THEN Entry(c).kind = "iso"
                          ELSE job[c].at = "make" /\ IsDisk(Entry(c))
  BY DEF Make, Copy, IInv, StorageTypeOK
<1>2. l \in {"making", "copying"}
  OBVIOUS
<1> HIDE DEF l
<1>3. StorageTypeOK
  BY DEF IInv
<1> DEFINE d0 == job[c].dir
           f0 == File(c)
<1>4. d0 \in Dirs /\ f0 \in Files /\ HasFile(Entry(c)) /\ Entry(c) \in Entries
      /\ Form(Entry(c)) \in {"qcow2", "raw", "iso"}
  BY <1>1, <1>3, EntryFacts
<1>5. /\ Goto(c, l)
      /\ state' = [state EXCEPT ![d0][f0] = "part"]
      /\ form' = [form EXCEPT ![d0][f0] = Form(Entry(c))]
      /\ data' = [data EXCEPT ![d0][f0] = FALSE]
      /\ UNCHANGED <<open, allocated, checked, blame>>
  BY <1>1 DEF Write, histVars
<1>6. /\ state \in [Dirs -> [Files -> {"none", "part", "whole"}]]
      /\ form \in [Dirs -> [Files -> {"none", "qcow2", "raw", "iso"}]]
      /\ data \in [Dirs -> [Files -> BOOLEAN]]
  BY <1>3 DEF StorageTypeOK
<1>7. \A b \in Callers \ {c} : job'[b] = job[b]
  BY <1>2, <1>3, <1>5, GotoFacts
<1>8. job'[c].at = l /\ File(c)' = f0 /\ job'[c].dir = d0
  BY <1>2, <1>3, <1>5, GotoFacts DEF File, Entry
<1>9. \A d, f : AtWork(d, f)' <=> AtWork(d, f) \/ (d = d0 /\ f = f0)
  <2>1. \A b \in Callers \ {c} : \A d, f :
          At(b, {"making", "copying"}, d, f)' <=> At(b, {"making", "copying"}, d, f)
    BY <1>7 DEF At, File, Entry
  <2>2. \A d, f : /\ At(c, {"making", "copying"}, d, f)' <=> d = d0 /\ f = f0
                  /\ ~At(c, {"making", "copying"}, d, f)
    BY <1>1, <1>2, <1>8 DEF At
  <2> QED
    BY <2>1, <2>2 DEF AtWork
<1> HIDE DEF d0, f0
<1>10. Stable
  BY <1>4, <1>5, <1>6, <1>9 DEF Stable, Kept, Seen
<1>11. StorageTypeOK'
  <2>1. job' \in [Callers -> Jobs] /\ \A b \in Callers : CallerOK(b)'
    BY <1>1, <1>2, <1>3, <1>5, GotoCaller
  <2>2. data' \in [Dirs -> [Files -> BOOLEAN]]
    BY <1>4, <1>5, <1>6
  <2>3. /\ state' \in [Dirs -> [Files -> {"none", "part", "whole"}]]
        /\ form' \in [Dirs -> [Files -> {"none", "qcow2", "raw", "iso"}]]
    BY <1>4, <1>5, <1>6
  <2> QED
    BY <1>3, <1>5, <2>1, <2>2, <2>3 DEF StorageTypeOK, CallerOK
<1>12. PartOK'
  BY <1>4, <1>5, <1>6, <1>9 DEF IInv, PartOK
<1>13. FormOK'
  <2>1. Dest(Entry(c)) = f0
    BY DEF f0, File
  <2>2. ASSUME NEW d \in Dirs, NEW f \in Files
        PROVE  /\ (state[d][f] # "none" \/ AtWork(d, f) => form[d][f] # "none")'
               /\ form'[d][f] # "none" =>
                    \E e \in Entries : HasFile(e) /\ Dest(e) = f /\ Form(e) = form'[d][f]
    <3>1. CASE d = d0 /\ f = f0
      BY <1>4, <1>5, <1>6, <2>1, <3>1
    <3>2. CASE ~(d = d0 /\ f = f0)
      BY <1>4, <1>5, <1>6, <1>9, <3>2 DEF IInv, FormOK
    <3> QED
      BY <3>1, <3>2
  <2> QED
    BY <2>2 DEF FormOK
<1>14. GuestOK'
  <2>1. \A b \in Callers \ {c} : \A d, f :
          At(b, {"make", "making"}, d, f)' <=> At(b, {"make", "making"}, d, f)
    BY <1>7 DEF At, File, Entry
  <2>2. \A d, f : At(c, {"make", "making"}, d, f)' => l = "making" /\ d = d0 /\ f = f0
    BY <1>2, <1>8 DEF At
  <2>3. l = "making" => At(c, {"make", "making"}, d0, f0)
    BY <1>1, <1>2 DEF At, d0, f0
  <2>4. l = "making" => f0 \notin open[d0] /\ ~data'[d0][f0]
    BY <1>4, <1>5, <1>6, <2>3 DEF IInv, GuestOK
  <2>5. ASSUME NEW d \in Dirs, NEW f \in Files, data'[d][f] \/ f \in open'[d]
        PROVE  state'[d][f] # "none" /\ \A b \in Callers : ~At(b, {"make", "making"}, d, f)'
    <3>1. data[d][f] \/ f \in open[d]
      BY <1>4, <1>5, <1>6, <2>5
    <3>2. state[d][f] # "none" /\ \A b \in Callers : ~At(b, {"make", "making"}, d, f)
      BY <3>1 DEF IInv, GuestOK
    <3>3. state'[d][f] # "none"
      BY <1>4, <1>5, <1>6, <3>2
    <3>4. \A b \in Callers : ~At(b, {"make", "making"}, d, f)'
      BY <2>1, <2>2, <2>3, <3>2
    <3> QED
      BY <3>3, <3>4
  <2> QED
    BY <2>5 DEF GuestOK
<1>15. (\A b \in Callers : JobKept(b)') /\ ReturnedOK'
  BY <1>2, <1>3, <1>5, <1>10, GotoKept, ReturnedKept
<1> QED
  BY <1>11, <1>12, <1>13, <1>14, <1>15 DEF IInv

\* qemu-img and the copy end, well or badly, with the file or with the blame.
LEMMA EndOfWork ==
    ASSUME IInv, NEW c \in Callers, job[c].at \in {"make", "making", "copying"},
           NEW bad \in BOOLEAN, Advance(c, bad),
           NEW d0, d0 = job[c].dir, NEW f0, f0 = File(c),
           NEW s \in {"none", "part", "whole"}, state' = [state EXCEPT ![d0][f0] = s],
           NEW m \in {form[d0][f0], Form(Entry(c))}, form' = [form EXCEPT ![d0][f0] = m],
           NEW g \in {{}, {f0}}, blame' = [blame EXCEPT ![d0] = @ \cup g],
           s = "whole" \/ g = {f0},
           job[c].at = "make" \/ s = "none" => s = state[d0][f0] \/ job[c].at = "making",
           UNCHANGED <<data, open, allocated, checked>>
    PROVE  IInv'
<1>1. StorageTypeOK /\ job[c].op = "create" /\ HasFile(Entry(c)) /\ Entry(c) \in Entries
      /\ d0 \in Dirs /\ f0 \in Files /\ Form(Entry(c)) \in {"qcow2", "raw", "iso"}
      /\ Dest(Entry(c)) = f0
  BY EntryFacts DEF IInv, StorageTypeOK, File
<1>2. /\ state \in [Dirs -> [Files -> {"none", "part", "whole"}]]
      /\ form \in [Dirs -> [Files -> {"none", "qcow2", "raw", "iso"}]]
      /\ blame \in [Dirs -> SUBSET Files]
  BY <1>1 DEF StorageTypeOK
<1>3. \A d, f :
        /\ AtWork(d, f)' => AtWork(d, f)
        /\ AtWork(d, f) => AtWork(d, f)' \/ (d = d0 /\ f = f0)
        /\ \A b \in Callers : At(b, {"make", "making"}, d, f)' => At(b, {"make", "making"}, d, f)
  <2>1. \A d, f : At(c, {"making", "copying"}, d, f) => d = d0 /\ f = f0
    BY DEF At
  <2> QED
    BY <1>1, <2>1, AdvanceWork
<1>4. s = "whole" \/ f0 \in blame'[d0]
  BY <1>1, <1>2
<1>5. state'[d0][f0] = s /\ \A d \in Dirs, f \in Files :
        ~(d = d0 /\ f = f0) => state'[d][f] = state[d][f] /\ form'[d][f] = form[d][f]
  BY <1>1, <1>2
<1>6. \A d \in Dirs : blame[d] \subseteq blame'[d]
  BY <1>1, <1>2
<1>7. Stable
  BY <1>1, <1>3, <1>4, <1>5, <1>6 DEF Stable, Kept, Seen
<1>8. StorageTypeOK'
  <2>1. job' \in [Callers -> Jobs] /\ \A b \in Callers : CallerOK(b)'
    BY <1>1, AdvanceCaller
  <2>2. /\ state' \in [Dirs -> [Files -> {"none", "part", "whole"}]]
        /\ form' \in [Dirs -> [Files -> {"none", "qcow2", "raw", "iso"}]]
        /\ blame' \in [Dirs -> SUBSET Files]
    BY <1>1, <1>2
  <2> QED
    BY <1>1, <2>1, <2>2 DEF StorageTypeOK, CallerOK
<1>9. PartOK'
  BY <1>1, <1>3, <1>4, <1>5, <1>6 DEF IInv, PartOK
<1>10. FormOK'
  <2>1. form[d0][f0] # "none" \/ (job[c].at = "make" /\ state[d0][f0] = "none")
    <3>1. job[c].at # "make" => AtWork(d0, f0)
      BY DEF AtWork, At
    <3> QED
      BY <1>1, <3>1 DEF IInv, FormOK
  <2>2. form'[d0][f0] = m
    BY <1>1, <1>2
  <2>3. ASSUME NEW d \in Dirs, NEW f \in Files
        PROVE  /\ state'[d][f] # "none" \/ AtWork(d, f)' => form'[d][f] # "none"
               /\ form'[d][f] # "none" =>
                    \E e \in Entries : HasFile(e) /\ Dest(e) = f /\ Form(e) = form'[d][f]
    <3>1. CASE ~(d = d0 /\ f = f0)
      BY <1>3, <1>5, <3>1 DEF IInv, FormOK
    <3>2. CASE d = d0 /\ f = f0 /\ m = Form(Entry(c))
      BY <1>1, <2>2, <3>2
    <3>3. CASE d = d0 /\ f = f0 /\ m = form[d0][f0]
      <4>1. state'[d][f] # "none" \/ AtWork(d, f)' => form'[d][f] # "none"
        BY <1>1, <1>3, <1>5, <2>1, <2>2, <3>3 DEF IInv, FormOK
      <4> QED
        BY <1>1, <2>2, <3>3, <4>1 DEF IInv, FormOK
    <3> QED
      BY <3>1, <3>2, <3>3
  <2> QED
    BY <2>3 DEF FormOK
<1>11. GuestOK'
  <2>1. job[c].at \in {"make", "making"} => At(c, {"make", "making"}, d0, f0)
    BY DEF At
  <2>2. data[d0][f0] \/ f0 \in open[d0] => job[c].at = "copying" /\ state[d0][f0] # "none"
    BY <1>1, <2>1 DEF IInv, GuestOK
  <2>3. data[d0][f0] \/ f0 \in open[d0] => state'[d0][f0] # "none"
    BY <1>5, <2>2
  <2>4. ASSUME NEW d \in Dirs, NEW f \in Files, data[d][f] \/ f \in open[d]
        PROVE  state'[d][f] # "none" /\ \A b \in Callers : ~At(b, {"make", "making"}, d, f)'
    <3>1. state[d][f] # "none" /\ \A b \in Callers : ~At(b, {"make", "making"}, d, f)
      BY <2>4 DEF IInv, GuestOK
    <3>2. state'[d][f] # "none"
      BY <1>5, <2>3, <2>4, <3>1
    <3> QED
      BY <1>3, <3>1, <3>2
  <2> QED
    BY <2>4 DEF GuestOK
<1>12. (\A b \in Callers : JobKept(b)') /\ ReturnedOK'
  <2>1. ASSUME NEW d, d = job[c].dir, NEW f, f = File(c)
        PROVE  Kept(d, f)'
    BY <1>4, <1>5, <2>1 DEF Kept
  <2>2. \A b \in Callers : JobKept(b)'
    BY <1>1, <1>7, <2>1, AdvanceKept
  <2>3. ReturnedOK'
    BY <1>1, <1>7, ReturnedKept
  <2> QED
    BY <2>2, <2>3
<1> QED
  BY <1>8, <1>9, <1>10, <1>11, <1>12 DEF IInv

LEMMA EndOfWorkInv ==
    ASSUME IInv, NEW c \in Callers, Written(c) \/ CopyError(c) \/ SilentError(c)
    PROVE  IInv'
<1> DEFINE d0 == job[c].dir
           f0 == File(c)
<1>1. StorageTypeOK /\ job[c].at \in {"make", "making", "copying"}
  BY DEF IInv, Written, CopyError, SilentError
<1>2. d0 \in Dirs /\ f0 \in Files
  BY <1>1, EntryFacts DEF IInv, StorageTypeOK
<1>3. /\ state \in [Dirs -> [Files -> {"none", "part", "whole"}]]
      /\ form \in [Dirs -> [Files -> {"none", "qcow2", "raw", "iso"}]]
      /\ blame \in [Dirs -> SUBSET Files]
  BY <1>1 DEF StorageTypeOK
<1>4. /\ state = [state EXCEPT ![d0][f0] = state[d0][f0]]
      /\ form = [form EXCEPT ![d0][f0] = form[d0][f0]]
      /\ blame = [blame EXCEPT ![d0] = @ \cup {}]
      /\ state[d0][f0] \in {"none", "part", "whole"}
  BY <1>2, <1>3
<1>5. CASE Written(c)
  <2>1. /\ Advance(c, FALSE) /\ job[c].at \in {"making", "copying"}
        /\ state' = [state EXCEPT ![d0][f0] = "whole"]
        /\ form' = [form EXCEPT ![d0][f0] = Form(Entry(c))]
        /\ UNCHANGED <<blame, data, open, allocated, checked>>
    BY <1>5 DEF Written, histVars
  <2> HIDE DEF d0, f0
  <2>2. blame' = [blame EXCEPT ![d0] = @ \cup {}]
    BY <1>4, <2>1
  <2> QED
    BY <1>1, <2>1, <2>2, EndOfWork DEF d0, f0
<1>6. CASE CopyError(c)
  <2>1. /\ Advance(c, TRUE) /\ job[c].at = "copying"
        /\ blame' = [blame EXCEPT ![d0] = @ \cup {f0}]
        /\ UNCHANGED <<state, form, data, open, allocated, checked>>
    BY <1>6 DEF CopyError, Blame, fileVars, histVars
  <2> HIDE DEF d0, f0
  <2>2. /\ state' = [state EXCEPT ![d0][f0] = state[d0][f0]]
        /\ form' = [form EXCEPT ![d0][f0] = form[d0][f0]]
    BY <1>4, <2>1
  <2> QED
    BY <1>1, <1>4, <2>1, <2>2, EndOfWork DEF d0, f0
<1>7. CASE SilentError(c)
  <2>1. /\ Advance(c, FALSE)
        /\ blame' = [blame EXCEPT ![d0] = @ \cup {f0}]
        /\ UNCHANGED <<form, data, open, allocated, checked>>
    BY <1>7 DEF SilentError, Blame, histVars
  <2> HIDE DEF d0, f0
  <2>2. form' = [form EXCEPT ![d0][f0] = form[d0][f0]]
    BY <1>4, <2>1
  <2>3. PICK s \in {"none", "part", "whole"} :
          /\ state' = [state EXCEPT ![d0][f0] = s]
          /\ job[c].at = "making" \/ s = state[d0][f0]
    <3>1. CASE job[c].at = "make" /\ UNCHANGED state
      BY <1>4, <3>1
    <3>2. CASE /\ job[c].at = "making"
               /\ \E s \in {"none", "part"} : state' = [state EXCEPT ![d0][f0] = s]
      BY <3>2
    <3> QED
      BY <1>7, <3>1, <3>2 DEF SilentError, d0, f0
  <2> QED
    BY <1>1, <2>1, <2>2, <2>3, EndOfWork DEF d0, f0
<1> QED
  BY <1>5, <1>6, <1>7

----------------------------------------------------------------------------
(* Calls, machines and crashes                                             *)

\* A step that changes no file and no more than an idle or finished job.
LEMMA QuietInv ==
    ASSUME IInv, NEW c \in Callers, job' \in [Callers -> Jobs],
           \A b \in Callers \ {c} : job'[b] = job[b], CallerOK(c)', JobKept(c)',
           job[c].at \in {"idle", "done"}, job'[c].at \in {"idle", "done", "entry"},
           UNCHANGED <<state, form, data, open, blame>>,
           {allocated', checked'} \subseteq [Dirs -> SUBSET Files], Stable => ReturnedOK'
    PROVE  IInv'
<1>1. StorageTypeOK
  BY DEF IInv
<1>2. \A d, f : AtWork(d, f)' <=> AtWork(d, f)
  BY QuietWork
<1>3. Stable
  BY <1>2, QuietStable
<1>4. StorageTypeOK'
  <2>1. \A b \in Callers : CallerOK(b)'
    BY <1>1, SameCaller
  <2> QED
    BY <1>1, <2>1 DEF StorageTypeOK, CallerOK
<1>5. PartOK' /\ FormOK'
  BY <1>2 DEF IInv, PartOK, FormOK
<1>6. GuestOK'
  <2>1. \A b \in Callers \ {c} : \A d, f :
          At(b, {"make", "making"}, d, f)' <=> At(b, {"make", "making"}, d, f)
    BY DEF At, File, Entry
  <2>2. \A d, f : ~At(c, {"make", "making"}, d, f)'
    BY DEF At
  <2> QED
    BY <2>1, <2>2 DEF IInv, GuestOK
<1>7. \A b \in Callers : JobKept(b)'
  BY <1>1, <1>3, OthersKept
<1> QED
  BY <1>3, <1>4, <1>5, <1>6, <1>7 DEF IInv

LEMMA BeginInv ==
    ASSUME IInv, NEW c \in Callers, NEW op \in {"create", "check", "resize"}, NEW d \in Dirs,
           NEW conf \in Confs, NEW id \in Names, Begin(c, op, d, conf, id)
    PROVE  IInv'
<1>1. StorageTypeOK /\ job \in [Callers -> Jobs]
  BY DEF IInv, StorageTypeOK
<1> DEFINE new == [at |-> IF conf = <<>> THEN "done" ELSE "entry", op |-> op, dir |-> d,
                   conf |-> conf, id |-> id, i |-> 1, err |-> FALSE]
<1>2. new \in Jobs
  BY DEF Jobs
<1>3. /\ job' = [job EXCEPT ![c] = new] /\ job[c].at = "idle"
      /\ UNCHANGED <<state, form, data, open, allocated, checked, blame>>
  BY DEF Begin, fileVars, histVars
<1>4. job' \in [Callers -> Jobs] /\ job'[c] = new /\ \A b \in Callers \ {c} : job'[b] = job[b]
  <2> HIDE DEF new
  <2> QED
    BY <1>1, <1>2, <1>3
<1>5. CallerOK(c)'
  BY <1>4, ConfType DEF CallerOK
<1>6. JobKept(c)'
  <2>1. Len(conf) \in Nat /\ DOMAIN conf = 1..Len(conf) /\ (conf = <<>> => Len(conf) = 0)
    BY ConfType
  <2>2. \A j \in DOMAIN conf : ~(j < 1)
    BY <2>1
  <2> QED
    BY <1>4, <2>1, <2>2 DEF JobKept
<1>7. {allocated', checked'} \subseteq [Dirs -> SUBSET Files]
  BY <1>1, <1>3 DEF StorageTypeOK
<1>8. Stable => ReturnedOK'
  BY <1>1, <1>3, ReturnedKept
<1>9. job'[c].at \in {"done", "entry"}
  BY <1>4
<1> QED
  BY <1>3, <1>4, <1>5, <1>6, <1>7, <1>8, <1>9, QuietInv

LEMMA IdleOK == Idle \in Jobs /\ Idle.at = "idle" /\ Idle.conf = <<>>
BY StorageAssumption DEF Idle, Jobs, Names

\* What an idle caller says holds.
LEMMA IdleCaller ==
    ASSUME NEW c \in Callers, job'[c] = Idle
    PROVE  CallerOK(c)' /\ JobKept(c)'
<1>1. DOMAIN Idle.conf = {}
  BY IdleOK
<1> QED
  BY <1>1, IdleOK DEF CallerOK, JobKept

LEMMA EndInv ==
    ASSUME IInv, NEW c \in Callers, End(c)
    PROVE  IInv'
<1> DEFINE d0 == job[c].dir
           Ok(op, kinds) ==
             IF job[c].op = op /\ ~job[c].err
             THEN {Dest(e) : e \in {x \in Range(job[c].conf) : x.kind \in kinds}} ELSE {}
<1>1. StorageTypeOK /\ job \in [Callers -> Jobs] /\ job[c] \in Jobs
      /\ allocated \in [Dirs -> SUBSET Files] /\ checked \in [Dirs -> SUBSET Files]
  BY DEF IInv, StorageTypeOK
<1>2. /\ job[c].at = "done" /\ job' = [job EXCEPT ![c] = Idle]
      /\ allocated' = [allocated EXCEPT ![d0] = @ \cup Ok("create", FileKinds)]
      /\ checked' = [checked EXCEPT ![d0] = @ \cup Ok("check", {"qcow2", "raw"})]
      /\ UNCHANGED <<state, form, data, open, blame>>
  BY DEF End, fileVars
<1>3. d0 \in Dirs /\ job[c].conf \in Confs \cup {<<>>}
  BY <1>1 DEF Jobs
<1>4. \A f \in Ok("create", FileKinds) : f \in Files /\ Kept(d0, f)
  <2> SUFFICES ASSUME NEW f \in Ok("create", FileKinds) PROVE f \in Files /\ Kept(d0, f)
    OBVIOUS
  <2>1. job[c].op = "create" /\ ~job[c].err
        /\ \E j \in DOMAIN job[c].conf : /\ job[c].conf[j].kind \in FileKinds
                                         /\ f = Dest(job[c].conf[j])
    BY DEF Range
  <2>2. PICK j \in DOMAIN job[c].conf : HasFile(job[c].conf[j]) /\ f = Dest(job[c].conf[j])
    BY <2>1 DEF HasFile
  <2>3. j < job[c].i
    <3>1. job[c].i > Len(job[c].conf) /\ job[c].i \in Nat
      BY <1>1, <1>2 DEF IInv, JobKept, Jobs
    <3>2. Len(job[c].conf) \in Nat /\ j \in 1..Len(job[c].conf)
      BY <1>3, ConfType
    <3> QED
      BY <3>1, <3>2
  <2> QED
    BY <1>3, <2>1, <2>2, <2>3, ConfType, EntryForm DEF IInv, JobKept
<1>5. \A f \in Ok("check", {"qcow2", "raw"}) : f \in Files /\ Seen(d0, f)
  <2> SUFFICES ASSUME NEW f \in Ok("check", {"qcow2", "raw"}) PROVE f \in Files /\ Seen(d0, f)
    OBVIOUS
  <2>1. job[c].op = "check" /\ ~job[c].err
        /\ \E j \in DOMAIN job[c].conf : /\ job[c].conf[j].kind \in {"qcow2", "raw"}
                                         /\ f = Dest(job[c].conf[j])
    BY DEF Range
  <2>2. PICK j \in DOMAIN job[c].conf :
          job[c].conf[j].kind \in {"qcow2", "raw"} /\ f = Dest(job[c].conf[j])
    BY <2>1
  <2>3. j < job[c].i
    <3>1. job[c].i > Len(job[c].conf) /\ job[c].i \in Nat
      BY <1>1, <1>2 DEF IInv, JobKept, Jobs
    <3>2. Len(job[c].conf) \in Nat /\ j \in 1..Len(job[c].conf)
      BY <1>3, ConfType
    <3> QED
      BY <3>1, <3>2
  <2>4. HasFile(job[c].conf[j])
    BY <2>2 DEF HasFile, FileKinds, DiskKinds
  <2> QED
    BY <1>3, <2>1, <2>2, <2>3, <2>4, ConfType, EntryForm DEF IInv, JobKept
<1> HIDE DEF d0, Ok
<1>6. job' \in [Callers -> Jobs] /\ job'[c] = Idle /\ \A b \in Callers \ {c} : job'[b] = job[b]
  BY <1>1, <1>2, IdleOK
<1>7. {allocated', checked'} \subseteq [Dirs -> SUBSET Files]
  BY <1>1, <1>2, <1>3, <1>4, <1>5
<1>8. Stable => ReturnedOK'
  <2> SUFFICES ASSUME Stable PROVE ReturnedOK'
    OBVIOUS
  <2>1. \A d \in Dirs :
          /\ \A f \in allocated'[d] : f \in Files /\ Kept(d, f)
          /\ \A f \in checked'[d] : f \in Files /\ Seen(d, f)
    BY <1>1, <1>2, <1>3, <1>4, <1>5 DEF IInv, ReturnedOK
  <2> QED
    BY <2>1 DEF ReturnedOK, Stable
<1> QED
  BY <1>2, <1>6, <1>7, <1>8, IdleOK, IdleCaller, QuietInv

LEMMA GuestInv ==
    ASSUME IInv, NEW d \in Dirs,
           \/ \E conf \in Confs : GuestStarts(d, conf)
           \/ GuestStops(d)
           \/ \E f \in Files : GuestWrites(d, f)
    PROVE  IInv'
<1>1. StorageTypeOK /\ UNCHANGED <<state, form, job, allocated, checked, blame>>
  BY DEF IInv, GuestStarts, GuestStops, GuestWrites, fileVars, histVars
<1>2. data \in [Dirs -> [Files -> BOOLEAN]] /\ open \in [Dirs -> SUBSET Files]
  BY <1>1 DEF StorageTypeOK
<1>3. /\ \A e, f : AtWork(e, f)' <=> AtWork(e, f)
      /\ \A c \in Callers : \A e, f :
           At(c, {"make", "making"}, e, f)' <=> At(c, {"make", "making"}, e, f)
  BY <1>1 DEF AtWork, At, File, Entry
<1>4. \A c \in Callers : job'[c] = job[c]
  BY <1>1
<1>5. Stable
  BY <1>1, <1>3, QuietStable
<1>6. /\ data' \in [Dirs -> [Files -> BOOLEAN]] /\ open' \in [Dirs -> SUBSET Files]
      /\ \A e \in Dirs, f \in Files : data'[e][f] \/ f \in open'[e] =>
           state[e][f] # "none" /\ \A c \in Callers : ~At(c, {"make", "making"}, e, f)
  <2>1. \A e \in Dirs, f \in Files : data[e][f] \/ f \in open[e] =>
          state[e][f] # "none" /\ \A c \in Callers : ~At(c, {"make", "making"}, e, f)
    BY DEF IInv, GuestOK
  <2>2. CASE GuestStops(d)
    BY <1>2, <2>1, <2>2 DEF GuestStops, fileVars
  <2>3. CASE \E f \in Files : GuestWrites(d, f)
    <3>1. PICK f \in Files : GuestWrites(d, f)
      BY <2>3
    <3>2. data' \in [Dirs -> [Files -> BOOLEAN]]
      BY <1>2, <3>1 DEF GuestWrites
    <3> QED
      BY <1>2, <2>1, <3>1, <3>2 DEF GuestWrites
  <2>4. CASE \E conf \in Confs : GuestStarts(d, conf)
    <3>1. PICK conf \in Confs : GuestStarts(d, conf)
      BY <2>4
    <3> DEFINE disks == {Dest(conf[i]) : i \in {j \in DOMAIN conf : IsDisk(conf[j])}}
    <3>2. data' = data /\ open' = [open EXCEPT ![d] = disks]
      BY <3>1 DEF GuestStarts, fileVars
    <3>3. \A f \in disks : f \in Files /\ state[d][f] = "whole"
      <4> SUFFICES ASSUME NEW i \in DOMAIN conf, IsDisk(conf[i])
                   PROVE  Dest(conf[i]) \in Files /\ state[d][Dest(conf[i])] = "whole"
        OBVIOUS
      <4>1. HasFile(conf[i]) /\ conf[i] \in Entries
        BY ConfType DEF IsDisk, HasFile, FileKinds
      <4>2. Usable(d, conf[i])
        BY <3>1 DEF GuestStarts
      <4> QED
        BY <4>1, <4>2, EntryForm DEF Usable
    <3>4. \A c \in Callers : \A e, f : ~At(c, {"make", "making"}, e, f)
      BY <1>1, <3>1 DEF GuestStarts, StorageTypeOK, At
    <3> HIDE DEF disks
    <3> QED
      BY <1>2, <2>1, <3>2, <3>3, <3>4
  <2> QED
    BY <2>2, <2>3, <2>4
<1>7. StorageTypeOK'
  BY <1>1, <1>6 DEF StorageTypeOK, Entry
<1>8. PartOK' /\ FormOK' /\ GuestOK'
  BY <1>1, <1>3, <1>6 DEF IInv, PartOK, FormOK, GuestOK
<1>9. (\A b \in Callers : JobKept(b)') /\ ReturnedOK'
  BY <1>1, <1>4, <1>5, OthersKept, ReturnedKept
<1> QED
  BY <1>7, <1>8, <1>9 DEF IInv

LEMMA CrashInv == IInv /\ StorageCrash => IInv'
<1> SUFFICES ASSUME IInv, StorageCrash PROVE IInv'
  OBVIOUS
<1>1. StorageTypeOK
  BY DEF IInv
<1>2. /\ job' = [c \in Callers |-> Idle]
      /\ blame' = [d \in Dirs |-> blame[d] \cup {f \in Files : AtWork(d, f)}]
      /\ UNCHANGED <<form, data, open, allocated, checked>>
  BY DEF StorageCrash, histVars
<1>3. PICK done :
        state' = [d \in Dirs |-> [f \in Files |->
                    IF f \in done /\ \E c \in Callers : At(c, {"making"}, d, f)
                    THEN "whole" ELSE state[d][f]]]
  BY DEF StorageCrash
<1>4. /\ job' \in [Callers -> Jobs]
      /\ \A c \in Callers : job'[c] = Idle /\ CallerOK(c)' /\ JobKept(c)'
  BY <1>2, IdleOK, IdleCaller
<1>5. \A d, f : ~AtWork(d, f)' /\ \A c \in Callers : ~At(c, {"make", "making"}, d, f)'
  BY <1>4, IdleOK DEF AtWork, At
<1>6. \A d \in Dirs, f \in Files :
        /\ state'[d][f] # state[d][f] => state'[d][f] = "whole" /\ AtWork(d, f)
        /\ f \in blame[d] \/ AtWork(d, f) => f \in blame'[d]
        /\ state'[d][f] \in {"none", "part", "whole"}
  <2>1. \A d \in Dirs, f \in Files : (\E c \in Callers : At(c, {"making"}, d, f)) => AtWork(d, f)
    BY DEF AtWork, At
  <2> QED
    BY <1>1, <1>2, <1>3, <2>1 DEF StorageTypeOK
<1>7. Stable
  BY <1>6 DEF Stable, Kept, Seen
<1>8. StorageTypeOK'
  <2>1. /\ state' \in [Dirs -> [Files -> {"none", "part", "whole"}]]
        /\ blame' \in [Dirs -> SUBSET Files]
    BY <1>1, <1>2, <1>3 DEF StorageTypeOK
  <2> QED
    BY <1>1, <1>2, <1>4, <2>1 DEF StorageTypeOK, CallerOK
<1>9. PartOK'
  BY <1>6 DEF IInv, PartOK
<1>10. FormOK' /\ GuestOK'
  BY <1>2, <1>5, <1>6 DEF IInv, FormOK, GuestOK
<1>11. ReturnedOK'
  BY <1>1, <1>2, <1>7, ReturnedKept
<1> QED
  BY <1>4, <1>8, <1>9, <1>10, <1>11 DEF IInv

LEMMA InitInv == StorageInit => IInv
<1> SUFFICES ASSUME StorageInit PROVE IInv
  OBVIOUS
<1>1. job \in [Callers -> Jobs] /\ \A c \in Callers : job[c] = Idle
  BY IdleOK DEF StorageInit
<1>2. \A d, f, c, l : At(c, l, d, f) /\ c \in Callers /\ "idle" \notin l => FALSE
  BY <1>1, IdleOK DEF At
<1>3. StorageTypeOK
  BY <1>1, IdleOK DEF StorageInit, StorageTypeOK
<1>4. PartOK /\ FormOK /\ GuestOK /\ ReturnedOK
  BY <1>2 DEF StorageInit, PartOK, FormOK, GuestOK, ReturnedOK, AtWork
<1>5. ASSUME NEW c \in Callers PROVE JobKept(c)
  <2>1. DOMAIN job[c].conf = {} /\ job[c].at = "idle"
    BY <1>1, IdleOK
  <2> QED
    BY <2>1 DEF JobKept
<1> QED
  BY <1>3, <1>4, <1>5 DEF IInv

LEMMA NextInv == IInv /\ [StorageNext]_storageVars => IInv'
<1> SUFFICES ASSUME IInv, [StorageNext]_storageVars PROVE IInv'
  OBVIOUS
<1>1. CASE UNCHANGED storageVars
  <2>1. UNCHANGED <<state, form, data, open, job, allocated, checked, blame>>
    BY <1>1 DEF storageVars, fileVars, histVars
  <2>2. \A d, f : AtWork(d, f)' <=> AtWork(d, f)
    BY <2>1 DEF AtWork, At, File, Entry
  <2>3. Stable
    BY <2>1, <2>2, QuietStable
  <2>4. (\A b \in Callers : JobKept(b)') /\ ReturnedOK' /\ StorageTypeOK'
    <3>1. StorageTypeOK
      BY DEF IInv
    <3> QED
      BY <2>1, <2>3, <3>1, OthersKept, ReturnedKept DEF StorageTypeOK, Entry
  <2>5. PartOK' /\ FormOK' /\ GuestOK'
    BY <2>1, <2>2 DEF IInv, PartOK, FormOK, GuestOK, At, File, Entry
  <2> QED
    BY <2>4, <2>5 DEF IInv
<1>2. ASSUME NEW c \in Callers, NEW d \in Dirs, NEW conf \in Confs,
             \/ \E op \in {"create", "check"} : Begin(c, op, d, conf, <<>>)
             \/ \E e \in Entries : Begin(c, "resize", d, conf, e.id)
      PROVE  IInv'
  <2>1. <<>> \in Names
    BY DEF Names
  <2> QED
    BY <1>2, <2>1, EntriesType, BeginInv
<1>3. ASSUME NEW c \in Callers, Work(c)
      PROVE  IInv'
  BY <1>3, NoFileInv, CheckInv, LookInv, InspectInv, WriteInv, EndOfWorkInv, SpawnErrorInv,
     ResizeInv DEF Work
<1>4. ASSUME NEW c \in Callers, End(c)
      PROVE  IInv'
  BY <1>4, EndInv
<1>5. CASE \/ \E d \in Dirs, conf \in Confs : GuestStarts(d, conf)
           \/ \E d \in Dirs : GuestStops(d) \/ \E f \in Files : GuestWrites(d, f)
  BY <1>5, GuestInv
<1>6. CASE StorageCrash
  BY <1>6, CrashInv
<1> QED
  BY <1>1, <1>2, <1>3, <1>4, <1>5, <1>6 DEF StorageNext

LEMMA Invariant == StorageSpec => []IInv
<1> QED
  BY InitInv, NextInv, PTL DEF StorageSpec

----------------------------------------------------------------------------
(* Theorems                                                                *)

\* Every variable has its type, and a caller is at an entry of its
\* configuration that is of the kind it works on.
THEOREM TypeCorrect == StorageSpec => []StorageTypeOK
<1>1. IInv => StorageTypeOK
  BY DEF IInv
<1> QED
  BY <1>1, Invariant, PTL

\* What a create or a check returned Ok for is there, once nobody is at work on
\* it, unless somebody is to blame or names clash.
THEOREM PromisesKeptHolds == StorageSpec => []PromisesKept
<1>1. IInv => PromisesKept
  <2> SUFFICES ASSUME IInv, NEW d \in Dirs, NEW e \in Entries, HasFile(e),
                      ~AtWork(d, Dest(e)), Dest(e) \notin blame[d], ~Clash(Dest(e))
               PROVE  /\ Dest(e) \in allocated[d] => Usable(d, e)
                      /\ Dest(e) \in checked[d] => state[d][Dest(e)] # "none"
    BY DEF PromisesKept
  <2>1. Dest(e) \in Files
    BY EntryForm
  <2>2. ASSUME Dest(e) \in allocated[d] PROVE Usable(d, e)
    <3>1. state[d][Dest(e)] = "whole"
      BY <2>2 DEF IInv, ReturnedOK, Kept
    <3>2. PICK x \in Entries : HasFile(x) /\ Dest(x) = Dest(e) /\ Form(x) = form[d][Dest(e)]
      BY <2>1, <3>1 DEF IInv, FormOK
    <3>3. Form(x) = Form(e)
      BY <3>2 DEF Clash
    <3> QED
      BY <3>1, <3>2, <3>3 DEF Usable
  <2>3. Dest(e) \in checked[d] => state[d][Dest(e)] # "none"
    BY DEF IInv, ReturnedOK, Seen
  <2> QED
    BY <2>2, <2>3
<1> QED
  BY <1>1, Invariant, PTL

\* What a guest has written is lost only to an ISO of that name or to a resize
\* that asks for it.
THEOREM GuestDataKeptHolds == StorageSpec => GuestDataKept
<1> DEFINE Lost(d, f) ==
             \E e \in Entries :
               /\ HasFile(e) /\ Dest(e) = f
               /\ \/ e.kind = "iso"
                  \/ \E c \in Callers : job[c].op = "resize" /\ job[c].id = e.id
           Step == \A d \in Dirs : \A f \in Files : data[d][f] /\ ~data'[d][f] => Lost(d, f)
<1>1. ASSUME IInv, StorageNext PROVE Step
  <2> SUFFICES ASSUME NEW d \in Dirs, NEW f \in Files, data[d][f], ~data'[d][f]
               PROVE  Lost(d, f)
    OBVIOUS
  <2>1. StorageTypeOK /\ data \in [Dirs -> [Files -> BOOLEAN]]
    BY <1>1 DEF IInv, StorageTypeOK
  <2>2. PICK c \in Callers : Make(c) \/ Copy(c) \/ Resize(c)
    <3>1. data' # data
      BY <2>1
    <3>2. ~StorageCrash
      BY <3>1 DEF StorageCrash
    <3>3. ~\E e \in Dirs : \E conf \in Confs : GuestStarts(e, conf)
      BY <3>1 DEF GuestStarts, fileVars
    <3>4. ~\E e \in Dirs : GuestStops(e) \/ \E g \in Files : GuestWrites(e, g)
      <4>1. \A e \in Dirs, g \in Files : ~(data' = [data EXCEPT ![e][g] = TRUE])
        BY <2>1
      <4> QED
        BY <3>1, <4>1 DEF GuestStops, GuestWrites, fileVars
    <3>5. \A c \in Callers : ~End(c) /\ \A op, e, conf, id : ~Begin(c, op, e, conf, id)
      BY <3>1 DEF End, Begin, fileVars
    <3>6. \A c \in Callers : Work(c) => Make(c) \/ Copy(c) \/ Resize(c)
      BY <3>1 DEF Work, NoFile, Check, Look, Inspect, Written, CopyError, SilentError, SpawnError,
         fileVars
    <3> QED
      BY <1>1, <3>2, <3>3, <3>4, <3>5, <3>6 DEF StorageNext
  <2>3. CASE Make(c)
    <3>1. d = job[c].dir /\ f = File(c)
      BY <2>1, <2>3 DEF Make, Write
    <3>2. At(c, {"make", "making"}, d, f)
      BY <2>3, <3>1 DEF Make, At
    <3> QED
      BY <1>1, <3>2 DEF IInv, GuestOK
  <2>4. CASE Copy(c)
    <3>1. f = File(c) /\ Entry(c).kind = "iso" /\ job[c].at = "entry"
      BY <2>1, <2>4 DEF Copy, Write
    <3> QED
      BY <2>1, <3>1, EntryFacts DEF File
  <2>5. CASE Resize(c)
    <3>1. /\ f = File(c) /\ Entry(c).id = job[c].id /\ IsDisk(Entry(c))
          /\ job[c].at = "entry" /\ job[c].op = "resize"
      BY <2>1, <2>5 DEF Resize
    <3> QED
      BY <2>1, <3>1, EntryFacts DEF File
  <2> QED
    BY <2>2, <2>3, <2>4, <2>5
<1>2. IInv /\ [StorageNext]_storageVars => [Step]_storageVars
  BY <1>1
<1> QED
  BY <1>2, Invariant, PTL DEF StorageSpec, GuestDataKept

=============================================================================
